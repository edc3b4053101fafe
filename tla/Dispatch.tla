------------------------------ MODULE Dispatch ------------------------------
(***************************************************************************)
(* Finding an operator for one rescue request: DispatchService (rounds of  *)
(* offers, the two-phase auction, the administrator's Expand and manual    *)
(* offer), the reconciler checks that end offers, bidding and the choice   *)
(* (BatchResolveCheck, BiddingCloseCheck, QuoteSelectionTimeoutCheck,      *)
(* OfferSweepCheck), and the motorist choosing or cancelling.              *)
(*                                                                         *)
(* A deadline is the time left until it, 0 once it has passed.  Every      *)
(* transaction is a step; a method that reads, awaits and writes is        *)
(* several, and a restart of the process loses those under way.            *)
(* WAITING_FOR_DEPOSIT stands for every status a booked job goes through.  *)
(***************************************************************************)
EXTENDS Naturals, FiniteSets, SequencesExt

CONSTANTS
    Operators,      \* operators on WhatsApp, all of them active
    Reach,          \* radius expansions before an operator is within reach
    BatchSize,      \* dispatchBatchSize
    MaxRounds,      \* MAX_ROUNDS_BEFORE_AUTO_CANCEL
    OfferTime,      \* dispatchWindowMinutes, and the manual offer's window
    CollectTime,    \* quoteCollectionMinutes
    SelectTime,     \* QUOTE_SELECTION_WINDOW_MS
    MaxOffers,      \* bound on the offers of the request
    MaxExpands,     \* bound on the administrator's Expands
    MaxManual,      \* bound on the administrator's manual offers
    MaxCrashes,     \* bound on restarts of the process
    None

ASSUME FiniteOperators == IsFiniteSet(Operators)
ASSUME ReachAssumption == Reach \in [Operators -> Nat]
ASSUME BatchAssumption == BatchSize \in Nat \ {0} /\ MaxRounds \in Nat \ {0}
ASSUME TimeAssumption == {OfferTime, CollectTime, SelectTime} \subseteq Nat \ {0}
ASSUME BoundAssumption == {MaxOffers, MaxExpands, MaxManual, MaxCrashes} \subseteq Nat
ASSUME NoneAssumption == None \notin Nat \cup Operators

VARIABLES
    request,     \* the RescueRequest row
    offers,      \* its DispatchOffer rows, in the order they were created
    session,     \* the motorist's WhatsApp session, and the list last sent
    reply,       \* how far the handling of an offer's answer has got
    start,       \* calls of startDispatch under way
    manual,      \* the manual offer under way
    resolving,   \* the batch BatchResolveCheck found expired
    delivery,    \* shortlists still to be sent, by who sends them
    cancelling,  \* a cancellation whose offers are still to be closed
    choice,      \* the quote the motorist meant, and the one booked
    expands, manuals, crashes,
    late         \* did the last tick pass with a handler under way?

dispatchVars == <<request, offers, session, reply, start, manual, resolving, delivery,
                  cancelling, choice, expands, manuals, crashes, late>>

OfferStatuses == {"PENDING", "QUOTED", "DECLINED", "TIMED_OUT", "NOT_SELECTED",
                  "SELECTED_PENDING_PAYMENT"}
Starters == {"customer", "admin"}
Senders == Starters \cup {"reconciler"}
OfferIds == 1 .. Len(offers)
Having(s) == {i \in OfferIds : offers[i].status = s}
Pending == Having("PENDING")
Quoted == Having("QUOTED")
Dispatching == request.status = "DISPATCHING"

(* isBiddingClosed: the shortlist has gone out, or the deadline has passed. *)
BiddingClosed == request.closed \/ request.deadline = 0

ClampedToNothing(time) ==                                           \* mutant
    request.deadline

(* An expiry that a running collection clamps.                             *)
Clamped(time) == IF request.deadline = None \/ time < request.deadline
                 THEN time ELSE request.deadline

(* Rows once those in S have become s; expiresAt matters only to PENDING.  *)
Ended(rows, S, s) == [i \in DOMAIN rows |->
    IF i \in S THEN [rows[i] EXCEPT !.status = s, !.left = 0] ELSE rows[i]]

NoStart == [pc |-> "idle", round |-> 0, asked |-> {}]
NoManual == [pc |-> "idle", op |-> None, left |-> 0]
NoSession == [choosing |-> FALSE, shown |-> {}]
NoChoice == [meant |-> None, booked |-> None]

DispatchInit ==
    /\ request = [status |-> "DISPATCHING", round |-> 0, asked |-> {}, deadline |-> None,
                  closed |-> FALSE, selection |-> None, manual |-> FALSE]
    /\ offers = <<>>
    /\ session = NoSession
    /\ reply = [i \in 1 .. MaxOffers |-> "none"]
    /\ start = [s \in Starters |-> IF s = "customer" THEN [NoStart EXCEPT !.pc = "called"]
                                   ELSE NoStart]
    /\ manual = NoManual
    /\ resolving = None
    /\ delivery = [d \in Senders |-> "none"]
    /\ cancelling = FALSE
    /\ choice = NoChoice
    /\ expands = 0 /\ manuals = 0 /\ crashes = 0 /\ late = FALSE

-----------------------------------------------------------------------------
(* Rounds.  asked is offeredOperatorIds as the round's transaction read it *)
(* and n the number of times the radius has been expanded.                 *)
Candidates(asked, n) == {o \in Operators \ asked : Reach[o] <= n}

Expansions(round) == IF round > 1 THEN round - 1 ELSE 0

(* prepareNextRound tries ever wider radii, a round for each, below the    *)
(* round cap; the first attempt is made whatever the round.                *)
Attempts(round, asked) ==
    {i \in 0 .. MaxRounds : /\ i = 0 \/ round + i < MaxRounds
                            /\ Candidates(asked, Expansions(round) + i) # {}}

(* The candidates ranked best fill the batch; the ranking weighs history,  *)
(* so any of them may come out best.                                       *)
Batches(cands) == {b \in SUBSET cands : Cardinality(b) = BatchSize
                                        \/ (b = cands /\ Cardinality(b) < BatchSize)}

NewOffer(o, s, left, first, round) ==
    [op |-> o, status |-> s, left |-> left, batch |-> first, round |-> round]

(* writeRound, on top of what the transaction has already done to the rows *)
(* and the request.                                                        *)
WriteRound(rows, req, batch, round) ==
    /\ Len(rows) + Cardinality(batch) <= MaxOffers
    /\ LET ops == SetToSeq(batch) IN
       offers' = rows \o [k \in DOMAIN ops |->
           NewOffer(ops[k], "PENDING", Clamped(OfferTime), Len(rows) + 1, round)]
    /\ request' = [req EXCEPT !.asked = @ \cup batch, !.round = round, !.manual = FALSE]
    /\ UNCHANGED session

ExhaustQuietly(rows, req, round) ==                                 \* mutant
    /\ request' = [req EXCEPT !.round = round]
    /\ offers' = rows
    /\ UNCHANGED session

(* resolveExhaustion: hand the request to staff if an operator without     *)
(* WhatsApp is left in reach, cancel it otherwise.                         *)
ResolveExhaustion(rows, req, round) ==
    \/ /\ request' = [req EXCEPT !.manual = TRUE, !.round = round]
       /\ offers' = rows
       /\ UNCHANGED session
    \/ /\ request' = [req EXCEPT !.status = "CANCELLED", !.manual = FALSE, !.round = round]
       /\ offers' = Ended(rows, {i \in DOMAIN rows : rows[i].status = "PENDING"}, "TIMED_OUT")
       /\ session' = [session EXCEPT !.choosing = FALSE]

PrepareNextRound(rows, req, round, asked) ==
    LET tries == Attempts(round, asked) IN
    \/ \E i \in tries :
          /\ \A j \in tries : i <= j
          /\ \E batch \in Batches(Candidates(asked, Expansions(round) + i)) :
                WriteRound(rows, req, batch, round + i)
    \/ /\ tries = {}
       /\ ResolveExhaustion(rows, req, IF round < MaxRounds THEN MaxRounds ELSE round + 1)

(* startDispatch: the status and the round, then the quotes and whether    *)
(* bidding is closed, then one transaction that looks at neither again.    *)
(* At READ COMMITTED its reads and its writes are steps of their own.      *)
StartRead(s) ==
    /\ start[s].pc = "called"
    /\ start' = [start EXCEPT ![s] = IF Dispatching
                     THEN [NoStart EXCEPT !.pc = "read", !.round = request.round]
                     ELSE NoStart]
    /\ UNCHANGED <<request, offers, session, reply, manual, resolving, delivery, cancelling,
                   choice, expands, manuals, crashes, late>>

StartCheck(s) ==
    /\ start[s].pc = "read"
    /\ \/ /\ Quoted # {}
          /\ delivery' = [delivery EXCEPT ![s] = "due"]
          /\ start' = [start EXCEPT ![s] = NoStart]
       \/ /\ Quoted = {}
          /\ start' = [start EXCEPT ![s] = IF BiddingClosed THEN NoStart
                           ELSE [@ EXCEPT !.pc = "write", !.asked = request.asked]]
          /\ UNCHANGED delivery
    /\ UNCHANGED <<request, offers, session, reply, manual, resolving, cancelling, choice,
                   expands, manuals, crashes, late>>

StartWrite(s) ==
    /\ start[s].pc = "write"
    /\ PrepareNextRound(offers, request, start[s].round, start[s].asked)
    /\ start' = [start EXCEPT ![s] = NoStart]
    /\ UNCHANGED <<reply, manual, resolving, delivery, cancelling, choice, expands, manuals,
                   crashes, late>>

-----------------------------------------------------------------------------
(* The administrator.                                                      *)
MayOffer == Dispatching /\ ~BiddingClosed

(* expandRadiusNow reads the request, then writes the round it read plus   *)
(* one and calls startDispatch without waiting for it.                     *)
ExpandRead ==
    /\ expands < MaxExpands
    /\ start["admin"].pc = "idle" /\ delivery["admin"] = "none"
    /\ MayOffer
    /\ start' = [start EXCEPT !["admin"].pc = "expand", !["admin"].round = request.round]
    /\ expands' = expands + 1
    /\ UNCHANGED <<request, offers, session, reply, manual, resolving, delivery, cancelling,
                   choice, manuals, crashes, late>>

ExpandWrite ==
    /\ start["admin"].pc = "expand"
    /\ request' = [request EXCEPT !.round = start["admin"].round + 1]
    /\ start' = [start EXCEPT !["admin"] = [NoStart EXCEPT !.pc = "called"]]
    /\ UNCHANGED <<offers, session, reply, manual, resolving, delivery, cancelling, choice,
                   expands, manuals, crashes, late>>

(* manualOfferToOperator: the guards and the clamped expiry, the re-check  *)
(* of the close, and the transaction that locks the request.               *)
ManualRead(o) ==
    /\ manuals < MaxManual
    /\ manual.pc = "idle"
    /\ MayOffer
    /\ manual' = [pc |-> "read", op |-> o, left |-> Clamped(OfferTime)]
    /\ manuals' = manuals + 1
    /\ UNCHANGED <<request, offers, session, reply, start, resolving, delivery, cancelling,
                   choice, expands, crashes, late>>

ManualCheck ==
    /\ manual.pc = "read"
    /\ manual' = IF BiddingClosed THEN NoManual ELSE [manual EXCEPT !.pc = "write"]
    /\ UNCHANGED <<request, offers, session, reply, start, resolving, delivery, cancelling,
                   choice, expands, manuals, crashes, late>>

ManualWrite ==
    /\ manual.pc = "write"
    /\ Len(offers) < MaxOffers
    /\ LET live == {i \in OfferIds : /\ offers[i].op = manual.op
                                     /\ \/ offers[i].status = "QUOTED"
                                        \/ offers[i].status = "PENDING" /\ offers[i].left > 0}
       IN IF live = {}
          THEN /\ offers' = Append(offers, NewOffer(manual.op, "PENDING", manual.left,
                                                    Len(offers) + 1, request.round))
               /\ request' = [request EXCEPT !.asked = @ \cup {manual.op}]
          ELSE UNCHANGED <<offers, request>>
    /\ manual' = NoManual
    /\ UNCHANGED <<session, reply, start, resolving, delivery, cancelling, choice, expands,
                   manuals, crashes, late>>

(* assignOperator: staff book an operator at an agreed price; the other    *)
(* offers are left as they are.                                            *)
AssignOperator(o) ==
    /\ Dispatching
    /\ Len(offers) < MaxOffers
    /\ request' = [request EXCEPT !.status = "WAITING_FOR_DEPOSIT", !.manual = FALSE]
    /\ offers' = Append(offers, NewOffer(o, "SELECTED_PENDING_PAYMENT", 0, Len(offers) + 1,
                                         request.round))
    /\ UNCHANGED <<session, reply, start, manual, resolving, delivery, cancelling, choice,
                   expands, manuals, crashes, late>>

-----------------------------------------------------------------------------
(* Operators answering, over WhatsApp or the dashboard.                    *)

QuoteUnchecked(i) ==                                                \* mutant
    /\ i \in Pending /\ reply[i] = "none"
    /\ reply' = [reply EXCEPT ![i] = "open"]
    /\ UNCHANGED <<request, offers, session, start, manual, resolving, delivery, cancelling,
                   choice, expands, manuals, crashes, late>>

(* A price: claimOfferInTx first reads whether bidding is closed.  If it   *)
(* is, the offer becomes NOT_SELECTED unless something ended it already.   *)
Quote(i) ==
    /\ i \in Pending /\ reply[i] = "none"
    /\ \/ /\ BiddingClosed
          /\ offers' = Ended(offers, {i}, "NOT_SELECTED")
          /\ UNCHANGED reply
       \/ /\ ~BiddingClosed
          /\ reply' = [reply EXCEPT ![i] = "open"]
          /\ UNCHANGED offers
    /\ UNCHANGED <<request, session, start, manual, resolving, delivery, cancelling, choice,
                   expands, manuals, crashes, late>>

(* The claim itself: PENDING and not yet expired.                          *)
ClaimQuote(i) ==
    /\ reply[i] = "open"
    /\ IF i \in Pending /\ offers[i].left > 0
       THEN /\ offers' = Ended(offers, {i}, "QUOTED")
            /\ reply' = [reply EXCEPT ![i] = "quoted"]
       ELSE /\ reply' = [reply EXCEPT ![i] = "none"]
            /\ UNCHANGED offers
    /\ UNCHANGED <<request, session, start, manual, resolving, delivery, cancelling, choice,
                   expands, manuals, crashes, late>>

Decline(i) ==
    /\ i \in Pending /\ reply[i] = "none"
    /\ offers[i].left > 0
    /\ offers' = Ended(offers, {i}, "DECLINED")
    /\ reply' = [reply EXCEPT ![i] = "answered"]
    /\ UNCHANGED <<request, session, start, manual, resolving, delivery, cancelling, choice,
                   expands, manuals, crashes, late>>

BeginEveryTime(i) ==                                                \* mutant
    /\ reply[i] = "quoted"
    /\ request' = [request EXCEPT !.deadline = CollectTime]
    /\ reply' = [reply EXCEPT ![i] = "answered"]
    /\ UNCHANGED <<offers, session, start, manual, resolving, delivery, cancelling, choice,
                   expands, manuals, crashes, late>>

(* beginQuoteCollectionIfFirst: only the first quote sets the deadline,    *)
(* and with it the end of every pending offer.                             *)
BeginCollection(i) ==
    /\ reply[i] = "quoted"
    /\ IF request.deadline = None
       THEN /\ request' = [request EXCEPT !.deadline = CollectTime]
            /\ offers' = [k \in OfferIds |->
                   IF k \in Pending /\ offers[k].left > CollectTime
                   THEN [offers[k] EXCEPT !.left = CollectTime] ELSE offers[k]]
       ELSE UNCHANGED <<request, offers>>
    /\ reply' = [reply EXCEPT ![i] = "answered"]
    /\ UNCHANGED <<session, start, manual, resolving, delivery, cancelling, choice, expands,
                   manuals, crashes, late>>

(* maybeResolveBatchEarly.  In phase 1 it moves the expiry of a batch that *)
(* has no PENDING offer left, which nothing reads; in phase 2, once nobody *)
(* is pending, it pulls the deadline forward for BiddingCloseCheck.        *)
EarlyRead(i) ==
    /\ reply[i] = "answered"
    /\ reply' = [reply EXCEPT ![i] =
           IF request.deadline # None /\ Pending = {} THEN "early" ELSE "none"]
    /\ UNCHANGED <<request, offers, session, start, manual, resolving, delivery, cancelling,
                   choice, expands, manuals, crashes, late>>

EarlyPull(i) ==
    /\ reply[i] = "early"
    /\ request' = IF Dispatching /\ ~request.closed THEN [request EXCEPT !.deadline = 0]
                  ELSE request
    /\ reply' = [reply EXCEPT ![i] = "none"]
    /\ UNCHANGED <<offers, session, start, manual, resolving, delivery, cancelling, choice,
                   expands, manuals, crashes, late>>

-----------------------------------------------------------------------------
(* The reconciler runs its checks one after the other, and awaits the      *)
(* shortlist a check sends.                                                *)
ReconcilerIdle == resolving = None /\ delivery["reconciler"] = "none"

Expired(b) == {i \in Pending : offers[i].batch = b /\ offers[i].left = 0}

BatchQuery(b) ==
    /\ ReconcilerIdle
    /\ Dispatching
    /\ Expired(b) # {}
    /\ resolving' = b
    /\ UNCHANGED <<request, offers, session, reply, start, manual, delivery, cancelling,
                   choice, expands, manuals, crashes, late>>

(* BatchResolveCheck.resolve: end the batch's offers, claim the round and  *)
(* progress, or leave progress to whoever owns it by now.                  *)
BatchResolve ==
    /\ resolving # None
    /\ LET rows == Ended(offers, Expired(resolving), "TIMED_OUT")
           round == offers[resolving].round
           mine == Dispatching /\ request.deadline = None /\ request.round = round
           advanced == [request EXCEPT !.round = round + 1]
       IN \/ /\ ~mine
             /\ offers' = rows
             /\ UNCHANGED <<request, session, delivery>>
          \/ /\ mine /\ Quoted # {}
             /\ offers' = Ended(offers, Pending, "TIMED_OUT")
             /\ request' = [advanced EXCEPT !.closed = TRUE, !.selection = SelectTime]
             /\ delivery' = [delivery EXCEPT !["reconciler"] = "due"]
             /\ UNCHANGED session
          \/ /\ mine /\ Quoted = {}
             /\ PrepareNextRound(rows, advanced, round + 1, request.asked)
             /\ UNCHANGED delivery
    /\ resolving' = None
    /\ UNCHANGED <<reply, start, manual, cancelling, choice, expands, manuals, crashes, late>>

CloseThenOpenLater ==                                               \* mutant
    /\ ReconcilerIdle
    /\ Dispatching /\ request.deadline = 0 /\ ~request.closed
    /\ request' = [request EXCEPT !.closed = TRUE]
    /\ offers' = Ended(offers, Pending, "TIMED_OUT")
    /\ delivery' = [delivery EXCEPT !["reconciler"] = "due"]
    /\ UNCHANGED <<session, reply, start, manual, resolving, cancelling, choice, expands,
                   manuals, crashes, late>>

CloseAgain ==                                                       \* mutant
    /\ ReconcilerIdle
    /\ Dispatching /\ request.deadline = 0
    /\ request' = [request EXCEPT !.closed = TRUE, !.selection = SelectTime]
    /\ offers' = Ended(offers, Pending, "TIMED_OUT")
    /\ delivery' = [delivery EXCEPT !["reconciler"] = "due"]
    /\ UNCHANGED <<session, reply, start, manual, resolving, cancelling, choice, expands,
                   manuals, crashes, late>>

CloseOpenOffers ==                                                  \* mutant
    /\ ReconcilerIdle
    /\ Dispatching /\ request.deadline = 0 /\ ~request.closed /\ Pending # {}
    /\ request' = [request EXCEPT !.closed = TRUE, !.selection = SelectTime]
    /\ offers' = Ended(offers, Pending, "TIMED_OUT")
    /\ delivery' = [delivery EXCEPT !["reconciler"] = "due"]
    /\ UNCHANGED <<session, reply, start, manual, resolving, cancelling, choice, expands,
                   manuals, crashes, late>>

BiddingClose ==
    /\ ReconcilerIdle
    /\ Dispatching /\ request.deadline = 0 /\ ~request.closed
    /\ request' = [request EXCEPT !.closed = TRUE, !.selection = SelectTime]
    /\ offers' = Ended(offers, Pending, "TIMED_OUT")
    /\ delivery' = [delivery EXCEPT !["reconciler"] = "due"]
    /\ UNCHANGED <<session, reply, start, manual, resolving, cancelling, choice, expands,
                   manuals, crashes, late>>

TimeOutShownLists ==                                                \* mutant
    /\ ReconcilerIdle
    /\ Dispatching /\ request.selection = 0 /\ session.choosing
    /\ request' = [request EXCEPT !.status = "CANCELLED", !.manual = FALSE]
    /\ offers' = Ended(offers, Quoted, "TIMED_OUT")
    /\ session' = [session EXCEPT !.choosing = FALSE]
    /\ UNCHANGED <<reply, start, manual, resolving, delivery, cancelling, choice, expands,
                   manuals, crashes, late>>

QuoteSelectionTimeout ==
    /\ ReconcilerIdle
    /\ Dispatching /\ request.selection = 0
    /\ request' = [request EXCEPT !.status = "CANCELLED", !.manual = FALSE]
    /\ offers' = Ended(offers, Quoted, "TIMED_OUT")
    /\ session' = [session EXCEPT !.choosing = FALSE]
    /\ UNCHANGED <<reply, start, manual, resolving, delivery, cancelling, choice, expands,
                   manuals, crashes, late>>

SweepCancelled ==                                                   \* mutant
    /\ ReconcilerIdle
    /\ request.status = "CANCELLED" /\ Pending # {}
    /\ offers' = Ended(offers, Pending, "TIMED_OUT")
    /\ UNCHANGED <<request, session, reply, start, manual, resolving, delivery, cancelling,
                   choice, expands, manuals, crashes, late>>

OfferSweep ==
    /\ ReconcilerIdle
    /\ LET sweepable == {i \in Pending : /\ ~Dispatching
                                         /\ \/ offers[i].left = 0
                                            \/ request.status = "CANCELLED"}
       IN /\ sweepable # {}
          /\ offers' = Ended(offers, sweepable, "TIMED_OUT")
    /\ UNCHANGED <<request, session, reply, start, manual, resolving, delivery, cancelling,
                   choice, expands, manuals, crashes, late>>

-----------------------------------------------------------------------------
(* deliverQuoteShortlist: look at the request again, send the list, and    *)
(* then move the session.                                                  *)
SendShortlist(d) ==
    /\ delivery[d] = "due"
    /\ IF Dispatching /\ Quoted # {}
       THEN /\ session' = [session EXCEPT !.shown = Quoted]
            /\ delivery' = [delivery EXCEPT ![d] = "sent"]
       ELSE /\ delivery' = [delivery EXCEPT ![d] = "none"]
            /\ UNCHANGED session
    /\ UNCHANGED <<request, offers, reply, start, manual, resolving, cancelling, choice,
                   expands, manuals, crashes, late>>

OpenChoice(d) ==
    /\ delivery[d] = "sent"
    /\ session' = [session EXCEPT !.choosing = TRUE]
    /\ delivery' = [delivery EXCEPT ![d] = "none"]
    /\ UNCHANGED <<request, offers, reply, start, manual, resolving, cancelling, choice,
                   expands, manuals, crashes, late>>

(* rankQuotes orders the quotes by price and distance, whatever the order  *)
(* they came in; here by offer, and offers are answered in any order.      *)
Position(S, i) == Cardinality({j \in S : j <= i})

SelectUnclaimed(i) ==                                               \* mutant
    /\ session.choosing /\ i \in session.shown
    /\ \E j \in Quoted :
          /\ Position(Quoted, j) = Position(session.shown, i)
          /\ offers' = [Ended(offers, Pending, "TIMED_OUT") EXCEPT ![j].status =
                             "SELECTED_PENDING_PAYMENT"]
          /\ choice' = [meant |-> i, booked |-> j]
    /\ request' = [request EXCEPT !.status = "WAITING_FOR_DEPOSIT"]
    /\ session' = [session EXCEPT !.choosing = FALSE]
    /\ UNCHANGED <<reply, start, manual, resolving, delivery, cancelling, expands, manuals,
                   crashes, late>>

(* handleQuoteSelected: the motorist answers with a position in the list   *)
(* last sent, which is looked up in the quotes as they are now.            *)
SelectQuote(i) ==
    /\ session.choosing /\ i \in session.shown
    /\ Dispatching
    /\ \E j \in Quoted :
          /\ Position(Quoted, j) = Position(session.shown, i)
          /\ offers' = Ended(Ended(Ended(offers, {j}, "SELECTED_PENDING_PAYMENT"),
                                    Quoted \ {j}, "NOT_SELECTED"), Pending, "TIMED_OUT")
          /\ choice' = [meant |-> i, booked |-> j]
    /\ request' = [request EXCEPT !.status = "WAITING_FOR_DEPOSIT"]
    /\ session' = [session EXCEPT !.choosing = FALSE]
    /\ UNCHANGED <<reply, start, manual, resolving, delivery, cancelling, expands, manuals,
                   crashes, late>>

(* The motorist's CANCEL and the administrator's cancel: the status first, *)
(* then the offers and the session.                                        *)
Cancel ==
    /\ request.status # "CANCELLED"
    /\ request' = [request EXCEPT !.status = "CANCELLED", !.manual = FALSE]
    /\ cancelling' = TRUE
    /\ UNCHANGED <<offers, session, reply, start, manual, resolving, delivery, choice,
                   expands, manuals, crashes, late>>

CancelOffers ==
    /\ cancelling
    /\ offers' = Ended(Ended(offers, Quoted, "NOT_SELECTED"), Pending, "TIMED_OUT")
    /\ session' = [session EXCEPT !.choosing = FALSE]
    /\ cancelling' = FALSE
    /\ UNCHANGED <<request, reply, start, manual, resolving, delivery, choice, expands,
                   manuals, crashes, late>>

-----------------------------------------------------------------------------
(* Time passes for every deadline alike.  A handler waits for the database *)
(* and for HTTP answers only, so it is under way at one tick at most.      *)
Sooner(t) == IF t \in Nat \ {0} THEN t - 1 ELSE t

Quiet == /\ \A i \in OfferIds : reply[i] = "none"
         /\ \A s \in Starters : start[s].pc = "idle"
         /\ \A d \in Senders : delivery[d] = "none"
         /\ manual.pc = "idle" /\ resolving = None /\ ~cancelling

Tick ==
    /\ \/ request.deadline \in Nat \ {0} \/ request.selection \in Nat \ {0}
       \/ \E i \in OfferIds : offers[i].left > 0
       \/ manual.left > 0
    /\ late => Quiet
    /\ late' = ~Quiet
    /\ request' = [request EXCEPT !.deadline = Sooner(@), !.selection = Sooner(@)]
    /\ offers' = [i \in OfferIds |-> [offers[i] EXCEPT !.left = Sooner(@)]]
    /\ manual' = [manual EXCEPT !.left = Sooner(@)]
    /\ UNCHANGED <<session, reply, start, resolving, delivery, cancelling, choice, expands,
                   manuals, crashes>>

(* A restart: everything a handler held in memory is gone.                 *)
Restart ==
    /\ crashes < MaxCrashes
    /\ crashes' = crashes + 1
    /\ reply' = [i \in 1 .. MaxOffers |-> "none"]
    /\ start' = [s \in Starters |-> NoStart]
    /\ manual' = NoManual
    /\ resolving' = None
    /\ delivery' = [d \in Senders |-> "none"]
    /\ cancelling' = FALSE
    /\ UNCHANGED <<request, offers, session, choice, expands, manuals, late>>

HandleReply(i) == ClaimQuote(i) \/ BeginCollection(i) \/ EarlyRead(i) \/ EarlyPull(i)
OperatorStep == \E i \in OfferIds : Quote(i) \/ Decline(i) \/ HandleReply(i)
StartStep(s) == StartRead(s) \/ StartCheck(s) \/ StartWrite(s)
AdminStep ==
    \/ ExpandRead \/ ExpandWrite \/ ManualCheck \/ ManualWrite
    \/ \E o \in Operators : ManualRead(o) \/ AssignOperator(o)
CustomerStep == Cancel \/ CancelOffers \/ \E i \in OfferIds : SelectQuote(i)
ReconcilerStep ==
    \/ \E b \in OfferIds : BatchQuery(b)
    \/ BatchResolve \/ BiddingClose \/ QuoteSelectionTimeout \/ OfferSweep
DeliveryStep(d) == SendShortlist(d) \/ OpenChoice(d)

DispatchNext ==
    \/ OperatorStep
    \/ \E s \in Starters : StartStep(s)
    \/ AdminStep
    \/ CustomerStep
    \/ ReconcilerStep
    \/ \E d \in Senders : DeliveryStep(d)
    \/ Tick
    \/ Restart

DispatchSpec == DispatchInit /\ [][DispatchNext]_dispatchVars

(* Time passes, every handler that began ends, and the reconciler's        *)
(* interval keeps running every check.  Nobody has to answer, choose or    *)
(* cancel.                                                                 *)
DispatchFairness ==
    /\ WF_dispatchVars(Tick)
    /\ \A i \in 1 .. MaxOffers : WF_dispatchVars(HandleReply(i))
    /\ \A s \in Starters : WF_dispatchVars(StartStep(s))
    /\ \A d \in Senders : WF_dispatchVars(DeliveryStep(d))
    /\ WF_dispatchVars(ExpandWrite) /\ WF_dispatchVars(ManualCheck \/ ManualWrite)
    /\ WF_dispatchVars(CancelOffers)
    /\ WF_dispatchVars(\E b \in OfferIds : BatchQuery(b)) /\ WF_dispatchVars(BatchResolve)
    /\ WF_dispatchVars(BiddingClose)
    /\ WF_dispatchVars(QuoteSelectionTimeout)
    /\ WF_dispatchVars(OfferSweep)

FairDispatchSpec == DispatchSpec /\ DispatchFairness

-----------------------------------------------------------------------------
Offer == [op : Operators, status : OfferStatuses, left : 0 .. OfferTime,
          batch : 1 .. MaxOffers, round : Nat]

(* The shape of the state: every row an offer of the request, every        *)
(* handler at one of its steps.                                            *)
DispatchTypeOK ==
    /\ request \in [status : {"DISPATCHING", "WAITING_FOR_DEPOSIT", "CANCELLED"},
                    round : Nat, asked : SUBSET Operators,
                    deadline : {None} \cup 0 .. CollectTime, closed : BOOLEAN,
                    selection : {None} \cup 0 .. SelectTime, manual : BOOLEAN]
    /\ offers \in Seq(Offer) /\ Len(offers) <= MaxOffers
    /\ session \in [choosing : BOOLEAN, shown : SUBSET OfferIds]
    /\ reply \in [1 .. MaxOffers -> {"none", "open", "quoted", "answered", "early"}]
    /\ start \in [Starters -> [pc : {"idle", "expand", "called", "read", "write"},
                               round : Nat, asked : SUBSET Operators]]
    /\ manual \in [pc : {"idle", "read", "write"}, op : Operators \cup {None},
                   left : 0 .. OfferTime]
    /\ resolving \in OfferIds \cup {None}
    /\ delivery \in [Senders -> {"none", "due", "sent"}]
    /\ cancelling \in BOOLEAN
    /\ choice \in [meant : OfferIds \cup {None}, booked : OfferIds \cup {None}]
    /\ expands \in 0 .. MaxExpands /\ manuals \in 0 .. MaxManual
    /\ crashes \in 0 .. MaxCrashes /\ late \in BOOLEAN

(* Whatever path closed the bidding also opened the window for choosing,   *)
(* in the same transaction: a restart between the two would leave a        *)
(* request no check can match again (bidding-close.check.ts:50-62).        *)
ClosedBiddingHasAWindow == request.closed <=> request.selection # None

(* Once the collection of quotes has a deadline, nothing - a second quote, *)
(* an Expand, a new batch, a restart - may move it later                   *)
(* (beginQuoteCollectionIfFirst).                                          *)
DeadlineNeverLater ==
    [][request.deadline # None =>
         request'.deadline # None /\ request'.deadline <= request.deadline]_dispatchVars

(* A quote that arrives once bidding has been closed never joins the       *)
(* quotes the motorist was sent, even when its offer was written after the *)
(* close by a handler that had looked before it.                           *)
ClosedBiddingTakesNoQuote ==
    [][request.closed => Quoted' \subseteq Quoted]_dispatchVars

(* However the motorist's choice, an assignment by staff and a             *)
(* cancellation cross, at most one operator is ever booked, and one is     *)
(* booked whenever the request waits for a deposit.                        *)
OneOperatorIsBooked ==
    /\ Cardinality(Having("SELECTED_PENDING_PAYMENT")) <= 1
    /\ request.status = "WAITING_FOR_DEPOSIT" => Having("SELECTED_PENDING_PAYMENT") # {}

(* Bidding is progressed once: closed stays closed and the window for      *)
(* choosing never starts again.                                            *)
BiddingClosesOnce ==
    [][request.closed => request'.closed /\ request'.selection <= request.selection]_dispatchVars

(* What can still move a request that is being dispatched.                 *)
Watched == Pending # {} \/ request.deadline # None \/ request.closed \/ request.manual

(* With nothing under way, a request being dispatched is one some check or *)
(* person will come back to.                                               *)
NothingIsStranded == Dispatching /\ Quiet /\ crashes = 0 => Watched

(* The one way a request is left to nobody without a restart is a batch    *)
(* every operator of which declined.                                       *)
OnlyDeclinesStrand ==
    Dispatching /\ Quiet /\ crashes = 0 =>
        Watched \/ \E b \in OfferIds :
                       /\ offers[b].batch = b
                       /\ \A i \in OfferIds :
                             offers[i].batch = b => offers[i].status = "DECLINED"

(* The motorist books the quote chosen from the list that was sent.        *)
BooksTheChosenQuote == choice.meant = choice.booked

(* A collection of quotes under way ends: bidding is closed, or the        *)
(* request has moved on.                                                   *)
CollectionEnds ==
    Dispatching /\ request.deadline # None ~> request.closed \/ ~Dispatching

(* Once bidding is closed the motorist chooses in time or the request is   *)
(* cancelled.                                                              *)
ShortlistIsDecided == Dispatching /\ request.closed ~> ~Dispatching

(* No offer is left open for ever, whatever became of its request.         *)
OffersEnd ==
    \A i \in 1 .. MaxOffers :
        (i \in Pending) ~> (i \notin Pending)

=============================================================================
