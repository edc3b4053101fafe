---------------------------- MODULE Conversation ----------------------------
(***************************************************************************)
(* The WhatsApp side of a job: every message is routed                     *)
(* (WhatsAppInboundService) by its sender's account to the operator's or   *)
(* the customer's flow, which reads the sender's session, answers, and     *)
(* writes back where the conversation stands.  One session row per account *)
(* carries the state, the request it is about and whether a masked chat is *)
(* open; administrators, payments, dispatch and the reconciler write       *)
(* sessions too.                                                           *)
(*                                                                         *)
(* A message is two steps: its session is read (Receive), and its handler  *)
(* runs on what was read.  In between anything else may happen.  Bidding,  *)
(* payments and disputes are the other modules' subjects: here they are    *)
(* the moments at which they touch a session.                              *)
(***************************************************************************)
EXTENDS Naturals, FiniteSets

CONSTANTS
    Customers,    \* customer accounts
    Operator,     \* the account of the operator's dispatch line
    Requests,
    Deliveries,   \* webhooks being handled at once
    Masked,       \* customers WhatsApp shows us without a phone number
    Writers,      \* customers who write; the others registered on the website
    MaxStaff,     \* how often administrators step in
    NoAccount, NoRequest, NoSession, NoMessage

ASSUME AccountsDiffer ==
    Operator \notin Customers /\ NoAccount \notin Customers /\ Masked \subseteq Customers
ASSUME NoRequestIsNone == NoRequest \notin Requests
ASSUME WritersAreCustomers == Writers \subseteq Customers
ASSUME MaxStaffIsNatural == MaxStaff \in Nat

VARIABLES
    request,   \* the RescueRequest rows
    session,   \* the WhatsAppSession row of each account
    reading,   \* the messages whose handlers have read a session
    masked,    \* accounts whose phoneNumber is NULL
    merged,    \* accounts merged into another, soft-deleted
    did,       \* history: what has happened to each request
    staff      \* how often administrators have stepped in

conversationVars == <<request, session, reading, masked, merged, did, staff>>

Users == Customers \cup {Operator}

CustomerStates ==
    {"IDLE", "WAITING_FOR_LOCATION", "WAITING_FOR_VEHICLE_TYPE",
     "WAITING_FOR_DESTINATION", "WAITING_FOR_ISSUE_TYPE", "WAITING_FOR_MEDIA",
     "WAITING_FOR_CONTACT_INFO", "WAITING_FOR_QUOTE_SELECTION",
     "OPERATOR_FOUND_WAITING_PAYMENT", "REQUEST_CONFIRMED",
     "AWAITING_COMPLETION_CONFIRM", "AWAITING_DISPUTE_REASON", "WAITING_FOR_RATING"}
OperatorStates ==
    {"IDLE", "OPERATOR_ON_JOB", "OPERATOR_AT_LOCATION",
     "OPERATOR_AWAITING_COMPLETION_MEDIA", "AWAITING_DISPUTE_RESPONSE",
     "WAITING_FOR_RATING"}
Statuses ==
    {"none", "WAITING_FOR_MEDIA", "DISPATCHING", "WAITING_FOR_DEPOSIT",
     "OPERATOR_ASSIGNED", "ARRIVED", "IN_DISPUTE", "COMPLETED", "CANCELLED"}
Session == [state : CustomerStates \cup OperatorStates,
            request : Requests \cup {NoRequest}, relay : BOOLEAN]

FreshSession == [state |-> "IDLE", request |-> NoRequest, relay |-> FALSE]
AbsentRequest ==
    [status |-> "none", owner |-> NoAccount, assigned |-> FALSE, visual |-> FALSE,
     evidence |-> FALSE, dispute |-> "none", due |-> "none", billed |-> FALSE]

Status(r) == request[r].status
Owner(r)  == request[r].owner
Exists(r) == Status(r) # "none"
Ended(r)  == Status(r) \in {"COMPLETED", "CANCELLED"}
Open(r)   == Exists(r) /\ ~Ended(r)

(* sendBalancePaymentLink: there is a price, and a number to send it to.   *)
Billable(r) == request[r].assigned /\ Owner(r) \notin masked

ConversationInit ==
    /\ request = [r \in Requests |-> AbsentRequest]
    /\ session = [u \in Users |-> NoSession]
    /\ reading = [d \in Deliveries |-> NoMessage]
    /\ masked = Masked
    /\ merged = {}
    /\ did = [r \in Requests |-> {}]
    /\ staff = 0

-----------------------------------------------------------------------------
(* WhatsAppSessionStore.  update() of a row that is not there throws, and  *)
(* what its caller meant to do next is not done; a field that is           *)
(* `undefined` is left as it is.                                           *)
Put(s, u, state) ==
    IF s[u] = NoSession THEN s ELSE [s EXCEPT ![u].state = state]

PutJob(s, u, state, r) ==
    IF s[u] = NoSession THEN s
                        ELSE [s EXCEPT ![u].state = state, ![u].request = r]

Clear(s, u) == [s EXCEPT ![u] = NoSession]

CloseRelays(s, us) ==
    [u \in Users |-> IF u \in us /\ s[u] # NoSession THEN [s[u] EXCEPT !.relay = FALSE]
                                                     ELSE s[u]]

(* rowToSession: a rating prompt left for ten minutes reads as no session  *)
(* at all.                                                                 *)
Views(row) ==
    {row} \cup IF row.state = "WAITING_FOR_RATING"
                 THEN {[row EXCEPT !.state = "IDLE", !.request = NoRequest]}
                 ELSE {}

(* endRelayForEndedRequest, of both parties.                               *)
Parties(r) ==
    {Owner(r)} \cup IF request[r].assigned THEN {Operator} ELSE {}
EndRelay(s, r) == CloseRelays(s, Parties(r))

Log(r, what) == did' = [did EXCEPT ![r] = @ \cup {what}]

-----------------------------------------------------------------------------
BeingHandled ==
    {reading[e].user : e \in {e \in Deliveries : reading[e] # NoMessage}}

(* handleIncomingWhatsAppMessage: the sender's account, created by its     *)
(* first message, and its session as it is now.  Who was merged writes as  *)
(* the account they were merged into.                                      *)
Receive(d, u) ==
    LET row == IF session[u] = NoSession THEN FreshSession ELSE session[u] IN
    /\ reading[d] = NoMessage
    /\ u \notin merged
    /\ u \in Writers \cup {Operator} \/ merged # {}
    /\ u \notin BeingHandled
    /\ session' = [session EXCEPT ![u] = row]
    /\ \E view \in Views(row) :
          reading' = [reading EXCEPT ![d] = [user |-> u, seen |-> view]]
    /\ UNCHANGED <<request, masked, merged, staff, did>>

Handled(d) == reading' = [reading EXCEPT ![d] = NoMessage]

(* The handler of d runs, in one of these states, with no chat open: the   *)
(* relay comes before every command.                                       *)
Hears(d, who, states) ==
    /\ reading[d] # NoMessage
    /\ reading[d].user \in who
    /\ ~reading[d].seen.relay
    /\ reading[d].seen.state \in states

Sender(d) == reading[d].user
Job(d)    == reading[d].seen.request

(* A message that is only answered: a reminder, a question asked again, a  *)
(* menu, a bid -- or forwarded, while a chat is open.                      *)
Answer(d) ==
    /\ reading[d] # NoMessage
    /\ Handled(d)
    /\ UNCHANGED <<request, session, masked, merged, staff, did>>

-----------------------------------------------------------------------------
(* The masked chat.                                                        *)
Partner(d) ==
    IF Job(d) = NoRequest THEN {}
    ELSE IF Sender(d) # Operator THEN Parties(Job(d)) \ {Owner(Job(d))}
    ELSE {Owner(Job(d))}

(* END CHAT, by either side, for both.                                     *)
EndChat(d) ==
    /\ reading[d] # NoMessage /\ reading[d].seen.relay
    /\ Handled(d)
    /\ session' = IF session[Sender(d)] = NoSession THEN session
                  ELSE CloseRelays(session, {Sender(d)} \cup Partner(d))
    /\ UNCHANGED <<request, masked, merged, staff, did>>

(* CHAT DRIVER, in any state, opens it -- and makes the request the        *)
(* operator's session's own, whatever job it was on.                       *)
ChatDriver(d) ==
    LET u == Sender(d)
        r == Job(d)
        opened == [session EXCEPT ![u].relay = TRUE]
    IN
    /\ Hears(d, Customers, CustomerStates)
    /\ r # NoRequest /\ request[r].assigned
    /\ Handled(d)
    /\ session' =
          IF session[u] = NoSession THEN session
          ELSE IF session[Operator] = NoSession THEN opened
          ELSE [opened EXCEPT ![Operator].relay = TRUE, ![Operator].request = r]
    /\ UNCHANGED <<request, masked, merged, staff, did>>

-----------------------------------------------------------------------------
(* The customer's flow.  SOS, CANCEL and the steps of a new request are    *)
(* out of reach while a job waits for CONFIRM or a dispute for its reason. *)
Listening == CustomerStates \ {"AWAITING_COMPLETION_CONFIRM", "AWAITING_DISPUTE_REASON"}

(* SOS: an open request is answered, but one nobody sent a photo for is    *)
(* dropped; the session goes back to the start, its request left in it.    *)
OpenOf(u) == {r \in Requests : Open(r) /\ Owner(r) = u}

Sos(d) ==
    LET u == Sender(d) IN
    /\ Hears(d, Customers, Listening)
    /\ \/ OpenOf(u) = {} /\ UNCHANGED request
       \/ \E r \in OpenOf(u) :
             /\ Status(r) = "WAITING_FOR_MEDIA"
             /\ request' = [request EXCEPT ![r].status = "CANCELLED"]
    /\ session' = Put(session, u, "WAITING_FOR_LOCATION")
    /\ Handled(d)
    /\ UNCHANGED <<masked, merged, staff, did>>

(* CANCEL: of the session's request or, without one, of an open one.       *)
BlockedFromSelfCancel == {"OPERATOR_ASSIGNED", "ARRIVED", "IN_DISPUTE"}

CancelRequest(r) ==
    /\ request' = [request EXCEPT ![r].status = "CANCELLED"]
    /\ session' = Clear(EndRelay(session, r), Owner(r))

SelfCancel(d) ==
    LET u == Sender(d) IN
    /\ Hears(d, Customers, Listening)
    /\ \E r \in IF Job(d) = NoRequest THEN OpenOf(u) ELSE {Job(d)} :
          /\ Status(r) \notin BlockedFromSelfCancel
          /\ request' = [request EXCEPT ![r].status = "CANCELLED"]
          /\ session' = Clear(EndRelay(session, r), u)
    /\ Handled(d)
    /\ UNCHANGED <<masked, merged, staff, did>>

(* Location, vehicle, destination: kept in the session until the request   *)
(* exists.                                                                 *)
NextQuestion ==
    [WAITING_FOR_LOCATION     |-> "WAITING_FOR_VEHICLE_TYPE",
     WAITING_FOR_VEHICLE_TYPE |-> "WAITING_FOR_DESTINATION",
     WAITING_FOR_DESTINATION  |-> "WAITING_FOR_ISSUE_TYPE"]

Intake(d) ==
    /\ Hears(d, Customers, DOMAIN NextQuestion)
    /\ session' = Put(session, Sender(d), NextQuestion[reading[d].seen.state])
    /\ Handled(d)
    /\ UNCHANGED <<request, masked, merged, staff, did>>

(* The issue type: the request is created, unless the account was deleted. *)
CreateRequest(d) ==
    LET u == Sender(d) IN
    /\ Hears(d, Customers, {"WAITING_FOR_ISSUE_TYPE"})
    /\ u \notin merged
    /\ \E r \in Requests :
          /\ ~Exists(r)
          /\ request' = [request EXCEPT ![r].status = "WAITING_FOR_MEDIA", ![r].owner = u]
          /\ session' = PutJob(session, u, "WAITING_FOR_MEDIA", r)
    /\ Handled(d)
    /\ UNCHANGED <<masked, merged, staff, did>>

(* A photo or a video is kept for the request; or the request is lost.     *)
SendMedia(d) ==
    /\ Hears(d, Customers, {"WAITING_FOR_MEDIA"})
    /\ \/ /\ Job(d) # NoRequest
          /\ request' = [request EXCEPT ![Job(d)].visual = TRUE]
          /\ UNCHANGED session
       \/ /\ Job(d) = NoRequest
          /\ session' = Put(session, Sender(d), "IDLE")
          /\ UNCHANGED request
    /\ Handled(d)
    /\ UNCHANGED <<masked, merged, staff, did>>

FinishUnmasked(d) ==                                            \* mutant
    LET u == Sender(d)
        r == Job(d)
    IN
    /\ Hears(d, Customers, {"WAITING_FOR_MEDIA"})
    /\ r # NoRequest /\ request[r].visual
    /\ request' = [request EXCEPT ![r].status = "DISPATCHING"]
    /\ session' = Put(session, u, "REQUEST_CONFIRMED")
    /\ Handled(d)
    /\ UNCHANGED <<masked, merged, staff, did>>

(* "2": on to dispatch, or to the contact card of a masked customer.       *)
FinishMedia(d) ==
    LET u == Sender(d)
        r == Job(d)
    IN
    /\ Hears(d, Customers, {"WAITING_FOR_MEDIA"})
    /\ r # NoRequest /\ request[r].visual
    /\ \/ /\ u \in masked
          /\ session' = Put(session, u, "WAITING_FOR_CONTACT_INFO")
          /\ UNCHANGED request
       \/ /\ u \notin masked
          /\ request' = [request EXCEPT ![r].status = "DISPATCHING"]
          /\ session' = Put(session, u, "REQUEST_CONFIRMED")
    /\ Handled(d)
    /\ UNCHANGED <<masked, merged, staff, did>>

(* mergeIntoExistingAccount: the session, the request and the identity     *)
(* move to the account that has the number.                                *)
MergeLeavingRequest(u, v, r) ==                                 \* mutant
    /\ merged' = merged \cup {u}
    /\ session' = [session EXCEPT ![u] = NoSession,
                       ![v] = [session[u] EXCEPT !.state = "REQUEST_CONFIRMED"]]
    /\ request' = [request EXCEPT ![r].status = "DISPATCHING"]
    /\ UNCHANGED masked

MergeOrphaning(u, v, r) ==                                      \* mutant
    /\ merged' = merged \cup {u}
    /\ session' = [session EXCEPT ![u] = NoSession,
                       ![v] = [session[u] EXCEPT !.state = "REQUEST_CONFIRMED"]]
    /\ request' = [request EXCEPT ![r].owner = NoAccount, ![r].status = "DISPATCHING"]
    /\ UNCHANGED masked

MergeAccount(u, v, r) ==
    /\ merged' = merged \cup {u}
    /\ session' = [session EXCEPT ![u] = NoSession,
                       ![v] = [session[u] EXCEPT !.state = "REQUEST_CONFIRMED"]]
    /\ request' = [request EXCEPT ![r].owner = v, ![r].status = "DISPATCHING"]
    /\ UNCHANGED masked

(* The contact card, claimed out of the session's current state: a number  *)
(* nobody has is written down; one an account has merges this one into it. *)
ShareContact(d) ==
    LET u == Sender(d)
        r == Job(d)
    IN
    /\ Hears(d, Customers, {"WAITING_FOR_CONTACT_INFO"})
    /\ session[u] # NoSession /\ session[u].state = "WAITING_FOR_CONTACT_INFO"
    /\ r # NoRequest
    /\ \/ /\ masked' = masked \ {u}
          /\ request' = [request EXCEPT ![r].status = "DISPATCHING"]
          /\ session' = Put(session, u, "REQUEST_CONFIRMED")
          /\ UNCHANGED merged
       \/ \E v \in Customers \ (masked \cup merged \cup {u}) : MergeAccount(u, v, r)
    /\ Handled(d)
    /\ UNCHANGED <<did, staff>>

(* handleQuoteSelected reads the session again.                            *)
SelectQuote(d) ==
    LET u == Sender(d)
        row == session[u]
    IN
    /\ Hears(d, Customers, {"WAITING_FOR_QUOTE_SELECTION"})
    /\ row # NoSession
    /\ \/ /\ row.request # NoRequest /\ Status(row.request) = "DISPATCHING"
          /\ request' = [request EXCEPT ![row.request].status = "WAITING_FOR_DEPOSIT",
                                        ![row.request].assigned = TRUE]
          /\ session' = Put(session, u, "OPERATOR_FOUND_WAITING_PAYMENT")
       \/ /\ row.request = NoRequest
          /\ session' = Put(session, u, "IDLE")
          /\ UNCHANGED request
    /\ Handled(d)
    /\ UNCHANGED <<masked, merged, staff, did>>

(* finalizeJobSettlement: the job is over for both; a customer without a   *)
(* session stops it before it gets to the operator.                        *)
Finalize(r) ==
    LET ended == EndRelay(session, r)
        rated == PutJob(ended, Owner(r), "WAITING_FOR_RATING", r)
    IN
    /\ request' = [request EXCEPT ![r].status = "COMPLETED", ![r].billed = FALSE]
    /\ session' = IF ended[Owner(r)] = NoSession \/ ~request[r].assigned THEN rated
                  ELSE PutJob(rated, Operator, "WAITING_FOR_RATING", r)
    /\ Log(r, "settled")

ConfirmAndRate(d) ==                                            \* mutant
    LET r == Job(d) IN
    /\ Hears(d, Customers, {"AWAITING_COMPLETION_CONFIRM"})
    /\ r # NoRequest
    /\ ~Ended(r) /\ request[r].dispute = "none"
    /\ request' = [request EXCEPT ![r].status = "COMPLETED", ![r].billed = Billable(r)]
    /\ session' = Put(session, Sender(d), "WAITING_FOR_RATING")
    /\ Handled(d)
    /\ UNCHANGED <<masked, merged, did, staff>>

(* CONFIRM, once checkRequestStillOpen has found the job open: refused if  *)
(* it was ever disputed; billed; or settled at once if nothing is owed,    *)
(* and then the session is asked for a rating.                             *)
Confirm(d) ==
    LET u == Sender(d)
        r == Job(d)
    IN
    /\ Hears(d, Customers, {"AWAITING_COMPLETION_CONFIRM"})
    /\ r # NoRequest
    /\ \/ /\ Ended(r)
          /\ session' = Put(session, u, "IDLE")
          /\ UNCHANGED <<request, did>>
       \/ /\ ~Ended(r) /\ request[r].dispute = "none"
          /\ request' = [request EXCEPT ![r].status = "COMPLETED", ![r].billed = Billable(r)]
          /\ session' = IF session[u] # NoSession /\ session[u].state = "WAITING_FOR_RATING"
                          THEN session
                          ELSE [session EXCEPT ![u] =
                                   IF @ = NoSession THEN FreshSession
                                                    ELSE [@ EXCEPT !.state = "IDLE"]]
          /\ UNCHANGED did
       \/ ~Ended(r) /\ request[r].dispute = "none" /\ Finalize(r)
    /\ Handled(d)
    /\ UNCHANGED <<masked, merged, staff>>

(* DISPUTE: raiseDispute, and both parties are asked for their side.       *)
Dispute(d) ==
    LET u == Sender(d)
        r == Job(d)
        asked == PutJob(session, u, "AWAITING_DISPUTE_REASON", r)
    IN
    /\ Hears(d, Customers, {"AWAITING_COMPLETION_CONFIRM"})
    /\ r # NoRequest
    /\ \/ /\ Ended(r)
          /\ session' = Put(session, u, "IDLE")
          /\ UNCHANGED request
       \/ /\ ~Ended(r) /\ request[r].dispute # "open"
          /\ request' = [request EXCEPT ![r].dispute = "open", ![r].status = "IN_DISPUTE"]
          /\ session' = IF session[u] = NoSession \/ ~request[r].assigned THEN asked
                        ELSE PutJob(asked, Operator, "AWAITING_DISPUTE_RESPONSE", r)
    /\ Handled(d)
    /\ UNCHANGED <<masked, merged, staff, did>>

(* A dispute's statement: back to CONFIRM or DISPUTE.                      *)
DisputeReason(d) ==
    /\ Hears(d, Customers, {"AWAITING_DISPUTE_REASON"})
    /\ session' = Put(session, Sender(d), "AWAITING_COMPLETION_CONFIRM")
    /\ Handled(d)
    /\ UNCHANGED <<request, masked, merged, staff, did>>

(* handleRatingReply, by either party: recorded once per side of a job, a  *)
(* second one throws and is only answered.                                 *)
Rate(d) ==
    /\ Hears(d, Users, {"WAITING_FOR_RATING"})
    /\ session' = Put(session, Sender(d), "IDLE")
    /\ Handled(d)
    /\ UNCHANGED <<request, masked, merged, staff, did>>

-----------------------------------------------------------------------------
(* The operator's flow.                                                    *)

(* ARRIVED, of the job his session is on: refused if it has ended, and     *)
(* otherwise written whatever the status is.                               *)
Arrived(d) ==
    LET r == Job(d) IN
    /\ Hears(d, {Operator}, {"OPERATOR_ON_JOB"})
    /\ r # NoRequest
    /\ \/ /\ Ended(r)
          /\ session' = Clear(session, Operator)
          /\ UNCHANGED request
       \/ /\ ~Ended(r)
          /\ request' = [request EXCEPT ![r].status = "ARRIVED"]
          /\ session' = Put(session, Operator, "OPERATOR_AT_LOCATION")
    /\ Handled(d)
    /\ UNCHANGED <<masked, merged, did, staff>>

(* DONE asks for evidence first.                                           *)
Done(d) ==
    /\ Hears(d, {Operator}, {"OPERATOR_AT_LOCATION"})
    /\ Job(d) # NoRequest
    /\ session' = Put(session, Operator, "OPERATOR_AWAITING_COMPLETION_MEDIA")
    /\ Handled(d)
    /\ UNCHANGED <<request, masked, merged, staff, did>>

(* A photo of the finished job; or the job is lost track of.               *)
CompletionMedia(d) ==
    /\ Hears(d, {Operator}, {"OPERATOR_AWAITING_COMPLETION_MEDIA"})
    /\ \/ /\ Job(d) # NoRequest
          /\ request' = [request EXCEPT ![Job(d)].evidence = TRUE]
          /\ UNCHANGED session
       \/ /\ Job(d) = NoRequest
          /\ session' = Put(session, Operator, "OPERATOR_ON_JOB")
          /\ UNCHANGED request
    /\ Handled(d)
    /\ UNCHANGED <<masked, merged, staff, did>>

(* handleOperatorJobDone: the alert's due date, the customer's question    *)
(* and the operator's release, in one transaction.                         *)
JobDoneUndated(r) ==                                            \* mutant
    /\ session' = [PutJob(session, Owner(r), "AWAITING_COMPLETION_CONFIRM", r) EXCEPT
                      ![Operator] = IF @ = NoSession THEN @
                                    ELSE [@ EXCEPT !.state = "IDLE", !.request = NoRequest]]
    /\ Log(r, "done")
    /\ UNCHANGED request

JobDone(r) ==
    /\ request' = [request EXCEPT ![r].due = "set"]
    /\ session' = [PutJob(session, Owner(r), "AWAITING_COMPLETION_CONFIRM", r) EXCEPT
                      ![Operator] = IF @ = NoSession THEN @
                                    ELSE [@ EXCEPT !.state = "IDLE", !.request = NoRequest]]
    /\ Log(r, "done")

(* "2", with evidence on file.                                             *)
FinishJob(d) ==
    LET r == Job(d) IN
    /\ Hears(d, {Operator}, {"OPERATOR_AWAITING_COMPLETION_MEDIA"})
    /\ r # NoRequest /\ request[r].evidence
    /\ \/ Ended(r) /\ session' = Clear(session, Operator) /\ UNCHANGED <<request, did>>
       \/ ~Ended(r) /\ JobDone(r)
    /\ Handled(d)
    /\ UNCHANGED <<masked, merged, staff>>

(* The operator's side of a dispute: back to where DONE can be sent.       *)
OperatorStatement(d) ==
    /\ Hears(d, {Operator}, {"AWAITING_DISPUTE_RESPONSE"})
    /\ session' = Put(session, Operator, "OPERATOR_AT_LOCATION")
    /\ Handled(d)
    /\ UNCHANGED <<request, masked, merged, staff, did>>

-----------------------------------------------------------------------------
(* What the other components do to a request and its sessions.             *)

(* An administrator steps in.                                              *)
StepsIn == staff < MaxStaff /\ staff' = staff + 1

(* deliverQuoteShortlist.                                                  *)
Shortlist(r) ==
    /\ Status(r) = "DISPATCHING"
    /\ session' = Put(session, Owner(r), "WAITING_FOR_QUOTE_SELECTION")
    /\ UNCHANGED <<request, reading, masked, merged, did, staff>>

(* assignOperator, by an administrator, of a customer who can be called.   *)
AssignOperator(r) ==
    /\ StepsIn
    /\ Open(r) /\ Owner(r) \notin masked
    /\ request' = [request EXCEPT ![r].status = "WAITING_FOR_DEPOSIT",
                                  ![r].assigned = TRUE]
    /\ UNCHANGED <<session, reading, masked, merged, did>>

(* confirmDeposit and activateAssignedJob: a customer without a session    *)
(* stops it before it gets to the operator, whose row is made if missing.  *)
ConfirmDeposit(r) ==
    LET told == Put(session, Owner(r), "REQUEST_CONFIRMED") IN
    /\ Status(r) = "WAITING_FOR_DEPOSIT"
    /\ request' = [request EXCEPT ![r].status = "OPERATOR_ASSIGNED"]
    /\ session' =
          IF session[Owner(r)] = NoSession THEN session
          ELSE [told EXCEPT ![Operator] =
                   [state |-> "OPERATOR_ON_JOB", request |-> r,
                    relay |-> session[Operator] # NoSession /\ session[Operator].relay]]
    /\ UNCHANGED <<reading, masked, merged, did, staff>>

(* DepositExpiryCheck frees every session that names the request.          *)
ExpireDeposit(r) ==
    /\ Status(r) = "WAITING_FOR_DEPOSIT"
    /\ request' = [request EXCEPT ![r].status = "CANCELLED"]
    /\ session' = [u \in Users |->
                      IF session[u] # NoSession /\ session[u].request = r
                        THEN FreshSession ELSE session[u]]
    /\ UNCHANGED <<reading, masked, merged, did, staff>>

(* Nobody found, or nothing chosen: dispatch cancels.                      *)
GiveUp(r) ==
    /\ Status(r) = "DISPATCHING"
    /\ request' = [request EXCEPT ![r].status = "CANCELLED"]
    /\ session' = PutJob(session, Owner(r), "IDLE", NoRequest)
    /\ UNCHANGED <<reading, masked, merged, did, staff>>

(* The administrator's cancel and updateStatus check no status.            *)
AdminCancel(r) ==
    /\ StepsIn
    /\ Exists(r)
    /\ CancelRequest(r)
    /\ UNCHANGED <<reading, masked, merged, did>>

UpdateStatus(r, status) ==
    /\ StepsIn
    /\ Exists(r)
    /\ request' = [request EXCEPT ![r].status = status,
                      ![r].billed = @ \/ (status = "COMPLETED" /\ request[r].dispute = "none" /\ Billable(r))]
    /\ session' = EndRelay(session, r)
    /\ UNCHANGED <<reading, masked, merged, did>>

(* manual-arrived and manual-done, with a reason: claims of a status, and  *)
(* the session the operator would have had.                                *)
ManualArrived(r) ==
    /\ StepsIn
    /\ Status(r) = "OPERATOR_ASSIGNED"
    /\ request' = [request EXCEPT ![r].status = "ARRIVED"]
    /\ session' = IF session[Operator] # NoSession /\ session[Operator].request = r
                    THEN Put(session, Operator, "OPERATOR_AT_LOCATION") ELSE session
    /\ UNCHANGED <<reading, masked, merged, did>>

ManualDone(r) ==
    LET asked == PutJob(session, Owner(r), "AWAITING_COMPLETION_CONFIRM", r) IN
    /\ StepsIn
    /\ Status(r) = "ARRIVED" /\ request[r].due # "set"
    /\ request' = [request EXCEPT ![r].due = "set"]
    /\ session' = IF session[Operator] # NoSession /\ session[Operator].request = r
                    THEN PutJob(asked, Operator, "IDLE", NoRequest) ELSE asked
    /\ Log(r, "done")
    /\ UNCHANGED <<reading, masked, merged>>

(* resolveDispute bills what it settled on; the payment settles the job.   *)
ResolveDispute(r) ==
    /\ request[r].dispute = "open"
    /\ request' = [request EXCEPT ![r].dispute = "resolved", ![r].billed = Billable(r)]
    /\ UNCHANGED <<session, reading, masked, merged, did, staff>>

Settle(r) ==
    /\ request[r].billed
    /\ Finalize(r)
    /\ UNCHANGED <<reading, masked, merged, staff>>

(* StalledConfirmationCheck: the due date is what it is claimed by.        *)
AlertStaff(r) ==
    /\ request[r].due = "set" /\ request[r].dispute = "none" /\ ~Ended(r)
    /\ request' = [request EXCEPT ![r].due = "alerted"]
    /\ UNCHANGED <<session, reading, masked, merged, did, staff>>

CustomerHandler(d) ==
    \/ ChatDriver(d) \/ DisputeReason(d) \/ Confirm(d) \/ Dispute(d) \/ Sos(d)
    \/ SelfCancel(d) \/ Intake(d) \/ CreateRequest(d) \/ SendMedia(d)
    \/ FinishMedia(d) \/ ShareContact(d) \/ SelectQuote(d)

OperatorHandler(d) ==
    \/ OperatorStatement(d) \/ CompletionMedia(d) \/ FinishJob(d) \/ Arrived(d)
    \/ Done(d)

ConversationNext ==
    \/ \E d \in Deliveries, u \in Users : Receive(d, u)
    \/ \E d \in Deliveries : \/ Answer(d) \/ EndChat(d) \/ Rate(d)
                             \/ CustomerHandler(d) \/ OperatorHandler(d)
    \/ \E r \in Requests : \/ Shortlist(r) \/ AssignOperator(r) \/ ConfirmDeposit(r)
                           \/ ExpireDeposit(r) \/ GiveUp(r) \/ AdminCancel(r)
                           \/ ManualArrived(r) \/ ManualDone(r)
                           \/ ResolveDispute(r) \/ Settle(r) \/ AlertStaff(r)
    \/ \E r \in Requests, status \in {"COMPLETED", "CANCELLED"} : UpdateStatus(r, status)

ConversationSpec == ConversationInit /\ [][ConversationNext]_conversationVars

-----------------------------------------------------------------------------
(* The shape of the state.                                                 *)
RequestRow == [status : Statuses, owner : Customers \cup {NoAccount},
               assigned : BOOLEAN, visual : BOOLEAN, evidence : BOOLEAN,
               dispute : {"none", "open", "resolved"}, due : {"none", "set", "alerted"},
               billed : BOOLEAN]

ConversationTypeOK ==
    /\ request \in [Requests -> RequestRow]
    /\ \A r \in Requests : Exists(r) <=> Owner(r) # NoAccount
    /\ session \in [Users -> Session \cup {NoSession}]
    /\ reading \in [Deliveries -> [user : Users, seen : Session] \cup {NoMessage}]
    /\ masked \subseteq Customers /\ merged \subseteq Customers
    /\ did \in [Requests -> SUBSET {"done", "settled"}]

(* Nobody is asked out of turn: the job a session would CONFIRM, DISPUTE  *)
(* or explain is the customer's own, and its operator or staff have called *)
(* it done, or it is over and checkRequestStillOpen says so; the job a     *)
(* session would rate is the customer's own, settled.                      *)
CustomerIsAskedInTurn ==
    \A u \in Customers :
        LET s == session[u] IN
        s # NoSession /\ s.request # NoRequest =>
            /\ s.state \in {"AWAITING_COMPLETION_CONFIRM", "AWAITING_DISPUTE_REASON"} =>
                  Owner(s.request) = u /\ ("done" \in did[s.request] \/ Ended(s.request))
            /\ s.state = "WAITING_FOR_RATING" =>
                  Owner(s.request) = u /\ "settled" \in did[s.request]

(* No operator is sent to somebody nobody can call: from dispatch until    *)
(* the job is over, a request's customer is a live account with a number.  *)
DispatchedIsReachable ==
    \A r \in Requests :
        Status(r) \in {"DISPATCHING", "WAITING_FOR_DEPOSIT", "OPERATOR_ASSIGNED",
                       "ARRIVED", "IN_DISPUTE"} =>
            Owner(r) \notin masked \cup merged

(* A merged account is left with nothing: no conversation that could still *)
(* be answered, no request that nobody would hear about.                   *)
MergedOwnsNothing ==
    \A u \in merged : session[u] = NoSession /\ OpenOf(u) = {}

(* A customer's silence is never overlooked: of a job that was done and    *)
(* that nobody confirmed, disputed or ended, staff are, or will be, told.  *)
SilenceIsNoticed ==
    \A r \in Requests :
        "done" \in did[r] /\ Open(r) /\ request[r].dispute = "none" =>
            request[r].due # "none"

=============================================================================
