------------------------- MODULE ConversationProofs -------------------------
(***************************************************************************)
(* Theorems about Conversation, for every number of customers, requests,   *)
(* messages in progress and interventions of staff.                        *)
(*                                                                         *)
(* A handler runs on a session it read earlier.  What it may rely on is    *)
(* therefore stated of both, the row and what was read of it (View), and   *)
(* shown to survive whatever anybody else does in between (Outside).       *)
(***************************************************************************)
EXTENDS Conversation, TLAPS

States == CustomerStates \cup OperatorStates
IntakeStates == {"WAITING_FOR_LOCATION", "WAITING_FOR_VEHICLE_TYPE",
                 "WAITING_FOR_DESTINATION", "WAITING_FOR_ISSUE_TYPE"}
HoldStates   == {"WAITING_FOR_MEDIA", "WAITING_FOR_CONTACT_INFO"}
AskedStates  == {"AWAITING_COMPLETION_CONFIRM", "AWAITING_DISPUTE_REASON"}
Dispatched   == {"DISPATCHING", "WAITING_FOR_DEPOSIT", "OPERATOR_ASSIGNED",
                 "ARRIVED", "IN_DISPUTE"}
Sessions     == [Users -> Session \cup {NoSession}]
Reading(d)   == reading[d] # NoMessage

-----------------------------------------------------------------------------
(* The inductive invariant.                                                *)

(* A session, or what was read of one, is about a job of its user's own;   *)
(* a customer without a number is somewhere in the intake, with at most    *)
(* the one request whose photo or contact card is being waited for.        *)
View(u, s) ==
    /\ s.request # NoRequest => IF u = Operator THEN request[s.request].assigned
                                                ELSE Owner(s.request) = u
    /\ s.state = "WAITING_FOR_CONTACT_INFO" => u \in masked
    /\ u \in masked =>
          /\ s.state \in {"IDLE"} \cup IntakeStates \cup HoldStates
          /\ \A r \in OpenOf(u) :
                /\ s.state \notin IntakeStates
                /\ s.state \in HoldStates => s.request = r

(* A request is dispatched, assigned and billed only for a customer with a *)
(* number; one that was ever done has the date of its alert.               *)
RowInv(r) ==
    /\ Status(r) = "WAITING_FOR_DEPOSIT" => request[r].assigned
    /\ request[r].billed => request[r].assigned
    /\ request[r].assigned => Exists(r) /\ Owner(r) \notin masked
    /\ Status(r) \in Dispatched => Owner(r) \notin masked
    /\ "done" \in did[r] => request[r].due # "none"

(* A user's messages are handled one at a time, no message is handled for  *)
(* a merged account, and of a customer without a number nobody else writes *)
(* the session, except to delete it.                                       *)
ReaderInv(d) ==
    Reading(d) =>
       /\ Sender(d) \notin merged
       /\ \A e \in Deliveries : Reading(e) /\ Sender(e) = Sender(d) => d = e
       /\ View(Sender(d), reading[d].seen)
       /\ Sender(d) \in masked =>
             \/ session[Sender(d)] = NoSession
             \/ /\ session[Sender(d)].state = reading[d].seen.state
                /\ session[Sender(d)].request = reading[d].seen.request

IInv ==
    /\ ConversationTypeOK
    /\ merged \subseteq masked /\ masked \subseteq Masked
    /\ \A r \in Requests : RowInv(r)
    /\ \A d \in Deliveries : ReaderInv(d)
    /\ \A u \in Users : session[u] # NoSession => View(u, session[u])
    /\ \A u \in masked : \A r, s \in OpenOf(u) : r = s
    /\ \A u \in merged : session[u] = NoSession /\ OpenOf(u) = {}

-----------------------------------------------------------------------------
(* What becomes of one session.                                            *)
Same(x, y) ==
    x = y \/ (x # NoSession /\ y \in Session /\ y.state = x.state /\ y.request = x.request)
StateSet(x, y, state) ==
    x # NoSession /\ y \in Session /\ y.state = state /\ y.request = x.request
JobSet(x, y, state, r) ==
    x # NoSession /\ y \in Session /\ y.state = state /\ y.request = r

LEMMA PutEffect ==
    ASSUME NEW S \in Sessions, NEW u \in Users, NEW state \in States
    PROVE  /\ Put(S, u, state) \in Sessions
           /\ \A w \in Users \ {u} : Put(S, u, state)[w] = S[w]
           /\ \/ S[u] = NoSession /\ Put(S, u, state)[u] = NoSession
              \/ StateSet(S[u], Put(S, u, state)[u], state)
<1>1. CASE S[u] = NoSession
  BY <1>1 DEF Put
<1>2. CASE S[u] # NoSession
  <2> DEFINE y == [S[u] EXCEPT !.state = state]
             T == [S EXCEPT ![u] = y]
  <2>1. S[u] \in Session
    BY <1>2 DEF Sessions
  <2>2. y \in Session /\ y.state = state /\ y.request = S[u].request
    BY <2>1 DEF Session, States
  <2>3. Put(S, u, state) = T
    BY <1>2 DEF Put, Sessions
  <2> HIDE DEF y
  <2>4. T \in Sessions /\ T[u] = y /\ \A w \in Users \ {u} : T[w] = S[w]
    BY <2>2 DEF Sessions
  <2> QED BY <1>2, <2>2, <2>3, <2>4 DEF StateSet
<1> QED BY <1>1, <1>2

LEMMA PutJobEffect ==
    ASSUME NEW S \in Sessions, NEW u \in Users, NEW state \in States,
           NEW r \in Requests \cup {NoRequest}
    PROVE  /\ PutJob(S, u, state, r) \in Sessions
           /\ \A w \in Users \ {u} : PutJob(S, u, state, r)[w] = S[w]
           /\ \/ S[u] = NoSession /\ PutJob(S, u, state, r)[u] = NoSession
              \/ JobSet(S[u], PutJob(S, u, state, r)[u], state, r)
<1>1. CASE S[u] = NoSession
  BY <1>1 DEF PutJob
<1>2. CASE S[u] # NoSession
  <2> DEFINE y == [S[u] EXCEPT !.state = state, !.request = r]
             T == [S EXCEPT ![u] = y]
  <2>1. S[u] \in Session
    BY <1>2 DEF Sessions
  <2>2. y \in Session /\ y.state = state /\ y.request = r
    BY <2>1 DEF Session, States
  <2>3. PutJob(S, u, state, r) = T
    BY <1>2 DEF PutJob, Sessions
  <2> HIDE DEF y
  <2>4. T \in Sessions /\ T[u] = y /\ \A w \in Users \ {u} : T[w] = S[w]
    BY <2>2 DEF Sessions
  <2> QED BY <1>2, <2>2, <2>3, <2>4 DEF JobSet
<1> QED BY <1>1, <1>2

LEMMA ClearEffect ==
    ASSUME NEW S \in Sessions, NEW u \in Users
    PROVE  /\ Clear(S, u) \in Sessions /\ Clear(S, u)[u] = NoSession
           /\ \A w \in Users \ {u} : Clear(S, u)[w] = S[w]
  BY DEF Clear, Sessions

LEMMA RelayEffect ==
    ASSUME NEW S \in Sessions, NEW us
    PROVE  /\ CloseRelays(S, us) \in Sessions
           /\ \A w \in Users : Same(S[w], CloseRelays(S, us)[w])
<1> DEFINE T == CloseRelays(S, us)
<1>1. ASSUME NEW w \in Users
      PROVE  T[w] \in Session \cup {NoSession} /\ Same(S[w], T[w])
  <2>1. CASE w \in us /\ S[w] # NoSession
    <3> DEFINE y == [S[w] EXCEPT !.relay = FALSE]
    <3>1. S[w] \in Session /\ T[w] = y
      BY <2>1 DEF Sessions, CloseRelays
    <3>2. y \in Session /\ y.state = S[w].state /\ y.request = S[w].request
      BY <3>1 DEF Session
    <3> QED BY <2>1, <3>1, <3>2 DEF Same
  <2>2. CASE ~(w \in us /\ S[w] # NoSession)
    BY <2>2 DEF Sessions, CloseRelays, Same
  <2> QED BY <2>1, <2>2
<1>2. T = [w \in Users |-> T[w]]
  BY DEF CloseRelays
<1> HIDE DEF T
<1>3. T \in Sessions
  BY <1>1, <1>2 DEF Sessions
<1> QED BY <1>1, <1>3 DEF T

-----------------------------------------------------------------------------
(* What a step may do, as seen by those whose message it does not handle.  *)

(* To the requests of a customer: none is taken away, and a customer       *)
(* without a number gets none.                                             *)
Outside(w) ==
    /\ w \in masked' <=> w \in masked
    /\ \A r \in Requests : Owner(r) = w => request'[r].owner = w
    /\ w \in masked => \A r \in Requests :
          Open(r)' /\ request'[r].owner = w => Open(r) /\ Owner(r) = w

(* To a session.                                                           *)
SessionMoves(w) ==
    \/ Same(session[w], session'[w])
    \/ session'[w] = NoSession
    \/ /\ w \in Customers \ masked /\ session'[w] \in Session
       /\ session'[w].state # "WAITING_FOR_CONTACT_INFO"
       /\ session'[w].request # NoRequest => Owner(session'[w].request) = w
    \/ /\ w = Operator /\ session'[w] \in Session
       /\ session'[w].state # "WAITING_FOR_CONTACT_INFO"
       /\ session'[w].request # NoRequest => request'[session'[w].request].assigned
    \/ /\ \E d \in Deliveries : Reading(d) /\ Sender(d) = w /\ reading'[d] = NoMessage
       /\ session'[w] \in Session /\ View(w, session[w])'

(* To what the customer may be asked.                                      *)
Over(r) == "done" \in did[r] \/ Ended(r)

Reopened(r) ==
    \E d \in Deliveries :
       /\ Reading(d) /\ reading'[d] = NoMessage
       /\ Owner(r) = Sender(d) /\ Sender(d) \in Customers
       /\ \/ session'[Sender(d)] = NoSession
          \/ session'[Sender(d)].state \notin AskedStates \cup {"WAITING_FOR_RATING"}

TurnMoves(w) ==
    \/ Same(session[w], session'[w])
    \/ session'[w] = NoSession
    \/ /\ session[w] # NoSession
       /\ session'[w].state \notin AskedStates \cup {"WAITING_FOR_RATING"}
       /\ session'[w].request \in {session[w].request, NoRequest}
    \/ session'[w].request = NoRequest
    \/ /\ session'[w].request \in Requests /\ Over(session[w].request)'
       /\ session'[w].state = "WAITING_FOR_RATING" => "settled" \in did'[session'[w].request]
    \/ \E d \in Deliveries :
          /\ Reading(d) /\ Sender(d) = w /\ reading'[d] = NoMessage
          /\ \/ session'[w].state \notin AskedStates \cup {"WAITING_FOR_RATING"}
             \/ /\ session'[w].state \in AskedStates
                /\ reading[d].seen.state = "AWAITING_DISPUTE_REASON"
                /\ session[w] # NoSession /\ session'[w].request = session[w].request
             \/ /\ session'[w].state \in AskedStates
                /\ reading[d].seen.state = "AWAITING_COMPLETION_CONFIRM"
                /\ session'[w].request = reading[d].seen.request

(* The requests, and what has happened to them.                            *)
Rows ==
    /\ request' \in [Requests -> RequestRow]
    /\ did' \in [Requests -> SUBSET {"done", "settled"}]
    /\ \A r \in Requests : Exists(r)' <=> request'[r].owner # NoAccount
    /\ \A r \in Requests : request[r].assigned => request'[r].assigned
    /\ \A r \in Requests : RowInv(r)'
    /\ \A r \in Requests : did[r] \subseteq did'[r]
    /\ \A r \in Requests : Over(r) => Over(r)' \/ Reopened(r)
    /\ \A w \in Customers : Outside(w)

Move ==
    /\ Rows
    /\ UNCHANGED <<masked, merged>>
    /\ session' \in Sessions
    /\ \A w \in Users : SessionMoves(w)
    /\ \A w \in Customers : TurnMoves(w)
    /\ \A d \in Deliveries : reading'[d] \in {reading[d], NoMessage}
    /\ reading' \in [Deliveries -> [user : Users, seen : Session] \cup {NoMessage}]

-----------------------------------------------------------------------------
(* The requests.                                                           *)
LEMMA RowsStay ==
    ASSUME IInv, UNCHANGED <<request, masked, did>>
    PROVE  Rows
  BY DEF IInv, ConversationTypeOK, Rows, Outside, RowInv, Owner, Open, Ended, Over,
         Exists, Status

(* One row changes, in a way that keeps what RowInv says of it.            *)
RowOK(r, row) ==
    /\ row \in RequestRow
    /\ row.owner = Owner(r) /\ (row.status = "none" <=> Status(r) = "none")
    /\ request[r].assigned => row.assigned
    /\ row.assigned => Exists(r) /\ Owner(r) \notin masked
    /\ row.billed => row.assigned
    /\ row.status = "WAITING_FOR_DEPOSIT" => row.assigned
    /\ row.status \in Dispatched => Owner(r) \notin masked
    /\ request[r].due # "none" => row.due # "none"
    /\ row.status \notin {"none", "COMPLETED", "CANCELLED"} => Open(r) \/ Owner(r) \notin masked

LEMMA RowChanges ==
    ASSUME IInv, NEW r \in Requests, NEW row, RowOK(r, row),
           request' = [request EXCEPT ![r] = row], UNCHANGED masked,
           \/ UNCHANGED did
           \/ \E what \in {"done", "settled"} :
                 Log(r, what) /\ (what = "done" => row.due # "none"),
           \/ Ended(r) => row.status \in {"COMPLETED", "CANCELLED"}
           \/ Reopened(r)
    PROVE  Rows
<1>1. /\ request \in [Requests -> RequestRow]
      /\ did \in [Requests -> SUBSET {"done", "settled"}]
      /\ \A q \in Requests : Exists(q) <=> Owner(q) # NoAccount
      /\ \A q \in Requests : RowInv(q)
  BY DEF IInv, ConversationTypeOK
<1>2. /\ request' \in [Requests -> RequestRow] /\ request'[r] = row
      /\ \A q \in Requests \ {r} : request'[q] = request[q]
  BY <1>1 DEF RowOK
<1>3. /\ did' \in [Requests -> SUBSET {"done", "settled"}]
      /\ \A q \in Requests : did[q] \subseteq did'[q]
      /\ \A q \in Requests \ {r} : did'[q] = did[q]
      /\ "done" \in did'[r] => "done" \in did[r] \/ row.due # "none"
  BY <1>1 DEF Log
<1>4. \A q \in Requests : Exists(q)' <=> request'[q].owner # NoAccount
  BY <1>1, <1>2 DEF RowOK, Exists, Status, Owner
<1>5. \A q \in Requests : RowInv(q)'
  BY <1>1, <1>2, <1>3 DEF RowOK, RowInv, Exists, Status, Owner
<1>6. \A q \in Requests : Over(q) => Over(q)' \/ Reopened(q)
  BY <1>2, <1>3 DEF Over, Ended, Status
<1>7. \A w \in Customers : Outside(w)
  BY <1>2 DEF RowOK, Outside, Owner, Open, Exists, Ended, Status
<1>8. \A q \in Requests : request[q].assigned => request'[q].assigned
  BY <1>2 DEF RowOK
<1> QED BY <1>2, <1>3, <1>4, <1>5, <1>6, <1>7, <1>8 DEF Rows

-----------------------------------------------------------------------------
(* The steps.                                                              *)
Read == UNCHANGED reading \/ \E d \in Deliveries : Handled(d)

LEMMA AssemblesMove ==
    ASSUME IInv, Rows, UNCHANGED <<masked, merged>>, session' \in Sessions, Read,
           \A w \in Users :
              \/ Same(session[w], session'[w])
              \/ session'[w] = NoSession
              \/ SessionMoves(w) /\ (w \in Customers => TurnMoves(w))
    PROVE  Move
<1>1. reading \in [Deliveries -> [user : Users, seen : Session] \cup {NoMessage}]
  BY DEF IInv, ConversationTypeOK
<1>2. /\ reading' \in [Deliveries -> [user : Users, seen : Session] \cup {NoMessage}]
      /\ \A d \in Deliveries : reading'[d] \in {reading[d], NoMessage}
  BY <1>1 DEF Read, Handled
<1>3. \A w \in Users : SessionMoves(w)
  BY DEF SessionMoves
<1>4. \A w \in Customers : TurnMoves(w)
  BY DEF TurnMoves, Users
<1> QED BY <1>2, <1>3, <1>4 DEF Move

LEMMA Typed ==
    ASSUME IInv
    PROVE  /\ request \in [Requests -> RequestRow]
           /\ session \in Sessions
           /\ reading \in [Deliveries -> [user : Users, seen : Session] \cup {NoMessage}]
           /\ \A r \in Requests : RowInv(r)
           /\ \A r \in Requests : Exists(r) => Owner(r) \in Customers
           /\ masked \subseteq Customers /\ merged \subseteq masked
           /\ Operator \notin masked /\ Operator \in Users /\ Operator \notin Customers
           /\ Customers \subseteq Users
           /\ \A u \in Users : session[u] # NoSession =>
                 session[u] \in Session /\ View(u, session[u])
<1>1. /\ request \in [Requests -> RequestRow]
      /\ \A r \in Requests : Owner(r) \in Customers \cup {NoAccount}
  BY DEF IInv, ConversationTypeOK, RequestRow, Owner
<1> QED BY <1>1, AccountsDiffer DEF IInv, ConversationTypeOK, Sessions, Users

LEMMA Heard ==
    ASSUME IInv, NEW d \in Deliveries, Reading(d)
    PROVE  /\ Sender(d) \in Users /\ reading[d].seen \in Session
           /\ View(Sender(d), reading[d].seen)
           /\ Job(d) \in Requests \cup {NoRequest}
           /\ Sender(d) \in masked /\ session[Sender(d)] # NoSession =>
                 /\ session[Sender(d)].state = reading[d].seen.state
                 /\ session[Sender(d)].request = Job(d)
           /\ Handled(d) => reading'[d] = NoMessage /\ Read
<1>1. reading[d] \in [user : Users, seen : Session]
  BY Typed DEF Reading
<1>2. reading[d].user \in Users /\ reading[d].seen \in Session
  BY <1>1
<1>3. reading[d].seen.request \in Requests \cup {NoRequest}
  BY <1>2 DEF Session
<1>4. Handled(d) => reading'[d] = NoMessage /\ Read
  BY Typed DEF Handled, Read
<1>5. ReaderInv(d)
  BY DEF IInv
<1> QED BY <1>2, <1>3, <1>4, <1>5 DEF ReaderInv, Sender, Job

(* A handler that moves its sender's conversation on.                      *)
LEMMA OwnSession ==
    ASSUME IInv, NEW d \in Deliveries, Reading(d),
           NEW u \in Users, u = Sender(d), NEW state \in States,
           Rows, Handled(d), UNCHANGED <<masked, merged>>,
           session' = Put(session, u, state),
           state = "WAITING_FOR_CONTACT_INFO" => u \in masked,
           u \in masked =>
              /\ state \in {"IDLE"} \cup IntakeStates \cup HoldStates
              /\ state \in IntakeStates => OpenOf(u)' = {}
              /\ state \in HoldStates => \A r \in OpenOf(u) :
                    session[u] # NoSession => session[u].request = r,
           \/ state \notin AskedStates \cup {"WAITING_FOR_RATING"}
           \/ state \in AskedStates /\ reading[d].seen.state = "AWAITING_DISPUTE_REASON"
    PROVE  Move
<1>1. u \in Users /\ reading'[d] = NoMessage /\ Read
  BY Heard
<1>2. /\ session' \in Sessions
      /\ \A w \in Users \ {u} : session'[w] = session[w]
      /\ \/ session[u] = NoSession /\ session'[u] = NoSession
         \/ StateSet(session[u], session'[u], state)
  BY <1>1, Typed, PutEffect
<1>3. ASSUME StateSet(session[u], session'[u], state)
      PROVE  SessionMoves(u) /\ (u \in Customers => TurnMoves(u))
  <2>1. /\ session[u] # NoSession /\ session'[u] \in Session
        /\ session'[u].state = state /\ session'[u].request = session[u].request
    BY <1>3 DEF StateSet
  <2>2. View(u, session[u])
    BY <1>1, <2>1, Typed
  <2>3. session'[u].request \in Requests \cup {NoRequest}
    BY <2>1 DEF Session
  <2>4. session'[u].request # NoRequest =>
           IF u = Operator THEN request'[session'[u].request].assigned
                           ELSE request'[session'[u].request].owner = u
    BY <1>1, <2>1, <2>2, <2>3 DEF View, Rows, Outside, Owner, Users
  <2>5. u \in masked => u \in Customers /\ OpenOf(u)' \subseteq OpenOf(u)
    <3>1. u \in masked => u \in Customers
      BY Typed
    <3>2. u \in masked => Outside(u)
      BY <3>1 DEF Rows
    <3> QED BY <3>1, <3>2 DEF Outside, OpenOf, Owner
  <2>6. View(u, session[u])'
    BY <2>1, <2>4, <2>5 DEF View, Owner, IntakeStates, HoldStates
  <2>7. SessionMoves(u)
    BY <1>1, <2>1, <2>6 DEF SessionMoves
  <2>8. TurnMoves(u)
    BY <1>1, <2>1 DEF TurnMoves
  <2> QED BY <2>7, <2>8
<1> QED
  BY <1>1, <1>2, <1>3, AssemblesMove DEF Same

(* A handler that leaves every session alone.                              *)
LEMMA NoSessionMoves ==
    ASSUME IInv, Rows, Read, UNCHANGED <<session, masked, merged>>
    PROVE  Move
  BY AssemblesMove, Typed DEF Same

LEMMA AnswerMoves ==
    ASSUME IInv, NEW d \in Deliveries, Answer(d)
    PROVE  Move
  BY NoSessionMoves, RowsStay DEF Answer, Read

LEMMA EndChatMoves ==
    ASSUME IInv, NEW d \in Deliveries, EndChat(d)
    PROVE  Move
<1> DEFINE us == {Sender(d)} \cup Partner(d)
<1>1. Rows /\ Read /\ UNCHANGED <<masked, merged>>
  BY RowsStay DEF EndChat, Read
<1>2. session' = session \/ session' = CloseRelays(session, us)
  BY DEF EndChat
<1> HIDE DEF us
<1>3. session' \in Sessions /\ \A w \in Users : Same(session[w], session'[w])
  BY <1>2, Typed, RelayEffect DEF Same
<1> QED BY <1>1, <1>3, AssemblesMove

LEMMA ChatDriverMoves ==
    ASSUME IInv, NEW d \in Deliveries, ChatDriver(d)
    PROVE  Move
<1> DEFINE u == Sender(d)
           r == Job(d)
           x == [session[u] EXCEPT !.relay = TRUE]
           y == [session[Operator] EXCEPT !.relay = TRUE, !.request = r]
<1>1. /\ Rows /\ Read /\ UNCHANGED <<request, masked, merged>> /\ Reading(d)
      /\ u \in Customers /\ r # NoRequest /\ request[r].assigned
  BY RowsStay DEF ChatDriver, Read, Hears, Reading, Sender
<1>2. u \in Users /\ u # Operator /\ Operator \in Users /\ r \in Requests
  BY <1>1, Heard, Typed
<1>3. CASE session[u] = NoSession
  BY <1>1, <1>3, NoSessionMoves DEF ChatDriver
<1>4. CASE session[u] # NoSession
  <2>1. session[u] \in Session
    BY <1>2, <1>4, Typed
  <2>2. x \in Session /\ Same(session[u], x)
    BY <1>4, <2>1 DEF Session, Same
  <2>3. CASE session[Operator] = NoSession
    <3>1. session' = [session EXCEPT ![u] = x]
      BY <1>4, <2>3, Typed DEF ChatDriver, Sessions
    <3> HIDE DEF x
    <3>2. session' \in Sessions /\ \A w \in Users : Same(session[w], session'[w])
      BY <1>2, <2>2, <3>1, Typed DEF Sessions, Same
    <3> QED BY <1>1, <3>2, AssemblesMove
  <2>4. CASE session[Operator] # NoSession
    <3>1. session[Operator] \in Session /\ View(Operator, session[Operator])
      BY <2>4, Typed
    <3>2. y \in Session /\ y.state = session[Operator].state /\ y.request = r
      BY <1>2, <3>1 DEF Session
    <3>3. y.state # "WAITING_FOR_CONTACT_INFO"
      BY <3>1, <3>2, Typed DEF View
    <3>4. session' = [session EXCEPT ![u] = x, ![Operator] = y]
      BY <1>2, <1>4, <2>4, Typed DEF ChatDriver, Sessions
    <3> HIDE DEF x, y
    <3>5. /\ session' \in Sessions /\ session'[Operator] = y
          /\ \A w \in Users \ {Operator} : Same(session[w], session'[w])
      BY <1>2, <2>2, <3>2, <3>4, Typed DEF Sessions, Same
    <3>6. SessionMoves(Operator)
      BY <1>1, <3>2, <3>3, <3>5 DEF SessionMoves
    <3> QED BY <1>1, <3>5, <3>6, AssemblesMove, Typed
  <2> QED BY <2>3, <2>4
<1> QED BY <1>3, <1>4

-----------------------------------------------------------------------------
(* The customer's flow.                                                    *)
LEMMA SosMoves ==
    ASSUME IInv, NEW d \in Deliveries, Sos(d)
    PROVE  Move
<1>1. Reading(d) /\ Sender(d) \in Customers
  BY DEF Sos, Hears, Reading, Sender
<1> PICK u \in Users : u = Sender(d)
  BY <1>1, Typed
<1>2. /\ Handled(d) /\ UNCHANGED <<masked, merged, did>>
      /\ session' = Put(session, u, "WAITING_FOR_LOCATION")
  BY DEF Sos
<1>3. u \in masked => \A r, s \in OpenOf(u) : r = s
  BY DEF IInv
<1>4. Rows /\ (u \in masked => OpenOf(u)' = {})
  <2>1. CASE OpenOf(u) = {} /\ UNCHANGED request
    <3>1. OpenOf(u)' = {}
      BY <2>1 DEF OpenOf, Open, Exists, Ended, Status, Owner
    <3> QED BY <1>2, <2>1, <3>1, RowsStay
  <2>2. CASE \E r \in OpenOf(u) :
             /\ Status(r) = "WAITING_FOR_MEDIA"
             /\ request' = [request EXCEPT ![r].status = "CANCELLED"]
    <3> PICK r \in OpenOf(u) :
             /\ Status(r) = "WAITING_FOR_MEDIA"
             /\ request' = [request EXCEPT ![r].status = "CANCELLED"]
      BY <2>2
    <3> DEFINE row == [request[r] EXCEPT !.status = "CANCELLED"]
    <3>1. r \in Requests /\ Owner(r) = u /\ request[r] \in RequestRow /\ RowInv(r)
      BY Typed DEF OpenOf
    <3>2. request' = [request EXCEPT ![r] = row]
      BY <3>1, Typed
    <3>3. RowOK(r, row) /\ row.status = "CANCELLED"
      BY <3>1 DEF RowOK, RowInv, RequestRow, Statuses, Status, Owner, Exists, Dispatched
    <3>4. request'[r] = row /\ \A q \in Requests \ {r} : request'[q] = request[q]
      BY <3>1, <3>2, Typed
    <3> HIDE DEF row
    <3>5. Rows
      BY <1>2, <3>1, <3>2, <3>3, RowChanges
    <3>6. u \in masked => OpenOf(u)' = {}
      BY <1>3, <3>3, <3>4 DEF OpenOf, Open, Exists, Ended, Status, Owner
    <3> QED BY <3>5, <3>6
  <2> QED BY <2>1, <2>2 DEF Sos
<1>5. "WAITING_FOR_LOCATION" \in States \cap IntakeStates
  BY DEF States, CustomerStates, IntakeStates
<1>6. "WAITING_FOR_LOCATION" \notin HoldStates \cup AskedStates
  BY DEF HoldStates, AskedStates
<1> QED BY <1>1, <1>2, <1>4, <1>5, <1>6, OwnSession

LEMMA SelfCancelMoves ==
    ASSUME IInv, NEW d \in Deliveries, SelfCancel(d)
    PROVE  Move
<1>1. Reading(d) /\ Sender(d) \in Customers
  BY DEF SelfCancel, Hears, Reading, Sender
<1> PICK u \in Users : u = Sender(d)
  BY <1>1, Typed
<1>2. PICK r \in IF Job(d) = NoRequest THEN OpenOf(u) ELSE {Job(d)} :
          /\ request' = [request EXCEPT ![r].status = "CANCELLED"]
          /\ session' = Clear(EndRelay(session, r), u)
          /\ UNCHANGED <<masked, merged, did>> /\ Read
  BY DEF SelfCancel, Read
<1> DEFINE row == [request[r] EXCEPT !.status = "CANCELLED"]
           ended == EndRelay(session, r)
           us == Parties(r)
<1>3. r \in Requests /\ Owner(r) = u /\ request[r] \in RequestRow /\ RowInv(r) /\ u # Operator
  BY <1>1, <1>2, Typed, Heard DEF OpenOf, View, Job
<1>4. Exists(r)
  BY <1>1, <1>3, AccountsDiffer DEF IInv, ConversationTypeOK
<1>5. request' = [request EXCEPT ![r] = row]
  BY <1>2, <1>3, Typed
<1>6. RowOK(r, row) /\ row.status = "CANCELLED"
  BY <1>3, <1>4 DEF RowOK, RowInv, RequestRow, Statuses, Status, Owner, Exists, Dispatched
<1> HIDE DEF row
<1>7. Rows
  BY <1>2, <1>3, <1>5, <1>6, RowChanges
<1>8. ended = CloseRelays(session, us)
  BY DEF EndRelay
<1> HIDE DEF us
<1>9. ended \in Sessions /\ \A w \in Users : Same(session[w], ended[w])
  BY <1>8, Typed, RelayEffect
<1>10. session' = Clear(ended, u)
  BY <1>2
<1> HIDE DEF ended
<1>11. /\ session' \in Sessions /\ session'[u] = NoSession
       /\ \A w \in Users \ {u} : Same(session[w], session'[w])
  BY <1>9, <1>10, ClearEffect
<1> QED BY <1>2, <1>7, <1>11, AssemblesMove

LEMMA IntakeMoves ==
    ASSUME IInv, NEW d \in Deliveries, Intake(d)
    PROVE  Move
<1>1. Reading(d) /\ Sender(d) \in Customers
  BY DEF Intake, Hears, Reading, Sender
<1> PICK u \in Users : u = Sender(d)
  BY <1>1, Typed
<1> DEFINE next == NextQuestion[reading[d].seen.state]
<1>2. /\ Handled(d) /\ UNCHANGED <<request, masked, merged, did>>
      /\ session' = Put(session, u, next)
      /\ reading[d].seen.state \in IntakeStates
      /\ next \in {"WAITING_FOR_VEHICLE_TYPE", "WAITING_FOR_DESTINATION",
                   "WAITING_FOR_ISSUE_TYPE"}
  BY DEF Intake, Hears, NextQuestion, IntakeStates, Sender
<1>3. u \in masked => OpenOf(u) = {}
  BY <1>1, <1>2, Heard DEF View, OpenOf
<1>4. OpenOf(u)' = OpenOf(u)
  BY <1>2 DEF OpenOf, Open, Exists, Ended, Status, Owner
<1> HIDE DEF next
<1>5. next \in States /\ next \in IntakeStates
  BY <1>2 DEF States, CustomerStates, IntakeStates
<1>6. next \notin HoldStates \cup AskedStates /\ next # "WAITING_FOR_RATING"
  BY <1>2 DEF HoldStates, AskedStates
<1>7. next # "WAITING_FOR_CONTACT_INFO"
  BY <1>2
<1> QED BY <1>1, <1>2, <1>3, <1>4, <1>5, <1>6, <1>7, OwnSession, RowsStay

LEMMA DisputeReasonMoves ==
    ASSUME IInv, NEW d \in Deliveries, DisputeReason(d)
    PROVE  Move
<1>1. /\ Reading(d) /\ Sender(d) \in Customers
      /\ reading[d].seen.state = "AWAITING_DISPUTE_REASON"
  BY DEF DisputeReason, Hears, Reading, Sender
<1> PICK u \in Users : u = Sender(d)
  BY <1>1, Typed
<1>2. /\ Handled(d) /\ UNCHANGED <<request, masked, merged, did>>
      /\ session' = Put(session, u, "AWAITING_COMPLETION_CONFIRM")
  BY DEF DisputeReason
<1>3. u \notin masked
  BY <1>1, Heard DEF View, IntakeStates, HoldStates
<1>4. "AWAITING_COMPLETION_CONFIRM" \in States \cap AskedStates
  BY DEF States, CustomerStates, AskedStates
<1> QED BY <1>1, <1>2, <1>3, <1>4, OwnSession, RowsStay

LEMMA RateMoves ==
    ASSUME IInv, NEW d \in Deliveries, Rate(d)
    PROVE  Move
<1>1. Reading(d) /\ Sender(d) \in Users
  BY DEF Rate, Hears, Reading, Sender
<1> PICK u \in Users : u = Sender(d)
  BY <1>1
<1>2. /\ Handled(d) /\ UNCHANGED <<request, masked, merged, did>>
      /\ session' = Put(session, u, "IDLE")
  BY DEF Rate
<1>3. /\ "IDLE" \in States
      /\ "IDLE" \notin IntakeStates \cup HoldStates \cup AskedStates \cup {"WAITING_FOR_RATING"}
  BY DEF States, CustomerStates, IntakeStates, HoldStates, AskedStates
<1> QED BY <1>1, <1>2, <1>3, OwnSession, RowsStay

LEMMA SendMediaMoves ==
    ASSUME IInv, NEW d \in Deliveries, SendMedia(d)
    PROVE  Move
<1>1. Reading(d) /\ Sender(d) \in Customers /\ Handled(d)
      /\ UNCHANGED <<masked, merged, did>>
  BY DEF SendMedia, Hears, Reading, Sender
<1> PICK u \in Users : u = Sender(d)
  BY <1>1, Typed
<1>2. CASE /\ Job(d) # NoRequest
           /\ request' = [request EXCEPT ![Job(d)].visual = TRUE]
           /\ UNCHANGED session
  <2> PICK r \in Requests : r = Job(d)
    BY <1>1, <1>2, Heard
  <2> DEFINE row == [request[r] EXCEPT !.visual = TRUE]
  <2>1. request[r] \in RequestRow /\ RowInv(r)
    BY Typed
  <2>2. request' = [request EXCEPT ![r] = row]
    BY <1>2, Typed
  <2>3. RowOK(r, row) /\ row.status = Status(r)
    BY <2>1 DEF RowOK, RowInv, RequestRow, Status, Owner, Open, Exists, Ended, Dispatched
  <2> HIDE DEF row
  <2>4. Rows
    BY <1>1, <2>2, <2>3, RowChanges DEF Ended
  <2> QED BY <1>1, <1>2, <2>4, Heard, NoSessionMoves
<1>3. CASE session' = Put(session, u, "IDLE") /\ UNCHANGED request
  <2>1. /\ "IDLE" \in States
        /\ "IDLE" \notin IntakeStates \cup HoldStates \cup AskedStates \cup {"WAITING_FOR_RATING"}
    BY DEF States, CustomerStates, IntakeStates, HoldStates, AskedStates
  <2> QED BY <1>1, <1>3, <2>1, OwnSession, RowsStay
<1> QED BY <1>2, <1>3 DEF SendMedia

LEMMA FinishMediaMoves ==
    ASSUME IInv, NEW d \in Deliveries, FinishMedia(d)
    PROVE  Move
<1>1. /\ Reading(d) /\ Sender(d) \in Customers /\ Handled(d)
      /\ UNCHANGED <<masked, merged, did>> /\ Job(d) # NoRequest
      /\ reading[d].seen.state = "WAITING_FOR_MEDIA"
  BY DEF FinishMedia, Hears, Reading, Sender
<1> PICK u \in Users : u = Sender(d)
  BY <1>1, Typed
<1> PICK r \in Requests : r = Job(d)
  BY <1>1, Heard
<1>2. Owner(r) = u /\ u # Operator
  BY <1>1, Heard, Typed DEF View, Job
<1>3. CASE u \in masked /\ session' = Put(session, u, "WAITING_FOR_CONTACT_INFO")
           /\ UNCHANGED request
  <2>1. /\ "WAITING_FOR_CONTACT_INFO" \in States \cap HoldStates
        /\ "WAITING_FOR_CONTACT_INFO" \notin IntakeStates \cup AskedStates
    BY DEF States, CustomerStates, IntakeStates, HoldStates, AskedStates
  <2>2. \A q \in OpenOf(u) : session[u] # NoSession => session[u].request = q
    BY <1>1, <1>3, Heard DEF View, HoldStates, Job, OpenOf
  <2> QED BY <1>1, <1>3, <2>1, <2>2, OwnSession, RowsStay
<1>4. CASE /\ u \notin masked
           /\ request' = [request EXCEPT ![r].status = "DISPATCHING"]
           /\ session' = Put(session, u, "REQUEST_CONFIRMED")
  <2> DEFINE row == [request[r] EXCEPT !.status = "DISPATCHING"]
  <2>1. request[r] \in RequestRow /\ RowInv(r)
    BY Typed
  <2>2. Exists(r)
    BY <1>1, <1>2, AccountsDiffer DEF IInv, ConversationTypeOK
  <2>3. request' = [request EXCEPT ![r] = row]
    BY <1>4, Typed
  <2>4. RowOK(r, row)
    BY <1>2, <1>4, <2>1, <2>2
       DEF RowOK, RowInv, RequestRow, Statuses, Status, Owner, Exists, Dispatched
  <2> HIDE DEF row
  <2>5. /\ "REQUEST_CONFIRMED" \in States
        /\ "REQUEST_CONFIRMED" \notin AskedStates \cup {"WAITING_FOR_RATING"}
    BY DEF States, CustomerStates, AskedStates
  <2>6. \/ session'[u] = NoSession
        \/ session'[u].state \notin AskedStates \cup {"WAITING_FOR_RATING"}
    BY <1>4, <2>5, PutEffect, Typed DEF StateSet
  <2>7. Reopened(r)
    BY <1>1, <1>2, <2>6, Heard DEF Reopened
  <2>8. Rows
    BY <1>1, <2>3, <2>4, <2>7, RowChanges
  <2> QED BY <1>1, <1>4, <2>5, <2>8, OwnSession
<1> QED BY <1>1, <1>3, <1>4 DEF FinishMedia

LEMMA SelectQuoteMoves ==
    ASSUME IInv, NEW d \in Deliveries, SelectQuote(d)
    PROVE  Move
<1>1. /\ Reading(d) /\ Sender(d) \in Customers /\ Handled(d)
      /\ UNCHANGED <<masked, merged, did>>
      /\ reading[d].seen.state = "WAITING_FOR_QUOTE_SELECTION"
  BY DEF SelectQuote, Hears, Reading, Sender
<1> PICK u \in Users : u = Sender(d)
  BY <1>1, Typed
<1>2. u \notin masked /\ u # Operator
  BY <1>1, Heard, Typed DEF View, IntakeStates, HoldStates
<1>3. session[u] \in Session /\ View(u, session[u])
  BY Typed DEF SelectQuote
<1>4. {"OPERATOR_FOUND_WAITING_PAYMENT", "IDLE"} \subseteq
         States \ (AskedStates \cup {"WAITING_FOR_RATING"})
  BY DEF States, CustomerStates, AskedStates
<1>5. CASE session' = Put(session, u, "IDLE") /\ UNCHANGED request
  BY <1>1, <1>2, <1>4, <1>5, OwnSession, RowsStay
<1>6. CASE /\ session[u].request # NoRequest /\ Status(session[u].request) = "DISPATCHING"
           /\ request' = [request EXCEPT ![session[u].request].status = "WAITING_FOR_DEPOSIT",
                                         ![session[u].request].assigned = TRUE]
           /\ session' = Put(session, u, "OPERATOR_FOUND_WAITING_PAYMENT")
  <2> PICK r \in Requests : r = session[u].request
    BY <1>3, <1>6 DEF Session
  <2> DEFINE row == [request[r] EXCEPT !.status = "WAITING_FOR_DEPOSIT", !.assigned = TRUE]
  <2>1. request[r] \in RequestRow /\ RowInv(r) /\ Owner(r) = u /\ Status(r) = "DISPATCHING"
    BY <1>2, <1>3, <1>6, Typed DEF View
  <2>2. request' = [request EXCEPT ![r] = row]
    BY <1>6, Typed
  <2>3. RowOK(r, row)
    BY <1>2, <2>1 DEF RowOK, RowInv, RequestRow, Statuses, Status, Owner, Exists, Dispatched
  <2> HIDE DEF row
  <2>4. ~Ended(r)
    BY <2>1 DEF Ended
  <2>5. Rows
    BY <1>1, <2>2, <2>3, <2>4, RowChanges
  <2> QED BY <1>1, <1>2, <1>4, <1>6, <2>5, OwnSession
<1> QED BY <1>5, <1>6 DEF SelectQuote

(* Both parties are written to, the customer first.                        *)
LEMMA TwoPuts ==
    ASSUME NEW S \in Sessions, NEW c \in Customers, NEW state \in States,
           NEW r \in Requests, NEW state2 \in States,
           NEW r2 \in Requests \cup {NoRequest}, NEW T,
           \/ T = PutJob(S, c, state, r)
           \/ T = PutJob(PutJob(S, c, state, r), Operator, state2, r2)
    PROVE  /\ T \in Sessions
           /\ \A w \in Users \ {c, Operator} : T[w] = S[w]
           /\ (S[c] = NoSession /\ T[c] = NoSession) \/ JobSet(S[c], T[c], state, r)
           /\ T[Operator] = S[Operator] \/ JobSet(S[Operator], T[Operator], state2, r2)
<1> DEFINE A == PutJob(S, c, state, r)
<1>1. c \in Users /\ Operator \in Users /\ c # Operator
  BY AccountsDiffer DEF Users
<1>2. /\ A \in Sessions /\ \A w \in Users \ {c} : A[w] = S[w]
      /\ (S[c] = NoSession /\ A[c] = NoSession) \/ JobSet(S[c], A[c], state, r)
  BY <1>1, PutJobEffect
<1> HIDE DEF A
<1>3. CASE T = A
  BY <1>1, <1>2, <1>3
<1>4. CASE T = PutJob(A, Operator, state2, r2)
  <2>1. /\ T \in Sessions /\ \A w \in Users \ {Operator} : T[w] = A[w]
        /\ \/ A[Operator] = NoSession /\ T[Operator] = NoSession
           \/ JobSet(A[Operator], T[Operator], state2, r2)
    BY <1>1, <1>2, <1>4, PutJobEffect
  <2> QED BY <1>1, <1>2, <2>1
<1> QED BY <1>3, <1>4 DEF A

LEMMA FinalizeMoves ==
    ASSUME IInv, NEW r \in Requests, Finalize(r), Exists(r), Owner(r) \notin masked,
           UNCHANGED <<masked, merged>>, Read
    PROVE  Move
<1> DEFINE row == [request[r] EXCEPT !.status = "COMPLETED", !.billed = FALSE]
           ended == EndRelay(session, r)
           us == Parties(r)
<1>1. request[r] \in RequestRow /\ RowInv(r)
  BY Typed
<1> PICK c \in Customers : c = Owner(r)
  BY Typed
<1>2. request' = [request EXCEPT ![r] = row] /\ Log(r, "settled")
  BY Typed DEF Finalize
<1>3. RowOK(r, row) /\ row.status = "COMPLETED" /\ row.assigned = request[r].assigned
      /\ row.owner = c
  BY <1>1 DEF RowOK, RowInv, RequestRow, Statuses, Status, Owner, Exists, Dispatched
<1> HIDE DEF row
<1>4. Rows
  BY <1>2, <1>3, RowChanges
<1>5. /\ request'[r].assigned = request[r].assigned /\ Owner(r)' = c
      /\ Over(r)' /\ "settled" \in did'[r]
  BY <1>2, <1>3, Typed DEF Owner, Over, Ended, Status, Log, IInv, ConversationTypeOK
<1>6. ended = CloseRelays(session, us)
  BY DEF EndRelay
<1> HIDE DEF us
<1>7. ended \in Sessions /\ \A w \in Users : Same(session[w], ended[w])
  BY <1>6, Typed, RelayEffect
<1>8. \/ session' = PutJob(ended, c, "WAITING_FOR_RATING", r)
      \/ /\ request[r].assigned
         /\ session' = PutJob(PutJob(ended, c, "WAITING_FOR_RATING", r),
                              Operator, "WAITING_FOR_RATING", r)
  BY DEF Finalize
<1> HIDE DEF ended
<1>9. "WAITING_FOR_RATING" \in States
  BY DEF States, CustomerStates
<1>10. /\ session' \in Sessions
       /\ \A w \in Users \ {c, Operator} : session'[w] = ended[w]
       /\ session'[c] = NoSession \/ JobSet(ended[c], session'[c], "WAITING_FOR_RATING", r)
       /\ \/ session'[Operator] = ended[Operator]
          \/ JobSet(ended[Operator], session'[Operator], "WAITING_FOR_RATING", r)
             /\ request[r].assigned
  <2>1. CASE session' = PutJob(ended, c, "WAITING_FOR_RATING", r)
    <3>1. /\ session' \in Sessions
          /\ \A w \in Users \ {c} : session'[w] = ended[w]
          /\ session'[c] = NoSession \/ JobSet(ended[c], session'[c], "WAITING_FOR_RATING", r)
      BY <1>7, <1>9, <2>1, PutJobEffect, Typed
    <3> QED BY <3>1, Typed
  <2>2. CASE request[r].assigned
    BY <1>7, <1>8, <1>9, <2>2, TwoPuts
  <2> QED BY <1>8, <2>1, <2>2
<1>11. ASSUME JobSet(ended[c], session'[c], "WAITING_FOR_RATING", r)
       PROVE  SessionMoves(c) /\ TurnMoves(c)
  BY <1>5, <1>11 DEF JobSet, SessionMoves, TurnMoves
<1>12. ASSUME JobSet(ended[Operator], session'[Operator], "WAITING_FOR_RATING", r),
              request[r].assigned
       PROVE  SessionMoves(Operator)
  BY <1>5, <1>12 DEF JobSet, SessionMoves
<1> QED
  BY <1>4, <1>7, <1>10, <1>11, <1>12, AssemblesMove, Typed

LEMMA ConfirmMoves ==
    ASSUME IInv, NEW d \in Deliveries, Confirm(d)
    PROVE  Move
<1>1. /\ Reading(d) /\ Sender(d) \in Customers /\ Handled(d)
      /\ UNCHANGED <<masked, merged>> /\ Job(d) # NoRequest
      /\ reading[d].seen.state = "AWAITING_COMPLETION_CONFIRM"
  BY DEF Confirm, Hears, Reading, Sender
<1> PICK u \in Users : u = Sender(d)
  BY <1>1, Typed
<1> PICK r \in Requests : r = Job(d)
  BY <1>1, Heard
<1>2. Owner(r) = u /\ u # Operator /\ u \notin masked
  BY <1>1, Heard, Typed DEF View, Job, IntakeStates, HoldStates
<1>3. Exists(r)
  BY <1>1, <1>2, AccountsDiffer DEF IInv, ConversationTypeOK
<1>4. "IDLE" \in States /\ "IDLE" \notin AskedStates \cup {"WAITING_FOR_RATING"}
  BY DEF States, CustomerStates, AskedStates
<1>5. CASE session' = Put(session, u, "IDLE") /\ UNCHANGED <<request, did>>
  BY <1>1, <1>2, <1>4, <1>5, OwnSession, RowsStay
<1>6. CASE Finalize(r)
  BY <1>1, <1>2, <1>3, <1>6, Heard, FinalizeMoves
<1>7. CASE /\ request' = [request EXCEPT ![r].status = "COMPLETED", ![r].billed = Billable(r)]
           /\ session' = IF session[u] # NoSession /\ session[u].state = "WAITING_FOR_RATING"
                          THEN session
                          ELSE [session EXCEPT ![u] =
                                   IF @ = NoSession THEN FreshSession
                                                    ELSE [@ EXCEPT !.state = "IDLE"]]
           /\ UNCHANGED did
  <2> DEFINE b == Billable(r)
             row == [request[r] EXCEPT !.status = "COMPLETED", !.billed = b]
             x == IF session[u] = NoSession THEN FreshSession
                                            ELSE [session[u] EXCEPT !.state = "IDLE"]
  <2>1. request[r] \in RequestRow /\ RowInv(r)
    BY Typed
  <2>2. b \in BOOLEAN /\ (b => request[r].assigned)
    BY <2>1 DEF Billable, RequestRow
  <2>3. request' = [request EXCEPT ![r] = row]
    BY <1>7, Typed
  <2> HIDE DEF b
  <2>4. RowOK(r, row) /\ row.status = "COMPLETED"
    BY <1>3, <2>1, <2>2 DEF RowOK, RowInv, RequestRow, Statuses, Status, Owner, Exists, Dispatched
  <2> HIDE DEF row
  <2>5. Rows
    BY <1>7, <1>1, <2>3, <2>4, RowChanges
  <2>6. /\ x \in Session /\ x.state = "IDLE"
        /\ x.request # NoRequest => Owner(x.request) = u
    <3>1. CASE session[u] = NoSession
      BY <3>1 DEF FreshSession, Session, CustomerStates
    <3>2. CASE session[u] # NoSession
      <4>1. session[u] \in Session /\ View(u, session[u])
        BY <3>2, Typed
      <4> QED BY <1>2, <3>2, <4>1 DEF Session, View, CustomerStates
    <3> QED BY <3>1, <3>2
  <2>7. session' = session \/ session' = [session EXCEPT ![u] = x]
    BY <1>7, Typed
  <2> HIDE DEF x
  <2>8. session' \in Sessions /\ (session'[u] = session[u] \/ session'[u] = x)
        /\ \A w \in Users \ {u} : session'[w] = session[w]
    BY <2>6, <2>7, Typed DEF Sessions
  <2>9. session'[u] = x => SessionMoves(u) /\ TurnMoves(u)
    BY <1>1, <1>2, <1>4, <2>6, Heard DEF SessionMoves, TurnMoves
  <2> QED BY <1>1, <2>5, <2>8, <2>9, Heard, AssemblesMove DEF Same
<1> QED BY <1>5, <1>6, <1>7 DEF Confirm

LEMMA DisputeMoves ==
    ASSUME IInv, NEW d \in Deliveries, Dispute(d)
    PROVE  Move
<1>1. /\ Reading(d) /\ Sender(d) \in Customers /\ Handled(d)
      /\ UNCHANGED <<masked, merged, did>> /\ Job(d) # NoRequest
      /\ reading[d].seen.state = "AWAITING_COMPLETION_CONFIRM"
  BY DEF Dispute, Hears, Reading, Sender
<1> PICK u \in Customers : u = Sender(d)
  BY <1>1
<1> PICK r \in Requests : r = Job(d)
  BY <1>1, Heard
<1>2. Owner(r) = u /\ u # Operator /\ u \notin masked /\ u \in Users
  BY <1>1, Heard, Typed DEF View, Job, IntakeStates, HoldStates
<1>3. /\ "IDLE" \in States /\ "IDLE" \notin AskedStates \cup {"WAITING_FOR_RATING"}
      /\ "AWAITING_DISPUTE_REASON" \in States \cap AskedStates
      /\ "AWAITING_DISPUTE_RESPONSE" \in States
  BY DEF States, CustomerStates, OperatorStates, AskedStates
<1>4. CASE session' = Put(session, u, "IDLE") /\ UNCHANGED request
  BY <1>1, <1>2, <1>3, <1>4, OwnSession, RowsStay
<1>5. CASE /\ ~Ended(r) /\ request[r].dispute # "open"
           /\ request' = [request EXCEPT ![r].dispute = "open", ![r].status = "IN_DISPUTE"]
           /\ session' = LET asked == PutJob(session, u, "AWAITING_DISPUTE_REASON", r) IN
                         IF session[u] = NoSession \/ ~request[r].assigned THEN asked
                         ELSE PutJob(asked, Operator, "AWAITING_DISPUTE_RESPONSE", r)
  <2> DEFINE row == [request[r] EXCEPT !.dispute = "open", !.status = "IN_DISPUTE"]
  <2>1. request[r] \in RequestRow /\ RowInv(r) /\ Exists(r)
    BY <1>1, <1>2, Typed, AccountsDiffer DEF IInv, ConversationTypeOK
  <2>2. request' = [request EXCEPT ![r] = row]
    BY <1>5, Typed
  <2>3. RowOK(r, row) /\ row.assigned = request[r].assigned
    BY <1>2, <2>1 DEF RowOK, RowInv, RequestRow, Statuses, Status, Owner, Exists, Dispatched
  <2> HIDE DEF row
  <2>4. Rows /\ request'[r].assigned = request[r].assigned
    BY <1>1, <1>5, <2>2, <2>3, RowChanges, Typed
  <2>5. /\ session' \in Sessions
        /\ \A w \in Users \ {u, Operator} : session'[w] = session[w]
        /\ \/ session'[u] = NoSession
           \/ JobSet(session[u], session'[u], "AWAITING_DISPUTE_REASON", r)
        /\ \/ session'[Operator] = session[Operator]
           \/ request[r].assigned
              /\ JobSet(session[Operator], session'[Operator], "AWAITING_DISPUTE_RESPONSE", r)
    <3>1. CASE session' = PutJob(session, u, "AWAITING_DISPUTE_REASON", r)
      BY <1>2, <1>3, <3>1, PutJobEffect, Typed
    <3>2. CASE request[r].assigned
      BY <1>3, <1>5, <3>2, TwoPuts, Typed
    <3> QED BY <1>5, <3>1, <3>2
  <2>6. JobSet(session[u], session'[u], "AWAITING_DISPUTE_REASON", r)
           => SessionMoves(u) /\ TurnMoves(u)
    BY <1>1, <1>2, <1>3, Heard DEF JobSet, SessionMoves, TurnMoves, Job
  <2>7. ASSUME request[r].assigned,
               JobSet(session[Operator], session'[Operator], "AWAITING_DISPUTE_RESPONSE", r)
        PROVE  SessionMoves(Operator)
    BY <2>4, <2>7 DEF JobSet, SessionMoves
  <2> QED BY <1>1, <2>4, <2>5, <2>6, <2>7, Heard, Typed, AssemblesMove DEF Same
<1> QED BY <1>4, <1>5 DEF Dispute

-----------------------------------------------------------------------------
(* The operator's flow.                                                    *)

(* The job an operator's message is about is one with a price, of a        *)
(* customer who can be called.                                             *)
LEMMA OperatorsJob ==
    ASSUME IInv, NEW d \in Deliveries, Reading(d), Sender(d) = Operator,
           Job(d) # NoRequest
    PROVE  /\ Job(d) \in Requests /\ request[Job(d)].assigned
           /\ Exists(Job(d)) /\ Owner(Job(d)) \notin masked
           /\ Owner(Job(d)) \in Customers
<1>1. Job(d) \in Requests /\ request[Job(d)].assigned
  BY Heard DEF View, Job
<1> PICK r \in Requests : r = Job(d)
  BY <1>1
<1>2. RowInv(r) /\ request[r].assigned
  BY <1>1, Typed
<1>3. Exists(r) /\ Owner(r) \notin masked
  BY <1>2 DEF RowInv
<1> QED BY <1>1, <1>3, Typed

(* The operator's session moves on; no row changes.                        *)
LEMMA OperatorPuts ==
    ASSUME IInv, NEW d \in Deliveries, Reading(d), Sender(d) = Operator,
           Handled(d), UNCHANGED <<request, masked, merged, did>>,
           NEW state \in {"OPERATOR_ON_JOB", "OPERATOR_AT_LOCATION",
                          "OPERATOR_AWAITING_COMPLETION_MEDIA"},
           session' = Put(session, Operator, state)
    PROVE  Move
<1>1. state \in States /\ state \notin AskedStates \cup {"WAITING_FOR_RATING"}
  BY DEF States, OperatorStates, AskedStates
<1> QED BY <1>1, OwnSession, RowsStay, Typed

LEMMA OperatorClears ==
    ASSUME IInv, Read, UNCHANGED <<request, masked, merged, did>>,
           session' = Clear(session, Operator)
    PROVE  Move
<1>1. /\ session' \in Sessions /\ session'[Operator] = NoSession
      /\ \A w \in Users \ {Operator} : session'[w] = session[w]
  BY ClearEffect, Typed
<1> QED BY <1>1, RowsStay, AssemblesMove DEF Same

LEMMA ArrivedMoves ==
    ASSUME IInv, NEW d \in Deliveries, Arrived(d)
    PROVE  Move
<1>1. /\ Reading(d) /\ Sender(d) = Operator /\ Handled(d)
      /\ UNCHANGED <<masked, merged, did>> /\ Job(d) # NoRequest
  BY DEF Arrived, Hears, Reading, Sender
<1> PICK r \in Requests : r = Job(d)
  BY <1>1, OperatorsJob
<1>2. request[r].assigned /\ Exists(r) /\ Owner(r) \notin masked
  BY <1>1, OperatorsJob
<1>3. CASE session' = Clear(session, Operator) /\ UNCHANGED request
  BY <1>1, <1>3, OperatorClears, Heard
<1>4. CASE /\ ~Ended(r)
           /\ request' = [request EXCEPT ![r].status = "ARRIVED"]
           /\ session' = Put(session, Operator, "OPERATOR_AT_LOCATION")
  <2> DEFINE row == [request[r] EXCEPT !.status = "ARRIVED"]
  <2>1. request[r] \in RequestRow /\ RowInv(r)
    BY Typed
  <2>2. request' = [request EXCEPT ![r] = row]
    BY <1>4, Typed
  <2>3. RowOK(r, row)
    BY <1>2, <2>1 DEF RowOK, RowInv, RequestRow, Statuses, Status, Owner, Exists, Dispatched
  <2> HIDE DEF row
  <2>4. Rows
    BY <1>1, <1>4, <2>2, <2>3, RowChanges
  <2>5. /\ "OPERATOR_AT_LOCATION" \in States
        /\ "OPERATOR_AT_LOCATION" \notin AskedStates \cup {"WAITING_FOR_RATING"}
    BY DEF States, OperatorStates, AskedStates
  <2> QED BY <1>1, <1>4, <2>4, <2>5, OwnSession, Typed
<1> QED BY <1>3, <1>4 DEF Arrived

LEMMA DoneMoves ==
    ASSUME IInv, NEW d \in Deliveries, Done(d)
    PROVE  Move
  BY OperatorPuts DEF Done, Hears, Reading, Sender

LEMMA OperatorStatementMoves ==
    ASSUME IInv, NEW d \in Deliveries, OperatorStatement(d)
    PROVE  Move
  BY OperatorPuts DEF OperatorStatement, Hears, Reading, Sender

LEMMA CompletionMediaMoves ==
    ASSUME IInv, NEW d \in Deliveries, CompletionMedia(d)
    PROVE  Move
<1>1. /\ Reading(d) /\ Sender(d) = Operator /\ Handled(d)
      /\ UNCHANGED <<masked, merged, did>>
  BY DEF CompletionMedia, Hears, Reading, Sender
<1>2. CASE /\ Job(d) # NoRequest
           /\ request' = [request EXCEPT ![Job(d)].evidence = TRUE]
           /\ UNCHANGED session
  <2> PICK r \in Requests : r = Job(d)
    BY <1>1, <1>2, OperatorsJob
  <2> DEFINE row == [request[r] EXCEPT !.evidence = TRUE]
  <2>1. request[r] \in RequestRow /\ RowInv(r)
    BY Typed
  <2>2. request' = [request EXCEPT ![r] = row]
    BY <1>2, Typed
  <2>3. RowOK(r, row) /\ row.status = Status(r)
    BY <2>1 DEF RowOK, RowInv, RequestRow, Status, Owner, Open, Exists, Ended, Dispatched
  <2> HIDE DEF row
  <2>4. Rows
    BY <1>1, <2>2, <2>3, RowChanges DEF Ended
  <2> QED BY <1>1, <1>2, <2>4, Heard, NoSessionMoves
<1>3. CASE session' = Put(session, Operator, "OPERATOR_ON_JOB") /\ UNCHANGED request
  BY <1>1, <1>3, OperatorPuts
<1> QED BY <1>2, <1>3 DEF CompletionMedia

(* The job is called done: its date is set, and the customer is asked.     *)
LEMMA CalledDone ==
    ASSUME IInv, NEW r \in Requests, Exists(r), Owner(r) \notin masked, Read,
           request' = [request EXCEPT ![r].due = "set"], Log(r, "done"),
           UNCHANGED <<masked, merged>>,
           \/ session' = PutJob(session, Owner(r), "AWAITING_COMPLETION_CONFIRM", r)
           \/ session' = PutJob(PutJob(session, Owner(r), "AWAITING_COMPLETION_CONFIRM", r),
                                Operator, "IDLE", NoRequest)
    PROVE  Move
<1> DEFINE row == [request[r] EXCEPT !.due = "set"]
<1> PICK c \in Customers : c = Owner(r)
  BY Typed
<1>1. request[r] \in RequestRow /\ RowInv(r)
  BY Typed
<1>2. request' = [request EXCEPT ![r] = row]
  BY Typed
<1>3. RowOK(r, row) /\ row.status = Status(r) /\ row.due # "none"
  BY <1>1 DEF RowOK, RowInv, RequestRow, Status, Owner, Open, Exists, Ended, Dispatched
<1> HIDE DEF row
<1>4. Rows
  BY <1>2, <1>3, RowChanges DEF Ended
<1>5. {"AWAITING_COMPLETION_CONFIRM", "IDLE"} \subseteq States
  BY DEF States, CustomerStates
<1>6. /\ session' \in Sessions
      /\ \A w \in Users \ {c, Operator} : session'[w] = session[w]
      /\ \/ session'[c] = NoSession
         \/ JobSet(session[c], session'[c], "AWAITING_COMPLETION_CONFIRM", r)
      /\ \/ session'[Operator] = session[Operator]
         \/ JobSet(session[Operator], session'[Operator], "IDLE", NoRequest)
  <2>1. /\ session \in Sessions /\ "AWAITING_COMPLETION_CONFIRM" \in States
        /\ "IDLE" \in States /\ NoRequest \in Requests \cup {NoRequest}
    BY <1>5, Typed
  <2>2. \/ session' = PutJob(session, c, "AWAITING_COMPLETION_CONFIRM", r)
        \/ session' = PutJob(PutJob(session, c, "AWAITING_COMPLETION_CONFIRM", r),
                             Operator, "IDLE", NoRequest)
    OBVIOUS
  <2>3. /\ session' \in Sessions
        /\ \A w \in Users \ {c, Operator} : session'[w] = session[w]
        /\ \/ session[c] = NoSession /\ session'[c] = NoSession
           \/ JobSet(session[c], session'[c], "AWAITING_COMPLETION_CONFIRM", r)
        /\ \/ session'[Operator] = session[Operator]
           \/ JobSet(session[Operator], session'[Operator], "IDLE", NoRequest)
    <3> DEFINE A == PutJob(session, c, "AWAITING_COMPLETION_CONFIRM", r)
               B == PutJob(A, Operator, "IDLE", NoRequest)
    <3>1. c \in Users /\ Operator \in Users /\ c # Operator
      BY AccountsDiffer DEF Users
    <3>2. /\ A \in Sessions /\ \A w \in Users \ {c} : A[w] = session[w]
          /\ \/ session[c] = NoSession /\ A[c] = NoSession
             \/ JobSet(session[c], A[c], "AWAITING_COMPLETION_CONFIRM", r)
      BY <2>1, <3>1, PutJobEffect
    <3>3. session' = A \/ session' = PutJob(A, Operator, "IDLE", NoRequest)
      BY <2>2
    <3> HIDE DEF A
    <3>4. /\ B \in Sessions /\ \A w \in Users \ {Operator} : B[w] = A[w]
          /\ \/ A[Operator] = NoSession /\ B[Operator] = NoSession
             \/ JobSet(A[Operator], B[Operator], "IDLE", NoRequest)
      BY <2>1, <3>1, <3>2, PutJobEffect
    <3>5. session' = A \/ session' = B
      BY <3>3
    <3> HIDE DEF B
    <3>6. CASE session' = A
      BY <3>1, <3>2, <3>6
    <3>7. CASE session' = B
      BY <3>1, <3>2, <3>4, <3>7
    <3> QED BY <3>5, <3>6, <3>7
  <2> QED BY <2>3
<1>7. "done" \in did'[r]
  BY DEF Log, IInv, ConversationTypeOK
<1>8. ASSUME JobSet(session[c], session'[c], "AWAITING_COMPLETION_CONFIRM", r)
      PROVE  SessionMoves(c) /\ TurnMoves(c)
  <2>1. /\ session'[c] \in Session /\ session'[c].request = r
        /\ session'[c].state = "AWAITING_COMPLETION_CONFIRM"
    BY <1>8 DEF JobSet
  <2>2. Over(session[c].request)'
    BY <1>7, <2>1 DEF Over
  <2> QED BY <2>1, <2>2 DEF SessionMoves, TurnMoves
<1>9. ASSUME JobSet(session[Operator], session'[Operator], "IDLE", NoRequest)
      PROVE  SessionMoves(Operator)
  BY <1>9 DEF JobSet, SessionMoves
<1> QED BY <1>4, <1>6, <1>8, <1>9, Typed, AssemblesMove DEF Same

LEMMA FinishJobMoves ==
    ASSUME IInv, NEW d \in Deliveries, FinishJob(d)
    PROVE  Move
<1>1. /\ Reading(d) /\ Sender(d) = Operator /\ Handled(d)
      /\ UNCHANGED <<masked, merged>> /\ Job(d) # NoRequest
  BY DEF FinishJob, Hears, Reading, Sender
<1> PICK r \in Requests : r = Job(d)
  BY <1>1, OperatorsJob
<1>2. Exists(r) /\ Owner(r) \notin masked /\ Owner(r) \in Customers
  BY <1>1, OperatorsJob
<1>3. CASE session' = Clear(session, Operator) /\ UNCHANGED <<request, did>>
  BY <1>1, <1>3, OperatorClears, Heard
<1>4. CASE JobDone(r)
  <2> DEFINE A == PutJob(session, Owner(r), "AWAITING_COMPLETION_CONFIRM", r)
  <2>1. A \in Sessions
    BY <1>2, Typed, PutJobEffect DEF States, CustomerStates
  <2>2. session' = [A EXCEPT ![Operator] = IF @ = NoSession THEN @
                            ELSE [@ EXCEPT !.state = "IDLE", !.request = NoRequest]]
    BY <1>4 DEF JobDone
  <2> HIDE DEF A
  <2>3. session' = PutJob(A, Operator, "IDLE", NoRequest)
    BY <2>1, <2>2, Typed DEF PutJob, Sessions
  <2>4. Read
    BY <1>1, Heard
  <2>5. request' = [request EXCEPT ![r].due = "set"] /\ Log(r, "done")
    BY <1>4 DEF JobDone
  <2> QED BY <1>1, <1>2, <2>3, <2>4, <2>5, CalledDone DEF A
<1> QED BY <1>3, <1>4 DEF FinishJob

-----------------------------------------------------------------------------
(* What the other components do.                                           *)

(* One row changes, and no session.                                        *)
LEMMA OnlyARow ==
    ASSUME IInv, NEW r \in Requests, NEW row, RowOK(r, row),
           request' = [request EXCEPT ![r] = row],
           Ended(r) => row.status \in {"COMPLETED", "CANCELLED"},
           UNCHANGED <<session, reading, masked, merged, did>>
    PROVE  Move
  BY RowChanges, NoSessionMoves DEF Read

LEMMA AssignOperatorMoves ==
    ASSUME IInv, NEW r \in Requests, AssignOperator(r)
    PROVE  Move
<1> DEFINE row == [request[r] EXCEPT !.status = "WAITING_FOR_DEPOSIT", !.assigned = TRUE]
<1>1. request[r] \in RequestRow /\ RowInv(r)
  BY Typed
<1>2. request' = [request EXCEPT ![r] = row]
  BY Typed DEF AssignOperator
<1>3. RowOK(r, row) /\ ~Ended(r)
  BY <1>1 DEF AssignOperator, RowOK, RowInv, RequestRow, Statuses, Status, Owner, Open, Exists,
              Ended, Dispatched
<1> HIDE DEF row
<1> QED BY <1>2, <1>3, OnlyARow DEF AssignOperator

LEMMA ResolveDisputeMoves ==
    ASSUME IInv, NEW r \in Requests, ResolveDispute(r)
    PROVE  Move
<1> DEFINE b == Billable(r)
           row == [request[r] EXCEPT !.dispute = "resolved", !.billed = b]
<1>1. request[r] \in RequestRow /\ RowInv(r)
  BY Typed
<1>2. b \in BOOLEAN /\ (b => request[r].assigned)
  BY <1>1 DEF Billable, RequestRow
<1>3. request' = [request EXCEPT ![r] = row]
  BY Typed DEF ResolveDispute
<1> HIDE DEF b
<1>4. RowOK(r, row) /\ row.status = Status(r)
  BY <1>1, <1>2 DEF RowOK, RowInv, RequestRow, Status, Owner, Open, Exists, Ended, Dispatched
<1> HIDE DEF row
<1> QED BY <1>3, <1>4, OnlyARow DEF ResolveDispute, Ended

LEMMA AlertStaffMoves ==
    ASSUME IInv, NEW r \in Requests, AlertStaff(r)
    PROVE  Move
<1> DEFINE row == [request[r] EXCEPT !.due = "alerted"]
<1>1. request[r] \in RequestRow /\ RowInv(r)
  BY Typed
<1>2. request' = [request EXCEPT ![r] = row]
  BY Typed DEF AlertStaff
<1>3. RowOK(r, row) /\ row.status = Status(r)
  BY <1>1 DEF RowOK, RowInv, RequestRow, Status, Owner, Open, Exists, Ended, Dispatched
<1> HIDE DEF row
<1> QED BY <1>2, <1>3, OnlyARow DEF AlertStaff, Ended

LEMMA UpdateStatusMoves ==
    ASSUME IInv, NEW r \in Requests, NEW status \in {"COMPLETED", "CANCELLED"},
           UpdateStatus(r, status)
    PROVE  Move
<1> DEFINE b == status = "COMPLETED" /\ request[r].dispute = "none" /\ Billable(r)
           c == request[r].billed \/ b
           row == [request[r] EXCEPT !.status = status, !.billed = c]
           us == Parties(r)
<1>1. request[r] \in RequestRow /\ RowInv(r) /\ Exists(r)
  BY Typed DEF UpdateStatus
<1>2. b \in BOOLEAN /\ (b => request[r].assigned)
  BY <1>1 DEF Billable, RequestRow
<1>3. request' = [request EXCEPT ![r] = row]
  BY Typed DEF UpdateStatus
<1> HIDE DEF b
<1>4. c \in BOOLEAN /\ (c => request[r].assigned)
  BY <1>1, <1>2 DEF RowInv, RequestRow
<1> HIDE DEF c
<1>5. RowOK(r, row) /\ row.status \in {"COMPLETED", "CANCELLED"}
  BY <1>1, <1>4 DEF RowOK, RowInv, RequestRow, Statuses, Status, Owner, Exists, Dispatched
<1> HIDE DEF row
<1>6. Rows
  BY <1>3, <1>5, RowChanges DEF UpdateStatus
<1>7. session' = CloseRelays(session, us)
  BY DEF UpdateStatus, EndRelay
<1> HIDE DEF us
<1>8. session' \in Sessions /\ \A w \in Users : Same(session[w], session'[w])
  BY <1>7, Typed, RelayEffect
<1> QED BY <1>6, <1>8, AssemblesMove DEF UpdateStatus, Read

LEMMA AdminCancelMoves ==
    ASSUME IInv, NEW r \in Requests, AdminCancel(r)
    PROVE  Move
<1> DEFINE row == [request[r] EXCEPT !.status = "CANCELLED"]
           ended == EndRelay(session, r)
           us == Parties(r)
<1>1. /\ request[r] \in RequestRow /\ RowInv(r) /\ Exists(r)
      /\ UNCHANGED <<reading, masked, merged, did>>
  BY Typed DEF AdminCancel
<1> PICK c \in Customers : c = Owner(r)
  BY <1>1, Typed
<1>2. request' = [request EXCEPT ![r] = row] /\ session' = Clear(ended, c)
  BY Typed DEF AdminCancel, CancelRequest
<1>3. RowOK(r, row) /\ row.status = "CANCELLED"
  BY <1>1 DEF RowOK, RowInv, RequestRow, Statuses, Status, Owner, Exists, Dispatched
<1> HIDE DEF row
<1>4. Rows
  BY <1>1, <1>2, <1>3, RowChanges
<1>5. ended = CloseRelays(session, us)
  BY DEF EndRelay
<1> HIDE DEF us
<1>6. ended \in Sessions /\ \A w \in Users : Same(session[w], ended[w])
  BY <1>5, Typed, RelayEffect
<1> HIDE DEF ended
<1>7. /\ session' \in Sessions /\ session'[c] = NoSession
      /\ \A w \in Users \ {c} : Same(session[w], session'[w])
  BY <1>2, <1>6, ClearEffect, Typed
<1> QED BY <1>1, <1>4, <1>7, AssemblesMove DEF Read

LEMMA SettleMoves ==
    ASSUME IInv, NEW r \in Requests, Settle(r)
    PROVE  Move
<1>1. Exists(r) /\ Owner(r) \notin masked
  BY Typed DEF Settle, RowInv
<1> QED BY <1>1, FinalizeMoves DEF Settle, Read

(* The operator's session is moved on with the job it is about.            *)
LEMMA ManualArrivedMoves ==
    ASSUME IInv, NEW r \in Requests, ManualArrived(r)
    PROVE  Move
<1> DEFINE row == [request[r] EXCEPT !.status = "ARRIVED"]
<1>1. /\ request[r] \in RequestRow /\ RowInv(r) /\ Status(r) = "OPERATOR_ASSIGNED"
      /\ UNCHANGED <<reading, masked, merged, did>>
  BY Typed DEF ManualArrived
<1>2. request' = [request EXCEPT ![r] = row]
  BY Typed DEF ManualArrived
<1>3. RowOK(r, row) /\ ~Ended(r)
  BY <1>1 DEF RowOK, RowInv, RequestRow, Statuses, Status, Owner, Exists, Ended, Dispatched
<1> HIDE DEF row
<1>4. Rows /\ Read
  BY <1>1, <1>2, <1>3, RowChanges DEF Read
<1>5. CASE session' = session
  BY <1>1, <1>4, <1>5, NoSessionMoves
<1>6. CASE session' = Put(session, Operator, "OPERATOR_AT_LOCATION")
           /\ session[Operator] # NoSession
  <2>1. /\ session' \in Sessions /\ \A w \in Users \ {Operator} : session'[w] = session[w]
        /\ StateSet(session[Operator], session'[Operator], "OPERATOR_AT_LOCATION")
    BY <1>6, PutEffect, Typed DEF States, OperatorStates
  <2>2. session[Operator] \in Session /\ View(Operator, session[Operator])
    BY <1>6, Typed
  <2>3. session[Operator].request # NoRequest => request'[session[Operator].request].assigned
    BY <1>4, <2>2 DEF View, Session, Rows
  <2>4. SessionMoves(Operator)
    BY <2>1, <2>3 DEF StateSet, SessionMoves
  <2> QED BY <1>1, <1>4, <2>1, <2>4, AssemblesMove, Typed DEF Same
<1> QED BY <1>5, <1>6 DEF ManualArrived

LEMMA ManualDoneMoves ==
    ASSUME IInv, NEW r \in Requests, ManualDone(r)
    PROVE  Move
<1>1. RowInv(r) /\ Status(r) = "ARRIVED"
  BY Typed DEF ManualDone
<1>2. Exists(r) /\ Owner(r) \notin masked
  BY <1>1 DEF RowInv, Exists, Dispatched
<1> QED BY <1>2, CalledDone DEF ManualDone, Read

LEMMA ShortlistMoves ==
    ASSUME IInv, NEW r \in Requests, Shortlist(r)
    PROVE  Move
<1>1. /\ RowInv(r) /\ Status(r) = "DISPATCHING"
      /\ UNCHANGED <<request, reading, masked, merged, did>>
  BY Typed DEF Shortlist
<1>2. Owner(r) \in Customers /\ Owner(r) \notin masked
  BY <1>1, Typed DEF RowInv, Exists, Dispatched
<1> PICK c \in Customers : c = Owner(r)
  BY <1>2
<1>3. /\ "WAITING_FOR_QUOTE_SELECTION" \in States
      /\ "WAITING_FOR_QUOTE_SELECTION" \notin AskedStates \cup {"WAITING_FOR_RATING"}
  BY DEF States, CustomerStates, AskedStates
<1>4. session' = Put(session, c, "WAITING_FOR_QUOTE_SELECTION")
  BY DEF Shortlist
<1>5. /\ session' \in Sessions /\ \A w \in Users \ {c} : session'[w] = session[w]
      /\ \/ session'[c] = session[c]
         \/ StateSet(session[c], session'[c], "WAITING_FOR_QUOTE_SELECTION")
  BY <1>3, <1>4, PutEffect, Typed
<1>6. ASSUME StateSet(session[c], session'[c], "WAITING_FOR_QUOTE_SELECTION")
      PROVE  SessionMoves(c) /\ TurnMoves(c)
  <2>1. session[c] \in Session /\ View(c, session[c]) /\ c # Operator
    BY <1>6, Typed DEF StateSet
  <2> QED BY <1>2, <1>3, <1>6, <2>1 DEF StateSet, SessionMoves, TurnMoves, View
<1> QED BY <1>1, <1>5, <1>6, RowsStay, AssemblesMove DEF Same, Read

LEMMA GiveUpMoves ==
    ASSUME IInv, NEW r \in Requests, GiveUp(r)
    PROVE  Move
<1> DEFINE row == [request[r] EXCEPT !.status = "CANCELLED"]
<1>1. /\ request[r] \in RequestRow /\ RowInv(r) /\ Status(r) = "DISPATCHING"
      /\ UNCHANGED <<reading, masked, merged, did>>
  BY Typed DEF GiveUp
<1>2. Owner(r) \in Customers /\ Owner(r) \notin masked
  BY <1>1, Typed DEF RowInv, Exists, Dispatched
<1> PICK c \in Customers : c = Owner(r)
  BY <1>2
<1>3. request' = [request EXCEPT ![r] = row]
  BY Typed DEF GiveUp
<1>4. RowOK(r, row) /\ row.status = "CANCELLED"
  BY <1>1 DEF RowOK, RowInv, RequestRow, Statuses, Status, Owner, Exists, Dispatched
<1> HIDE DEF row
<1>5. Rows
  BY <1>1, <1>3, <1>4, RowChanges
<1>6. "IDLE" \in States /\ NoRequest \in Requests \cup {NoRequest} /\ c \in Users
  BY Typed DEF States, CustomerStates
<1>7. session' = PutJob(session, c, "IDLE", NoRequest)
  BY DEF GiveUp
<1>8. /\ session' \in Sessions /\ \A w \in Users \ {c} : session'[w] = session[w]
      /\ session'[c] = NoSession \/ JobSet(session[c], session'[c], "IDLE", NoRequest)
  BY <1>6, <1>7, PutJobEffect, Typed
<1>9. JobSet(session[c], session'[c], "IDLE", NoRequest) => SessionMoves(c) /\ TurnMoves(c)
  BY <1>2 DEF JobSet, SessionMoves, TurnMoves
<1> QED BY <1>1, <1>5, <1>8, <1>9, AssemblesMove DEF Same, Read

(* Every session that named the job is one of its owner's or operator's.   *)
LEMMA ExpireDepositMoves ==
    ASSUME IInv, NEW r \in Requests, ExpireDeposit(r)
    PROVE  Move
<1> DEFINE row == [request[r] EXCEPT !.status = "CANCELLED"]
<1>1. /\ request[r] \in RequestRow /\ RowInv(r) /\ Status(r) = "WAITING_FOR_DEPOSIT"
      /\ UNCHANGED <<reading, masked, merged, did>>
  BY Typed DEF ExpireDeposit
<1>2. Owner(r) \in Customers /\ Owner(r) \notin masked
  BY <1>1, Typed DEF RowInv, Exists, Dispatched
<1>3. request' = [request EXCEPT ![r] = row]
  BY Typed DEF ExpireDeposit
<1>4. RowOK(r, row) /\ row.status = "CANCELLED"
  BY <1>1 DEF RowOK, RowInv, RequestRow, Statuses, Status, Owner, Exists, Dispatched
<1> HIDE DEF row
<1>5. Rows
  BY <1>1, <1>3, <1>4, RowChanges
<1>6. /\ FreshSession \in Session /\ FreshSession.request = NoRequest
      /\ FreshSession.state # "WAITING_FOR_CONTACT_INFO"
  BY DEF FreshSession, Session, CustomerStates
<1>7. session' = [u \in Users |-> IF session[u] # NoSession /\ session[u].request = r
                                    THEN FreshSession ELSE session[u]]
  BY DEF ExpireDeposit
<1> HIDE DEF FreshSession
<1>8. session' \in Sessions
  BY <1>6, <1>7, Typed DEF Sessions
<1>9. ASSUME NEW w \in Users, session[w] # NoSession, session[w].request = r
      PROVE  SessionMoves(w) /\ TurnMoves(w)
  <2>1. session'[w] = FreshSession
    BY <1>7, <1>9
  <2>2. View(w, session[w])
    BY <1>9, Typed
  <2>3. w = Operator \/ w \in Customers \ masked
    BY <1>2, <1>9, <2>2, NoRequestIsNone DEF View
  <2> QED BY <1>6, <2>1, <2>3 DEF SessionMoves, TurnMoves
<1>10. \A w \in Users : \/ session'[w] = session[w]
                        \/ session[w] # NoSession /\ session[w].request = r
  BY <1>7
<1> QED BY <1>1, <1>5, <1>8, <1>9, <1>10, AssemblesMove DEF Same, Read

LEMMA ConfirmDepositMoves ==
    ASSUME IInv, NEW r \in Requests, ConfirmDeposit(r)
    PROVE  Move
<1> DEFINE row == [request[r] EXCEPT !.status = "OPERATOR_ASSIGNED"]
           b == session[Operator] # NoSession /\ session[Operator].relay
           x == [state |-> "OPERATOR_ON_JOB", request |-> r, relay |-> b]
<1>1. /\ request[r] \in RequestRow /\ RowInv(r) /\ Status(r) = "WAITING_FOR_DEPOSIT"
      /\ UNCHANGED <<reading, masked, merged, did>>
  BY Typed DEF ConfirmDeposit
<1>2. Owner(r) \in Customers /\ Owner(r) \notin masked /\ request[r].assigned
  BY <1>1, Typed DEF RowInv, Exists, Dispatched
<1> PICK c \in Customers : c = Owner(r)
  BY <1>2
<1>3. request' = [request EXCEPT ![r] = row]
  BY Typed DEF ConfirmDeposit
<1>4. RowOK(r, row) /\ ~Ended(r) /\ row.assigned
  BY <1>1, <1>2 DEF RowOK, RowInv, RequestRow, Statuses, Status, Owner, Exists, Ended, Dispatched
<1> HIDE DEF row
<1>5. Rows /\ request'[r].assigned /\ Read
  BY <1>1, <1>3, <1>4, RowChanges, Typed DEF Read
<1>6. CASE session' = session
  BY <1>1, <1>5, <1>6, NoSessionMoves
<1>7. CASE session[c] # NoSession
  <2> DEFINE told == Put(session, c, "REQUEST_CONFIRMED")
  <2>1. b \in BOOLEAN
    BY Typed DEF Session
  <2> HIDE DEF b
  <2>2. x \in Session /\ x.request = r /\ x.state = "OPERATOR_ON_JOB"
    BY <2>1 DEF Session, OperatorStates
  <2>3. session' = [told EXCEPT ![Operator] = x]
    BY <1>7 DEF ConfirmDeposit, b
  <2>4. /\ "REQUEST_CONFIRMED" \in States /\ c \in Users /\ c # Operator /\ Operator \in Users
        /\ "REQUEST_CONFIRMED" \notin AskedStates \cup {"WAITING_FOR_RATING"}
    BY Typed DEF States, CustomerStates, AskedStates
  <2>5. /\ told \in Sessions /\ \A w \in Users \ {c} : told[w] = session[w]
        /\ StateSet(session[c], told[c], "REQUEST_CONFIRMED")
    BY <1>7, <2>4, PutEffect, Typed
  <2> HIDE DEF told, x
  <2>6. /\ session' \in Sessions /\ session'[Operator] = x
        /\ \A w \in Users \ {c, Operator} : session'[w] = session[w]
        /\ StateSet(session[c], session'[c], "REQUEST_CONFIRMED")
    BY <2>2, <2>3, <2>4, <2>5 DEF Sessions
  <2>7. SessionMoves(Operator)
    BY <1>5, <2>2, <2>6 DEF SessionMoves
  <2>8. SessionMoves(c) /\ TurnMoves(c)
    <3>1. session[c] \in Session /\ View(c, session[c])
      BY <1>7, <2>4, Typed
    <3> QED BY <1>2, <2>4, <2>6, <3>1 DEF StateSet, SessionMoves, TurnMoves, View
  <2> QED BY <1>1, <1>5, <2>6, <2>7, <2>8, Typed, AssemblesMove DEF Same
<1> QED BY <1>6, <1>7 DEF ConfirmDeposit

-----------------------------------------------------------------------------
(* Every step but the three that make a row, a request or one account of   *)
(* two is a Move.                                                          *)
LEMMA StepsMove ==
    ASSUME IInv, [ConversationNext]_conversationVars
    PROVE  \/ Move
           \/ \E d \in Deliveries : \/ \E u \in Users : Receive(d, u)
                                    \/ CreateRequest(d) \/ ShareContact(d)
<1>1. UNCHANGED conversationVars => Move
  BY RowsStay, NoSessionMoves DEF conversationVars, Read
<1>2. ASSUME NEW d \in Deliveries, Answer(d) \/ EndChat(d) \/ Rate(d) \/ OperatorHandler(d)
      PROVE  Move
  BY <1>2, AnswerMoves, EndChatMoves, RateMoves, OperatorStatementMoves,
     CompletionMediaMoves, FinishJobMoves, ArrivedMoves, DoneMoves DEF OperatorHandler
<1>3. ASSUME NEW d \in Deliveries, CustomerHandler(d)
      PROVE  Move \/ CreateRequest(d) \/ ShareContact(d)
  BY <1>3, ChatDriverMoves, DisputeReasonMoves, ConfirmMoves, DisputeMoves, SosMoves,
     SelfCancelMoves, IntakeMoves, SendMediaMoves, FinishMediaMoves, SelectQuoteMoves
     DEF CustomerHandler
<1>4. ASSUME NEW r \in Requests,
             \/ Shortlist(r) \/ AssignOperator(r) \/ ConfirmDeposit(r)
             \/ ExpireDeposit(r) \/ GiveUp(r) \/ AdminCancel(r)
             \/ ManualArrived(r) \/ ManualDone(r)
             \/ ResolveDispute(r) \/ Settle(r) \/ AlertStaff(r)
      PROVE  Move
  BY <1>4, ShortlistMoves, AssignOperatorMoves, ConfirmDepositMoves, ExpireDepositMoves,
     GiveUpMoves, AdminCancelMoves, ManualArrivedMoves, ManualDoneMoves,
     ResolveDisputeMoves, SettleMoves, AlertStaffMoves
<1> QED BY <1>1, <1>2, <1>3, <1>4, UpdateStatusMoves DEF ConversationNext

-----------------------------------------------------------------------------
(* The invariant is kept.                                                  *)
LEMMA ViewsStay ==
    ASSUME IInv, Rows, UNCHANGED masked, NEW w \in Users, NEW s \in Session, View(w, s)
    PROVE  View(w, s)'
<1>1. s.request \in Requests \cup {NoRequest}
  BY DEF Session
<1>2. w \in masked => w \in Customers
  BY Typed
<1>3. w \in Customers => Outside(w)
  BY DEF Rows
<1>4. s.request # NoRequest => IF w = Operator THEN request'[s.request].assigned
                                               ELSE request'[s.request].owner = w
  BY <1>1, <1>3 DEF View, Rows, Outside, Owner, Users
<1>5. w \in masked => OpenOf(w)' \subseteq OpenOf(w)
  BY <1>2, <1>3 DEF Outside, OpenOf, Owner
<1> QED BY <1>4, <1>5 DEF View, Owner

LEMMA MoveKeeps ==
    ASSUME IInv, Move
    PROVE  IInv'
<1>1. /\ Rows /\ UNCHANGED <<masked, merged>> /\ session' \in Sessions
      /\ \A w \in Users : SessionMoves(w)
      /\ \A d \in Deliveries : reading'[d] \in {reading[d], NoMessage}
      /\ reading' \in [Deliveries -> [user : Users, seen : Session] \cup {NoMessage}]
  BY DEF Move
<1>2. ConversationTypeOK'
  BY <1>1 DEF ConversationTypeOK, IInv, Rows, Sessions, Owner
<1>3. (merged \subseteq masked /\ masked \subseteq Masked)'
  BY <1>1 DEF IInv
<1>4. \A r \in Requests : RowInv(r)'
  BY <1>1 DEF Rows
<1>5. ASSUME NEW w \in masked
      PROVE  OpenOf(w)' \subseteq OpenOf(w)
  BY <1>1, Typed DEF Rows, Outside, OpenOf, Owner
<1>6. ASSUME NEW w \in Users, session'[w] # NoSession
      PROVE  View(w, session[w])'
  <2> PICK s \in Session : s = session'[w]
    BY <1>1, <1>6 DEF Sessions
  <2>1. CASE \E d \in Deliveries : Reading(d) /\ Sender(d) = w /\ reading'[d] = NoMessage
             /\ View(w, session[w])'
    BY <2>1
  <2>2. CASE View(w, s)
    <3>1. View(w, s)'
      BY <1>1, <2>2, ViewsStay
    <3> QED BY <3>1 DEF View
  <2>3. CASE /\ w = Operator /\ s.state # "WAITING_FOR_CONTACT_INFO"
             /\ s.request # NoRequest => request'[s.request].assigned
    BY <1>1, <2>3, Typed DEF View
  <2>4. CASE Same(session[w], s)
    <3>1. View(w, session[w]) /\ s.state = session[w].state /\ s.request = session[w].request
      BY <1>6, <2>4, Typed DEF Same
    <3> QED BY <2>2, <3>1 DEF View
  <2>5. CASE /\ w \in Customers \ masked /\ s.state # "WAITING_FOR_CONTACT_INFO"
             /\ s.request # NoRequest => Owner(s.request) = w
    BY <2>2, <2>5, Typed DEF View
  <2> QED BY <1>1, <1>6, <2>1, <2>3, <2>4, <2>5 DEF SessionMoves
<1>7. ASSUME NEW d \in Deliveries
      PROVE  ReaderInv(d)'
  <2> SUFFICES ASSUME Reading(d)' PROVE ReaderInv(d)'
    BY DEF ReaderInv
  <2>1. reading'[d] = reading[d] /\ Reading(d) /\ Sender(d)' = Sender(d)
    BY <1>1 DEF Reading, Sender
  <2>2. ReaderInv(d)
    BY DEF IInv
  <2> PICK u \in Users, s \in Session : u = Sender(d) /\ s = reading[d].seen
    BY <2>1, Heard
  <2>3. u \notin merged'
    BY <1>1, <2>1, <2>2 DEF ReaderInv
  <2>4. \A e \in Deliveries : Reading(e)' /\ Sender(e)' = u => d = e
    BY <1>1, <2>1, <2>2 DEF ReaderInv, Reading, Sender
  <2>5. View(u, s)'
    BY <1>1, <2>1, <2>2, ViewsStay DEF ReaderInv
  <2>6. u \in masked =>
           \/ session'[u] = NoSession
           \/ session'[u].state = s.state /\ session'[u].request = s.request
    <3>1. CASE Same(session[u], session'[u])
      BY <2>1, <2>2, <3>1 DEF ReaderInv, Same
    <3>2. CASE \E e \in Deliveries : Reading(e) /\ Sender(e) = u /\ reading'[e] = NoMessage
      BY <2>1, <2>2, <3>2 DEF ReaderInv, Reading
    <3> QED BY <1>1, <3>1, <3>2, Typed DEF SessionMoves
  <2> QED BY <1>1, <2>1, <2>3, <2>4, <2>5, <2>6 DEF ReaderInv, View
<1>8. \A u \in masked' : \A r, s \in OpenOf(u)' : r = s
  BY <1>1, <1>5 DEF IInv
<1>9. ASSUME NEW u \in merged'
      PROVE  session'[u] = NoSession /\ OpenOf(u)' = {}
  <2>1. u \in merged /\ u \in masked /\ u \in Users /\ session[u] = NoSession /\ OpenOf(u) = {}
    BY <1>1, Typed DEF IInv
  <2>2. \A d \in Deliveries : Reading(d) => Sender(d) # u
    BY <2>1 DEF IInv, ReaderInv
  <2>3. session'[u] = NoSession
    BY <1>1, <2>1, <2>2, Typed DEF SessionMoves, Same
  <2> QED BY <1>5, <2>1, <2>3
<1> QED BY <1>2, <1>3, <1>4, <1>6, <1>7, <1>8, <1>9 DEF IInv

LEMMA ReceiveKeeps ==
    ASSUME IInv, NEW d \in Deliveries, NEW u \in Users, Receive(d, u)
    PROVE  IInv'
<1> DEFINE row == IF session[u] = NoSession THEN FreshSession ELSE session[u]
<1> PICK view \in Views(row) : reading' = [reading EXCEPT ![d] = [user |-> u, seen |-> view]]
  BY DEF Receive
<1>1. /\ UNCHANGED <<request, masked, merged, did>> /\ ~Reading(d) /\ u \notin merged
      /\ session' = [session EXCEPT ![u] = row] /\ u \notin BeingHandled
  BY DEF Receive, Reading
<1>2. row \in Session /\ View(u, row)
  <2>1. CASE session[u] = NoSession
    BY <2>1 DEF FreshSession, Session, CustomerStates, View, IntakeStates, HoldStates
  <2>2. CASE session[u] # NoSession
    BY <2>2, Typed
  <2> QED BY <2>1, <2>2
<1> HIDE DEF row
<1>3. /\ view \in Session /\ View(u, view)
      /\ u \in masked => view = row
  <2>1. CASE view = row
    BY <1>2, <2>1
  <2>2. CASE /\ row.state = "WAITING_FOR_RATING"
             /\ view = [row EXCEPT !.state = "IDLE", !.request = NoRequest]
    <3>1. view \in Session /\ view.state = "IDLE" /\ view.request = NoRequest
      BY <1>2, <2>2 DEF Session, CustomerStates
    <3>2. u \notin masked
      BY <1>2, <2>2 DEF View, IntakeStates, HoldStates
    <3> QED BY <3>1, <3>2 DEF View
  <2> QED BY <2>1, <2>2 DEF Views
<1> DEFINE m == [user |-> u, seen |-> view]
<1>4. m \in [user : Users, seen : Session] /\ m.user = u /\ m.seen = view
  BY <1>3
<1> HIDE DEF m
<1>5. /\ reading' \in [Deliveries -> [user : Users, seen : Session] \cup {NoMessage}]
      /\ reading'[d] = m /\ \A e \in Deliveries \ {d} : reading'[e] = reading[e]
  BY <1>4, Typed DEF m
<1>6. /\ session' \in Sessions /\ session'[u] = row
      /\ \A w \in Users \ {u} : session'[w] = session[w]
  BY <1>1, <1>2, Typed DEF Sessions
<1>7. ConversationTypeOK'
  BY <1>1, <1>5, <1>6 DEF IInv, ConversationTypeOK, Sessions, Exists, Status, Owner
<1>8. \A w : OpenOf(w)' = OpenOf(w)
  BY <1>1 DEF OpenOf, Open, Exists, Ended, Status, Owner
<1>9. \A w, s : View(w, s)' <=> View(w, s)
  BY <1>1, <1>8 DEF View, Owner
<1>10. \A r \in Requests : RowInv(r)'
  BY <1>1 DEF IInv, RowInv, Status, Owner, Exists
<1>11. ASSUME NEW w \in Users, session'[w] # NoSession
       PROVE  View(w, session[w])'
  <2> PICK s \in Session : s = session'[w]
    BY <1>6, <1>11 DEF Sessions
  <2>1. View(w, s)
    BY <1>2, <1>6, <1>11, Typed
  <2> QED BY <1>9, <2>1 DEF View
<1>12. ASSUME NEW e \in Deliveries
       PROVE  ReaderInv(e)'
  <2>1. CASE e = d
    <3>1. \A f \in Deliveries \ {d} : Reading(f)' => Sender(f)' # u
      BY <1>1, <1>5 DEF BeingHandled, Reading, Sender
    <3>2. View(u, view)'
      BY <1>3, <1>9
    <3> QED BY <1>1, <1>3, <1>4, <1>5, <1>6, <2>1, <3>1, <3>2 DEF ReaderInv, Sender, View
  <2>2. CASE e # d
    <3> SUFFICES ASSUME Reading(e)' PROVE ReaderInv(e)'
      BY DEF ReaderInv
    <3>1. reading'[e] = reading[e] /\ Reading(e) /\ Sender(e)' = Sender(e)
      BY <1>5, <2>2 DEF Reading, Sender
    <3> PICK w \in Users, s \in Session : w = Sender(e) /\ s = reading[e].seen
      BY <3>1, Heard
    <3>2. ReaderInv(e) /\ w # u
      BY <1>1, <3>1 DEF IInv, BeingHandled, Reading, Sender
    <3>3. View(w, s)'
      BY <1>9, <3>1, <3>2 DEF ReaderInv
    <3>4. \A f \in Deliveries : Reading(f)' /\ Sender(f)' = w => e = f
      BY <1>4, <1>5, <3>1, <3>2 DEF ReaderInv, Reading, Sender
    <3>5. /\ w \notin merged'
          /\ w \in masked' => \/ session'[w] = NoSession
                              \/ session'[w].state = s.state /\ session'[w].request = s.request
      BY <1>1, <1>6, <3>1, <3>2 DEF ReaderInv
    <3> QED BY <3>1, <3>3, <3>4, <3>5 DEF ReaderInv, View
  <2> QED BY <2>1, <2>2
<1>13. \A w \in masked' : \A r, s \in OpenOf(w)' : r = s
  BY <1>1, <1>8 DEF IInv
<1>14. \A w \in merged' : session'[w] = NoSession /\ OpenOf(w)' = {}
  BY <1>1, <1>6, <1>8, Typed DEF IInv
<1> QED BY <1>1, <1>7, <1>10, <1>11, <1>12, <1>13, <1>14 DEF IInv

(* Whoever else is being heard is somebody else.                           *)
LEMMA OthersStay ==
    ASSUME IInv, NEW d \in Deliveries, Reading(d), Handled(d),
           NEW e \in Deliveries, Reading(e)'
    PROVE  /\ reading'[e] = reading[e] /\ Reading(e) /\ Sender(e)' = Sender(e)
           /\ Sender(e) # Sender(d) /\ ReaderInv(e)
           /\ \A f \in Deliveries : Reading(f)' /\ Sender(f)' = Sender(e) => e = f
<1>1. \A f \in Deliveries : Reading(f)' =>
         reading'[f] = reading[f] /\ Reading(f) /\ Sender(f)' = Sender(f) /\ f # d
  BY Typed DEF Handled, Reading, Sender
<1>2. \A f \in Deliveries : ReaderInv(f)
  BY DEF IInv
<1> QED BY <1>1, <1>2 DEF ReaderInv

LEMMA ReadersTyped ==
    ASSUME IInv, NEW d \in Deliveries, Handled(d)
    PROVE  reading' \in [Deliveries -> [user : Users, seen : Session] \cup {NoMessage}]
  BY Typed DEF Handled

LEMMA CreateRequestKeeps ==
    ASSUME IInv, NEW d \in Deliveries, CreateRequest(d)
    PROVE  IInv'
<1>1. /\ Reading(d) /\ Sender(d) \in Customers /\ Handled(d)
      /\ UNCHANGED <<masked, merged, did>> /\ Sender(d) \notin merged
      /\ reading[d].seen.state = "WAITING_FOR_ISSUE_TYPE"
  BY DEF CreateRequest, Hears, Reading, Sender
<1> PICK u \in Customers : u = Sender(d)
  BY <1>1
<1> PICK r \in Requests :
       /\ ~Exists(r)
       /\ request' = [request EXCEPT ![r].status = "WAITING_FOR_MEDIA", ![r].owner = u]
       /\ session' = PutJob(session, u, "WAITING_FOR_MEDIA", r)
  BY DEF CreateRequest
<1>2. u # NoAccount /\ u # Operator /\ u \in Users
  BY Typed, AccountsDiffer
<1> DEFINE row == [request[r] EXCEPT !.status = "WAITING_FOR_MEDIA", !.owner = u]
<1>3. /\ request[r] \in RequestRow /\ RowInv(r) /\ Owner(r) = NoAccount
      /\ ~request[r].assigned
  BY Typed, AccountsDiffer DEF RowInv, IInv, ConversationTypeOK
<1>4. /\ row \in RequestRow /\ row.status = "WAITING_FOR_MEDIA" /\ row.owner = u
      /\ row.assigned = request[r].assigned /\ row.billed = request[r].billed
      /\ row.due = request[r].due
  BY <1>3 DEF RequestRow, Statuses
<1>5. request' = [request EXCEPT ![r] = row]
  BY Typed
<1> HIDE DEF row
<1>6. /\ request' \in [Requests -> RequestRow] /\ request'[r] = row
      /\ \A q \in Requests \ {r} : request'[q] = request[q]
  BY <1>4, <1>5, Typed
<1>7. u \in masked => OpenOf(u) = {}
  BY <1>1, Heard DEF View, OpenOf, IntakeStates
<1>8. /\ OpenOf(u)' = OpenOf(u) \cup {r}
      /\ \A w \in Users \ {u} : OpenOf(w)' = OpenOf(w)
  <2>1. \A w : \A q \in Requests \ {r} : q \in OpenOf(w)' <=> q \in OpenOf(w)
    BY <1>6 DEF OpenOf, Open, Exists, Ended, Status, Owner
  <2>2. \A w : r \in OpenOf(w)' <=> w = u
    BY <1>4, <1>6 DEF OpenOf, Open, Exists, Ended, Status, Owner
  <2>3. \A w : r \notin OpenOf(w)
    BY DEF OpenOf, Open
  <2> QED BY <2>1, <2>2, <2>3 DEF OpenOf
<1>9. /\ session' \in Sessions /\ \A w \in Users \ {u} : session'[w] = session[w]
      /\ session'[u] = NoSession \/ JobSet(session[u], session'[u], "WAITING_FOR_MEDIA", r)
  BY <1>2, PutJobEffect, Typed DEF States, CustomerStates
<1>10. ASSUME NEW w \in Users \ {u}, NEW s \in Session, View(w, s)
       PROVE  View(w, s)'
  <2>1. s.request \in Requests \cup {NoRequest}
    BY DEF Session
  <2>2. s.request # NoRequest => s.request # r
    BY <1>3, <1>10, AccountsDiffer DEF View, Users
  <2>3. s.request # NoRequest => request'[s.request] = request[s.request]
    BY <1>6, <2>1, <2>2
  <2> QED BY <1>1, <1>8, <1>10, <2>3 DEF View, Owner
<1>11. ConversationTypeOK'
  <2>1. \A q \in Requests : Exists(q)' <=> request'[q].owner # NoAccount
    BY <1>2, <1>4, <1>6 DEF IInv, ConversationTypeOK, Exists, Status, Owner
  <2> QED BY <1>1, <1>6, <1>9, <2>1, ReadersTyped DEF IInv, ConversationTypeOK, Sessions, Owner
<1>12. \A q \in Requests : RowInv(q)'
  <2>1. RowInv(r)'
    BY <1>1, <1>3, <1>4, <1>6 DEF RowInv, Dispatched, Status, Owner, Exists
  <2>2. \A q \in Requests \ {r} : RowInv(q)'
    BY <1>1, <1>6, Typed DEF RowInv, Status, Owner, Exists
  <2> QED BY <2>1, <2>2
<1>13. ASSUME NEW w \in Users, session'[w] # NoSession
       PROVE  View(w, session[w])'
  <2> PICK s \in Session : s = session'[w]
    BY <1>9, <1>13 DEF Sessions
  <2>1. CASE w # u
    <3>1. View(w, s)
      BY <1>9, <1>13, <2>1, Typed
    <3> QED BY <1>10, <2>1, <3>1 DEF View
  <2>2. CASE w = u
    <3>1. s.state = "WAITING_FOR_MEDIA" /\ s.request = r
      BY <1>9, <1>13, <2>2 DEF JobSet
    <3> QED
      BY <1>1, <1>2, <1>4, <1>6, <1>7, <1>8, <2>2, <3>1 DEF View, Owner, IntakeStates, HoldStates
  <2> QED BY <2>1, <2>2
<1>14. ASSUME NEW e \in Deliveries
       PROVE  ReaderInv(e)'
  <2> SUFFICES ASSUME Reading(e)' PROVE ReaderInv(e)'
    BY DEF ReaderInv
  <2>1. /\ reading'[e] = reading[e] /\ Reading(e) /\ Sender(e)' = Sender(e)
        /\ Sender(e) # u /\ ReaderInv(e)
        /\ \A f \in Deliveries : Reading(f)' /\ Sender(f)' = Sender(e) => e = f
    BY <1>1, OthersStay
  <2> PICK w \in Users \ {u}, s \in Session : w = Sender(e) /\ s = reading[e].seen
    BY <2>1, Heard
  <2>2. View(w, s)'
    BY <1>10, <2>1 DEF ReaderInv
  <2>3. /\ w \notin merged'
        /\ w \in masked' => \/ session'[w] = NoSession
                            \/ session'[w].state = s.state /\ session'[w].request = s.request
    BY <1>1, <1>9, <2>1 DEF ReaderInv
  <2> QED BY <2>1, <2>2, <2>3 DEF ReaderInv, View
<1>15. \A w \in masked' : \A q, s \in OpenOf(w)' : q = s
  <2>1. \A w \in masked \ {u} : OpenOf(w)' = OpenOf(w)
    BY <1>8, Typed
  <2>2. u \in masked => OpenOf(u)' = {r}
    BY <1>7, <1>8
  <2> QED BY <1>1, <2>1, <2>2 DEF IInv
<1>16. \A w \in merged' : session'[w] = NoSession /\ OpenOf(w)' = {}
  BY <1>1, <1>8, <1>9, Typed DEF IInv
<1> QED BY <1>1, <1>11, <1>12, <1>13, <1>14, <1>15, <1>16 DEF IInv

(* A contact card: the customer gets a number, or becomes the account that *)
(* has it.  Either way it is their one request, and theirs alone, that     *)
(* goes on.                                                                *)
LEMMA CardIsTheirs ==
    ASSUME IInv, NEW d \in Deliveries, ShareContact(d)
    PROVE  /\ Reading(d) /\ Sender(d) \in masked /\ Handled(d) /\ UNCHANGED did
           /\ Job(d) \in Requests /\ Owner(Job(d)) = Sender(d) /\ Exists(Job(d))
           /\ ~request[Job(d)].assigned
           /\ OpenOf(Sender(d)) \subseteq {Job(d)}
           /\ session[Sender(d)] \in Session /\ session[Sender(d)].request = Job(d)
           /\ \A w \in Users \ {Sender(d)} : \A s \in Session :
                 View(w, s) /\ s.request # NoRequest => s.request # Job(d)
<1>1. /\ Reading(d) /\ Sender(d) \in Customers /\ Handled(d) /\ UNCHANGED did
      /\ Job(d) # NoRequest /\ session[Sender(d)] # NoSession
      /\ reading[d].seen.state = "WAITING_FOR_CONTACT_INFO"
  BY DEF ShareContact, Hears, Reading, Sender
<1> PICK u \in Customers : u = Sender(d)
  BY <1>1
<1> PICK r \in Requests : r = Job(d)
  BY <1>1, Heard
<1>2. u \in masked /\ Owner(r) = u /\ OpenOf(u) \subseteq {r}
  BY <1>1, Heard, Typed DEF View, Job, HoldStates, OpenOf
<1>3. Exists(r)
  BY <1>2, AccountsDiffer DEF IInv, ConversationTypeOK
<1>4. ~request[r].assigned
  BY <1>2, Typed DEF RowInv
<1>5. session[u] \in Session /\ session[u].request = r
  BY <1>1, <1>2, Heard, Typed
<1>6. \A w \in Users \ {u} : \A s \in Session :
         View(w, s) /\ s.request # NoRequest => s.request # r
  BY <1>2, <1>4 DEF View, Users
<1> QED BY <1>1, <1>2, <1>3, <1>4, <1>5, <1>6

(* What both outcomes have in common, for everybody else.                  *)
LEMMA CardKeeps ==
    ASSUME IInv, NEW d \in Deliveries, ShareContact(d),
           NEW u \in Customers, u = Sender(d), NEW v \in Customers,
           v = u \/ v \notin masked \cup merged,
           NEW r \in Requests, r = Job(d), NEW row,
           request' = [request EXCEPT ![r] = row], row \in RequestRow,
           row.status = "DISPATCHING", row.owner = v,
           row.assigned = request[r].assigned, row.billed = request[r].billed,
           row.due = request[r].due,
           masked' \subseteq masked, masked \subseteq masked' \cup {v}, v \notin masked',
           merged' \subseteq merged \cup ({u} \ {v}), u # v => u \in masked',
           session' \in Sessions,
           \A w \in Users \ {u, v} : session'[w] = session[w],
           u # v => session'[u] = NoSession,
           session'[v] # NoSession =>
              session'[v].request = r /\ session'[v].state = "REQUEST_CONFIRMED"
    PROVE  IInv'
<1>1. /\ Reading(d) /\ u \in masked /\ Handled(d) /\ UNCHANGED did
      /\ Owner(r) = u /\ Exists(r) /\ ~request[r].assigned
      /\ OpenOf(u) \subseteq {r}
      /\ \A w \in Users \ {u} : \A s \in Session :
            View(w, s) /\ s.request # NoRequest => s.request # r
  BY CardIsTheirs
<1>2. u \notin merged /\ u # Operator /\ v # Operator /\ v \notin merged /\ v \in Users
  BY <1>1, Typed DEF IInv, ReaderInv
<1>3. /\ request' \in [Requests -> RequestRow] /\ request'[r] = row
      /\ \A q \in Requests \ {r} : request'[q] = request[q]
  BY Typed
<1>4. /\ \A w \in Users \ {u, v} : OpenOf(w)' = OpenOf(w)
      /\ u # v => OpenOf(u)' = {}
  <2>1. \A w : \A q \in Requests \ {r} : q \in OpenOf(w)' <=> q \in OpenOf(w)
    BY <1>3 DEF OpenOf, Open, Exists, Ended, Status, Owner
  <2>2. \A w : w # v => r \notin OpenOf(w)'
    BY <1>3 DEF OpenOf, Owner
  <2>3. \A w : w # u => r \notin OpenOf(w)
    BY <1>1 DEF OpenOf
  <2>4. u # v => OpenOf(u)' = {}
    BY <1>1, <2>1, <2>2 DEF OpenOf
  <2> QED BY <2>1, <2>2, <2>3, <2>4 DEF OpenOf
<1>5. ASSUME NEW w \in Users \ {u}, NEW s \in Session, View(w, s)
      PROVE  View(w, s)'
  <2>1. s.request \in Requests \cup {NoRequest}
    BY DEF Session
  <2>2. s.request # NoRequest => s.request # r
    BY <1>1, <1>5
  <2>3. s.request # NoRequest => request'[s.request] = request[s.request]
    BY <1>3, <2>1, <2>2
  <2>4. CASE w = v
    BY <1>5, <2>3, <2>4 DEF View, Owner
  <2>5. CASE w # v
    BY <1>4, <1>5, <2>3, <2>5 DEF View, Owner
  <2> QED BY <2>4, <2>5
<1>6. ConversationTypeOK'
  <2>1. \A q \in Requests : Exists(q)' <=> request'[q].owner # NoAccount
    BY <1>3, AccountsDiffer DEF IInv, ConversationTypeOK, Exists, Status, Owner
  <2>2. masked' \subseteq Customers /\ merged' \subseteq Customers
    BY DEF IInv, ConversationTypeOK
  <2> QED BY <1>1, <1>3, <2>1, <2>2, ReadersTyped DEF IInv, ConversationTypeOK, Sessions, Owner
<1>7. (merged \subseteq masked /\ masked \subseteq Masked)'
  BY <1>2 DEF IInv
<1>8. \A q \in Requests : RowInv(q)'
  <2>1. RowInv(r)'
    BY <1>1, <1>3, Typed DEF RowInv, Dispatched, Status, Owner, Exists
  <2>2. \A q \in Requests \ {r} : RowInv(q)'
    BY <1>1, <1>3, Typed DEF RowInv, Status, Owner, Exists
  <2> QED BY <2>1, <2>2
<1>9. ASSUME NEW w \in Users, session'[w] # NoSession
      PROVE  View(w, session[w])'
  <2> PICK s \in Session : s = session'[w]
    BY <1>9 DEF Sessions
  <2>1. CASE w \notin {u, v}
    <3>1. View(w, s)
      BY <1>9, <2>1, Typed
    <3> QED BY <1>5, <2>1, <3>1 DEF View
  <2>2. CASE w = v
    <3>1. s.state = "REQUEST_CONFIRMED" /\ s.request = r
      BY <1>9, <2>2
    <3> QED BY <1>2, <1>3, <2>2, <3>1 DEF View, Owner
  <2> QED BY <1>9, <2>1, <2>2
<1>10. ASSUME NEW e \in Deliveries
       PROVE  ReaderInv(e)'
  <2> SUFFICES ASSUME Reading(e)' PROVE ReaderInv(e)'
    BY DEF ReaderInv
  <2>1. /\ reading'[e] = reading[e] /\ Reading(e) /\ Sender(e)' = Sender(e)
        /\ Sender(e) # u /\ ReaderInv(e)
        /\ \A f \in Deliveries : Reading(f)' /\ Sender(f)' = Sender(e) => e = f
    BY <1>1, OthersStay
  <2> PICK w \in Users \ {u}, s \in Session : w = Sender(e) /\ s = reading[e].seen
    BY <2>1, Heard
  <2>2. View(w, s)'
    BY <1>5, <2>1 DEF ReaderInv
  <2>3. /\ w \notin merged'
        /\ w \in masked' => \/ session'[w] = NoSession
                            \/ session'[w].state = s.state /\ session'[w].request = s.request
    BY <2>1 DEF ReaderInv
  <2> QED BY <2>1, <2>2, <2>3 DEF ReaderInv, View
<1>11. \A w \in masked' : \A q, s \in OpenOf(w)' : q = s
  BY <1>4, Typed DEF IInv
<1>12. \A w \in merged' : session'[w] = NoSession /\ OpenOf(w)' = {}
  BY <1>2, <1>4, Typed DEF IInv
<1> QED BY <1>6, <1>7, <1>8, <1>9, <1>10, <1>11, <1>12 DEF IInv

(* The two outcomes.                                                       *)
LEMMA CardShapes ==
    ASSUME IInv, NEW d \in Deliveries, ShareContact(d),
           NEW u \in Customers, u = Sender(d), NEW r \in Requests, r = Job(d)
    PROVE  \E v \in Customers, row \in RequestRow :
              /\ v = u \/ v \notin masked \cup merged
              /\ request' = [request EXCEPT ![r] = row]
              /\ row.status = "DISPATCHING" /\ row.owner = v
              /\ row.assigned = request[r].assigned /\ row.billed = request[r].billed
              /\ row.due = request[r].due
              /\ masked' \subseteq masked /\ masked \subseteq masked' \cup {v} /\ v \notin masked'
              /\ merged' \subseteq merged \cup ({u} \ {v}) /\ (u # v => u \in masked')
              /\ session' \in Sessions
              /\ \A w \in Users \ {u, v} : session'[w] = session[w]
              /\ u # v => session'[u] = NoSession
              /\ session'[v] # NoSession =>
                    session'[v].request = r /\ session'[v].state = "REQUEST_CONFIRMED"
<1>1. /\ u \in masked /\ Owner(r) = u /\ u \in Users /\ request[r] \in RequestRow
      /\ session[u] \in Session /\ session[u].request = r
  BY CardIsTheirs, Typed
<1>2. CASE /\ masked' = masked \ {u} /\ UNCHANGED merged
           /\ request' = [request EXCEPT ![r].status = "DISPATCHING"]
           /\ session' = Put(session, u, "REQUEST_CONFIRMED")
  <2> DEFINE row == [request[r] EXCEPT !.status = "DISPATCHING"]
  <2>1. /\ row \in RequestRow /\ row.status = "DISPATCHING" /\ row.owner = u
        /\ row.assigned = request[r].assigned /\ row.billed = request[r].billed
        /\ row.due = request[r].due
    BY <1>1 DEF RequestRow, Statuses, Owner
  <2>2. request' = [request EXCEPT ![r] = row]
    BY <1>2, Typed
  <2> HIDE DEF row
  <2>3. /\ session' \in Sessions /\ \A w \in Users \ {u} : session'[w] = session[w]
        /\ session'[u] # NoSession =>
              session'[u].request = r /\ session'[u].state = "REQUEST_CONFIRMED"
    BY <1>1, <1>2, PutEffect, Typed DEF StateSet, States, CustomerStates
  <2>4. /\ masked' \subseteq masked /\ masked \subseteq masked' \cup {u} /\ u \notin masked'
        /\ merged' \subseteq merged \cup ({u} \ {u})
        /\ \A w \in Users \ {u, u} : session'[w] = session[w]
    BY <1>2, <2>3
  <2> row \in RequestRow
    BY <2>1
  <2> WITNESS u \in Customers, row \in RequestRow
  <2> QED BY <2>1, <2>2, <2>3, <2>4
<1>3. ASSUME NEW v \in Customers \ (masked \cup merged \cup {u}), MergeAccount(u, v, r)
      PROVE  \E row \in RequestRow :
              /\ request' = [request EXCEPT ![r] = row]
              /\ row.status = "DISPATCHING" /\ row.owner = v
              /\ row.assigned = request[r].assigned /\ row.billed = request[r].billed
              /\ row.due = request[r].due
              /\ masked' = masked /\ merged' = merged \cup {u}
              /\ session' \in Sessions
              /\ \A w \in Users \ {u, v} : session'[w] = session[w]
              /\ session'[u] = NoSession
              /\ session'[v].request = r /\ session'[v].state = "REQUEST_CONFIRMED"
  <2> DEFINE row == [request[r] EXCEPT !.owner = v, !.status = "DISPATCHING"]
             x == [session[u] EXCEPT !.state = "REQUEST_CONFIRMED"]
  <2>1. /\ row \in RequestRow /\ row.status = "DISPATCHING" /\ row.owner = v
        /\ row.assigned = request[r].assigned /\ row.billed = request[r].billed
        /\ row.due = request[r].due
    BY <1>1 DEF RequestRow, Statuses
  <2>2. request' = [request EXCEPT ![r] = row]
    BY <1>3, Typed DEF MergeAccount
  <2>3. x \in Session /\ x.request = r /\ x.state = "REQUEST_CONFIRMED"
    BY <1>1 DEF Session, CustomerStates
  <2>4. session' = [session EXCEPT ![u] = NoSession, ![v] = x]
    BY <1>3 DEF MergeAccount
  <2> HIDE DEF row, x
  <2>5. /\ session' \in Sessions /\ session'[v] = x /\ session'[u] = NoSession
        /\ \A w \in Users \ {u, v} : session'[w] = session[w]
    BY <1>1, <2>3, <2>4, Typed DEF Sessions
  <2> QED BY <1>3, <2>1, <2>2, <2>3, <2>5 DEF MergeAccount
<1>4. CASE \E v \in Customers \ (masked \cup merged \cup {u}) : MergeAccount(u, v, r)
  BY <1>1, <1>3, <1>4
<1> QED BY <1>2, <1>4 DEF ShareContact

LEMMA ShareContactKeeps ==
    ASSUME IInv, NEW d \in Deliveries, ShareContact(d)
    PROVE  IInv'
<1>1. Sender(d) \in Customers /\ Job(d) \in Requests
  BY CardIsTheirs, Typed
<1> PICK u \in Customers, r \in Requests : u = Sender(d) /\ r = Job(d)
  BY <1>1
<1> QED BY CardShapes, CardKeeps

LEMMA InitEstablishes ==
    ASSUME ConversationInit
    PROVE  IInv
<1>1. \A r \in Requests : request[r] = AbsentRequest
  BY DEF ConversationInit
<1>2. ConversationTypeOK
  BY <1>1, AccountsDiffer
     DEF ConversationInit, ConversationTypeOK, RequestRow, AbsentRequest, Statuses, Exists,
         Status, Owner
<1>3. \A r \in Requests : RowInv(r)
  BY <1>1 DEF ConversationInit, RowInv, AbsentRequest, Dispatched, Status
<1>4. \A u : OpenOf(u) = {}
  BY <1>1 DEF OpenOf, Open, Exists, Status, AbsentRequest
<1> QED
  BY <1>2, <1>3, <1>4, AccountsDiffer DEF ConversationInit, IInv, ReaderInv, Reading

THEOREM SessionsAreSound == ConversationSpec => []IInv
<1>1. ConversationInit => IInv
  BY InitEstablishes
<1>2. IInv /\ [ConversationNext]_conversationVars => IInv'
  BY StepsMove, MoveKeeps, ReceiveKeeps, CreateRequestKeeps, ShareContactKeeps
<1> QED BY <1>1, <1>2, PTL DEF ConversationSpec

-----------------------------------------------------------------------------
(* What the sessions' theorem gives.                                       *)

(* Every state has its shape: a handler never writes a session, a row or a *)
(* reading that is not one.                                                *)
THEOREM ConversationTypeCorrect == ConversationSpec => []ConversationTypeOK
<1>1. IInv => ConversationTypeOK
  BY DEF IInv
<1> QED BY <1>1, SessionsAreSound, PTL

(* MergedOwnsNothing: whatever messages of the two accounts were being     *)
(* handled when mergeIntoExistingAccount made one of them, the account     *)
(* that is gone has no session and no request left open.                   *)
THEOREM MergedIsEmpty == ConversationSpec => []MergedOwnsNothing
<1>1. IInv => MergedOwnsNothing
  BY DEF IInv, MergedOwnsNothing
<1> QED BY <1>1, SessionsAreSound, PTL

(* DispatchedIsReachable: no request leaves the intake for a customer      *)
(* without a number, by any way round the contact card.                    *)
THEOREM DispatchedCanBeCalled == ConversationSpec => []DispatchedIsReachable
<1>1. ASSUME IInv
      PROVE  DispatchedIsReachable
  <2>1. merged \subseteq masked /\ \A r \in Requests : RowInv(r)
    BY <1>1 DEF IInv
  <2> QED BY <2>1 DEF DispatchedIsReachable, RowInv, Dispatched
<1>2. IInv => DispatchedIsReachable
  BY <1>1
<1> QED BY <1>2, SessionsAreSound, PTL

(* SilenceIsNoticed: a job called done has the date its alert is claimed   *)
(* by, or the alert has gone out.                                          *)
THEOREM SilenceIsAlwaysNoticed == ConversationSpec => []SilenceIsNoticed
<1>1. IInv => SilenceIsNoticed
  BY DEF IInv, SilenceIsNoticed, RowInv
<1> QED BY <1>1, SessionsAreSound, PTL

-----------------------------------------------------------------------------
(* The customer's turn.  A handler that was about to ask again for what it *)
(* read of one session must not find another there: that takes two         *)
(* messages in progress and a merge, and is assumed away.                  *)
NoOverlap == Masked = {} \/ \A d, e \in Deliveries : d = e

Asked(s) ==
    s.request # NoRequest =>
       /\ s.state \in AskedStates => Over(s.request)
       /\ s.state = "WAITING_FOR_RATING" => "settled" \in did[s.request]

ReaderAsks(d) ==
    Reading(d) /\ Sender(d) \in Customers =>
       /\ reading[d].seen.state \in AskedStates /\ Job(d) # NoRequest => Over(Job(d))
       /\ (/\ reading[d].seen.state = "AWAITING_DISPUTE_REASON"
           /\ session[Sender(d)] # NoSession /\ session[Sender(d)].request # NoRequest)
             => Over(session[Sender(d)].request)

TInv ==
    /\ \A u \in Customers : session[u] # NoSession => Asked(session[u])
    /\ \A d \in Deliveries : ReaderAsks(d)

(* A job that is opened again is its owner's, whose handler has left the   *)
(* session where nothing is asked.                                         *)
LEMMA ReopenedIsNotAsked ==
    ASSUME IInv, IInv', Move, NEW q \in Requests, Reopened(q)
    PROVE  /\ \A w \in Customers : session'[w] # NoSession /\ session'[w].request = q =>
                 session'[w].state \notin AskedStates
           /\ \A e \in Deliveries : Reading(e)' => Sender(e)' # Owner(q)
<1> PICK d \in Deliveries :
       /\ Reading(d) /\ reading'[d] = NoMessage
       /\ Owner(q) = Sender(d) /\ Sender(d) \in Customers
       /\ \/ session'[Sender(d)] = NoSession
          \/ session'[Sender(d)].state \notin AskedStates \cup {"WAITING_FOR_RATING"}
  BY DEF Reopened
<1> PICK v \in Customers : v = Sender(d)
  OBVIOUS
<1>1. request'[q].owner = v
  BY DEF Move, Rows, Outside
<1>2. ASSUME NEW w \in Customers, session'[w] # NoSession, session'[w].request = q
      PROVE  w = v
  <2>1. w \in Users /\ w # Operator
    BY Typed
  <2>2. View(w, session[w])'
    BY <1>2, <2>1 DEF IInv
  <2> QED BY <1>1, <1>2, <2>1, <2>2, NoRequestIsNone DEF View, Owner
<1>3. ASSUME NEW e \in Deliveries, Reading(e)'
      PROVE  Sender(e)' # v
  <2>1. reading'[e] = reading[e] /\ Reading(e) /\ Sender(e)' = Sender(e) /\ e # d
    BY <1>3 DEF Move, Reading, Sender
  <2> QED BY <2>1 DEF IInv, ReaderInv
<1> QED BY <1>2, <1>3

LEMMA MoveKeepsTurns ==
    ASSUME IInv, IInv', TInv, Move
    PROVE  TInv'
<1>1. /\ \A q \in Requests : Over(q) => Over(q)' \/ Reopened(q)
      /\ \A q \in Requests : did[q] \subseteq did'[q]
      /\ \A d \in Deliveries : reading'[d] \in {reading[d], NoMessage}
      /\ \A w \in Customers : TurnMoves(w)
      /\ session' \in Sessions
  BY DEF Move, Rows
<1>2. ASSUME NEW w \in Customers, session'[w] # NoSession
      PROVE  Asked(session[w])'
  <2> PICK s \in Session : s = session'[w]
    BY <1>1, <1>2, Typed DEF Sessions
  <2> PICK q \in Requests \cup {NoRequest} : q = s.request
    BY DEF Session
  <2> SUFFICES ASSUME q # NoRequest
               PROVE  /\ s.state \in AskedStates => Over(q)'
                      /\ s.state = "WAITING_FOR_RATING" => "settled" \in did'[q]
    BY DEF Asked, Over, Ended, Status
  <2>1. ASSUME s.state \in AskedStates, Over(q)
        PROVE  Over(q)'
    BY <1>1, <1>2, <2>1, ReopenedIsNotAsked
  <2>2. CASE Same(session[w], s)
    <3>1. Asked(session[w]) /\ session[w].state = s.state /\ session[w].request = q
      BY <1>2, <2>2 DEF TInv, Same
    <3> QED BY <1>1, <2>1, <3>1 DEF Asked
  <2>3. CASE \E d \in Deliveries :
          /\ Reading(d) /\ Sender(d) = w /\ reading'[d] = NoMessage
          /\ \/ s.state \notin AskedStates \cup {"WAITING_FOR_RATING"}
             \/ /\ s.state \in AskedStates
                /\ reading[d].seen.state = "AWAITING_DISPUTE_REASON"
                /\ session[w] # NoSession /\ q = session[w].request
             \/ /\ s.state \in AskedStates
                /\ reading[d].seen.state = "AWAITING_COMPLETION_CONFIRM"
                /\ q = reading[d].seen.request
    <3>1. s.state \in AskedStates => Over(q)
      BY <2>3 DEF TInv, ReaderAsks, Job, AskedStates
    <3>2. "WAITING_FOR_RATING" \notin AskedStates
      BY DEF AskedStates
    <3> QED BY <2>1, <2>3, <3>1, <3>2
  <2>4. CASE /\ s.request \in Requests /\ Over(session[w].request)'
             /\ s.state = "WAITING_FOR_RATING" => "settled" \in did'[s.request]
    BY <2>4 DEF Over, Ended, Status
  <2> QED BY <1>1, <1>2, <2>2, <2>3, <2>4 DEF TurnMoves
<1>3. ASSUME NEW e \in Deliveries
      PROVE  ReaderAsks(e)'
  <2> SUFFICES ASSUME Reading(e)', Sender(e)' \in Customers
               PROVE  ReaderAsks(e)'
    BY DEF ReaderAsks
  <2>1. reading'[e] = reading[e] /\ Reading(e) /\ Sender(e)' = Sender(e)
    BY <1>1 DEF Reading, Sender
  <2> PICK w \in Customers, s \in Session : w = Sender(e) /\ s = reading[e].seen
    BY <2>1, Heard
  <2>2. ReaderAsks(e) /\ View(w, s) /\ w # Operator
    BY <2>1, Heard, Typed DEF TInv
  <2>3. ASSUME NEW q \in Requests, Over(q), Owner(q) = w
        PROVE  Over(q)'
    BY <1>1, <2>1, <2>3, ReopenedIsNotAsked
  <2>4. ASSUME s.state \in AskedStates, s.request # NoRequest
        PROVE  Over(s.request)'
    <3> PICK q \in Requests : q = s.request
      BY <2>4 DEF Session
    <3>1. Over(q) /\ Owner(q) = w
      BY <2>1, <2>2, <2>4 DEF ReaderAsks, Job, View
    <3>2. Over(q)'
      BY <2>3, <3>1
    <3> QED BY <3>2 DEF Over, Ended, Status
  <2>5. ASSUME s.state = "AWAITING_DISPUTE_REASON", session'[w] # NoSession,
               session'[w].request # NoRequest
        PROVE  Over(session[w].request)'
    <3> PICK q \in Requests : q = session'[w].request
      BY <1>1, <2>5, Typed DEF Sessions, Session
    <3>1. CASE \E d \in Deliveries : Reading(d) /\ Sender(d) = w /\ reading'[d] = NoMessage
      BY <2>1, <3>1 DEF IInv, ReaderInv, Reading
    <3>2. CASE session[w] # NoSession /\ q = session[w].request
      <4>1. Over(q)
        BY <2>1, <2>2, <2>5, <3>2 DEF ReaderAsks
      <4>2. Owner(q) = w
        BY <2>2, <2>5, <3>2, Typed DEF View
      <4> QED BY <2>3, <4>1, <4>2 DEF Over, Ended, Status
    <3>3. CASE Over(session[w].request)'
      BY <3>3
    <3>4. \/ session[w] # NoSession /\ q = session[w].request
          \/ Over(session[w].request)'
          \/ \E d \in Deliveries : Reading(d) /\ Sender(d) = w /\ reading'[d] = NoMessage
      BY <1>1, <2>5 DEF TurnMoves, Same
    <3> QED BY <3>1, <3>2, <3>3, <3>4
  <2> QED BY <2>1, <2>4, <2>5 DEF ReaderAsks, Job, Over, Ended, Status
<1> QED BY <1>2, <1>3 DEF TInv

LEMMA ReceiveKeepsTurns ==
    ASSUME IInv, TInv, NEW d \in Deliveries, NEW u \in Users, Receive(d, u)
    PROVE  TInv'
<1> DEFINE row == IF session[u] = NoSession THEN FreshSession ELSE session[u]
<1> PICK view \in Views(row) : reading' = [reading EXCEPT ![d] = [user |-> u, seen |-> view]]
  BY DEF Receive
<1>1. /\ UNCHANGED <<request, did>> /\ ~Reading(d)
      /\ session' = [session EXCEPT ![u] = row] /\ u \notin BeingHandled
  BY DEF Receive, Reading
<1>2. \A q : Over(q)' <=> Over(q)
  BY <1>1 DEF Over, Ended, Status
<1>3. \A s : Asked(s)' <=> Asked(s)
  BY <1>1, <1>2 DEF Asked
<1>4. u \in Customers => Asked(row)
  BY DEF TInv, Asked, FreshSession, AskedStates
<1>5. view.state \in AskedStates => view = row
  <2>1. row \in Session
    BY Typed DEF FreshSession, Session, CustomerStates
  <2> HIDE DEF row
  <2>2. [row EXCEPT !.state = "IDLE", !.request = NoRequest].state = "IDLE"
    BY <2>1 DEF Session
  <2> QED BY <2>2 DEF Views, AskedStates
<1> HIDE DEF row
<1>6. /\ session'[u] = row /\ \A w \in Users \ {u} : session'[w] = session[w]
      /\ reading'[d] = [user |-> u, seen |-> view]
      /\ \A e \in Deliveries \ {d} : reading'[e] = reading[e]
  BY <1>1, Typed DEF Sessions
<1>7. ASSUME NEW w \in Customers, session'[w] # NoSession
      PROVE  Asked(session[w])'
  <2> PICK s : s = session'[w]
    OBVIOUS
  <2>1. w \in Users
    BY Typed
  <2>2. Asked(s)
    BY <1>4, <1>6, <1>7, <2>1 DEF TInv
  <2>3. Asked(s)'
    BY <1>3, <2>2
  <2> QED BY <2>3 DEF Asked, Over, Ended, Status
<1>8. ASSUME NEW e \in Deliveries
      PROVE  ReaderAsks(e)'
  <2> SUFFICES ASSUME Reading(e)', Sender(e)' \in Customers
               PROVE  ReaderAsks(e)'
    BY DEF ReaderAsks
  <2>1. CASE e = d
    <3>1. Sender(e)' = u /\ u \in Customers /\ reading'[e].seen = view
      BY <1>6, <2>1 DEF Sender
    <3>2. view.state \in AskedStates /\ view.request # NoRequest => Over(view.request)
      BY <1>4, <1>5, <3>1 DEF Asked
    <3>3. view.state = "AWAITING_DISPUTE_REASON" /\ row.request # NoRequest
             => Over(row.request)
      BY <1>5, <3>2 DEF AskedStates
    <3> QED BY <1>1, <1>6, <3>1, <3>2, <3>3 DEF ReaderAsks, Job, Over, Ended, Status
  <2>2. CASE e # d
    <3>1. reading'[e] = reading[e] /\ Reading(e) /\ Sender(e)' = Sender(e) /\ Sender(e) # u
      BY <1>1, <1>6, <2>2 DEF BeingHandled, Reading, Sender
    <3>2. session'[Sender(e)] = session[Sender(e)] /\ Job(e)' = Job(e)
      BY <1>6, <3>1, Heard DEF Job
    <3>3. ReaderAsks(e)
      BY DEF TInv
    <3> QED BY <1>1, <3>1, <3>2, <3>3 DEF ReaderAsks, Over, Ended, Status
  <2> QED BY <2>1, <2>2
<1> QED BY <1>7, <1>8 DEF TInv

LEMMA CreateRequestKeepsTurns ==
    ASSUME IInv, TInv, NEW d \in Deliveries, CreateRequest(d)
    PROVE  TInv'
<1>1. Reading(d) /\ Sender(d) \in Customers /\ Handled(d) /\ UNCHANGED did
  BY DEF CreateRequest, Hears, Reading, Sender
<1> PICK u \in Customers : u = Sender(d)
  BY <1>1
<1> PICK r \in Requests :
       /\ ~Exists(r)
       /\ request' = [request EXCEPT ![r].status = "WAITING_FOR_MEDIA", ![r].owner = u]
       /\ session' = PutJob(session, u, "WAITING_FOR_MEDIA", r)
  BY DEF CreateRequest
<1>2. \A q \in Requests : Over(q) => Over(q)'
  BY <1>1, Typed DEF Over, Ended, Exists, Status
<1>3. /\ session' \in Sessions /\ \A w \in Users \ {u} : session'[w] = session[w]
      /\ session'[u] = NoSession \/ JobSet(session[u], session'[u], "WAITING_FOR_MEDIA", r)
  <2>1. session \in Sessions /\ u \in Users /\ "WAITING_FOR_MEDIA" \in States
    BY Typed DEF States, CustomerStates
  <2> QED BY <2>1, PutJobEffect
<1>4. ASSUME NEW w \in Customers, session'[w] # NoSession
      PROVE  Asked(session[w])'
  <2> PICK s \in Session : s = session'[w]
    BY <1>3, <1>4, Typed DEF Sessions
  <2>1. CASE w = u
    <3>1. s.state = "WAITING_FOR_MEDIA"
      BY <1>3, <1>4, <2>1 DEF JobSet
    <3> QED BY <3>1 DEF Asked, AskedStates
  <2>2. CASE w # u
    <3>1. s = session[w] /\ Asked(s)
      BY <1>3, <1>4, <2>2, Typed DEF TInv
    <3>2. s.request \in Requests \cup {NoRequest}
      BY DEF Session
    <3>3. Asked(s)'
      BY <1>1, <1>2, <3>1, <3>2 DEF Asked
    <3> QED BY <3>3 DEF Asked, Over, Ended, Status
  <2> QED BY <2>1, <2>2
<1>5. ASSUME NEW e \in Deliveries
      PROVE  ReaderAsks(e)'
  <2> SUFFICES ASSUME Reading(e)', Sender(e)' \in Customers
               PROVE  ReaderAsks(e)'
    BY DEF ReaderAsks
  <2>1. reading'[e] = reading[e] /\ Reading(e) /\ Sender(e)' = Sender(e) /\ Sender(e) # u
    BY <1>1, OthersStay
  <2> PICK w \in Customers \ {u}, s \in Session : w = Sender(e) /\ s = reading[e].seen
    BY <2>1, Heard
  <2>2. session'[w] = session[w] /\ ReaderAsks(e) /\ s.request \in Requests \cup {NoRequest}
    BY <1>3, Typed DEF TInv, Session
  <2>3. session[w] # NoSession => session[w].request \in Requests \cup {NoRequest}
    BY Typed DEF Session
  <2>4. s.state \in AskedStates /\ s.request # NoRequest => Over(s.request)'
    BY <1>2, <2>1, <2>2 DEF ReaderAsks, Job
  <2>5. (/\ s.state = "AWAITING_DISPUTE_REASON"
         /\ session[w] # NoSession /\ session[w].request # NoRequest)
           => \E q \in Requests : q = session[w].request /\ Over(q)'
    BY <1>2, <2>1, <2>2, <2>3 DEF ReaderAsks
  <2> QED BY <2>1, <2>2, <2>4, <2>5 DEF ReaderAsks, Job, Over, Ended, Status
<1> QED BY <1>4, <1>5 DEF TInv

(* No other message is in progress, so that nothing read is left behind.   *)
LEMMA ShareContactKeepsTurns ==
    ASSUME NoOverlap, IInv, TInv, NEW d \in Deliveries, ShareContact(d)
    PROVE  TInv'
<1>1. /\ Reading(d) /\ Sender(d) \in masked /\ Handled(d) /\ UNCHANGED did
      /\ Job(d) \in Requests
      /\ \A w \in Users \ {Sender(d)} : \A s \in Session :
            View(w, s) /\ s.request # NoRequest => s.request # Job(d)
  BY CardIsTheirs
<1> PICK u \in Customers, r \in Requests : u = Sender(d) /\ r = Job(d)
  BY <1>1, Typed
<1>2. \A e \in Deliveries : e = d
  BY <1>1 DEF NoOverlap, IInv
<1>3. \A e \in Deliveries : ~Reading(e)'
  BY <1>1, <1>2, Heard DEF Reading
<1>4. PICK v \in Customers, row \in RequestRow :
         /\ request' = [request EXCEPT ![r] = row]
         /\ session' \in Sessions
         /\ \A w \in Users \ {u, v} : session'[w] = session[w]
         /\ u # v => session'[u] = NoSession
         /\ session'[v] # NoSession =>
               session'[v].request = r /\ session'[v].state = "REQUEST_CONFIRMED"
  BY CardShapes
<1>5. ASSUME NEW w \in Customers, session'[w] # NoSession
      PROVE  Asked(session[w])'
  <2> PICK s \in Session : s = session'[w]
    BY <1>4, <1>5, Typed DEF Sessions
  <2>1. CASE w \in {u, v}
    <3>1. s.state = "REQUEST_CONFIRMED"
      BY <1>4, <1>5, <2>1
    <3> QED BY <3>1 DEF Asked, AskedStates
  <2>2. CASE w \notin {u, v}
    <3>1. w \in Users /\ s = session[w] /\ View(w, s) /\ Asked(s)
      BY <1>4, <1>5, <2>2, Typed DEF TInv
    <3>2. s.request \in (Requests \ {r}) \cup {NoRequest}
      BY <1>1, <2>2, <3>1 DEF Session
    <3>3. \A q \in Requests \ {r} : Over(q)' <=> Over(q)
      BY <1>1, <1>4, Typed DEF Over, Ended, Status
    <3>4. Asked(s)'
      BY <1>1, <3>1, <3>2, <3>3 DEF Asked
    <3> QED BY <3>4 DEF Asked, Over, Ended, Status
  <2> QED BY <2>1, <2>2
<1> QED BY <1>3, <1>5 DEF TInv, ReaderAsks

(* CustomerIsAskedInTurn: a customer is asked to confirm, to explain or to *)
(* rate only a job of theirs that was done, or is over, whoever wrote to   *)
(* their session while their message was being handled.                    *)
THEOREM CustomersAreAskedInTurn ==
    ASSUME NoOverlap
    PROVE  ConversationSpec => []CustomerIsAskedInTurn
<1> DEFINE Inv == IInv /\ TInv
<1>1. ConversationInit => Inv
  <2>1. ConversationInit => TInv
    BY DEF ConversationInit, TInv, ReaderAsks, Reading, Users
  <2> QED BY <2>1, InitEstablishes
<1>2. Inv /\ [ConversationNext]_conversationVars => Inv'
  <2> SUFFICES ASSUME IInv, TInv, [ConversationNext]_conversationVars
               PROVE  IInv' /\ TInv'
    OBVIOUS
  <2> QED
    BY StepsMove, MoveKeeps, ReceiveKeeps, CreateRequestKeeps, ShareContactKeeps,
       MoveKeepsTurns, ReceiveKeepsTurns, CreateRequestKeepsTurns, ShareContactKeepsTurns
<1>3. Inv => CustomerIsAskedInTurn
  <2> SUFFICES ASSUME IInv, TInv, NEW u \in Customers, session[u] # NoSession,
                      session[u].request # NoRequest
               PROVE  /\ session[u].state \in AskedStates =>
                            Owner(session[u].request) = u /\ Over(session[u].request)
                      /\ session[u].state = "WAITING_FOR_RATING" =>
                            Owner(session[u].request) = u /\ "settled" \in did[session[u].request]
    BY DEF CustomerIsAskedInTurn, AskedStates, Over
  <2> QED BY Typed DEF TInv, Asked, View
<1> HIDE DEF Inv
<1> QED BY <1>1, <1>2, <1>3, PTL DEF ConversationSpec

=============================================================================
