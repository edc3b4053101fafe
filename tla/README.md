# lrr-service in TLA+

`lrr-service` is the backend of Local Roadside Rescue: a NestJS process over
Postgres (through Prisma), with Paystack moving the money and Twilio carrying
the WhatsApp conversation. Several instances may run at once. They share the
database and nothing else, and each runs the same message handlers, webhook
handlers and reconciler ticks.

This directory holds the TLA+ modules that model the core logic, the TLC
configurations that check them on small instances, and theorems about them that
TLAPS has checked for every instance. Paths below are relative to the
repository's `src/src/` unless they start at `src/`; `PROJECT.json` maps every
definition to the lines it stands for.

## 1. What the system consists of

| Component | State it keeps | Operations | Interacts with |
|---|---|---|---|
| Payment ledger (`payment/payment-ledger.service.ts`, the `payment_model` migration) | `Payment` rows: status, block reason, checkout link, `verifyAfter`, attempts | `create`, `claimForSubmission`, `recordRejection`, `recordBlocked`, `unblock`, `claimTerminal`, `recordDuplicateSuccess`, `backOff` | called by every payment path; two partial unique indexes arbitrate |
| Payouts (`payout/`) | the `PAYOUT` rows of a job | `createAndProcessPayout`, `retryPayout`, `notifyPayoutOutcome` | called by settlements and administrators; POSTs transfers to Paystack |
| Deposits and balances (`rescue-request/payment-events.service.ts`, `rescue-request-admin.service.ts`, `whatsapp-customer-flow.service.ts`) | `DEPOSIT`/`BALANCE` rows, the request's status and deposit window, the winning offer | open a collection, send its link, confirm, remind, expire, complete, bill the balance | webhooks, reconciler, payouts |
| Dispatch (`rescue-request/dispatch.service.ts`) | `DispatchOffer` rows; round, radius, deadlines and flags of a request | rounds of offers, quotes, declines, shortlist, choice, Expand, manual offer | operators' WhatsApp flow, reconciler, collections |
| Cancellation settlement, refunds (`rescue-request-admin.service.ts`) | `REFUND` rows, `cancellationSettledAt` | `refundDeposit`, `resolveCancellationSettlement`, `cancel` | ledger, payouts |
| Disputes (`rescue-request/dispute.service.ts`) | `disputed`, the settled amount | `raiseDispute`, `resolveDispute` | balance collection |
| Reconciler (`rescue-request/reconciler/`) | none; a `running` flag per instance | every 15 s, its checks one after the other | all of the above |
| Webhooks (`webhooks/`, `payment/payment.service.ts`) | none | settle a payment and run its side effects once | ledger, collections, payouts |
| WhatsApp conversation (`whatsapp-*-flow.service.ts`, `rescue-request/state/`) | `WhatsAppSession` rows, the relay between motorist and operator | inbound messages | dispatch, collections, disputes |
| One-time codes and sign-in (`otp/`, `auth/`) | `OtpVerification` rows and tokens | send, verify, redeem | account flows |
| Operators, memberships, account deletion (`operator/`, `account-deletion/`) | operators, members, the media outbox | membership changes, deletion under row locks | dispatch (who may be asked) |
| Amounts, platform configuration (`rescue-request/domain/`, `platform-config/`) | one configuration row | pure integer arithmetic | everything with a price |
| Ratings, customers, staff, audit log, messaging, media, geocoding | single rows, or none | plain reads and writes | -- |

What makes it hard, and what correctness means, component by component:

- **Ledger.** Any number of callers race on the same row and on the rows of one
  *slot* (a request and a payment type). At most one attempt of a slot may be in
  flight, at most one may win, a second success must be quarantined beside the
  first, and settled rows are history.
- **Payouts.** A transfer POST may be lost, may be late, or may move money while
  its caller dies. An operator must never be paid twice, and what the books say
  must be what Paystack did.
- **Deposits and balances.** A checkout link lives outside the database. Nobody
  may pay against a row that can no longer record it; nobody is sent out unpaid;
  side effects run once though webhooks repeat; what was paid is learnt even if
  every webhook is lost.
- **Dispatch.** A two-phase auction runs on deadlines in the database, with
  operators, the motorist, staff and four reconciler checks acting on the same
  rows. Bidding closes once, on time; one operator is booked; nothing waits for
  ever.
- **Settlement, refunds.** A claim is made before the money moves, so what
  happens after a crash or a rejected leg is what counts. A deposit's share to
  the customer and to the operator follow one decision, and one attempt to
  refund moves money once although a refund carries no reference of ours.
- **Completion and disputes.** CONFIRM, DISPUTE, a resolution, a staff override
  and a payment may meet; the operator's share must be covered by what the
  customer paid, and the customer must be asked for what is owed.
- **Conversation.** A session is read, awaited over and written back. Nobody may
  be asked out of turn, sent to a customer without a number, or forgotten when
  nobody answers.
- **Accounts.** Deletion must not take a party to live work, an unpaid operator
  or half a team, and must not leave erased media behind.
- **Codes.** Counters written from stale reads; section 7 says why these are
  left.

## 2. Modules

```
CanonicalPayment          what a slot promises
      ^ refined by
PaymentLedger             every statement on a Payment row      <- PaymentLedgerProofs
   ^ extended by
   Payout                 an operator's transfers               <- PayoutProofs
   Collection             deposits and balances                 <- CollectionProofs
   Settlement             what becomes of a cancelled deposit   <- SettlementProofs
   Completion             the end of a job, its disputes        <- CompletionProofs
Dispatch                  the auction that precedes a deposit   <- DispatchProofs
Conversation              the messages, from first to rating    <- ConversationProofs
Accounts                  teams, deletion, erased media         <- AccountsProofs
MC*                       instances for TLC
```

**`CanonicalPayment`** is the abstract specification: per slot, attempts are
opened one at a time and at most one ever wins.

**`PaymentLedger`** has one variable, the table. Each action is one conditional
`UPDATE`, its guard the `WHERE` clause, or one guarded `INSERT`. Taken alone it
lets anybody issue any statement in any order.
`InFlightIndexAllows` and `SucceededIndexAllows` are the two partial unique
indexes of the migration. Amounts, fees, failure texts and provider references
are left out; `verifyAfter` is the flag `verifyDue`; `verifyAttempts` is capped
by `VerifyAttemptCap`, which stands for `MAX_VERIFY_ATTEMPTS` = 8.
`recordDuplicateSuccess` is one action, at its `UPDATE`.

**`Payout`** adds the processes that touch a job's payouts: callers running
`attemptPayout` (the settlement's, or an administrator's Retry), reconciler
instances in the payout branch of `PaymentVerifyCheck`, and webhooks. A process
is a program counter and its locals (`proc[w]`); every database statement and
every HTTP call is a step. `transfer[p]` is the transfer Paystack holds under
row `p`'s reference, `inTransit` the POSTs that outlived their caller,
`events` the webhooks Paystack may deliver any number of times.

| Actions | Code |
|---|---|
| `SettleJob`, `RetryPayout`, `AttemptGuards`, `FindExisting`, `InsertPayment`, `ClaimPayout`, `BlockPayment`, `ApplyResponse` | `createAndProcessPayout`, `retryPayout`, `attemptPayout`, `claimPayoutPayment` |
| `PostTransfer`, `LateArrival`, `TransferProgresses` | `PaystackService.initiateTransfer` and Paystack itself |
| `PickDueRow`, `InitiatePayout`, `RereadRow`, `AskPaystack`, `AskInVain`, `ApplyVerification`, `BackOffRow` | `PaymentVerifyCheck` |
| `DeliverWebhook` | the `transfer.*` branch of `handlePaystackWebhook` |
| `SaveBankDetails`, `TimePasses`, `Crash` | an operator's details, the clock, a process that dies |

**`Collection`** is the same for deposits and balances of one request, with the
request's row (`request`), the winning offer, the links the customer holds and
the charges under our references.

| Actions | Code |
|---|---|
| `SelectQuote`, `AssignOperator` (both `OpenDeposit`), `Claim`, `PostInitialize`, `ApplyInitialize`, `KeepDepositUrl`, `SendLink` | `handleQuoteSelected`, `assignOperator`, the initialize call and what follows it |
| `LateArrival`, `CustomerPays`, `ChargeFails` | Paystack and the customer (external) |
| `DeliverCharge`, `ConfirmDeposit`, `MarkAssigned`, `ActivateAssignedJob`, `FinalizeJobSettlement`, `PayOperator` | `handlePaystackWebhook`, `confirmDeposit`, `confirmBalance`, `finalizeJobSettlement` |
| `PickDueRow` ... `BackOffRow`, `ResendBalanceLink` | the collection branch of `PaymentVerifyCheck` |
| `RemindDeposit`, `ExpireDeposit`, `DeadlinePasses` | `DepositReminderCheck`, `DepositExpiryCheck`, the clock |
| `AskToCancel`/`SelfCancel`, `AdminCancel`, `ConfirmCompletion`, `ReadForCompletion`, `MarkJobCompleted`, `BillBalance` | CANCEL, staff's cancel, CONFIRM and `sendBalancePaymentLink` |

**`Dispatch`** is the auction for one request. A deadline is the time left until
it; `Tick` counts all of them down. A transaction is a step; a method that
reads, awaits and writes is several (`StartRead`/`StartCheck`/`StartWrite`,
`ExpandRead`/`ExpandWrite`, `ManualRead`/`ManualCheck`/`ManualWrite`,
`BatchQuery`/`BatchResolve`, and an operator's answer: `Quote`, `ClaimQuote`,
`BeginCollection`, `EarlyRead`, `EarlyPull`). `Restart` loses everything that
is under way. `WAITING_FOR_DEPOSIT` stands for every status of a booked job:
`Collection` takes over there, and has its own view of the winning offer.

**`Settlement`** extends the ledger with what becomes of a cancelled request's
deposit. `refunds` are the refunds Paystack holds, each with only our note;
`settlement` is `cancellationSettlementPercent`, whose claim decides which of
two administrators settles; `legsRun` is a history of the legs got to. The
split is computed as the code computes it (`Rounded`, `FeeKeptOut`,
`RefundShare`, `PayoutShare`).

| Actions | Code |
|---|---|
| `RefundDeposit`, `ResolveSettlement`, `ClaimSettlement` | the reads and guards of `refundDeposit` and `resolveCancellationSettlement`, and its `claimOnce` |
| `InsertRefund`, `SubmitRefund`, `PostRefund`, `ApplyResponse`, `AfterRefund` | `submitDepositRefund` |
| `PayoutLeg`, `PayoutMoves`, `RetryPayout` | the payout leg, and of the payout what the refund's guards read |
| `PickDueRow`, `InitiateRefund`, `RereadRow`, `ListRefunds`, `ListInVain`, `ListAnyRefund`, `ApplyVerification`, `BackOffRow` | the REFUND branch of `PaymentVerifyCheck`, `verifyRefund` |
| `DeliverWebhook`, `SetStatus` | `refund.*` webhooks, staff's status overrides |
| `LateArrival`, `RefundProgresses`, `TimePasses`, `Crash` | Paystack, the clock, a process that dies |

**`Completion`** is the end of one job. `status`, `dispute`, `balance` and
`original` are columns of the request, `session` the customer's session as far
as this job goes, `payout` the amount `createAndProcessPayout` was asked for.

| Actions | Code |
|---|---|
| `Confirm`, `Dispute`, `GiveReason`, `ResetSession`, `OperatorDone` | the replies of `whatsapp-customer-flow.service.ts`; `handleOperatorJobDone` |
| `RaiseDispute`, `TellStaff`, `ResolveDispute`, `PaidCheck`, `SettleDispute` | `raiseDispute`, `resolveDispute` |
| `UpdateStatus`, `Cancel` | `updateStatus`, `cancel` |
| `MarkRead`, `MarkWrite`, `InsertBalance`, `SubmitBalance`, `PostBalance` | `markJobCompleted`, `sendBalancePaymentLink` |
| `RecoverLink`, `LinkGoesStale`, `CustomerPays`, `SettleBalance` | of the balance's own life, what a completion depends on (the steps are `Collection`'s) |
| `FinalizeRead`, `FinalizeWrite`, `Notify`, `AskPayout` | `finalizeJobSettlement` |

**`Conversation`** has one `WhatsAppSession` row per account and every request.
A message is `Receive`, which reads the session, and a handler, which runs on
what was read; everything else may happen in between. `Views` is `rowToSession`
with its ten-minute rating timeout, `Put` an `update` of a row that may be gone.

| Actions | Code |
|---|---|
| `Receive`, `Answer` | routing, the account created by its first message, the reminders |
| `Intake`, `CreateRequest`, `SendMedia`, `FinishMedia`, `ShareContact` (with `MergeAccount`) | the intake, up to dispatch |
| `SelectQuote`, `Confirm`, `Dispute`, `DisputeReason`, `Rate` | the customer's answers |
| `Sos`, `SelfCancel`, `ChatDriver`, `EndChat` | commands and the relay |
| `Arrived`, `Done`, `CompletionMedia`, `FinishJob`, `OperatorStatement` | `whatsapp-operator-flow.service.ts` |
| `Shortlist`, `AssignOperator`, `ConfirmDeposit`, `ExpireDeposit`, `GiveUp`, `AdminCancel`, `UpdateStatus`, `ManualArrived`, `ManualDone`, `ResolveDispute`, `Settle`, `AlertStaff` | where the other components and staff write a session |

**`Accounts`** has the `User` and `Operator` rows, the memberships, one request
with what deletion reads of it, the media and its outbox, and the row locks.
A transaction that locks several rows takes them one step at a time (`LockRow`)
and may find a row deleted (`FindRowDeleted`) or be ended by a crash or as the
victim of a circle of waits (`RollBack`).

| Actions | Code |
|---|---|
| `BeginTeamChange`, `AddMember`, `RemoveMember` | `OperatorService.addMember`, `removeMember`, `lockActiveMembership` |
| `BeginAssign`, `AssignOperator`, `BeginDispute`, `RaiseDispute`, `DisputeUnassigned`, `CreateRequest`, `CreateRefund` | the writers that lock the parties first |
| `DepositSettles` ... `PayoutSucceeds` | the writers of a request that lock nobody |
| `CheckUser`, `DeleteUser`, `BeginDeleteOperator`, `CheckOperator`, `DeleteOperator` | `deleteUser`, `deleteOperator` |
| `CaptureMedia`, `BeginRetry`, `EraseObject`, `ObjectStays`, `EraseRow` | `captureMediaAttachment`, `RetryMediaDeletionCheck`, `deleteQueuedMedia` |

Definitions marked `\* mutant` are variants of the definition that follows with
a plausible mistake in them. No specification uses them: they show that the
property listed beside them in `PROJECT.json` fails when the code is wrong.

### Choices a reader should know

*Payout.* The three courtesy reads of `retryPayout` are one guard, since what
they look for only ever grows. An `INSERT` may be refused for any reason.
`createAndProcessPayout` is called once per settlement, which `SettledOnce` of
`Collection` justifies where a balance is due. An answer below 500 that cannot
be parsed reads as a rejection, whatever Paystack did. Paystack is assumed to
refuse a reference it has seen, and to reverse only what is still pending.

*Collection.* `OPERATOR_ASSIGNED` stands for `OPERATOR_ASSIGNED`, `IN_PROGRESS`
and `ARRIVED`. `SlowPosts = FALSE` is an assumption about the world: a POST and
the storing of its link are over within `INITIAL_VERIFY_DELAY_MS` (60 s). The
code sets no timeout on the POST; section 6 says what happens without the
assumption. Paystack is assumed to know every reference it has accepted, and a
failed charge to stay failed. Reminder counters, message texts and phone or
e-mail lookups are left out; disputes and `updateStatus` are `Completion`'s.

*Dispatch.* Ranking and distance are abstracted: any best batch may be picked
among those in reach, and `Reach` says after how many expansions an operator is.
Running out of coverage is one case with running out of rounds. Queries
followed by a claim under the same predicate are one step
(`BiddingClose`, `QuoteSelectionTimeout`, `OfferSweep`). The reconciler is one
instance, whose checks do not overlap. A handler is under way across at most
one tick (`late`): it awaits the database and HTTP calls only, and a tick is
about five minutes. Delivery receipts of messages are left out.

*Settlement.* The deposit has succeeded before the module begins. A payout row
appears, is submitted and settles: how is `Payout`'s subject. `listRefunds` may
lag behind. `UnreadableAnswers = FALSE` leaves out that Paystack makes a refund
and answers it below 500 with a body nobody can parse. Messages are left out.

*Completion.* A payable link, its payment and its going stale are one step each.
One administrator works on a job at a time: with two, see section 6. The
percentage of an adjustment is 1 to 100, as its DTO demands, so a balance is
never raised.

*Conversation.* Replies are told apart by the handler they reach; wording,
parsing, geocoding and prices are left out. A handler's writes are one step:
what may come between its read and its writes is what the read would miss. One
operator's account answers for all; its quotes are `Dispatch`'s, and its list
commands change nothing. `MaxStaff` bounds how often administrators step in.
`Writers` are the customers who write; the others registered on the website.

*Accounts.* A transaction with a single lock and a single read is one step.
Postgres runs it READ COMMITTED: it sees what is committed when it looks. Only
an `OWNER` or staff change a team, and nothing removes an `OWNER`, so the second
membership check never refuses; it is in the model all the same. A media object
stands for all those uploaded by its role. Merging two customers, staff's status
overrides, profiles, bank details, availability, and the yearly purge are left
out.

## 3. What TLC checks

Bounds are constants of the `.cfg` files. Deadlock is not checked in runs where
the system may come to its end: a job that is paid out, settled or cancelled
has nothing left to do.

| Run | Instance | States | What it shows |
|---|---|---|---|
| `ledger` | 3 rows, 1 request, 2 types; rows are symmetric | 179,737 | `OneInFlight`, `HistoryIsFinal` for any callers, and that the ledger implements `CanonicalPayment` |
| `payout` | 2 rows, 1 caller, 1 reconciler, 1 crash | 145,183 | `OneLiveTransfer`: no two references that could both move money; `BooksMatchMoney`; `PendingNeverLeft`: a PENDING row has not been posted; `ToldOnce`; and `DecidedTransferIsLearnt` without a single webhook |
| `collection` | 2 rows, 1 handler, 1 delivery, 1 reconciler, 1 crash | 402,304 | `MoneyHasARow`, `SuccessIsPaid`, `OnTheJobIsPaid`, `SettledOnce` |
| `collection_live` | 1 row | 14,190 | `PaymentIsLearnt`, `LostLinkIsGivenUp`, `PaidDepositMovesOn` |
| `dispatch` | 3 operators, one out of reach at first; batches of 2, 3 rounds, 4 offers, 1 Expand | 2,719,915 | `OneOperatorIsBooked`, `OnlyDeclinesStrand`, `DeadlineNeverLater`, `BiddingClosesOnce` |
| `dispatch_live` | 2 operators, batches of 1, 2 rounds, 1 manual offer, 1 restart | 177,099 | `ClosedBiddingTakesNoQuote`, `CollectionEnds`, `ShortlistIsDecided`, `OffersEnd` |
| `settlement` | 2 administrators, 1 reconciler, 2 rows, 2 refunds at Paystack, 1 crash; 0, 50 and 100 % of 6 kobo, 1 of them the platform's | 1,828,922 | `OneRefundPerAttempt`, `RefundBooksMatch`, `SettlementConserves`, `LegsFollowDecision`, `BothLegsRun` |
| `completion` | 2 deliveries, 1 administrator, 1 webhook, 2 rows, 2 disputes; any of them may die | 2,729,346 | `PayoutIsCovered`, `LinksCoverTheBalance`, `DisputeRaisedOnce` |
| `conversation` | 2 accounts of one person, one of them without a number, 1 operator, 2 requests, 1 intervention of staff | 3,179,837 | `CustomerIsAskedInTurn`, `DispatchedIsReachable`, `MergedOwnsNothing`, `SilenceIsNoticed` |
| `accounts` | 2 users, one the owner; 1 operator, 2 handlers, the customer's media | 1,328,663 | `NewWorkGoesToTheLiving`, `NothingOwedIsDeleted`, `MembersAreAlive`, `ErasedMediaIsQueued`, `TeamGoesWithItsOperator` |

Each module also states its type invariant. Those, the ledger's
`DuplicateHasCanonical` and `ReasonMatchesStatus`, and `ClosedBiddingHasAWindow`
of `Dispatch` are proved (section 5) and not repeated in the runs.

Why these bounds are enough for the cases that matter:

- Two rows are the first attempt and its retry, or a deposit and its balance, or
  a deposit and the second one a reassignment opens; a third row in `ledger`
  lets a duplicate meet a winner while another attempt is in flight.
- One crash, anywhere, leaves every possible half-done state; the reconciler's
  recovery of it is then explored in full. The proofs of section 5 have no such
  bound.
- One caller of `Payout` is what the code's courtesy checks make the normal
  case; `payout_two_admins` has two callers and three rows.
- `VerifyAttemptCap` = 1 (0 in `Collection`) is enough because nothing but the
  delay depends on the count.
- Liveness is about one row or one request at a time, and other rows
  only take turns: one row, and two operators.
- A settlement has one refund row and one payout row, so two rows let two
  administrators meet on each; 0, 50 and 100 % are the splits with one leg, the
  other and both, and the kobo amounts make half a kobo to round.
- `completion` needs two deliveries for a repeated CONFIRM or DISPUTE, two rows
  for a balance billed twice, and two disputes for one reopened.
- In `conversation` the two requests are a job and the next one of the same
  person, the two accounts the masked one and the one it turns out to be. One
  message is handled at a time, which still lets any step of staff, payments,
  dispatch or the reconciler come between a session's read and its writes;
  two messages at once is past what TLC can enumerate here. The theorems have
  no such bound; one needs it in part (section 5).
- `accounts` has two handlers, so each transaction meets each other one at
  every lock; users who lock each other out need no third. The theorems of
  section 5 have no such bound.
- `OfferTime` = 2 against `CollectTime` = `SelectTime` = 1 lets a collection end
  before, with and after the offers of its batch, and clamp them.
- Three operators with one further away give a second batch in a wider radius
  and a fourth offer room for the Expand.

`RefundIsLearnt` of `Settlement`, under `LiveSettlementSpec`, is in no run
listed: with one administrator and one percentage TLC finds no error in 86,788
states.

`BiddingClosesOnce` is checked, and proved, without restarts: after one it
fails, see D11 below.

## 4. Fairness

Safety needs none. The liveness properties (`payout`, `collection_live`,
`dispatch_live`) assume only what keeps running as long as
the service does:

- **Reconciler.** Every 15 s a tick runs each check; one check's error does not
  stop the next. So each check's steps are weakly fair. The query for due rows
  takes 100 at a time in no stated order, hence strong fairness of picking a row
  that is due again and again, and of asking Paystack, whose verify endpoint may
  fail often but not every time.
- **Time** passes, and a deadline that is due passes.
- **A POST ends**, with an answer or an error, for whoever made it.
- **Dispatch:** a handler that has started goes on until it ends (it awaits only
  the database and HTTP), unless the process restarts.

Nothing is assumed of webhooks (they may all be lost), of customers (they may
never pay, choose or cancel), of operators (they may never answer) or of staff.

## 5. What is proved

`tlapm` checks eight modules of theorems, one per component, for every set of
rows, requests, callers, handlers, deliveries, reconciler instances, users and
operators, every amount and percentage, and any bound on crashes, rounds, offers
and time. Each type invariant and each safety property a passing run checks is a
theorem. They rest on the named assumptions of the modules they extend, which
say that the constants have the right kind: `NoReason` is not a reason,
`NoRequest` not a request, an administrator not a reconciler
(`ProcessAssumption`), caps are naturals, the handlers of one job and the
operators of one request are finitely many (`FiniteHandlers`,
`FiniteOperators`). Seven theorems have a hypothesis of their own; the code does
not guarantee it, and each time the run or the counterexample named here shows
what happens without it:

| Theorem | Hypothesis | Why |
|---|---|---|
| `OneTransferLives` | `OneCaller`: one caller works on a job's payout at a time | `payout_two_admins` pays twice |
| `PayoutAlwaysCovered`, `LinksAlwaysCover` | `OneAdministrator` at a time | two resolutions of one dispute (section 6) |
| `MoneyAlwaysHasARow` | `~SlowPosts` | a POST that outlasts the first verification delay (section 6) |
| `RefundBooksAreRight` | `~UnreadableAnswers` | a refund made and answered with what nobody can parse reads as refused |
| `CustomersAreAskedInTurn` | `NoOverlap`: one message at a time, or no masked identifier | a merge beside a dispute reason (section 6) |
| `BiddingIsClosedOnce` | `MaxCrashes = 0`, and `OfferTime > 1`: an offer outlives the tick a handler may be under way across | D11 (section 6) |

Most proofs first describe a step once, by what it may do to the rows, to a
process, to a count: an action formula that every action of `Next` is shown to
satisfy. The invariants are then proved of the description.

**`PaymentLedgerProofs`.** The ten statements are reduced to six shapes of a
step (`StepShape`). The inductive invariant is

```
IInv == TypeOK /\ SlotKnown /\ OneInFlight /\ DuplicateHasCanonical /\ ReasonMatchesStatus
```

where `SlotKnown` says that a row that exists has a request and a type. The
parts need each other: that `claimForSubmission`, which does not touch the
block reason, leaves none behind rests on `ReasonMatchesStatus`; the refinement
needs `OneInFlight` to know that the slot of a winning attempt has no other one
open. From it: `TypeCorrect`, `OneAttemptInFlight`, `DuplicateNeverAlone`,
`ReasonIsCurrent`, `HistoryNeverRewritten`, and
`LedgerImplementsCanonical` (initial states map to initial states, every step to
a step of `CanonicalPayment` or a stutter).

**`PayoutProofs`.** `Control` says that each process is where its program
counter says, and holds a row whenever it acts on one. With it every step of
callers, reconciler, webhooks and crashes is a `PaymentLedger` step or leaves
the table alone (`StepLedger`), which gives `PayoutFollowsLedger`; so the
ledger's theorems hold of payouts: `PayoutOneInFlight`, `PayoutTypeCorrect`.
`MoneyInv` then says what each party knows of the transfer: a row that has not
been claimed has none and nobody is sending it (`NeverUnclaimed`), a definitive
answer in a process's hands and a webhook on its way are what Paystack did
(`Answered`, `Announced`), and a transfer that is final stays as it is. Hence
`PendingWasNeverPosted`, `PayoutBooksAreRight`, `OperatorToldOnce`.
`AttemptInv` adds that a caller about to insert has only failed or reversed
attempts behind it: `OneTransferLives`, for the lookup and the insert are two
statements, and only the caller itself comes between them.

**`CollectionProofs`** does the same (`CollectionFollowsLedger`,
`CollectionTypeCorrect`), and proves the four properties that `collection`
checks:

- `SuccessIsAlwaysPaid`. The strengthening (`Witnessed`) is that a webhook, and
  a reconciler about to record a success, speak of a charge that is paid. The
  ledger alone cannot know it, and a paid charge stays paid.
- `OnTheJobIsAlwaysPaid`. `MarkAssigned`, `MarkJobCompleted` and
  `FinalizeJobSettlement` write the request's status without looking at
  anything, so the property is not inductive. `DepositFirst` strengthens it:
  every process past the deposit, and every balance row, exists only after the
  deposit's success. That a success is never lost (`SucceededStays`) comes from
  the ledger's step shapes.
- `SettledOnlyOnce`. `SettleInv`: whoever is about to settle a job with a
  balance got there by the one statement that made that balance SUCCEEDED, and
  is alone; the index on successes lets no second one.
- `MoneyAlwaysHasARow`. `LinkInv`: as long as a row has a charge that may be
  paid, no process is about to fail it: who opened it is past that, and who
  verifies it was told that it exists, or asked before it could.

**`SettlementProofs`.** Paystack cannot recognise a refund it has made, so
everything hangs on the row. `OnePost`: a claimed row has one POST, ever, about
to be sent, on its way or made a refund of. What a process was told of its row's
refund stays true of it (`Told`), and so does what a settled row says (`Book`).
`Carried` and `Share` tie every process and row of a settlement to the one
decision on record, `LegsUnderWay` says who is still to get to each leg.
Together they are inductive: `RefundAskedOnce`, `RefundBooksAreRight`,
`LegsAlwaysFollow`, `NoLegIsDropped`, `SettlementFollowsLedger`.

`SettlementAlwaysConserves` needs one more invariant, `ConsInv`: a decision has
one refund row, which one process inserts (`OneShare`), a payout's attempts
come one after the other (`OnePayout`), and what Paystack is asked to refund is
a refund row (`OnRefunds`). So both sums are over one row at most, and the two
shares, rounded as the code rounds them, add up to what is split
(`SharesAddUp`).

**`CompletionProofs`.** `DisputeIsRaisedOnce` counts: raises, against the
closings and the open dispute, and alerts given or about to be
(`DisputeInv`). `CoverInv` is about what a process read and holds on to:
whatever it read on its way to a link covers the balance, and whatever it read
on its way to a payout is covered by a balance that was paid (`Grounded`),
since one administrator's resolutions only lower it.

**`ConversationProofs`.** A handler runs on a session it read earlier. `View`
says what a session in a state tells of its request, and is stated of the row
and of what was read of it (`ReaderInv`); `Outside` says what anybody may do
meanwhile, and keeps it. With what a request's status tells of its customer and
of the job (`RowInv`) and the ownership of merged accounts it is inductive
(`SessionsAreSound`), for any number of messages at once. From it:
`MergedIsEmpty`, `DispatchedCanBeCalled`, `SilenceIsAlwaysNoticed`, and with
`TInv`, which says the same of the customer's turn, `CustomersAreAskedInTurn`.

**`DispatchProofs`.** Each theorem has a small invariant beside the type
invariant, because the shapes of a step (`RequestMove`, `RowsGrow`, `TurnStep`,
`BookMove`, `ReplyMove`, ...) carry the work:

- `DeadlineIsNeverLater` and `OnlyOneIsBooked`: nobody is booked while the
  request is dispatched, and only then can somebody be (`BookInv`).
- `ClosedBiddingTakesNone`: closing ends every pending offer, so an answer that
  looked before the close finds its offer gone, and a manual offer written after
  it was looked at by nobody before (`OpenInv`).
- `DeclinesAloneStrand`: a request being dispatched is carried by somebody
  (`Carried`): a process under way, a quote on its way to the deadline
  (`QuoteInv`: until the first quote has set the deadline, its handler is still
  to), a pending offer of the current round, or else its batch has only
  declines.
- `BiddingIsClosedOnce`: what BatchResolveCheck finds expired belongs to a
  request that was not closed. `CloseFresh` strengthens it: if a close left no
  deadline, the handler that is to set it is under way, hence across one tick
  at most, and no offer written since can have expired.
- `ClosedAlwaysHasAWindow`, at every restart, as both are one transaction.

**`AccountsProofs`** is an argument of locks. `Holds(p)` says what a handler
knows of the rows it has locked: `deleteUser` that its user has no live team and
nothing that blocks; `deleteOperator`, once it has looked, that the operator has
no work and nothing owed (`Clear`); an assignment, that it holds the request's
customer; and that the last row a transaction still has to lock is the one it is
about. The inductive invariant is

```
IInv == Tables /\ Handlers /\ HeldIsAlive /\ RequestBegins
        /\ NewWorkGoesToTheLiving /\ NothingOwedIsDeleted /\ MembersAreAlive
        /\ \A p \in Procs : Holds(p)
```

`StillHolds` is the step everything rests on: what one handler knows survives
another's step if that step gives no new business to rows it does not hold. The
writers that lock nobody are shown, one by one, never to do so. From it:
`NewWorkAlwaysGoesToTheLiving`, `NothingOwedIsEverDeleted`, `MembersStayAlive`.

Two more invariants rest on it. `MediaInv`: what a handler is still to erase was
taken on, and an object it has erased stays erased, as no key is used twice;
hence `ErasedMediaIsAlwaysQueued`. `TeamInv`: each member a deletion read is
still to be locked, held, or deleted; the rows in id order are the whole team
(`WholeTeamInOrder`, by counting), so when nothing is left to lock every living
member is held; hence `TeamAlwaysGoes`.

Only model-checked: liveness (`DecidedTransferIsLearnt`, `PaymentIsLearnt`,
`LostLinkIsGivenUp`, `PaidDepositMovesOn`, `CollectionEnds`,
`ShortlistIsDecided`, `OffersEnd`), whose fairness and ENABLED are out of the
prover's reach; and the violations. That `Collection`, `Settlement` and
`Dispatch` implement abstract specifications of their own is neither stated nor
proved yet.

## 6. Where the repository says one thing and the code does another

Two runs are expected to find a violation. Each checks a sentence of the docs
or of a comment, quoted under `findings` in `PROJECT.json`.

| Run | What happens |
|---|---|
| `payout_two_admins` | The lookup and the insert of a payout are two statements. A first retry that is created, submitted and settled in between is seen by neither the lookup nor the index: the operator is paid twice. |
| `dispatch_declined` | When a whole batch declines, the early expiry matches no row any check looks for: the request waits for nobody. `OnlyDeclinesStrand` shows that this is the only way without a restart. |

Others were met while modelling. Where a module states the claim, its name is in
brackets: TLC refutes it when it is made a property of the module's run.

*Payouts.*

- `payout/payout.service.ts:43-44` says every failure is reflected in a Payment
  row. `checkBalance` (`:317`) throws before any row exists.
- A row BLOCKED on `AWAITING_OTP` is polled by nothing and refused by Retry, so
  a transfer abandoned at Paystack is never recorded
  (`payment-verify.check.ts:66`).

*Collections and completion.*

- A POST slower than the first verification delay is failed under its caller,
  which then sends the link; the customer pays against a FAILED row
  [`NothingPaidIsWrittenOff`, with `SlowPosts = TRUE`].
- `confirmDeposit` writes `OPERATOR_ASSIGNED` over a cancellation or an expiry
  that came after its read [`CancelledForGood`].
- CANCEL does not turn away completed requests, and tells their customer "You
  were not charged" (`whatsapp-customer-flow.service.ts:409`).
- A message that throws in `finalizeJobSettlement` before
  `createAndProcessPayout`, or a session update whose row is gone, ends the
  settlement with the operator unpaid (`payment-events.service.ts:409`, `:438`).
- A second resolution overwrites the quoted balance kept "so quoted vs. actually
  charged is never lost" (`dispute.service.ts:242-244`) [`QuoteIsNeverLost`].
- A request that was disputed can be COMPLETED without its balance being paid,
  against `dispute.service.ts:239-241` [`DisputedIsCompletedByPayment`].
- Two administrators who resolve one dispute at once may bill one balance and
  pay out on another: `PayoutIsCovered` holds of one administrator only.
- The reply to the customer in `raiseDispute` is awaited unguarded: if it
  throws, staff are never alerted (`dispute.service.ts:137-150`).

*Settlement.*

- A refund that succeeds between the eligibility read and the insert of another
  lets the deposit be refunded twice (`rescue-request-admin.service.ts:392`,
  `:432`) [`RefundedOnce`].
- The claim of a settlement is said to close "the cross-endpoint race with
  refundDeposit" (`:604`). A refund that was found eligible before the claim and
  inserts its row after it goes out whole beside the settlement's payout
  [`OnlyTheDepositMoves`].

*Dispatch.*

- An Expand in phase 2 sends a shortlist while bidding is open. A later quote
  changes the order and the motorist's number books another operator
  [`BooksTheChosenQuote`].
- D9: an Expand that finds nobody further out cancels a request whose earlier
  offers are still live, against the comment at `dispatch.service.ts:1450-1451`.
- D11: a manual offer that passed its re-check before a phase-1 close is
  written after it (`dispatch.service.ts:1519`). Should a restart have lost the
  deadline, that offer's expiry closes bidding again, sends a second shortlist
  and renews the window for choosing: the claim in `batch-resolve.check.ts:91`
  does not ask for `biddingClosedAt` to be null, although the comment at
  `:133-136` gives a second shortlist as the reason for stamping it
  [`BiddingClosesOnce`, with `MaxManual = MaxCrashes = 1`].

*Conversation.*

- Two messages of one person may be handled at once, one under a masked
  identifier. A contact card merges the masked account
  (`whatsapp-customer-flow.service.ts:1015`), deletes the session of the other
  and hands it the masked one's, while that other's dispute reason is being
  handled: the handler then asks (`:200`), in the session that came with the
  merge, whether a job still being dispatched is done. `CustomerIsAskedInTurn`
  holds of one message at a time, or with no masked identifier.
- CHAT DRIVER makes its request the operator's session's own, whatever job that
  session was about (`whatsapp-customer-flow.service.ts:161-194`), and opens a
  relay on a finished job as well.
- A balance paid for one job overwrites the session of the next.
- A dispute's reason handled after the session was freed leaves a session that
  waits for a confirmation of no request, or of one that ended.
- A redelivered answer to the issue question creates a second request; a late
  "2" or contact card sets `DISPATCHING` whatever the status is by then.

*Accounts.*

- `addMember` locks a user after an operator (`operator.service.ts:1239`), where
  `account-deletion.service.ts:203` says "Lock order is fixed platform-wide":
  Postgres ends the circle with one transaction aborted, which `RollBack` is.
- `registerCustomer`, `operator.create`, `updateProfile` and `changePassword`
  write by id to an account that may have been deleted meanwhile, and a sender
  is looked up without asking whether the account found is deleted.
- `updateOperatorStatus` may make a deleted operator ACTIVE again.
- Media captured after a deletion is nobody's to erase, and what
  `captureMediaAttachment` stores before it dies has no row.
- A settlement that is claimed and not paid out, or a deposit still under way,
  does not block `deleteOperator` (`account-deletion.service.ts:281-287`).

## 7. Not modelled, and what is left

- **One-time codes and sign-in** (`otp/`, `auth/`). One row of one customer: the
  sending limits are read before the code is sent (`otp.service.ts:98`), wrong
  guesses are written as the count read plus one (`:178`), and several flows
  claim one token (`auth.service.ts:400`). Passwords and JWTs are computation.
- **The stuck-job alert**, which reads inactivity off `updatedAt`, which any
  write renews, and tells staff only.
- **The purge of financial data**, once a year, and its ticker.
- **Profiles, bank details, availability, lists**: single-row writes or reads.
- **Deposit and quote prices** (`rescue-request/domain/`): integer arithmetic
  with nothing concurrent about it; the deposit's floor may exceed the total of
  a tiny job (`whatsapp-customer-flow.service.ts:1382`).
- **Offline payment marking** by staff.
- **Ratings beyond the reply, customers, staff, audit log**, messaging, media
  and geocoding clients (I/O), webhook signatures.

Hazards known beyond the ones `PROJECT.json` lists: `initiateCollection` does
not look at the request, so a row recovered after a cancellation still sends its
link (`payment-verify.check.ts:203`); two rounds written at once read the same
`offeredOperatorIds` (`dispatch.service.ts:649`); a relay left behind swallows
every command (`rescue-request-shared.service.ts:224`); the media outbox's first
hundred rows may never change (`retry-media-deletion.check.ts:28`).

Theorems next: an abstract settlement and an abstract auction, and that
`Settlement` and `Dispatch` implement them; under which of the code's own guards
`OneTransferLives` and `PayoutAlwaysCovered` hold of several administrators;
the deposits of one request against its booking.
Models next: two messages at once in `Conversation` over a smaller
request, codes and tokens, the prices against a reference definition.

## 8. Running

In this directory, with TLC and the community modules on the path:

```
tlc -workers 2 -config MCCollection.cfg MCCollection
tlapm CollectionProofs.tla
```

`PROJECT.json` lists every run with its module, its configuration and its
properties. `collection_live` takes seconds, the others from half a minute to
about three minutes; a proof module takes from half a minute to several.
