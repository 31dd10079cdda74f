# AlpineClubBookingsNZ: beds, offers, card charges, refunds and Xero, in TLA+

The program is the booking system of an alpine club: a Next.js server over one
PostgreSQL database, with Stripe, Xero, e-mail and a set of cron runners. This
directory models its core: who gets a bed and how a bed that comes free is
passed on, how the saved card of a pending booking is charged, how the card
refund of a cancelled one is paid, how the single-use Xero token is renewed, and
how the invoice of a booking reaches Xero. It keeps the inventory and the plan for
the rest.

1. [Inventory](#1-inventory) 2. [Modules](#2-modules)
3. [How the model reads the code](#3-how-the-model-reads-the-code)
4. [Runs, bounds and fairness](#4-runs-bounds-and-fairness)
5. [Findings](#5-findings) 6. [Proofs](#6-proofs)
7. [Not modelled](#7-not-modelled) 8. [Plan](#8-plan)

Run a model with `tlc -config Own.cfg MCOwn.tla`, a proof with
`tlapm SavedCardProofs.tla`.

## 1. Inventory

All state that matters is in the database. Several server processes run the
same code; each HTTP handler, webhook and cron run is a chain of transactions
with provider calls between them. Writers of booking rows take
`pg_advisory_xact_lock(1)` and then one lodge lock
(`acquireLodgeCapacityLock`) per lodge, sorted, before they read what they
decide on (`docs/CONCURRENCY_AND_LOCKING.md`), so the hard part is never inside
a transaction but between two of them.

| Component | State it keeps | Operations | What is hard | What makes it correct |
|---|---|---|---|---|
| Booking statuses (`booking-status.ts`) | the status sets | membership tests | a set that drifts from its users | holding, active and payable statuses agree |
| Lodge capacity (`capacity.ts`) | nothing of its own; reads bookings, holds, reservations | count a party per night | counts used after the lock is gone | no night above the ceiling without an override |
| Waitlist queue (`waitlist.ts`, `cron-waitlist.ts`) | status and five `waitlist*` columns of a booking | offer freed nights, expire, cancel past entries | lost wakes, order, lapsed offers | one offer per wake, taken back when it lapses, clean when waiting |
| Confirm at the own lodge (`waitlist-confirm/route.ts`) | the request in flight | judge, claim, settle, compensate, report | two transactions, lost replies, crashes | a consumed offer ends paid, back, or reported |
| Confirm at another lodge (`waitlist-cross-lodge.ts`) | the request and the row it captured | judge, validate, create, unwind, clean up | stale captured rows, double confirm | one replacement, repairs only the accepted offer |
| Admin doors (`force-confirm`, `return-to-waitlist`) | override columns, audit rows | force, overbook, repair | the repair of what is not broken | overrides are recorded, a report is spent once |
| Booking creation (`booking-create.ts`) | bookings, guests, promo, credit | create, draft, split, join waitlist | refusal and join are two transactions | beds taken only if they fit |
| Cancellation (`booking-cancel.ts`) | statuses, refunds, credit | four branches by status | refund against late capture; who wakes the queue | beds are given back whole |
| Modification (`booking-modify*.ts`, `booking-date-modification-service.ts`) | dates, guests, price, settlement rows | reprice, charge, refund | capacity without itself, partial settlement | no unpaid increase, no double refund |
| Payment settlement (`payment-reconciliation.ts`) | payments, transactions | capture settles or voids, manual settlement | capture long after the check | capacity re-checked at capture |
| Saved cards, pending holds (`saved-card-charge-*.ts`, `cron-confirm-pending.ts`) | attempt rows, keys | claim, charge, replay, supersede, settle, release | answers lost beyond the key's window, late webhooks of superseded attempts | one charge per key; every capture pays, goes back or is reported |
| Payment recovery (`payment-recovery.ts`, `refused-card-refund-retry.ts`, `card-refund-*.ts`) | operation rows with a plan, refund rows | claim, check, ask, re-plan, complete, reset stale, raise again | no locks between readers and writers of a row; a refund that fails days later | paid once, owed by one row, never resting unpaid |
| Stripe webhooks (`stripe-webhook-*.ts`) | event rows with a lease | claim, process, release | redelivery during processing | effects once |
| Group bookings and reaper (`group-*.ts`, `cron-group-settlement-reaper.ts`) | settlements, children | join, settle, reap | reaper against capture | children follow the settlement |
| Member credit (`member-credit.ts`) | signed ledger rows | apply, restore | two restores | balance never negative, restored once |
| Xero token lease (`xero-token-store.ts`, `xero-api-client.ts`) | two rows with a lease each, the stored tokens, a promise per process | load, claim, spend, save, release, connect, disconnect | single-use refresh token spent between two transactions, leases against the clock | one spender per token within its lease, no token lost to concurrency |
| Xero outbox (`xero-operation-*.ts`, `xero-booking-invoices.ts`) | operation rows, the invoice a payment carries | enqueue, claim, send, link, complete, cool down, retry, repair, reset, resolve | a claim taken away while its run is at work, lost answers, retries beside resolves | one document per record, a success is final, nothing sent is lost sight of |
| Xero inbound (`xero-inbound*`) | links, payments | reconcile invoices and notes | events out of order | idempotent effects |
| E-mail retry (`cron-email-retry.ts`) | e-mail log rows | claim, send, record | crash between claim and send | at most once, none stuck |
| Bed allocation (`bed-allocation*.ts`) | a bed per guest and night | allocate, move, prune | pruning on every booking write | never two guests in one bed |
| Internet banking holds (`internet-banking-payment-cron.ts`) | hold deadlines | release, keep, credit | evidence read before the release | a paid hold is not released |
| Exceptions, requests and quotes, guest consent | request rows and reserved beds | ask, decide, execute | expiry against approval | reserved beds counted |
| Hosting coverage, nomination, membership, merge | records, queues | review, drain, merge | long chains of writes | references follow a merge |
| Cron runners and claims (`cron-run-claim.ts`) | advisory lock, run rows | claim, run, record | lock lost with its connection | one run at a time |
| Tokens, rate limits, config transfer, backup, display, diagnostics, AI, pages | rows of their own, or none | compare-and-set, I/O, rendering | little | local |

How they interact: creation, cancellation, modification, settlement and the
admin doors all write booking rows under the same locks and call
`processWaitlistForDates` after their commit, without waiting for it and
without a retry; the cron calls `expireStaleOffers`; a confirm calls the
creation path for a replacement; a capture enters through webhook, recovery
worker or saved card and meets capacity again in the settlement. A cancellation
writes the recovery row of its card refund in its own transaction and asks
Stripe after it; the recovery cron, the refund webhooks and the read-back cron
work on the same row. A placed booking leaves a row in the Xero outbox; the outbox
and the queued retries process it, and officers reset, retry or resolve it or record
the money as cash. The pending-hold cron, the administrators' confirm doors
and the Stripe webhooks share the attempt rows of a saved card.

`PROJECT.json` lists every component with its sources, and under `hazards` the
places where this code is hard to test, each at its line.

## 2. Modules

```
BookingStatus            status sets
   |
WaitlistState            rows, requests, beds, helper writes       BedLedger
   |          \                                                       |     \
WaitlistQueue  WaitlistConfirm                                        |   BedLedgerProofs
   \          /                                                       |       |
    Waitlist  --------------- INSTANCE (claims <- ...) ---------------+       |
     |     \                                                                  |
     |    WaitlistProofs --- WaitlistRefinement --- INSTANCE -----------------+
     |            \-------- WaitlistSafety
  MCOwn MCLive MCCrossRace

RefundBooks  <-- EXTENDS --  CardRefund  <-- EXTENDS --  CardRefundInvariant
                             CardRefundInvariant <-- EXTENDS --  MCRefund, CardRefundProofs
                             SavedCardCharge <-- EXTENDS --  MCSavedCard, SavedCardProofs
                             XeroTokenLease  <-- EXTENDS --  MCTokenLease, XeroTokenProofs
                             XeroInvoiceOps  <-- EXTENDS --  MCInvoiceOps, XeroInvoiceProofs

CardRefundInvariant --- INSTANCE ---> RefundDebt
SavedCardCharge     --- INSTANCE ---> CaptureBooks
XeroInvoiceOps      --- INSTANCE ---> InvoiceLife
```

| Module | Models |
|---|---|
| `BookingStatus` | the status sets of `booking-status.ts`, `payment-reconciliation.ts`, `booking-cancel.ts` |
| `BedLedger` | the abstract promise of every writer of booking rows: all the beds of a party in one step when they fit or under an override, and back in one step |
| `WaitlistState` | constants, variables, `Init`, `TypeOK`, counting of beds (`Sleepers`, `Fits`), duplicate stays, and the writes the handlers share (`Requeue`, `SetStatus`, `Touch`) |
| `WaitlistQueue` | handlers that are one transaction: create, join, pay, cancel, offer, expire, past-date cancel, force-confirm, return to waitlist |
| `WaitlistConfirm` | the confirm request, one action per transaction and outcome, both paths |
| `Waitlist` | `Next`, `Spec`, `LiveSpec`, the properties, and the refinement mapping to `BedLedger` |
| `RefundBooks` | the database side of one card refund owed: the recovery rows and the fences of their writes, which recorded refund fills which row, and the one transaction that records refunds and decides which row owes a failed one |
| `CardRefund` | the steps on these books: the cancellation request, the recovery runner, Stripe and its memory of keys, the webhooks, the read-back cron |
| `RefundDebt` | the abstract promise behind them: one debt, sent again only when the books know of the failure, let go only while they count a refund |
| `CardRefundInvariant` | the refinement mapping to `RefundDebt`, and the inductive invariant of `CardRefund`: definitions that the run `Refund` checks and `CardRefundProofs` proves |
| `SavedCardCharge` | the charge of a saved card for a pending booking: claim and attempt rows, supersession, the call to Stripe, settling and releasing, retiring a card, webhooks, a new card, a cancel |
| `CaptureBooks` | the abstract promise of the charge: of all captures one is kept, for good, and every other goes back or is reported |
| `XeroTokenLease` | the refresh of the Xero tokens: the claim over two rows, the exchange, the fenced save, the release, waiting callers, connect and disconnect |
| `XeroInvoiceOps` | the CREATE rows of one booking's invoice: enqueue, outbox run, queued retry, repair, stale reset, resolve by hand, cash recorded |
| `InvoiceLife` | the abstract promise of the outbox: when an invoice may be made, linked, replaced by cash, and the operation let go |
| `BedLedgerProofs`, `WaitlistProofs`, `WaitlistRefinement`, `WaitlistSafety`, `SavedCardProofs`, `CardRefundProofs`, `XeroTokenProofs`, `XeroInvoiceProofs` | theorems |
| `MCOwn`, `MCLive`, `MCCrossRace`, `MCRefund`, `MCSavedCard`, `MCTokenLease`, `MCInvoiceOps` | values for the constants, symmetry |

Definitions introduced by the comment "Deviation:" are plausible mistakes in
the definition that follows them. Nothing uses them; they serve to test that the
properties notice: replacing the definition by its deviation must violate the
property `PROJECT.json` names beside it.

## 3. How the model reads the code

### Beds and offers

**State.** `status`, `lodge`, `overridden` are columns of a booking row
(`capacityOverriddenAt` for the last). The offer columns become `offer` ("none",
"live", "lapsed": `waitlistOfferedAt` and `waitlistOfferExpiresAt` against the
clock) and `offerLodge` (`waitlistOfferedLodgeId`). `wakes` is the set of
`processWaitlistForDates` calls that were started and have not run; it is a set
because a second identical call finds the same rows. `stranded` is the set of
entries whose newest strand or repair audit row is the strand
(`findUnresolvedWaitlistStrandReport`), `flagged` the entries a cross-lodge
audit row says need review, `drifted` the replacements created at another price
than the one accepted, `dropped` the rows a confirm committed and then left with an
error, because the reply of the commit was lost or the next read threw (both history
variables: the code keeps no trace of either). `req` is the local state of the
confirm requests. A cross-lodge request compares the whole row it captured,
`updatedAt` included, before it writes; `stale` says of which requests that
comparison would now fail: every transaction that writes a row puts the requests
that captured it there (`Touch`).

**Actions.** One action is one transaction, with everything the handler does in
it. In a request `pc` names the transaction that comes next; between two of its
steps anything else may run, it may crash (`Crash`), and with `"tx"` in `Faults`
the transaction may roll back. `"ack"` is a commit whose reply is lost, `"read"` a
read outside every transaction that throws, and `"audit"` an audit row that cannot be
written. What the request does about a lost reply is what the code does: it compensates
a flip, reports a compensation, flags a cleanup, and answers an error, with nothing
more, for a claim (`waitlist.ts:1230-1263`) and for the creation of a replacement
(`waitlist-cross-lodge.ts:809-813`).

| Code | Actions |
|---|---|
| `createConfirmedBooking`, `POST /api/bookings` | `CreateBooking`, `CreateOverCeiling`, `RefuseForCapacity`, `JoinWaitlist` |
| `settleBookingPaymentInTransaction` | `SettlePayment` |
| `performBookingCancellation` | `CancelUnpaid`, `CancelPlaced` |
| `processWaitlistForDates` | `ProcessWaitlist`, and `LoseWake` when it never runs |
| `expireStaleOffers`, `processWaitlistCronOnce` | `ExpireStaleOffers`, `CancelPast` |
| force-confirm, return-to-waitlist | `ForceConfirm`, `ReturnToWaitlist` |
| `confirmWaitlistOffer` | `StartConfirm`, `RevertOwn`, `Claim...` |
| waitlist-confirm route, second phase | `ReadThrew`, `Flip...`, `Release`, `ReleaseThrew`, `Report` |
| `confirmCrossLodgeWaitlistOffer` | `XPolicy`, `XRevert`, `XRefused`, `XReturned`, `XRepriced`, `XValidated`, `XCreate...`, `XFull`, `XUnwind`, `XCleanup` |

**Data.** A price is free or not, and drifted or not. A stay is a set of nights,
and `Party[e][n]` says who sleeps when, so stays with different nights per guest
are covered. Policies (minimum stay, paid-up adult, hosting, eligibility, price
at a lodge) are choices: they may refuse whenever the code asks them. Two
requests reading the clock differ only by `Lapse`, which may happen at any time.

**Abstract specification.** `BedLedger` knows bookings only by the beds they
occupy. `Waitlist` maps `claims[x]` to the beds of `x` if its status holds
capacity, and to nothing otherwise, and must then be a behaviour of the ledger
(`LedgerSpec`): an offer, an expiry, a compensation or a repair may not move a
bed at all, and a claim, a capture, a creation or an override may move the beds
of one row, whole, with the check in the same step.

### Card refunds (`RefundBooks`, `CardRefund`)

One cancelled booking owes one refund on one charge: a plan of one slice. Row 0 is
the row the cancellation wrote, row *f* the row `card_refund_failed_later_<f>` a
failure of refund *f* raised. A row keeps its status, attempts, claim
(`started`), whether its `nextRetryAt` is past (`due`), and its slice: the number
of times its key moved on (`suffix`, `stripeKeySuffix`), the refund it is marked
with (`made`, `madeRefundId`) and those it owes again (`failed`,
`failedRefundIds`). `ledger` and `recorded` are the `PaymentRefund` rows: the
status of a refund's row, and its place in the order of `createdAt`, 0 for none. At
Stripe a refund is "live" (pending or succeeded, which every reader counts alike)
or "failed", under the key it was asked for with.

| Code | Actions |
|---|---|
| `cancelBooking`, card branch | `DoorAsks`, `DoorRecords`, `DoorKeepsOwed`, `DoorCloses`, `DoorEnds` |
| `claimPaymentRecoveryOperation` | `Claim`, `ReadClaim` (two statements) |
| `checkCardRefundResend` | `ListRefunds`, `RecordListing`, `MarkListed` |
| `refundPlanOrRetryRefusals`, `refundPaymentTransactions` | `Ask`, `RecordAnswer`, `MoveRefused`, `MarkResent` |
| `completePaymentRecoveryOperation`, `failPaymentRecoveryOperation` | `Complete`, `FailAttempt` |
| `resetStaleProcessingOperations`, `nextRetryDate` | `ResetStale`, `ComeDue` |
| `recordRefusedCardRefund`, `reconcilePendingCardRefunds`, `handleChargeRefunded` | `RecordFailure`, `ListCharge`, `RecordCharge` |

`recordStripeRefundsAgainstTransaction` runs under the Payment row lock and is one
step, `Recording`: the refund rows first, then one decision
(`keepFailedLaterCardRefundOwed`) for each refund seen to fail after it counted.
"Refunds owed" (`attributeRecordedRefunds`) is `Fills`: marked slices first
(`Marked`), then the other refunds one by one, in the order of their rows, each to the newest row
whose window takes it (`Take`). Both loops are recursive functions over the refunds. A
decision that meets a row somebody holds throws, and the transaction is rolled
back. The other writes of a row are updates fenced in their own WHERE clause, one
step each.

*Abstract specification.* `RefundDebt` knows no rows, keys, attempts or webhooks: only how
the last refund stands at Stripe (`stands`), how it stands on the books (`counted`) and whether
a row owes the debt (`open`). `CardRefundInvariant` maps them to the last refund made, its
status in `ledger`, and the rows that are not closed. A step of the ledger, the rows or Stripe
must then be one of five: send, fail, count, uncount, close (`DebtSpec`). A refund that is sent
before the books know of the last failure, a row closed while nothing is counted, a failure
recorded without a row that owes it, or two of these at once, are no steps of it.

*Time.* The delays of the code are far longer than its requests, and the model
uses that in one place, `Quiet`: no request and no attempt is in flight.
It holds at some moment before a retry delay of five minutes and more has passed
(`ComeDue`), before a claim is half an hour old (`ResetStale`), and within the day
for which Stripe remembers a key (`Age`, then `Forget`). So an attempt that
outlives the reaper's half hour is outside the model. A refund accepted by
Stripe fails days later and not while a webhook is recording the list it
was on, but for the choice "sync" in `Delays`.

### Saved-card charges (`SavedCardCharge`)

One pending booking, one amount. `rows` are the `PaymentTransaction` rows, with
status, card and intent; `key[i]` is the row under whose key intent `i` was asked
for, `settler` is `Payment.settledByTransactionId`, `returned` the intents a
durable refund row hands back, `reported` those the officers are told of.
`call[c]` is the local state of a caller; `pc` names its next transaction or
call to Stripe. A caller forgets what it no longer reads, and an answer that
needs the cardholder is told as one in processing, which the code takes it for (`Told`).

| Code | Actions |
|---|---|
| claim transactions of the cron and the two doors, `beginSavedCardChargeAttempt` | `Claim` |
| `cancelSupersededAttemptIntents`, `reviveSupersededAttemptRow` | `CancelSuperseded`, `Revive` |
| `chargeSavedCardAttempt`, `failSavedCardChargeAttempt` | `Retrieve`, `Charge`, `ChargeAgain`, `ChargeRefused`, `FailAttempt` |
| `settleSavedCardChargeAttempt`, `markBookingPaymentSucceeded` | `Settle`, `Mark` |
| release transactions, `releaseChargeClaim`, `retireUnusableSavedCard` | `RecordAndRelease`, `ReleaseClaim`, `Retire` |
| Stripe webhooks | `Adopt`, `Unmatched`, `SucceededEvent`, `FailedEvent` |
| SetupIntent webhook, `cancelBooking`, create-payment-intent | `SaveCard`, `CancelBooking`, `Capture` |

*Choices.* Stripe remembers a key for 24 hours and the code sends it for 23; a
caller takes less than the hour between from its claim to its charge, so the two
limits are one moment, `Expire`, in which no caller is about to send the key. A
key's age matters only while its row waits for an answer and the booking is
pending; `Expire` happens only then. An event stays in `news` until it is handled,
and may be handled again. `payment_intent.canceled` and `payment_failed` write
the same here. An event
that came of no call of ours (a charge in processing that is captured or fails) carries no
idempotency key, and its intent names its attempt only if the row's key is of the later
shape (`saved-card-charge-settle.ts:407-411`): `Keyless` lets such an event pass without an
adoption, and its capture is then only reported. The two writes of `Retire` are one step of which the second may be
missing. When `settleSavedCardChargeAttempt` fails, charge-saved-method goes on to
`Mark`, while the cron stops (`Stop`). `Mark` on a cancelled booking throws:
it is disabled and the caller stops. When the reply of `RecordAndRelease` is lost the
plain release follows and may release somebody else's claim, which is why two
callers are needed.

*Abstract specification.* `CaptureBooks` is the same charge seen by a bookkeeper: a booking that
is open, paid or void, what Stripe captured, which captures have an event to come
(`awaited`), which one is kept, goes back, or was reported. Attempts, keys,
cards and callers are gone. Its steps take one capture at a time: it is made, pays the open booking, is
returned by one that is no longer open, reported, or confirmed once more; an event
may be let go only in a step that accounts for its capture (`BooksSpec`).

### The Xero token lease (`XeroTokenLease`)

Xero rotates refresh tokens: the stored one can be exchanged once, for a pair that
must reach the store. `row` and `conn` are the `XeroToken` and `XeroConnection`
rows with their lease (`refreshInProgressUntil`, `None` for null), `store` the
credential row (the token, and when it is due), `flight[p]` the
`_tokenRefreshPromise` of a process. `live` are the tokens Xero accepts; `broken`
is a history variable: the tokens whose successor was lost to a stop, a failed
answer or save, or a lease outlived, and tokens revoked. A token is the number of
its issue; every save writes a new store version, so the version stands for the token.

| Code | Actions |
|---|---|
| `getAuthenticatedXeroClient`, before the claim | `Load`, `Join` |
| `claimXeroTokenRefreshLease` | `ReadClock`, then `Claim`, `ClaimUnanswered`, `LoseClaim` or `ClaimFails` |
| `waitForSharedXeroTokenRefresh` | `Poll` |
| `refreshWork` | `GiveUp`, `Spend`, `SpendUnanswered`, `Refused` |
| `saveXeroTokens` with a lease | `Save`, `SaveRefused`, `SaveFails` |
| the `finally` and `releaseXeroTokenRefreshLease` | `Release`, `ReleaseFails` |
| `handleXeroCallback`, `disconnectXero`, `withXeroVerifyReset` | `Connect`, `Revoke`, `Disconnect` |

*Time.* The clock is a number of readings: `ReadClock` takes a reading no other
claim has, and `Tick` lets time pass. The processes' clocks agree. The claim's
reading and its transaction are two steps, as in the code (`now` is read before
the transaction is asked for), and `Overtake` says whether one may happen between the
other's. With `Overtake = FALSE` claims commit in the order they read the clock;
with TRUE they need not, and finding 5 is what then happens.

### The invoice on its way to Xero (`XeroInvoiceOps`)

One booking. `op` are its CREATE rows in `XeroSyncOperation`: status, the claim
(the run whose `startedAt` stamp the row carries), whether a PARTIAL repair holds it
(`lastErrorCode`), and the officer's mark (`manuallyResolvedAt`; 0 for none, else
how many rows there were when it was written, which orders it against their
creation). `run[r]` is one pass over a row, by the outbox or by a queued retry,
whose own queue row is `row`. `linked` is `payment.xeroInvoiceId`, `cash`
`payment.manuallyMarkedPaidAt`, `made` counts the invoices Xero made, `known` says
that Xero still knows the idempotency key, which is the key of the booking and so of
all its rows.

| Code | Actions |
|---|---|
| `enqueueXeroBookingInvoiceOperation`, `startXeroSyncOperation` | `Ask`, `Insert` |
| `processQueuedXeroOutboxOperations` | `Claim`, `Sibling`, `Cool` |
| `createXeroInvoiceForBooking` | `Read`, `Recheck`, `Send`, `Link`, `Complete`, `Replay`, `Drop`, `Throw`, `ThrowMade` |
| `enqueueXeroSyncOperationRetry`, `processQueuedXeroOperationRetries` | `Requeue`, `Drain`, `Close` |
| `retryXeroSyncOperation`, `runWithClaimedOriginal` | `RetryReads`, `TakeFailed`, `TakePartial`, `Repair` |
| stale resets, resolve route, mark-paid desk | `Reset`, `ResetRetry`, `Look`, `Mark`, `Judge`, `CheckMarkPaid`, `MarkPaid` |

*Abstractions.* `outcomeWriteGuard`, which decides whether a late outcome is
written, is `MayWrite`. A reset may take a claim away as soon as it is made: the code
waits fifteen minutes, which a run that waits for Xero may outlast. A run stands for
its stamp, so stamps are not equal by accident. What a run does between the
answer of Xero and the link (payment, e-mail) may fail, which ends in PARTIAL. The
key is forgotten only when no run is between its reads and the link: Xero keeps it
for hours and such a run takes seconds; a row that waits meanwhile finds it forgotten.

*Abstract specification.* `InvoiceLife` has a count of invoices, the link, the cash and one
bit, `held`: an operation is open or an officer answers for one. An invoice is made only
while the booking has none, and while it is held or the cash came meanwhile; the link is
for good and of an invoice that was made; cash is recorded only while there is no link; the
last operation is let go only when no invoice is left that the booking does not know of
(`LifeSpec`).

## 4. Runs, bounds and fairness

| Run | Instance | Shows |
|---|---|---|
| `Own` | 1 lodge with 1 bed, 2 nights, 3 entries of which one is free, 2 requests, 3 days, faults tx, crash, read, audit | `TypeOK`, `WithinCeiling`, `WaitingEntryIsClean`, `LedgerSpec`, `RepairSparesLiveConfirm` |
| `Refund` | 2 runners, 3 refunds at Stripe, 2 attempts per row, forgotten keys | `TypeOK`, `PaidOnce`, `OwedOnce`, `RestsWhenSettled`, `DebtIsInHand`, `RefundInv`, `ClosedStaysClosed`, `DebtSpec` |
| `SavedCard` | 2 callers, 2 attempt rows, 2 intents, 2 cards | `TypeOK`, `OneIntentPerKey`, `PaidIsBacked`, `CaptureIsAccounted`, `CapturedStaysCaptured`, `BooksSpec` |
| `CrossRace` | 2 lodges, party of two, 2 replacements, 2 requests, faults tx and ack | `OneReplacement`, `BothAliveIsFlagged` |
| `TokenLease` | 3 calls in 2 processes, a lease of 3 clock readings out of 6, tokens fresh for 2, 3 tokens, claims in order | `TypeOK`, `OneSpender`, `StoredIsSpendable`, `LeaseGuardsVersion`, `StoreMovesOn` |
| `InvoiceOps` | 2 rows, 2 passes alive at a time, 2 invoices | `TypeOK`, `MadeIsTraced`, `ResolvedIsNotRerun`, `SuccessIsFinal`, `LiveClaimIsKept`, `LinkedIsNotRemade`, `LifeSpec` |
| `Live` | 2 lodges, a waiting party of two that is offered the beds of the other lodge, a holder and a free stay that want the same beds, 1 replacement, 1 request, faults tx, ack and read, `LiveSpec` | `LedgerSpec`, `StrandIsReported`, `SettledStaysSettled`, `RepairsOnlyItsOffer`, `LapsedOfferIsWithdrawn`, `FreeClaimIsAnswered` |

The abstract modules have no runs of their own. `LedgerSpec` exercises `BedLedger` with
one lodge (`Own`) and with two (`Live`), and its invariant is proved (section 6);
`DebtSpec`, `BooksSpec` and `LifeSpec` check the other three as properties of the
modules that implement them.
The other runs are the findings below. Among the waitlist's runs none disables the
deadlock check: a member may always try again, so no state of these instances is a
dead end. `Refund`, `RefundLate`, `SavedCard` and `InvoiceOps` disable it: a refunded debt, a
booking that is paid or cancelled with no event to come, and one that has its invoice
and no row to run have nothing left to do.
That a debt does not stop before that is what `RestsWhenSettled` says.

*Why the bounds are enough.* One bed is the tightest ceiling: any two stays that
share a night compete. Two nights let stays overlap in part, so that a night
freed is not enough for a longer stay. Three entries are a holder, an offered
and a next in line. Two requests are what it takes to confirm twice; a third
adds no order that two do not have, since requests meet only in the rows. Two
lodges are the home and the offered one. One replacement per request is enough
because a request creates at most one. `LastDay` bounds the club's date: the
first night, the second and the day after are all there are. A row is cancelled
at most once and never reused, so entries are not created again; each run
therefore has as many direct bookings as it has entries. `CreateAs` narrows the
statuses a direct booking starts in where the property does not depend on it.
`CrossRace` and `Live` ask for different instances: in the first two requests
confirm one offer, in the second the beds of the offered lodge go to another
booking between the steps of a confirm. An entry that is offered beds at
both lodges in turn, so that a late write could hit another offer than its own, takes a
fourth entry, which is beyond TLC here; `RepairsItsOffer` (section 6) is proved for it. `CrossOrder` is "OWN_FIRST" with one lodge, where the
setting has no effect, and "MERGED" with two, where the orders mix.

`Refund`: three refunds are one that fails later, its replacement and one more, so
that a failed replacement, and a row raised for a failed refund of a raised row,
occur. Two attempts are a first and a last one. Two runners are what it takes to have
a late attempt; a third meets the rows as the second does. But for `RestsWhenSettled`
its properties are proved for any number of each (section 6). `SavedCard`: two rows are
an attempt and the one that supersedes it, two intents let both be charged, two cards
are a change of card, two callers a claim released from under its holder. Its
theorems (section 6) hold for any number of each.

`TokenLease`: two calls of one process are what `_tokenRefreshPromise` keeps apart
(both may claim, since it is set after the claim), the third is another process. A
lease of 3 readings out of 6 lets a second claim follow one that ran out, and
three tokens are the first, a refresh and a reconnect or a second refresh. Its
theorems hold for any number of calls, tokens and readings.

`InvoiceOps`: the name of a pass that ended and left no trace may stand for a new one, so
passes are unbounded and only those alive at once are two: a run and the retry, or
the second run, that takes its row. Two rows are a row and the copy queued beside its
resolve; two invoices let a second one be made. Its theorems hold for any number of each.

*What each fault choice leaves out.* `RepairSparesLiveConfirm` holds with
`"tx"` and fails with `"tx"` and `"ack"` together (observation 5). `StrandIsReported`
holds without `"crash"` and fails with it (finding 2); nor is it asked with
`"audit"`, for the report is then the very thing that fails, which the code logs
and accepts. `BothAliveIsFlagged` is asked of servers that do not stop and whose
audit row is written, since the row is the only trace there is.

*What the properties except.* Three failures leave no trace at all, and no server
need stop for them: the reply of a claim is lost, the read between the two phases of a free
confirm throws, the reply of the creation of a replacement is lost. `Live` has the first two
and `CrossRace` the third. Their rows go to `dropped`, and `StrandIsReported`,
`FreeClaimIsAnswered` and `BothAliveIsFlagged` except just these rows; without the
exception TLC refutes all three (observations 13 and 14). What the properties say is
that every other failure, at any later step of the request, is settled, reported or flagged.
A row leaves `dropped` when a later confirm claims it.

*Symmetry* is used on requests and replacements, runners, callers and the calls of one process, which no
constant and no property tells apart, and never in `Live`.

*Fairness* is assumed of two things only. `WF(ExpireStaleOffers)`: the waitlist
cron runs again and again (`runWaitlistProcessorCron`), each run retries a
transaction that could not start, and a lapsed offer stays lapsed until it is
taken. `WF` of each request's next step: a handler that does not crash runs to its
answer, its transactions have time limits, and `Live` has no `"crash"`: a
request that may stop promises nothing. Nothing is
assumed of wakes, of members, of administrators, or of the clock: no property
promises that a free bed is offered, because the code makes no such promise (a
wake may be lost and nothing scans for free beds).

The refund has no fairness. What must eventually happen to it is stated as the
state property `RestsWhenSettled`: in every reachable state the debt is
settled, or the officers are told (a row with its attempts spent), or a step of
the code is enabled. A debt could then stay unpaid in silence only by going round for
ever, and it cannot: each row has a bounded number of attempts, and a new row is
raised only for a refund that failed.

## 5. Findings

Each is a run that checks one property and finds it violated by what the code
does. Quotations are from the repository.

1. `NextInLine`. The offer e-mail says a lapsed spot "will be offered to the next
   person in line". The expiry keeps the entry's `createdAt`, and the wake it
   starts offers the spot to the same entry first.
2. `SilentStrand`. INV-PAY-008 says a free confirm "always ends in a state the
   member or a worker can move". A server that stops between the two transactions
   leaves a booking no worker looks for and no report names. It takes no stop to get
   there (observation 13), but the run shows the stop: its property excepts the others.
3. `UnjudgedStay`. "Both paths re-check the current minimum-stay policy set", but
   the cross-lodge path skips it when its unlocked read sees no live offer, and
   has no second look where the same-lodge path has one.
4. `RefundLate`. "WHICH ROW OWES IT. One row, never two", but a refund reported
   live out of a list that was read before it failed is taken for a replay of its
   key. If the row that owed it has made another refund and closed meanwhile,
   no open row is found and a second one is raised for a debt that is paid. The read
   and the recording are one webhook, so the window is short; the property holds
   in `Refund`, where it is closed.
5. `TokenBurnt`. The lease "keeps concurrency from burning refresh tokens", but a
   release clears any lease up to its own end, and runs again after the save has
   given the leases back. A claim that read the clock first and reached the database
   last (it waited for a connection of the pool) holds an earlier lease; the release
   of the other takes it away while the token is being exchanged, the save finds
   no lease, and the only valid pair is dropped. It takes both orders to go wrong, and
   then the club has to connect again. `TokenLease` and the theorems say that nothing
   of the kind happens when claims commit in the order of their readings.

*Observations without a run.* The actions produce these too; none has a run of
its own.

1. A live offer holds no bed (`WAITLIST_OFFERED` is not a capacity holding status,
   `waitlist.ts:631`), so a direct booking may take it and the confirm then finds
   no room. `docs/guides/waitlist.md:137-138` says the entry "is holding a bed".
2. The offered lodge stays on a row that force-confirm or the past-date cancel
   settles; `prisma/schema.prisma:1833-1834` says it is set only while the current
   offer is for an alternate lodge. Nothing modelled reads it there.
3. The same-lodge revert after a policy refusal (`waitlist.ts:806`) tests the
   status alone and takes back an offer for another lodge that came in between;
   its comment (792-797) speaks of same-lodge offers.
4. A replacement is created although the offer was withdrawn after its validation;
   `waitlist-cross-lodge.ts:691-693` calls the window safe as to capacity, which
   it is.
5. A compensation that commits while its reply is lost is reported as failed. The
   report, taken as proof of a strand (`waitlist-return-contract.ts:120-122`), may
   later let the repair take the place from under a confirm about to settle it.
6. One offer per wake however many beds came free; reverts on refusal wake nobody;
   cancelling a booking under review wakes nobody; the refusal for capacity and
   the joining of the waitlist are two transactions. No document promises more.
7. A caller that stops after its claim leaves the booking CONFIRMED and unpaid; the
   cron looks at PENDING bookings only (`cron-confirm-pending.ts:1187`), so a
   booking whose charge never reached Stripe waits for an administrator.
8. An attempt whose answer was lost and that is then superseded by a new card is
   ended with no intent on its row. If it did capture, its webhook finds no row and
   may adopt none: the capture is reported and not handed back by itself
   (`Unmatched`), where INV-PAY-085 speaks of a capture repaired three times over.
9. `saved-card-charge-attempt.ts` calls two live attempts unreachable. A revived row
   beside an attempt whose release was rolled back makes two unresolved rows; the
   next claim ends one of them.
10. The price of a replacement moved: when the unwinding transaction fails the request
   answers an error and logs it (`waitlist-cross-lodge.ts:900-906`), and the
   replacement stays at a price the member did not accept (843-845: "Never charge it
   silently").
11. Recording the money as cash (`manual-booking-payment.ts`: "exists ONLY where NO Xero
   invoice exists") asks for the invoice the payment carries and for rows active or
   succeeded. An invoice whose answer was lost leaves a FAILED row, which passes. And
   the desk's check and its commit lie on either side of a retry's claim.
12. An officer's mark is "never re-minted beside" (INV-INT-025), but the retry of a
   FAILED copy has no look at its marked sibling (`xero-operation-retry.ts:1704`), and a
   copy queued between the resolve's check and its mark is seen only if it is
   still to be claimed. Conversely a copy dropped beside a mark stays dropped when the mark
   is withdrawn (`Sibling`, `Judge`, `Drop`).
13. A claim that commits and whose reply is lost is answered as a failure
   (`waitlist.ts:1262-1263`, 400 at `route.ts:104-159`), and the read at `route.ts:195` has
   no handler. A free stay is then PAYMENT_PENDING with its offer consumed, as in finding 2,
   and none of the four ends of INV-PAY-008 was reached.
14. A replacement whose creation commits with its reply lost meets the last `catch`
   (`waitlist-cross-lodge.ts:809-813`): the member is told that the confirm failed, the
   replacement stands, the entry is still offered, and no audit row names them. A second confirm is refused
   as a duplicate stay; the offer lapses and the entry waits on beside its replacement.

## 6. Proofs

The theorems about the waitlist are for arbitrary constants satisfying `WaitlistAssumption`, or
`LedgerAssumption` for the ledger: any finite number of rows and guests, any lodges and nights,
any number of requests, any subset of the faults but where a theorem limits them. The assumptions say what the
database guarantees: entries and replacements are different rows, guests and
rows are finitely many, a replacement belongs to an entry, a stay has a night, a guest
sleeps only on nights of the stay, a lodge has a natural number of beds. TLC evaluates
`WaitlistAssumption` on every run; `LedgerAssumption` is a hypothesis of the
ledger's theorem, discharged from `WaitlistAssumption` where the ledger is
instantiated.

| Theorem | Says | Argument |
|---|---|---|
| `BedLedgerProofs!LedgerCeiling` | `LedgerAssumption /\ Spec => []WithinCeiling` | `IInv == LedgerAssumption /\ TypeOK /\ WithinCeiling` is inductive. `Take` adds at most the party beside what is occupied (`FS_Union`, `FS_Product`); all other steps leave no ordinary bed that was not there before (`FewerOrdinary`). |
| `WaitlistProofs!WaitlistTypes` | `Spec => []TypeOK` | `TypeOK` is not inductive: a wake names the lodge of a row, and a request creates at the lodge it captured. `IInv` adds that a created row has a lodge (`Placed`) and that a request holds the entry, the lodge and the replacement its next step needs (`RequestsOK`). One step per action, with lemmas for the helper writes. |
| `WaitlistRefinement!Refines` | `Spec => LedgerSpec` | Under `IInv` every action gives back the beds of one row (`GivesBack`), takes those of one row that fits (`Takes`, `Settles`, `IsCreated`), takes or records them under an override (`TakesOverridden`), or moves none (`NoBedMoves`). |
| `WaitlistRefinement!Ceiling` | `Spec => []WithinCeiling` | `Refines` and `LedgerCeiling` of the instantiated ledger. |

| Theorem (`WaitlistSafety`) | Says |
|---|---|
| `SettledStays` | `Spec => SettledStaysSettled` |
| `WaitingClean` | `Spec => []WaitingEntryIsClean` |
| `OneReplacementHolds` | `Spec => []OneReplacement` |
| `RepairsItsOffer` | `Spec => RepairsOnlyItsOffer` |
| `BothAliveFlagged` | `Faultless => (Spec => []BothAliveIsFlagged)` |
| `StrandReported` | `Faultless => (Spec => []StrandIsReported)` |
| `RepairSpares` | `"ack" \notin Faults => (Spec => RepairSparesLiveConfirm)` |

`Faultless` excludes "crash" and "audit": a server that stops between two
transactions, and an audit row that is not written, do break these two, which is
what the run `SilentStrand` shows of the first. Lost replies and reads that throw are in
both, and both except the rows in `dropped`, as section 4 says: the theorems promise nothing of a claim or
a creation whose reply was lost. A lost reply breaks the last
(observation 5). Rollbacks are in all seven.

*The argument.* The actions are looked at four times, one question each, and every
theorem follows from the answers. `CaptureStep`: a request whose row was not
written since it captured it (`r \notin stale`) still sees the offer it accepted
(`Captured`). This is what the code's comparison of the whole row buys, and
it is the strengthening without which a late cleanup could hit any row.
`RequestsStep`: one request moves per step; it claims a free stay, goes on with it,
creates a replacement, or is elsewhere. `RowsStep`: a row rests, appears, returns
to the queue clean, gets an offer, is placed, cancelled, or created as a replacement,
and only from the statuses named there. `AnswersStep`: a free stay starts to wait only with a request
that settles it or that dropped it, a report is spent by its repair, a request that ends leaves its stay
settled, reported or dropped. Then:

- `SettledStays` and `WaitingClean` (over `Clean`: absent rows carry no offer
  either) are read off `RowsStep`.
- `OneReplacementHolds`: replacements are only ever alive, absent or cancelled (`CopiesLive`);
  the second duplicate-stay guard, under the locks of the creation, sees any other one of the
  same entry at that lodge, because they share the owner and the nights; and two
  cannot be created in one step.
- `RepairSpares` needs `OneSettles`: while a free stay waits, at most one request settles
  it, or a report stands for it, never both. Each of its four parts needs the others.

The theorems about the saved card are for any set of callers and any number of
rows, intents and cards, from `SavedCardAssumption` alone.

| Theorem (`SavedCardProofs`) | Says |
|---|---|
| `SavedCardTypes` | `Spec => []TypeOK` |
| `OneCharge` | `Spec => []OneIntentPerKey` |
| `PaidStands` | `Spec => []PaidIsBacked` |
| `CapturesAccounted` | `Spec => []CaptureIsAccounted` |
| `CapturedStays` | `Spec => CapturedStaysCaptured` |
| `ChargeImplementsBooks` | `Spec => BooksSpec` |

*The inductive invariant.* None of these is inductive: what a caller does depends
on what it learnt some steps ago. `TInv` adds to the types what a caller holds at
each `pc`, and that a captured row names an intent. `Inv` adds five parts:

- `Keyed`: an intent not made has no key, only rows that exist expire, and no two
  intents have one key.
- `Linked`: no two rows name one intent, and a row names the intent of its own key,
  but for a row made for a capture that no row named.
- `Truthful`: what rows, answers and events say is captured is captured at Stripe.
- `Informed`, of each caller: its row exists and has not expired while it may
  still send its key, and what it found at Stripe belongs to other rows.
- `Money`: nothing goes back before the booking is paid or cancelled, a paid
  booking is backed, every capture is accounted for.

The proof first says what a step may do to the rows (`RowMoves`) and to Stripe's
intents (`IntentMoves`), with a step per action; the parts of `Inv` are then
preserved under these moves, and only the few actions that touch a part
are looked at again (`ChargeGoesOn`, `ClaimGoesOn`, `SettlesStep`).
`CapturedStays` is a corollary of `RowMoves`. TLC checked `Inv` on the instance of
`SavedCard` before it was proved.

*The refinement.* `ChargeImplementsBooks` rests on `Inv` and on the two lists of moves. Which
capture is kept cannot change: the settler does not, and `RowMoves` renames no captured row
(`KeptStays`). A step moves one intent (`OneByOne`), so Stripe's steps are `Capture` or not seen. The
callers' steps up to `Mark` are not seen either: they write rows, and only an answer that is
truthful may say that one is captured (`CallerUnseen`). The two that settle, `Mark` and
`SucceededEvent`, are `Pay` of an open booking, `Void` when it has no room, `Return` when
another capture or a cancel came first, and `Confirm` when the same one did
(`BooksSettle`); that what they settle is captured is `Informed` and `Truthful`.

The theorems about the Xero token are for any number of calls, processes, tokens and
clock readings, from `LeaseAssumption`. Two hold in whatever order claims commit; the
other three under `~Overtake`, without which finding 5 refutes `TokenNotBurnt`.

| Theorem (`XeroTokenProofs`) | Says |
|---|---|
| `TokenLeaseTypes` | `Spec => []TypeOK` |
| `StoreMoves` | `Spec => StoreMovesOn` |
| `SpendersExclude` | `~Overtake => (Spec => []OneSpender)` |
| `TokenNotBurnt` | `~Overtake => (Spec => []StoredIsSpendable)` |
| `LeasesSuffice` | `~Overtake => (Spec => []LeaseGuardsVersion)` |

There are two inductive invariants. `Tokens` holds in any order: every id and token was issued
(`Numbered`); a pair yet to be saved is live and unread by anybody else (`NewIsUnread`) and newer
than the token it was exchanged for (`Ascends`). With the version fence of the save it makes
`StoreMovesOn`: the token a save replaces is the one its call exchanged, hence an
earlier one. So what an overtaken claim can lose is a token, never the
order of what is stored. `Leases` adds to `Tokens`: a call that has the stored
tokens claimed on the row that is there (`SameRow`); claims commit in the order of their
readings (`InOrder`); a refresh within its lease has both halves of it and is the latest
claim (`WholeLease`); and a lease on the row a call claimed is its own, with the
tokens it read, or a later one (`LeaseKnown`). `InOrder` is where `~Overtake` is used.
From `WholeLease` two calls within their leases would each be later than the
other. `StoredIsSpendable` is preserved because a call that spent the stored token
within its lease finds both leases when it saves (`HolderSaves`).

The theorems about the invoice are for any number of runs, rows and invoices, from
`OpsAssumption`.

| Theorem (`XeroInvoiceProofs`) | Says |
|---|---|
| `InvoiceTypes` | `Spec => []TypeOK` |
| `ResolvedStaysResolved` | `Spec => []ResolvedIsNotRerun` |
| `SuccessStands` | `Spec => SuccessIsFinal` |
| `ClaimsAreKept` | `Spec => LiveClaimIsKept` |
| `InvoiceMadeOnce` | `Spec => LinkedIsNotRemade` |
| `InvoiceMadeIsTraced` | `Spec => []MadeIsTraced` |
| `InvoiceLives` | `Spec => LifeSpec` |

The first four rest on `Marks` (types, rows not queued yet carry no mark, a mark being
judged is there, marked rows are not active): every write of a row is an outcome, a claim
or a repair, and one lemma says what each leaves of every row (`Kept`). `InvoiceMadeOnce` needs `KeyKept`: a run that read the booking
without its invoice and is about to send still finds the key known; it is the
abstraction of section 3 that a key is not forgotten in the seconds of such a run. `InvoiceMadeIsTraced`
is the hard one, since a run gives its row up on a cooldown or drops it beside a mark.
`Trace` says that nothing counts as a success before the link (`LinkedFirst`), that a
run on its way to the invoice has its row running or failed, under its own claim or
lost to a retry (`Working`), and that some row is `Traced`: running or failed, with no
outbox run left that may give it up, unless that run itself holds the invoice. Every
step then leaves the rows open and moves one run (`Shift`), but for a claim (`Taken`), a
row given up before the call (`GivenUp`) and the call itself.

`InvoiceLives` puts these together. All steps but three leave the invoices, the link and the cash
(`LifeMoves`), so that what they let go is judged by `MadeIsTraced` after the step. The call
to Xero needs `KeyKept` (no second invoice beside a link) and `MadeIsTraced` (somebody holds
it), the link needs that a known key made an invoice, and the record of cash that the desk
which checked still finds none (`Known`).

The theorems about the card refund are for any runners and any number of refunds and
attempts, from `RefundAssumption`. All but the two about types and closed rows also assume
`"sync" \notin Delays`: no list is recorded after a refund on it failed. `RefundLate`
(finding 4) shows that `RefundOwedOnce` is false without it.

| Theorem (`CardRefundProofs`) | Says |
|---|---|
| `RefundTypes` | `Spec => []Types` |
| `ClosedRowsStayClosed` | `Spec => ClosedStaysClosed` |
| `RefundInvariant` | `"sync" \notin Delays /\ Spec => [](Types /\ RefundInv /\ UnusedKeys)` |
| `RefundTypeOK` | `"sync" \notin Delays /\ Spec => []TypeOK` |
| `RefundPaidOnce` | `"sync" \notin Delays /\ Spec => []PaidOnce` |
| `RefundOwedOnce` | `"sync" \notin Delays /\ Spec => []OwedOnce` |
| `RefundInHand` | `"sync" \notin Delays /\ Spec => []DebtIsInHand` |
| `RefundImplementsDebt` | `"sync" \notin Delays /\ Spec => DebtSpec` |

*The inductive invariant.* `PaidOnce` and `OwedOnce` relate Stripe to the books, and say
nothing of what an attempt read some steps ago and will act upon. What carries them is one fact: a second
refund is made only when the books know that the first has failed. `RefundInv` says why.

- `RefundsInTurn`, `RowsInTurn`, `Debt`: every refund but the last has failed, at Stripe
  and on the books; rows are raised for failed refunds, in turn, and all but the last are
  closed; a row is open or the last refund counts.
- `NotesHold`, `KeysInTurn`: the marks and failures on a row are so, no two remembered
  refunds have one key, and the open row that made the last refund still has its key.
- `WorkInv`: no two attempts have one row. One that holds its row knows the row's plan, and when it is
  about to ask, the last refund has failed on the books or answers to its own key,
  which Stripe remembers. One that the door overtook (`Late`) can still ask, but under the
  first key only.
- `DoorInv`, `EarlyInv`: the cancellation's request asked first; until it and the attempts it overtook
  are done (`Early`), the first key is remembered and the first row makes no other refund.
- `ChargeInv`: what a webhook read as live is live until it is recorded. Here the
  assumption on `Delays` is used.

TLC checks `RefundInv` in the run `Refund`, all 320 thousand states of it.

*The recursion.* `Fills` and `Recording` are recursive functions over `1 .. MaxRefunds`,
defined by `CHOOSE`: to use their equations one must show that a function with these equations
exists. `Smallest` takes the well-foundedness of `<` on the naturals from the library;
`SetInduction` and `Recursion` are induction and recursion over an interval, for sets and
functions instead of operators, so that the provers can cite them; `FillsSteps` and
`RecordingSteps` state the equations. What the loops return on arbitrary books is not
needed: on books in order only the last refund can fill a slice (`FillsLatest`,
`FilledByLatest`), and only its failure is decided (`RecordingVerdict`), so a recording
leaves the rows, re-plans the open one, or raises a new one (`CommitE`).

*The steps.* One lemma per action says what it changes (`...E`), and one that it keeps the
invariant (`...Inv`). Most rest on a frame: a recording (`RecordingBooks`), a write to one
row (`RowBooks`), a step of one attempt (`WorkerStep`), a move of Stripe's
(`StripeMoves`). The hard step is `AskNew`, where a new refund is made:
each fact about the last refund has to hold of another refund afterwards.

*At rest.* `RefundInHand` is what can be proved of `RestsWhenSettled`: `DebtIsInHand` says in the words
of the guards that somebody still has to take the debt up. It follows from `Debt`, and from
`PendingIsDue`: only a failed attempt makes a row wait.

*The refinement.* `RefundImplementsDebt` takes `RefundInv` at both ends of a step. That a
refund is made only after the books know of the last failure is `RefundsInTurn` after the step (every refund but the last has
failed on the books); that a row owes the debt when it is sent is
`Debt` before it; that the last refund counts when a row is closed is part of what is known of whoever
closes it (`HolderInv`, `DoorInv`). What remains is
that no step does two of these at once: a recording changes the last
refund only, and only its failure re-opens or raises a row (`RefundRecorded`); a fenced write of
a row leaves the refunds and closes at most the open one (`RowCloses`). The door, which closes
the row it wrote, is the step that could let go too much: its fence asks
that the plan is the one it sent (`OpenOnSentPlan`), so that a row moved on meanwhile stays open.

Only model-checked: `RestsWhenSettled` of `Refund`, which speaks of `ENABLED`, and the two
liveness properties of `Live` (the prover has no `ENABLED`, hence no fairness). The modules
declare no RECURSIVE operator.

## 7. Not modelled

*Card refunds.* Plans of several slices; the refunded-amount mirror and its caps;
refunds made in Stripe's dashboard and the hold they put on a row; debts closed
as paid another way; the other doors that write a refund row, which use the same
functions; rows without a plan; the cut-off for failures older than the feature;
operations that cancel intents or create additional ones; alerts and credit notes.

*Saved cards.* Amounts (a capture of another amount is refused everywhere), holds
with nothing to pay or less than Stripe's minimum, refunds of a paid booking
and what they release, intents superseded by a payment link, rows that share
a legacy key, the capacity decision of the hold window (a claim may simply not
happen), e-mails.

*Xero tokens.* Writes of the previous release that runs beside this one (the reason for
the second row), a connection without a `XeroToken` row, tokens that cannot be read or
that belong to another tenant, two connects that race, clocks that disagree.

*Invoices.* Operations other than the invoice of a booking; mark-non-replayable; repairs that only
send the e-mail or the contact; the previous release; the reversal of a
manual payment; amounts, lines and gaps of fee or worth.

*Beds.* Whole-lodge holds, custodian, policy-exception and
pending-adult beds, and partner-shared admission (they add terms to the count and
refusals to the check); the administrator's capacity hold and request-converted
bookings, which hold beds while PENDING; `BUMPED`; a review's approval; manual
settlement; drafts and split bookings; the `noEmails` exclusion of entries; the
stored queue position, which no decision reads; the repricing of an offer, but
for "drifted"; member-night conflicts, which are one of the reasons for
`XCreateRefused`; e-mails and logs.

The commit order of transactions is taken to be serial where they share a lodge
lock. That the locks themselves are always taken in one order is a separate
question, in the plan.

The other components are not modelled yet, or not at all where the table of
`PROJECT.json` says so: single-row compare-and-set operations, rendering and bulk
I/O have no interleaving of their own.

## 8. Plan

The order is by what a member, or the club's money, would lose.

1. *Built:* `BedLedger`, the waitlist modules and their proofs; `RefundBooks` and
   `CardRefund`, `SavedCardCharge`, `XeroTokenLease` and `XeroInvoiceOps` with their proofs,
   and the refinements of `RefundDebt`, `CaptureBooks` and `InvoiceLife`.
2. More operations of the recovery queue: plans of several slices, which the model
   has the place for (a row's slice becomes a function), and the operations
   that cancel or replace an intent; the lease of the webhook events.
3. The writes of the previous release in `XeroTokenLease`.
4. The other operations of the Xero outbox: supplementary invoices, credit notes and
   payments share the claim and the outcome guard but not the fences.
5. `MemberCredit`: apply and restore as a signed ledger. Theorem: the balance is
   never negative and a booking's credit is restored once.
6. `GroupSettlement`: organiser pays, reaper, late capture, composed with
   `Waitlist`'s settlement through a common ledger. `BankHold`: release against late
   evidence.
7. `EmailRetry` and `CronRunClaim`: small, with crash recovery.
8. `NightOccupancy`: the whole of `computeNightOccupancy` as an operator, checked
   against a bed-by-bed reference over bounded inputs, then used by the ledger;
   `Modification` on top of it.
9. `LockOrder`: global, lodge and ledger locks of all writers; freedom from
   deadlock, proved from the order.
