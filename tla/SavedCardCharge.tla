--------------------------- MODULE SavedCardCharge ---------------------------
(***************************************************************************)
(* The charge of a saved card for a pending booking.  The cron at the hold *)
(* deadline, the administrators' confirm door and charge-saved-method work *)
(* by one contract: claim the booking and an attempt row in one            *)
(* transaction (PENDING becomes CONFIRMED), ask Stripe outside every       *)
(* transaction under a key made of the row's id, then record the answer    *)
(* and either settle the booking or put it back to PENDING.                *)
(*                                                                         *)
(* An answer may be lost, a caller may stop anywhere, a charge may stay    *)
(* "processing" for days, the member may save another card or cancel, and  *)
(* Stripe's webhooks come in any order and more than once.                 *)
(*                                                                         *)
(* One booking, one amount: a capture of another amount than the booking's *)
(* is refused by every settlement and is not modelled.                     *)
(***************************************************************************)
EXTENDS Naturals, FiniteSets

CONSTANTS
  Callers,     \* cron runs and administrators' requests at work at a time
  MaxRows,     \* bound: PaymentTransaction rows the booking's payment gets
  MaxIntents,  \* bound: PaymentIntents Stripe makes
  MaxCards     \* bound: cards the member saves

ASSUME SavedCardAssumption ==
  /\ MaxRows \in Nat \ {0}
  /\ MaxIntents \in Nat \ {0}
  /\ MaxCards \in Nat \ {0}

Rows == 1 .. MaxRows         \* in the order of createdAt
Intents == 1 .. MaxIntents
Cards == 1 .. MaxCards
None == 0                    \* null in a row's intent or card

VARIABLES
  \* the database
  booking,   \* Booking.status
  settler,   \* Payment.settledByTransactionId
  card,      \* the saved card of the Payment row
  saved,     \* how many cards the member has saved
  rows,      \* the PaymentTransaction rows
  returned,  \* the intents a durable refund row hands back
  reported,  \* the captures the officers were told of by hand
  \* Stripe
  intents,   \* intents[i]: its status, "none" until made
  key,       \* key[i]: the row whose key it was asked under
  on,        \* on[i]: the card it charges
  answer,    \* answer[i]: what the asking call was told
  expired,   \* the rows made too long ago for their key to be remembered
  news,      \* the webhook events not yet handled
  \* the servers
  call       \* call[c]: the charge caller c is in

ledger == <<settler, rows, returned, reported>>
stripe == <<intents, key, on, answer>>
vars == <<booking, settler, card, saved, rows, returned, reported,
          intents, key, on, answer, expired, news, call>>

NoRow == [status |-> "NONE", card |-> None, intent |-> None]

\* intent is the one the attempt asks about, later the one that answered it.
Idle == [pc |-> "idle", row |-> None, card |-> None, intent |-> None, told |-> "none",
         stale |-> {}, captured |-> None, live |-> None, found |-> None]

Init ==
  /\ booking = "PENDING"
  /\ settler = None
  /\ card = 1 /\ saved = 1
  /\ rows = [a \in Rows |-> NoRow]
  /\ returned = {} /\ reported = {}
  /\ intents = [i \in Intents |-> "none"]
  /\ key = [i \in Intents |-> None]
  /\ on = [i \in Intents |-> None]
  /\ answer = [i \in Intents |-> "none"]
  /\ expired = {}
  /\ news = {}
  /\ call = [c \in Callers |-> Idle]

-----------------------------------------------------------------------------
\* The ledger rows

Unresolved == {"PENDING", "PROCESSING"}

\* Deviation: Stripe's own status is written.
LedgerStatusRaw(s) == s

\* Deviation: a charge in processing counts as captured.
LedgerStatusEarly(s) ==
  IF s \in {"succeeded", "processing"} THEN "SUCCEEDED"
  ELSE IF s \in {"failed", "canceled"} THEN "FAILED" ELSE "PROCESSING"

\* ledgerStatusForPaymentIntent
LedgerStatus(s) ==
  IF s = "succeeded" THEN "SUCCEEDED"
  ELSE IF s \in {"failed", "canceled"} THEN "FAILED" ELSE "PROCESSING"

RowOf(rs, i) == {a \in Rows : rs[a].intent = i}

\* The rows the next created row takes its id from.
Fresh(rs) == {a \in Rows : rs[a].status = "NONE" /\ \A b \in 1 .. a - 1 : rs[b].status # "NONE"}

\* Deviation: the last answer to come is written.
ForwardAny(status, st) == status \notin {"NONE", "DELETED"}

Forward(status, st) ==
  IF st = "SUCCEEDED" THEN status \in Unresolved \cup {"FAILED", "SUCCEEDED"}
  ELSE status \in Unresolved

\* settleSavedCardChargeAttempt: the row of the intent if there is one, else
\* the attempt's own; an attempt row that then names no intent is removed.
Settled(rs, a, i, st) ==
  LET other == RowOf(rs, i) \ {a}
      target == IF other = {} THEN {a} ELSE other
  IN [b \in Rows |->
        IF b \in target /\ Forward(rs[b].status, st)
          THEN [status |-> st, card |-> on[i], intent |-> i]
        ELSE IF b = a /\ other # {} /\ rs[b].intent = None
          THEN [NoRow EXCEPT !.status = "DELETED"]
        ELSE rs[b]]

\* upsertPaymentIntentTransaction as SUCCEEDED, at row a.
Upserted(rs, a, i) == [rs EXCEPT ![a] = [status |-> "SUCCEEDED", card |-> on[i], intent |-> i]]

UpsertAt(rs, i) == IF RowOf(rs, i) # {} THEN RowOf(rs, i) ELSE Fresh(rs)

-----------------------------------------------------------------------------
\* The claim (beginSavedCardChargeAttempt inside the claim's transaction)

Open == {a \in Rows : rows[a].status \in Unresolved}

Replayable ==
  {a \in Open : rows[a].card = card \/ (rows[a].card = None /\ rows[a].intent = None)}

\* Deviation: a key is sent again however old it is.
ReplayAnyAge(a) ==
  /\ a \in Replayable
  /\ \A b \in Replayable : b <= a

\* The last replayable row is asked about again; one that names no intent only
\* while its key is sure to be remembered.
Replay(a) ==
  /\ a \in Replayable
  /\ \A b \in Replayable : b <= a
  /\ rows[a].intent = None => a \notin expired

Superseded(a) == Open \ {a}

Ended(rs, ended) == [a \in Rows |-> IF a \in ended THEN [rs[a] EXCEPT !.status = "FAILED"] ELSE rs[a]]

Begun(a, intent, stale) ==
  [Idle EXCEPT !.pc = IF stale = {} THEN "asking" ELSE "canceling", !.row = a, !.card = card,
               !.intent = intent, !.stale = stale]

Claim(c) ==
  /\ call[c].pc = "idle"
  /\ booking = "PENDING" /\ card # None
  /\ \A a \in Rows : rows[a].status # "SUCCEEDED"
  /\ \E a \in Rows :
       LET stale == {rows[b].intent : b \in Superseded(a)} \ {None}
           ended == Ended(rows, Superseded(a))
       IN \/ /\ Replay(a)
             /\ rows' = ended
             /\ call' = [call EXCEPT ![c] = Begun(a, rows[a].intent, stale)]
          \/ /\ Replayable = {} /\ a \in Fresh(rows)
             /\ rows' = [ended EXCEPT ![a] = [status |-> "PENDING", card |-> card, intent |-> None]]
             /\ call' = [call EXCEPT ![c] = Begun(a, None, stale)]
  /\ booking' = "CONFIRMED"
  /\ UNCHANGED <<settler, card, saved, returned, reported, stripe, expired, news>>

-----------------------------------------------------------------------------
\* The intents of superseded attempts (cancelSupersededAttemptIntents)

\* A caller that goes on keeps only what it still reads.
Stops(c) == call' = [call EXCEPT ![c] = Idle]
Releases(c) == call' = [call EXCEPT ![c] = [Idle EXCEPT !.pc = "releasing"]]
Condemns(c, pc) == call' = [call EXCEPT ![c] = [Idle EXCEPT !.pc = pc, !.card = call[c].card]]
Marks(c) == call' = [call EXCEPT ![c] = [Idle EXCEPT !.pc = "marking", !.intent = call[c].intent]]

\* Stripe's answer for intent i goes on the row of attempt k.
Answered(k, i, told) ==
  [Idle EXCEPT !.pc = IF told = "SUCCEEDED" THEN "settling" ELSE "answering",
               !.row = k.row, !.intent = i, !.told = told]

First(old, new) == IF old = None THEN new ELSE old
FoundCaptured(k, i) == [k EXCEPT !.captured = First(@, i)]
FoundLive(k, i) == [k EXCEPT !.live = First(@, i)]

\* Once every stale intent is visited a captured one answers the attempt, else
\* a live one; with neither the charge goes on.
Visited(k, i) ==
  LET rest == [k EXCEPT !.stale = @ \ {i}, !.found = None]
  IN IF rest.stale # {} THEN [rest EXCEPT !.pc = "canceling"]
     ELSE IF rest.captured # None THEN Answered(k, rest.captured, "SUCCEEDED")
     ELSE IF rest.live # None THEN Answered(k, rest.live, "PROCESSING")
     ELSE [rest EXCEPT !.pc = "asking"]

Visits(c, i) == call' = [call EXCEPT ![c] = Visited(@, i)]

CancelSuperseded(c) ==
  /\ call[c].pc = "canceling"
  /\ \E i \in call[c].stale :
       \/ \* canceled at Stripe
          /\ intents[i] \in {"action", "failed"}
          /\ intents' = [intents EXCEPT ![i] = "canceled"]
          /\ news' = news \cup {<<i, "failed">>}
          /\ Visits(c, i)
       \/ \* found captured
          /\ intents[i] = "succeeded"
          /\ call' = [call EXCEPT ![c] = Visited(FoundCaptured(@, i), i)]
          /\ UNCHANGED <<intents, news>>
       \/ \* found processing: it is waited on, its row put back first
          /\ intents[i] = "processing"
          /\ call' = [call EXCEPT ![c].pc = "reviving", ![c].found = i]
          /\ UNCHANGED <<intents, news>>
       \/ \* canceled before, or neither the cancel nor the read is answered
          /\ Visits(c, i)
          /\ UNCHANGED <<intents, news>>
  /\ UNCHANGED <<booking, ledger, card, saved, key, on, answer, expired>>

\* reviveSupersededAttemptRow
Revive(c) ==
  /\ call[c].pc = "reviving"
  /\ LET i == call[c].found
     IN /\ rows' = [a \in Rows |->
                      IF rows[a].intent = i /\ rows[a].status = "FAILED"
                      THEN [rows[a] EXCEPT !.status = "PROCESSING"] ELSE rows[a]]
        /\ call' = [call EXCEPT ![c] = Visited(FoundLive(@, i), i)]
  /\ UNCHANGED <<booking, settler, card, saved, returned, reported, stripe, expired, news>>

-----------------------------------------------------------------------------
\* The call to Stripe (chargeSavedCardAttempt)

\* A replay that knows its intent reads it.
Retrieve(c) ==
  /\ call[c].pc = "asking" /\ call[c].intent # None
  /\ \/ call' = [call EXCEPT ![c] = Answered(@, @.intent, LedgerStatus(intents[@.intent]))]
     \/ Releases(c)
  /\ UNCHANGED <<booking, ledger, card, saved, stripe, expired, news>>

\* The intents Stripe would answer a call under row a's key with.
Remembered(a) == {i \in Intents : key[i] = a /\ a \notin expired}

\* A call told that a charge needs the cardholder goes on as if it were processing.
Told(status) == IF status = "action" THEN "processing" ELSE status

\* A decline is an error, and so are the answer that is lost and a key sent
\* again with another card: only the decline is definite.
Answers(c, i, status) ==
  \/ call' = [call EXCEPT ![c] = IF status = "declined" THEN [@ EXCEPT !.pc = "failing"]
                                 ELSE Answered(@, i, LedgerStatus(status))]
  \/ Releases(c)

ChargeAgain(c) ==
  /\ call[c].pc = "asking" /\ call[c].intent = None
  /\ \E i \in Remembered(call[c].row) :
       IF on[i] = call[c].card THEN Answers(c, i, answer[i]) ELSE Releases(c)
  /\ UNCHANGED <<booking, ledger, card, saved, stripe, expired, news>>

Charge(c) ==
  /\ call[c].pc = "asking" /\ call[c].intent = None
  /\ Remembered(call[c].row) = {}
  /\ \E i \in Intents, status \in {"succeeded", "processing", "action", "declined"} :
       /\ intents[i] = "none" /\ \A j \in 1 .. i - 1 : intents[j] # "none"
       /\ intents' = [intents EXCEPT ![i] = IF status = "declined" THEN "failed" ELSE status]
       /\ key' = [key EXCEPT ![i] = call[c].row]
       /\ on' = [on EXCEPT ![i] = call[c].card]
       /\ answer' = [answer EXCEPT ![i] = Told(status)]
       /\ news' = CASE status = "succeeded" -> news \cup {<<i, "succeeded">>}
                    [] status = "declined" -> news \cup {<<i, "failed">>}
                    [] OTHER -> news
       /\ Answers(c, i, status)
  /\ UNCHANGED <<booking, ledger, card, saved, expired>>

\* The call makes no intent: it never reaches Stripe, or Stripe refuses it.
ChargeRefused(c) ==
  /\ call[c].pc = "asking" /\ call[c].intent = None
  /\ \/ Releases(c)
     \/ /\ Remembered(call[c].row) = {}
        /\ call' = [call EXCEPT ![c].pc = "failing"]
  /\ UNCHANGED <<booking, ledger, card, saved, stripe, expired, news>>

\* failSavedCardChargeAttempt, whose own failure is swallowed.
FailAttempt(c) ==
  /\ call[c].pc = "failing"
  /\ \/ rows' = IF rows[call[c].row].status \in Unresolved
                THEN [rows EXCEPT ![call[c].row].status = "FAILED"] ELSE rows
     \/ UNCHANGED rows
  /\ Condemns(c, "releasing")
  /\ UNCHANGED <<booking, settler, card, saved, returned, reported, stripe, expired, news>>

-----------------------------------------------------------------------------
\* Settling (settleBookingPaymentInTransaction)

\* Deviation: every capture that meets a paid booking goes back.
HandsBackAll(a) == TRUE

\* Deviation: a booking that is paid already keeps what comes.
HandsBackNone(a) == FALSE

\* judgeCaptureOnPaidBooking: every capture but the recorded settler's.  What
\* releases a settler (a refund of the paid booking) is outside this module.
HandsBack(a) == a # settler

\* The capture of intent i is recorded at row a, and the booking judged by its
\* status: paid, voided for want of room, or paid before.
Settles(i, a) ==
  /\ rows' = Upserted(rows, a, i)
  /\ \/ /\ booking \in {"PENDING", "CONFIRMED"}
        /\ booking' = "PAID"
        /\ settler' = a
        /\ UNCHANGED returned
     \/ /\ booking \in {"PENDING", "CONFIRMED"}
        /\ booking' = "CANCELLED"
        /\ returned' = returned \cup {i}
        /\ UNCHANGED settler
     \/ /\ booking = "PAID"
        /\ returned' = IF HandsBack(a) THEN returned \cup {i} ELSE returned
        /\ UNCHANGED <<booking, settler>>

\* settleSavedCardChargeAttempt.  When it fails charge-saved-method goes on and
\* the cron stops, leaving the booking claimed for the webhook.
Settle(c) ==
  /\ call[c].pc = "settling"
  /\ \/ rows' = Settled(rows, call[c].row, call[c].intent, "SUCCEEDED")
     \/ UNCHANGED rows
  /\ Marks(c)
  /\ UNCHANGED <<booking, settler, card, saved, returned, reported, stripe, expired, news>>

\* markBookingPaymentSucceeded
Mark(c) ==
  /\ call[c].pc = "marking"
  /\ \E a \in UpsertAt(rows, call[c].intent) : Settles(call[c].intent, a)
  /\ Stops(c)
  /\ UNCHANGED <<card, saved, reported, stripe, expired, news>>

-----------------------------------------------------------------------------
\* Releasing

Released == IF booking = "CONFIRMED" THEN "PENDING" ELSE booking

\* An answer that is no capture is recorded and the claim released in one
\* transaction.  Its failure, or the loss of its reply, ends in ReleaseClaim.
RecordAndRelease(c) ==
  /\ call[c].pc = "answering"
  /\ \/ /\ rows' = Settled(rows, call[c].row, call[c].intent, call[c].told)
        /\ booking' = Released
        /\ Stops(c) \/ Releases(c)
     \/ /\ Releases(c)
        /\ UNCHANGED <<rows, booking>>
  /\ UNCHANGED <<settler, card, saved, returned, reported, stripe, expired, news>>

\* releaseChargeClaim: whoever's claim it is by now.
ReleaseClaim(c) ==
  /\ call[c].pc = "releasing"
  /\ booking' \in {Released, booking}
  /\ Stops(c) \/ (call[c].card # None /\ Condemns(c, "retiring"))
  /\ UNCHANGED <<ledger, card, saved, stripe, expired, news>>

\* retireUnusableSavedCard, after a failure that condemns the card: off the
\* payment, then, unless the server stops in between, off the ledger rows.
Retire(c) ==
  /\ call[c].pc = "retiring"
  /\ card' = IF card = call[c].card THEN None ELSE card
  /\ \/ rows' = [a \in Rows |-> IF rows[a].card = call[c].card
                                THEN [rows[a] EXCEPT !.card = None] ELSE rows[a]]
     \/ UNCHANGED rows
  /\ Stops(c)
  /\ UNCHANGED <<booking, settler, saved, returned, reported, stripe, expired, news>>

\* The server stops, or a transaction fails with nothing left to run.
Stop(c) ==
  /\ call[c].pc # "idle"
  /\ Stops(c)
  /\ UNCHANGED <<booking, ledger, card, saved, stripe, expired, news>>

-----------------------------------------------------------------------------
\* Webhooks.  Each may run again before Stripe takes it as handled.

Handled(i, kind) == news' \in {news, news \ {<<i, kind>>}}

\* adoptSavedCardChargeAttemptForIntent: the attempt row the key names.
Adoptable(i) ==
  {a \in Rows : /\ RowOf(rows, i) = {}
                /\ a = key[i] /\ rows[a].status \in Unresolved /\ rows[a].intent = None}

\* What came of no call of ours, a charge that was captured or failed after its
\* asking call was told something else, is an event without a key.  The intent
\* names its attempt then only if the row's key is of the later shape.
Keyless(i, told) == answer[i] # told

\* payment_intent.succeeded, the adoption: a transaction of its own.
Adopt(i) ==
  /\ <<i, "succeeded">> \in news
  /\ \E a \in Adoptable(i) : rows' = Settled(rows, a, i, "SUCCEEDED")
  /\ UNCHANGED <<booking, settler, card, saved, returned, reported, stripe, expired, news, call>>

\* No row names the intent and none may adopt it: it is only reported.
Unmatched(i) ==
  /\ <<i, "succeeded">> \in news
  /\ RowOf(rows, i) = {}
  /\ Adoptable(i) = {} \/ Keyless(i, "succeeded")
  /\ reported' = reported \cup {i}
  /\ Handled(i, "succeeded")
  /\ UNCHANGED <<booking, settler, card, saved, rows, returned, stripe, expired, call>>

\* A capture on a cancelled booking is recorded and goes back; any other settles.
SucceededEvent(i) ==
  /\ <<i, "succeeded">> \in news
  /\ \E a \in RowOf(rows, i) :
       \/ Settles(i, a)
       \/ /\ booking = "CANCELLED"
          /\ rows' = Upserted(rows, a, i)
          /\ returned' = returned \cup {i}
          /\ UNCHANGED <<booking, settler>>
  /\ Handled(i, "succeeded")
  /\ UNCHANGED <<card, saved, reported, stripe, expired, call>>

\* payment_intent.payment_failed and payment_intent.canceled; the second never
\* adopts, and never needs to: only an intent some row names is canceled.
FailedEvent(i) ==
  /\ <<i, "failed">> \in news
  /\ \E adopted \in {Adoptable(i)} \cup (IF Keyless(i, "declined") THEN {{}} ELSE {}) :
       rows' = [a \in Rows |->
                  IF rows[a].intent = i /\ rows[a].status # "SUCCEEDED"
                    THEN [rows[a] EXCEPT !.status = "FAILED"]
                  ELSE IF a \in adopted
                    THEN [status |-> "FAILED", card |-> on[i], intent |-> i]
                  ELSE rows[a]]
  /\ Handled(i, "failed")
  /\ UNCHANGED <<booking, settler, card, saved, returned, reported, stripe, expired, call>>

-----------------------------------------------------------------------------
\* Stripe, the member and the clock

\* A charge in processing is captured or fails.  One that needs the cardholder
\* is completed only through create-payment-intent, which hands its secret back
\* when a row names it.
Capture(i) ==
  /\ \/ intents[i] = "processing"
     \/ intents[i] \in {"action", "failed"} /\ RowOf(rows, i) # {}
  /\ intents' = [intents EXCEPT ![i] = "succeeded"]
  /\ news' = news \cup {<<i, "succeeded">>}
  /\ UNCHANGED <<booking, ledger, card, saved, key, on, answer, expired, call>>

Fail(i) ==
  /\ intents[i] \in {"processing", "action"}
  /\ intents' = [intents EXCEPT ![i] = "failed"]
  /\ news' = news \cup {<<i, "failed">>}
  /\ UNCHANGED <<booking, ledger, card, saved, key, on, answer, expired, call>>

\* The member saves another card.  Its SetupIntent takes the old card off the
\* payment first and stamps the new one when Stripe says so; between the two
\* there is no card and no claim.
SaveCard ==
  /\ booking = "PENDING" /\ saved < MaxCards
  /\ saved' = saved + 1
  /\ card' = saved + 1
  /\ UNCHANGED <<booking, ledger, stripe, expired, news, call>>

\* cancelBooking: of a claimed booking the captured rows go back.
CancelBooking ==
  /\ booking \in {"PENDING", "CONFIRMED"}
  /\ booking' = "CANCELLED"
  /\ returned' = returned \cup
       {rows[a].intent : a \in {b \in Rows : booking = "CONFIRMED" /\ rows[b].status = "SUCCEEDED"}}
  /\ UNCHANGED <<settler, card, saved, rows, reported, stripe, expired, news, call>>

\* Stripe remembers a key for a day from its first use, the code sends it for
\* 23 hours from the making of its row.  The hour between is longer than a
\* caller takes from its claim to its charge, so the two are one moment here,
\* in which no caller is about to send the key.  The age of a row is read by a
\* claim only, of a pending booking, and only while the row waits for its answer.
Sending(k) == k.intent = None /\ k.pc \in {"canceling", "reviving", "asking"}

Expire(a) ==
  /\ booking = "PENDING"
  /\ rows[a].status \in Unresolved /\ rows[a].intent = None
  /\ \A c \in Callers : ~(Sending(call[c]) /\ call[c].row = a)
  /\ expired' = expired \cup {a}
  /\ UNCHANGED <<booking, ledger, card, saved, stripe, news, call>>

-----------------------------------------------------------------------------
Caller(c) ==
  \/ Claim(c) \/ CancelSuperseded(c) \/ Revive(c)
  \/ Retrieve(c) \/ ChargeAgain(c) \/ Charge(c) \/ ChargeRefused(c) \/ FailAttempt(c)
  \/ Settle(c) \/ Mark(c)
  \/ RecordAndRelease(c) \/ ReleaseClaim(c) \/ Retire(c)
  \/ Stop(c)

Webhook(i) == Adopt(i) \/ Unmatched(i) \/ SucceededEvent(i) \/ FailedEvent(i)

Next ==
  \/ \E c \in Callers : Caller(c)
  \/ \E i \in Intents : Webhook(i) \/ Capture(i) \/ Fail(i)
  \/ \E a \in Rows : Expire(a)
  \/ SaveCard \/ CancelBooking

Spec == Init /\ [][Next]_vars

-----------------------------------------------------------------------------
RowType ==
  [status : {"NONE", "PENDING", "PROCESSING", "FAILED", "SUCCEEDED", "DELETED"},
   card : Cards \cup {None}, intent : Intents \cup {None}]

CallType ==
  [pc : {"idle", "canceling", "reviving", "asking", "failing", "settling", "marking",
         "answering", "releasing", "retiring"},
   row : Rows \cup {None}, card : Cards \cup {None}, intent : Intents \cup {None},
   told : {"none", "SUCCEEDED", "PROCESSING", "FAILED"}, stale : SUBSET Intents,
   captured : Intents \cup {None}, live : Intents \cup {None}, found : Intents \cup {None}]

\* Every variable holds a value the code could.
TypeOK ==
  /\ booking \in {"PENDING", "CONFIRMED", "PAID", "CANCELLED"}
  /\ settler \in Rows \cup {None}
  /\ card \in Cards \cup {None} /\ saved \in Cards
  /\ rows \in [Rows -> RowType]
  /\ returned \subseteq Intents /\ reported \subseteq Intents
  /\ intents \in [Intents -> {"none", "processing", "action", "failed", "canceled", "succeeded"}]
  /\ key \in [Intents -> Rows \cup {None}]
  /\ on \in [Intents -> Cards \cup {None}]
  /\ answer \in [Intents -> {"none", "succeeded", "processing", "declined"}]
  /\ expired \subseteq Rows
  /\ news \subseteq Intents \X {"succeeded", "failed"}
  /\ call \in [Callers -> CallType]

\* However often an attempt is sent again, Stripe makes one charge of it: the
\* code stops sending a key while Stripe is sure to remember it.
OneIntentPerKey == \A i, j \in Intents : key[i] # None /\ key[i] = key[j] => i = j

\* A paid booking stands on a capture that Stripe made, that the ledger shows,
\* and that no duplicate-capture refund hands back.
PaidIsBacked ==
  booking = "PAID" =>
    \E a \in Rows : /\ a = settler
                    /\ rows[a].status = "SUCCEEDED"
                    /\ rows[a].intent \in Intents \ returned
                    /\ intents[rows[a].intent] = "succeeded"

\* No capture is lost or kept twice in silence: each has its webhook to come,
\* or paid the booking, or goes back, or the officers were told of it.
CaptureIsAccounted ==
  \A i \in Intents : intents[i] = "succeeded" =>
    \/ <<i, "succeeded">> \in news
    \/ i \in returned \cup reported
    \/ booking = "PAID" /\ settler \in RowOf(rows, i)

\* A late or repeated answer never takes a capture off the ledger.
CapturedStaysCaptured ==
  [][\A a \in Rows : rows[a].status = "SUCCEEDED" =>
       rows'[a].status = "SUCCEEDED" /\ rows'[a].intent = rows[a].intent]_vars

\* The money behind the rows: how far the booking is, what Stripe captured, which
\* of it has an event to come, and which the settled row keeps.
Stage ==
  IF booking \in {"PENDING", "CONFIRMED"} THEN "open"
  ELSE IF booking = "PAID" THEN "paid" ELSE "void"
Captured == {i \in Intents : intents[i] = "succeeded"}
Awaited == {i \in Intents : <<i, "succeeded">> \in news}
Kept == IF booking = "PAID" THEN {rows[settler].intent} ELSE {}

Books == INSTANCE CaptureBooks
         WITH stage <- Stage, captured <- Captured, awaited <- Awaited, kept <- Kept

\* The callers, Stripe, its webhooks and the member together keep the promise of
\* CaptureBooks: a late answer, a redelivered event or a second caller never
\* changes which capture is kept, hands back what was not taken, or lets the event
\* of a capture go that is neither kept, handed back nor reported.
BooksSpec == Books!Spec
=============================================================================
