---------------------------- MODULE RefundBooks -----------------------------
(***************************************************************************)
(* One card refund a cancelled booking owes: part of one captured charge,  *)
(* frozen as a one-slice plan on a recovery row that is written with the   *)
(* cancellation, before anybody asks Stripe.  The cancellation request     *)
(* (the door) asks once; the recovery runner asks again until Stripe has   *)
(* made the refund or the attempts are spent; Stripe may refuse a refund   *)
(* at once, or accept it and fail it days later, and forgets its           *)
(* idempotency keys after a day.  A refund that fails after it counted is  *)
(* owed again: by the open row that counted it, or by a row of its own.    *)
(*                                                                         *)
(* No transaction spans a call to Stripe, and none of the writes of a      *)
(* recovery row takes a lock: each is an update fenced in its own WHERE.   *)
(* So the door, two runners, the webhooks and the read-back cron meet on   *)
(* the rows in any order, each with a plan it read some steps ago.         *)
(*                                                                         *)
(* Amounts are not kept: every refund of the debt is for the slice's whole *)
(* amount, so the books are counted in refunds.  Stripe's "pending" and    *)
(* "succeeded" are one status here, "live": both count                     *)
(* (isRecordedRefundStatus), and either may turn out to have failed.       *)
(***************************************************************************)
EXTENDS Naturals, FiniteSets

CONSTANTS
  Workers,      \* recovery runners at work at a time
  MaxRefunds,   \* bound: the refunds Stripe makes in one behaviour
  MaxAttempts,  \* MAX_PAYMENT_RECOVERY_ATTEMPTS
  Delays        \* what may come late: "key", a retry after Stripe forgot its key;
                \* "sync", the recording of a refund listed live that has failed since

ASSUME RefundAssumption ==
  /\ MaxRefunds \in Nat \ {0}
  /\ MaxAttempts \in Nat \ {0}
  /\ Delays \subseteq {"key", "sync"}

Refunds == 1 .. MaxRefunds   \* in the order Stripe made them
NoRefund == 0
Door == 0                    \* the row the cancellation wrote
\* Row f > 0 is the row card_refund_failed_later_<f>.
RowIds == {Door} \cup Refunds

VARIABLES
  \* Stripe
  made,        \* how many refunds it has made
  key,         \* key[r]: the idempotency key r was asked under
  answer,      \* answer[r]: the status in the answer to the asking call
  status,      \* status[r]: the status now
  age,         \* age[r]: whether its key is remembered, until it is "forgotten"
  \* the database
  ledger,      \* ledger[r]: the status of r's PaymentRefund row
  recorded,    \* recorded[r]: the place of that row in the order of createdAt, 0 without one
  rows,        \* the PaymentRecoveryOperation rows
  \* the servers
  door,        \* the cancellation request
  work,        \* work[w]: the attempt runner w is in
  charge       \* the list a charge.refunded webhook read and has yet to record

stripe == <<made, key, answer, status, age>>
books == <<ledger, recorded, rows>>
vars == <<made, key, answer, status, age, ledger, recorded, rows, door, work, charge>>

-----------------------------------------------------------------------------
\* Recovery rows.  nth orders them by createdAt; born and shut place createdAt
\* and succeededAt among Stripe's refunds.  started is processingStartedAt, 0
\* when null: a claim of such a row always counts an attempt and nothing takes
\* one back, so the number of the attempt stands for the moment of its claim.

NoRow == [status |-> "NONE", attempts |-> 0, started |-> 0, due |-> FALSE, suffix |-> 0,
          made |-> NoRefund, failed |-> {}, nth |-> 0, born |-> 0, shut |-> 0]

NewRow(nth, attempts) ==
  [NoRow EXCEPT !.status = "PENDING", !.due = TRUE, !.attempts = attempts, !.nth = nth, !.born = made]

Claimable == {"PENDING", "FAILED"}
Unfinished == Claimable \cup {"PROCESSING"}

IsOpen(row) == row.status \in Unfinished
IsUntouched(row) == row.status = "PENDING" /\ row.attempts = 0
IsDead(row) == row.status \in Claimable /\ row.attempts >= MaxAttempts
\* Deviation: a row on its last attempt is not handed back.
StaleWithAttempts(row) == row.status = "PROCESSING" /\ row.attempts < MaxAttempts

IsStale(row) == row.status = "PROCESSING"

\* Deviation: a row with its attempts spent is claimed again.
MayClaimSpent(row) == row.status \in Claimable /\ row.due

MayClaim(row) == row.status \in Claimable /\ row.attempts < MaxAttempts /\ row.due

\* The fences: an attempt closes its row only while it holds the claim, and
\* fails it only while the row still counts this attempt as the running one.
Holds(row, attempt) ==
  row.status = "PROCESSING" /\ row.attempts = attempt.attempts /\ row.started = attempt.started

\* Deviation: the failure is fenced on the attempt and not on the status.
MayFailClosed(row, attempt) == row.attempts = attempt.attempts

MayFail(row, attempt) ==
  row.status \in Unfinished /\ row.attempts = attempt.attempts /\ row.started # 0

Plan(row) == [suffix |-> row.suffix, made |-> row.made, failed |-> row.failed]
SentPlan == [suffix |-> 0, made |-> NoRefund, failed |-> {}]

\* Deviation: the door closes its row on whatever plan it has come to.
OpenOnAnyPlan(row) == IsOpen(row)

\* The row is open on the plan the door sent (closePrePersistedRefundRow).
OpenOnSentPlan(row) == IsOpen(row) /\ Plan(row) = SentPlan

Succeeded(row) == [row EXCEPT !.status = "SUCCEEDED", !.started = 0, !.shut = made]

\* markPaymentRecoveryOperationFailed: terminal once the attempts are spent.
GivenUp(row) == [row EXCEPT !.status = "FAILED", !.started = 0, !.due = FALSE]

-----------------------------------------------------------------------------
\* "Refunds owed": which recorded refund fills which row's slice.

Existing(rs) == {o \in RowIds : rs[o].status # "NONE"}

\* Marks first: a slice is filled by the refund it is marked with, if that one
\* still counts or was handed to a row of its own.
Marked(rs, led, handed) ==
  [o \in RowIds |->
     IF rs[o].made \in handed \/ (rs[o].made # NoRefund /\ led[rs[o].made] = "live")
     THEN rs[o].made ELSE NoRefund]

\* The rows whose slice is still free for r.
Takers(rs, fill, r) ==
  {o \in Existing(rs) :
     /\ rs[o].made = NoRefund /\ fill[o] = NoRefund
     /\ rs[o].born < r
     /\ rs[o].status = "SUCCEEDED" => r <= rs[o].shut}

\* The others one by one, in the order of createdAt: a refund that counts and
\* that no mark names fills the newest row that takes it.
Take(rs, led, fill, r) ==
  LET takers == Takers(rs, fill, r)
  IN IF led[r] # "live" \/ (\E o \in RowIds : rs[o].made = r) \/ takers = {} THEN fill
     ELSE [fill EXCEPT ![CHOOSE o \in takers : \A p \in takers : rs[p].nth <= rs[o].nth] = r]

Fills(rs, led, order, handed) ==
  LET fill[i \in 0 .. MaxRefunds] ==
        IF i = 0 THEN Marked(rs, led, handed)
        ELSE IF \E r \in Refunds : order[r] = i
          THEN Take(rs, led, fill[i - 1], CHOOSE r \in Refunds : order[r] = i)
        ELSE fill[i - 1]
  IN fill[MaxRefunds]

HandedOver(rs) == Existing(rs) \ {Door}

\* openCardRefundOwedByOperation: the rows that still owe the refund.
Owing == {o \in Existing(rows) :
            IsOpen(rows[o]) /\ Fills(rows, ledger, recorded, HandedOver(rows))[o] = NoRefund}

\* The row whose slice r filled as the payment stood before r failed; the fill
\* of a handed-over mark is not r's.
FilledBy(rs, led, order, r) ==
  LET before == [rs EXCEPT ![r] = NoRow]
      fill == Fills(before, [led EXCEPT ![r] = "live"], order, HandedOver(before))
  IN {o \in Existing(before) : fill[o] = r}

-----------------------------------------------------------------------------
\* The one writer of a charge's refund rows, in one transaction under the
\* Payment row lock: the refund rows of a listing first, then, for every refund
\* seen to fail after it counted, the row that owes it again.

SentByRow(o, r) == (o = Door) = (key[r].row = Door)   \* same runner metadata

\* Deviation: the open row counts the failed refund as made.
ReplannedAsMade(row, r) == [row EXCEPT !.suffix = @ + 1, !.failed = @ \cup {r}]

\* Deviation: the failed slice is asked for again under its old key.
ReplannedSameKey(row, r) == [row EXCEPT !.made = NoRefund, !.failed = @ \cup {r}]

Replanned(row, r) ==
  [row EXCEPT !.suffix = @ + 1, !.made = NoRefund, !.failed = @ \cup {r}]

Decide(led, order, acc, r) ==
  LET rs == acc.rows
      replayed == ledger[r] = "failed"   \* told live, and the row already says refused
      open == {o \in Existing(rs) : IsOpen(rs[o])}
      owed == rs[r].status # "NONE" \/ \E o \in open : r \in rs[o].failed
      marked == {o \in open : rs[o].made = r}
      owner == IF marked # {} THEN marked
               ELSE {o \in FilledBy(rs, led, order, r) \cap open : SentByRow(o, r)}
      attempts == IF key[r].row = Door THEN 0 ELSE MaxAttempts
  IN IF owed \/ acc.threw THEN acc
     ELSE IF owner = {}
       THEN [acc EXCEPT !.rows[r] = NewRow(Cardinality(Existing(rs)), attempts)]
     ELSE LET o == CHOOSE o \in owner : TRUE
              held == rs[o].status = "PROCESSING" \/ IsUntouched(rs[o])
          IN IF ~held THEN [acc EXCEPT !.rows[o] = Replanned(@, r)]
             ELSE IF replayed THEN [acc EXCEPT !.refused = @ \cup {r}]
             ELSE [acc EXCEPT !.threw = TRUE]

\* listing[r] is the status Stripe was read to give r, "none" when r is not listed.
Fresh(listing) == {r \in Refunds : listing[r] # "none" /\ ledger[r] = "none"}

Listed(listing) ==
  [r \in Refunds |->
     IF listing[r] = "none" \/ ledger[r] = "failed" THEN ledger[r] ELSE listing[r]]

Ordered(listing) ==
  [r \in Refunds |->
     IF r \in Fresh(listing)
     THEN Cardinality({q \in Refunds : recorded[q] # 0})
            + Cardinality({q \in Fresh(listing) : q <= r})
     ELSE recorded[r]]

\* Deviation: the failure of a refund that counted is recorded and no more.
FailedLaterUnseen(listing) == {r \in Refunds : ledger[r] = "failed" /\ listing[r] = "live"}

\* Seen to fail after it counted, or told live by a list older than its failure.
FailedLater(listing) ==
  {r \in Refunds : \/ ledger[r] = "live" /\ listing[r] = "failed"
                   \/ ledger[r] = "failed" /\ listing[r] = "live"}

Recording(listing) ==
  LET led == Listed(listing)
      order == Ordered(listing)
      decided[r \in 0 .. MaxRefunds] ==
        IF r = 0 THEN [rows |-> rows, refused |-> {}, threw |-> FALSE]
        ELSE IF r \in FailedLater(listing) THEN Decide(led, order, decided[r - 1], r)
        ELSE decided[r - 1]
      all == decided[MaxRefunds]
  IN [ledger |-> led, recorded |-> order, rows |-> all.rows,
      refused |-> all.refused, threw |-> all.threw]

Commit(recording) ==
  /\ ~recording.threw
  /\ ledger' = recording.ledger
  /\ recorded' = recording.recorded
  /\ rows' = recording.rows

\* A listing gives each refund its status, "none" when it is not listed.
Nothing == [r \in Refunds |-> "none"]
Only(r, s) == [Nothing EXCEPT ![r] = s]
=============================================================================
