----------------------------- MODULE CardRefund ------------------------------
(***************************************************************************)
(* The steps of the door, the recovery runners, Stripe and the readers of  *)
(* Stripe's news on the books of RefundBooks.  A step is one database      *)
(* statement or transaction, or one call to Stripe.                        *)
(***************************************************************************)
EXTENDS RefundBooks

Idle == [pc |-> "idle", row |-> Door, attempts |-> 0, started |-> 0, suffix |-> 0,
         made |-> NoRefund, failed |-> {}, listing |-> Nothing,
         refund |-> NoRefund]

Init ==
  /\ made = 0
  /\ key = [r \in Refunds |-> [row |-> Door, suffix |-> 0]]
  /\ answer = [r \in Refunds |-> "none"]
  /\ status = [r \in Refunds |-> "none"]
  /\ age = [r \in Refunds |-> "none"]
  /\ ledger = [r \in Refunds |-> "none"]
  /\ recorded = [r \in Refunds |-> 0]
  /\ rows = [o \in RowIds |-> IF o = Door THEN NewRow(0, 0) ELSE NoRow]
  /\ door = [pc |-> "asking", refund |-> NoRefund]
  /\ work = [w \in Workers |-> Idle]
  /\ charge = Nothing

-----------------------------------------------------------------------------
\* Stripe

\* A refund is asked for under a key: a remembered key is answered with the
\* first answer to it, a new or forgotten one makes a refund, or a refusal.
Remembers(q, k) == age[q] \in {"young", "old"} /\ key[q] = k

Asked(k, r) ==
  IF \E q \in Refunds : Remembers(q, k)
  THEN Remembers(r, k) /\ UNCHANGED stripe
  ELSE /\ r = made + 1
       /\ made' = r
       /\ key' = [key EXCEPT ![r] = k]
       /\ \E s \in {"live", "failed"} :
            /\ answer' = [answer EXCEPT ![r] = s]
            /\ status' = [status EXCEPT ![r] = s]
       /\ age' = [age EXCEPT ![r] = "young"]

\* A refund Stripe accepted fails after all: days later, and so, but for the
\* delay "sync", not in the moments in which a webhook is recording it as live.
FailLater(r) ==
  /\ status[r] = "live"
  /\ charge[r] = "none" \/ "sync" \in Delays
  /\ status' = [status EXCEPT ![r] = "failed"]
  /\ UNCHANGED <<made, key, answer, age, books, door, work, charge>>

\* A day after the asking call the key is forgotten.  No request and no attempt
\* of a runner lives nearly so long: in that day there is a moment at which
\* nothing asked for before it is still in flight.
Quiet == door.pc = "done" /\ (\A w \in Workers : work[w].pc = "idle") /\ charge = Nothing

Age(r) ==
  /\ age[r] = "young" /\ Quiet
  /\ age' = [age EXCEPT ![r] = "old"]
  /\ UNCHANGED <<made, key, answer, status, books, door, work, charge>>

Forget(r) ==
  /\ "key" \in Delays
  /\ age[r] = "old"
  /\ age' = [age EXCEPT ![r] = "forgotten"]
  /\ UNCHANGED <<made, key, answer, status, books, door, work, charge>>

-----------------------------------------------------------------------------
\* The door: the cancellation's own request (cancelBooking).

DoorAsks ==
  /\ door.pc = "asking"
  /\ \E r \in Refunds :
       /\ Asked([row |-> Door, suffix |-> 0], r)
       /\ door' = [pc |-> "answered", refund |-> r]
  /\ UNCHANGED <<books, work, charge>>

DoorRecords ==
  /\ door.pc = "answered"
  /\ LET r == door.refund
     IN \E recording \in {Recording(Only(r, answer[r]))} :
        /\ Commit(recording)
        /\ door' = [door EXCEPT !.pc =
                      IF answer[r] = "failed" \/ r \in recording.refused THEN "refused" ELSE "made"]
  /\ UNCHANGED <<stripe, work, charge>>

\* keepRefusedPrePersistedRefundOwed: only a row no runner has claimed moves.
DoorKeepsOwed ==
  /\ door.pc = "refused"
  /\ rows' = IF IsUntouched(rows[Door]) /\ Plan(rows[Door]) = SentPlan
             THEN [rows EXCEPT ![Door].suffix = @ + 1] ELSE rows
  /\ door' = [door EXCEPT !.pc = "done"]
  /\ UNCHANGED <<stripe, ledger, recorded, work, charge>>

\* closePrePersistedRefundRow: only a row still on the plan the door sent.
DoorCloses ==
  /\ door.pc = "made"
  /\ rows' = IF OpenOnSentPlan(rows[Door])
             THEN [rows EXCEPT ![Door] = Succeeded(@)] ELSE rows
  /\ door' = [door EXCEPT !.pc = "done"]
  /\ UNCHANGED <<stripe, ledger, recorded, work, charge>>

\* The call fails or its answer is lost, a write fails, or the server stops:
\* the request ends without another write to the row.
DoorEnds ==
  /\ door.pc # "done"
  /\ door' = [door EXCEPT !.pc = "done"]
  /\ UNCHANGED <<stripe, books, work, charge>>

-----------------------------------------------------------------------------
\* The recovery runner: one attempt on one row.

Moves(w, pc) == work' = [work EXCEPT ![w].pc = pc]
Stops(w) == work' = [work EXCEPT ![w] = Idle]

Claim(w, o) ==
  /\ work[w].pc = "idle"
  /\ MayClaim(rows[o])
  /\ rows' = [rows EXCEPT ![o] = [@ EXCEPT !.status = "PROCESSING",
                                          !.attempts = rows[o].attempts + 1,
                                          !.started = rows[o].attempts + 1]]
  /\ work' = [work EXCEPT ![w] = [@ EXCEPT !.pc = "claimed", !.row = o]]
  /\ UNCHANGED <<stripe, ledger, recorded, door, charge>>

\* The row is read in a statement of its own, whatever it has become.
ReadClaim(w) ==
  /\ work[w].pc = "claimed"
  /\ LET row == rows[work[w].row]
     IN work' = [work EXCEPT ![w] =
          [@ EXCEPT !.pc = IF row.made = NoRefund THEN "listing" ELSE "closing",
                    !.attempts = row.attempts, !.started = row.started,
                    !.suffix = row.suffix, !.made = row.made, !.failed = row.failed]]
  /\ UNCHANGED <<stripe, books, door, charge>>

\* checkCardRefundResend: Stripe's list, read outside every transaction ...
ListRefunds(w) ==
  /\ work[w].pc = "listing"
  /\ work' = [work EXCEPT ![w] = [@ EXCEPT !.pc = IF made = 0 THEN "asking" ELSE "recording",
                                          !.listing = status]]
  /\ UNCHANGED <<stripe, books, door, charge>>

\* Deviation: the listing is not searched for the slice's own refund.
NotSearched(attempt) == {r \in Refunds : attempt.listing[r] = "resent"}

OwnListed(attempt) ==
  {r \in Refunds : /\ attempt.listing[r] = "live"
                   /\ key[r] = [row |-> attempt.row, suffix |-> attempt.suffix]}

\* ... then recorded, and the slice's own refund looked for by its key.  A
\* recording that meets a held row throws.
RecordListing(w) ==
  /\ work[w].pc = "recording"
  /\ \E recording \in {Recording(work[w].listing)} :
     LET own == OwnListed(work[w]) \ recording.refused
     IN IF recording.threw THEN Moves(w, "failing") /\ UNCHANGED books
        ELSE /\ Commit(recording)
             /\ work' = [work EXCEPT ![w] =
                  [@ EXCEPT !.pc = IF own = {} THEN "asking" ELSE "marking",
                            !.listing = Nothing,
                            !.refund = IF own = {} THEN NoRefund
                                       ELSE CHOOSE r \in own : \A q \in own : q <= r]]
  /\ UNCHANGED <<stripe, door, charge>>

\* The mark is fenced on the claim and on the plan as read; a lost one sends nothing.
MarkListed(w) ==
  /\ work[w].pc = "marking"
  /\ LET row == rows[work[w].row]
         held == row.status = "PROCESSING" /\ row.started = work[w].started
                   /\ Plan(row) = Plan(work[w])
     IN IF held
        THEN /\ rows' = [rows EXCEPT ![work[w].row].made = work[w].refund]
             /\ work' = [work EXCEPT ![w] = [@ EXCEPT !.pc = "closing", !.made = work[w].refund]]
        ELSE Moves(w, "failing") /\ UNCHANGED rows
  /\ UNCHANGED <<stripe, ledger, recorded, door, charge>>

Ask(w) ==
  /\ work[w].pc = "asking"
  /\ \E r \in Refunds :
       /\ Asked([row |-> work[w].row, suffix |-> work[w].suffix], r)
       /\ work' = [work EXCEPT ![w] = [@ EXCEPT !.pc = "answered", !.refund = r]]
  /\ UNCHANGED <<books, door, charge>>

RecordAnswer(w) ==
  /\ work[w].pc = "answered"
  /\ LET r == work[w].refund
     IN \E recording \in {Recording(Only(r, answer[r]))} :
        /\ Commit(recording)
        /\ Moves(w, IF answer[r] = "failed" \/ r \in recording.refused THEN "refused"
                    ELSE IF work[w].failed # {} \/ work[w].row # Door THEN "made"
                    ELSE "closing")
  /\ UNCHANGED <<stripe, door, charge>>

\* moveRefusedSlices: the next key, on the attempt still held; then the attempt fails.
MoveRefused(w) ==
  /\ work[w].pc = "refused"
  /\ LET row == rows[work[w].row]
         held == row.status = "PROCESSING" /\ row.started = work[w].started
     IN rows' = IF held
                THEN [rows EXCEPT ![work[w].row] =
                        [@ EXCEPT !.suffix = work[w].suffix + 1, !.made = work[w].made,
                                  !.failed = work[w].failed]]
                ELSE rows
  /\ Moves(w, "failing")
  /\ UNCHANGED <<stripe, ledger, recorded, door, charge>>

\* markResentSlices: a slice that answers a failed refund is marked, on the
\* plan as read, whoever holds the row.
MarkResent(w) ==
  /\ work[w].pc = "made"
  /\ rows' = IF Plan(rows[work[w].row]) = Plan(work[w])
             THEN [rows EXCEPT ![work[w].row].made = work[w].refund] ELSE rows
  /\ Moves(w, "closing")
  /\ UNCHANGED <<stripe, ledger, recorded, door, charge>>

\* completePaymentRecoveryOperation: only the claim that is still held.
Complete(w) ==
  /\ work[w].pc = "closing"
  /\ rows' = IF Holds(rows[work[w].row], work[w])
             THEN [rows EXCEPT ![work[w].row] = Succeeded(@)] ELSE rows
  /\ Stops(w)
  /\ UNCHANGED <<stripe, ledger, recorded, door, charge>>

\* failPaymentRecoveryOperation: fenced on the attempt and on a live claim.
FailAttempt(w) ==
  /\ work[w].pc = "failing"
  /\ rows' = IF MayFail(rows[work[w].row], work[w])
             THEN [rows EXCEPT ![work[w].row] = GivenUp(@)] ELSE rows
  /\ Stops(w)
  /\ UNCHANGED <<stripe, ledger, recorded, door, charge>>

\* A call or a write of the attempt fails, or an answer is lost.
Throw(w) ==
  /\ work[w].pc \in {"listing", "recording", "marking", "asking", "answered", "refused", "made", "closing"}
  /\ Moves(w, "failing")
  /\ UNCHANGED <<stripe, books, door, charge>>

\* The server stops: the row stays PROCESSING.
Crash(w) ==
  /\ work[w].pc # "idle"
  /\ Stops(w)
  /\ UNCHANGED <<stripe, books, door, charge>>

\* The retry delay of five minutes and more passes.
ComeDue(o) ==
  /\ rows[o].status = "FAILED" /\ ~rows[o].due
  /\ Quiet
  /\ rows' = [rows EXCEPT ![o].due = TRUE]
  /\ UNCHANGED <<stripe, ledger, recorded, door, work, charge>>

\* resetStaleProcessingOperations: half an hour after the claim.
ResetStale(o) ==
  /\ IsStale(rows[o]) /\ Quiet
  /\ rows' = [rows EXCEPT ![o] = [GivenUp(@) EXCEPT !.due = TRUE]]
  /\ UNCHANGED <<stripe, ledger, recorded, door, work, charge>>

-----------------------------------------------------------------------------
\* Readers of Stripe's news.

\* refund.failed, or the cron's read-back of a refund recorded as pending.  A
\* failure that meets a held row is rolled back and comes again.
RecordFailure(r) ==
  /\ status[r] = "failed" /\ ledger[r] # "failed"
  /\ Commit(Recording(Only(r, "failed")))
  /\ UNCHANGED <<stripe, door, work, charge>>

\* charge.refunded: Stripe's list, read outside the transaction that records
\* it, which is rolled back when it meets a held row.
ListCharge ==
  /\ charge = Nothing /\ made > 0
  /\ charge' = status
  /\ UNCHANGED <<stripe, books, door, work>>

RecordCharge ==
  /\ charge # Nothing
  /\ Commit(Recording(charge)) \/ UNCHANGED books
  /\ charge' = Nothing
  /\ UNCHANGED <<stripe, door, work>>

-----------------------------------------------------------------------------
Runner(w) ==
  \/ \E o \in RowIds : Claim(w, o)
  \/ ReadClaim(w) \/ ListRefunds(w) \/ RecordListing(w) \/ MarkListed(w)
  \/ Ask(w) \/ RecordAnswer(w) \/ MoveRefused(w) \/ MarkResent(w)
  \/ Complete(w) \/ FailAttempt(w)

Progress ==
  \/ \E o \in RowIds : ResetStale(o) \/ ComeDue(o)
  \/ \E w \in Workers : Runner(w)
  \/ DoorAsks \/ DoorRecords \/ DoorKeepsOwed \/ DoorCloses
  \/ RecordCharge
  \/ \E r \in Refunds : RecordFailure(r)

Next ==
  \/ Progress
  \/ DoorEnds
  \/ \E w \in Workers : Throw(w) \/ Crash(w)
  \/ \E r \in Refunds : FailLater(r) \/ Age(r) \/ Forget(r)
  \/ ListCharge

Spec == Init /\ [][Next]_vars

-----------------------------------------------------------------------------
KeySuffixes == 0 .. 2 * MaxRefunds

RowType ==
  [status : {"NONE", "PENDING", "PROCESSING", "FAILED", "SUCCEEDED"},
   attempts : 0 .. MaxAttempts, started : 0 .. MaxAttempts, due : BOOLEAN,
   suffix : KeySuffixes, made : Refunds \cup {NoRefund}, failed : SUBSET Refunds,
   nth : 0 .. MaxRefunds, born : 0 .. MaxRefunds, shut : 0 .. MaxRefunds]

Listings == [Refunds -> {"none", "live", "failed"}]

\* Every variable holds a value the code could: in particular a row never counts
\* more attempts than it may have, and its key never moves on more often than
\* Stripe refused or failed a refund (nextRefusedRefundKeySuffix).
TypeOK ==
  /\ made \in 0 .. MaxRefunds
  /\ key \in [Refunds -> [row : RowIds, suffix : KeySuffixes]]
  /\ {answer, status, ledger, charge} \subseteq Listings
  /\ age \in [Refunds -> {"none", "young", "old", "forgotten"}]
  /\ recorded \in [Refunds -> 0 .. MaxRefunds]
  /\ rows \in [RowIds -> RowType]
  /\ door \in [pc : {"asking", "answered", "made", "refused", "done"}, refund : Refunds \cup {NoRefund}]
  /\ \A w \in Workers :
       /\ work[w].row \in RowIds
       /\ work[w].pc \in {"idle", "claimed", "listing", "recording", "marking", "asking",
                         "answered", "refused", "made", "closing", "failing"}

\* The member is paid once: however often the request, the runners and Stripe's
\* failures meet, two refunds of one debt never stand at Stripe together.
PaidOnce == Cardinality({r \in Refunds : status[r] = "live"}) <= 1

\* "One row owes it, never two" (card-refund-failed-later.ts): on the books the
\* debt is either counted as refunded or owed by one row, after every commit.
OwedOnce == Cardinality(Owing) + Cardinality({r \in Refunds : ledger[r] = "live"}) = 1

\* "A closed row is never reopened": not by the attempt, the reaper, the door or
\* the failure of the refund that closed it.
ClosedStaysClosed ==
  [][\A o \in RowIds : rows[o].status = "SUCCEEDED" => rows'[o].status = "SUCCEEDED"]_vars

\* However its attempts end, the debt does not rest: the door, a runner, the
\* reaper or a webhook still has a step to take, or it is refunded with nothing
\* left to send, or a row with its attempts spent tells the officers so.
Settled ==
  \/ \E o \in RowIds : IsDead(rows[o])
  \/ /\ \A o \in Existing(rows) : rows[o].status = "SUCCEEDED"
     /\ \E r \in Refunds : status[r] = "live"

OutOfRefunds == made = MaxRefunds /\ \E w \in Workers : work[w].pc = "asking"

RestsWhenSettled == Settled \/ OutOfRefunds \/ ENABLED Progress

\* The same in the words of the guards, at every moment: while the debt is not
\* settled, a row waits for a runner or the reaper, or Stripe has a failure to tell.
Awaited(row) ==
  MayClaim(row) \/ IsStale(row) \/ (row.status = "FAILED" /\ row.attempts < MaxAttempts)

DebtIsInHand ==
  \/ Settled
  \/ \E o \in RowIds : Awaited(rows[o])
  \/ \E r \in Refunds : status[r] = "failed" /\ ledger[r] # "failed"
=============================================================================
