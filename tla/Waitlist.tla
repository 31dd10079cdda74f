------------------------------- MODULE Waitlist -------------------------------
(***************************************************************************)
(* The lodge waitlist: rows join the queue when a lodge is full, freed     *)
(* nights turn the first entry that fits into an offer, a member confirms  *)
(* the offer in several separate transactions, offers lapse and go back to *)
(* the queue, and administrators force or repair entries.                  *)
(***************************************************************************)
EXTENDS WaitlistQueue, WaitlistConfirm

OwnStep(r) ==
  \/ RevertOwn(r)
  \/ ClaimRefused(r) \/ ClaimNoRoom(r)
  \/ \E s \in {"PENDING", "PAYMENT_PENDING"} : ClaimTaken(r, s)
  \/ ReadThrew(r)
  \/ FlipMoved(r) \/ FlipNoRoom(r) \/ FlipPaid(r) \/ FlipThrew(r)
  \/ Release(r) \/ ReleaseThrew(r)
  \/ Report(r)

CrossStep(r) ==
  \/ XPolicy(r) \/ XRevert(r)
  \/ XRefused(r) \/ XReturned(r) \/ XRepriced(r) \/ XValidated(r)
  \/ XCreateRefused(r) \/ XCreateFull(r)
  \/ \E c \in Copies, s \in {"PENDING", "PAYMENT_PENDING", "AWAITING_REVIEW"} :
       XCreated(r, c, s)
  \/ XFull(r) \/ XUnwind(r) \/ XCleanup(r)

MemberStep ==
  \/ \E b \in Entries : RefuseForCapacity(b) \/ JoinWaitlist(b)
  \/ \E b \in Entries, s \in CreateAs : CreateBooking(b, s)
  \/ \E x \in Rows : SettlePayment(x) \/ CancelUnpaid(x) \/ CancelPlaced(x)
  \/ \E r \in Requests, b \in Entries : StartConfirm(r, b)

QueueStep ==
  \/ \E l \in Lodges, x \in Rows : ProcessWaitlist(l, x) \/ LoseWake(l, x)
  \/ ExpireStaleOffers
  \/ \E b \in Entries : Lapse(b) \/ CancelPast(b)
  \/ NextDay

AdminStep ==
  \/ \E b \in Entries, s \in CreateAs : CreateOverCeiling(b, s)
  \/ \E b \in Entries, overbook, underReview \in BOOLEAN :
       ForceConfirm(b, overbook, underReview)
  \/ \E b \in Entries : ReturnToWaitlist(b)

Next ==
  \/ MemberStep
  \/ QueueStep
  \/ AdminStep
  \/ \E r \in Requests : OwnStep(r) \/ CrossStep(r) \/ Crash(r)

Spec == Init /\ [][Next]_vars

\* The cron runs again and again, and a request that does not crash runs to
\* its answer.
Fairness ==
  /\ WF_vars(ExpireStaleOffers)
  /\ \A r \in Requests : WF_vars(OwnStep(r) \/ CrossStep(r))

LiveSpec == Spec /\ Fairness

-----------------------------------------------------------------------------
(* What the waitlist promises *)

\* The beds of row x, as the ledger counts them.
Claim(x) ==
  IF HoldsCapacity(status[x])
    THEN {t \in Lodges \X Nights \X Guests : t[1] = lodge[x] /\ t[3] \in PartyOn(x, t[2])}
    ELSE {}

Ledger == INSTANCE BedLedger WITH claims <- [x \in Rows |-> Claim(x)]

\* Whatever is in flight, beds are taken only when they fit, or under a
\* recorded override, and given back only whole: every step of every door is a
\* step of the bed ledger.
LedgerSpec == Ledger!Spec

\* The bookings without an administrator's override never exceed the beds of
\* a lodge on any night.
WithinCeiling == Ledger!WithinCeiling

\* An entry that waits carries nothing of an earlier offer: whichever of the
\* seven ways brought it back to the queue, its offer and its offered lodge are
\* cleared, and an offered entry always has a deadline.
WaitingEntryIsClean ==
  \A b \in Entries :
    /\ status[b] = "WAITLISTED" => offer[b] = "none" /\ offerLodge[b] = NoLodge
    /\ Offered(b) => offer[b] # "none"

\* No late step of a confirm, a compensation, a cron or a repair revives a
\* cancelled booking or moves a paid one anywhere but to cancelled.
SettledStaysSettled ==
  [][\A x \in Rows :
       /\ status[x] = "CANCELLED" => status'[x] = "CANCELLED"
       /\ status[x] = "PAID" => status'[x] \in {"PAID", "CANCELLED"}]_vars

\* However many confirms of an entry run at once, or run again after one
\* failed half way, the member never has two bookings of the same stay at the
\* offered lodge.
OneReplacement ==
  \A c, d \in Copies :
    c # d /\ CopyOf[c] = CopyOf[d] /\ lodge[c] = lodge[d] =>
      ~ (status[c] \in DuplicateStayStatuses /\ status[d] \in DuplicateStayStatuses)

\* While no server stops, a replacement at the accepted price and its waitlist
\* entry are both alive only while a confirm is still at work on them, or with
\* an audit row that asks for a review, or because the confirm never learnt that
\* its creation was committed.
BothAliveIsFlagged ==
  \A c \in Copies \ (drifted \cup dropped) :
    LET b == CopyOf[c]
    IN status[c] \in DuplicateStayStatuses /\ status[b] # "CANCELLED" =>
         b \in flagged
           \/ \E r \in Requests : req[r].repl = c /\ req[r].pc = "xcleanup"

\* A cross-lodge confirm, once it has created or failed to create the
\* replacement, writes its entry only while the row still carries the offer the
\* member accepted: a newer offer, a withdrawn or a forced entry is left alone.
RepairsOnlyItsOffer ==
  [][\A r \in Requests :
       LET b == req[r].entry
       IN req[r].pc \in {"xfull", "xunwind", "xcleanup"} /\ req'[r].pc = "idle"
            /\ status'[b] # status[b]
          => Offered(b) /\ offerLodge[b] = req[r].to]_vars

\* Once the route has read the claimed booking, a free stay is never silently
\* stuck: a request is still settling it, or an audit row reports it.  What comes
\* before that read, a claim whose reply is lost or the read itself throwing, is
\* the one way to lose a stay without a server that stops or an audit row that
\* cannot be written, and the model keeps its stays in dropped.
StrandIsReported ==
  \A b \in Entries :
    status[b] = "PAYMENT_PENDING" /\ IsFree(b) =>
      b \in stranded \cup dropped
        \/ \E r \in Requests : req[r].entry = b /\ req[r].pc \in {"flip", "release", "report"}

\* The repair of a stranded stay never hits one that a live confirm is about to
\* settle: a report is spent by the repair it allowed.
RepairSparesLiveConfirm ==
  [][\A r \in Requests :
       LET b == req[r].entry
       IN At(r, "flip") /\ req' = req /\ status[b] = "PAYMENT_PENDING" =>
            status'[b] # "WAITLISTED"]_vars

\* The cron takes every offer that lapsed back, whatever lodge it is for.
LapsedOfferIsWithdrawn ==
  \A b \in Entries :
    (Offered(b) /\ offer[b] = "lapsed") ~> ~ (Offered(b) /\ offer[b] = "lapsed")

\* A free stay whose offer was consumed gets an answer: it is paid, back in
\* the queue, cancelled, or reported, unless the request ended before the route
\* had read the booking it claimed.
FreeClaimIsAnswered ==
  \A b \in Entries :
    (status[b] = "PAYMENT_PENDING" /\ IsFree(b)) ~>
      (status[b] # "PAYMENT_PENDING" \/ b \in stranded \cup dropped)

-----------------------------------------------------------------------------
(* What a document, a message or a comment of the code says, and the code    *)
(* does not do                                                                *)

\* The offer email: an offer not confirmed in time "will be offered to the next
\* person in line", so the entry that let it lapse is not offered the spot again
\* while somebody else who fits is waiting for those nights.
SpotPassesOn ==
  [][\A l \in Lodges, b \in Entries :
       <<l, b>> \in wakes \ wakes' /\ status[b] = "WAITLISTED" /\ Offered(b)'
         => ~ \E c \in Entries \ {b} :
                /\ status[c] = "WAITLISTED" /\ Overlaps(c, Stay[b])
                /\ Fits(c, lodge[c])]_vars

\* waitlist.ts: "both paths re-check the CURRENT minimum-stay policy set before
\* the offer is turned into held capacity".
Creates(r) == At(r, "xcreate") /\ req'[r].pc \in {"xcleanup", "xunwind"}

CreatesOnlyJudged ==
  [][\A r \in Requests : Creates(r) => req[r].judged = req[r].to]_vars
=============================================================================
