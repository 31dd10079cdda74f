---------------------------- MODULE WaitlistQueue ----------------------------
(***************************************************************************)
(* The transactions that finish in one step: creating, joining, paying and *)
(* cancelling a row, turning freed nights into an offer, taking lapsed     *)
(* offers back, and the administrator's doors.                             *)
(***************************************************************************)
EXTENDS WaitlistState

(* Creating rows *)

\* Rows are created in the order of their createdAt.
NextToCreate(b) == \A e \in Entries : e < b => status[e] # "ABSENT"

\* The member's booking does not fit: refused, with the waitlist on offer.
RefuseForCapacity(b) ==
  /\ status[b] = "ABSENT"
  /\ ~ Fits(b, Home[b])
  /\ refused' = refused \cup {b}
  /\ UNCHANGED <<rowVars, reqVars, today, wakes, auditVars>>

\* A fitting booking is created; one that is free and payable is settled by
\* the same transaction.
CreateBooking(b, s) ==
  /\ status[b] = "ABSENT" /\ NextToCreate(b)
  /\ Fits(b, Home[b])
  /\ status' = [status EXCEPT ![b] = IF s = "PAYMENT_PENDING" /\ IsFree(b) THEN "PAID" ELSE s]
  /\ lodge' = [lodge EXCEPT ![b] = Home[b]]
  /\ refused' = refused \ {b}
  /\ UNCHANGED <<offer, offerLodge, overridden, today, wakes, auditVars, reqVars>>

\* An administrator who books for a member is warned that the stay does not fit
\* and confirms: the booking is created with the override recorded.
CreateOverCeiling(b, s) ==
  /\ status[b] = "ABSENT" /\ NextToCreate(b)
  /\ ~ Fits(b, Home[b])
  /\ status' = [status EXCEPT ![b] = IF s = "PAYMENT_PENDING" /\ IsFree(b) THEN "PAID" ELSE s]
  /\ lodge' = [lodge EXCEPT ![b] = Home[b]]
  /\ overridden' = overridden \cup {b}
  /\ refused' = refused \ {b}
  /\ UNCHANGED <<offer, offerLodge, today, wakes, auditVars, reqVars>>

\* After the refusal, a second transaction puts the booking on the waitlist.
\* It does not look at capacity again.
JoinWaitlist(b) ==
  /\ b \in refused
  /\ status[b] = "ABSENT" /\ NextToCreate(b)
  /\ status' = [status EXCEPT ![b] = "WAITLISTED"]
  /\ lodge' = [lodge EXCEPT ![b] = Home[b]]
  /\ refused' = refused \ {b}
  /\ UNCHANGED <<offer, offerLodge, overridden, today, wakes, auditVars, reqVars>>

-----------------------------------------------------------------------------
(* Paying and cancelling *)

\* Deviation: the capture trusts the check made when the booking was created.
SettlesUnchecked(x) == TRUE

\* The beds of x are still there, or an administrator overrode the ceiling.
StillSettles(x) == Fits(x, lodge[x]) \/ x \in overridden

\* A captured payment takes the beds if they are still there, or under an
\* override; otherwise the booking is voided and refunded.
SettlePayment(x) ==
  /\ status[x] \in PayableStatuses
  /\ ~ IsFree(x)
  /\ SetStatus(x, IF StillSettles(x) THEN "PAID" ELSE "CANCELLED")
  /\ Touch({x})
  /\ UNCHANGED <<restVars, req>>

\* The no-payment branch of the cancel: every offer field is cleared, and the
\* queue is woken only for an entry that had an offer.
CancelUnpaid(x) ==
  /\ status[x] \in NoPaymentCancellableStatuses
  /\ status' = [status EXCEPT ![x] = "CANCELLED"]
  /\ offer' = [offer EXCEPT ![x] = "none"]
  /\ offerLodge' = [offerLodge EXCEPT ![x] = NoLodge]
  /\ IF status[x] = "WAITLIST_OFFERED" THEN Wake(lodge[x], x) ELSE UNCHANGED wakes
  /\ Touch({x})
  /\ UNCHANGED <<lodge, overridden, refused, today, auditVars, req>>

\* The pending and the paid branches: the offer fields are not looked at and
\* the queue is woken.
CancelPlaced(x) ==
  /\ status[x] \in {"PENDING", "PAYMENT_PENDING", "CONFIRMED", "PAID"}
  /\ SetStatus(x, "CANCELLED")
  /\ Wake(lodge[x], x)
  /\ Touch({x})
  /\ UNCHANGED <<refused, today, auditVars, req>>

-----------------------------------------------------------------------------
(* The queue *)

Candidates(nights) ==
  {e \in Entries : status[e] = "WAITLISTED" /\ Overlaps(e, nights)}

\* The offers that freed nights at lodge l may become: each candidate at its
\* own lodge, and candidates of other lodges that would accept l.
Opportunities(l, nights) ==
  {[entry |-> e, lodge |-> Home[e], cross |-> FALSE] : e \in Candidates(nights)}
  \cup
  {[entry |-> e, lodge |-> l, cross |-> TRUE] :
     e \in {c \in Candidates(nights) : Home[c] # l /\ l \in Alternates[c]}}

\* The club's order: own-lodge members first, or one merged queue.
Before(o, p) ==
  IF CrossOrder = "MERGED"
    THEN o.entry < p.entry \/ (o.entry = p.entry /\ ~ o.cross /\ p.cross)
    ELSE (~ o.cross /\ p.cross) \/ (o.cross = p.cross /\ o.entry < p.entry)

First(opps) == {o \in opps : \A p \in opps \ {o} : Before(o, p)}

\* The first opportunity that fits becomes an offer.  A cross-lodge one must
\* also be open to the member and have a price there.
MakeOffer(o) ==
  /\ status' = [status EXCEPT ![o.entry] = "WAITLIST_OFFERED"]
  /\ offer' = [offer EXCEPT ![o.entry] = "live"]
  /\ offerLodge' = [offerLodge EXCEPT ![o.entry] = IF o.cross THEN o.lodge ELSE NoLodge]
  /\ Touch({o.entry})
  /\ UNCHANGED <<lodge, overridden>>

ProcessWaitlist(l, x) ==
  /\ <<l, x>> \in wakes
  /\ wakes' = wakes \ {<<l, x>>}
  /\ LET opps == Opportunities(l, StayOf(x))
     IN \E quotable \in SUBSET {o \in opps : o.cross} :
          LET offerable == {o \in opps : Fits(o.entry, o.lodge) /\ (o.cross => o \in quotable)}
          IN IF offerable = {}
               THEN UNCHANGED <<rowVars, stale>>
               ELSE \E o \in First(offerable) : MakeOffer(o)
  /\ UNCHANGED <<refused, today, auditVars, req>>

\* The call is made after its caller's commit, if the caller learns of it, and
\* nothing retries it.
LoseWake(l, x) ==
  /\ Faults \cap {"crash", "tx", "ack"} # {}
  /\ <<l, x>> \in wakes
  /\ wakes' = wakes \ {<<l, x>>}
  /\ UNCHANGED <<rowVars, reqVars, refused, today, auditVars>>

\* Forty-eight hours pass without an answer.
Lapse(b) ==
  /\ offer[b] = "live"
  /\ offer' = [offer EXCEPT ![b] = "lapsed"]
  /\ UNCHANGED <<status, lodge, offerLodge, overridden, restVars, reqVars>>

\* Deviation: own-lodge offers wake no lodge.
FreedOfferedLodge(b) == offerLodge[b]

\* Deviation: an offer for another lodge is left alone.
LapsedOwnLodge ==
  {b \in Entries : status[b] = "WAITLIST_OFFERED" /\ offer[b] = "lapsed" /\ offerLodge[b] = NoLodge}

\* The lodge whose bed an offer of b was for.
FreedLodge(b) == IF offerLodge[b] = NoLodge THEN lodge[b] ELSE offerLodge[b]

Lapsed == {b \in Entries : status[b] = "WAITLIST_OFFERED" /\ offer[b] = "lapsed"}

\* The cron takes every lapsed offer back in one transaction and wakes the
\* queue for the nights of each.
ExpireStaleOffers ==
  /\ Lapsed # {}
  /\ Requeue(Lapsed)
  /\ wakes' = wakes \cup {<<FreedLodge(b), b>> : b \in Lapsed}
  /\ Touch(Lapsed)
  /\ UNCHANGED <<refused, today, auditVars, req>>

\* The same cron cancels entries whose stay is over; the offered lodge and
\* price stay on the row.
CancelPast(b) ==
  /\ status[b] \in {"WAITLISTED", "WAITLIST_OFFERED"}
  /\ StayIsOver(b)
  /\ status' = [status EXCEPT ![b] = "CANCELLED"]
  /\ offer' = [offer EXCEPT ![b] = "none"]
  /\ Touch({b})
  /\ UNCHANGED <<lodge, offerLodge, overridden, restVars, req>>

NextDay ==
  /\ today < LastDay
  /\ today' = today + 1
  /\ UNCHANGED <<rowVars, reqVars, refused, wakes, auditVars>>

-----------------------------------------------------------------------------
(* The administrator's doors *)

\* Deviation: the override is not recorded.
RecordNothing(b) == UNCHANGED overridden

RecordOverride(b) ==
  overridden' = IF Fits(b, lodge[b]) THEN overridden ELSE overridden \cup {b}

\* Force-confirm: over the ceiling only with overbook allowed, and then the
\* override is recorded on the row.  The offered lodge and price stay.
ForceConfirm(b, overbook, underReview) ==
  /\ status[b] \in {"WAITLISTED", "WAITLIST_OFFERED"}
  /\ Fits(b, lodge[b]) \/ overbook
  /\ status' = [status EXCEPT ![b] = CASE underReview -> "AWAITING_REVIEW"
                                       [] ~ underReview /\ IsFree(b) -> "PAID"
                                       [] OTHER -> "PAYMENT_PENDING"]
  /\ offer' = [offer EXCEPT ![b] = "none"]
  /\ RecordOverride(b)
  /\ Touch({b})
  /\ UNCHANGED <<lodge, offerLodge, restVars, req>>

\* Deviation: the report stays open after the repair it allowed.
KeepReport(b) == UNCHANGED stranded

SpendReport(b) == stranded' = stranded \ {b}

\* Return to waitlist: a free booking still waiting for payment, with an
\* unresolved report that its offer could not be released.
ReturnToWaitlist(b) ==
  /\ status[b] = "PAYMENT_PENDING" /\ IsFree(b)
  /\ b \in stranded
  /\ Requeue({b})
  /\ SpendReport(b)
  /\ Wake(lodge[b], b)
  /\ Touch({b})
  /\ UNCHANGED <<refused, today, flagged, drifted, dropped, req>>
=============================================================================
