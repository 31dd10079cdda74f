--------------------------- MODULE WaitlistConfirm ---------------------------
(***************************************************************************)
(* The request that confirms an offer: an unlocked read, then a chain of   *)
(* transactions, between any two of which anybody else may write, the      *)
(* transaction may fail, and the server may stop.                          *)
(***************************************************************************)
EXTENDS WaitlistState

(* Confirming an offer for the entry's own lodge: one request, several        *)
(* transactions.  pc names the transaction the request runs next.             *)

Offered(b) == status[b] = "WAITLIST_OFFERED"
LiveOffer(b) == Offered(b) /\ offer[b] = "live"

\* No row and no queue entry changes: the request only moves.
OnlyMoves == UNCHANGED <<rowVars, restVars>>

\* A request ends without having written anything.
Refused(r) == Finish(r) /\ OnlyMoves

\* The request puts its entry back on the waitlist and goes to pc.
RequeueAndGoto(r, pc) ==
  /\ Requeue({req[r].entry})
  /\ Goto(r, pc) /\ Touch({req[r].entry})
  /\ UNCHANGED restVars

RequeueAndFinish(r) ==
  /\ Requeue({req[r].entry})
  /\ FinishWriting(r, {req[r].entry})
  /\ UNCHANGED restVars

\* The first read takes no lock.  It chooses the path by the offered lodge,
\* and judges the stay by the policies of today only if it sees a live offer.
StartConfirm(r, b) ==
  /\ At(r, "idle") /\ status[b] # "ABSENT"
  /\ \E pc \in IF offerLodge[b] # NoLodge THEN {"xpolicy"}
                ELSE IF LiveOffer(b) THEN {"claim", "revert"} ELSE {"claim"} :
       req' = [req EXCEPT ![r] =
                 [Idle EXCEPT !.pc = pc, !.entry = b,
                    !.judged = IF pc # "xpolicy" /\ LiveOffer(b) THEN lodge[b] ELSE NoLodge]]
  /\ OnlyMoves /\ UNCHANGED stale

\* A policy refused the stay: whatever offer the row carries by now goes back.
RevertOwn(r) ==
  /\ At(r, "revert")
  /\ \/ Offered(req[r].entry) /\ RequeueAndFinish(r)
     \/ (~ Offered(req[r].entry) \/ "tx" \in Faults) /\ Refused(r)

\* What the claiming transaction needs before it looks at the beds.  An offer
\* the first read did not judge is refused with a retry.
Claimable(r) ==
  LET b == req[r].entry
  IN LiveOffer(b) /\ req[r].judged # NoLodge /\ offerLodge[b] = NoLodge

\* Refused with no write: not claimable, hosting not covered, or rolled back.
ClaimRefused(r) == At(r, "claim") /\ Refused(r)

ClaimNoRoom(r) ==
  /\ At(r, "claim") /\ Claimable(r)
  /\ ~ Fits(req[r].entry, lodge[req[r].entry])
  /\ RequeueAndFinish(r)

\* The offer is consumed.  A free stay still waits for a second transaction,
\* which never comes when the reply of this one is lost: the request answers an
\* error and is over.
ClaimTaken(r, s) ==
  /\ At(r, "claim") /\ Claimable(r)
  /\ s \in {"PENDING", "PAYMENT_PENDING"}
  /\ LET b == req[r].entry
     IN /\ Fits(b, lodge[b])
        /\ status' = [status EXCEPT ![b] = s]
        /\ offer' = [offer EXCEPT ![b] = "none"]
        /\ IF s = "PAYMENT_PENDING" /\ IsFree(b)
             THEN \/ Goto(r, "flip") /\ Touch({b}) /\ dropped' = dropped \ {b}
                  \/ "ack" \in Faults /\ FinishWriting(r, {b}) /\ dropped' = dropped \cup {b}
             ELSE FinishWriting(r, {b}) /\ dropped' = dropped \ {b}
  /\ UNCHANGED <<lodge, offerLodge, overridden>>
  /\ UNCHANGED <<refused, today, wakes, stranded, flagged, drifted>>

\* The route reads the claimed booking again, outside every transaction and
\* every handler: when that throws, the request is over.
ReadThrew(r) ==
  /\ At(r, "flip") /\ "read" \in Faults
  /\ dropped' = dropped \cup {req[r].entry}
  /\ Finish(r)
  /\ UNCHANGED <<rowVars, refused, today, wakes, stranded, flagged, drifted>>

\* The second transaction of a free stay: PAYMENT_PENDING to PAID.
FlipMoved(r) ==
  /\ At(r, "flip") /\ status[req[r].entry] # "PAYMENT_PENDING"
  /\ Refused(r)

FlipNoRoom(r) ==
  LET b == req[r].entry
  IN /\ At(r, "flip") /\ status[b] = "PAYMENT_PENDING"
     /\ ~ Fits(b, lodge[b])
     /\ \/ RequeueAndFinish(r)
        \/ "ack" \in Faults /\ RequeueAndGoto(r, "release")

\* With the reply lost, the request believes it failed.
FlipPaid(r) ==
  LET b == req[r].entry
  IN /\ At(r, "flip") /\ status[b] = "PAYMENT_PENDING"
     /\ Fits(b, lodge[b])
     /\ SetStatus(b, "PAID")
     /\ \/ FinishWriting(r, {b})
        \/ "ack" \in Faults /\ Goto(r, "release") /\ Touch({b})
     /\ UNCHANGED restVars

\* Deviation: the failure is answered and nothing compensates.
FlipGaveUp(r) == At(r, "flip") /\ "tx" \in Faults /\ Refused(r)

FlipThrew(r) ==
  /\ At(r, "flip") /\ "tx" \in Faults
  /\ Goto(r, "release")
  /\ OnlyMoves /\ UNCHANGED stale

\* Deviation: the row's status is not looked at again.
ReleaseAnyway(r) == At(r, "release") /\ RequeueAndFinish(r)

\* The compensation: back on the waitlist, if the row still waits for payment.
Release(r) ==
  /\ At(r, "release")
  /\ IF status[req[r].entry] = "PAYMENT_PENDING"
       THEN \/ RequeueAndFinish(r)
            \/ "ack" \in Faults /\ RequeueAndGoto(r, "report")
       ELSE Refused(r)

ReleaseThrew(r) ==
  /\ At(r, "release") /\ "tx" \in Faults
  /\ Goto(r, "report")
  /\ OnlyMoves /\ UNCHANGED stale

\* The compensation failed: an audit row asks an operator for the repair.
Report(r) ==
  /\ At(r, "report")
  /\ stranded' \in {stranded \cup {req[r].entry}}
                     \cup (IF "audit" \in Faults THEN {stranded} ELSE {})
  /\ Finish(r)
  /\ UNCHANGED <<rowVars, refused, today, wakes, flagged, drifted, dropped>>

-----------------------------------------------------------------------------
(* Confirming an offer for another lodge: validate, create a booking there,  *)
(* cancel the entry.                                                          *)

\* The second unlocked read judges the stay by the offered lodge's policies,
\* if it sees a live cross-lodge offer; otherwise the request goes on.
XPolicy(r) ==
  LET b == req[r].entry
  IN /\ At(r, "xpolicy")
     /\ IF LiveOffer(b) /\ offerLodge[b] # NoLodge
          THEN \E pc \in {"xvalidate", "xrevert"} :
                 req' = [req EXCEPT ![r].pc = pc, ![r].judged = offerLodge[b]]
          ELSE Goto(r, "xvalidate")
     /\ OnlyMoves /\ UNCHANGED stale

\* A policy refused the stay: the row is read again, and any offer goes back.
XRevert(r) ==
  /\ At(r, "xrevert")
  /\ \/ Offered(req[r].entry) /\ RequeueAndFinish(r)
     \/ (~ Offered(req[r].entry) \/ "tx" \in Faults) /\ Refused(r)

Confirmable(b) == LiveOffer(b) /\ offerLodge[b] # NoLodge

\* Refused with no write: no live cross-lodge offer, a duplicate stay, or
\* rolled back.
XRefused(r) ==
  LET b == req[r].entry
  IN /\ At(r, "xvalidate")
     /\ ~ Confirmable(b) \/ DuplicateStay(b, offerLodge[b]) \/ "tx" \in Faults
     /\ Refused(r)

\* Back on the waitlist: not eligible there any more, no room, or no price.
XReturned(r) ==
  LET b == req[r].entry
  IN /\ At(r, "xvalidate") /\ Confirmable(b)
     /\ \E eligible, priced \in BOOLEAN :
          \/ ~ eligible
          \/ ~ DuplicateStay(b, offerLodge[b]) /\ (~ Fits(b, offerLodge[b]) \/ ~ priced)
     /\ RequeueAndFinish(r)

\* The price moved: the new one is stored and the member asked again.
XRepriced(r) ==
  LET b == req[r].entry
  IN /\ At(r, "xvalidate") /\ Confirmable(b)
     /\ ~ DuplicateStay(b, offerLodge[b]) /\ Fits(b, offerLodge[b])
     /\ FinishWriting(r, {b})
     /\ OnlyMoves

\* The request captures the row, to compare it before it writes it again.
XValidated(r) ==
  LET b == req[r].entry
  IN /\ At(r, "xvalidate") /\ Confirmable(b)
     /\ ~ DuplicateStay(b, offerLodge[b]) /\ Fits(b, offerLodge[b])
     /\ req' = [req EXCEPT ![r].pc = "xcreate", ![r].to = offerLodge[b]]
     /\ stale' = stale \ {r}
     /\ OnlyMoves

\* Deviation: the row is written again without a comparison.
FreshAssumed(r) == req[r].entry \in Entries

\* The row of r is as r captured it.
Fresh(r) == r \notin stale

\* Deviation: the guard of the validation is taken to be enough.
SingleOnce(r) == TRUE

\* The second duplicate-stay guard, under the locks of the creation.
StillSingle(r) == ~ DuplicateStay(req[r].entry, req[r].to)

\* Refused: a duplicate stay, a guest who sleeps elsewhere that night, hosting
\* not covered, or rolled back.
XCreateRefused(r) == At(r, "xcreate") /\ Refused(r)

XCreateFull(r) ==
  LET b == req[r].entry
  IN /\ At(r, "xcreate")
     /\ StillSingle(r) /\ ~ Fits(b, req[r].to)
     /\ Goto(r, "xfull")
     /\ OnlyMoves /\ UNCHANGED stale

\* The booking at the offered lodge is created; a free one is PAID at once.
\* Its price may turn out not to be the one the member accepted.  When the
\* reply is lost the request answers an error and is over.
XCreated(r, c, s) ==
  LET b    == req[r].entry
      made == IF s = "PAYMENT_PENDING" /\ IsFree(b) THEN "PAID" ELSE s
  IN /\ At(r, "xcreate")
     /\ CopyOf[c] = b /\ status[c] = "ABSENT"
     /\ s \in {"PENDING", "PAYMENT_PENDING", "AWAITING_REVIEW"}
     /\ StillSingle(r) /\ Fits(c, req[r].to)
     /\ status' = [status EXCEPT ![c] = made]
     /\ lodge' = [lodge EXCEPT ![c] = req[r].to]
     /\ \/ /\ \E pc \in {"xcleanup", "xunwind"} :
                /\ req' = [req EXCEPT ![r].pc = pc, ![r].repl = c, ![r].made = made]
                /\ drifted' = IF pc = "xunwind" THEN drifted \cup {c} ELSE drifted
           /\ UNCHANGED <<stale, dropped>>
        \/ /\ "ack" \in Faults
           /\ Finish(r)
           /\ dropped' = dropped \cup {c}
           /\ UNCHANGED drifted
     /\ UNCHANGED <<offer, offerLodge, overridden>>
     /\ UNCHANGED <<refused, today, wakes, stranded, flagged>>

\* No room: the captured offer goes back, unless the row changed since.
XFull(r) ==
  /\ At(r, "xfull")
  /\ \/ Fresh(r) /\ RequeueAndFinish(r)
     \/ (~ Fresh(r) \/ "tx" \in Faults) /\ Refused(r)

\* The price moved: the replacement is cancelled and the new price stored on
\* the offer.  A replacement somebody moved on, or a rollback, leaves both.
XUnwind(r) ==
  LET b == req[r].entry
      c == req[r].repl
  IN /\ At(r, "xunwind")
     /\ \/ /\ status[c] = req[r].made
           /\ SetStatus(c, "CANCELLED")
           /\ FinishWriting(r, IF Fresh(r) THEN {b} ELSE {})
           /\ UNCHANGED restVars
        \/ /\ status[c] # req[r].made \/ "tx" \in Faults
           /\ Refused(r)

\* Deviation: the lost cleanup is only logged.
FlagNothing(b) == UNCHANGED flagged

Flag(b) ==
  flagged' \in {flagged \cup {b}}
               \cup (IF "audit" \in Faults THEN {flagged} ELSE {})

\* The entry is cancelled, if its row is as captured; otherwise, or when the
\* reply is lost, the audit row asks for a review.
XCleanup(r) ==
  LET b == req[r].entry
  IN /\ At(r, "xcleanup")
     /\ \/ /\ Fresh(r)
           /\ status' = [status EXCEPT ![b] = "CANCELLED"]
           /\ offer' = [offer EXCEPT ![b] = "none"]
           /\ offerLodge' = [offerLodge EXCEPT ![b] = NoLodge]
           /\ FinishWriting(r, {b})
           /\ UNCHANGED flagged \/ ("ack" \in Faults /\ Flag(b))
           /\ UNCHANGED <<lodge, overridden>>
        \/ /\ ~ Fresh(r) \/ "tx" \in Faults
           /\ Flag(b)
           /\ Finish(r)
           /\ UNCHANGED rowVars
     /\ UNCHANGED <<refused, today, wakes, stranded, drifted, dropped>>

\* The server stops: the request is gone and nothing resumes it.
Crash(r) ==
  /\ "crash" \in Faults
  /\ ~ At(r, "idle")
  /\ Refused(r)
=============================================================================
