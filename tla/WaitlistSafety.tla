---------------------------- MODULE WaitlistSafety ----------------------------
(***************************************************************************)
(* The safety properties of the waitlist, for any rows, lodges, nights,    *)
(* guests and requests.  A step of the next-state relation is looked at    *)
(* once for each of four questions: does a captured row stay captured      *)
(* (CaptureStep), what may it do to the requests (RequestsStep), to any    *)
(* row (RowsStep), to a stay that a request settles and to the audit rows  *)
(* (AnswersStep).  Every theorem follows from these four answers without   *)
(* looking at an action again.  Faults are limited only where a theorem    *)
(* says so.                                                                *)
(***************************************************************************)
EXTENDS WaitlistProofs

XPcs == {"xcreate", "xfull", "xunwind", "xcleanup"}
WorkPcs == {"flip", "release", "report"}
Works(q) == q.pc \in WorkPcs

\* A request whose row was not written since it captured it still sees the
\* offer it accepted.
Captured ==
  \A r \in Requests : req[r].pc \in XPcs /\ r \notin stale =>
    Offered(req[r].entry) /\ offerLodge[req[r].entry] = req[r].to

-----------------------------------------------------------------------------
(* The captured row *)

LEMMA CapturedKept ==
  ASSUME IInv, Captured, NEW B,
         \A x \in Rows \ B : status'[x] = status[x] /\ offerLodge'[x] = offerLodge[x],
         \A r \in Requests : req'[r].pc \in XPcs /\ r \notin stale' =>
           /\ req[r].pc \in XPcs /\ r \notin stale /\ req[r].entry \notin B
           /\ req'[r].entry = req[r].entry /\ req'[r].to = req[r].to
  PROVE  Captured'
<1> SUFFICES ASSUME NEW r \in Requests, req'[r].pc \in XPcs, r \notin stale'
             PROVE  status'[req'[r].entry] = "WAITLIST_OFFERED"
                    /\ offerLodge'[req'[r].entry] = req'[r].to
  BY DEF Captured, Offered
<1>1. req[r].entry \in Rows \ B
  BY RowSets DEF IInv, ReqInv, RequestsOK, RequestOK, XPcs
<1>2. QED
  BY <1>1 DEF Captured, Offered

\* A write outside the requests makes those that captured its rows stale.
LEMMA TouchKeepsCaptured ==
  ASSUME IInv, Captured, NEW B, Touch(B), req' = req,
         \A x \in Rows \ B : status'[x] = status[x] /\ offerLodge'[x] = offerLodge[x]
  PROVE  Captured'
<1>1. \A r \in Requests : req'[r].pc \in XPcs /\ r \notin stale' =>
           /\ req[r].pc \in XPcs /\ r \notin stale /\ req[r].entry \notin B
           /\ req'[r].entry = req[r].entry /\ req'[r].to = req[r].to
  BY DEF Touch, Watching, XPcs
<1>2. QED
  BY <1>1, CapturedKept

\* A request that answers, and one that goes on outside the captured steps.
LEMMA FinishKeepsCaptured ==
  ASSUME IInv, Captured, NEW r \in Requests, NEW B, FinishWriting(r, B),
         \A x \in Rows \ B : status'[x] = status[x] /\ offerLodge'[x] = offerLodge[x]
  PROVE  Captured'
<1>1. \A s \in Requests : req'[s].pc \in XPcs /\ s \notin stale' =>
           /\ req[s].pc \in XPcs /\ s \notin stale /\ req[s].entry \notin B
           /\ req'[s].entry = req[s].entry /\ req'[s].to = req[s].to
  BY DEF FinishWriting, Watching, XPcs, Idle, IInv, ReqInv, ReqTypes
<1>2. QED
  BY <1>1, CapturedKept

LEMMA GoKeepsCaptured ==
  ASSUME IInv, Captured, NEW r \in Requests, NEW pc \in Pcs, Goto(r, pc), NEW B,
         Touch(B) \/ (UNCHANGED stale /\ B = {}),
         pc \in XPcs => req[r].pc \in XPcs,
         \A x \in Rows \ B : status'[x] = status[x] /\ offerLodge'[x] = offerLodge[x]
  PROVE  Captured'
<1>1. \A s \in Requests : req'[s].pc \in XPcs /\ s \notin stale' =>
           /\ req[s].pc \in XPcs /\ s \notin stale /\ req[s].entry \notin B
           /\ req'[s].entry = req[s].entry /\ req'[s].to = req[s].to
  BY DEF Goto, Touch, Watching, XPcs, IInv, ReqInv, ReqTypes, Request
<1>2. QED
  BY <1>1, CapturedKept

LEMMA RefusedKeepsCaptured ==
  ASSUME IInv, Captured, NEW r \in Requests, Refused(r)
  PROVE  Captured'
  BY FinishKeepsCaptured DEF Refused, Finish, OnlyMoves, rowVars

LEMMA RequeueKeepsCaptured ==
  ASSUME IInv, Captured, NEW r \in Requests, RequeueAndFinish(r)
  PROVE  Captured'
  BY FinishKeepsCaptured DEF RequeueAndFinish, Requeue

LEMMA RequeueAndGotoKeepsCaptured ==
  ASSUME IInv, Captured, NEW r \in Requests, NEW pc \in WorkPcs, RequeueAndGoto(r, pc)
  PROVE  Captured'
<1>1. pc \in Pcs /\ pc \notin XPcs
  BY DEF Pcs, XPcs, WorkPcs
<1>2. QED
  BY <1>1, GoKeepsCaptured DEF RequeueAndGoto, Requeue

LEMMA CaptureMember ==
  ASSUME IInv, Captured, MemberStep \/ AdminStep
  PROVE  Captured'
<1> USE RowSets DEF IInv, RowInv, RowTypes
<1>1. ASSUME NEW b \in Entries, RefuseForCapacity(b) PROVE Captured'
  BY <1>1 DEF RefuseForCapacity, Captured, Offered, rowVars, reqVars
<1>2. ASSUME NEW b \in Entries, NEW s,
             JoinWaitlist(b) \/ CreateBooking(b, s) \/ CreateOverCeiling(b, s)
      PROVE  Captured'
  <2>1. /\ \A x \in Rows \ {b} : status'[x] = status[x] /\ offerLodge'[x] = offerLodge[x]
        /\ status[b] = "ABSENT" /\ UNCHANGED <<req, stale>>
    BY <1>2 DEF JoinWaitlist, CreateBooking, CreateOverCeiling, reqVars
  <2>2. \A r \in Requests : req'[r].pc \in XPcs /\ r \notin stale' =>
          /\ req[r].pc \in XPcs /\ r \notin stale /\ req[r].entry \notin {b}
          /\ req'[r].entry = req[r].entry /\ req'[r].to = req[r].to
    BY <2>1 DEF Captured, Offered
  <2>3. QED
    BY <2>1, <2>2, CapturedKept
<1>3. ASSUME NEW x \in Rows, SettlePayment(x) \/ CancelPlaced(x) PROVE Captured'
  BY <1>3, TouchKeepsCaptured DEF SettlePayment, CancelPlaced, SetStatus
<1>4. ASSUME NEW x \in Rows, CancelUnpaid(x) PROVE Captured'
  BY <1>4, TouchKeepsCaptured DEF CancelUnpaid
<1>5. ASSUME NEW r \in Requests, NEW b \in Entries, StartConfirm(r, b) PROVE Captured'
  <2> DEFINE q(pc) == [Idle EXCEPT !.pc = pc, !.entry = b,
                         !.judged = IF pc # "xpolicy" /\ LiveOffer(b) THEN lodge[b] ELSE NoLodge]
  <2>1. PICK pc \in {"xpolicy", "claim", "revert"} : req' = [req EXCEPT ![r] = q(pc)]
    BY <1>5 DEF StartConfirm
  <2>2. q(pc).pc = pc
    BY DEF Idle
  <2> HIDE DEF q
  <2>3. QED
    BY <1>5, <2>1, <2>2 DEF StartConfirm, OnlyMoves, rowVars, Captured, Offered, XPcs, ReqInv,
        ReqTypes
<1>6. ASSUME NEW b \in Entries, NEW o, NEW u, ForceConfirm(b, o, u) PROVE Captured'
  BY <1>6, TouchKeepsCaptured DEF ForceConfirm
<1>7. ASSUME NEW b \in Entries, ReturnToWaitlist(b) PROVE Captured'
  BY <1>7, TouchKeepsCaptured DEF ReturnToWaitlist, Requeue
<1>8. QED
  BY <1>1, <1>2, <1>3, <1>4, <1>5, <1>6, <1>7 DEF MemberStep, AdminStep

LEMMA CaptureQueue ==
  ASSUME IInv, Captured, QueueStep
  PROVE  Captured'
<1> USE RowSets DEF IInv, RowInv, RowTypes
<1>1. ASSUME NEW l \in Lodges, NEW x \in Rows, ProcessWaitlist(l, x) PROVE Captured'
  <2>1. CASE UNCHANGED <<rowVars, stale>>
    BY <1>1, <2>1 DEF ProcessWaitlist, Captured, Offered, rowVars
  <2>2. ASSUME NEW o, MakeOffer(o) PROVE Captured'
    BY <1>1, <2>2, TouchKeepsCaptured DEF ProcessWaitlist, MakeOffer
  <2>3. QED
    BY <1>1, <2>1, <2>2 DEF ProcessWaitlist
<1>2. ASSUME NEW l \in Lodges, NEW x \in Rows, LoseWake(l, x) PROVE Captured'
  BY <1>2 DEF LoseWake, Captured, Offered, rowVars, reqVars
<1>3. CASE ExpireStaleOffers
  BY <1>3, TouchKeepsCaptured DEF ExpireStaleOffers, Requeue
<1>4. ASSUME NEW b \in Entries, Lapse(b) PROVE Captured'
  BY <1>4 DEF Lapse, Captured, Offered, reqVars
<1>5. ASSUME NEW b \in Entries, CancelPast(b) PROVE Captured'
  BY <1>5, TouchKeepsCaptured DEF CancelPast
<1>6. CASE NextDay
  BY <1>6 DEF NextDay, Captured, Offered, rowVars, reqVars
<1>7. QED
  BY <1>1, <1>2, <1>3, <1>4, <1>5, <1>6 DEF QueueStep

LEMMA CaptureOwn ==
  ASSUME IInv, Captured, NEW r \in Requests, OwnStep(r)
  PROVE  Captured'
<1> USE RowSets, RefusedKeepsCaptured, RequeueKeepsCaptured, RequeueAndGotoKeepsCaptured DEF At
<1>1. CASE RevertOwn(r) \/ ClaimRefused(r) \/ ClaimNoRoom(r) \/ FlipMoved(r) \/ FlipNoRoom(r)
  BY <1>1 DEF RevertOwn, ClaimRefused, ClaimNoRoom, FlipMoved, FlipNoRoom, WorkPcs
<1>2. ASSUME NEW s, ClaimTaken(r, s) PROVE Captured'
  <2>1. \A x \in Rows \ {req[r].entry} : status'[x] = status[x] /\ offerLodge'[x] = offerLodge[x]
    BY <1>2 DEF ClaimTaken, IInv, RowInv, RowTypes
  <2>2. "flip" \in Pcs /\ "flip" \notin XPcs
    BY DEF Pcs, XPcs
  <2>3. QED
    BY <1>2, <2>1, <2>2, FinishKeepsCaptured, GoKeepsCaptured DEF ClaimTaken
<1>3. CASE FlipPaid(r)
  <2>1. \A x \in Rows \ {req[r].entry} : status'[x] = status[x] /\ offerLodge'[x] = offerLodge[x]
    BY <1>3 DEF FlipPaid, SetStatus, IInv, RowInv, RowTypes
  <2>2. "release" \in Pcs /\ "release" \notin XPcs
    BY DEF Pcs, XPcs
  <2>3. QED
    BY <1>3, <2>1, <2>2, FinishKeepsCaptured, GoKeepsCaptured DEF FlipPaid
<1>4. CASE FlipThrew(r) \/ ReleaseThrew(r)
  BY <1>4, GoKeepsCaptured DEF FlipThrew, ReleaseThrew, OnlyMoves, rowVars, Pcs, XPcs
<1>5. CASE Release(r)
  BY <1>5 DEF Release, WorkPcs
<1>6. CASE Report(r) \/ ReadThrew(r)
  BY <1>6, FinishKeepsCaptured DEF Report, ReadThrew, Finish, rowVars
<1>7. QED
  BY <1>1, <1>2, <1>3, <1>4, <1>5, <1>6 DEF OwnStep

LEMMA CaptureCross ==
  ASSUME IInv, Captured, NEW r \in Requests, CrossStep(r) \/ Crash(r)
  PROVE  Captured'
<1> USE RowSets, RefusedKeepsCaptured, RequeueKeepsCaptured DEF At
<1>1. CASE XRevert(r) \/ XRefused(r) \/ XReturned(r) \/ XCreateRefused(r) \/ XFull(r) \/ Crash(r)
  BY <1>1 DEF XRevert, XRefused, XReturned, XCreateRefused, XFull, Crash
<1>2. CASE XPolicy(r)
  <2>1. PICK q : q.pc \in {"xvalidate", "xrevert"} /\ req' = [req EXCEPT ![r] = q]
    BY <1>2 DEF XPolicy, Goto, IInv, ReqInv, ReqTypes, Request
  <2>2. QED
    BY <1>2, <2>1
    DEF XPolicy, OnlyMoves, rowVars, Captured, Offered, XPcs, IInv, ReqInv, ReqTypes
<1>3. CASE XRepriced(r)
  BY <1>3, FinishKeepsCaptured DEF XRepriced, OnlyMoves, rowVars
<1>4. CASE XValidated(r)
  BY <1>4
  DEF XValidated, Confirmable, LiveOffer, OnlyMoves, rowVars, Captured, Offered, XPcs, IInv,
      ReqInv, ReqTypes, Request
<1>5. CASE XCreateFull(r)
  BY <1>5, GoKeepsCaptured DEF XCreateFull, OnlyMoves, rowVars, Pcs, XPcs
<1>6. ASSUME NEW c \in Copies, NEW s, XCreated(r, c, s) PROVE Captured'
  <2>1. \A x \in Rows \ {c} : status'[x] = status[x] /\ offerLodge'[x] = offerLodge[x]
    BY <1>6 DEF XCreated, IInv, RowInv, RowTypes
  <2>2. \A q \in Requests : req[q].pc \in XPcs => req[q].entry # c
    BY WaitlistAssumption DEF IInv, ReqInv, RequestsOK, RequestOK, XPcs
  <2>3. ASSUME NEW pc \in XPcs, NEW made, UNCHANGED stale,
               req' = [req EXCEPT ![r].pc = pc, ![r].repl = c, ![r].made = made]
        PROVE  Captured'
    <3>1. \A q \in Requests : /\ req'[q].pc \in XPcs => req[q].pc \in XPcs
                              /\ req'[q].entry = req[q].entry /\ req'[q].to = req[q].to
      BY <1>6, <2>3 DEF XCreated, XPcs, IInv, ReqInv, ReqTypes, Request
    <3>2. \A q \in Requests : req'[q].pc \in XPcs /\ q \notin stale' =>
            /\ req[q].pc \in XPcs /\ q \notin stale /\ req[q].entry \notin {c}
            /\ req'[q].entry = req[q].entry /\ req'[q].to = req[q].to
      BY <2>2, <2>3, <3>1
    <3>3. QED
      BY <2>1, <3>2, CapturedKept
  <2>4. CASE Finish(r)
    <3>1. \A q \in Requests : req'[q].pc \in XPcs /\ q \notin stale' =>
            /\ req[q].pc \in XPcs /\ q \notin stale /\ req[q].entry \notin {c}
            /\ req'[q].entry = req[q].entry /\ req'[q].to = req[q].to
      BY <2>2, <2>4 DEF Finish, FinishWriting, Watching, Idle, XPcs, IInv, ReqInv, ReqTypes
    <3>2. QED
      BY <2>1, <3>1, CapturedKept
  <2>5. QED
    BY <1>6, <2>3, <2>4 DEF XCreated, XPcs
<1>7. CASE XUnwind(r)
  <2> DEFINE B == IF Fresh(r) THEN {req[r].entry} ELSE {}
  <2>1. CASE SetStatus(req[r].repl, "CANCELLED") /\ FinishWriting(r, B)
    <3>1. \A x \in Rows \ {req[r].repl} : status'[x] = status[x] /\ offerLodge'[x] = offerLodge[x]
      BY <2>1 DEF SetStatus, IInv, RowInv, RowTypes
    <3>2. \A q \in Requests : req'[q].pc \in XPcs /\ q \notin stale' =>
             /\ req[q].pc \in XPcs /\ q \notin stale
             /\ req'[q].entry = req[q].entry /\ req'[q].to = req[q].to
      BY <2>1 DEF FinishWriting, XPcs, Idle, IInv, ReqInv, ReqTypes
    <3>3. \A q \in Requests : req[q].pc \in XPcs => req[q].entry # req[r].repl
      BY <1>7, WaitlistAssumption DEF XUnwind, IInv, ReqInv, RequestsOK, RequestOK, XPcs
    <3>4. \A q \in Requests : req'[q].pc \in XPcs /\ q \notin stale' =>
             /\ req[q].pc \in XPcs /\ q \notin stale /\ req[q].entry \notin {req[r].repl}
             /\ req'[q].entry = req[q].entry /\ req'[q].to = req[q].to
      BY <3>2, <3>3
    <3>5. QED
      BY <3>1, <3>4, CapturedKept
  <2>2. QED
    BY <1>7, <2>1 DEF XUnwind
<1>8. CASE XCleanup(r)
  <2>1. CASE UNCHANGED rowVars /\ Finish(r)
    BY <2>1, FinishKeepsCaptured DEF Finish, rowVars
  <2>2. CASE /\ status' = [status EXCEPT ![req[r].entry] = "CANCELLED"]
             /\ offerLodge' = [offerLodge EXCEPT ![req[r].entry] = NoLodge]
             /\ FinishWriting(r, {req[r].entry})
    BY <2>2, FinishKeepsCaptured DEF IInv, RowInv, RowTypes
  <2>3. QED
    BY <1>8, <2>1, <2>2 DEF XCleanup
<1>9. QED
  BY <1>1, <1>2, <1>3, <1>4, <1>5, <1>6, <1>7, <1>8 DEF CrossStep

LEMMA CaptureStep == IInv /\ Captured /\ [Next]_vars => Captured'
<1>1. ASSUME Captured, UNCHANGED vars PROVE Captured'
  BY <1>1 DEF vars, rowVars, reqVars, Captured, Offered
<1>2. QED
  BY <1>1, CaptureMember, CaptureQueue, CaptureOwn, CaptureCross DEF Next

-----------------------------------------------------------------------------
(* What a step does to the requests *)

\* A request that has created a replacement made it from its entry, alive.
Created ==
  \A r \in Requests : req[r].pc \in {"xunwind", "xcleanup"} =>
    CopyOf[req[r].repl] = req[r].entry /\ req[r].made \in ActiveStatuses

\* Request r creates the replacement c, and no other row appears or changes
\* among the replacements: it goes on from there, or it is over and the
\* creation dropped ...
Creating(r, c) ==
  /\ req[r].pc = "xcreate" /\ CopyOf[c] = req[r].entry /\ StillSingle(r)
  /\ lodge'[c] = req[r].to /\ status[c] = "ABSENT" /\ status'[c] # "ABSENT"
  /\ \A d \in Copies \ {c} : status'[d] = status[d]
  /\ \/ /\ req'[r].pc \in {"xcleanup", "xunwind"} /\ req'[r].repl = c
        /\ req'[r].entry = req[r].entry /\ req'[r].made \in ActiveStatuses
        /\ c \in drifted' \/ req'[r].pc = "xcleanup"
     \/ req'[r].pc = "idle" /\ c \in dropped'

\* ... consumes the offer of a free stay ...
Claims(r) ==
  /\ ~ Works(req[r]) /\ Works(req'[r]) /\ req'[r].entry = req[r].entry
  /\ req[r].entry \in Entries /\ IsFree(req[r].entry) /\ Offered(req[r].entry)
  /\ status'[req[r].entry] = "PAYMENT_PENDING"

\* ... goes on settling it, ends, or is at some other step.
GoesOn(r) == Works(req[r]) /\ Works(req'[r]) /\ req'[r].entry = req[r].entry
Elsewhere(r) == ~ Works(req'[r]) /\ req'[r].pc \notin {"xunwind", "xcleanup"}

RequestsMove ==
  \E r : /\ \A s \in Requests \ {r} : req'[s] = req[s]
         /\ r \in Requests =>
              \/ req'[r] = req[r] \/ Claims(r) \/ GoesOn(r) \/ Elsewhere(r)
              \/ \E c \in Copies : Creating(r, c)

LEMMA StayMove == ASSUME req' = req PROVE RequestsMove
  BY DEF RequestsMove

LEMMA FinishMove ==
  ASSUME IInv, NEW r \in Requests, NEW B, FinishWriting(r, B)
  PROVE  RequestsMove
  BY DEF FinishWriting, RequestsMove, Elsewhere, Works, WorkPcs, Idle, IInv, ReqInv, ReqTypes

LEMMA GotoMove ==
  ASSUME IInv, NEW r \in Requests, NEW pc, Goto(r, pc),
         pc \in WorkPcs => req[r].pc \in WorkPcs, pc \notin {"xunwind", "xcleanup"}
  PROVE  RequestsMove
<1>1. \A s \in Requests \ {r} : req'[s] = req[s]
  BY DEF Goto, IInv, ReqInv, ReqTypes
<1>2. req'[r].pc = pc /\ req'[r].entry = req[r].entry
  BY DEF Goto, IInv, ReqInv, ReqTypes, Request
<1>3. QED
  BY <1>1, <1>2 DEF RequestsMove, GoesOn, Elsewhere, Works

LEMMA OwnMove ==
  ASSUME IInv, NEW r \in Requests, OwnStep(r)
  PROVE  RequestsMove
<1> USE FinishMove, GotoMove DEF At, Refused, Finish, RequeueAndFinish, RequeueAndGoto
<1>1. CASE RevertOwn(r) \/ ClaimRefused(r) \/ ClaimNoRoom(r) \/ FlipMoved(r) \/ FlipNoRoom(r)
  BY <1>1 DEF RevertOwn, ClaimRefused, ClaimNoRoom, FlipMoved, FlipNoRoom, WorkPcs
<1>2. ASSUME NEW s \in {"PENDING", "PAYMENT_PENDING"}, ClaimTaken(r, s) PROVE RequestsMove
  <2>1. CASE FinishWriting(r, {req[r].entry})
    BY <2>1
  <2>2. CASE Goto(r, "flip") /\ s = "PAYMENT_PENDING" /\ IsFree(req[r].entry)
    <3>1. req[r].entry \in Entries /\ req[r].entry \in Rows
      BY <1>2, EntryOfRequest DEF ClaimTaken
    <3>2. Offered(req[r].entry) /\ status'[req[r].entry] = "PAYMENT_PENDING"
      BY <1>2, <2>2, <3>1 DEF ClaimTaken, Claimable, LiveOffer, IInv, RowInv, RowTypes
    <3>3. /\ req'[r].pc = "flip" /\ req'[r].entry = req[r].entry /\ req[r].pc = "claim"
          /\ \A q \in Requests \ {r} : req'[q] = req[q]
      BY <1>2, <2>2 DEF ClaimTaken, Goto, IInv, ReqInv, ReqTypes, Request
    <3>4. Claims(r)
      BY <2>2, <3>1, <3>2, <3>3 DEF Claims, Works, WorkPcs
    <3>5. QED
      BY <3>3, <3>4 DEF RequestsMove
  <2>3. QED
    BY <1>2, <2>1, <2>2 DEF ClaimTaken
<1>3. CASE FlipPaid(r)
  BY <1>3 DEF FlipPaid, WorkPcs
<1>4. CASE FlipThrew(r) \/ ReleaseThrew(r)
  BY <1>4 DEF FlipThrew, ReleaseThrew, WorkPcs
<1>5. CASE Release(r)
  BY <1>5 DEF Release, WorkPcs
<1>6. CASE Report(r) \/ ReadThrew(r)
  BY <1>6 DEF Report, ReadThrew
<1>7. QED
  BY <1>1, <1>2, <1>3, <1>4, <1>5, <1>6 DEF OwnStep

\* What a creation does to its request and to the replacements.
LEMMA XCreatedCreates ==
  ASSUME IInv, NEW r \in Requests, NEW c \in Copies,
         NEW s \in {"PENDING", "PAYMENT_PENDING", "AWAITING_REVIEW"}, XCreated(r, c, s)
  PROVE  /\ Creating(r, c)
         /\ \A q \in Requests \ {r} : req'[q] = req[q]
         /\ status'[c] \in ActiveStatuses
         /\ \A x \in Rows \ {c} : status'[x] = status[x] /\ lodge'[x] = lodge[x]
<1>1. PICK made \in ActiveStatuses :
        /\ status' = [status EXCEPT ![c] = made]
        /\ \/ \E pc \in {"xcleanup", "xunwind"} :
                /\ req' = [req EXCEPT ![r].pc = pc, ![r].repl = c, ![r].made = made]
                /\ drifted' = IF pc = "xunwind" THEN drifted \cup {c} ELSE drifted
           \/ Finish(r) /\ dropped' = dropped \cup {c}
  BY DEF XCreated, ActiveStatuses
<1>2. /\ status'[c] = made /\ lodge'[c] = req[r].to
      /\ \A x \in Rows \ {c} : status'[x] = status[x] /\ lodge'[x] = lodge[x]
  BY <1>1, RowSets DEF XCreated, IInv, RowInv, RowTypes
<1>3. made # "ABSENT" /\ \A d \in Copies \ {c} : status'[d] = status[d]
  BY <1>2, RowSets DEF ActiveStatuses
<1>4. CASE Finish(r) /\ dropped' = dropped \cup {c}
  <2>1. req'[r].pc = "idle" /\ \A q \in Requests \ {r} : req'[q] = req[q]
    BY <1>4 DEF Finish, FinishWriting, Idle, IInv, ReqInv, ReqTypes
  <2>2. QED
    BY <1>2, <1>3, <1>4, <2>1 DEF Creating, XCreated, At
<1>5. ASSUME NEW pc \in {"xcleanup", "xunwind"},
             req' = [req EXCEPT ![r].pc = pc, ![r].repl = c, ![r].made = made],
             drifted' = IF pc = "xunwind" THEN drifted \cup {c} ELSE drifted
      PROVE  Creating(r, c) /\ \A q \in Requests \ {r} : req'[q] = req[q]
  <2>1. /\ req'[r].pc = pc /\ req'[r].repl = c /\ req'[r].entry = req[r].entry
        /\ req'[r].made = made /\ \A q \in Requests \ {r} : req'[q] = req[q]
    BY <1>5 DEF IInv, ReqInv, ReqTypes, Request
  <2>2. QED
    BY <1>2, <1>3, <1>5, <2>1 DEF Creating, XCreated, At
<1>6. QED
  BY <1>1, <1>2, <1>4, <1>5

LEMMA CrossMove ==
  ASSUME IInv, NEW r \in Requests, CrossStep(r) \/ Crash(r)
  PROVE  RequestsMove
<1> USE FinishMove, GotoMove DEF At, Refused, Finish, RequeueAndFinish
<1>1. CASE \/ XRevert(r) \/ XRefused(r) \/ XReturned(r) \/ XRepriced(r) \/ XCreateRefused(r)
           \/ XFull(r) \/ XUnwind(r) \/ XCleanup(r) \/ Crash(r)
  BY <1>1
  DEF XRevert, XRefused, XReturned, XRepriced, XCreateRefused, XFull, XUnwind, XCleanup, Crash
<1>2. CASE XPolicy(r) \/ XValidated(r) \/ XCreateFull(r)
  <2>1. PICK pc \in {"xvalidate", "xrevert", "xcreate", "xfull"} : req'[r].pc = pc
    BY <1>2 DEF XPolicy, XValidated, XCreateFull, Goto, IInv, ReqInv, ReqTypes, Request
  <2>2. \A s \in Requests \ {r} : req'[s] = req[s]
    BY <1>2 DEF XPolicy, XValidated, XCreateFull, Goto, IInv, ReqInv, ReqTypes
  <2>3. QED
    BY <2>1, <2>2 DEF RequestsMove, Elsewhere, Works, WorkPcs
<1>3. ASSUME NEW c \in Copies, NEW s \in {"PENDING", "PAYMENT_PENDING", "AWAITING_REVIEW"},
             XCreated(r, c, s)
      PROVE  RequestsMove
  BY <1>3, XCreatedCreates DEF RequestsMove
<1>4. QED
  BY <1>1, <1>2, <1>3 DEF CrossStep

LEMMA RequestsStep == IInv /\ [Next]_vars => RequestsMove
<1> SUFFICES ASSUME IInv, [Next]_vars PROVE RequestsMove
  OBVIOUS
<1>1. ASSUME NEW r \in Requests, NEW b \in Entries, StartConfirm(r, b) PROVE RequestsMove
  <2> DEFINE q(pc) == [Idle EXCEPT !.pc = pc, !.entry = b,
                         !.judged = IF pc # "xpolicy" /\ LiveOffer(b) THEN lodge[b] ELSE NoLodge]
  <2>1. PICK pc \in {"xpolicy", "claim", "revert"} : req' = [req EXCEPT ![r] = q(pc)]
    BY <1>1 DEF StartConfirm
  <2>2. q(pc).pc = pc
    BY DEF Idle
  <2> HIDE DEF q
  <2>3. QED
    BY <2>1, <2>2 DEF RequestsMove, Elsewhere, Works, WorkPcs, IInv, ReqInv, ReqTypes
<1>2. CASE MemberStep
  BY <1>1, <1>2, StayMove
  DEF MemberStep, RefuseForCapacity, JoinWaitlist, CreateBooking, SettlePayment, CancelUnpaid,
      CancelPlaced, reqVars
<1>3. CASE QueueStep
  BY <1>3, StayMove
  DEF QueueStep, ProcessWaitlist, LoseWake, ExpireStaleOffers, Lapse, CancelPast, NextDay, reqVars
<1>4. CASE AdminStep
  BY <1>4, StayMove DEF AdminStep, CreateOverCeiling, ForceConfirm, ReturnToWaitlist, reqVars
<1>5. CASE UNCHANGED vars
  BY <1>5, StayMove DEF vars, reqVars
<1>6. QED
  BY <1>2, <1>3, <1>4, <1>5, OwnMove, CrossMove DEF Next

LEMMA CreatedStep == IInv /\ Created /\ [Next]_vars => Created'
<1> SUFFICES ASSUME IInv, Created, RequestsMove PROVE Created'
  BY RequestsStep
<1>1. PICK r : /\ \A s \in Requests \ {r} : req'[s] = req[s]
               /\ r \in Requests =>
                    \/ req'[r] = req[r] \/ Claims(r) \/ GoesOn(r) \/ Elsewhere(r)
                    \/ \E c \in Copies : Creating(r, c)
  BY DEF RequestsMove
<1>2. QED
  BY <1>1 DEF Created, Claims, GoesOn, Elsewhere, Creating, Works, WorkPcs

-----------------------------------------------------------------------------
(* What a step does to a row *)

Rests(x) ==
  /\ status'[x] = status[x] /\ lodge'[x] = lodge[x] /\ offerLodge'[x] = offerLodge[x]
  /\ offer'[x] = offer[x] \/ (offer[x] = "live" /\ offer'[x] = "lapsed")

Appears(x) ==
  /\ x \in Entries /\ status[x] = "ABSENT"
  /\ status'[x] \in ActiveStatuses \cup {"WAITLISTED"}
  /\ offer'[x] = offer[x] /\ offerLodge'[x] = offerLodge[x]

Returns(x) ==
  /\ x \in Entries /\ status[x] \in {"WAITLIST_OFFERED", "PAYMENT_PENDING"}
  /\ status'[x] = "WAITLISTED" /\ offer'[x] = "none" /\ offerLodge'[x] = NoLodge
  /\ lodge'[x] = lodge[x]

GetsOffer(x) ==
  /\ x \in Entries /\ status[x] = "WAITLISTED"
  /\ status'[x] = "WAITLIST_OFFERED" /\ offer'[x] = "live"
  /\ lodge'[x] = lodge[x]

Places(x) ==
  /\ \/ /\ x \in Entries /\ status[x] \in {"WAITLISTED", "WAITLIST_OFFERED"}
        /\ status'[x] \in ActiveStatuses
     \/ status[x] \in PayableStatuses /\ status'[x] = "PAID"
  /\ lodge'[x] = lodge[x]

Cancels(x) ==
  /\ status[x] \notin {"ABSENT", "CANCELLED"} /\ status'[x] = "CANCELLED"
  /\ lodge'[x] = lodge[x]

Replaces(x) ==
  /\ x \in Copies /\ status[x] = "ABSENT" /\ status'[x] \in ActiveStatuses
  /\ \E r \in Requests : Creating(r, x)

Moves(x) ==
  \/ Rests(x) \/ Appears(x) \/ Returns(x) \/ GetsOffer(x)
  \/ Places(x) \/ Cancels(x) \/ Replaces(x)

RowsMove == \A x \in Rows : Moves(x)

LEMMA RequeueMoves ==
  ASSUME RowTypes, NEW B \in SUBSET Entries, Requeue(B),
         \A x \in B : status[x] \in {"WAITLIST_OFFERED", "PAYMENT_PENDING"}
  PROVE  RowsMove
  BY RowSets DEF RowTypes, Requeue, RowsMove, Moves, Rests, Returns

LEMMA CancelMoves ==
  ASSUME RowTypes, NEW x \in Rows, SetStatus(x, "CANCELLED"),
         status[x] \notin {"ABSENT", "CANCELLED"}
  PROVE  RowsMove
  BY DEF RowTypes, SetStatus, RowsMove, Moves, Rests, Cancels

LEMMA SameMoves ==
  ASSUME RowTypes, UNCHANGED rowVars
  PROVE  RowsMove
  BY DEF rowVars, RowsMove, Moves, Rests

LEMMA RowsMember ==
  ASSUME IInv, MemberStep \/ AdminStep
  PROVE  RowsMove
<1> USE RowSets, SameMoves, RequeueMoves, CancelMoves DEF IInv, RowInv
<1>1. ASSUME NEW b \in Entries, RefuseForCapacity(b) PROVE RowsMove
  BY <1>1 DEF RefuseForCapacity
<1>2. ASSUME NEW b \in Entries, JoinWaitlist(b) PROVE RowsMove
  BY <1>2 DEF JoinWaitlist, RowTypes, RowsMove, Moves, Rests, Appears
<1>3. ASSUME NEW b \in Entries, NEW s \in CreateAs, CreateBooking(b, s) \/ CreateOverCeiling(b, s)
      PROVE  RowsMove
  BY <1>3, WaitlistAssumption
  DEF CreateBooking, CreateOverCeiling, RowTypes, RowsMove, Moves, Rests, Appears, ActiveStatuses
<1>4. ASSUME NEW x \in Rows, SettlePayment(x) PROVE RowsMove
  BY <1>4
  DEF SettlePayment, SetStatus, PayableStatuses, RowTypes, RowsMove, Moves, Rests, Places, Cancels
<1>5. ASSUME NEW x \in Rows, CancelPlaced(x) PROVE RowsMove
  BY <1>5 DEF CancelPlaced
<1>6. ASSUME NEW x \in Rows, CancelUnpaid(x) PROVE RowsMove
  BY <1>6
  DEF CancelUnpaid, NoPaymentCancellableStatuses, RowTypes, RowsMove, Moves, Rests, Cancels
<1>7. ASSUME NEW r \in Requests, NEW b \in Entries, StartConfirm(r, b) PROVE RowsMove
  BY <1>7 DEF StartConfirm, OnlyMoves
<1>8. ASSUME NEW b \in Entries, NEW o \in BOOLEAN, NEW u \in BOOLEAN, ForceConfirm(b, o, u)
      PROVE  RowsMove
  <2>1. PICK s \in {"AWAITING_REVIEW", "PAID", "PAYMENT_PENDING"} : status' = [status EXCEPT ![b] = s]
    BY <1>8 DEF ForceConfirm
  <2>2. QED
    BY <1>8, <2>1 DEF ForceConfirm, RowTypes, RowsMove, Moves, Rests, Places, ActiveStatuses
<1>9. ASSUME NEW b \in Entries, ReturnToWaitlist(b) PROVE RowsMove
  BY <1>9 DEF ReturnToWaitlist
<1>10. QED
  BY <1>1, <1>2, <1>3, <1>4, <1>5, <1>6, <1>7, <1>8, <1>9 DEF MemberStep, AdminStep

LEMMA RowsQueue ==
  ASSUME IInv, QueueStep
  PROVE  RowsMove
<1> USE RowSets, SameMoves, RequeueMoves DEF IInv, RowInv
<1>1. ASSUME NEW l \in Lodges, NEW x \in Rows, ProcessWaitlist(l, x) PROVE RowsMove
  <2>1. \/ UNCHANGED <<rowVars, stale>>
        \/ \E o \in Opportunities(l, StayOf(x)) : MakeOffer(o)
    BY <1>1 DEF ProcessWaitlist, First
  <2>2. ASSUME NEW o \in Opportunities(l, StayOf(x)), MakeOffer(o) PROVE RowsMove
    <3>1. o.entry \in Entries /\ status[o.entry] = "WAITLISTED"
      BY DEF Opportunities, Candidates
    <3>2. QED
      BY <2>2, <3>1 DEF MakeOffer, RowTypes, RowsMove, Moves, Rests, GetsOffer
  <2>3. QED
    BY <2>1, <2>2
<1>2. ASSUME NEW l \in Lodges, NEW x \in Rows, LoseWake(l, x) PROVE RowsMove
  BY <1>2 DEF LoseWake
<1>3. CASE ExpireStaleOffers
  BY <1>3 DEF ExpireStaleOffers, Lapsed
<1>4. ASSUME NEW b \in Entries, Lapse(b) PROVE RowsMove
  BY <1>4 DEF Lapse, RowTypes, RowsMove, Moves, Rests
<1>5. ASSUME NEW b \in Entries, CancelPast(b) PROVE RowsMove
  BY <1>5 DEF CancelPast, RowTypes, RowsMove, Moves, Rests, Cancels
<1>6. CASE NextDay
  BY <1>6 DEF NextDay
<1>7. QED
  BY <1>1, <1>2, <1>3, <1>4, <1>5, <1>6 DEF QueueStep

LEMMA RowsOwn ==
  ASSUME IInv, NEW r \in Requests, OwnStep(r)
  PROVE  RowsMove
<1> USE RowSets, SameMoves DEF IInv, RowInv, At
<1> DEFINE b == req[r].entry
<1>1. req[r].pc # "idle" => b \in Entries
  BY EntryOfRequest
<1>2. ASSUME Refused(r) PROVE RowsMove
  BY <1>2 DEF Refused, OnlyMoves
<1>3. ASSUME req[r].pc # "idle", status[b] \in {"WAITLIST_OFFERED", "PAYMENT_PENDING"},
             Requeue({b})
      PROVE  RowsMove
  BY <1>1, <1>3, RequeueMoves
<1>4. CASE RevertOwn(r) \/ ClaimRefused(r) \/ ClaimNoRoom(r) \/ FlipMoved(r) \/ FlipNoRoom(r)
  BY <1>2, <1>3, <1>4
  DEF RevertOwn, ClaimRefused, ClaimNoRoom, FlipMoved, FlipNoRoom, RequeueAndFinish,
      RequeueAndGoto, Offered, Claimable, LiveOffer
<1>5. ASSUME NEW s \in {"PENDING", "PAYMENT_PENDING"}, ClaimTaken(r, s) PROVE RowsMove
  BY <1>1, <1>5
  DEF ClaimTaken, Claimable, LiveOffer, Offered, RowTypes, RowsMove, Moves, Rests, Places,
      ActiveStatuses
<1>6. CASE FlipPaid(r)
  BY <1>1, <1>6
  DEF FlipPaid, SetStatus, RowTypes, RowsMove, Moves, Rests, Places, PayableStatuses
<1>7. CASE FlipThrew(r) \/ ReleaseThrew(r)
  BY <1>7 DEF FlipThrew, ReleaseThrew, OnlyMoves
<1>8. CASE Release(r)
  BY <1>2, <1>3, <1>8 DEF Release, RequeueAndFinish, RequeueAndGoto
<1>9. CASE Report(r) \/ ReadThrew(r)
  BY <1>9 DEF Report, ReadThrew
<1>10. QED
  BY <1>4, <1>5, <1>6, <1>7, <1>8, <1>9 DEF OwnStep

LEMMA RowsCross ==
  ASSUME IInv, Captured, Created, NEW r \in Requests, CrossStep(r) \/ Crash(r)
  PROVE  RowsMove
<1> USE RowSets, SameMoves DEF IInv, RowInv, At
<1> DEFINE b == req[r].entry
<1>1. req[r].pc # "idle" => b \in Entries
  BY EntryOfRequest
<1>2. ASSUME Refused(r) PROVE RowsMove
  BY <1>2 DEF Refused, OnlyMoves
<1>3. ASSUME req[r].pc # "idle", Offered(b), RequeueAndFinish(r) PROVE RowsMove
  BY <1>1, <1>3, RequeueMoves DEF RequeueAndFinish, Offered
<1>4. req[r].pc \in XPcs /\ Fresh(r) => Offered(b)
  BY DEF Captured, Fresh
<1>5. CASE \/ XRevert(r) \/ XRefused(r) \/ XReturned(r) \/ XCreateRefused(r) \/ XFull(r)
           \/ Crash(r)
  BY <1>2, <1>3, <1>4, <1>5
  DEF XRevert, XRefused, XReturned, XCreateRefused, XFull, Crash, Confirmable, LiveOffer, XPcs
<1>6. CASE XPolicy(r) \/ XRepriced(r) \/ XValidated(r) \/ XCreateFull(r)
  BY <1>6 DEF XPolicy, XRepriced, XValidated, XCreateFull, OnlyMoves
<1>7. ASSUME NEW c \in Copies, NEW s \in {"PENDING", "PAYMENT_PENDING", "AWAITING_REVIEW"},
             XCreated(r, c, s)
      PROVE  RowsMove
  <2>1. Replaces(c)
    BY <1>7, XCreatedCreates DEF XCreated, Replaces
  <2>2. \A x \in Rows \ {c} : Rests(x)
    BY <1>7, XCreatedCreates DEF XCreated, Rests
  <2>3. QED
    BY <2>1, <2>2 DEF RowsMove, Moves
<1>8. CASE XUnwind(r)
  <2>1. req[r].repl \in Rows
    BY <1>8 DEF XUnwind, ReqInv, RequestsOK, RequestOK
  <2>2. req[r].made \notin {"ABSENT", "CANCELLED"}
    BY <1>8 DEF XUnwind, Created, ActiveStatuses
  <2>3. QED
    BY <1>2, <1>8, <2>1, <2>2, CancelMoves DEF XUnwind
<1>9. CASE XCleanup(r)
  BY <1>1, <1>4, <1>9 DEF XCleanup, Offered, RowTypes, RowsMove, Moves, Rests, Cancels, XPcs
<1>10. QED
  BY <1>5, <1>6, <1>7, <1>8, <1>9 DEF CrossStep

LEMMA RowsStep == IInv /\ Captured /\ Created /\ [Next]_vars => RowsMove
<1>1. ASSUME IInv, UNCHANGED vars PROVE RowsMove
  BY <1>1, SameMoves DEF vars, IInv, RowInv
<1>2. QED
  BY <1>1, RowsMember, RowsQueue, RowsOwn, RowsCross DEF Next

\* What every step keeps beside the types.
Holds == IInv /\ Captured /\ Created

THEOREM HoldsAlways == Spec => []Holds
<1>1. Init => Holds
  BY InvInit, IdleType DEF Init, Holds, Captured, Created, XPcs
<1>2. Holds /\ [Next]_vars => Holds'
  BY InvStep, CaptureStep, CreatedStep DEF Holds
<1>3. QED
  BY <1>1, <1>2, PTL DEF Spec

-----------------------------------------------------------------------------
(* Settled rows and clean queue entries *)

\* No step revives a cancelled booking, and none moves a paid one anywhere but
\* to cancelled, whatever faults and however many late requests.
THEOREM SettledStays == Spec => SettledStaysSettled
<1>1. ASSUME Holds, [Next]_vars
      PROVE  \A x \in Rows :
               /\ status[x] = "CANCELLED" => status'[x] = "CANCELLED"
               /\ status[x] = "PAID" => status'[x] \in {"PAID", "CANCELLED"}
  <2>1. RowsMove
    BY <1>1, RowsStep DEF Holds
  <2>2. QED
    BY <2>1
    DEF RowsMove, Moves, Rests, Appears, Returns, GetsOffer, Places, Cancels, Replaces,
        PayableStatuses
<1>2. Holds /\ [Next]_vars =>
        [\A x \in Rows :
           /\ status[x] = "CANCELLED" => status'[x] = "CANCELLED"
           /\ status[x] = "PAID" => status'[x] \in {"PAID", "CANCELLED"}]_vars
  BY <1>1
<1>3. QED
  BY <1>2, HoldsAlways, PTL DEF Spec, SettledStaysSettled

\* The rows the queue may still offer to carry no offer, absent ones included.
Clean ==
  \A x \in Rows :
    /\ status[x] \in {"ABSENT", "WAITLISTED"} => offer[x] = "none" /\ offerLodge[x] = NoLodge
    /\ status[x] = "WAITLIST_OFFERED" => offer[x] # "none"

\* An entry that waits carries nothing of an earlier offer, whichever way it
\* came back to the queue.
THEOREM WaitingClean == Spec => []WaitingEntryIsClean
<1>1. Init => Clean
  BY DEF Init, Clean
<1>2. ASSUME Clean, RowsMove PROVE Clean'
  <2>1. ASSUME NEW x \in Rows
        PROVE  /\ status'[x] \in {"ABSENT", "WAITLISTED"} =>
                    offer'[x] = "none" /\ offerLodge'[x] = NoLodge
               /\ status'[x] = "WAITLIST_OFFERED" => offer'[x] # "none"
    BY <1>2
    DEF Clean, RowsMove, Moves, Rests, Appears, Returns, GetsOffer, Places, Cancels, Replaces,
        ActiveStatuses
  <2>2. QED
    BY <2>1 DEF Clean
<1>3. Holds /\ Clean /\ [Next]_vars => Clean'
  BY <1>2, RowsStep DEF Holds
<1>4. Clean => WaitingEntryIsClean
  BY RowSets DEF Clean, WaitingEntryIsClean, Offered
<1>5. QED
  BY <1>1, <1>3, <1>4, HoldsAlways, PTL DEF Spec

-----------------------------------------------------------------------------
(* One replacement per stay and lodge *)

\* A replacement is made alive and only ever dies.
CopiesLive == \A c \in Copies : status[c] \in DuplicateStayStatuses \cup {"ABSENT", "CANCELLED"}

LEMMA CopiesInit == Init => CopiesLive
  BY RowSets DEF Init, CopiesLive

LEMMA CopiesStep == CopiesLive /\ RowsMove => CopiesLive'
<1> SUFFICES ASSUME CopiesLive, RowsMove, NEW c \in Copies
             PROVE  status'[c] \in DuplicateStayStatuses \cup {"ABSENT", "CANCELLED"}
  BY DEF CopiesLive
<1>1. c \in Rows /\ c \notin Entries
  BY RowSets, WaitlistAssumption
<1>2. QED
  BY <1>1
  DEF CopiesLive, RowsMove, Moves, Rests, Appears, Returns, GetsOffer, Places, Cancels, Replaces,
      ActiveStatuses, DuplicateStayStatuses

\* A replacement that is alive after a step was alive before it, at the same
\* lodge, or the step created it.
LEMMA CopyMoves ==
  ASSUME CopiesLive, RowsMove, NEW c \in Copies, status'[c] \in DuplicateStayStatuses
  PROVE  \/ status[c] \in DuplicateStayStatuses /\ lodge'[c] = lodge[c]
         \/ \E r \in Requests : Creating(r, c)
<1>1. c \in Rows /\ c \notin Entries
  BY RowSets, WaitlistAssumption
<1>2. QED
  BY <1>1
  DEF CopiesLive, RowsMove, Moves, Rests, Appears, Returns, GetsOffer, Places, Cancels, Replaces,
      ActiveStatuses, DuplicateStayStatuses, PayableStatuses

LEMMA OneCreates ==
  ASSUME NEW r, NEW s, NEW c \in Copies, NEW d \in Copies, Creating(r, c), Creating(s, d)
  PROVE  c = d
  BY DEF Creating

LEMMA CreatesAlone ==
  ASSUME IInv, NEW r \in Requests, NEW c \in Copies, Creating(r, c), NEW d \in Copies,
         CopyOf[c] = CopyOf[d], lodge[d] = lodge'[c]
  PROVE  status[d] \notin DuplicateStayStatuses
<1> SUFFICES ASSUME status[d] \in DuplicateStayStatuses PROVE FALSE
  OBVIOUS
<1>1. /\ d \in Rows /\ d \notin Entries /\ req[r].entry \in Entries
      /\ req[r].entry = CopyOf[d] /\ lodge[d] = req[r].to
  BY RowSets, WaitlistAssumption DEF Creating
<1>2. EntryOf(d) = req[r].entry
  BY <1>1 DEF EntryOf
<1>3. Overlaps(d, Stay[req[r].entry])
  BY <1>1, <1>2, WaitlistAssumption DEF Overlaps, StayOf
<1>4. DuplicateStay(req[r].entry, req[r].to)
  BY <1>1, <1>2, <1>3 DEF DuplicateStay
<1>5. QED
  BY <1>4 DEF Creating, StillSingle

LEMMA OneStep ==
  ASSUME IInv, RequestsMove, RowsMove, CopiesLive, OneReplacement
  PROVE  OneReplacement'
<1> SUFFICES ASSUME NEW c \in Copies, NEW d \in Copies, c # d, CopyOf[c] = CopyOf[d],
                    lodge'[c] = lodge'[d], status'[c] \in DuplicateStayStatuses,
                    status'[d] \in DuplicateStayStatuses
             PROVE  FALSE
  BY DEF OneReplacement
<1>1. \A x \in {c, d} : \/ status[x] \in DuplicateStayStatuses /\ lodge'[x] = lodge[x]
                        \/ \E r \in Requests : Creating(r, x)
  BY CopyMoves
<1>2. CASE /\ status[c] \in DuplicateStayStatuses /\ lodge'[c] = lodge[c]
           /\ status[d] \in DuplicateStayStatuses /\ lodge'[d] = lodge[d]
  BY <1>2 DEF OneReplacement
<1>3. ASSUME NEW r \in Requests, NEW s \in Requests, Creating(r, c), Creating(s, d) PROVE FALSE
  BY <1>3, OneCreates
<1>4. ASSUME NEW r \in Requests, NEW x \in {c, d}, NEW y \in {c, d}, x # y, Creating(r, x),
             status[y] \in DuplicateStayStatuses, lodge'[y] = lodge[y]
      PROVE  FALSE
  <2>1. /\ x \in Copies /\ y \in Copies /\ CopyOf[x] = CopyOf[y] /\ lodge[y] = lodge'[x]
    BY <1>4
  <2>2. QED
    BY <1>4, <2>1, CreatesAlone
<1>5. QED
  BY <1>1, <1>2, <1>3, <1>4

\* However many confirms of an entry run at once, or run again after a crash,
\* a rollback or a lost reply, the member never has two bookings of the same
\* stay at the offered lodge.
THEOREM OneReplacementHolds == Spec => []OneReplacement
<1>1. Init => CopiesLive /\ OneReplacement
  BY RowSets DEF Init, CopiesLive, OneReplacement, DuplicateStayStatuses, ActiveStatuses
<1>2. Holds /\ CopiesLive /\ OneReplacement /\ [Next]_vars => CopiesLive' /\ OneReplacement'
  BY RequestsStep, RowsStep, CopiesStep, OneStep DEF Holds
<1>3. QED
  BY <1>1, <1>2, HoldsAlways, PTL DEF Spec

-----------------------------------------------------------------------------
(* What a step does to a stay that a request settles, and to the audit rows *)

Leaves(r) == Works(req[r]) /\ ~ Works(req'[r])

\* A free stay comes to wait for payment only with a request to settle it, or
\* with a request that dropped it.
FreeWaits ==
  \A b \in Entries :
    IsFree(b) /\ status[b] # "PAYMENT_PENDING" /\ status'[b] = "PAYMENT_PENDING" =>
      b \in dropped' \/ \E r \in Requests : Claims(r) /\ req[r].entry = b

\* A report is spent by the repair, and written by a request that gives up.
ReportsMove ==
  /\ \A b \in stranded \ stranded' : status[b] = "PAYMENT_PENDING" /\ status'[b] = "WAITLISTED"
  /\ \A b \in stranded' \ stranded :
       \E r \in Requests : Leaves(r) /\ req[r].entry = b /\ status'[b] = status[b]

\* When replies are not lost, a free stay that waits for payment is cancelled,
\* repaired by its report, or settled by a request that ends with it.
FreeSettles ==
  "ack" \notin Faults =>
    \A b \in Entries :
      IsFree(b) /\ status[b] = "PAYMENT_PENDING" /\ status'[b] # "PAYMENT_PENDING" =>
        \/ status'[b] = "CANCELLED"
        \/ b \in stranded \ stranded'
        \/ \E r \in Requests : Leaves(r) /\ req[r].entry = b

\* No server stops, and every audit row is written.
Faultless == Faults \cap {"crash", "audit"} = {}

\* Then a request that ends leaves its stay settled, reported or dropped, and
\* its entry cancelled or flagged.
Answers ==
  Faultless =>
    \A r \in Requests :
      /\ Leaves(r) => \/ status'[req[r].entry] # "PAYMENT_PENDING"
                      \/ req[r].entry \in stranded' \cup dropped'
      /\ req[r].pc = "xcleanup" /\ req'[r].pc # "xcleanup" =>
           status'[req[r].entry] = "CANCELLED" \/ req[r].entry \in flagged'

\* A request past its creation ends with a write on its entry only if nobody
\* wrote the row since it captured it.
EndsFresh ==
  \A r \in Requests :
    /\ req[r].pc \in {"xfull", "xunwind", "xcleanup"} /\ req'[r].pc = "idle"
    /\ status'[req[r].entry] # status[req[r].entry]
    => Fresh(r)

\* What was dropped stays so until the next claim of the same offered entry.
DropsKept == \A x \in dropped \ dropped' : x \in Entries /\ Offered(x)

Answered ==
  /\ FreeWaits /\ ReportsMove /\ FreeSettles /\ Answers /\ EndsFresh /\ DropsKept
  /\ flagged \subseteq flagged' /\ drifted \subseteq drifted'

\* The steps that move no request.
LEMMA QuietAnswers ==
  ASSUME IInv, req' = req, ReportsMove, flagged' = flagged, drifted' = drifted,
         dropped' = dropped,
         \A b \in Entries : IsFree(b) =>
            /\ status'[b] = "PAYMENT_PENDING" => status[b] = "PAYMENT_PENDING"
            /\ status[b] = "PAYMENT_PENDING" =>
                 \/ status'[b] \in {"PAYMENT_PENDING", "CANCELLED"}
                 \/ b \in stranded \ stranded'
  PROVE  Answered
  BY DEF Answered, FreeWaits, FreeSettles, Answers, EndsFresh, Leaves, DropsKept

LEMMA MemberAnswers ==
  ASSUME IInv, MemberStep \/ AdminStep
  PROVE  Answered
<1> USE RowSets DEF IInv, RowInv, RowTypes, ReportsMove, auditVars, reqVars
<1>0. \A b \in Entries : EntryOf(b) = b
  BY DEF EntryOf
<1>1. ASSUME NEW b \in Entries, RefuseForCapacity(b) PROVE Answered
  BY <1>1, QuietAnswers DEF RefuseForCapacity, rowVars
<1>2. ASSUME NEW b \in Entries, JoinWaitlist(b) PROVE Answered
  BY <1>2, QuietAnswers DEF JoinWaitlist
<1>3. ASSUME NEW b \in Entries, NEW s, CreateBooking(b, s) PROVE Answered
  BY <1>3, QuietAnswers DEF CreateBooking
<1>4. ASSUME NEW b \in Entries, NEW s, CreateOverCeiling(b, s) PROVE Answered
  BY <1>4, QuietAnswers DEF CreateOverCeiling
<1>5. ASSUME NEW x \in Rows, SettlePayment(x) PROVE Answered
  BY <1>5, QuietAnswers DEF SettlePayment, SetStatus, restVars
<1>6. ASSUME NEW x \in Rows, CancelUnpaid(x) PROVE Answered
  BY <1>6, QuietAnswers DEF CancelUnpaid
<1>7. ASSUME NEW x \in Rows, CancelPlaced(x) PROVE Answered
  BY <1>7, QuietAnswers DEF CancelPlaced, SetStatus
<1>8. ASSUME NEW r \in Requests, NEW b \in Entries, StartConfirm(r, b) PROVE Answered
  BY <1>8
  DEF StartConfirm, At, OnlyMoves, rowVars, restVars, Answered, FreeWaits, FreeSettles, Answers,
      EndsFresh, Leaves, Works, WorkPcs, DropsKept, ReqInv, ReqTypes
<1>9. ASSUME NEW b \in Entries, NEW o \in BOOLEAN, NEW u \in BOOLEAN, ForceConfirm(b, o, u)
      PROVE  Answered
  BY <1>9, QuietAnswers DEF ForceConfirm, restVars
<1>10. ASSUME NEW b \in Entries, ReturnToWaitlist(b) PROVE Answered
  BY <1>10, QuietAnswers DEF ReturnToWaitlist, Requeue, SpendReport
<1>11. QED
  BY <1>1, <1>2, <1>3, <1>4, <1>5, <1>6, <1>7, <1>8, <1>9, <1>10 DEF MemberStep, AdminStep

LEMMA QueueAnswers ==
  ASSUME IInv, QueueStep
  PROVE  Answered
<1> USE RowSets DEF IInv, RowInv, RowTypes, ReportsMove, auditVars, reqVars
<1>1. ASSUME NEW l \in Lodges, NEW x \in Rows, ProcessWaitlist(l, x) PROVE Answered
  <2>1. \/ UNCHANGED <<rowVars, stale>>
        \/ \E o \in Opportunities(l, StayOf(x)) : MakeOffer(o)
    BY <1>1 DEF ProcessWaitlist, First
  <2>2. ASSUME NEW o \in Opportunities(l, StayOf(x)), MakeOffer(o)
        PROVE  status' = [status EXCEPT ![o.entry] = "WAITLIST_OFFERED"]
               /\ status[o.entry] = "WAITLISTED"
    BY <2>2 DEF MakeOffer, Opportunities, Candidates
  <2>3. QED
    BY <1>1, <2>1, <2>2, QuietAnswers DEF ProcessWaitlist, rowVars
<1>2. ASSUME NEW l \in Lodges, NEW x \in Rows, LoseWake(l, x) PROVE Answered
  BY <1>2, QuietAnswers DEF LoseWake, rowVars
<1>3. CASE ExpireStaleOffers
  BY <1>3, QuietAnswers DEF ExpireStaleOffers, Lapsed, Requeue
<1>4. ASSUME NEW b \in Entries, Lapse(b) PROVE Answered
  BY <1>4, QuietAnswers DEF Lapse, restVars
<1>5. ASSUME NEW b \in Entries, CancelPast(b) PROVE Answered
  BY <1>5, QuietAnswers DEF CancelPast, restVars
<1>6. CASE NextDay
  BY <1>6, QuietAnswers DEF NextDay, rowVars
<1>7. QED
  BY <1>1, <1>2, <1>3, <1>4, <1>5, <1>6 DEF QueueStep

\* What a step of request r alone does to its stay.
MovesAlone(r) ==
  LET b == req[r].entry
  IN /\ \A s \in Requests \ {r} : req'[s] = req[s]
     /\ \A e \in Entries \ {b} : status'[e] = status[e]
     /\ ~ Works(req[r]) => status[b] # "PAYMENT_PENDING" \/ status'[b] = "PAYMENT_PENDING"
     /\ Works(req[r]) => "ack" \in Faults \/ Leaves(r) \/ status'[b] = status[b]
     /\ Faultless /\ Leaves(r) =>
          status'[b] # "PAYMENT_PENDING" \/ b \in stranded' \cup dropped'
     /\ Faultless /\ req[r].pc = "xcleanup" => status'[b] = "CANCELLED" \/ b \in flagged'
     /\ req[r].pc \in {"xfull", "xunwind", "xcleanup"} /\ status'[b] # status[b] => Fresh(r)
     /\ flagged \subseteq flagged' /\ drifted \subseteq drifted' /\ DropsKept

LEMMA FaultlessStops == ~ Faultless \/ ("crash" \notin Faults /\ "audit" \notin Faults)
  BY DEF Faultless

LEMMA MoverAnswers ==
  ASSUME IInv, NEW r \in Requests, MovesAlone(r), FreeWaits, ReportsMove
  PROVE  Answered
<1>1. FreeSettles
  BY DEF FreeSettles, MovesAlone
<1>2. Answers
  <2> SUFFICES ASSUME Faultless, NEW s \in Requests
               PROVE  /\ Leaves(s) => status'[req[s].entry] # "PAYMENT_PENDING"
                                         \/ req[s].entry \in stranded' \cup dropped'
                      /\ req[s].pc = "xcleanup" /\ req'[s].pc # "xcleanup" =>
                           status'[req[s].entry] = "CANCELLED" \/ req[s].entry \in flagged'
    BY DEF Answers
  <2>1. CASE s = r
    BY <2>1 DEF MovesAlone
  <2>2. CASE s # r
    BY <2>2 DEF MovesAlone, Leaves
  <2>3. QED
    BY <2>1, <2>2
<1>3. EndsFresh
  BY DEF EndsFresh, MovesAlone
<1>4. QED
  BY <1>1, <1>2, <1>3 DEF Answered, MovesAlone

LEMMA OthersStay ==
  ASSUME IInv, NEW r \in Requests
  PROVE  /\ \A B : FinishWriting(r, B) =>
              (\A s \in Requests \ {r} : req'[s] = req[s]) /\ req'[r].pc = "idle"
         /\ \A pc : Goto(r, pc) =>
              /\ \A s \in Requests \ {r} : req'[s] = req[s]
              /\ req'[r].pc = pc /\ req'[r].entry = req[r].entry
  BY DEF FinishWriting, Goto, Idle, IInv, ReqInv, ReqTypes, Request

LEMMA RefusedAnswers ==
  ASSUME IInv, NEW r \in Requests, Refused(r),
         Works(req[r]) /\ Faultless => status[req[r].entry] # "PAYMENT_PENDING",
         req[r].pc = "xcleanup" => "crash" \in Faults
  PROVE  Answered
<1>1. /\ \A s \in Requests \ {r} : req'[s] = req[s]
      /\ UNCHANGED <<status, stranded, flagged, drifted, dropped>>
  BY OthersStay DEF Refused, Finish, OnlyMoves, rowVars, restVars, auditVars
<1>2. FreeWaits /\ ReportsMove
  BY <1>1 DEF FreeWaits, ReportsMove
<1>3. MovesAlone(r)
  BY <1>1, FaultlessStops DEF MovesAlone, Leaves, DropsKept
<1>4. QED
  BY <1>2, <1>3, MoverAnswers

LEMMA RequeueAnswers ==
  ASSUME IInv, NEW r \in Requests, req[r].pc # "idle", RequeueAndFinish(r),
         Works(req[r]) \/ Offered(req[r].entry),
         req[r].pc = "xfull" => Fresh(r), req[r].pc \notin {"xcleanup", "xunwind"}
  PROVE  Answered
<1>1. req[r].entry \in Entries /\ req[r].entry \in Rows
  BY EntryOfRequest
<1>2. /\ \A s \in Requests \ {r} : req'[s] = req[s]
      /\ req'[r].pc = "idle"
      /\ UNCHANGED <<stranded, flagged, drifted, dropped>>
      /\ status'[req[r].entry] = "WAITLISTED"
      /\ \A b \in Entries \ {req[r].entry} : status'[b] = status[b]
  BY <1>1, OthersStay, RowSets DEF RequeueAndFinish, Requeue, restVars, auditVars
<1>3. FreeWaits /\ ReportsMove
  BY <1>1, <1>2 DEF FreeWaits, ReportsMove
<1>4. Works(req[r]) => Leaves(r)
  BY <1>2 DEF Leaves, Works, WorkPcs
<1>5. MovesAlone(r)
  BY <1>1, <1>2, <1>4 DEF MovesAlone, Offered, DropsKept
<1>6. QED
  BY <1>3, <1>5, MoverAnswers

LEMMA RequeueGoesAnswers ==
  ASSUME IInv, NEW r \in Requests, NEW pc \in WorkPcs, RequeueAndGoto(r, pc),
         Works(req[r]), "ack" \in Faults
  PROVE  Answered
<1> DEFINE b == req[r].entry
<1>1. b \in Entries /\ b \in Rows
  BY EntryOfRequest DEF Works, WorkPcs
<1>2. /\ \A q \in Requests \ {r} : req'[q] = req[q]
      /\ UNCHANGED <<stranded, flagged, drifted, dropped>>
      /\ status'[b] = "WAITLISTED" /\ Works(req'[r])
      /\ \A e \in Entries \ {b} : status'[e] = status[e]
  BY <1>1, OthersStay, RowSets DEF RequeueAndGoto, Requeue, restVars, auditVars, Works
<1>3. FreeWaits /\ ReportsMove
  BY <1>1, <1>2 DEF FreeWaits, ReportsMove
<1>4. DropsKept
  BY <1>2 DEF DropsKept
<1>5. MovesAlone(r)
  BY <1>1, <1>2, <1>4 DEF MovesAlone, Leaves, Works, WorkPcs
<1>6. QED
  BY <1>3, <1>5, MoverAnswers

LEMMA ClaimAnswers ==
  ASSUME IInv, NEW r \in Requests, NEW s \in {"PENDING", "PAYMENT_PENDING"}, ClaimTaken(r, s)
  PROVE  Answered
<1> DEFINE b == req[r].entry
<1>1. b \in Entries /\ b \in Rows
  BY EntryOfRequest DEF ClaimTaken, At
<1>2. /\ \A q \in Requests \ {r} : req'[q] = req[q]
      /\ UNCHANGED <<stranded, flagged, drifted>> /\ dropped \ dropped' \subseteq {b}
      /\ status'[b] = s /\ Offered(b) /\ req[r].pc = "claim"
      /\ \A e \in Entries \ {b} : status'[e] = status[e]
  BY <1>1, OthersStay, RowSets
  DEF ClaimTaken, At, Claimable, LiveOffer, restVars, auditVars, IInv, RowInv, RowTypes
<1>3. ASSUME IsFree(b), s = "PAYMENT_PENDING" PROVE Claims(r) \/ b \in dropped'
  <2>1. CASE Goto(r, "flip")
    <3>1. req'[r].pc = "flip" /\ req'[r].entry = b
      BY <2>1, OthersStay
    <3>2. QED
      BY <1>1, <1>2, <1>3, <3>1 DEF Claims, Works, WorkPcs
  <2>2. QED
    BY <1>3, <2>1 DEF ClaimTaken
<1>4. FreeWaits /\ ReportsMove
  BY <1>1, <1>2, <1>3 DEF FreeWaits, ReportsMove
<1>5. ~ Works(req[r])
  BY <1>2 DEF Works, WorkPcs
<1>6. MovesAlone(r)
  BY <1>1, <1>2, <1>5 DEF MovesAlone, Offered, Leaves, DropsKept
<1>7. QED
  BY <1>4, <1>6, MoverAnswers

LEMMA OwnAnswers ==
  ASSUME IInv, NEW r \in Requests, OwnStep(r)
  PROVE  Answered
<1> USE RefusedAnswers, RequeueAnswers, RequeueGoesAnswers DEF At, Works, WorkPcs
<1> DEFINE b == req[r].entry
<1>1. CASE RevertOwn(r) \/ ClaimRefused(r) \/ ClaimNoRoom(r) \/ FlipMoved(r) \/ FlipNoRoom(r)
  BY <1>1
  DEF RevertOwn, ClaimRefused, ClaimNoRoom, FlipMoved, FlipNoRoom, Claimable, LiveOffer
<1>2. ASSUME NEW s \in {"PENDING", "PAYMENT_PENDING"}, ClaimTaken(r, s) PROVE Answered
  BY <1>2, ClaimAnswers
<1>3. CASE FlipPaid(r)
  <2>1. b \in Entries /\ b \in Rows
    BY <1>3, EntryOfRequest DEF FlipPaid
  <2>2. /\ \A q \in Requests \ {r} : req'[q] = req[q]
        /\ UNCHANGED <<stranded, flagged, drifted, dropped>>
        /\ status'[b] = "PAID" /\ status[b] = "PAYMENT_PENDING" /\ req[r].pc = "flip"
        /\ \A e \in Entries \ {b} : status'[e] = status[e]
        /\ req'[r].pc = "idle" \/ "ack" \in Faults
    BY <1>3, <2>1, OthersStay, RowSets
    DEF FlipPaid, SetStatus, restVars, auditVars, IInv, RowInv, RowTypes
  <2>3. FreeWaits /\ ReportsMove
    BY <2>1, <2>2 DEF FreeWaits, ReportsMove
  <2>4. MovesAlone(r)
    BY <2>1, <2>2, FaultlessStops DEF MovesAlone, Leaves, DropsKept
  <2>5. QED
    BY <2>3, <2>4, MoverAnswers
<1>4. CASE FlipThrew(r) \/ ReleaseThrew(r)
  <2>1. /\ \A q \in Requests \ {r} : req'[q] = req[q]
        /\ UNCHANGED <<status, stranded, flagged, drifted, dropped>>
        /\ Works(req[r]) /\ Works(req'[r])
    BY <1>4, OthersStay DEF FlipThrew, ReleaseThrew, OnlyMoves, rowVars, restVars, auditVars
  <2>2. FreeWaits /\ ReportsMove
    BY <2>1 DEF FreeWaits, ReportsMove
  <2>3. MovesAlone(r)
    BY <2>1 DEF MovesAlone, Leaves, DropsKept
  <2>4. QED
    BY <2>2, <2>3, MoverAnswers
<1>5. CASE Release(r)
  BY <1>5 DEF Release
<1>6. CASE Report(r)
  <2>1. b \in Entries /\ b \in Rows
    BY <1>6, EntryOfRequest DEF Report
  <2>2. /\ \A q \in Requests \ {r} : req'[q] = req[q]
        /\ UNCHANGED <<status, flagged, drifted, dropped>> /\ Leaves(r)
        /\ stranded' = stranded \cup {b} \/ ("audit" \in Faults /\ stranded' = stranded)
    BY <1>6, OthersStay DEF Report, Finish, rowVars, Leaves
  <2>3. FreeWaits /\ ReportsMove
    BY <2>1, <2>2 DEF FreeWaits, ReportsMove
  <2>4. MovesAlone(r)
    BY <2>1, <2>2, FaultlessStops DEF MovesAlone, Leaves, DropsKept
  <2>5. QED
    BY <2>3, <2>4, MoverAnswers
<1>7. CASE ReadThrew(r)
  <2>1. b \in Entries /\ b \in Rows
    BY <1>7, EntryOfRequest DEF ReadThrew
  <2>2. /\ \A q \in Requests \ {r} : req'[q] = req[q]
        /\ UNCHANGED <<status, stranded, flagged, drifted>> /\ Leaves(r)
        /\ dropped' = dropped \cup {b}
    BY <1>7, OthersStay DEF ReadThrew, Finish, rowVars, Leaves
  <2>3. FreeWaits /\ ReportsMove
    BY <2>1, <2>2 DEF FreeWaits, ReportsMove
  <2>4. MovesAlone(r)
    BY <2>1, <2>2 DEF MovesAlone, Leaves, DropsKept
  <2>5. QED
    BY <2>3, <2>4, MoverAnswers
<1>8. QED
  BY <1>1, <1>2, <1>3, <1>4, <1>5, <1>6, <1>7 DEF OwnStep

LEMMA CleanupAnswers ==
  ASSUME IInv, Captured, NEW r \in Requests, XCleanup(r)
  PROVE  Answered
<1> DEFINE b == req[r].entry
<1>1. b \in Entries /\ b \in Rows
  BY EntryOfRequest DEF XCleanup, At
<1>2. /\ \A q \in Requests \ {r} : req'[q] = req[q]
      /\ req[r].pc = "xcleanup" /\ UNCHANGED <<stranded, drifted, dropped>>
  BY OthersStay DEF XCleanup, At, Finish, restVars, auditVars
<1>3. \/ /\ Fresh(r) /\ Offered(b) /\ flagged \subseteq flagged' /\ status'[b] = "CANCELLED"
         /\ \A e \in Entries \ {b} : status'[e] = status[e]
      \/ /\ status' = status
         /\ flagged' = flagged \cup {b} \/ ("audit" \in Faults /\ flagged' = flagged)
  BY <1>1, RowSets
  DEF XCleanup, At, Flag, Fresh, Captured, XPcs, rowVars, restVars, auditVars, IInv, RowInv,
      RowTypes
<1>4. FreeWaits /\ ReportsMove
  BY <1>1, <1>2, <1>3 DEF FreeWaits, ReportsMove
<1>5. ~ Works(req[r])
  BY <1>2 DEF Works, WorkPcs
<1>6. MovesAlone(r)
  <2>1. CASE status' = status
    BY <1>1, <1>2, <1>3, <1>5, <2>1, FaultlessStops DEF MovesAlone, Leaves, DropsKept
  <2>2. CASE Fresh(r) /\ Offered(b) /\ status'[b] = "CANCELLED"
             /\ flagged \subseteq flagged' /\ \A e \in Entries \ {b} : status'[e] = status[e]
    BY <1>1, <1>2, <1>5, <2>2 DEF MovesAlone, Leaves, Offered, DropsKept
  <2>3. QED
    BY <1>3, <2>1, <2>2
<1>7. QED
  BY <1>4, <1>6, MoverAnswers

\* The steps of a cross-lodge confirm that leave every entry as it is.
LEMMA AsideAnswers ==
  ASSUME IInv, NEW r \in Requests, \A s \in Requests \ {r} : req'[s] = req[s],
         \A b \in Entries : status'[b] = status[b],
         ~ Works(req[r]), req[r].pc \notin {"idle", "xcleanup"},
         stranded' = stranded, flagged' = flagged, drifted \subseteq drifted',
         dropped \subseteq dropped'
  PROVE  Answered
<1>1. FreeWaits /\ ReportsMove
  BY DEF FreeWaits, ReportsMove
<1>2. req[r].entry \in Entries
  BY EntryOfRequest
<1>3. MovesAlone(r)
  BY <1>2 DEF MovesAlone, Leaves, DropsKept
<1>4. QED
  BY <1>1, <1>3, MoverAnswers

LEMMA CrossAnswers ==
  ASSUME IInv, Captured, NEW r \in Requests, CrossStep(r) \/ Crash(r)
  PROVE  Answered
<1> USE RefusedAnswers, RequeueAnswers DEF At, Works, WorkPcs
<1>1. CASE XRevert(r) \/ XRefused(r) \/ XReturned(r) \/ XCreateRefused(r) \/ XFull(r)
  BY <1>1
  DEF XRevert, XRefused, XReturned, XCreateRefused, XFull, Confirmable, LiveOffer, Fresh,
      Captured, XPcs
<1>2. CASE XPolicy(r) \/ XRepriced(r) \/ XValidated(r) \/ XCreateFull(r)
  <2>1. /\ UNCHANGED <<status, stranded, flagged, drifted, dropped>>
        /\ req[r].pc \in {"xpolicy", "xvalidate", "xcreate"}
    BY <1>2
    DEF XPolicy, XRepriced, XValidated, XCreateFull, OnlyMoves, rowVars, restVars, auditVars
  <2>2. \A s \in Requests \ {r} : req'[s] = req[s]
    BY <1>2, OthersStay
    DEF XPolicy, XRepriced, XValidated, XCreateFull, IInv, ReqInv, ReqTypes
  <2>3. QED
    BY <2>1, <2>2, AsideAnswers
<1>3. ASSUME NEW c \in Copies, NEW s, XCreated(r, c, s) PROVE Answered
  <2>1. /\ stranded' = stranded /\ flagged' = flagged /\ drifted \subseteq drifted'
        /\ dropped \subseteq dropped' /\ req[r].pc = "xcreate"
    BY <1>3 DEF XCreated
  <2>2. \A q \in Requests \ {r} : req'[q] = req[q]
    BY <1>3, OthersStay DEF XCreated, Finish, IInv, ReqInv, ReqTypes
  <2>3. \A b \in Entries : status'[b] = status[b]
    BY <1>3, RowSets, WaitlistAssumption DEF XCreated, IInv, RowInv, RowTypes
  <2>4. QED
    BY <2>1, <2>2, <2>3, AsideAnswers
<1>4. CASE XUnwind(r)
  <2>1. CASE SetStatus(req[r].repl, "CANCELLED") /\ UNCHANGED restVars
             /\ FinishWriting(r, IF Fresh(r) THEN {req[r].entry} ELSE {})
    <3>1. req[r].repl \in Copies
      BY <1>4 DEF XUnwind, IInv, ReqInv, RequestsOK, RequestOK
    <3>2. \A b \in Entries : status'[b] = status[b]
      BY <2>1, <3>1, RowSets, WaitlistAssumption DEF SetStatus, IInv, RowInv, RowTypes
    <3>3. \A q \in Requests \ {r} : req'[q] = req[q]
      BY <2>1, OthersStay
    <3>4. QED
      BY <1>4, <2>1, <3>2, <3>3, AsideAnswers DEF XUnwind, restVars, auditVars
  <2>2. CASE Refused(r)
    BY <1>4, <2>2 DEF XUnwind
  <2>3. QED
    BY <1>4, <2>1, <2>2 DEF XUnwind
<1>5. CASE XCleanup(r)
  BY <1>5, CleanupAnswers
<1>6. CASE Crash(r)
  BY <1>6, FaultlessStops DEF Crash
<1>7. QED
  BY <1>1, <1>2, <1>3, <1>4, <1>5, <1>6 DEF CrossStep

LEMMA AnswersStep == IInv /\ Captured /\ [Next]_vars => Answered
<1>1. ASSUME IInv, UNCHANGED vars PROVE Answered
  BY <1>1, QuietAnswers DEF vars, rowVars, restVars, auditVars, reqVars, ReportsMove
<1>2. QED
  BY <1>1, MemberAnswers, QueueAnswers, OwnAnswers, CrossAnswers DEF Next

-----------------------------------------------------------------------------
(* The repair of the offer that was accepted, and the audit rows *)

\* A cross-lodge confirm past its creation writes its entry only while the row
\* still carries the offer the member accepted.
THEOREM RepairsItsOffer == Spec => RepairsOnlyItsOffer
<1>1. ASSUME Holds, [Next]_vars
      PROVE  \A r \in Requests :
               LET b == req[r].entry
               IN req[r].pc \in {"xfull", "xunwind", "xcleanup"} /\ req'[r].pc = "idle"
                    /\ status'[b] # status[b]
                  => Offered(b) /\ offerLodge[b] = req[r].to
  <2>1. EndsFresh
    BY <1>1, AnswersStep DEF Holds, Answered
  <2>2. QED
    BY <1>1, <2>1 DEF EndsFresh, Holds, Captured, Fresh, XPcs
<1>2. Holds /\ [Next]_vars =>
        [\A r \in Requests :
           LET b == req[r].entry
           IN req[r].pc \in {"xfull", "xunwind", "xcleanup"} /\ req'[r].pc = "idle"
                /\ status'[b] # status[b]
              => Offered(b) /\ offerLodge[b] = req[r].to]_vars
  BY <1>1
<1>3. QED
  BY <1>2, HoldsAlways, PTL DEF Spec, RepairsOnlyItsOffer

LEMMA BothStep ==
  ASSUME Faultless, IInv, Created, RequestsMove, RowsMove, Answered, CopiesLive,
         BothAliveIsFlagged
  PROVE  BothAliveIsFlagged'
<1> SUFFICES ASSUME NEW c \in Copies, c \notin drifted' \cup dropped', status'[c] \in DuplicateStayStatuses,
                    status'[CopyOf[c]] # "CANCELLED"
             PROVE  CopyOf[c] \in flagged'
                    \/ \E r \in Requests : req'[r].repl = c /\ req'[r].pc = "xcleanup"
  BY DEF BothAliveIsFlagged
<1> DEFINE b == CopyOf[c]
<1>1. b \in Rows /\ c \notin drifted \cup dropped
  BY WaitlistAssumption, RowSets DEF Answered, DropsKept
<1>2. status[b] # "CANCELLED"
  BY <1>1
  DEF RowsMove, Moves, Rests, Appears, Returns, GetsOffer, Places, Cancels, Replaces,
      PayableStatuses
<1>3. CASE status[c] \in DuplicateStayStatuses
  <2>1. b \in flagged \/ \E r \in Requests : req[r].repl = c /\ req[r].pc = "xcleanup"
    BY <1>1, <1>2, <1>3 DEF BothAliveIsFlagged
  <2>2. ASSUME NEW r \in Requests, req[r].repl = c, req[r].pc = "xcleanup"
        PROVE  b \in flagged' \/ req'[r] = req[r]
    <3>1. req[r].entry = b
      BY <2>2 DEF Created
    <3>2. req'[r].pc # "xcleanup" => b \in flagged'
      BY <2>2, <3>1 DEF Answered, Answers
    <3>3. req'[r].pc = "xcleanup" => req'[r] = req[r]
      BY <2>2 DEF RequestsMove, Claims, GoesOn, Elsewhere, Creating, Works, WorkPcs
    <3>4. QED
      BY <3>2, <3>3
  <2>3. QED
    BY <2>1, <2>2 DEF Answered
<1>4. ASSUME NEW r \in Requests, Creating(r, c)
      PROVE  req'[r].repl = c /\ req'[r].pc = "xcleanup"
  BY <1>4 DEF Creating
<1>5. QED
  BY <1>3, <1>4, CopyMoves

\* While no server stops and audit rows are written, a replacement at the
\* accepted price, whose creation the confirm learnt of, and its entry are both
\* alive only while a confirm still works on them, or with an audit row that asks
\* for a review.
THEOREM BothAliveFlagged == Faultless => (Spec => []BothAliveIsFlagged)
<1> SUFFICES ASSUME Faultless PROVE Spec => []BothAliveIsFlagged
  OBVIOUS
<1>1. Init => CopiesLive /\ BothAliveIsFlagged
  BY RowSets
  DEF Init, CopiesLive, BothAliveIsFlagged, DuplicateStayStatuses, ActiveStatuses
<1>2. Holds /\ CopiesLive /\ BothAliveIsFlagged /\ [Next]_vars =>
        CopiesLive' /\ BothAliveIsFlagged'
  BY RequestsStep, RowsStep, CopiesStep, AnswersStep, BothStep DEF Holds
<1>3. QED
  BY <1>1, <1>2, HoldsAlways, PTL DEF Spec

-----------------------------------------------------------------------------
(* The stranded stay *)

\* A request that settles a stay goes on with the same one or leaves it.
LEMMA WorkMoves ==
  ASSUME RequestsMove, NEW r \in Requests
  PROVE  /\ Works(req[r]) => Leaves(r) \/ (Works(req'[r]) /\ req'[r].entry = req[r].entry)
         /\ Works(req'[r]) =>
              Claims(r) \/ (Works(req[r]) /\ req'[r].entry = req[r].entry)
<1>1. \/ req'[r] = req[r] \/ Claims(r) \/ GoesOn(r) \/ Elsewhere(r)
      \/ \E c \in Copies : Creating(r, c)
  BY DEF RequestsMove
<1>2. QED
  BY <1>1 DEF Leaves, Claims, GoesOn, Elsewhere, Creating, Works, WorkPcs

LEMMA StrandStep ==
  ASSUME Faultless, IInv, RequestsMove, Answered, StrandIsReported
  PROVE  StrandIsReported'
<1> SUFFICES ASSUME NEW b \in Entries, status'[b] = "PAYMENT_PENDING", IsFree(b)
             PROVE  b \in stranded' \cup dropped'
                    \/ \E r \in Requests : req'[r].entry = b /\ Works(req'[r])
  BY DEF StrandIsReported, IsFree, Works, WorkPcs
<1>1. CASE status[b] # "PAYMENT_PENDING"
  BY <1>1 DEF Answered, FreeWaits, Claims
<1>2. CASE status[b] = "PAYMENT_PENDING"
  <2>1. \/ b \in stranded \cup dropped
        \/ \E r \in Requests : req[r].entry = b /\ Works(req[r])
    BY <1>2 DEF StrandIsReported, Works, WorkPcs
  <2>2. b \in stranded \cup dropped => b \in stranded' \cup dropped'
    BY <1>2 DEF Answered, ReportsMove, DropsKept, Offered
  <2>3. ASSUME NEW r \in Requests, req[r].entry = b, Works(req[r])
        PROVE  b \in stranded' \cup dropped' \/ (req'[r].entry = b /\ Works(req'[r]))
    BY <2>3, WorkMoves DEF Answered, Answers
  <2>4. QED
    BY <2>1, <2>2, <2>3
<1>3. QED
  BY <1>1, <1>2

\* While no server stops and audit rows are written, a free stay whose offer
\* was consumed is being settled by a request or reported, whatever transaction
\* rolls back and whatever reply of the settlement is lost, unless the request
\* ended before it had read the booking it claimed: a claim whose reply is lost,
\* or that read throwing, is not reported.
THEOREM StrandReported == Faultless => (Spec => []StrandIsReported)
<1> SUFFICES ASSUME Faultless PROVE Spec => []StrandIsReported
  OBVIOUS
<1>1. Init => StrandIsReported
  BY RowSets DEF Init, StrandIsReported
<1>2. Holds /\ StrandIsReported /\ [Next]_vars => StrandIsReported'
  BY RequestsStep, AnswersStep, StrandStep DEF Holds
<1>3. QED
  BY <1>1, <1>2, HoldsAlways, PTL DEF Spec

Settling(b) == status[b] = "PAYMENT_PENDING"
FreeAndThere(b) == b \in Entries /\ IsFree(b) /\ status[b] \in {"PAYMENT_PENDING", "CANCELLED"}

\* The same, after the step.
SettlingThen(b) == status'[b] = "PAYMENT_PENDING"
FreeThen(b) == b \in Entries /\ IsFree(b) /\ status'[b] \in {"PAYMENT_PENDING", "CANCELLED"}

\* A stay that is reported, or that a request settles, is free and has not moved
\* on, unless it was cancelled; and while it waits, one request settles it or one
\* report stands for it, never two of them.
OneSettles ==
  /\ \A r \in Requests : Works(req[r]) => FreeAndThere(req[r].entry)
  /\ \A b \in stranded : FreeAndThere(b)
  /\ \A r, s \in Requests :
       /\ Works(req[r]) /\ Works(req[s]) /\ req[r].entry = req[s].entry
       /\ Settling(req[r].entry)
       => r = s
  /\ \A r \in Requests :
       Works(req[r]) /\ Settling(req[r].entry) => req[r].entry \notin stranded

\* What becomes of a free stay that is there.
LEMMA FreeMoves ==
  ASSUME "ack" \notin Faults, RowsMove, Answered, NEW b, FreeAndThere(b)
  PROVE  \/ FreeThen(b) /\ (SettlingThen(b) => Settling(b))
         \/ Settling(b) /\ b \in stranded \ stranded'
         \/ Settling(b) /\ \E r \in Requests : Leaves(r) /\ req[r].entry = b
<1>1. b \in Rows
  BY RowSets DEF FreeAndThere
<1>2. status[b] = "CANCELLED" => status'[b] = "CANCELLED"
  BY <1>1
  DEF RowsMove, Moves, Rests, Appears, Returns, GetsOffer, Places, Cancels, Replaces,
      PayableStatuses
<1>3. QED
  BY <1>2 DEF FreeAndThere, FreeThen, Settling, SettlingThen, Answered, FreeSettles

LEMMA OneSettlesStep ==
  ASSUME "ack" \notin Faults, IInv, RequestsMove, RowsMove, Answered, OneSettles
  PROVE  OneSettles'
<1>1. ASSUME NEW r \in Requests, Claims(r)
      PROVE  /\ FreeThen(req[r].entry) /\ req'[r].entry = req[r].entry
             /\ ~ FreeAndThere(req[r].entry)
  BY <1>1 DEF Claims, FreeAndThere, FreeThen, Offered
<1>2. ASSUME NEW r \in Requests, Works(req[r]), Works(req'[r]), req'[r].entry = req[r].entry
      PROVE  FreeThen(req'[r].entry)
             /\ (SettlingThen(req'[r].entry) => Settling(req[r].entry))
  <2>1. FreeAndThere(req[r].entry)
    BY <1>2 DEF OneSettles
  <2>2. ~ (Settling(req[r].entry) /\ req[r].entry \in stranded)
    BY <1>2 DEF OneSettles
  <2>3. ASSUME NEW s \in Requests, Settling(req[r].entry), Leaves(s), req[s].entry = req[r].entry
        PROVE  FALSE
    BY <1>2, <2>3 DEF OneSettles, Leaves
  <2>4. QED
    BY <1>2, <2>1, <2>2, <2>3, FreeMoves
<1>3. ASSUME NEW r \in Requests, Works(req'[r]) PROVE FreeThen(req'[r].entry)
  BY <1>1, <1>2, <1>3, WorkMoves
<1>4. ASSUME NEW b \in stranded' PROVE FreeThen(b)
  <2>1. CASE b \in stranded
    <3>1. FreeAndThere(b)
      BY <2>1 DEF OneSettles
    <3>2. ASSUME NEW r \in Requests, Settling(b), Leaves(r), req[r].entry = b PROVE FALSE
      BY <2>1, <3>2 DEF OneSettles, Leaves
    <3>3. QED
      BY <1>4, <3>1, <3>2, FreeMoves
  <2>2. ASSUME NEW r \in Requests, Leaves(r), req[r].entry = b, status'[b] = status[b]
        PROVE  FreeThen(b)
    BY <2>2 DEF OneSettles, Leaves, FreeAndThere, FreeThen
  <2>3. QED
    BY <1>4, <2>1, <2>2 DEF Answered, ReportsMove
<1>5. ASSUME NEW r \in Requests, NEW s \in Requests, Works(req'[r]), Works(req'[s]),
             req'[r].entry = req'[s].entry, SettlingThen(req'[r].entry)
      PROVE  r = s
  <2>1. CASE Works(req[r]) /\ Works(req[s]) /\ req'[r].entry = req[r].entry
             /\ req'[s].entry = req[s].entry
    BY <1>2, <1>5, <2>1 DEF OneSettles
  <2>2. ASSUME NEW p \in {r, s}, NEW q \in {r, s}, p # q, Claims(p) PROVE FALSE
    <3>1. req'[p] # req[p]
      BY <2>2 DEF Claims
    <3>2. req'[q] = req[q]
      BY <2>2, <3>1 DEF RequestsMove
    <3>3. Works(req[q]) /\ req[q].entry = req[p].entry
      BY <1>1, <1>5, <2>2, <3>2
    <3>4. FreeAndThere(req[p].entry)
      BY <3>3 DEF OneSettles
    <3>5. QED
      BY <1>1, <2>2, <3>4
  <2>3. QED
    BY <1>5, <2>1, <2>2, WorkMoves
<1>6. ASSUME NEW r \in Requests, Works(req'[r]), SettlingThen(req'[r].entry),
             req'[r].entry \in stranded'
      PROVE  FALSE
  <2> DEFINE b == req'[r].entry
  <2>1. CASE Claims(r)
    <3>1. ~ FreeAndThere(b) /\ req[r].entry = b /\ ~ Works(req[r])
      BY <1>1, <2>1 DEF Claims
    <3>2. b \notin stranded
      BY <3>1 DEF OneSettles
    <3>3. PICK s \in Requests : Leaves(s) /\ req[s].entry = b
      BY <1>6, <3>2 DEF Answered, ReportsMove
    <3>4. QED
      BY <3>1, <3>3 DEF OneSettles, Leaves
  <2>2. CASE Works(req[r]) /\ req[r].entry = b
    <3>1. Settling(b)
      BY <1>2, <1>6, <2>2
    <3>2. b \notin stranded
      BY <2>2, <3>1 DEF OneSettles
    <3>3. PICK s \in Requests : Leaves(s) /\ req[s].entry = b
      BY <1>6, <3>2 DEF Answered, ReportsMove
    <3>4. r = s
      BY <2>2, <3>1, <3>3 DEF OneSettles, Leaves
    <3>5. QED
      BY <1>6, <3>3, <3>4 DEF Leaves
  <2>3. QED
    BY <1>6, <2>1, <2>2, WorkMoves
<1>7. QED
  BY <1>3, <1>4, <1>5, <1>6
  DEF OneSettles, FreeAndThere, FreeThen, Settling, SettlingThen, Works, IsFree, EntryOf

\* While replies are not lost, the repair of a stranded stay never hits one that
\* a live confirm is about to settle.
THEOREM RepairSpares == "ack" \notin Faults => (Spec => RepairSparesLiveConfirm)
<1> SUFFICES ASSUME "ack" \notin Faults PROVE Spec => RepairSparesLiveConfirm
  OBVIOUS
<1>1. Init => OneSettles
  BY DEF Init, OneSettles, Works, WorkPcs, Idle
<1>2. Holds /\ OneSettles /\ [Next]_vars => OneSettles'
  BY RequestsStep, RowsStep, AnswersStep, OneSettlesStep DEF Holds
<1>3. ASSUME Holds, OneSettles, [Next]_vars
      PROVE  \A r \in Requests :
               LET b == req[r].entry
               IN At(r, "flip") /\ req' = req /\ status[b] = "PAYMENT_PENDING" =>
                    status'[b] # "WAITLISTED"
  <2> SUFFICES ASSUME NEW r \in Requests, At(r, "flip"), req' = req,
                      status[req[r].entry] = "PAYMENT_PENDING"
               PROVE  status'[req[r].entry] # "WAITLISTED"
    OBVIOUS
  <2>1. Works(req[r]) /\ Settling(req[r].entry) /\ FreeAndThere(req[r].entry)
    BY <1>3 DEF At, Works, WorkPcs, Settling, OneSettles
  <2>2. req[r].entry \notin stranded
    BY <1>3, <2>1 DEF OneSettles
  <2>3. \A s \in Requests : ~ Leaves(s)
    BY DEF Leaves
  <2>4. RowsMove /\ Answered
    BY <1>3, RowsStep, AnswersStep DEF Holds
  <2>5. FreeThen(req[r].entry)
    BY <2>1, <2>2, <2>3, <2>4, FreeMoves
  <2>6. QED
    BY <2>5 DEF FreeThen
<1>4. Holds /\ OneSettles /\ [Next]_vars =>
        [\A r \in Requests :
           LET b == req[r].entry
           IN At(r, "flip") /\ req' = req /\ status[b] = "PAYMENT_PENDING" =>
                status'[b] # "WAITLISTED"]_vars
  BY <1>3
<1>5. QED
  BY <1>1, <1>2, <1>4, HoldsAlways, PTL DEF Spec, RepairSparesLiveConfirm
=============================================================================
