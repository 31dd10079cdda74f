---------------------------- MODULE WaitlistProofs ----------------------------
(***************************************************************************)
(* For every set of entries, lodges, nights, guests and requests, and for  *)
(* every choice of faults: rows, queue and requests stay in their types.   *)
(* WaitlistRefinement takes its inductive invariant from here.             *)
(***************************************************************************)
EXTENDS Waitlist, FiniteSetTheorems, TLAPS

-----------------------------------------------------------------------------
(* The inductive invariant *)

RowTypes ==
  /\ status \in [Rows -> Statuses]
  /\ lodge \in [Rows -> Lodges \cup {NoLodge}]
  /\ offer \in [Rows -> OfferStates]
  /\ offerLodge \in [Rows -> Lodges \cup {NoLodge}]
  /\ overridden \in SUBSET Rows

RestTypes ==
  /\ refused \in SUBSET Entries
  /\ today \in Nat
  /\ wakes \in SUBSET (Lodges \X Rows)
  /\ stranded \in SUBSET Entries
  /\ flagged \in SUBSET Entries
  /\ drifted \in SUBSET Copies
  /\ dropped \in SUBSET Rows

ReqTypes ==
  /\ req \in [Requests -> Request]
  /\ stale \in SUBSET Requests

\* TypeOK alone is not inductive: a wake names the lodge of a row and a request
\* creates a booking at the lodge it captured, so both must be lodges by then.
Placed == \A x \in Rows : status[x] # "ABSENT" => lodge[x] \in Lodges

\* A running request has an entry that was created, a lodge once it validated
\* a cross-lodge offer, and a replacement once it created one.
RequestOK(q, L) ==
  /\ q.pc # "idle" => q.entry \in Entries /\ L[q.entry] \in Lodges
  /\ q.pc \in {"xcreate", "xfull", "xunwind", "xcleanup"} => q.to \in Lodges
  /\ q.pc \in {"xunwind", "xcleanup"} => q.repl \in Copies /\ L[q.repl] \in Lodges

RequestsOK == \A r \in Requests : RequestOK(req[r], lodge)

RowInv == RowTypes /\ Placed
ReqInv == ReqTypes /\ RequestsOK

IInv == RowInv /\ RestTypes /\ ReqInv

\* Rows do not lose their lodge.
LodgesKept == \A x \in Rows : lodge[x] \in Lodges => lodge'[x] \in Lodges

LEMMA TypeParts == IInv => TypeOK
  BY DEF IInv, RowInv, ReqInv, TypeOK, RowTypes, RestTypes, ReqTypes

\* The rows of a request are rows.
LEMMA RowSets == Entries \subseteq Rows /\ Copies \subseteq Rows
  BY DEF Rows

\* Idle is a request record.
LEMMA IdleType == Idle \in Request /\ Idle.pc = "idle"
  BY DEF Idle, Request, Pcs, Statuses

LEMMA InvInit == Init => IInv
<1> SUFFICES ASSUME Init PROVE IInv
  OBVIOUS
<1>1. RowInv
  BY DEF Init, RowInv, RowTypes, Placed, Statuses, OfferStates
<1>2. RestTypes
  BY DEF Init, RestTypes
<1>3. ReqInv
  BY IdleType DEF Init, ReqInv, ReqTypes, RequestsOK, RequestOK
<1>4. QED
  BY <1>1, <1>2, <1>3 DEF IInv

-----------------------------------------------------------------------------
(* What the helpers keep *)

\* Going back on the waitlist keeps the rows well typed.
LEMMA RequeueRows ==
  ASSUME RowInv, NEW B, \A x \in Rows \cap B : lodge[x] \in Lodges, Requeue(B)
  PROVE  RowInv' /\ LodgesKept
  BY DEF RowInv, RowTypes, Placed, LodgesKept, Requeue, Statuses, ActiveStatuses, OfferStates

\* So does writing a status on a row that exists.
LEMMA SetStatusRows ==
  ASSUME RowInv, NEW x \in Rows, NEW s \in Statuses, lodge[x] \in Lodges, SetStatus(x, s)
  PROVE  RowInv' /\ LodgesKept
  BY DEF RowInv, RowTypes, Placed, LodgesKept, SetStatus

LEMMA SameRows ==
  ASSUME RowInv, UNCHANGED rowVars
  PROVE  RowInv' /\ LodgesKept
  BY DEF RowInv, RowTypes, Placed, LodgesKept, rowVars

LEMMA SameRest ==
  ASSUME RestTypes, UNCHANGED restVars
  PROVE  RestTypes'
  BY DEF RestTypes, restVars, auditVars

\* One request moves to the record q, the others stay.
LEMMA RequestMoves ==
  ASSUME ReqInv, LodgesKept, RowInv, NEW r \in Requests, NEW q \in Request, RequestOK(q, lodge'),
         req' = [req EXCEPT ![r] = q], stale' \in SUBSET Requests
  PROVE  ReqInv'
<1>1. ReqTypes'
  BY DEF ReqInv, ReqTypes
<1>2. ASSUME NEW s \in Requests
      PROVE  RequestOK(req'[s], lodge')
  <2>1. CASE s = r
    BY <2>1 DEF ReqInv, ReqTypes
  <2>2. CASE s # r
    <3>1. req'[s] = req[s] /\ RequestOK(req[s], lodge)
      BY <2>2 DEF ReqInv, ReqTypes, RequestsOK
    <3>2. QED
      BY <3>1, RowSets DEF RequestOK, LodgesKept
  <2>3. QED
    BY <2>1, <2>2
<1>3. QED
  BY <1>1, <1>2 DEF ReqInv, RequestsOK

LEMMA RequestFinishes ==
  ASSUME ReqInv, LodgesKept, RowInv, NEW r \in Requests, NEW B, FinishWriting(r, B)
  PROVE  ReqInv'
<1>1. RequestOK(Idle, lodge')
  BY IdleType DEF RequestOK
<1>2. stale' \in SUBSET Requests
  BY DEF ReqInv, ReqTypes, FinishWriting, Watching
<1>3. QED
  BY <1>1, <1>2, IdleType, RequestMoves DEF FinishWriting

LEMMA RequestGoes ==
  ASSUME ReqInv, LodgesKept, RowInv, NEW r \in Requests, NEW pc \in Pcs, Goto(r, pc),
         req[r].pc # "idle",
         pc \in {"xcreate", "xfull", "xunwind", "xcleanup"} => req[r].pc = "xcreate",
         pc \notin {"xunwind", "xcleanup"},
         stale' \in SUBSET Requests
  PROVE  ReqInv'
<1> DEFINE q == [req[r] EXCEPT !.pc = pc]
<1>1. req[r] \in Request /\ RequestOK(req[r], lodge)
  BY DEF ReqInv, ReqTypes, RequestsOK
<1>2. q \in Request
  BY <1>1 DEF Request
<1>3. q.pc = pc /\ q.entry = req[r].entry /\ q.to = req[r].to
  BY <1>1 DEF Request
<1>4. RequestOK(q, lodge')
  BY <1>1, <1>3, RowSets DEF RequestOK, LodgesKept
<1>5. req' = [req EXCEPT ![r] = q]
  BY DEF Goto
<1> HIDE DEF q
<1>6. QED
  BY <1>2, <1>4, <1>5, RequestMoves

\* Requests only watch rows; nobody moves.
LEMMA RequestsStay ==
  ASSUME ReqInv, LodgesKept, RowInv, req' = req, stale' \in SUBSET Requests
  PROVE  ReqInv'
  BY RowSets DEF ReqInv, ReqTypes, RequestsOK, RequestOK, LodgesKept

LEMMA TouchStale ==
  ASSUME ReqInv, NEW B, Touch(B)
  PROVE  stale' \in SUBSET Requests
  BY DEF ReqInv, ReqTypes, Touch, Watching

-----------------------------------------------------------------------------
(* The transactions of one step *)

LEMMA MemberStepKeeps ==
  ASSUME IInv, MemberStep
  PROVE  IInv'
<1> USE RowSets DEF IInv
<1>1. ASSUME NEW b \in Entries, RefuseForCapacity(b) PROVE IInv'
  <2>1. RowInv' /\ LodgesKept
    BY <1>1, SameRows DEF RefuseForCapacity
  <2>2. RestTypes'
    BY <1>1 DEF RefuseForCapacity, RestTypes, auditVars
  <2>3. ReqInv'
    BY <1>1, <2>1, RequestsStay DEF RefuseForCapacity, reqVars, ReqInv, ReqTypes
  <2>4. QED
    BY <2>1, <2>2, <2>3
<1>2. ASSUME NEW b \in Entries, JoinWaitlist(b) PROVE IInv'
  <2>1. RowInv' /\ LodgesKept
    BY <1>2, WaitlistAssumption
    DEF JoinWaitlist, RowInv, RowTypes, Placed, LodgesKept, Statuses
  <2>2. RestTypes'
    BY <1>2 DEF JoinWaitlist, RestTypes, auditVars
  <2>3. ReqInv'
    BY <1>2, <2>1, RequestsStay DEF JoinWaitlist, reqVars, ReqInv, ReqTypes
  <2>4. QED
    BY <2>1, <2>2, <2>3
<1>3. ASSUME NEW b \in Entries, NEW s \in CreateAs, CreateBooking(b, s) PROVE IInv'
  <2>1. RowInv' /\ LodgesKept
    BY <1>3, WaitlistAssumption
    DEF CreateBooking, RowInv, RowTypes, Placed, LodgesKept, Statuses, ActiveStatuses
  <2>2. RestTypes'
    BY <1>3 DEF CreateBooking, RestTypes, auditVars
  <2>3. ReqInv'
    BY <1>3, <2>1, RequestsStay DEF CreateBooking, reqVars, ReqInv, ReqTypes
  <2>4. QED
    BY <2>1, <2>2, <2>3
<1>4. ASSUME NEW x \in Rows, SettlePayment(x) PROVE IInv'
  <2>1. RowInv' /\ LodgesKept
    <3>1. lodge[x] \in Lodges
      BY <1>4 DEF SettlePayment, PayableStatuses, RowInv, Placed
    <3>2. (IF StillSettles(x) THEN "PAID" ELSE "CANCELLED") \in Statuses
      BY DEF Statuses, ActiveStatuses
    <3>3. QED
      BY <1>4, <3>1, <3>2, SetStatusRows DEF SettlePayment
  <2>2. RestTypes'
    BY <1>4, SameRest DEF SettlePayment
  <2>3. ReqInv'
    BY <1>4, <2>1, RequestsStay, TouchStale DEF SettlePayment
  <2>4. QED
    BY <2>1, <2>2, <2>3
<1>5. ASSUME NEW x \in Rows, CancelUnpaid(x) PROVE IInv'
  <2>1. RowInv' /\ LodgesKept /\ lodge[x] \in Lodges
    BY <1>5
    DEF CancelUnpaid, NoPaymentCancellableStatuses, RowInv, RowTypes, Placed, LodgesKept,
        Statuses, OfferStates
  <2>2. RestTypes'
    BY <1>5, <2>1 DEF CancelUnpaid, RestTypes, Wake, auditVars
  <2>3. ReqInv'
    BY <1>5, <2>1, RequestsStay, TouchStale DEF CancelUnpaid
  <2>4. QED
    BY <2>1, <2>2, <2>3
<1>6. ASSUME NEW x \in Rows, CancelPlaced(x) PROVE IInv'
  <2>1. lodge[x] \in Lodges /\ "CANCELLED" \in Statuses
    BY <1>6 DEF CancelPlaced, RowInv, Placed, Statuses
  <2>2. RowInv' /\ LodgesKept
    BY <1>6, <2>1, SetStatusRows DEF CancelPlaced
  <2>3. RestTypes'
    BY <1>6, <2>1 DEF CancelPlaced, RestTypes, Wake, auditVars
  <2>4. ReqInv'
    BY <1>6, <2>2, RequestsStay, TouchStale DEF CancelPlaced
  <2>5. QED
    BY <2>2, <2>3, <2>4
<1>7. ASSUME NEW r \in Requests, NEW b \in Entries, StartConfirm(r, b) PROVE IInv'
  <2>1. RowInv' /\ LodgesKept /\ RestTypes'
    BY <1>7, SameRows, SameRest DEF StartConfirm, OnlyMoves
  <2>2. lodge[b] \in Lodges
    BY <1>7 DEF StartConfirm, RowInv, Placed
  <2>3. PICK pc \in {"xpolicy", "claim", "revert"} :
          req' = [req EXCEPT ![r] =
                    [Idle EXCEPT !.pc = pc, !.entry = b,
                       !.judged = IF pc # "xpolicy" /\ LiveOffer(b) THEN lodge[b] ELSE NoLodge]]
    BY <1>7 DEF StartConfirm
  <2> DEFINE q == [Idle EXCEPT !.pc = pc, !.entry = b,
                     !.judged = IF pc # "xpolicy" /\ LiveOffer(b) THEN lodge[b] ELSE NoLodge]
  <2>4. q \in Request /\ q.pc = pc /\ q.entry = b
    BY <2>2, IdleType DEF Request, Pcs, Idle
  <2>5. RequestOK(q, lodge')
    BY <2>1, <2>2, <2>4 DEF RequestOK, LodgesKept
  <2>6. stale' \in SUBSET Requests
    BY <1>7 DEF StartConfirm, ReqInv, ReqTypes
  <2>7. req' = [req EXCEPT ![r] = q]
    BY <2>3
  <2> HIDE DEF q
  <2>8. ReqInv'
    BY <2>1, <2>4, <2>5, <2>6, <2>7, RequestMoves
  <2>9. QED
    BY <2>1, <2>8
<1>8. QED
  BY <1>1, <1>2, <1>3, <1>4, <1>5, <1>6, <1>7 DEF MemberStep

LEMMA QueueStepKeeps ==
  ASSUME IInv, QueueStep
  PROVE  IInv'
<1> USE RowSets DEF IInv
<1>1. ASSUME NEW l \in Lodges, NEW x \in Rows, ProcessWaitlist(l, x) PROVE IInv'
  <2>1. \/ UNCHANGED <<rowVars, stale>>
        \/ \E o \in Opportunities(l, StayOf(x)) : MakeOffer(o)
    BY <1>1 DEF ProcessWaitlist, First
  <2>2. CASE UNCHANGED <<rowVars, stale>>
    <3>1. RowInv' /\ LodgesKept
      BY <2>2, SameRows
    <3>2. ReqInv'
      BY <1>1, <2>2, <3>1, RequestsStay DEF ProcessWaitlist, ReqInv, ReqTypes
    <3>3. QED
      BY <1>1, <3>1, <3>2 DEF ProcessWaitlist, RestTypes, auditVars
  <2>3. ASSUME NEW o \in Opportunities(l, StayOf(x)), MakeOffer(o) PROVE IInv'
    <3>1. o.entry \in Entries /\ o.lodge \in Lodges /\ lodge[o.entry] \in Lodges
      BY <2>3, WaitlistAssumption DEF Opportunities, Candidates, RowInv, Placed
    <3>2. RowInv' /\ LodgesKept
      BY <2>3, <3>1
      DEF MakeOffer, RowInv, RowTypes, Placed, LodgesKept, Statuses, OfferStates
    <3>3. ReqInv'
      BY <1>1, <2>3, <3>2, RequestsStay, TouchStale DEF ProcessWaitlist, MakeOffer
    <3>4. QED
      BY <1>1, <3>2, <3>3 DEF ProcessWaitlist, RestTypes, auditVars
  <2>4. QED
    BY <2>1, <2>2, <2>3
<1>2. ASSUME NEW l \in Lodges, NEW x \in Rows, LoseWake(l, x) PROVE IInv'
  <2>1. RowInv' /\ LodgesKept
    BY <1>2, SameRows DEF LoseWake
  <2>2. ReqInv'
    BY <1>2, <2>1, RequestsStay DEF LoseWake, reqVars, ReqInv, ReqTypes
  <2>3. QED
    BY <1>2, <2>1, <2>2 DEF LoseWake, RestTypes, auditVars
<1>3. CASE ExpireStaleOffers
  <2>1. \A b \in Lapsed : b \in Entries /\ lodge[b] \in Lodges
    BY DEF Lapsed, RowInv, Placed
  <2>2. RowInv' /\ LodgesKept
    BY <1>3, <2>1, RequeueRows DEF ExpireStaleOffers
  <2>3. \A b \in Lapsed : FreedLodge(b) \in Lodges
    BY <2>1 DEF FreedLodge, RowInv, RowTypes
  <2>4. RestTypes'
    BY <1>3, <2>1, <2>3 DEF ExpireStaleOffers, RestTypes, auditVars
  <2>5. ReqInv'
    BY <1>3, <2>2, RequestsStay, TouchStale DEF ExpireStaleOffers
  <2>6. QED
    BY <2>2, <2>4, <2>5
<1>4. ASSUME NEW b \in Entries, Lapse(b) PROVE IInv'
  <2>1. RowInv' /\ LodgesKept
    BY <1>4 DEF Lapse, RowInv, RowTypes, Placed, LodgesKept, OfferStates
  <2>2. ReqInv' /\ RestTypes'
    BY <1>4, <2>1, SameRest, RequestsStay DEF Lapse, reqVars, ReqInv, ReqTypes
  <2>3. QED
    BY <2>1, <2>2
<1>5. ASSUME NEW b \in Entries, CancelPast(b) PROVE IInv'
  <2>1. RowInv' /\ LodgesKept
    BY <1>5 DEF CancelPast, RowInv, RowTypes, Placed, LodgesKept, Statuses, OfferStates
  <2>2. RestTypes'
    BY <1>5, SameRest DEF CancelPast
  <2>3. ReqInv'
    BY <1>5, <2>1, RequestsStay, TouchStale DEF CancelPast
  <2>4. QED
    BY <2>1, <2>2, <2>3
<1>6. CASE NextDay
  <2>1. RowInv' /\ LodgesKept
    BY <1>6, SameRows DEF NextDay
  <2>2. ReqInv'
    BY <1>6, <2>1, RequestsStay DEF NextDay, reqVars, ReqInv, ReqTypes
  <2>3. QED
    BY <1>6, <2>1, <2>2 DEF NextDay, RestTypes, auditVars
<1>7. QED
  BY <1>1, <1>2, <1>3, <1>4, <1>5, <1>6 DEF QueueStep

LEMMA AdminStepKeeps ==
  ASSUME IInv, AdminStep
  PROVE  IInv'
<1> USE RowSets DEF IInv
<1>1. ASSUME NEW b \in Entries, NEW o \in BOOLEAN, NEW u \in BOOLEAN, ForceConfirm(b, o, u)
      PROVE  IInv'
  <2>1. RowInv' /\ LodgesKept
    BY <1>1
    DEF ForceConfirm, RecordOverride, RowInv, RowTypes, Placed, LodgesKept, Statuses,
        ActiveStatuses, OfferStates
  <2>2. RestTypes'
    BY <1>1, SameRest DEF ForceConfirm
  <2>3. ReqInv'
    BY <1>1, <2>1, RequestsStay, TouchStale DEF ForceConfirm
  <2>4. QED
    BY <2>1, <2>2, <2>3
<1>2. ASSUME NEW b \in Entries, ReturnToWaitlist(b) PROVE IInv'
  <2>1. lodge[b] \in Lodges
    BY <1>2 DEF ReturnToWaitlist, RowInv, Placed
  <2>2. RowInv' /\ LodgesKept
    BY <1>2, <2>1, RequeueRows DEF ReturnToWaitlist
  <2>3. RestTypes'
    BY <1>2, <2>1 DEF ReturnToWaitlist, RestTypes, SpendReport, Wake
  <2>4. ReqInv'
    BY <1>2, <2>2, RequestsStay, TouchStale DEF ReturnToWaitlist
  <2>5. QED
    BY <2>2, <2>3, <2>4
<1>3. ASSUME NEW b \in Entries, NEW s \in CreateAs, CreateOverCeiling(b, s) PROVE IInv'
  <2>1. RowInv' /\ LodgesKept
    BY <1>3, WaitlistAssumption
    DEF CreateOverCeiling, RowInv, RowTypes, Placed, LodgesKept, Statuses, ActiveStatuses
  <2>2. RestTypes'
    BY <1>3 DEF CreateOverCeiling, RestTypes, auditVars
  <2>3. ReqInv'
    BY <1>3, <2>1, RequestsStay DEF CreateOverCeiling, reqVars, ReqInv, ReqTypes
  <2>4. QED
    BY <2>1, <2>2, <2>3
<1>4. QED
  BY <1>1, <1>2, <1>3 DEF AdminStep

-----------------------------------------------------------------------------
(* The steps of a request *)

\* A request that answers without a write, or by putting its entry back.
LEMMA RefusedKeeps ==
  ASSUME IInv, NEW r \in Requests, Refused(r)
  PROVE  IInv'
<1> USE DEF IInv
<1>1. RowInv' /\ LodgesKept /\ RestTypes'
  BY SameRows, SameRest DEF Refused, OnlyMoves
<1>2. QED
  BY <1>1, RequestFinishes DEF Refused, Finish

LEMMA RequeueAndFinishKeeps ==
  ASSUME IInv, NEW r \in Requests, req[r].pc # "idle", RequeueAndFinish(r)
  PROVE  IInv'
<1> USE DEF IInv
<1>1. lodge[req[r].entry] \in Lodges
  BY DEF ReqInv, RequestsOK, RequestOK
<1>2. RowInv' /\ LodgesKept /\ RestTypes'
  BY <1>1, RequeueRows, SameRest DEF RequeueAndFinish
<1>3. QED
  BY <1>2, RequestFinishes DEF RequeueAndFinish

LEMMA RequeueAndGotoKeeps ==
  ASSUME IInv, NEW r \in Requests, NEW pc \in {"release", "report"}, req[r].pc # "idle",
         RequeueAndGoto(r, pc)
  PROVE  IInv'
<1> USE RowSets DEF IInv
<1>1. lodge[req[r].entry] \in Lodges
  BY DEF ReqInv, RequestsOK, RequestOK
<1>2. RowInv' /\ LodgesKept /\ RestTypes'
  BY <1>1, RequeueRows, SameRest DEF RequeueAndGoto
<1>3. ReqInv'
  BY <1>2, TouchStale, RequestGoes DEF RequeueAndGoto, Pcs
<1>4. QED
  BY <1>2, <1>3

\* The entry of a running request.
LEMMA EntryOfRequest ==
  ASSUME IInv, NEW r \in Requests, req[r].pc # "idle"
  PROVE  /\ req[r].entry \in Entries /\ req[r].entry \in Rows
         /\ lodge[req[r].entry] \in Lodges
  BY RowSets DEF IInv, ReqInv, RequestsOK, RequestOK

LEMMA OwnStepKeeps ==
  ASSUME IInv, NEW r \in Requests, OwnStep(r)
  PROVE  IInv'
<1> USE RowSets DEF IInv, At
<1> DEFINE b == req[r].entry
<1>1. CASE RevertOwn(r)
  BY <1>1, RefusedKeeps, RequeueAndFinishKeeps DEF RevertOwn
<1>2. CASE ClaimRefused(r) \/ ClaimNoRoom(r)
  BY <1>2, RefusedKeeps, RequeueAndFinishKeeps DEF ClaimRefused, ClaimNoRoom
<1>3. ASSUME NEW s \in {"PENDING", "PAYMENT_PENDING"}, ClaimTaken(r, s)
      PROVE  IInv'
  <2>1. b \in Rows /\ lodge[b] \in Lodges /\ req[r].pc # "idle"
    BY <1>3, EntryOfRequest DEF ClaimTaken
  <2>2. RowInv' /\ LodgesKept
    BY <1>3, <2>1
    DEF ClaimTaken, RowInv, RowTypes, Placed, LodgesKept, Statuses, ActiveStatuses, OfferStates
  <2>3. RestTypes'
    BY <1>3, <2>1 DEF ClaimTaken, RestTypes
  <2>4. ReqInv'
    <3>1. CASE Goto(r, "flip") /\ Touch({b})
      BY <2>1, <2>2, <3>1, TouchStale, RequestGoes DEF Pcs
    <3>2. CASE FinishWriting(r, {b})
      BY <2>2, <3>2, RequestFinishes
    <3>3. QED
      BY <1>3, <3>1, <3>2 DEF ClaimTaken
  <2>5. QED
    BY <2>2, <2>3, <2>4
<1>4. CASE FlipMoved(r) \/ FlipNoRoom(r)
  BY <1>4, RefusedKeeps, RequeueAndFinishKeeps, RequeueAndGotoKeeps DEF FlipMoved, FlipNoRoom
<1>5. CASE FlipPaid(r)
  <2>1. b \in Rows /\ lodge[b] \in Lodges /\ req[r].pc # "idle" /\ "PAID" \in Statuses
    BY <1>5, EntryOfRequest DEF FlipPaid, Statuses, ActiveStatuses
  <2>2. RowInv' /\ LodgesKept /\ RestTypes'
    BY <1>5, <2>1, SetStatusRows, SameRest DEF FlipPaid
  <2>3. ReqInv'
    <3>1. CASE Goto(r, "release") /\ Touch({b})
      BY <2>1, <2>2, <3>1, TouchStale, RequestGoes DEF Pcs
    <3>2. CASE FinishWriting(r, {b})
      BY <2>2, <3>2, RequestFinishes
    <3>3. QED
      BY <1>5, <3>1, <3>2 DEF FlipPaid
  <2>4. QED
    BY <2>2, <2>3
<1>6. CASE FlipThrew(r) \/ ReleaseThrew(r)
  <2>1. RowInv' /\ LodgesKept /\ RestTypes'
    BY <1>6, SameRows, SameRest DEF FlipThrew, ReleaseThrew, OnlyMoves
  <2>2. PICK pc \in {"release", "report"} : Goto(r, pc)
    BY <1>6 DEF FlipThrew, ReleaseThrew
  <2>3. stale' \in SUBSET Requests /\ req[r].pc # "idle"
    BY <1>6 DEF FlipThrew, ReleaseThrew, ReqInv, ReqTypes
  <2>4. ReqInv'
    BY <2>1, <2>2, <2>3, RequestGoes DEF Pcs
  <2>5. QED
    BY <2>1, <2>4
<1>7. CASE Release(r)
  <2>1. CASE RequeueAndFinish(r)
    BY <1>7, <2>1, RequeueAndFinishKeeps DEF Release
  <2>2. CASE RequeueAndGoto(r, "report")
    BY <1>7, <2>2, RequeueAndGotoKeeps DEF Release
  <2>3. CASE Refused(r)
    BY <2>3, RefusedKeeps
  <2>4. QED
    BY <1>7, <2>1, <2>2, <2>3 DEF Release
<1>8. CASE Report(r)
  <2>1. RowInv' /\ LodgesKept
    BY <1>8, SameRows DEF Report
  <2>2. RestTypes'
    BY <1>8, EntryOfRequest DEF Report, RestTypes
  <2>3. QED
    BY <1>8, <2>1, <2>2, RequestFinishes DEF Report, Finish
<1>9. CASE ReadThrew(r)
  <2>1. RowInv' /\ LodgesKept
    BY <1>9, SameRows DEF ReadThrew
  <2>2. RestTypes'
    BY <1>9, EntryOfRequest DEF ReadThrew, RestTypes
  <2>3. QED
    BY <1>9, <2>1, <2>2, RequestFinishes DEF ReadThrew, Finish
<1>10. QED
  BY <1>1, <1>2, <1>3, <1>4, <1>5, <1>6, <1>7, <1>8, <1>9 DEF OwnStep

LEMMA CrossStepKeeps ==
  ASSUME IInv, NEW r \in Requests, CrossStep(r)
  PROVE  IInv'
<1> USE RowSets DEF IInv, At
<1> DEFINE b == req[r].entry
<1>1. CASE XPolicy(r)
  <2>1. RowInv' /\ LodgesKept /\ RestTypes' /\ stale' \in SUBSET Requests
    BY <1>1, SameRows, SameRest DEF XPolicy, OnlyMoves, ReqInv, ReqTypes
  <2>2. CASE Goto(r, "xvalidate")
    BY <1>1, <2>1, <2>2, RequestGoes DEF XPolicy, Pcs
  <2>3. ASSUME NEW pc \in {"xvalidate", "xrevert"},
               req' = [req EXCEPT ![r].pc = pc, ![r].judged = offerLodge[b]]
        PROVE  IInv'
    <3> DEFINE q == [req[r] EXCEPT !.pc = pc, !.judged = offerLodge[b]]
    <3>1. /\ req[r] \in Request /\ RequestOK(req[r], lodge)
          /\ b \in Rows /\ lodge[b] \in Lodges /\ b \in Entries
      BY <1>1, EntryOfRequest DEF XPolicy, ReqInv, ReqTypes, RequestsOK
    <3>2. q \in Request /\ q.pc = pc /\ q.entry = b
      BY <3>1 DEF Request, Pcs, RowInv, RowTypes
    <3>3. RequestOK(q, lodge')
      BY <2>1, <3>1, <3>2 DEF RequestOK, LodgesKept
    <3>4. req' = [req EXCEPT ![r] = q]
      BY <2>3 DEF ReqInv, ReqTypes, Request
    <3> HIDE DEF q
    <3>5. QED
      BY <2>1, <3>2, <3>3, <3>4, RequestMoves
  <2>4. QED
    BY <1>1, <2>2, <2>3 DEF XPolicy
<1>2. CASE XRevert(r) \/ XRefused(r) \/ XReturned(r) \/ XCreateRefused(r)
  BY <1>2, RefusedKeeps, RequeueAndFinishKeeps DEF XRevert, XRefused, XReturned, XCreateRefused
<1>3. CASE XRepriced(r)
  <2>1. RowInv' /\ LodgesKept /\ RestTypes'
    BY <1>3, SameRows, SameRest DEF XRepriced, OnlyMoves
  <2>2. QED
    BY <1>3, <2>1, RequestFinishes DEF XRepriced
<1>4. CASE XValidated(r)
  <2>1. RowInv' /\ LodgesKept /\ RestTypes' /\ stale' \in SUBSET Requests
    BY <1>4, SameRows, SameRest DEF XValidated, OnlyMoves, ReqInv, ReqTypes
  <2> DEFINE q == [req[r] EXCEPT !.pc = "xcreate", !.to = offerLodge[b]]
  <2>2. /\ req[r] \in Request /\ RequestOK(req[r], lodge)
        /\ b \in Rows /\ lodge[b] \in Lodges /\ b \in Entries
    BY <1>4, EntryOfRequest DEF XValidated, ReqInv, ReqTypes, RequestsOK
  <2>3. offerLodge[b] \in Lodges
    BY <1>4, <2>2 DEF XValidated, Confirmable, RowInv, RowTypes
  <2>4. q \in Request /\ q.pc = "xcreate" /\ q.entry = b /\ q.to = offerLodge[b]
    BY <2>2, <2>3 DEF Request, Pcs
  <2>5. RequestOK(q, lodge')
    BY <2>1, <2>2, <2>3, <2>4 DEF RequestOK, LodgesKept
  <2>6. req' = [req EXCEPT ![r] = q]
    BY <1>4 DEF XValidated, ReqInv, ReqTypes, Request
  <2> HIDE DEF q
  <2>7. QED
    BY <2>1, <2>4, <2>5, <2>6, RequestMoves
<1>5. CASE XCreateFull(r)
  <2>1. RowInv' /\ LodgesKept /\ RestTypes' /\ stale' \in SUBSET Requests
    BY <1>5, SameRows, SameRest DEF XCreateFull, OnlyMoves, ReqInv, ReqTypes
  <2>2. QED
    BY <1>5, <2>1, RequestGoes DEF XCreateFull, Pcs
<1>6. ASSUME NEW c \in Copies, NEW s \in {"PENDING", "PAYMENT_PENDING", "AWAITING_REVIEW"},
             XCreated(r, c, s)
      PROVE  IInv'
  <2> DEFINE made == IF s = "PAYMENT_PENDING" /\ IsFree(b) THEN "PAID" ELSE s
  <2>1. /\ req[r] \in Request /\ RequestOK(req[r], lodge) /\ req[r].to \in Lodges
        /\ b \in Rows /\ b \in Entries /\ lodge[b] \in Lodges
    BY <1>6, EntryOfRequest DEF XCreated, ReqInv, ReqTypes, RequestsOK, RequestOK
  <2>2. made \in Statuses /\ made # "ABSENT"
    BY DEF Statuses, ActiveStatuses
  <2>3. RowInv' /\ LodgesKept /\ lodge'[c] \in Lodges
    BY <1>6, <2>1, <2>2 DEF XCreated, RowInv, RowTypes, Placed, LodgesKept
  <2>4. RestTypes'
    BY <1>6 DEF XCreated, RestTypes
  <2>5. ASSUME NEW pc \in {"xcleanup", "xunwind"}, stale' = stale,
               req' = [req EXCEPT ![r].pc = pc, ![r].repl = c, ![r].made = made]
        PROVE  ReqInv'
    <3> DEFINE q == [req[r] EXCEPT !.pc = pc, !.repl = c, !.made = made]
    <3>1. q \in Request /\ q.pc = pc /\ q.entry = b /\ q.to = req[r].to /\ q.repl = c
      BY <2>1, <2>2 DEF Request, Pcs
    <3>2. RequestOK(q, lodge')
      BY <2>1, <2>3, <3>1 DEF RequestOK, LodgesKept
    <3>3. req' = [req EXCEPT ![r] = q]
      BY <2>5 DEF ReqInv, ReqTypes, Request
    <3>4. stale' \in SUBSET Requests
      BY <2>5 DEF ReqInv, ReqTypes
    <3> HIDE DEF q
    <3>5. QED
      BY <2>3, <3>1, <3>2, <3>3, <3>4, RequestMoves
  <2>6. CASE Finish(r)
    BY <2>3, <2>4, <2>6, RequestFinishes DEF Finish
  <2>7. QED
    BY <1>6, <2>3, <2>4, <2>5, <2>6 DEF XCreated
<1>7. CASE XFull(r)
  BY <1>7, RefusedKeeps, RequeueAndFinishKeeps DEF XFull
<1>8. CASE XUnwind(r)
  <2> DEFINE c == req[r].repl
  <2>1. CASE Refused(r)
    BY <2>1, RefusedKeeps
  <2>2. CASE /\ SetStatus(c, "CANCELLED")
             /\ FinishWriting(r, IF Fresh(r) THEN {b} ELSE {})
             /\ UNCHANGED restVars
    <3>1. c \in Rows /\ lodge[c] \in Lodges /\ "CANCELLED" \in Statuses
      BY <1>8 DEF XUnwind, ReqInv, RequestsOK, RequestOK, Statuses
    <3>2. RowInv' /\ LodgesKept /\ RestTypes'
      BY <2>2, <3>1, SetStatusRows, SameRest
    <3>3. QED
      BY <2>2, <3>2, RequestFinishes
  <2>3. QED
    BY <1>8, <2>1, <2>2 DEF XUnwind
<1>9. CASE XCleanup(r)
  <2>1. b \in Entries /\ b \in Rows /\ lodge[b] \in Lodges
    BY <1>9, EntryOfRequest DEF XCleanup
  <2>2. RowInv' /\ LodgesKept
    BY <1>9, <2>1, SameRows
    DEF XCleanup, RowInv, RowTypes, Placed, LodgesKept, Statuses, OfferStates
  <2>3. RestTypes'
    BY <1>9, <2>1 DEF XCleanup, Flag, RestTypes
  <2>4. ReqInv'
    BY <1>9, <2>2, RequestFinishes DEF XCleanup, Finish
  <2>5. QED
    BY <2>2, <2>3, <2>4
<1>10. QED
  BY <1>1, <1>2, <1>3, <1>4, <1>5, <1>6, <1>7, <1>8, <1>9 DEF CrossStep

\* Every step keeps the inductive invariant.
LEMMA InvStep == IInv /\ [Next]_vars => IInv'
<1> SUFFICES ASSUME IInv, [Next]_vars PROVE IInv'
  OBVIOUS
<1>1. ASSUME NEW r \in Requests, Crash(r) PROVE IInv'
  BY <1>1, RefusedKeeps DEF Crash
<1>2. CASE UNCHANGED vars
  <2>1. RowInv' /\ LodgesKept /\ RestTypes' /\ stale' \in SUBSET Requests
    BY <1>2, SameRows, SameRest DEF vars, reqVars, IInv, ReqInv, ReqTypes
  <2>2. QED
    BY <1>2, <2>1, RequestsStay DEF vars, reqVars, IInv
<1>3. QED
  BY <1>1, <1>2, MemberStepKeeps, QueueStepKeeps, AdminStepKeeps, OwnStepKeeps, CrossStepKeeps
  DEF Next

THEOREM InvHolds == Spec => []IInv
  BY InvInit, InvStep, PTL DEF Spec

\* The rows, the queue and the requests stay in their types.
THEOREM WaitlistTypes == Spec => []TypeOK
<1>1. IInv => TypeOK
  BY TypeParts
<1>2. QED
  BY <1>1, InvHolds, PTL
=============================================================================
