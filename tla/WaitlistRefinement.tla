-------------------------- MODULE WaitlistRefinement --------------------------
(***************************************************************************)
(* The waitlist implements the bed ledger, and so keeps its ceiling.  Each *)
(* step gives back the beds of one row, takes the beds of one row that     *)
(* fits, takes or records them under an override, or moves no bed at all.  *)
(***************************************************************************)
EXTENDS WaitlistProofs

Abstract == INSTANCE BedLedgerProofs WITH claims <- [x \in Rows |-> Claim(x)]

\* A step of the ledger, or none.
LedgerStep == [Ledger!Next]_Ledger!vars

\* A step that leaves every other row's status and lodge alone.
OthersKeep(x) ==
  /\ \A y \in Rows \ {x} : status'[y] = status[y] /\ lodge'[y] = lodge[y]

\* The party of a row sleeps only on the nights of its stay, and is of guests.
LEMMA PartyFacts ==
  ASSUME NEW x \in Rows
  PROVE  /\ EntryOf(x) \in Entries
         /\ \A n \in Nights : PartyOn(x, n) \in SUBSET Guests
                              /\ (PartyOn(x, n) # {} => n \in StayOf(x))
<1>1. EntryOf(x) \in Entries
  BY WaitlistAssumption DEF EntryOf, Rows
<1>2. Party[EntryOf(x)] \in [Nights -> SUBSET Guests]
  BY <1>1, WaitlistAssumption
<1>3. ASSUME NEW n \in Nights
      PROVE  PartyOn(x, n) \in SUBSET Guests
  BY <1>2 DEF PartyOn
<1>4. ASSUME NEW n \in Nights, PartyOn(x, n) # {}
      PROVE  n \in StayOf(x)
  BY <1>1, <1>4, WaitlistAssumption DEF PartyOn, StayOf
<1>5. QED
  BY <1>1, <1>3, <1>4

\* Claims are sets of the ledger's triples, and follow status and lodge.
LEMMA ClaimType ==
  ASSUME NEW x \in Rows
  PROVE  /\ Claim(x) \in SUBSET Ledger!Triples
         /\ Claim(x)' \in SUBSET Ledger!Triples
  BY DEF Claim, Ledger!Triples

LEMMA ClaimFollows ==
  ASSUME NEW x, status'[x] = status[x], lodge'[x] = lodge[x]
  PROVE  Claim(x)' = Claim(x)
  BY DEF Claim

LEMMA OthersClaims ==
  ASSUME NEW x \in Rows, OthersKeep(x)
  PROVE  \A y \in Rows \ {x} : Claim(y)' = Claim(y)
  BY ClaimFollows DEF OthersKeep

\* No bed moves.
LEMMA NoBedMoves ==
  ASSUME \A x \in Rows : Claim(x)' = Claim(x), overridden' = overridden
  PROVE  LedgerStep
  BY DEF LedgerStep, Ledger!vars

\* A row that does not hold capacity after the step has given back what it had.
LEMMA GivesBack ==
  ASSUME NEW x \in Rows, OthersKeep(x), ~ HoldsCapacity(status'[x]), overridden' = overridden
  PROVE  LedgerStep
<1>1. Claim(x)' = {}
  BY DEF Claim
<1>2. Ledger!Release(x)
  BY <1>1, OthersClaims DEF Ledger!Release
<1>3. QED
  BY <1>2 DEF LedgerStep, Ledger!Next

\* The ledger's occupied beds are the sleepers of the capacity check.
LEMMA OccupiedIsSleepers ==
  ASSUME RowInv, NEW x \in Rows, Claim(x) = {}, NEW l \in Lodges, NEW n \in Nights
  PROVE  Ledger!Occupied(l, n) = {p \in Sleepers(l, n) : p[1] # x}
<1>1. ASSUME NEW y \in Rows, NEW g \in Guests
      PROVE  <<l, n, g>> \in Claim(y) <=>
               HoldsCapacity(status[y]) /\ lodge[y] = l /\ g \in PartyOn(y, n)
  BY DEF Claim
<1>2. QED
  BY <1>1 DEF Ledger!Occupied, Sleepers

\* The ledger counts as the waitlist does.
LEMMA SameCount ==
  ASSUME NEW S
  PROVE  Ledger!Cardinality(S) = Cardinality(S)
  BY DEF Ledger!Cardinality, Cardinality

\* A party that fits where the capacity check looked fits in the ledger.
LEMMA FitsIsFitsUnder ==
  ASSUME RowInv, NEW x \in Rows, NEW l \in Lodges, Claim(x) = {}, Fits(x, l),
         HoldsCapacity(status'[x]), lodge'[x] = l
  PROVE  Ledger!FitsUnder(Claim(x)')
<1> SUFFICES ASSUME NEW m \in Lodges, NEW n \in Nights, Ledger!Sleeping(Claim(x)', m, n) # {}
             PROVE  Ledger!Cardinality(Ledger!Occupied(m, n))
                      + Ledger!Cardinality(Ledger!Sleeping(Claim(x)', m, n)) <= Beds[m]
  BY DEF Ledger!FitsUnder
<1>1. m = l
  BY DEF Ledger!Sleeping, Claim
<1>2. Ledger!Sleeping(Claim(x)', m, n) = PartyOn(x, n)
  BY <1>1, PartyFacts DEF Ledger!Sleeping, Claim
<1>3. n \in StayOf(x)
  BY <1>2, PartyFacts
<1>4. Ledger!Occupied(m, n) = {p \in Sleepers(l, n) : p[1] # x}
  BY <1>1, OccupiedIsSleepers
<1>5. QED
  BY <1>1, <1>2, <1>3, <1>4, SameCount DEF Fits

\* A row takes its beds because they fit.
LEMMA Takes ==
  ASSUME RowInv, NEW x \in Rows, NEW l \in Lodges, ~ HoldsCapacity(status[x]), Fits(x, l),
         OthersKeep(x), HoldsCapacity(status'[x]), lodge'[x] = l, overridden' = overridden
  PROVE  LedgerStep
<1>1. Claim(x) = {}
  BY DEF Claim
<1>2. Ledger!FitsUnder(Claim(x)')
  BY <1>1, FitsIsFitsUnder
<1>3. Ledger!Take(x, Claim(x)')
  BY <1>1, <1>2, OthersClaims DEF Ledger!Take
<1>4. QED
  BY <1>3, ClaimType DEF LedgerStep, Ledger!Next

\* A row takes its beds, or only the permission, under an override.
LEMMA TakesOverridden ==
  ASSUME NEW x \in Rows, ~ HoldsCapacity(status[x]), OthersKeep(x),
         overridden' = overridden \cup {x}
  PROVE  LedgerStep
<1>1. Claim(x) = {}
  BY DEF Claim
<1>2. Ledger!TakeOverridden(x, Claim(x)')
  BY <1>1, OthersClaims DEF Ledger!TakeOverridden
<1>3. QED
  BY <1>2, ClaimType DEF LedgerStep, Ledger!Next
-----------------------------------------------------------------------------
(* The writes that several actions share *)

LEMMA SameRowsMap ==
  ASSUME UNCHANGED rowVars
  PROVE  LedgerStep
  BY ClaimFollows, NoBedMoves DEF rowVars

LEMMA RequeueMaps ==
  ASSUME RowInv, NEW x \in Rows, Requeue({x})
  PROVE  LedgerStep
<1>1. OthersKeep(x) /\ ~ HoldsCapacity(status'[x]) /\ overridden' = overridden
  BY DEF Requeue, OthersKeep, HoldsCapacity, CapacityHoldingStatuses
<1>2. QED
  BY <1>1, GivesBack

\* A row written to a status that holds no bed.
LEMMA LetsGo ==
  ASSUME RowInv, NEW x \in Rows, NEW s, ~ HoldsCapacity(s),
         status' = [status EXCEPT ![x] = s], UNCHANGED <<lodge, overridden>>
  PROVE  LedgerStep
<1>1. OthersKeep(x) /\ ~ HoldsCapacity(status'[x])
  BY DEF RowInv, RowTypes, OthersKeep
<1>2. QED
  BY <1>1, GivesBack

\* A row that fits where it is, written to a status that may hold its beds.
LEMMA Settles ==
  ASSUME RowInv, NEW x \in Rows, NEW s, lodge[x] \in Lodges, Fits(x, lodge[x]),
         status' = [status EXCEPT ![x] = s], UNCHANGED <<lodge, overridden>>
  PROVE  LedgerStep
<1>1. OthersKeep(x) /\ status'[x] = s
  BY DEF RowInv, RowTypes, OthersKeep
<1>2. CASE ~ HoldsCapacity(s)
  BY <1>2, LetsGo
<1>3. CASE HoldsCapacity(s) /\ HoldsCapacity(status[x])
  <2>1. \A y \in Rows : Claim(y)' = Claim(y)
    BY <1>1, <1>3, OthersClaims DEF Claim
  <2>2. QED
    BY <2>1, NoBedMoves
<1>4. CASE HoldsCapacity(s) /\ ~ HoldsCapacity(status[x])
  BY <1>1, <1>4, Takes
<1>5. QED
  BY <1>2, <1>3, <1>4

\* A row created at a lodge where it fits.
LEMMA IsCreated ==
  ASSUME RowInv, NEW x \in Rows, NEW s, NEW l \in Lodges, status[x] = "ABSENT", Fits(x, l),
         status' = [status EXCEPT ![x] = s], lodge' = [lodge EXCEPT ![x] = l],
         UNCHANGED overridden
  PROVE  LedgerStep
<1>1. OthersKeep(x) /\ status'[x] = s /\ lodge'[x] = l
  BY DEF RowInv, RowTypes, OthersKeep
<1>2. ~ HoldsCapacity(status[x])
  BY DEF HoldsCapacity, CapacityHoldingStatuses
<1>3. CASE HoldsCapacity(s)
  BY <1>1, <1>2, <1>3, Takes
<1>4. CASE ~ HoldsCapacity(s)
  BY <1>1, <1>4, GivesBack
<1>5. QED
  BY <1>3, <1>4

-----------------------------------------------------------------------------
(* Every action of the waitlist is a step of the ledger *)

LEMMA MemberStepMaps ==
  ASSUME IInv, MemberStep
  PROVE  LedgerStep
<1> USE RowSets DEF IInv
<1>1. ASSUME NEW b \in Entries, RefuseForCapacity(b) PROVE LedgerStep
  BY <1>1, SameRowsMap DEF RefuseForCapacity
<1>2. ASSUME NEW b \in Entries, JoinWaitlist(b) PROVE LedgerStep
  <2>1. OthersKeep(b) /\ ~ HoldsCapacity(status'[b]) /\ overridden' = overridden
    BY <1>2 DEF JoinWaitlist, OthersKeep, RowInv, RowTypes, HoldsCapacity, CapacityHoldingStatuses
  <2>2. QED
    BY <2>1, GivesBack
<1>3. ASSUME NEW b \in Entries, NEW s \in CreateAs, CreateBooking(b, s) PROVE LedgerStep
  <2>1. Home[b] \in Lodges
    BY WaitlistAssumption
  <2>2. QED
    BY <1>3, <2>1, IsCreated DEF CreateBooking
<1>4. ASSUME NEW x \in Rows, SettlePayment(x) PROVE LedgerStep
  <2>1. lodge[x] \in Lodges
    BY <1>4 DEF SettlePayment, PayableStatuses, RowInv, Placed
  <2>2. CASE ~ StillSettles(x)
    <3>1. ~ HoldsCapacity("CANCELLED")
      BY DEF HoldsCapacity, CapacityHoldingStatuses
    <3>2. QED
      BY <1>4, <2>2, <3>1, LetsGo DEF SettlePayment, SetStatus
  <2>3. CASE Fits(x, lodge[x])
    BY <1>4, <2>1, <2>3, Settles DEF SettlePayment, SetStatus
  <2>4. CASE x \in overridden /\ HoldsCapacity(status[x])
    <3>1. \A y \in Rows : Claim(y)' = Claim(y)
      BY <1>4, <2>4
      DEF SettlePayment, SetStatus, StillSettles, Claim, RowInv, RowTypes, HoldsCapacity,
          CapacityHoldingStatuses
    <3>2. QED
      BY <1>4, <3>1, NoBedMoves DEF SettlePayment, SetStatus
  <2>5. CASE x \in overridden /\ ~ HoldsCapacity(status[x])
    <3>1. OthersKeep(x) /\ overridden' = overridden \cup {x}
      BY <1>4, <2>5 DEF SettlePayment, SetStatus, OthersKeep, RowInv, RowTypes
    <3>2. QED
      BY <2>5, <3>1, TakesOverridden
  <2>6. QED
    BY <2>2, <2>3, <2>4, <2>5 DEF StillSettles
<1>5. ASSUME NEW x \in Rows, CancelUnpaid(x) \/ CancelPlaced(x) PROVE LedgerStep
  <2>1. ~ HoldsCapacity("CANCELLED")
    BY DEF HoldsCapacity, CapacityHoldingStatuses
  <2>2. QED
    BY <1>5, <2>1, LetsGo DEF CancelUnpaid, CancelPlaced, SetStatus
<1>6. ASSUME NEW r \in Requests, NEW b \in Entries, StartConfirm(r, b) PROVE LedgerStep
  BY <1>6, SameRowsMap DEF StartConfirm, OnlyMoves
<1>7. QED
  BY <1>1, <1>2, <1>3, <1>4, <1>5, <1>6 DEF MemberStep

LEMMA QueueStepMaps ==
  ASSUME IInv, QueueStep
  PROVE  LedgerStep
<1> USE RowSets DEF IInv
<1>1. ASSUME NEW l \in Lodges, NEW x \in Rows, ProcessWaitlist(l, x) PROVE LedgerStep
  <2>1. \/ UNCHANGED rowVars
        \/ \E o \in Opportunities(l, StayOf(x)) : MakeOffer(o)
    BY <1>1 DEF ProcessWaitlist, First
  <2>2. ASSUME NEW o \in Opportunities(l, StayOf(x)), MakeOffer(o) PROVE LedgerStep
    <3>1. o.entry \in Rows /\ ~ HoldsCapacity("WAITLIST_OFFERED")
      BY DEF Opportunities, Candidates, HoldsCapacity, CapacityHoldingStatuses
    <3>2. QED
      BY <2>2, <3>1, LetsGo DEF MakeOffer
  <2>3. QED
    BY <2>1, <2>2, SameRowsMap
<1>2. ASSUME NEW l \in Lodges, NEW x \in Rows, LoseWake(l, x) PROVE LedgerStep
  BY <1>2, SameRowsMap DEF LoseWake
<1>3. CASE ExpireStaleOffers
  <2>1. \A y \in Rows : Claim(y)' = Claim(y)
    BY <1>3
    DEF ExpireStaleOffers, Requeue, Lapsed, Claim, HoldsCapacity, CapacityHoldingStatuses
  <2>2. QED
    BY <1>3, <2>1, NoBedMoves DEF ExpireStaleOffers, Requeue
<1>4. ASSUME NEW b \in Entries, Lapse(b) PROVE LedgerStep
  BY <1>4, ClaimFollows, NoBedMoves DEF Lapse
<1>5. ASSUME NEW b \in Entries, CancelPast(b) PROVE LedgerStep
  <2>1. ~ HoldsCapacity("CANCELLED")
    BY DEF HoldsCapacity, CapacityHoldingStatuses
  <2>2. QED
    BY <1>5, <2>1, LetsGo DEF CancelPast
<1>6. CASE NextDay
  BY <1>6, SameRowsMap DEF NextDay
<1>7. QED
  BY <1>1, <1>2, <1>3, <1>4, <1>5, <1>6 DEF QueueStep

LEMMA AdminStepMaps ==
  ASSUME IInv, AdminStep
  PROVE  LedgerStep
<1> USE RowSets DEF IInv
<1>1. ASSUME NEW b \in Entries, NEW o \in BOOLEAN, NEW u \in BOOLEAN, ForceConfirm(b, o, u)
      PROVE  LedgerStep
  <2>1. lodge[b] \in Lodges /\ ~ HoldsCapacity(status[b])
    BY <1>1 DEF ForceConfirm, RowInv, Placed, HoldsCapacity, CapacityHoldingStatuses
  <2>2. CASE Fits(b, lodge[b])
    BY <1>1, <2>1, <2>2, Settles DEF ForceConfirm, RecordOverride
  <2>3. CASE ~ Fits(b, lodge[b])
    <3>1. OthersKeep(b) /\ overridden' = overridden \cup {b}
      BY <1>1, <2>3 DEF ForceConfirm, RecordOverride, OthersKeep, RowInv, RowTypes
    <3>2. QED
      BY <2>1, <3>1, TakesOverridden
  <2>4. QED
    BY <2>2, <2>3
<1>2. ASSUME NEW b \in Entries, ReturnToWaitlist(b) PROVE LedgerStep
  BY <1>2, RequeueMaps DEF ReturnToWaitlist
<1>3. ASSUME NEW b \in Entries, NEW s \in CreateAs, CreateOverCeiling(b, s) PROVE LedgerStep
  <2>1. OthersKeep(b) /\ overridden' = overridden \cup {b} /\ ~ HoldsCapacity(status[b])
    BY <1>3
    DEF CreateOverCeiling, OthersKeep, RowInv, RowTypes, HoldsCapacity, CapacityHoldingStatuses
  <2>2. Home[b] \in Lodges /\ lodge'[b] = Home[b]
    BY <1>3, WaitlistAssumption DEF CreateOverCeiling, RowInv, RowTypes
  <2>3. QED
    BY <2>1, <2>2, TakesOverridden
<1>4. QED
  BY <1>1, <1>2, <1>3 DEF AdminStep

LEMMA RefusedMaps ==
  ASSUME NEW r, Refused(r)
  PROVE  LedgerStep
  BY SameRowsMap DEF Refused, OnlyMoves

LEMMA RequeueAndFinishMaps ==
  ASSUME IInv, NEW r \in Requests, req[r].pc # "idle", RequeueAndFinish(r)
  PROVE  LedgerStep
  BY EntryOfRequest, RequeueMaps DEF RequeueAndFinish, IInv

LEMMA RequeueAndGotoMaps ==
  ASSUME IInv, NEW r \in Requests, NEW pc, req[r].pc # "idle", RequeueAndGoto(r, pc)
  PROVE  LedgerStep
  BY EntryOfRequest, RequeueMaps DEF RequeueAndGoto, IInv

LEMMA OwnStepMaps ==
  ASSUME IInv, NEW r \in Requests, OwnStep(r)
  PROVE  LedgerStep
<1> USE DEF IInv, At
<1> DEFINE b == req[r].entry
<1>1. CASE RevertOwn(r) \/ ClaimRefused(r) \/ ClaimNoRoom(r) \/ FlipMoved(r) \/ FlipNoRoom(r)
  BY <1>1, RefusedMaps, RequeueAndFinishMaps, RequeueAndGotoMaps
  DEF RevertOwn, ClaimRefused, ClaimNoRoom, FlipMoved, FlipNoRoom
<1>2. ASSUME NEW s \in {"PENDING", "PAYMENT_PENDING"}, ClaimTaken(r, s)
      PROVE  LedgerStep
  <2>1. b \in Rows /\ ~ HoldsCapacity(s)
    BY <1>2, EntryOfRequest DEF ClaimTaken, HoldsCapacity, CapacityHoldingStatuses
  <2>2. QED
    BY <1>2, <2>1, LetsGo DEF ClaimTaken
<1>3. CASE FlipPaid(r)
  <2>1. b \in Rows /\ lodge[b] \in Lodges
    BY <1>3, EntryOfRequest DEF FlipPaid
  <2>2. QED
    BY <1>3, <2>1, Settles DEF FlipPaid, SetStatus
<1>4. CASE FlipThrew(r) \/ ReadThrew(r) \/ ReleaseThrew(r) \/ Report(r)
  BY <1>4, SameRowsMap DEF FlipThrew, ReadThrew, ReleaseThrew, Report, OnlyMoves
<1>5. CASE Release(r)
  BY <1>5, RefusedMaps, RequeueAndFinishMaps, RequeueAndGotoMaps DEF Release
<1>6. QED
  BY <1>1, <1>2, <1>3, <1>4, <1>5 DEF OwnStep

LEMMA CrossStepMaps ==
  ASSUME IInv, NEW r \in Requests, CrossStep(r)
  PROVE  LedgerStep
<1> USE DEF IInv, At
<1> DEFINE b == req[r].entry
<1>1. CASE XRevert(r) \/ XRefused(r) \/ XReturned(r) \/ XCreateRefused(r) \/ XFull(r)
  BY <1>1, RefusedMaps, RequeueAndFinishMaps
  DEF XRevert, XRefused, XReturned, XCreateRefused, XFull
<1>2. CASE XPolicy(r) \/ XRepriced(r) \/ XValidated(r) \/ XCreateFull(r)
  BY <1>2, SameRowsMap DEF XPolicy, XRepriced, XValidated, XCreateFull, OnlyMoves
<1>3. ASSUME NEW c \in Copies, NEW s \in {"PENDING", "PAYMENT_PENDING", "AWAITING_REVIEW"},
             XCreated(r, c, s)
      PROVE  LedgerStep
  <2>1. req[r].to \in Lodges /\ c \in Rows
    BY <1>3, RowSets DEF XCreated, ReqInv, RequestsOK, RequestOK
  <2>2. QED
    BY <1>3, <2>1, IsCreated DEF XCreated
<1>4. CASE XUnwind(r)
  <2>1. req[r].repl \in Rows /\ ~ HoldsCapacity("CANCELLED")
    BY <1>4, RowSets
    DEF XUnwind, ReqInv, RequestsOK, RequestOK, HoldsCapacity, CapacityHoldingStatuses
  <2>2. QED
    BY <1>4, <2>1, LetsGo, RefusedMaps DEF XUnwind, SetStatus
<1>5. CASE XCleanup(r)
  <2>1. b \in Rows /\ ~ HoldsCapacity("CANCELLED")
    BY <1>5, EntryOfRequest DEF XCleanup, HoldsCapacity, CapacityHoldingStatuses
  <2>2. QED
    BY <1>5, <2>1, LetsGo, SameRowsMap DEF XCleanup
<1>6. QED
  BY <1>1, <1>2, <1>3, <1>4, <1>5 DEF CrossStep

LEMMA StepMaps == IInv /\ [Next]_vars => LedgerStep
<1>1. ASSUME NEW r, Crash(r) PROVE LedgerStep
  BY <1>1, RefusedMaps DEF Crash
<1>2. ASSUME UNCHANGED vars PROVE LedgerStep
  BY <1>2, SameRowsMap DEF vars
<1>3. QED
  BY <1>1, <1>2, MemberStepMaps, QueueStepMaps, AdminStepMaps, OwnStepMaps, CrossStepMaps
  DEF Next

LEMMA InitMaps == Init => Ledger!Init
  BY DEF Init, Ledger!Init, Claim, HoldsCapacity, CapacityHoldingStatuses

\* Every behaviour of the waitlist, whatever is in flight and whatever fails,
\* is a behaviour of the bed ledger: its steps take a row's beds only when they
\* fit or under a recorded override, and give them back whole.
THEOREM Refines == Spec => LedgerSpec
<1>1. IInv /\ [Next]_vars => [Ledger!Next]_Ledger!vars
  BY StepMaps DEF LedgerStep
<1>2. QED
  BY <1>1, InitMaps, InvHolds, PTL DEF Spec, LedgerSpec, Ledger!Spec

\* The ledger's own assumption follows from the waitlist's.
LEMMA LedgerHasFiniteRows == Abstract!LedgerAssumption
<1>1. IsFiniteSet(Rows) /\ IsFiniteSet(Guests)
  BY WaitlistAssumption, FS_Union DEF Rows
<1>2. QED
  BY <1>1, WaitlistAssumption DEF Abstract!LedgerAssumption, Abstract!IsFiniteSet, IsFiniteSet

\* No lodge is over its beds on any night but by bookings an administrator
\* overrode: the ceiling of the ledger, inherited by the waitlist.
THEOREM Ceiling == Spec => []WithinCeiling
<1>1. Abstract!Spec => []Abstract!WithinCeiling
  BY LedgerHasFiniteRows, Abstract!LedgerCeiling
<1>2. Ledger!Init => Abstract!Init
  BY DEF Ledger!Init, Abstract!Init
<1>3. [Ledger!Next]_Ledger!vars => [Abstract!Next]_Abstract!vars
  BY DEF Ledger!Next, Ledger!Take, Ledger!TakeOverridden, Ledger!Override, Ledger!Release,
         Ledger!FitsUnder, Ledger!Occupied, Ledger!Sleeping, Ledger!Triples, Ledger!vars,
         Ledger!Cardinality,
         Abstract!Next, Abstract!Take, Abstract!TakeOverridden, Abstract!Override, Abstract!Release,
         Abstract!FitsUnder, Abstract!Occupied, Abstract!Sleeping, Abstract!Triples, Abstract!vars,
         Abstract!Cardinality
<1>4. Abstract!WithinCeiling => Ledger!WithinCeiling
  BY DEF Ledger!WithinCeiling, Ledger!Ordinary, Ledger!Occupied, Ledger!Cardinality,
         Abstract!WithinCeiling, Abstract!Ordinary, Abstract!Occupied, Abstract!Cardinality
<1>5. QED
  BY <1>1, <1>2, <1>3, <1>4, Refines, PTL
  DEF LedgerSpec, WithinCeiling, Ledger!Spec, Abstract!Spec
=============================================================================
