---------------------------- MODULE WaitlistState ----------------------------
(***************************************************************************)
(* The lodge waitlist: rows join the queue when a lodge is full, freed     *)
(* nights turn the first entry that fits into an offer, a member confirms  *)
(* the offer in several separate transactions, offers lapse and go back to *)
(* the queue, and administrators force or repair entries.                  *)
(*                                                                         *)
(* Every action that writes a row is ONE database transaction: each takes  *)
(* the global advisory lock and then the lodge locks (joining the waitlist *)
(* takes the lodge lock only), so the transactions on the rows of a lodge  *)
(* are serial.  What is not atomic is what happens BETWEEN them, and that  *)
(* is what the module keeps: an HTTP request that confirms an offer reads  *)
(* the row unlocked, judges a policy, claims, creates, settles and repairs *)
(* in steps that anybody else may come between, and that a crash or a      *)
(* failed transaction may end anywhere.                                    *)
(*                                                                         *)
(* Prices are kept only as far as "free or not" and "drifted or not";      *)
(* dates as the set of lodge nights of the stay; an offer's 48 hour clock  *)
(* as the step Lapse.                                                      *)
(***************************************************************************)
EXTENDS Naturals, FiniteSets, BookingStatus

CONSTANTS
  Entries,     \* rows members create; Nat, in the order of createdAt
  Copies,      \* rows a cross-lodge confirm creates at the offered lodge
  CopyOf,      \* the entry each of Copies would replace
  Lodges,      \* lodges
  NoLodge,     \* "no lodge": null in a lodge column
  NoRow,       \* "no booking": null in a booking reference
  Nights,      \* lodge nights, Nat
  Guests,      \* guest slots of a party
  Requests,    \* confirm requests the servers run at a time
  Home,        \* Home[e]: the lodge e was made for
  Owner,       \* Owner[e]: the member who made e
  Stay,        \* Stay[e]: the nights of e
  Party,       \* Party[e][n]: the guests of e who sleep there on night n
  Alternates,  \* Alternates[e]: the other lodges e would accept
  Free,        \* the entries whose price is zero
  Beds,        \* Beds[l]: the beds of lodge l
  CrossOrder,  \* club setting: "OWN_FIRST" or "MERGED"
  CreateAs,    \* the statuses a direct booking may be created in
  LastDay,     \* bound: the days the model lets pass
  Faults       \* what may go wrong: a subset of FaultKinds

\* "crash": a server stops between two transactions of a request;
\* "tx": a transaction rolls back; "ack": it commits and the reply is lost;
\* "read": a read outside every transaction throws;
\* "audit": the audit row cannot be written.
FaultKinds == {"crash", "tx", "ack", "read", "audit"}

Rows == Entries \cup Copies

ASSUME WaitlistAssumption ==
  /\ Entries \subseteq Nat /\ IsFiniteSet(Entries)
  /\ IsFiniteSet(Copies) /\ Copies \cap Entries = {}
  /\ CopyOf \in [Copies -> Entries]
  /\ NoLodge \notin Lodges /\ NoRow \notin Rows
  /\ Nights \subseteq Nat
  /\ IsFiniteSet(Guests)
  /\ Home \in [Entries -> Lodges]
  /\ Stay \in [Entries -> (SUBSET Nights) \ {{}}]
  /\ Party \in [Entries -> [Nights -> SUBSET Guests]]
  /\ \A e \in Entries, n \in Nights : Party[e][n] # {} => n \in Stay[e]
  /\ Alternates \in [Entries -> SUBSET Lodges]
  /\ Free \subseteq Entries
  /\ Beds \in [Lodges -> Nat]
  /\ CreateAs \subseteq {"PENDING", "PAYMENT_PENDING", "CONFIRMED", "AWAITING_REVIEW"}
  /\ LastDay \in Nat
  /\ Faults \subseteq FaultKinds

VARIABLES
  status,      \* status[x]: the booking status of row x
  lodge,       \* lodge[x]: its lodge, fixed when the row is created
  offer,       \* offer[x]: waitlistOfferedAt/ExpiresAt: "none", "live", "lapsed"
  offerLodge,  \* offerLodge[x]: waitlistOfferedLodgeId, NoLodge for an own-lodge offer
  overridden,  \* the rows with capacityOverriddenAt set
  refused,     \* the entries refused for capacity and not yet on the waitlist
  today,       \* the club's date
  wakes,       \* processWaitlistForDates calls not yet run: <<freed lodge, row>>
  stranded,    \* the entries with an unresolved offer-release-failed audit row
  flagged,     \* the entries with an audit row asking for review after a confirm
  drifted,     \* the replacements found not to cost what the member accepted
  dropped,     \* the rows a confirm committed and then left with an error, since
               \* the reply was lost or the next read threw
  req,         \* req[r]: the confirm request r is running
  stale        \* the requests whose row was written since they captured it

rowVars  == <<status, lodge, offer, offerLodge, overridden>>
auditVars == <<stranded, flagged, drifted, dropped>>
restVars == <<refused, today, wakes, auditVars>>
reqVars  == <<req, stale>>
vars == <<rowVars, restVars, reqVars>>

OfferStates == {"none", "live", "lapsed"}

\* Where a confirm request stands: what it does next.
Pcs == {"idle",
        "revert", "claim", "flip", "release", "report",
        "xpolicy", "xrevert", "xvalidate", "xcreate", "xfull", "xunwind",
        "xcleanup"}

Request ==
  [pc     : Pcs,
   entry  : Entries \cup {NoRow},
   judged : Lodges \cup {NoLodge},   \* the lodge whose policy set the stay was judged by
   to     : Lodges \cup {NoLodge},   \* the offered lodge it captured
   repl   : Copies \cup {NoRow},     \* the replacement it created
   made   : Statuses]                \* the status it created it in

Idle == [pc |-> "idle", entry |-> NoRow, judged |-> NoLodge, to |-> NoLodge,
         repl |-> NoRow, made |-> "ABSENT"]

TypeOK ==
  /\ status \in [Rows -> Statuses]
  /\ lodge \in [Rows -> Lodges \cup {NoLodge}]
  /\ offer \in [Rows -> OfferStates]
  /\ offerLodge \in [Rows -> Lodges \cup {NoLodge}]
  /\ overridden \in SUBSET Rows
  /\ refused \in SUBSET Entries
  /\ today \in Nat
  /\ wakes \in SUBSET (Lodges \X Rows)
  /\ stranded \in SUBSET Entries
  /\ flagged \in SUBSET Entries
  /\ drifted \in SUBSET Copies
  /\ dropped \in SUBSET Rows
  /\ req \in [Requests -> Request]
  /\ stale \in SUBSET Requests

Init ==
  /\ status = [x \in Rows |-> "ABSENT"]
  /\ lodge = [x \in Rows |-> NoLodge]
  /\ offer = [x \in Rows |-> "none"]
  /\ offerLodge = [x \in Rows |-> NoLodge]
  /\ overridden = {}
  /\ refused = {}
  /\ today = 0
  /\ wakes = {}
  /\ stranded = {}
  /\ flagged = {}
  /\ drifted = {}
  /\ dropped = {}
  /\ req = [r \in Requests |-> Idle]
  /\ stale = {}
-----------------------------------------------------------------------------
(* Rows, stays and beds *)

\* The entry whose stay, party, owner and price row x has: a replacement is
\* made from its entry.
EntryOf(x) == IF x \in Entries THEN x ELSE CopyOf[x]
StayOf(x) == Stay[EntryOf(x)]
PartyOn(x, n) == Party[EntryOf(x)][n]
IsFree(x) == EntryOf(x) \in Free

Overlaps(x, nights) == StayOf(x) \cap nights # {}

\* checkOut <= today
StayIsOver(x) == \A n \in StayOf(x) : n < today

\* The occupied beds of lodge l on night n.
Sleepers(l, n) ==
  {p \in Rows \X Guests :
     /\ HoldsCapacity(status[p[1]])
     /\ lodge[p[1]] = l
     /\ p[2] \in PartyOn(p[1], n)}

\* The party of x fits at lodge l on every night of its stay, not counting x.
Fits(x, l) ==
  \A n \in StayOf(x) :
    Cardinality({p \in Sleepers(l, n) : p[1] # x}) + Cardinality(PartyOn(x, n))
      <= Beds[l]

\* A stay of the same member, other than entry b, at lodge l on the nights of b.
DuplicateStay(b, l) ==
  \E x \in Rows \ {b} :
    /\ status[x] \in DuplicateStayStatuses
    /\ Owner[EntryOf(x)] = Owner[b]
    /\ lodge[x] = l
    /\ Overlaps(x, Stay[b])

(* Writing rows and moving requests *)

\* The requests that captured a row of B and will compare it again later.
Watching(B) ==
  {r \in Requests : req[r].entry \in B /\ req[r].pc \in {"xcreate", "xfull", "xunwind", "xcleanup"}}

Touch(B) == stale' = stale \cup Watching(B)

Goto(r, pc) == req' = [req EXCEPT ![r].pc = pc]

\* Request r answers; its last transaction wrote the rows B.
FinishWriting(r, B) ==
  /\ req' = [req EXCEPT ![r] = Idle]
  /\ stale' = (stale \cup Watching(B)) \ {r}

Finish(r) == FinishWriting(r, {})

At(r, pc) == req[r].pc = pc

\* Deviation: the offer's deadline and lodge stay on the row.
RequeueStatusOnly(B) ==
  /\ status' = [x \in Rows |-> IF x \in B THEN "WAITLISTED" ELSE status[x]]
  /\ UNCHANGED <<offer, offerLodge, lodge, overridden>>

\* The rows B go back on the waitlist, every offer field cleared.
Requeue(B) ==
  /\ status' = [x \in Rows |-> IF x \in B THEN "WAITLISTED" ELSE status[x]]
  /\ offer' = [x \in Rows |-> IF x \in B THEN "none" ELSE offer[x]]
  /\ offerLodge' = [x \in Rows |-> IF x \in B THEN NoLodge ELSE offerLodge[x]]
  /\ UNCHANGED <<lodge, overridden>>

\* Only the status of row x changes.
SetStatus(x, s) ==
  /\ status' = [status EXCEPT ![x] = s]
  /\ UNCHANGED <<lodge, offer, offerLodge, overridden>>

Wake(l, x) == wakes' = wakes \cup {<<l, x>>}
=============================================================================
