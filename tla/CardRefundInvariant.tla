------------------------- MODULE CardRefundInvariant --------------------------
(***************************************************************************)
(* Why the books of CardRefund agree with Stripe: an invariant that every  *)
(* step keeps, as long as no list is recorded after a refund in it failed  *)
(* (no "sync" in Delays).                                                  *)
(*                                                                         *)
(* One thing carries the rest: a second refund is made only when the books *)
(* know that the first has failed.  An attempt that asks under a new key   *)
(* has just listed and recorded all there is; one that was overtaken, like *)
(* the cancellation's own request, asks under the first key, which Stripe  *)
(* has not forgotten before that day is over.  So only the last refund can *)
(* count, only the last row can be open, and the failure of that refund    *)
(* meets at most that row.                                                 *)
(***************************************************************************)
EXTENDS CardRefund

FirstKey == [row |-> Door, suffix |-> 0]
\* The key the attempt of w asks under.
KeyOf(w) == [row |-> work[w].row, suffix |-> work[w].suffix]

Exists(o) == rows[o].status # "NONE"
Latest(o) == Exists(o) /\ \A p \in RowIds : Exists(p) => p <= o
Busy(w) == work[w].pc # "idle"
\* An attempt that still has its row, and one whose row the door has closed.
Holder(w) == Busy(w) /\ rows[work[w].row].status = "PROCESSING"
Late(w) == Busy(w) /\ rows[work[w].row].status # "PROCESSING"
\* The day of the cancellation: its request, or an attempt it overtook, is at work.
Early == door.pc # "done" \/ \E w \in Workers : Late(w)

\* Stripe makes a refund only when the one before has failed, on the books too.
RefundsInTurn ==
  /\ \A r \in Refunds : r < made => status[r] = "failed" /\ ledger[r] = "failed"
  /\ \A r \in Refunds : r > made =>
       status[r] = "none" /\ ledger[r] = "none" /\ answer[r] = "none" /\ age[r] = "none"
  /\ \A r \in Refunds : r <= made => status[r] # "none" /\ answer[r] # "none" /\ age[r] # "none"
  /\ \A r \in Refunds : ledger[r] = "failed" => status[r] = "failed"
  /\ \A r \in Refunds : answer[r] = "failed" => status[r] = "failed"
  /\ \A r \in Refunds : recorded[r] = IF ledger[r] = "none" THEN 0 ELSE r

\* A row is written for a failed refund, and only when every row before is closed.
RowsInTurn ==
  /\ Exists(Door)
  /\ \A o \in RowIds : ~Exists(o) => rows[o] = NoRow
  /\ \A o \in RowIds : Exists(o) => o <= made /\ rows[o].born = o
                                     /\ rows[o].nth < Cardinality(Existing(rows))
  /\ \A o \in Refunds : Exists(o) => ledger[o] = "failed"
  /\ \A o, p \in RowIds : Exists(o) /\ Exists(p) /\ o < p =>
       rows[o].nth < rows[p].nth /\ rows[o].status = "SUCCEEDED"

\* What a row says of refunds is so.
NotesHold ==
  /\ \A o \in RowIds : rows[o].made # NoRefund =>
       /\ rows[o].made <= made /\ key[rows[o].made].row = o
       /\ IsOpen(rows[o]) => rows[o].made = made /\ ledger[made] = "live"
  /\ \A o \in RowIds : \A f \in rows[o].failed :
       f <= made /\ ledger[f] = "failed" /\ (key[f].row = o => key[f].suffix < rows[o].suffix)

\* A row owes the refund, or the books count the last one.
Debt == (\E o \in RowIds : IsOpen(rows[o])) \/ (made > 0 /\ ledger[made] = "live")

\* The keys of the refunds, and what the rows will ask under next.
KeysInTurn ==
  /\ \A r \in Refunds : r <= made =>
       Exists(key[r].row) /\ key[r].row < r /\ key[r].suffix <= rows[key[r].row].suffix
       /\ key[r].suffix <= r
  /\ made > 0 => Exists(made) \/ Latest(key[made].row)
  /\ \A q, r \in Refunds : q < r /\ r <= made /\ key[q].row = key[r].row =>
       key[q].suffix < key[r].suffix \/ (key[q].suffix = key[r].suffix /\ age[q] = "forgotten")
  /\ made > 0 /\ ledger[made] # "failed" /\ IsOpen(rows[key[made].row]) =>
       key[made].suffix = rows[key[made].row].suffix
  /\ made = 0 => rows[Door].suffix = 0
  /\ \A o \in RowIds : rows[o].suffix <= made + 1

\* A list read from Stripe tells what was so, and a failure that is so still.
Read(listing) ==
  \A r \in Refunds : /\ listing[r] # "none" => r <= made
                     /\ listing[r] = "failed" => status[r] = "failed"
\* A refund it gives live was the last, or its failure has a row of its own.
Seen(listing) == \A r \in Refunds : r < made /\ listing[r] = "live" => Exists(r)

\* What a webhook read as live is live still, until it is recorded.
ChargeInv == Read(charge) /\ \A r \in Refunds : charge[r] = "live" => status[r] = "live"

\* Steps with the plan in hand, those before a refund is asked for, and after.
Working == {"listing", "recording", "marking", "asking", "answered", "refused", "made", "closing"}
BeforeAsking == {"claimed", "listing", "recording", "asking"}
Answered == {"answered", "refused", "made", "marking"}
\* The last refund was asked for under w's key, today.
Young(w) == key[made] = KeyOf(w) /\ age[made] = "young"

\* Any attempt: its row is held, or the door closed it; what it was answered under its key.
AttemptInv(w) ==
  /\ Busy(w) => \/ rows[work[w].row].status = "PROCESSING"
                \/ work[w].row = Door /\ rows[Door].status = "SUCCEEDED"
  /\ Read(work[w].listing)
  /\ work[w].pc = "recording" => made > 0 /\ Seen(work[w].listing)
  /\ work[w].pc \in Working \ {"closing"} => work[w].made = NoRefund
  /\ work[w].pc \in Answered => work[w].refund \in 1 .. made /\ key[work[w].refund] = KeyOf(w)

\* An attempt that has its row knows the plan on it, and what it found is the last refund.
HolderInv(w) ==
  /\ work[w].pc \in Working =>
       work[w].suffix = rows[work[w].row].suffix /\ work[w].failed = rows[work[w].row].failed
  /\ work[w].pc \in Answered => work[w].refund = made
  /\ work[w].pc = "refused" => ledger[made] = "failed"
  /\ work[w].pc \in {"made", "marking", "closing"} => made > 0 /\ ledger[made] = "live"
  /\ work[w].pc = "asking" /\ made > 0 => ledger[made] = "failed" \/ Young(w)
  /\ work[w].pc = "recording" => work[w].listing[made] # "none" \/ Young(w)

\* An attempt the door overtook can still ask, but under the first key only.
LateInv(w) ==
  /\ made > 0 /\ key[1] = FirstKey /\ age[1] = "young" /\ rows[Door].suffix = 0
  /\ work[w].pc \in Working => work[w].suffix = 0

\* No two attempts have one row.
WorkInv ==
  /\ \A v, w \in Workers : v # w /\ Busy(v) /\ Busy(w) => work[v].row # work[w].row
  /\ \A w \in Workers : AttemptInv(w) /\ (Holder(w) => HolderInv(w)) /\ (Late(w) => LateInv(w))

\* The cancellation's request asked first, and sees that refund or its failure.
DoorInv ==
  /\ door.pc # "done" /\ made > 0 => key[1] = FirstKey /\ age[1] = "young"
  /\ door.pc \in {"answered", "refused", "made"} => door.refund = 1 /\ made > 0
  /\ door.pc = "refused" => ledger[1] = "failed"
  /\ door.pc = "made" /\ IsOpen(rows[Door]) /\ Plan(rows[Door]) = SentPlan => made = 1 /\ ledger[1] = "live"

\* On that day no row is taken up twice, and only refund 1 is asked for by the first row.
EarlyRow(o) ==
  /\ MayClaim(rows[o]) => IsUntouched(rows[o])
  /\ IsUntouched(rows[o]) => rows[o].suffix = 0
  /\ IsOpen(rows[o]) => rows[o].suffix <= 1 \/ made \in rows[o].failed
EarlyWork(w) ==
  Holder(w) => /\ work[w].pc = "claimed" => rows[work[w].row].suffix = 0
               /\ work[w].pc \in Working => work[w].suffix = 0
EarlyKey(r) ==
  r <= made =>
    /\ key[r].row = Door => r = 1
    /\ key[r].row # Door =>
         /\ ~IsUntouched(rows[key[r].row])
         /\ \A w \in Workers : work[w].row = key[r].row => work[w].pc \notin BeforeAsking
EarlyInv == Early => /\ \A o \in RowIds : EarlyRow(o)
                     /\ \A w \in Workers : EarlyWork(w)
                     /\ \A r \in Refunds : EarlyKey(r)

\* The inductive invariant: the order of the refunds and rows, what each server
\* at work may believe of them, and what holds on the day of the cancellation.
BooksInv == RefundsInTurn /\ RowsInTurn /\ NotesHold /\ Debt /\ KeysInTurn
RefundInv == BooksInv /\ ChargeInv /\ WorkInv /\ DoorInv /\ EarlyInv

\* The debt behind the rows: its last refund at Stripe and on the books, and
\* whether a row owes it.
Stands == IF made = 0 THEN "none" ELSE status[made]
Counted == IF made = 0 THEN "none" ELSE ledger[made]
IsOwed == \E o \in RowIds : IsOpen(rows[o])

Debts == INSTANCE RefundDebt WITH stands <- Stands, counted <- Counted, open <- IsOwed

\* The door, the runners, Stripe and its webhooks together keep the promise of
\* RefundDebt: every step of theirs is one of its steps, or is not seen there.
DebtSpec == Debts!Spec

\* Only a failed attempt makes a row wait.
PendingIsDue == \A o \in RowIds : rows[o].status = "PENDING" => rows[o].due

\* The keys of the refunds that are still to come.
UnusedKeys == \A r \in Refunds : r > made => key[r].suffix = 0
=============================================================================
