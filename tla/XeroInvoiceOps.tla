----------------------------- MODULE XeroInvoiceOps ----------------------------
(***************************************************************************)
(* The invoice of one booking on its way to Xero: the CREATE rows of the   *)
(* operations table (xero-operation-outbox.ts, xero-operation-retry.ts,    *)
(* xero-operation-queue.ts), the runs that process them                    *)
(* (xero-booking-invoices.ts), and the officers who reset, retry and       *)
(* resolve rows or record the money as cash.                               *)
(*                                                                         *)
(* A run claims its row by stamping it RUNNING, works on it without a lock *)
(* through several calls to Xero, and writes its outcome only where the    *)
(* stamp allows (xero-operation-outcome-guard.ts); a claim older than a    *)
(* threshold may be taken away while its run is still at work.  All rows   *)
(* of a booking share one key, which is also Xero's idempotency key.       *)
(*                                                                         *)
(* Each transaction or single update is one step.  A run is one pass over  *)
(* one row, so the run stands for the stamp of its claim.                  *)
(***************************************************************************)
EXTENDS Naturals

CONSTANTS
  Runs,      \* bound: passes over a row, by the outbox or by a queued retry
  NoRun,     \* no claim stamped the row yet
  MaxMade,   \* bound: invoices Xero may make for the booking
  MaxRows    \* bound: CREATE rows of the booking

ASSUME OpsAssumption ==
  /\ NoRun \notin Runs
  /\ MaxRows \in Nat /\ MaxMade \in Nat

VARIABLES
  rows,      \* how many rows were queued; a row is its place in that order
  op,        \* the rows: status, claim, repair marker, and resolved mark
  queued,    \* rows with a PENDING retry
  run,       \* the runs
  officer,   \* the officer resolving a row by hand
  asking,    \* an enqueue between its checks and its insert
  settling,  \* a mark-paid transaction between its checks and its commit
  cash,      \* payment.manuallyMarkedPaidAt is set
  linked,    \* payment.xeroInvoiceId is set
  made,      \* how many invoices Xero made for the booking
  known      \* Xero still knows the idempotency key

desks == <<officer, asking, settling, cash>>
books == <<linked, made, known>>
vars == <<rows, op, queued, run, desks, books>>

Rows == 1..MaxRows
Queued == 1..rows       \* the rows that exist
Active == {"PENDING", "RUNNING"}
Ended == {"FAILED", "PARTIAL"}      \* and may run again

\* claimed .. faulty: an invoice run; replay: the invoice is there already;
\* retry, take, fix, repair: a queued retry; won, lost, stood: a retry about
\* to close its own queue row.
Steps == {"claimed", "build", "ready", "send", "made", "done", "faulty",
          "replay", "drop", "failed", "retry", "take", "fix", "repair",
          "won", "lost", "stood", "end"}

\* The queue row of a retry: RUNNING, reset, ended (either way) or cancelled.
QueueRows == {"none", "RUNNING", "RESET", "ENDED", "CANCELLED"}

TypeOK ==
  /\ rows \in 0..MaxRows
  /\ op \in [Rows -> [status : Active \cup Ended \cup {"none", "SUCCEEDED", "CANCELLED"},
                      claim : Runs \cup {NoRun}, repair : BOOLEAN, mark : Nat]]
  /\ \A o \in Rows : op[o].status = "none" <=> o > rows
  /\ queued \subseteq Queued
  /\ run \in [Runs -> [pc : Steps, op : 0..MaxRows, row : QueueRows]]
  /\ \A r \in Runs : run[r].pc # "end" => run[r].op \in Queued
  /\ officer \in [pc : {"idle", "looked", "marked"}, op : 0..MaxRows, seen : [Runs -> QueueRows]]
  /\ officer.pc # "idle" => officer.op \in Queued
  /\ asking \in BOOLEAN /\ settling \in BOOLEAN /\ cash \in BOOLEAN
  /\ linked \in BOOLEAN
  /\ made \in Nat
  /\ known \in BOOLEAN

\* No officer is resolving a row.
Nobody == [pc |-> "idle", op |-> 0, seen |-> [r \in Runs |-> "none"]]

-----------------------------------------------------------------------------
At(r, pc) == run[r].pc = pc
Go(r, pc) == run' = [run EXCEPT ![r].pc = pc]

\* A pass is over.
End(r, row) ==
  run' = [run EXCEPT ![r] = [pc |-> "end", op |-> IF row = "none" THEN 0 ELSE @.op, row |-> row]]

IsRetry(r) == run[r].row # "none"

\* A retry still has its queue row to close.
Leave(r, pc) == IF IsRetry(r) THEN Go(r, pc) ELSE End(r, "none")

\* The partial unique index: one active row per key.
OtherActive(o) == \E p \in Queued \ {o} : op[p].status \in Active

\* ownRunningClaim
Holds(r) == op[run[r].op].status = "RUNNING" /\ op[run[r].op].claim = r

\* Deviation: every late outcome is written.
AlwaysWrites(r, status) == TRUE
\* Deviation: a late success is written over a later claim.
AlwaysSucceeds(r, status) ==
  \/ status = "SUCCEEDED"
  \/ op[run[r].op].status \in {"RUNNING", "FAILED"} /\ op[run[r].op].claim = r

\* outcomeWriteGuard, by the status that is to be written.  A success stands
\* unless a later claim is running; the others need the run's own claim.
MayWrite(r, status) ==
  LET o == op[run[r].op]
  IN CASE status = "SUCCEEDED" -> o.status # "RUNNING" \/ o.claim = r
       [] status = "PARTIAL" -> /\ o.status \in {"RUNNING", "FAILED", "PARTIAL"}
                                /\ o.claim = r /\ ~ o.repair
       [] OTHER -> o.status \in {"RUNNING", "FAILED"} /\ o.claim = r /\ ~ o.repair

\* The outcome of an invoice run, written or refused.
Outcome(r, status) ==
  op' = IF MayWrite(r, status)
          THEN [op EXCEPT ![run[r].op].status = status, ![run[r].op].repair = FALSE]
          ELSE op

\* An update that puts a row under a new claim.
Claimed(o, r, repair) ==
  op' = [op EXCEPT ![o].status = "RUNNING", ![o].claim = r, ![o].repair = repair]

\* findResolvedSiblingSince: another row was resolved after o was queued.  A
\* mark is how many rows there were when it was written.
ResolvedSince(o) == \E p \in Queued \ {o} : op[p].mark >= o

\* A pass that ended and left nothing a later step looks at: its name may
\* stand for a new pass, so passes are not bounded, only those alive at once.
Free(r) ==
  /\ At(r, "end") /\ run[r].row # "RUNNING"
  /\ \A o \in Rows : op[o].claim # r
  /\ officer.seen[r] = "none"

-----------------------------------------------------------------------------
Init ==
  /\ rows = 0
  /\ op = [o \in Rows |-> [status |-> "none", claim |-> NoRun, repair |-> FALSE, mark |-> 0]]
  /\ queued = {}
  /\ run = [r \in Runs |-> [pc |-> "end", op |-> 0, row |-> "none"]]
  /\ officer = Nobody
  /\ asking = FALSE /\ settling = FALSE /\ cash = FALSE
  /\ linked = FALSE /\ made = 0 /\ known = FALSE

(* The enqueue *)

\* The booking has no invoice, is not paid in cash, its newest row was not
\* resolved by hand (a single force-sync overrides that), and none is active.
Ask(override) ==
  /\ ~ asking /\ ~ linked /\ ~ cash
  /\ rows > 0 /\ ~ override => op[rows].mark = 0
  /\ \A o \in Queued : op[o].status \notin Active
  /\ asking' = TRUE
  /\ UNCHANGED <<rows, op, queued, run, officer, settling, cash, books>>

\* The insert; one that loses to the unique index answers the active row.
Insert ==
  /\ asking
  /\ asking' = FALSE
  /\ IF \E o \in Queued : op[o].status \in Active
       THEN UNCHANGED <<rows, op>>
       ELSE /\ rows < MaxRows
            /\ rows' = rows + 1
            /\ op' = [op EXCEPT ![rows + 1].status = "PENDING"]
  /\ UNCHANGED <<queued, run, officer, settling, cash, books>>

-----------------------------------------------------------------------------
(* A run of the outbox *)

\* Deviation: the run does not note its row.
ClaimsUnnoted(r, o) ==
  /\ Free(r) /\ op[o].status = "PENDING"
  /\ Claimed(o, r, FALSE)
  /\ run' = [run EXCEPT ![r] = [pc |-> "claimed", op |-> 0, row |-> "none"]]
  /\ UNCHANGED <<rows, queued, desks, books>>

Claim(r, o) ==
  /\ Free(r) /\ op[o].status = "PENDING"
  /\ Claimed(o, r, FALSE)
  /\ run' = [run EXCEPT ![r] = [pc |-> "claimed", op |-> o, row |-> "none"]]
  /\ UNCHANGED <<rows, queued, desks, books>>

\* After the claim: a copy queued before another one was resolved is dropped.
Sibling(r) ==
  /\ At(r, "claimed")
  /\ Go(r, IF ResolvedSince(run[r].op) THEN "drop" ELSE "build")
  /\ UNCHANGED <<rows, op, queued, desks, books>>

\* Deviation: the invoice the payment carries is not looked at.
ReadsCashOnly(r) ==
  /\ At(r, "build")
  /\ Go(r, IF cash THEN "drop" ELSE "ready")
  /\ UNCHANGED <<rows, op, queued, desks, books>>

\* The payment as read when the invoice is built.
Read(r) ==
  /\ At(r, "build")
  /\ Go(r, IF linked THEN "replay" ELSE IF cash THEN "drop" ELSE "ready")
  /\ UNCHANGED <<rows, op, queued, desks, books>>

\* The payment as read again before the call.
Recheck(r) ==
  /\ At(r, "ready")
  /\ Go(r, IF cash THEN "drop" ELSE "send")
  /\ UNCHANGED <<rows, op, queued, desks, books>>

\* Deviation: the outcome is recorded before the link.
SendsUnlinked(r) ==
  /\ At(r, "send")
  /\ made' = IF known THEN made ELSE made + 1
  /\ known' = TRUE
  /\ Go(r, "done")
  /\ UNCHANGED <<rows, op, queued, desks, linked>>

\* createInvoices: a known key returns the invoice it made.
Send(r) ==
  /\ At(r, "send")
  /\ made' = IF known THEN made ELSE made + 1
  /\ known' = TRUE
  /\ Go(r, "made")
  /\ UNCHANGED <<rows, op, queued, desks, linked>>

\* persistPrimaryInvoiceLink.  The payment or the e-mail before it may have
\* failed, which the run keeps for its outcome.
Link(r, pc) ==
  /\ At(r, "made")
  /\ linked' = TRUE
  /\ Go(r, pc)
  /\ UNCHANGED <<rows, op, queued, desks, made, known>>

Complete(r) ==
  /\ run[r].pc \in {"done", "faulty"}
  /\ Outcome(r, IF At(r, "done") THEN "SUCCEEDED" ELSE "PARTIAL")
  /\ Leave(r, "won")
  /\ UNCHANGED <<rows, queued, desks, books>>

\* The payment carried its invoice already: nothing is sent.
Replay(r) ==
  /\ At(r, "replay")
  /\ Outcome(r, "SUCCEEDED")
  /\ Leave(r, "won")
  /\ UNCHANGED <<rows, queued, desks, books>>

Drop(r) ==
  /\ At(r, "drop")
  /\ Outcome(r, "CANCELLED")
  /\ Leave(r, "won")
  /\ UNCHANGED <<rows, queued, desks, books>>

\* A call before the outcome throws.
Throw(r) ==
  /\ run[r].pc \in {"build", "ready", "send", "done", "faulty", "replay"}
  /\ Outcome(r, "FAILED")
  /\ Go(r, IF IsRetry(r) THEN "lost" ELSE "failed")
  /\ UNCHANGED <<rows, queued, desks, books>>

\* The answer of createInvoices is lost, or the link is not written.  Such an
\* error is not a cooldown (preHttp): the row stays FAILED.
ThrowMade(r) ==
  /\ At(r, "made")
  /\ Outcome(r, "FAILED")
  /\ Leave(r, "lost")
  /\ UNCHANGED <<rows, queued, desks, books>>

\* Deviation: the mark of an officer is not looked at.
MayReturnResolved(r) ==
  LET o == op[run[r].op]
  IN /\ o.status \in {"RUNNING", "FAILED"} /\ o.claim = r /\ ~ o.repair
     /\ ~ OtherActive(run[r].op)

\* The row goes back to the queue from the run's own claim, or from the failure
\* it left, unless it was resolved since.
MayReturn(r) ==
  LET o == op[run[r].op]
  IN /\ o.status \in {"RUNNING", "FAILED"} /\ o.claim = r /\ ~ o.repair
     /\ o.mark = 0
     /\ ~ OtherActive(run[r].op)

\* The outbox finds the error to be Xero's cooldown, before the first call or
\* after the run failed the row.
Cool(r) ==
  /\ ~ IsRetry(r) /\ run[r].pc \in {"build", "ready", "replay", "failed"}
  /\ IF MayReturn(r)
       THEN op' = [op EXCEPT ![run[r].op].status = "PENDING", ![run[r].op].claim = NoRun]
       ELSE Outcome(r, "FAILED")
  /\ End(r, "none")
  /\ UNCHANGED <<rows, queued, desks, books>>

-----------------------------------------------------------------------------
(* A queued retry *)

\* enqueueXeroSyncOperationRetry: one live retry per row.
Requeue(o) ==
  /\ op[o].status \in Ended /\ op[o].mark = 0
  /\ o \notin queued
  /\ \A r \in Runs : ~ (run[r].op = o /\ run[r].row = "RUNNING")
  /\ queued' = queued \cup {o}
  /\ UNCHANGED <<rows, op, run, desks, books>>

Drain(r, o) ==
  /\ Free(r) /\ o \in queued
  /\ queued' = queued \ {o}
  /\ run' = [run EXCEPT ![r] = [pc |-> "retry", op |-> o, row |-> "RUNNING"]]
  /\ UNCHANGED <<rows, op, desks, books>>

\* retryXeroSyncOperation reads the row and picks its handler.
RetryReads(r) ==
  /\ At(r, "retry")
  /\ LET o == op[run[r].op]
     IN Go(r, IF o.mark # 0 THEN "stood"
              ELSE IF o.status = "FAILED" THEN "take"
              ELSE IF o.status = "PARTIAL" THEN "fix" ELSE "lost")
  /\ UNCHANGED <<rows, op, queued, desks, books>>

\* runWithClaimedOriginal's claim: unresolved, and in a status it may run from.
MayTake(r, from) ==
  LET o == op[run[r].op]
  IN o.status \in from /\ o.mark = 0 /\ ~ OtherActive(run[r].op)

\* The claim, or the refusal of one (throwLostRetryClaim).
Take(r, from, repair, pc) ==
  /\ IF MayTake(r, from)
       THEN Claimed(run[r].op, r, repair) /\ Go(r, pc)
       ELSE UNCHANGED op /\ Go(r, IF op[run[r].op].mark # 0 THEN "stood" ELSE "lost")
  /\ UNCHANGED <<rows, queued, desks, books>>

TakeFailed(r) == At(r, "take") /\ Take(r, Ended, FALSE, "build")
TakePartial(r) == At(r, "fix") /\ Take(r, {"PARTIAL"}, TRUE, "repair")

\* closeRepairOnClaim, or the row given back after a throw: on the claim alone.
Repair(r, status, pc) ==
  /\ At(r, "repair")
  /\ op' = IF Holds(r)
             THEN [op EXCEPT ![run[r].op].status = status, ![run[r].op].repair = FALSE]
             ELSE op
  /\ Go(r, pc)
  /\ UNCHANGED <<rows, queued, desks, books>>

\* The retry closes its queue row.
Close(r) ==
  /\ run[r].pc \in {"won", "lost", "stood"}
  /\ End(r, IF At(r, "stood") THEN "CANCELLED" ELSE "ENDED")
  /\ UNCHANGED <<rows, op, queued, desks, books>>

-----------------------------------------------------------------------------
(* The officers *)

\* Fifteen minutes after a claim, which any call to Xero may take, its row is
\* failed; one under repair goes back to PARTIAL.
Reset(o) ==
  /\ op[o].status = "RUNNING"
  /\ op' = [op EXCEPT ![o].status = IF op[o].repair THEN "PARTIAL" ELSE "FAILED",
                      ![o].repair = FALSE]
  /\ UNCHANGED <<rows, queued, run, desks, books>>

\* And so is the queue row of a retry.
ResetRetry(r) ==
  /\ run[r].row = "RUNNING"
  /\ run' = [run EXCEPT ![r].row = "RESET"]
  /\ UNCHANGED <<rows, op, queued, desks, books>>

\* The resolve route, before the mark: an ended row, and no live copy.
Look(o) ==
  /\ officer.pc = "idle"
  /\ op[o].status \in Ended /\ op[o].mark = 0 /\ ~ OtherActive(o)
  /\ officer' = [officer EXCEPT !.pc = "looked", !.op = o]
  /\ UNCHANGED <<rows, op, queued, run, asking, settling, cash, books>>

\* claimResolvedInXeroMark.  "seen" is what tells later which retries of the
\* row ran across the mark.
Mark ==
  /\ officer.pc = "looked"
  /\ LET o == officer.op
     IN IF op[o].status \in Ended /\ op[o].mark = 0
          THEN /\ op' = [op EXCEPT ![o].mark = rows]
               /\ officer' = [pc |-> "marked", op |-> o,
                              seen |-> [r \in Runs |->
                                          IF run[r].op = o THEN run[r].row ELSE "none"]]
          ELSE /\ officer' = Nobody
               /\ UNCHANGED op
  /\ UNCHANGED <<rows, queued, run, asking, settling, cash, books>>

\* findRetryOverlappingMark: a retry of the row is running, or ran across the
\* mark and was not cancelled.
Overlaps ==
  \E r \in Runs :
    /\ run[r].op = officer.op
    /\ \/ run[r].row = "RUNNING"
       \/ /\ officer.seen[r] \in {"RUNNING", "RESET"}
          /\ run[r].row \notin {officer.seen[r], "CANCELLED"}

\* The mark stands, or is withdrawn.
Judge ==
  /\ officer.pc = "marked"
  /\ op' = IF Overlaps THEN [op EXCEPT ![officer.op].mark = 0] ELSE op
  /\ officer' = Nobody
  /\ UNCHANGED <<rows, queued, run, asking, settling, cash, books>>

\* Recording the money as cash: no invoice, none on its way, none completed.
CheckMarkPaid ==
  /\ ~ settling /\ ~ cash /\ ~ linked
  /\ \A o \in Queued : op[o].status \notin Active \cup {"SUCCEEDED"}
  /\ settling' = TRUE
  /\ UNCHANGED <<rows, op, queued, run, officer, asking, cash, books>>

\* Deviation: the write trusts the check.
MarkPaidAsChecked ==
  /\ settling
  /\ settling' = FALSE
  /\ cash' = TRUE
  /\ UNCHANGED <<rows, op, queued, run, officer, asking, books>>

\* The fenced write looks at the payment alone.
MarkPaid ==
  /\ settling
  /\ settling' = FALSE
  /\ cash' = ~ linked
  /\ UNCHANGED <<rows, op, queued, run, officer, asking, books>>

-----------------------------------------------------------------------------
(* The environment *)

\* The process stops, or the request of the officer does.
Crash(r) ==
  /\ ~ At(r, "end")
  /\ End(r, run[r].row)
  /\ UNCHANGED <<rows, op, queued, desks, books>>

CrashDesk ==
  /\ officer.pc # "idle" \/ settling
  /\ officer' = Nobody
  /\ settling' = FALSE
  /\ UNCHANGED <<rows, op, queued, run, asking, cash, books>>

\* Xero forgets the key, later than any run that could still use it.
Forget ==
  /\ known /\ made < MaxMade /\ \A r \in Runs : run[r].pc \notin {"ready", "send", "made"}
  /\ known' = FALSE
  /\ UNCHANGED <<rows, op, queued, run, desks, linked, made>>

RunStep(r) ==
  \/ Sibling(r) \/ Read(r) \/ Recheck(r) \/ Send(r)
  \/ Link(r, "done") \/ Link(r, "faulty")
  \/ Complete(r) \/ Replay(r) \/ Drop(r) \/ Throw(r) \/ ThrowMade(r) \/ Cool(r)

RetryStep(r) ==
  \/ RetryReads(r) \/ TakeFailed(r) \/ TakePartial(r)
  \/ Repair(r, "SUCCEEDED", "won") \/ Repair(r, "PARTIAL", "lost")
  \/ Close(r)

OfficerStep ==
  \/ \E o \in Rows : Requeue(o) \/ Reset(o) \/ Look(o)
  \/ \E r \in Runs : ResetRetry(r)
  \/ Mark \/ Judge
  \/ CheckMarkPaid \/ MarkPaid

Next ==
  \/ \E override \in BOOLEAN : Ask(override)
  \/ Insert
  \/ \E r \in Runs, o \in Rows : Claim(r, o) \/ Drain(r, o)
  \/ \E r \in Runs : RunStep(r) \/ RetryStep(r) \/ Crash(r)
  \/ OfficerStep \/ CrashDesk \/ Forget

Spec == Init /\ [][Next]_vars

-----------------------------------------------------------------------------
(* What the operations promise *)

\* A recorded success is kept: no run that was slow, reset or replaced puts a
\* failure, a cancellation or a part success over it, and no door queues it again.
SuccessIsFinal ==
  [][\A o \in Rows : op[o].status = "SUCCEEDED" => op'[o].status = "SUCCEEDED"]_vars

\* A run that is at work keeps its row: the row changes by the run's own steps
\* or by a reset, and by no other run, retry or officer.
LiveClaimIsKept ==
  [][\A r \in Runs :
       ~ At(r, "end") /\ Holds(r) /\ run'[r] = run[r]
         => op'[run[r].op] = op[run[r].op] \/ Reset(run[r].op)]_vars

\* Once the booking knows its invoice no run makes another, not even after Xero
\* forgot the key or by a run that was started before.
LinkedIsNotRemade == [][linked => made' = made]_vars

\* An operation is open, or an officer answers for one.
Held == \E o \in Queued : op[o].status \in Active \cup Ended \/ op[o].mark # 0

\* An invoice Xero holds and the booking does not know of is never closed away:
\* a row is live, may run again, or was resolved by an officer - unless the
\* money was recorded as cash.
MadeIsTraced == made > 0 /\ ~ linked /\ ~ cash => Held

\* A row an officer resolved is never queued or run again, while the mark stands.
ResolvedIsNotRerun == \A o \in Rows : op[o].mark # 0 => op[o].status \notin Active

Life == INSTANCE InvoiceLife WITH held <- Held

\* The rows, runs, retries and officers together keep the promise of InvoiceLife: no
\* invoice is made once the booking has one, none is linked that was not made or
\* unlinked again, cash is not recorded beside a linked invoice, and the last open
\* row is not closed over an invoice the booking does not know of.
LifeSpec == Life!Spec
=============================================================================
