-------------------------- MODULE XeroInvoiceProofs --------------------------
(***************************************************************************)
(* For any number of runs, rows and invoices: a recorded success is final, *)
(* a run at work keeps its row but for a reset, a resolved row is not run  *)
(* again, a booking that has its invoice gets no other, an invoice Xero    *)
(* made is not lost sight of, and every step is one of InvoiceLife.        *)
(***************************************************************************)
EXTENDS XeroInvoiceOps, TLAPS

Results == {"SUCCEEDED", "PARTIAL", "FAILED", "CANCELLED"}
OpType == [status : Active \cup Ended \cup {"none", "SUCCEEDED", "CANCELLED"},
           claim : Runs \cup {NoRun}, repair : BOOLEAN, mark : Nat]
RunType == [pc : Steps, op : 0..MaxRows, row : QueueRows]

-----------------------------------------------------------------------------
(* What the writes do to the rows *)

\* What an outcome, written or refused, leaves of every row.
Kept(r) ==
  /\ op' \in [Rows -> OpType]
  /\ \A o \in Rows :
       /\ op'[o].status = "none" <=> op[o].status = "none"
       /\ op'[o].mark = op[o].mark
       /\ op'[o].status \in Active => op'[o].status = op[o].status
       /\ op[o].status = "SUCCEEDED" => op'[o].status = "SUCCEEDED"
       /\ op[o].status = "RUNNING" /\ op[o].claim # r => op'[o] = op[o]

LEMMA OutcomeKeeps ==
  ASSUME TypeOK, NEW r \in Runs, ~ At(r, "end"), NEW status \in Results, Outcome(r, status)
  PROVE  Kept(r)
  <1> DEFINE o == run[r].op
             new == [op[o] EXCEPT !.status = status, !.repair = FALSE]
  <1>1. op \in [Rows -> OpType] /\ o \in Rows /\ op[o].status # "none"
    BY DEF TypeOK, OpType, RunType, Rows, Queued, At, Steps
  <1>2. CASE ~ MayWrite(r, status)
    BY <1>1, <1>2 DEF Outcome, Kept
  <1>3. CASE MayWrite(r, status)
    <2>1. op' = [op EXCEPT ![o] = new]
      BY <1>1, <1>3 DEF Outcome, OpType
    <2>2. /\ new \in OpType
          /\ new.status = status /\ new.mark = op[o].mark
      BY <1>1 DEF OpType, Results, Active, Ended
    <2>3. op[o].status = "SUCCEEDED" => status = "SUCCEEDED"
      BY <1>3 DEF MayWrite, Results
    <2>4. op[o].status = "RUNNING" => op[o].claim = r
      BY <1>3 DEF MayWrite, Results
    <2> HIDE DEF new, o
    <2> QED BY <1>1, <2>1, <2>2, <2>3, <2>4 DEF Kept, Results, Active
  <1> QED BY <1>2, <1>3

\* A claim of a row by a run.
LEMMA ClaimedTypes ==
  ASSUME TypeOK, NEW r \in Runs, NEW o \in Queued, NEW repair \in BOOLEAN, Claimed(o, r, repair)
  PROVE  /\ op' \in [Rows -> OpType]
         /\ \A p \in Rows : /\ op'[p].status = "none" <=> op[p].status = "none"
                            /\ op'[p].mark = op[p].mark
                            /\ p # o => op'[p] = op[p]
         /\ op'[o].status = "RUNNING"
  <1> DEFINE new == [op[o] EXCEPT !.status = "RUNNING", !.claim = r, !.repair = repair]
  <1>1. op \in [Rows -> OpType] /\ o \in Rows /\ op[o].status # "none"
    BY OpsAssumption DEF TypeOK, OpType, Rows, Queued
  <1>2. op' = [op EXCEPT ![o] = new]
    BY <1>1 DEF Claimed, OpType
  <1>3. new \in OpType /\ new.status = "RUNNING" /\ new.mark = op[o].mark
    BY <1>1 DEF OpType, Active
  <1> HIDE DEF new
  <1> QED BY <1>1, <1>2, <1>3

\* A run that moves on, or ends, stays well typed.
LEMMA GoTypes ==
  ASSUME TypeOK, NEW r \in Runs, NEW pc \in Steps, Go(r, pc), ~ At(r, "end"), rows' = rows
  PROVE  /\ run' \in [Runs -> RunType]
         /\ \A q \in Runs : run'[q].pc # "end" => run'[q].op \in Queued'
  BY DEF TypeOK, RunType, Go, At, Queued

LEMMA EndTypes ==
  ASSUME TypeOK, NEW r \in Runs, NEW row \in QueueRows, End(r, row), rows' = rows
  PROVE  /\ run' \in [Runs -> RunType]
         /\ \A q \in Runs : run'[q].pc # "end" => run'[q].op \in Queued'
  <1>1. run' = [run EXCEPT ![r] = [pc |-> "end", op |-> IF row = "none" THEN 0 ELSE run[r].op,
                                   row |-> row]]
    BY DEF End, TypeOK
  <1> QED BY <1>1, OpsAssumption DEF TypeOK, RunType, Queued, Steps

-----------------------------------------------------------------------------
(* Type correctness *)

\* The types, by the part of the state a step writes.
RowTypes == /\ op \in [Rows -> OpType]
            /\ \A o \in Rows : op[o].status = "none" <=> o > rows
RunTypes == /\ run \in [Runs -> RunType]
            /\ \A r \in Runs : run[r].pc # "end" => run[r].op \in Queued
DeskTypes == /\ officer \in [pc : {"idle", "looked", "marked"}, op : 0..MaxRows,
                             seen : [Runs -> QueueRows]]
             /\ officer.pc # "idle" => officer.op \in Queued
             /\ asking \in BOOLEAN /\ settling \in BOOLEAN /\ cash \in BOOLEAN
BookTypes == linked \in BOOLEAN /\ made \in Nat /\ known \in BOOLEAN

LEMMA Parts ==
  TypeOK <=> /\ rows \in 0..MaxRows /\ queued \subseteq Queued
             /\ RowTypes /\ RunTypes /\ DeskTypes /\ BookTypes
  BY DEF TypeOK, RowTypes, RunTypes, DeskTypes, BookTypes, OpType, RunType

LEMMA ReturnedType ==
  ASSUME NEW row \in OpType
  PROVE  /\ [row EXCEPT !.status = "PENDING", !.claim = NoRun] \in OpType
         /\ [row EXCEPT !.status = "PENDING", !.claim = NoRun].status # "none"
  <1> DEFINE one == [row EXCEPT !.status = "PENDING"]
             two == [one EXCEPT !.claim = NoRun]
  <1>1. one \in OpType /\ one.status = "PENDING"
    BY DEF OpType, Active
  <1> HIDE DEF one
  <1>2. two \in OpType /\ two.status = "PENDING"
    BY <1>1 DEF OpType
  <1>3. two = [row EXCEPT !.status = "PENDING", !.claim = NoRun]
    BY DEF one, OpType
  <1> QED BY <1>2, <1>3

LEMMA RunStepTypes ==
  ASSUME TypeOK, NEW r \in Runs, RunStep(r)
  PROVE  TypeOK'
  <1>1. rows' = rows /\ queued' = queued /\ UNCHANGED desks /\ r \in Runs /\ ~ At(r, "end")
    BY DEF RunStep, Sibling, Read, Recheck, Send, Link, Complete, Replay, Drop, Throw, ThrowMade,
      Cool, At,
      books, desks
  <1>2. BookTypes'
    <2>1. \/ UNCHANGED books \/ Send(r)
          \/ \E pc \in Steps : Link(r, pc)
      BY DEF RunStep, Sibling, Read, Recheck, Complete, Replay, Drop, Throw, ThrowMade, Cool, Steps
    <2>2. BookTypes
      BY Parts
    <2>3. made' \in Nat
      BY <2>1, <2>2 DEF Send, Link, BookTypes, books
    <2>4. linked' \in BOOLEAN /\ known' \in BOOLEAN
      <3>1. linked' = linked \/ linked' = TRUE
        BY <2>1 DEF Send, Link, books
      <3>2. known' = known \/ known' = TRUE
        BY <2>1 DEF Send, Link, books
      <3> QED BY <3>1, <3>2, <2>2 DEF BookTypes
    <2> QED BY <2>3, <2>4 DEF BookTypes
  <1>3. DeskTypes'
    BY <1>1, Parts DEF DeskTypes, desks, Queued
  <1>4. RunTypes'
    <2>1. \/ \E pc \in Steps : Go(r, pc)
          \/ \E row \in QueueRows : End(r, row)
      BY DEF RunStep, Sibling, Read, Recheck, Send, Link, Complete, Replay, Drop, Throw,
        ThrowMade, Cool, Leave,
        Steps, QueueRows
    <2> QED BY <1>1, <2>1, GoTypes, EndTypes DEF RunTypes
  <1>5. RowTypes'
    <2>1. CASE UNCHANGED op
      BY <1>1, <2>1, Parts DEF RowTypes
    <2>2. CASE \E status \in Results : Outcome(r, status)
      BY <1>1, <2>2, OutcomeKeeps, Parts DEF RowTypes, Kept
    <2>3. CASE op' = [op EXCEPT ![run[r].op].status = "PENDING", ![run[r].op].claim = NoRun]
      <3> DEFINE o == run[r].op
                 new == [op[o] EXCEPT !.status = "PENDING", !.claim = NoRun]
      <3>1. op \in [Rows -> OpType] /\ o \in Rows /\ op[o].status # "none"
        BY <1>1, OpsAssumption DEF TypeOK, OpType, Rows, Queued, At
      <3>2. op' = [op EXCEPT ![o] = new]
        BY <2>3, <3>1 DEF OpType
      <3>3. new \in OpType /\ new.status # "none"
        BY <3>1, ReturnedType
      <3> HIDE DEF new, o
      <3> QED BY <1>1, <3>1, <3>2, <3>3, Parts DEF RowTypes
    <2> QED BY <2>1, <2>2, <2>3 DEF RunStep, Sibling, Read, Recheck, Send, Link, Complete, Replay,
          Drop, Throw, ThrowMade, Cool, Results
  <1> QED BY <1>1, <1>2, <1>3, <1>4, <1>5, Parts DEF Queued, TypeOK, RowTypes, RunTypes, DeskTypes,
        BookTypes, OpType, RunType

LEMMA RetryStepTypes ==
  ASSUME TypeOK, NEW r \in Runs, RetryStep(r)
  PROVE  TypeOK'
  <1>1. /\ rows' = rows /\ queued' = queued /\ UNCHANGED <<desks, books>>
        /\ ~ At(r, "end") /\ run[r].op \in Queued
    BY DEF RetryStep, RetryReads, TakeFailed, TakePartial, Take, Repair, Close, At, TypeOK
  <1>2. DeskTypes' /\ BookTypes'
    BY <1>1, Parts DEF DeskTypes, BookTypes, desks, books, Queued
  <1>3. RunTypes'
    <2>1. \/ \E pc \in Steps : Go(r, pc)
          \/ \E row \in QueueRows : End(r, row)
      BY DEF RetryStep, RetryReads, TakeFailed, TakePartial, Take, Repair, Close, Steps, QueueRows
    <2> QED BY <1>1, <2>1, GoTypes, EndTypes DEF RunTypes
  <1>4. RowTypes'
    <2>1. CASE UNCHANGED op
      BY <1>1, <2>1, Parts DEF RowTypes
    <2>2. CASE \E repair \in BOOLEAN : Claimed(run[r].op, r, repair)
      BY <1>1, <2>2, ClaimedTypes, Parts DEF RowTypes
    <2>3. ASSUME NEW status \in Results,
                 op' = [op EXCEPT ![run[r].op].status = status, ![run[r].op].repair = FALSE]
          PROVE  RowTypes'
      <3> DEFINE o == run[r].op
                 new == [op[o] EXCEPT !.status = status, !.repair = FALSE]
      <3>1. op \in [Rows -> OpType] /\ o \in Rows /\ op[o].status # "none"
        BY <1>1, OpsAssumption DEF TypeOK, OpType, Rows, Queued, At
      <3>2. op' = [op EXCEPT ![o] = new]
        BY <2>3, <3>1 DEF OpType
      <3>3. new \in OpType /\ new.status # "none"
        BY <3>1 DEF OpType, Active, Ended, Results
      <3> HIDE DEF new, o
      <3> QED BY <1>1, <3>1, <3>2, <3>3, Parts DEF RowTypes
    <2> QED BY <2>1, <2>2, <2>3 DEF RetryStep, RetryReads, TakeFailed, TakePartial, Take, Repair,
          Close, Results
  <1> QED BY <1>1, <1>2, <1>3, <1>4, Parts DEF Queued, TypeOK, RowTypes, RunTypes, DeskTypes,
        BookTypes, OpType, RunType

LEMMA EnqueueTypes ==
  ASSUME TypeOK, (\E override \in BOOLEAN : Ask(override)) \/ Insert
  PROVE  TypeOK'
  <1>1. CASE \E override \in BOOLEAN : Ask(override)
    BY <1>1 DEF Ask, books, TypeOK, Queued
  <1>2. CASE Insert
    <2>1. CASE UNCHANGED <<rows, op>>
      BY <1>2, <2>1 DEF Insert, books, TypeOK, Queued
    <2>2. CASE ~ UNCHANGED <<rows, op>>
      <3> DEFINE new == [op[rows + 1] EXCEPT !.status = "PENDING"]
      <3>1. /\ op \in [Rows -> OpType] /\ rows + 1 \in Rows
            /\ op' = [op EXCEPT ![rows + 1] = new] /\ rows' = rows + 1
        BY <1>2, <2>2, OpsAssumption DEF Insert, TypeOK, OpType, Rows
      <3>2. new \in OpType /\ new.status = "PENDING"
        BY <3>1 DEF OpType, Active
      <3> HIDE DEF new
      <3>3. RowTypes'
        BY <3>1, <3>2, OpsAssumption, Parts DEF RowTypes, Rows, TypeOK
      <3>4. RunTypes' /\ DeskTypes' /\ queued' \subseteq Queued'
        <4>1. Queued \subseteq Queued'
          BY <3>1, OpsAssumption DEF Queued, TypeOK
        <4>2. UNCHANGED <<queued, run, officer, settling, cash>> /\ asking' = FALSE
          BY <1>2 DEF Insert
        <4> QED BY <4>1, <4>2, Parts DEF RunTypes, DeskTypes
      <3>5. BookTypes'
        BY <1>2, Parts DEF Insert, BookTypes, books
      <3> QED BY <3>1, <3>3, <3>4, <3>5, OpsAssumption DEF TypeOK, RowTypes, RunTypes,
            DeskTypes, BookTypes, OpType, RunType, Rows
    <2> QED BY <2>1, <2>2
  <1> QED BY <1>1, <1>2

LEMMA StartTypes ==
  ASSUME TypeOK, NEW r \in Runs, NEW o \in Rows, Claim(r, o) \/ Drain(r, o)
  PROVE  TypeOK'
  <1>1. o \in Queued
    <2>1. CASE Claim(r, o)
      <3>1. op[o].status # "none" /\ rows \in Nat
        BY <2>1, OpsAssumption DEF Claim, TypeOK
      <3>2. ~ (o > rows)
        BY <3>1 DEF TypeOK
      <3> QED BY <3>1, <3>2, OpsAssumption DEF Queued, Rows
    <2>2. CASE Drain(r, o)
      BY <2>2 DEF Drain, TypeOK
    <2> QED BY <2>1, <2>2
  <1>2. rows' = rows /\ UNCHANGED <<desks, books>> /\ queued' \subseteq queued
    BY DEF Claim, Drain
  <1>3. RunTypes'
    <2> DEFINE new == [pc |-> IF Claim(r, o) THEN "claimed" ELSE "retry",
                       op |-> o,
                       row |-> IF Claim(r, o) THEN "none" ELSE "RUNNING"]
    <2>1. run' = [run EXCEPT ![r] = new]
      BY DEF Claim, Drain, Free
    <2>2. new \in RunType /\ new.op = o
      BY OpsAssumption DEF RunType, Steps, QueueRows, Rows
    <2> HIDE DEF new
    <2> QED BY <1>1, <1>2, <2>1, <2>2, Parts DEF RunTypes, Queued
  <1>4. RowTypes'
    BY <1>1, <1>2, ClaimedTypes, Parts DEF Claim, Drain, RowTypes
  <1>5. DeskTypes' /\ BookTypes'
    BY <1>2, Parts DEF DeskTypes, BookTypes, desks, books, Queued
  <1> QED BY <1>2, <1>3, <1>4, <1>5, Parts DEF Queued, TypeOK, RowTypes, RunTypes,
        DeskTypes, BookTypes, OpType, RunType

LEMMA OfficerStepTypes ==
  ASSUME TypeOK, OfficerStep
  PROVE  TypeOK'
  <1>1. ASSUME NEW o \in Rows, Requeue(o)
        PROVE  TypeOK'
    BY <1>1, OpsAssumption DEF Requeue, desks, books, TypeOK, Queued, Rows, Ended
  <1>2. ASSUME NEW o \in Rows, Reset(o)
        PROVE  TypeOK'
    <2> DEFINE new == [op[o] EXCEPT !.status = IF op[o].repair THEN "PARTIAL" ELSE "FAILED",
                                    !.repair = FALSE]
    <2>1. op \in [Rows -> OpType] /\ op' = [op EXCEPT ![o] = new] /\ op[o].status # "none"
      BY <1>2 DEF Reset, TypeOK, OpType
    <2>2. new \in OpType /\ new.status # "none"
      BY <2>1 DEF OpType, Ended
    <2> HIDE DEF new
    <2>3. RowTypes'
      BY <1>2, <2>1, <2>2, Parts DEF RowTypes, Reset
    <2>4. UNCHANGED <<rows, queued, run, desks, books>>
      BY <1>2 DEF Reset
    <2> QED BY <2>3, <2>4, Parts DEF Queued, TypeOK, RowTypes, OpType, desks, books
  <1>3. ASSUME NEW o \in Rows, Look(o)
        PROVE  TypeOK'
    <2>1. op[o].status # "none" /\ rows \in Nat
      BY <1>3, OpsAssumption DEF Look, Ended, TypeOK
    <2>2. o \in Queued /\ o \in 0..MaxRows
      BY <2>1, OpsAssumption DEF TypeOK, Queued, Rows
    <2>3. DeskTypes'
      BY <1>3, <2>2, Parts DEF Look, DeskTypes, Queued
    <2> QED BY <1>3, <2>3, Parts DEF Look, TypeOK, DeskTypes, Queued, books
  <1>4. ASSUME NEW r \in Runs, ResetRetry(r)
        PROVE  TypeOK'
    BY <1>4 DEF ResetRetry, desks, books, TypeOK, Queued, QueueRows
  <1>5. ASSUME Mark \/ Judge
        PROVE  TypeOK'
    <2> DEFINE o == officer.op
    <2>1. /\ UNCHANGED <<rows, queued, run, asking, settling, cash, books>>
          /\ op \in [Rows -> OpType] /\ o \in Rows
      BY <1>5, OpsAssumption DEF Mark, Judge, TypeOK, OpType, Queued, Rows
    <2>2. RowTypes'
      <3>1. op' = op \/ \E m \in Nat : op' = [op EXCEPT ![o] = [op[o] EXCEPT !.mark = m]]
        <4>1. rows \in Nat /\ 0 \in Nat
          BY OpsAssumption DEF TypeOK
        <4>2. \/ op' = op \/ op' = [op EXCEPT ![o].mark = rows] \/ op' = [op EXCEPT ![o].mark = 0]
          BY <1>5 DEF Mark, Judge
        <4> QED BY <4>1, <4>2, <2>1
      <3>2. \A m \in Nat : /\ [op[o] EXCEPT !.mark = m] \in OpType
                           /\ [op[o] EXCEPT !.mark = m].status = op[o].status
        BY <2>1 DEF OpType
      <3> HIDE DEF o
      <3> QED BY <2>1, <3>1, <3>2, Parts DEF RowTypes
    <2>3. DeskTypes'
      <3>1. \/ officer' = Nobody
            \/ \E seen \in [Runs -> QueueRows] :
                 officer' = [pc |-> "marked", op |-> o, seen |-> seen]
        BY <1>5 DEF Mark, Judge, TypeOK, QueueRows
      <3>2. o \in Queued /\ o \in 0..MaxRows
        BY <1>5 DEF Mark, Judge, TypeOK
      <3>3. Nobody.pc = "idle" /\ Nobody \in [pc : {"idle", "looked", "marked"}, op : 0..MaxRows,
                                             seen : [Runs -> QueueRows]]
        BY OpsAssumption DEF Nobody, QueueRows
      <3> QED BY <2>1, <3>1, <3>2, <3>3, Parts DEF DeskTypes, Queued
    <2> QED BY <2>1, <2>2, <2>3, Parts DEF Queued, TypeOK, RowTypes, DeskTypes, OpType, books
  <1>6. ASSUME CheckMarkPaid \/ MarkPaid
        PROVE  TypeOK'
    BY <1>6 DEF CheckMarkPaid, MarkPaid, books, TypeOK, Queued
  <1> QED BY <1>1, <1>2, <1>3, <1>4, <1>5, <1>6 DEF OfficerStep

LEMMA StopTypes ==
  ASSUME TypeOK, (\E r \in Runs : Crash(r)) \/ CrashDesk \/ Forget
  PROVE  TypeOK'
  <1>1. ASSUME NEW r \in Runs, Crash(r)
        PROVE  TypeOK'
    <2>1. run[r].row \in QueueRows /\ End(r, run[r].row)
      BY <1>1 DEF Crash, TypeOK
    <2>2. RunTypes'
      BY <1>1, <2>1, EndTypes DEF Crash, RunTypes
    <2> QED BY <1>1, <2>2 DEF Crash, RunTypes, RunType, TypeOK, desks, books, Queued
  <1>2. CASE CrashDesk
    <2>1. Nobody.pc = "idle" /\ Nobody \in [pc : {"idle", "looked", "marked"}, op : 0..MaxRows,
                                           seen : [Runs -> QueueRows]]
      BY OpsAssumption DEF Nobody, QueueRows
    <2> QED BY <1>2, <2>1 DEF CrashDesk, books, TypeOK, Queued
  <1>3. CASE Forget
    BY <1>3 DEF Forget, desks, TypeOK, Queued
  <1> QED BY <1>1, <1>2, <1>3

LEMMA InitTypes == Init => TypeOK
  <1> SUFFICES ASSUME Init PROVE TypeOK
    OBVIOUS
  <1>1. RowTypes /\ rows \in 0..MaxRows
    BY OpsAssumption DEF Init, RowTypes, OpType, Rows
  <1>2. RunTypes
    BY OpsAssumption DEF Init, RunTypes, RunType, Steps, QueueRows
  <1>3. DeskTypes
    <2>1. Nobody.pc = "idle" /\ Nobody \in [pc : {"idle", "looked", "marked"}, op : 0..MaxRows,
                                           seen : [Runs -> QueueRows]]
      BY OpsAssumption DEF Nobody, QueueRows
    <2>2. asking = FALSE /\ settling = FALSE /\ cash = FALSE /\ officer = Nobody
      BY DEF Init
    <2> QED BY <2>1, <2>2 DEF DeskTypes
  <1>4. BookTypes
    BY DEF Init, BookTypes
  <1> QED BY <1>1, <1>2, <1>3, <1>4, Parts DEF Init

LEMMA TypesHold ==
  ASSUME TypeOK, [Next]_vars
  PROVE  TypeOK'
  <1>1. CASE UNCHANGED vars
    BY <1>1 DEF vars, desks, books, TypeOK, Queued
  <1>2. CASE Next
    BY <1>2, RunStepTypes, RetryStepTypes, EnqueueTypes, StartTypes, OfficerStepTypes, StopTypes
      DEF Next
  <1> QED BY <1>1, <1>2

-----------------------------------------------------------------------------
(* The rows: marks, successes and live claims *)

Unmarked == \A o \in Rows : op[o].status = "none" => op[o].mark = 0
OfficerMarks == officer.pc = "marked" => op[officer.op].mark # 0
Marks == TypeOK /\ Unmarked /\ OfficerMarks /\ ResolvedIsNotRerun

\* The bodies of SuccessIsFinal and LiveClaimIsKept.
Final == \A o \in Rows : op[o].status = "SUCCEEDED" => op'[o].status = "SUCCEEDED"
Live == \A r \in Runs :
          ~ At(r, "end") /\ Holds(r) /\ run'[r] = run[r]
            => op'[run[r].op] = op[run[r].op] \/ Reset(run[r].op)

Sound == Unmarked' /\ OfficerMarks' /\ ResolvedIsNotRerun' /\ Final /\ Live

LEMMA RunRows ==
  ASSUME TypeOK, NEW r \in Runs, ~ At(r, "end")
  PROVE  run[r].op \in Rows /\ op[run[r].op].status # "none"
  BY OpsAssumption DEF TypeOK, Queued, Rows, At

LEMMA NoRowMoves ==
  ASSUME Marks, UNCHANGED op, officer' = officer \/ officer'.pc # "marked"
  PROVE  Sound
  BY DEF Marks, Sound, Unmarked, OfficerMarks, ResolvedIsNotRerun, Final, Live

\* A run's outcome.
LEMMA OutcomeSound ==
  ASSUME Marks, NEW r \in Runs, ~ At(r, "end"), Kept(r), run'[r] # run[r], officer' = officer
  PROVE  Sound
  <1>1. Unmarked' /\ OfficerMarks' /\ ResolvedIsNotRerun' /\ Final
    <2>1. officer.pc = "marked" => officer.op \in Rows
      BY OpsAssumption DEF Marks, TypeOK, Queued, Rows
    <2> QED BY <2>1 DEF Marks, Kept, Unmarked, OfficerMarks, ResolvedIsNotRerun, Final
  <1>2. Live
    BY RunRows DEF Live, Kept, Holds, Marks
  <1> QED BY <1>1, <1>2 DEF Sound

\* A step that writes one row, not its mark, and over a live claim only as the
\* claim's run or as a reset.
LEMMA OneRowSound ==
  ASSUME Marks, NEW o \in Rows, NEW new \in OpType, op' = [op EXCEPT ![o] = new],
         officer' = officer, new.mark = op[o].mark, op[o].status # "SUCCEEDED",
         new.status \in Active => new.mark = 0, new.status # "none",
         op[o].status = "RUNNING" =>
           Reset(o) \/ (op[o].claim \in Runs /\ run'[op[o].claim] # run[op[o].claim])
  PROVE  Sound
  <1>1. op \in [Rows -> OpType]
    BY DEF Marks, TypeOK, OpType
  <1>2. Unmarked' /\ OfficerMarks' /\ ResolvedIsNotRerun' /\ Final
    <2>1. officer.pc = "marked" => officer.op \in Rows
      BY OpsAssumption DEF Marks, TypeOK, Queued, Rows
    <2> QED BY <1>1, <2>1 DEF Marks, Unmarked, OfficerMarks, ResolvedIsNotRerun, Final
  <1>3. Live
    BY <1>1, RunRows DEF Live, Holds, Marks
  <1> QED BY <1>2, <1>3 DEF Sound

LEMMA RunStepSound ==
  ASSUME Marks, NEW r \in Runs, RunStep(r)
  PROVE  Sound
  <1>1. ~ At(r, "end") /\ officer' = officer /\ TypeOK
    BY DEF RunStep, Sibling, Read, Recheck, Send, Link, Complete, Replay, Drop, Throw, ThrowMade,
      Cool, At,
      desks, Marks
  <1>2. CASE UNCHANGED op
    BY <1>1, <1>2, NoRowMoves
  <1>3. run'[r] # run[r]
    <2>1. \/ \E pc \in Steps : pc # run[r].pc /\ Go(r, pc)
          \/ \E row \in QueueRows : End(r, row)
      BY <1>1 DEF RunStep, Sibling, Read, Recheck, Send, Link, Complete, Replay, Drop, Throw,
        ThrowMade, Cool,
        Leave, Steps, QueueRows, At
    <2> QED BY <1>1, <2>1 DEF Go, End, At, TypeOK
  <1>4. CASE \E status \in Results : Outcome(r, status)
    BY <1>1, <1>3, <1>4, OutcomeKeeps, OutcomeSound
  <1>5. CASE MayReturn(r) /\ op' = [op EXCEPT ![run[r].op].status = "PENDING",
                                            ![run[r].op].claim = NoRun]
    <2> DEFINE o == run[r].op
               new == [op[o] EXCEPT !.status = "PENDING", !.claim = NoRun]
    <2>1. op \in [Rows -> OpType] /\ o \in Rows
      BY <1>1, RunRows DEF TypeOK, OpType
    <2>2. op' = [op EXCEPT ![o] = new]
      BY <1>5, <2>1 DEF OpType
    <2>3. new \in OpType /\ new.status # "none"
      BY <2>1, ReturnedType
    <2>4. new.mark = op[o].mark /\ op[o].mark = 0
      BY <1>5, <2>1 DEF MayReturn, OpType
    <2>5. op[o].status \in {"RUNNING", "FAILED"} /\ op[o].claim = r
      BY <1>5 DEF MayReturn
    <2> HIDE DEF new, o
    <2> QED BY <1>1, <1>3, <2>1, <2>2, <2>3, <2>4, <2>5, OneRowSound
  <1> QED BY <1>2, <1>4, <1>5 DEF RunStep, Sibling, Read, Recheck, Send, Link, Complete, Replay,
        Drop, Throw, ThrowMade, Cool, Results

LEMMA RetryStepSound ==
  ASSUME Marks, NEW r \in Runs, RetryStep(r)
  PROVE  Sound
  <1>1. ~ At(r, "end") /\ officer' = officer /\ TypeOK /\ run[r].op \in Queued
    BY DEF RetryStep, RetryReads, TakeFailed, TakePartial, Take, Repair, Close, At, desks, Marks,
      TypeOK
  <1> DEFINE o == run[r].op
  <1>2. op \in [Rows -> OpType] /\ o \in Rows
    BY <1>1, RunRows DEF TypeOK, OpType
  <1>3. CASE UNCHANGED op
    BY <1>1, <1>3, NoRowMoves
  <1>4. ASSUME NEW repair \in BOOLEAN, NEW from \in {Ended, {"PARTIAL"}},
               MayTake(r, from), Claimed(o, r, repair)
        PROVE  Sound
    <2> DEFINE new == [op[o] EXCEPT !.status = "RUNNING", !.claim = r, !.repair = repair]
    <2>1. op' = [op EXCEPT ![o] = new]
      BY <1>2, <1>4 DEF Claimed, OpType
    <2>2. new \in OpType /\ new.status = "RUNNING" /\ new.mark = op[o].mark
      BY <1>2 DEF OpType, Active
    <2>3. op[o].mark = 0 /\ op[o].status \in Ended
      BY <1>4 DEF MayTake, Ended
    <2> HIDE DEF new, o
    <2> QED BY <1>1, <1>2, <2>1, <2>2, <2>3, OneRowSound DEF Ended
  <1>5. ASSUME NEW status \in {"SUCCEEDED", "PARTIAL"}, Holds(r), run'[r] # run[r],
               op' = [op EXCEPT ![run[r].op].status = status, ![run[r].op].repair = FALSE]
        PROVE  Sound
    <2> DEFINE new == [op[o] EXCEPT !.status = status, !.repair = FALSE]
    <2>1. op' = [op EXCEPT ![o] = new]
      BY <1>2, <1>5 DEF OpType
    <2>2. new \in OpType /\ new.status = status /\ new.mark = op[o].mark
      BY <1>2 DEF OpType, Active, Ended
    <2>3. op[o].status = "RUNNING" /\ op[o].claim = r
      BY <1>5 DEF Holds
    <2> HIDE DEF new, o
    <2> QED BY <1>1, <1>2, <1>5, <2>1, <2>2, <2>3, OneRowSound DEF Active
  <1>6. ASSUME NEW status \in {"SUCCEEDED", "PARTIAL"}, NEW pc \in Steps, pc # "repair",
               Repair(r, status, pc)
        PROVE  Sound
    <2>1. run'[r] # run[r]
      BY <1>1, <1>6 DEF Repair, Go, At, TypeOK
    <2> QED BY <1>3, <1>5, <1>6, <2>1 DEF Repair
  <1>7. CASE TakeFailed(r) \/ TakePartial(r)
    BY <1>3, <1>4, <1>7 DEF TakeFailed, TakePartial, Take
  <1> QED BY <1>3, <1>6, <1>7 DEF RetryStep, RetryReads, Close, Steps

LEMMA EnqueueSound ==
  ASSUME Marks, Insert
  PROVE  Sound
  <1>1. CASE UNCHANGED op
    BY <1>1, NoRowMoves DEF Insert
  <1>2. CASE ~ UNCHANGED op
    <2> DEFINE o == rows + 1
               new == [op[o] EXCEPT !.status = "PENDING"]
    <2>1. op \in [Rows -> OpType] /\ o \in Rows /\ op' = [op EXCEPT ![o] = new]
      BY <1>2, OpsAssumption DEF Insert, Marks, TypeOK, OpType, Rows
    <2>2. new \in OpType /\ new.status = "PENDING" /\ new.mark = op[o].mark
      BY <2>1 DEF OpType, Active
    <2>3. op[o].status = "none" /\ op[o].mark = 0
      BY <2>1, OpsAssumption DEF Marks, Unmarked, TypeOK
    <2>4. officer' = officer
      BY DEF Insert
    <2> HIDE DEF new, o
    <2> QED BY <2>1, <2>2, <2>3, <2>4, OneRowSound
  <1> QED BY <1>1, <1>2

LEMMA ClaimSound ==
  ASSUME Marks, NEW r \in Runs, NEW o \in Rows, Claim(r, o)
  PROVE  Sound
  <1> DEFINE new == [op[o] EXCEPT !.status = "RUNNING", !.claim = r, !.repair = FALSE]
  <1>1. op \in [Rows -> OpType] /\ op' = [op EXCEPT ![o] = new]
    BY DEF Claim, Claimed, Marks, TypeOK, OpType
  <1>2. new \in OpType /\ new.status = "RUNNING" /\ new.mark = op[o].mark
    BY <1>1 DEF OpType, Active
  <1>3. op[o].status = "PENDING" /\ op[o].mark = 0
    BY DEF Claim, Marks, ResolvedIsNotRerun, Active
  <1>4. officer' = officer
    BY DEF Claim, desks
  <1> HIDE DEF new
  <1> QED BY <1>1, <1>2, <1>3, <1>4, OneRowSound

LEMMA ResetSound ==
  ASSUME Marks, NEW o \in Rows, Reset(o)
  PROVE  Sound
  <1> DEFINE new == [op[o] EXCEPT !.status = IF op[o].repair THEN "PARTIAL" ELSE "FAILED",
                                  !.repair = FALSE]
  <1>1. op \in [Rows -> OpType] /\ op' = [op EXCEPT ![o] = new] /\ op[o].status = "RUNNING"
    BY DEF Reset, Marks, TypeOK, OpType
  <1>2. new \in OpType /\ new.status \in Ended /\ new.mark = op[o].mark
    BY <1>1 DEF OpType, Ended
  <1>3. officer' = officer
    BY DEF Reset, desks
  <1> HIDE DEF new
  <1> QED BY <1>1, <1>2, <1>3, OneRowSound DEF Ended, Active

LEMMA MarkSound ==
  ASSUME Marks, Mark
  PROVE  Sound
  <1> DEFINE o == officer.op
  <1>1. o \in Rows /\ rows \in Nat /\ rows # 0 /\ op \in [Rows -> OpType]
    BY OpsAssumption DEF Mark, Marks, TypeOK, OpType, Queued, Rows
  <1>2. CASE op[o].status \in Ended /\ op[o].mark = 0
    <2>1. op' = [op EXCEPT ![o] = [op[o] EXCEPT !.mark = rows]] /\ officer'.op = o
      BY <1>1, <1>2 DEF Mark, OpType
    <2>2. /\ [op[o] EXCEPT !.mark = rows].mark = rows
          /\ [op[o] EXCEPT !.mark = rows].status = op[o].status
      BY <1>1 DEF OpType
    <2>3. \A p \in Rows : p # o => op'[p] = op[p]
      BY <1>1, <2>1
    <2>4. op'[o].mark = rows /\ op'[o].status = op[o].status /\ op[o].status \in Ended
      BY <1>1, <1>2, <2>1, <2>2
    <2>5. Unmarked' /\ ResolvedIsNotRerun' /\ Final
      BY <2>3, <2>4 DEF Marks, Unmarked, ResolvedIsNotRerun, Final, Active, Ended
    <2>6. OfficerMarks'
      BY <1>1, <2>1, <2>4 DEF OfficerMarks
    <2>7. Live
      BY <2>3, <2>4, RunRows DEF Live, Holds, Ended, Marks
    <2> QED BY <2>5, <2>6, <2>7 DEF Sound
  <1>3. CASE ~ (op[o].status \in Ended /\ op[o].mark = 0)
    BY <1>3, NoRowMoves DEF Mark, Nobody
  <1> QED BY <1>2, <1>3

LEMMA JudgeSound ==
  ASSUME Marks, Judge
  PROVE  Sound
  <1> DEFINE o == officer.op
  <1>1. o \in Rows /\ op \in [Rows -> OpType] /\ op[o].mark # 0
    BY OpsAssumption DEF Judge, Marks, OfficerMarks, TypeOK, OpType, Queued, Rows
  <1>2. CASE Overlaps
    <2>1. op' = [op EXCEPT ![o] = [op[o] EXCEPT !.mark = 0]]
      BY <1>1, <1>2 DEF Judge, OpType
    <2>2. [op[o] EXCEPT !.mark = 0].mark = 0 /\ [op[o] EXCEPT !.mark = 0].status = op[o].status
      BY <1>1 DEF OpType
    <2>3. \A p \in Rows : p # o => op'[p] = op[p]
      BY <1>1, <2>1
    <2>4. op'[o].mark = 0 /\ op'[o].status = op[o].status /\ op[o].status \notin Active
      BY <1>1, <2>1, <2>2 DEF Marks, ResolvedIsNotRerun
    <2>5. Unmarked' /\ ResolvedIsNotRerun' /\ Final
      BY <2>3, <2>4 DEF Marks, Unmarked, ResolvedIsNotRerun, Final
    <2>6. OfficerMarks'
      BY DEF Judge, Nobody, OfficerMarks
    <2>7. Live
      BY <2>3, <2>4, RunRows DEF Live, Holds, Active, Marks
    <2> QED BY <2>5, <2>6, <2>7 DEF Sound
  <1>3. CASE ~ Overlaps
    BY <1>3, NoRowMoves DEF Judge, Nobody
  <1> QED BY <1>2, <1>3

LEMMA StepSound ==
  ASSUME Marks, [Next]_vars
  PROVE  Marks' /\ Sound
  <1>1. TypeOK'
    BY TypesHold DEF Marks
  <1>2. ASSUME UNCHANGED vars
        PROVE  Sound
    BY <1>2, NoRowMoves DEF vars, desks
  <1>3. ASSUME NEW o \in Rows, Requeue(o) \/ Look(o)
        PROVE  Sound
    BY <1>3, NoRowMoves DEF Requeue, Look, desks, Marks, TypeOK
  <1>4. ASSUME NEW r \in Runs, ResetRetry(r) \/ Crash(r)
        PROVE  Sound
    BY <1>4, NoRowMoves DEF ResetRetry, Crash, desks
  <1>5. ASSUME NEW r \in Runs, NEW o \in Rows, Drain(r, o)
        PROVE  Sound
    BY <1>5, NoRowMoves DEF Drain, desks
  <1>6. ASSUME (\E override \in BOOLEAN : Ask(override)) \/ CheckMarkPaid \/ MarkPaid \/ Forget
        PROVE  Sound
    BY <1>6, NoRowMoves DEF Ask, CheckMarkPaid, MarkPaid, Forget, desks
  <1>7. ASSUME CrashDesk
        PROVE  Sound
    BY <1>7, NoRowMoves DEF CrashDesk, Nobody
  <1>8. Sound
    BY <1>2, <1>3, <1>4, <1>5, <1>6, <1>7, RunStepSound, RetryStepSound, EnqueueSound, ClaimSound,
      ResetSound, MarkSound, JudgeSound DEF Next, OfficerStep
  <1> QED BY <1>1, <1>8 DEF Marks, Sound

LEMMA MarksAlways == Spec => []Marks
  <1>1. Init => Marks
    <2>1. Init => Unmarked /\ OfficerMarks /\ ResolvedIsNotRerun
      BY DEF Init, Nobody, Unmarked, OfficerMarks, ResolvedIsNotRerun
    <2> QED BY <2>1, InitTypes DEF Marks
  <1>2. Marks /\ [Next]_vars => Marks'
    BY StepSound
  <1> QED BY <1>1, <1>2, PTL DEF Spec

\* Type correctness: every run and every officer has a row that exists.
THEOREM InvoiceTypes == Spec => []TypeOK
  <1>1. Marks => TypeOK
    BY DEF Marks
  <1> QED BY <1>1, MarksAlways, PTL

\* A row an officer resolved is never queued, claimed or put back in the queue
\* while its mark stands, by any number of runs and retries.
THEOREM ResolvedStaysResolved == Spec => []ResolvedIsNotRerun
  <1>1. Marks => ResolvedIsNotRerun
    BY DEF Marks
  <1> QED BY <1>1, MarksAlways, PTL

\* No late outcome, reset or retry takes a recorded success away.
THEOREM SuccessStands == Spec => SuccessIsFinal
  <1>1. Marks /\ [Next]_vars => [Final]_vars
    BY StepSound DEF Sound
  <1>2. Spec => [][Final]_vars
    BY <1>1, MarksAlways, PTL DEF Spec
  <1> QED BY <1>2 DEF SuccessIsFinal, Final

\* Only a run itself, or a reset, writes the row of a run at work.
THEOREM ClaimsAreKept == Spec => LiveClaimIsKept
  <1>1. Marks /\ [Next]_vars => [Live]_vars
    BY StepSound DEF Sound
  <1>2. Spec => [][Live]_vars
    BY <1>1, MarksAlways, PTL DEF Spec
  <1> QED BY <1>2 DEF LiveClaimIsKept, Live

-----------------------------------------------------------------------------
(* The invoice is made once *)

\* Xero knows the key while a run is between its call and the link, and, once
\* the booking has its invoice, while a run that read it without is at work.
KeyKept ==
  /\ (\E r \in Runs : At(r, "made")) => known
  /\ linked /\ (\E r \in Runs : run[r].pc \in {"ready", "send"}) => known

LEMMA Elsewhere ==
  ASSUME TypeOK, KeyKept, NEW r \in Runs, NEW new, run' = [run EXCEPT ![r] = new],
         new.pc \notin {"ready", "send", "made"}, UNCHANGED <<linked, known>>
  PROVE  KeyKept'
  BY DEF TypeOK, KeyKept, At

LEMMA GoElsewhere ==
  ASSUME TypeOK, KeyKept, NEW r \in Runs, NEW pc \in Steps \ {"ready", "send", "made"},
         Go(r, pc) \/ (\E row \in QueueRows : End(r, row)), UNCHANGED <<linked, known>>
  PROVE  KeyKept'
  <1>1. CASE Go(r, pc)
    <2> DEFINE new == [run[r] EXCEPT !.pc = pc]
    <2>1. run' = [run EXCEPT ![r] = new] /\ new.pc = pc
      BY <1>1 DEF Go, TypeOK
    <2> HIDE DEF new
    <2> QED BY <2>1, Elsewhere
  <1>2. ASSUME NEW row \in QueueRows, End(r, row)
        PROVE  KeyKept'
    <2> DEFINE new == [pc |-> "end", op |-> IF row = "none" THEN 0 ELSE run[r].op, row |-> row]
    <2>1. run' = [run EXCEPT ![r] = new] /\ new.pc = "end"
      BY <1>2 DEF End, TypeOK
    <2> HIDE DEF new
    <2> QED BY <2>1, Elsewhere
  <1> QED BY <1>1, <1>2

LEMMA RunKeepsKey ==
  ASSUME TypeOK, KeyKept, NEW r \in Runs, RunStep(r)
  PROVE  KeyKept' /\ (linked => made' = made)
  <1>1. CASE Read(r)
    <2>1. UNCHANGED <<linked, made, known>>
      BY <1>1 DEF Read, books
    <2> QED BY <1>1, <2>1 DEF Read, Go, At, KeyKept, TypeOK
  <1>2. CASE Recheck(r)
    <2>1. UNCHANGED <<linked, made, known>>
      BY <1>2 DEF Recheck, books
    <2> QED BY <1>2, <2>1 DEF Recheck, Go, At, KeyKept, TypeOK
  <1>3. CASE Send(r)
    BY <1>3 DEF Send, Go, At, KeyKept, TypeOK
  <1>4. ASSUME NEW pc \in {"done", "faulty"}, Link(r, pc)
        PROVE  KeyKept' /\ (linked => made' = made)
    BY <1>4 DEF Link, Go, At, KeyKept, TypeOK
  <1>5. CASE \/ Sibling(r) \/ Complete(r) \/ Replay(r) \/ Drop(r)
             \/ Throw(r) \/ ThrowMade(r) \/ Cool(r)
    <2>1. UNCHANGED <<linked, made, known>>
      BY <1>5 DEF Sibling, Complete, Replay, Drop, Throw, ThrowMade, Cool, books
    <2>2. \/ \E pc \in Steps \ {"ready", "send", "made"} : Go(r, pc)
          \/ \E row \in QueueRows : End(r, row)
      BY <1>5 DEF Sibling, Complete, Replay, Drop, Throw, ThrowMade, Cool, Leave, Steps, QueueRows
    <2> QED BY <2>1, <2>2, GoElsewhere DEF Steps
  <1> QED BY <1>1, <1>2, <1>3, <1>4, <1>5 DEF RunStep

LEMMA KeyStep ==
  ASSUME TypeOK, KeyKept, [Next]_vars
  PROVE  KeyKept' /\ (linked => made' = made)
  <1>1. ASSUME UNCHANGED <<run, linked, made, known>>
        PROVE  KeyKept' /\ (linked => made' = made)
    BY <1>1 DEF KeyKept, At
  <1>2. ASSUME UNCHANGED vars
        PROVE  UNCHANGED <<run, linked, made, known>>
    BY <1>2 DEF vars, books
  <1>3. ASSUME \/ \E override \in BOOLEAN : Ask(override)
               \/ Insert \/ Mark \/ Judge \/ CheckMarkPaid \/ MarkPaid \/ CrashDesk
               \/ \E o \in Rows : Requeue(o) \/ Reset(o) \/ Look(o)
        PROVE  UNCHANGED <<run, linked, made, known>>
    BY <1>3 DEF Ask, Insert, Mark, Judge, CheckMarkPaid, MarkPaid, CrashDesk, Requeue, Reset, Look,
      books
  <1>4. ASSUME NEW r \in Runs, ResetRetry(r)
        PROVE  KeyKept' /\ (linked => made' = made)
    <2>1. UNCHANGED <<linked, made, known>>
      BY <1>4 DEF ResetRetry, books
    <2> QED BY <1>4, <2>1 DEF ResetRetry, KeyKept, At, TypeOK
  <1>5. ASSUME NEW r \in Runs, RetryStep(r) \/ Crash(r)
        PROVE  KeyKept' /\ (linked => made' = made)
    <2>1. UNCHANGED <<linked, made, known>>
      BY <1>5 DEF RetryStep, RetryReads, TakeFailed, TakePartial, Take, Repair, Close, Crash, books
    <2>2. \/ \E pc \in Steps \ {"ready", "send", "made"} : Go(r, pc)
          \/ \E row \in QueueRows : End(r, row)
      <3>1. CASE Crash(r)
        BY <3>1 DEF Crash, TypeOK
      <3>2. CASE RetryStep(r)
        BY <3>2 DEF RetryStep, RetryReads, TakeFailed, TakePartial, Take, Repair, Close, Steps,
          QueueRows
      <3> QED BY <1>5, <3>1, <3>2
    <2> QED BY <2>1, <2>2, GoElsewhere DEF Steps
  <1>6. ASSUME NEW r \in Runs, NEW o \in Rows, Claim(r, o) \/ Drain(r, o)
        PROVE  KeyKept' /\ (linked => made' = made)
    <2>1. UNCHANGED <<linked, made, known>>
      BY <1>6 DEF Claim, Drain, books
    <2> QED BY <1>6, <2>1, Elsewhere DEF Claim, Drain
  <1>7. CASE Forget
    BY <1>7 DEF Forget, KeyKept, At
  <1> QED BY <1>1, <1>2, <1>3, <1>4, <1>5, <1>6, <1>7, RunKeepsKey DEF Next, OfficerStep

\* A booking that knows its invoice gets no other, by any number of runs, as
\* long as Xero keeps the key while a run is between its reads and the link.
THEOREM InvoiceMadeOnce == Spec => LinkedIsNotRemade
  <1>1. Init => TypeOK /\ KeyKept
    <2>1. Init => KeyKept
      BY DEF Init, KeyKept, At
    <2> QED BY <2>1, InitTypes
  <1>2. TypeOK /\ KeyKept /\ [Next]_vars => TypeOK' /\ KeyKept'
    BY TypesHold, KeyStep
  <1>3. TypeOK /\ KeyKept /\ [Next]_vars => [linked => made' = made]_vars
    BY KeyStep
  <1>4. Spec => [][linked => made' = made]_vars
    BY <1>1, <1>2, <1>3, PTL DEF Spec
  <1> QED BY <1>4 DEF LinkedIsNotRemade

-----------------------------------------------------------------------------
(* The invoice Xero made stays traced *)

\* A recorded success, in whole or in part, comes after the link.
LinkedFirst ==
  /\ \A r \in Runs : run[r].pc \in {"done", "faulty", "replay", "repair"} => linked
  /\ \A o \in Rows : op[o].status \in {"SUCCEEDED", "PARTIAL"} \/ op[o].repair => linked

\* The steps of a retry are not those of an outbox run, and a retry drops its
\* row for the cash alone.
Kinds ==
  \A r \in Runs :
    /\ run[r].pc \in {"retry", "take", "fix", "repair"} => IsRetry(r)
    /\ run[r].pc \in {"claimed", "failed"} => ~ IsRetry(r)
    /\ At(r, "drop") /\ IsRetry(r) => cash \/ linked

Books == TypeOK /\ LinkedFirst /\ Kinds

LEMMA BooksRun ==
  ASSUME Books, NEW r \in Runs, RunStep(r)
  PROVE  LinkedFirst' /\ Kinds'
  <1>1. (linked => linked') /\ cash' = cash /\ ~ At(r, "end") /\ r \in Runs /\ TypeOK
    BY DEF RunStep, Sibling, Read, Recheck, Send, Link, Complete, Replay, Drop, Throw, ThrowMade,
      Cool, At, books, desks, Books
  <1>2. \A o \in Rows : op'[o].status \in {"SUCCEEDED", "PARTIAL"} \/ op'[o].repair => linked'
    <2>1. CASE UNCHANGED op
      BY <1>1, <2>1 DEF Books, LinkedFirst
    <2> DEFINE o == run[r].op
    <2>2. op \in [Rows -> OpType] /\ o \in Rows
      BY <1>1, RunRows DEF TypeOK, OpType
    <2>3. ASSUME NEW status \in Results, Outcome(r, status),
                 status \in {"SUCCEEDED", "PARTIAL"} => linked
          PROVE  \A p \in Rows :
                   op'[p].status \in {"SUCCEEDED", "PARTIAL"} \/ op'[p].repair => linked'
      <3> DEFINE new == [op[o] EXCEPT !.status = status, !.repair = FALSE]
      <3>1. op' = op \/ op' = [op EXCEPT ![o] = new]
        BY <2>2, <2>3 DEF Outcome, OpType
      <3>2. new.status = status /\ new.repair = FALSE
        BY <2>2 DEF OpType
      <3> HIDE DEF new, o
      <3> QED BY <1>1, <2>2, <2>3, <3>1, <3>2 DEF Books, LinkedFirst
    <2>4. CASE op' = [op EXCEPT ![run[r].op].status = "PENDING", ![run[r].op].claim = NoRun]
      <3> DEFINE new == [op[o] EXCEPT !.status = "PENDING", !.claim = NoRun]
      <3>1. op' = [op EXCEPT ![o] = new]
        BY <2>2, <2>4 DEF OpType
      <3>2. new.status = "PENDING" /\ new.repair = op[o].repair
        BY <2>2 DEF OpType
      <3> HIDE DEF new, o
      <3> QED BY <1>1, <2>2, <3>1, <3>2 DEF Books, LinkedFirst
    <2> QED BY <2>1, <2>3, <2>4 DEF RunStep, Sibling, Read, Recheck, Send, Link, Complete, Replay,
          Drop, Throw, ThrowMade, Cool, Results, Books, LinkedFirst, At
  <1>3. ASSUME NEW new, run' = [run EXCEPT ![r] = new],
               new.pc \in {"done", "faulty", "replay"} => linked',
               new.pc \notin {"claimed", "repair", "retry", "take", "fix"},
               new.pc = "failed" => ~ IsRetry(r), new.row = run[r].row \/ new.pc = "end",
               new.pc = "drop" /\ IsRetry(r) => cash
        PROVE  LinkedFirst' /\ Kinds'
    BY <1>1, <1>2, <1>3 DEF Books, LinkedFirst, Kinds, IsRetry, At, TypeOK
  <1>4. ASSUME NEW pc \in Steps \ {"claimed", "repair", "retry", "take", "fix"}, Go(r, pc),
               pc \in {"done", "faulty", "replay"} => linked', pc = "failed" => ~ IsRetry(r),
               pc = "drop" /\ IsRetry(r) => cash
        PROVE  LinkedFirst' /\ Kinds'
    <2> DEFINE new == [run[r] EXCEPT !.pc = pc]
    <2>1. run' = [run EXCEPT ![r] = new] /\ new.pc = pc /\ new.row = run[r].row
      BY <1>1, <1>4 DEF Go, TypeOK
    <2> HIDE DEF new
    <2> QED BY <1>3, <1>4, <2>1
  <1>5. ASSUME NEW row \in QueueRows, End(r, row)
        PROVE  LinkedFirst' /\ Kinds'
    <2> DEFINE new == [pc |-> "end", op |-> IF row = "none" THEN 0 ELSE run[r].op, row |-> row]
    <2>1. run' = [run EXCEPT ![r] = new] /\ new.pc = "end"
      BY <1>1, <1>5 DEF End, TypeOK
    <2> HIDE DEF new
    <2> QED BY <1>3, <2>1
  <1>6. CASE Sibling(r)
    BY <1>4, <1>6 DEF Sibling, Steps, Books, Kinds, At
  <1>7. CASE Read(r) \/ Recheck(r) \/ Send(r) \/ Link(r, "done") \/ Link(r, "faulty")
    <2>1. \E pc \in {"replay", "drop", "ready", "send", "made", "done", "faulty"} :
            Go(r, pc) /\ (pc \in {"done", "faulty", "replay"} => linked') /\ (pc = "drop" => cash)
      BY <1>1, <1>7 DEF Read, Recheck, Send, Link
    <2> QED BY <1>4, <2>1 DEF Steps
  <1>8. CASE Complete(r) \/ Replay(r) \/ Drop(r) \/ Throw(r) \/ ThrowMade(r) \/ Cool(r)
    <2>1. \/ Go(r, "won") \/ Go(r, "lost") \/ (Go(r, "failed") /\ ~ IsRetry(r))
          \/ End(r, "none")
      BY <1>8 DEF Complete, Replay, Drop, Throw, ThrowMade, Cool, Leave
    <2> QED BY <1>4, <1>5, <2>1 DEF Steps, QueueRows
  <1> QED BY <1>6, <1>7, <1>8 DEF RunStep

\* A row the books allow.
Linkable(row) == row.status \in {"SUCCEEDED", "PARTIAL"} \/ row.repair => linked

LEMMA RowLinks ==
  ASSUME TypeOK, LinkedFirst, NEW o \in Rows, NEW row \in OpType, op' = [op EXCEPT ![o] = row],
         Linkable(row)
  PROVE  \A p \in Rows : op'[p].status \in {"SUCCEEDED", "PARTIAL"} \/ op'[p].repair => linked
  <1>1. op \in [Rows -> OpType]
    BY DEF TypeOK, OpType
  <1>2. ASSUME NEW p \in Rows, op'[p].status \in {"SUCCEEDED", "PARTIAL"} \/ op'[p].repair
        PROVE  linked
    <2>1. CASE p = o
      BY <1>1, <1>2, <2>1 DEF Linkable
    <2>2. CASE p # o
      BY <1>1, <1>2, <2>2 DEF LinkedFirst
    <2> QED BY <2>1, <2>2
  <1> QED BY <1>2

LEMMA BooksRetry ==
  ASSUME Books, NEW r \in Runs, RetryStep(r)
  PROVE  LinkedFirst' /\ Kinds'
  <1> DEFINE o == run[r].op
  <1>1. /\ linked' = linked /\ cash' = cash /\ ~ At(r, "end") /\ TypeOK
        /\ op \in [Rows -> OpType] /\ o \in Rows
    <2>1. linked' = linked /\ cash' = cash /\ ~ At(r, "end") /\ TypeOK
      BY DEF RetryStep, RetryReads, TakeFailed, TakePartial, Take, Repair, Close, At, books, desks,
        Books
    <2> QED BY <2>1, RunRows DEF TypeOK, OpType
  <1>2. ASSUME NEW new, run' = [run EXCEPT ![r] = new],
               UNCHANGED op \/ \E row \in OpType : op' = [op EXCEPT ![o] = row] /\ Linkable(row),
               new.pc \in {"repair", "take", "fix", "build", "won", "lost", "stood", "end"},
               new.pc = "repair" => linked, new.pc = "end" \/ new.row = run[r].row,
               IsRetry(r) \/ new.pc \in {"won", "lost", "stood", "end"}
        PROVE  LinkedFirst' /\ Kinds'
    <2>1. \A p \in Rows : op'[p].status \in {"SUCCEEDED", "PARTIAL"} \/ op'[p].repair => linked'
      <3>1. CASE UNCHANGED op
        BY <1>1, <3>1 DEF Books, LinkedFirst
      <3>2. CASE ~ UNCHANGED op
        <4>1. PICK row \in OpType : op' = [op EXCEPT ![o] = row] /\ Linkable(row)
          BY <1>2, <3>2
        <4>2. TypeOK /\ LinkedFirst /\ o \in Rows
          BY <1>1 DEF Books
        <4> HIDE DEF o
        <4>3. \A p \in Rows : op'[p].status \in {"SUCCEEDED", "PARTIAL"} \/ op'[p].repair => linked
          BY <4>1, <4>2, RowLinks
        <4> QED BY <1>1, <4>3
      <3> QED BY <3>1, <3>2
    <2> QED BY <1>1, <1>2, <2>1 DEF Books, LinkedFirst, Kinds, IsRetry, At, TypeOK
  <1>3. ASSUME NEW pc \in {"repair", "take", "fix", "build", "won", "lost", "stood"}, Go(r, pc),
               UNCHANGED op \/ \E row \in OpType : op' = [op EXCEPT ![o] = row] /\ Linkable(row),
               pc = "repair" => linked, IsRetry(r)
        PROVE  LinkedFirst' /\ Kinds'
    <2> DEFINE new == [run[r] EXCEPT !.pc = pc]
    <2>1. run' = [run EXCEPT ![r] = new] /\ new.pc = pc /\ new.row = run[r].row
      BY <1>1, <1>3 DEF Go, TypeOK
    <2> HIDE DEF new, o
    <2> QED BY <1>2, <1>3, <2>1
  <1>4. CASE RetryReads(r)
    <2>1. /\ UNCHANGED op /\ IsRetry(r)
          /\ Go(r, "stood") \/ Go(r, "take") \/ Go(r, "fix") \/ Go(r, "lost")
      BY <1>4 DEF RetryReads, Books, Kinds, At
    <2> QED BY <1>3, <2>1
  <1>5. ASSUME NEW from \in {Ended, {"PARTIAL"}}, NEW repair \in BOOLEAN,
               NEW pc \in {"build", "repair"},
               Take(r, from, repair, pc), IsRetry(r),
               pc = "repair" \/ repair => from = {"PARTIAL"}
        PROVE  LinkedFirst' /\ Kinds'
    <2>1. CASE ~ MayTake(r, from)
      <3>1. UNCHANGED op /\ (Go(r, "stood") \/ Go(r, "lost"))
        BY <1>5, <2>1 DEF Take
      <3> QED BY <1>3, <1>5, <3>1
    <2>2. CASE MayTake(r, from)
      <3> DEFINE new == [op[o] EXCEPT !.status = "RUNNING", !.claim = r, !.repair = repair]
      <3>1. op' = [op EXCEPT ![o] = new] /\ Go(r, pc)
        BY <1>1, <1>5, <2>2 DEF Take, Claimed, OpType
      <3>2. new \in OpType /\ new.status = "RUNNING" /\ new.repair = repair
        BY <1>1 DEF OpType, Active
      <3>3. from = {"PARTIAL"} => linked
        BY <1>1, <2>2 DEF MayTake, Books, LinkedFirst
      <3>4. Linkable(new)
        BY <1>5, <3>2, <3>3 DEF Linkable
      <3> HIDE DEF new, o
      <3> QED BY <1>3, <1>5, <3>1, <3>2, <3>3, <3>4
    <2> QED BY <2>1, <2>2
  <1>6. CASE TakeFailed(r) \/ TakePartial(r)
    <2>1. IsRetry(r)
      BY <1>6 DEF TakeFailed, TakePartial, Books, Kinds, At
    <2> QED BY <1>5, <1>6, <2>1 DEF TakeFailed, TakePartial
  <1>7. ASSUME NEW status \in {"SUCCEEDED", "PARTIAL"}, NEW pc \in {"won", "lost"},
               Repair(r, status, pc)
        PROVE  LinkedFirst' /\ Kinds'
    <2>1. linked /\ IsRetry(r) /\ Go(r, pc)
      BY <1>7 DEF Repair, Books, LinkedFirst, Kinds, At
    <2> DEFINE new == [op[o] EXCEPT !.status = status, !.repair = FALSE]
    <2>2. UNCHANGED op \/ op' = [op EXCEPT ![o] = new]
      BY <1>1, <1>7 DEF Repair, OpType
    <2>3. new \in OpType /\ Linkable(new)
      BY <1>1, <2>1 DEF OpType, Ended, Linkable
    <2> HIDE DEF new, o
    <2> QED BY <1>3, <2>1, <2>2, <2>3
  <1>8. CASE Close(r)
    <2> DEFINE row == IF At(r, "stood") THEN "CANCELLED" ELSE "ENDED"
               new == [pc |-> "end", op |-> IF row = "none" THEN 0 ELSE run[r].op, row |-> row]
    <2>1. run' = [run EXCEPT ![r] = new] /\ new.pc = "end" /\ UNCHANGED op
      BY <1>1, <1>8 DEF Close, End, TypeOK
    <2> HIDE DEF new
    <2> QED BY <1>2, <2>1
  <1> QED BY <1>4, <1>6, <1>7, <1>8 DEF RetryStep

LEMMA BooksStep ==
  ASSUME Books, [Next]_vars
  PROVE  Books'
  <1>1. TypeOK'
    BY TypesHold DEF Books
  <1>2. ASSUME UNCHANGED <<run, linked>>, cash => cash' \/ linked,
               UNCHANGED op \/ \E o \in Rows, row \in OpType :
                 op' = [op EXCEPT ![o] = row] /\ Linkable(row)
        PROVE  LinkedFirst' /\ Kinds'
    <2>1. \A o \in Rows : op'[o].status \in {"SUCCEEDED", "PARTIAL"} \/ op'[o].repair => linked
      BY <1>2, RowLinks DEF Books, LinkedFirst
    <2> QED BY <1>2, <2>1 DEF Books, LinkedFirst, Kinds, IsRetry, At
  <1>3. ASSUME \/ UNCHANGED vars \/ \E override \in BOOLEAN : Ask(override)
               \/ CheckMarkPaid \/ MarkPaid \/ CrashDesk \/ Forget
               \/ \E o \in Rows : Requeue(o) \/ Look(o)
        PROVE  LinkedFirst' /\ Kinds'
    <2>1. UNCHANGED <<run, op, linked>> /\ (cash => cash' \/ linked)
      BY <1>3 DEF Ask, CheckMarkPaid, MarkPaid, CrashDesk, Forget, Requeue, Look, vars, desks,
        books, Books, TypeOK
    <2> QED BY <1>2, <2>1
  <1>4. ASSUME NEW o \in Rows, NEW row, op' = [op EXCEPT ![o] = row],
               row \in {[op[o] EXCEPT !.status = "PENDING"], [op[o] EXCEPT !.mark = 0],
                        [op[o] EXCEPT !.mark = rows],
                        [op[o] EXCEPT !.status = IF op[o].repair THEN "PARTIAL" ELSE "FAILED",
                                      !.repair = FALSE]},
               UNCHANGED <<run, linked, cash>>
        PROVE  LinkedFirst' /\ Kinds'
    <2>1. op[o] \in OpType /\ rows \in Nat
      BY OpsAssumption DEF Books, TypeOK, OpType
    <2>2. row \in OpType
      <3>1. CASE row = [op[o] EXCEPT !.status = "PENDING"]
        BY <3>1, <2>1 DEF OpType, Active
      <3>2. CASE row = [op[o] EXCEPT !.mark = 0] \/ row = [op[o] EXCEPT !.mark = rows]
        BY <3>2, <2>1 DEF OpType
      <3>3. CASE row = [op[o] EXCEPT !.status = IF op[o].repair THEN "PARTIAL" ELSE "FAILED",
                                     !.repair = FALSE]
        BY <3>3, <2>1 DEF OpType, Ended
      <3> QED BY <1>4, <3>1, <3>2, <3>3
    <2>3. Linkable(row)
      BY <1>4, <2>1 DEF Books, LinkedFirst, OpType, Linkable
    <2> QED BY <1>2, <1>4, <2>2, <2>3
  <1>5. ASSUME Insert \/ Mark \/ Judge \/ \E o \in Rows : Reset(o)
        PROVE  LinkedFirst' /\ Kinds'
    <2>1. UNCHANGED <<run, linked, cash>>
      BY <1>5 DEF Insert, Mark, Judge, Reset, desks, books
    <2>2. CASE UNCHANGED op
      BY <1>2, <2>1, <2>2
    <2>3. CASE Insert /\ ~ UNCHANGED op
      <3>1. /\ rows + 1 \in Rows
            /\ op' = [op EXCEPT ![rows + 1] = [op[rows + 1] EXCEPT !.status = "PENDING"]]
        BY <2>3, OpsAssumption DEF Insert, Books, TypeOK, Rows
      <3> QED BY <1>4, <2>1, <3>1
    <2>4. CASE (Mark \/ Judge) /\ ~ UNCHANGED op
      <3>1. officer.op \in Rows
        BY <2>4, OpsAssumption DEF Mark, Judge, Books, TypeOK, Queued, Rows
      <3>2. \/ op' = [op EXCEPT ![officer.op] = [op[officer.op] EXCEPT !.mark = 0]]
            \/ op' = [op EXCEPT ![officer.op] = [op[officer.op] EXCEPT !.mark = rows]]
        BY <2>4, <3>1 DEF Mark, Judge, Books, TypeOK
      <3> QED BY <1>4, <2>1, <3>1, <3>2
    <2>5. ASSUME NEW o \in Rows, Reset(o)
          PROVE  LinkedFirst' /\ Kinds'
      <3>1. op' = [op EXCEPT ![o] =
                     [op[o] EXCEPT !.status = IF op[o].repair THEN "PARTIAL" ELSE "FAILED",
                                   !.repair = FALSE]]
        BY <2>5 DEF Reset, Books, TypeOK
      <3> QED BY <1>4, <2>1, <3>1
    <2> QED BY <1>5, <2>2, <2>3, <2>4, <2>5
  <1>6. ASSUME NEW r \in Runs, ResetRetry(r)
        PROVE  LinkedFirst' /\ Kinds'
    BY <1>6 DEF ResetRetry, Books, LinkedFirst, Kinds, IsRetry, At, TypeOK, desks, books
  <1>7. ASSUME NEW r \in Runs, NEW o \in Rows, Claim(r, o) \/ Drain(r, o)
        PROVE  LinkedFirst' /\ Kinds'
    <2>1. UNCHANGED <<linked, cash>>
      BY <1>7 DEF Claim, Drain, desks, books
    <2>2. \A p \in Rows : op'[p].status \in {"SUCCEEDED", "PARTIAL"} \/ op'[p].repair => linked
      <3>1. CASE Drain(r, o)
        BY <3>1 DEF Drain, Books, LinkedFirst
      <3>2. CASE Claim(r, o)
        <4> DEFINE new == [op[o] EXCEPT !.status = "RUNNING", !.claim = r, !.repair = FALSE]
        <4>1. op \in [Rows -> OpType] /\ op' = [op EXCEPT ![o] = new]
          BY <3>2 DEF Claim, Claimed, Books, TypeOK, OpType
        <4>2. new.status = "RUNNING" /\ new.repair = FALSE
          BY <4>1 DEF OpType
        <4> HIDE DEF new
        <4> QED BY <4>1, <4>2 DEF Books, LinkedFirst
      <3> QED BY <1>7, <3>1, <3>2
    <2> DEFINE new == [pc |-> IF Claim(r, o) THEN "claimed" ELSE "retry",
                       op |-> o,
                       row |-> IF Claim(r, o) THEN "none" ELSE "RUNNING"]
    <2>3. run' = [run EXCEPT ![r] = new]
      BY <1>7 DEF Claim, Drain
    <2>4. (new.pc = "claimed" /\ new.row = "none") \/ (new.pc = "retry" /\ new.row = "RUNNING")
      OBVIOUS
    <2> HIDE DEF new
    <2> QED BY <2>1, <2>2, <2>3, <2>4 DEF Books, LinkedFirst, Kinds, IsRetry, At, TypeOK
  <1>8. ASSUME NEW r \in Runs, Crash(r)
        PROVE  LinkedFirst' /\ Kinds'
    <2> DEFINE new == [pc |-> "end", op |-> IF run[r].row = "none" THEN 0 ELSE run[r].op,
                       row |-> run[r].row]
    <2>1. run' = [run EXCEPT ![r] = new] /\ new.pc = "end" /\ UNCHANGED <<op, linked, cash>>
      BY <1>8 DEF Crash, End, Books, TypeOK, desks, books
    <2> HIDE DEF new
    <2> QED BY <2>1 DEF Books, LinkedFirst, Kinds, IsRetry, At, TypeOK
  <1>9. LinkedFirst' /\ Kinds'
    BY <1>3, <1>5, <1>6, <1>7, <1>8, BooksRun, BooksRetry DEF Next, OfficerStep
  <1> QED BY <1>1, <1>9 DEF Books

\* The booking has neither its invoice nor the cash.
Bare == ~ linked /\ ~ cash
Work == {"claimed", "build", "ready", "send", "made"}

\* A row that will not be closed while the booking has neither invoice nor cash.
Traced(o) ==
  /\ op[o].status \in {"RUNNING", "FAILED"}
  /\ \A r \in Runs : run[r].op = o /\ ~ At(r, "end") /\ op[o].claim = r
                       => IsRetry(r) \/ At(r, "made")

\* A run on its way to the invoice has its row, or lost it to a retry.
Working ==
  Bare => \A r \in Runs : run[r].pc \in Work =>
            /\ op[run[r].op].status \in {"RUNNING", "FAILED"}
            /\ op[run[r].op].claim = r \/ Traced(run[r].op)

\* An invoice Xero made is traced to a row.
MadeKept == made > 0 /\ Bare => \E o \in Rows : Traced(o)

Trace == Books /\ Working /\ MadeKept

\* No run at work loses its row but to a failure.
StaysOpen ==
  \A o \in Rows : op[o].status \in {"RUNNING", "FAILED"} =>
    op'[o].claim = op[o].claim /\ op'[o].status \in {"RUNNING", "FAILED"}

\* A run moves on, or ends, and takes up no other row.
Moved(q) ==
  /\ run'[q].pc # "end" => /\ run[q].pc # "end" /\ run'[q].op = run[q].op
                           /\ run'[q].row # "none" <=> run[q].row # "none"
  /\ run'[q].pc \in Work => run[q].pc \in Work
  /\ run[q].pc = "made" => run'[q].pc \in {"made", "end"} \/ run[q].row # "none"

\* Traced, of the next state.
TracedNext(o) ==
  /\ op'[o].status \in {"RUNNING", "FAILED"}
  /\ \A r \in Runs : run'[r].op = o /\ run'[r].pc # "end" /\ op'[o].claim = r
                       => run'[r].row # "none" \/ run'[r].pc = "made"

\* The promise of Working to one run, of the next state.
WorksNext(q) ==
  /\ op'[run'[q].op].status \in {"RUNNING", "FAILED"}
  /\ op'[run'[q].op].claim = q \/ TracedNext(run'[q].op)

LEMMA WorkingNext ==
  ASSUME Bare' => \A q \in Runs : run'[q].pc \in Work => WorksNext(q)
  PROVE  Working'
  BY DEF Working, WorksNext, TracedNext, Traced, At, IsRetry, Work

LEMMA MadeNext ==
  ASSUME made' > 0 /\ Bare' => \E o \in Rows : TracedNext(o)
  PROVE  MadeKept'
  BY DEF MadeKept, TracedNext, Traced, At, IsRetry, Bare

LEMMA Shift ==
  ASSUME Trace, Bare, made' = made, StaysOpen, \A q \in Runs : Moved(q)
  PROVE  Working' /\ MadeKept'
  <1>3. ASSUME NEW o \in Rows, Traced(o)
        PROVE  TracedNext(o)
    <2>1. op'[o].status \in {"RUNNING", "FAILED"} /\ op'[o].claim = op[o].claim
      BY <1>3 DEF Traced, StaysOpen
    <2> QED BY <1>3, <2>1 DEF Traced, TracedNext, At, IsRetry, Moved
  <1>4. ASSUME NEW q \in Runs, run'[q].pc \in Work
        PROVE  WorksNext(q)
    <2>1. run[q].pc \in Work /\ run'[q].op = run[q].op
      BY <1>4 DEF Work, Moved
    <2>2. run[q].op \in Rows
      BY <2>1, RunRows DEF Work, At, Trace, Books
    <2>3. /\ op[run[q].op].status \in {"RUNNING", "FAILED"}
          /\ op[run[q].op].claim = q \/ Traced(run[q].op)
      BY <2>1 DEF Trace, Working
    <2>4. /\ op'[run[q].op].status \in {"RUNNING", "FAILED"}
          /\ op'[run[q].op].claim = op[run[q].op].claim
      BY <2>2, <2>3 DEF StaysOpen
    <2>5. Traced(run[q].op) => TracedNext(run'[q].op)
      BY <1>3, <2>1, <2>2
    <2> QED BY <2>1, <2>3, <2>4, <2>5 DEF WorksNext
  <1>5. made' > 0 => \E o \in Rows : TracedNext(o)
    BY <1>3 DEF Trace, MadeKept
  <1> QED BY <1>4, <1>5, WorkingNext, MadeNext

\* One run moves.
LEMMA OneMoves ==
  ASSUME Trace, NEW r \in Runs, ~ At(r, "end"),
         \/ \E pc \in Steps : /\ Go(r, pc)
                              /\ pc \in Work => run[r].pc \in Work
                              /\ At(r, "made") => pc = "made" \/ IsRetry(r)
         \/ \E row \in QueueRows : End(r, row)
  PROVE  \A q \in Runs : Moved(q)
  <1>1. run \in [Runs -> RunType]
    BY DEF Trace, Books, TypeOK, RunType
  <1>2. ASSUME NEW pc \in Steps, Go(r, pc), pc \in Work => run[r].pc \in Work,
               At(r, "made") => pc = "made" \/ IsRetry(r)
        PROVE  \A q \in Runs : Moved(q)
    <2> DEFINE new == [run[r] EXCEPT !.pc = pc]
    <2>1. /\ run' = [run EXCEPT ![r] = new]
          /\ new.pc = pc /\ new.op = run[r].op /\ new.row = run[r].row
      BY <1>1, <1>2 DEF Go, RunType
    <2> HIDE DEF new
    <2> QED BY <1>1, <1>2, <2>1 DEF Moved, At, IsRetry
  <1>3. ASSUME NEW row \in QueueRows, End(r, row)
        PROVE  \A q \in Runs : Moved(q)
    <2> DEFINE new == [pc |-> "end", op |-> IF row = "none" THEN 0 ELSE run[r].op, row |-> row]
    <2>1. run' = [run EXCEPT ![r] = new] /\ new.pc = "end"
      BY <1>1, <1>3 DEF End
    <2> HIDE DEF new
    <2> QED BY <1>1, <2>1 DEF Moved, Work
  <1> QED BY <1>2, <1>3

\* A run of the outbox that gives its row up, before the call.
LEMMA GivenUp ==
  ASSUME Trace, Bare, NEW r \in Runs, ~ At(r, "end"), ~ At(r, "made"), ~ IsRetry(r),
         End(r, "none"), op[run[r].op].claim = r, made' = made,
         NEW row, op' = [op EXCEPT ![run[r].op] = row]
  PROVE  Working' /\ MadeKept'
  <1> DEFINE o == run[r].op
             new == [pc |-> "end", op |-> 0, row |-> "none"]
  <1>1. /\ op \in [Rows -> OpType] /\ run \in [Runs -> RunType] /\ o \in Rows
        /\ run' = [run EXCEPT ![r] = new] /\ new.pc = "end"
        /\ op' = [op EXCEPT ![o] = row]
    BY RunRows DEF Trace, Books, TypeOK, OpType, RunType, End
  <1>2. ~ Traced(o)
    BY DEF Traced
  <1> HIDE DEF new, o
  <1>3. ASSUME NEW p \in Rows, Traced(p)
        PROVE  TracedNext(p)
    <2>1. p # o /\ op'[p] = op[p]
      BY <1>1, <1>2, <1>3
    <2> QED BY <1>1, <1>3, <2>1 DEF Traced, TracedNext, At, IsRetry
  <1>4. ASSUME NEW q \in Runs, run'[q].pc \in Work
        PROVE  WorksNext(q)
    <2>1. q # r /\ run'[q] = run[q] /\ run[q].pc \in Work
      BY <1>1, <1>4 DEF Work
    <2>2. /\ op[run[q].op].status \in {"RUNNING", "FAILED"}
          /\ op[run[q].op].claim = q \/ Traced(run[q].op)
          /\ run[q].op \in Rows
      BY <2>1, RunRows DEF Trace, Working, Work, At, Books
    <2>3. run[q].op # o
      BY <1>2, <2>1, <2>2 DEF o
    <2> QED BY <1>1, <1>3, <2>1, <2>2, <2>3 DEF WorksNext
  <1>5. made' > 0 => \E p \in Rows : TracedNext(p)
    BY <1>3 DEF Trace, MadeKept
  <1> QED BY <1>4, <1>5, WorkingNext, MadeNext

\* A row is claimed, by a run that had none or by a retry that works on it.
LEMMA Taken ==
  ASSUME Trace, Bare, NEW r \in Runs, NEW o \in Rows, NEW new \in RunType,
         Claimed(o, r, FALSE), run' = [run EXCEPT ![r] = new], made' = made,
         new.op = o, new.pc \in {"claimed", "build"},
         ~ At(r, "made"),
         \/ op[o].status = "PENDING" /\ Free(r)
         \/ new.row # "none" /\ run[r].op = o /\ ~ At(r, "end")
  PROVE  Working' /\ MadeKept'
  <1> DEFINE row == [op[o] EXCEPT !.status = "RUNNING", !.claim = r, !.repair = FALSE]
  <1>1. op \in [Rows -> OpType] /\ run \in [Runs -> RunType]
    BY DEF Trace, Books, TypeOK, OpType, RunType
  <1>2. op' = [op EXCEPT ![o] = row] /\ row.status = "RUNNING" /\ row.claim = r
    BY <1>1 DEF Claimed, OpType
  <1> HIDE DEF row
  <1>3. ASSUME NEW p \in Rows, Traced(p)
        PROVE  TracedNext(p)
    <2>1. CASE p # o
      <3>1. op'[p] = op[p]
        BY <1>1, <1>2, <2>1
      <3>2. ASSUME NEW q \in Runs, run'[q].op = p, run'[q].pc # "end", op'[p].claim = q
            PROVE  run'[q].row # "none" \/ run'[q].pc = "made"
        <4>1. q # r
          BY <1>1, <2>1, <3>2
        <4> QED BY <1>1, <1>3, <3>1, <3>2, <4>1 DEF Traced, At, IsRetry
      <3> QED BY <1>3, <3>1, <3>2 DEF Traced, TracedNext
    <2>2. CASE p = o
      <3>1. new.row # "none"
        BY <1>3, <2>2 DEF Traced
      <3> QED BY <1>1, <1>2, <2>2, <3>1 DEF TracedNext
    <2> QED BY <2>1, <2>2
  <1>4. ASSUME NEW q \in Runs, run'[q].pc \in Work
        PROVE  WorksNext(q)
    <2>1. CASE q = r
      BY <1>1, <1>2, <2>1 DEF WorksNext
    <2>2. CASE q # r
      <3>1. run'[q] = run[q] /\ run[q].pc \in Work
        BY <1>1, <1>4, <2>2
      <3>2. /\ op[run[q].op].status \in {"RUNNING", "FAILED"}
            /\ op[run[q].op].claim = q \/ Traced(run[q].op)
            /\ run[q].op \in Rows
        BY <3>1, RunRows DEF Trace, Working, Work, At, Books
      <3>3. CASE run[q].op # o
        <4>1. op'[run[q].op] = op[run[q].op]
          BY <1>1, <1>2, <3>2, <3>3
        <4> QED BY <1>3, <3>1, <3>2, <4>1 DEF WorksNext
      <3>4. CASE run[q].op = o
        <4>1. new.row # "none"
          BY <3>2, <3>4
        <4>2. TracedNext(o)
          BY <1>1, <1>2, <4>1 DEF TracedNext
        <4> QED BY <1>1, <1>2, <3>1, <3>4, <4>2 DEF WorksNext
      <3> QED BY <3>3, <3>4
    <2> QED BY <2>1, <2>2
  <1>5. made' > 0 => \E p \in Rows : TracedNext(p)
    BY <1>3 DEF Trace, MadeKept
  <1> QED BY <1>4, <1>5, WorkingNext, MadeNext

LEMMA OutcomeStays ==
  ASSUME TypeOK, NEW r \in Runs, ~ At(r, "end"), Outcome(r, "FAILED")
  PROVE  StaysOpen
  <1>1. op \in [Rows -> OpType] /\ run[r].op \in Rows
    BY RunRows DEF TypeOK, OpType
  <1> QED BY <1>1 DEF Outcome, MayWrite, StaysOpen, OpType

LEMMA TraceRun ==
  ASSUME Trace, Bare, Bare', NEW r \in Runs, RunStep(r)
  PROVE  Working' /\ MadeKept'
  <1>1. ~ At(r, "end") /\ TypeOK /\ run \in [Runs -> RunType] /\ op \in [Rows -> OpType]
    BY DEF RunStep, Sibling, Read, Recheck, Send, Link, Complete, Replay, Drop, Throw, ThrowMade,
      Cool, At, Trace, Books, TypeOK, RunType, OpType
  <1>2. CASE Sibling(r) \/ Read(r) \/ Recheck(r)
    <2>1. UNCHANGED op /\ made' = made
      BY <1>2 DEF Sibling, Read, Recheck, books
    <2>2. \E pc \in Steps : /\ Go(r, pc)
                            /\ pc \in Work => run[r].pc \in Work
                            /\ ~ At(r, "made")
      BY <1>2 DEF Sibling, Read, Recheck, Steps, Work, At
    <2> QED BY <1>1, <2>1, <2>2, OneMoves, Shift DEF StaysOpen
  <1>3. CASE Send(r)
    <2> DEFINE new == [run[r] EXCEPT !.pc = "made"]
    <2>1. /\ UNCHANGED op /\ run' = [run EXCEPT ![r] = new] /\ At(r, "send")
          /\ new.pc = "made" /\ new.op = run[r].op /\ new.row = run[r].row
      BY <1>1, <1>3 DEF Send, Go, RunType
    <2> HIDE DEF new
    <2>2. ASSUME NEW o \in Rows, Traced(o)
          PROVE  TracedNext(o)
      BY <1>1, <2>1, <2>2 DEF Traced, TracedNext, At, IsRetry
    <2>3. ASSUME NEW q \in Runs, run'[q].pc \in Work
          PROVE  WorksNext(q)
      <3>1. run[q].pc \in Work /\ run'[q].op = run[q].op
        BY <1>1, <2>1, <2>3 DEF Work, At
      <3>2. /\ op[run[q].op].status \in {"RUNNING", "FAILED"}
            /\ op[run[q].op].claim = q \/ Traced(run[q].op)
            /\ run[q].op \in Rows
        BY <1>1, <3>1, RunRows DEF Trace, Working, Work, At
      <3>3. Traced(run[q].op) => TracedNext(run'[q].op)
        BY <2>2, <3>1, <3>2
      <3> QED BY <2>1, <3>1, <3>2, <3>3 DEF WorksNext
    <2>4. TracedNext(run[r].op) /\ run[r].op \in Rows
      <3>1. /\ op[run[r].op].status \in {"RUNNING", "FAILED"}
            /\ op[run[r].op].claim = r \/ Traced(run[r].op)
            /\ run[r].op \in Rows
        BY <1>1, <2>1, RunRows DEF Trace, Working, Work, At
      <3>2. CASE op[run[r].op].claim = r
        BY <1>1, <2>1, <3>1, <3>2 DEF TracedNext
      <3> QED BY <2>2, <3>1, <3>2
    <2> QED BY <2>3, <2>4, WorkingNext, MadeNext
  <1>4. CASE Link(r, "done") \/ Link(r, "faulty") \/ Complete(r) \/ Replay(r)
    BY <1>4 DEF Link, Complete, Replay, Trace, Books, LinkedFirst, Bare, At, books
  <1>5. CASE Drop(r)
    <2>1. ~ IsRetry(r) /\ End(r, "none") /\ ~ At(r, "made") /\ made' = made
      BY <1>5 DEF Drop, Trace, Books, Kinds, Leave, Bare, At, books
    <2>2. CASE ~ MayWrite(r, "CANCELLED")
      <3>1. UNCHANGED op
        BY <1>5, <2>2 DEF Drop, Outcome
      <3>2. \A q \in Runs : Moved(q)
        BY <1>1, <2>1, OneMoves DEF QueueRows
      <3> QED BY <2>1, <3>1, <3>2, Shift DEF StaysOpen
    <2>3. CASE MayWrite(r, "CANCELLED")
      <3> DEFINE o == run[r].op
                 row == [op[o] EXCEPT !.status = "CANCELLED", !.repair = FALSE]
      <3>1. op' = [op EXCEPT ![o] = row] /\ op[o].claim = r
        BY <1>1, <1>5, <2>3 DEF Drop, Outcome, MayWrite, OpType
      <3> HIDE DEF row
      <3> QED BY <1>1, <2>1, <3>1, GivenUp
    <2> QED BY <2>2, <2>3
  <1>6. CASE Throw(r) \/ ThrowMade(r)
    <2>1. Outcome(r, "FAILED") /\ made' = made
      BY <1>6 DEF Throw, ThrowMade, books
    <2>2. \/ \E pc \in Steps : /\ Go(r, pc) /\ pc \notin Work
                               /\ At(r, "made") => IsRetry(r)
          \/ End(r, "none")
      BY <1>6 DEF Throw, ThrowMade, Leave, Steps, Work, At
    <2>3. \A q \in Runs : Moved(q)
      BY <1>1, <2>2, OneMoves DEF QueueRows
    <2> QED BY <1>1, <2>1, <2>3, OutcomeStays, Shift
  <1>7. CASE Cool(r)
    <2>1. ~ IsRetry(r) /\ End(r, "none") /\ ~ At(r, "made") /\ made' = made
      BY <1>7 DEF Cool, At, books
    <2>2. CASE ~ MayReturn(r)
      <3>1. StaysOpen
        BY <1>1, <1>7, <2>2, OutcomeStays DEF Cool
      <3>2. \A q \in Runs : Moved(q)
        BY <1>1, <2>1, OneMoves DEF QueueRows
      <3> QED BY <2>1, <3>1, <3>2, Shift
    <2>3. CASE MayReturn(r)
      <3> DEFINE o == run[r].op
                 row == [op[o] EXCEPT !.status = "PENDING", !.claim = NoRun]
      <3>1. op' = [op EXCEPT ![o] = row] /\ op[o].claim = r
        BY <1>1, <1>7, <2>3 DEF Cool, MayReturn, OpType
      <3> HIDE DEF row
      <3> QED BY <1>1, <2>1, <3>1, GivenUp
    <2> QED BY <2>2, <2>3
  <1> QED BY <1>2, <1>3, <1>4, <1>5, <1>6, <1>7 DEF RunStep

LEMMA TraceRetry ==
  ASSUME Trace, Bare, Bare', NEW r \in Runs, RetryStep(r)
  PROVE  Working' /\ MadeKept'
  <1>1. /\ ~ At(r, "end") /\ TypeOK /\ run \in [Runs -> RunType] /\ op \in [Rows -> OpType]
        /\ made' = made
    BY DEF RetryStep, RetryReads, TakeFailed, TakePartial, Take, Repair, Close, At, Trace, Books,
      TypeOK, RunType, OpType, books
  <1>2. ASSUME NEW pc \in {"stood", "take", "fix", "lost"}, Go(r, pc), UNCHANGED op, ~ At(r, "made")
        PROVE  Working' /\ MadeKept'
    <2>1. pc \in Steps /\ pc \notin Work
      BY DEF Steps, Work
    <2>2. \A q \in Runs : Moved(q)
      BY <1>1, <1>2, <2>1, OneMoves
    <2> QED BY <1>1, <1>2, <2>2, Shift DEF StaysOpen
  <1>3. CASE RetryReads(r)
    <2>1. \E pc \in {"stood", "take", "fix", "lost"} : Go(r, pc) /\ UNCHANGED op /\ ~ At(r, "made")
      BY <1>3 DEF RetryReads, At
    <2> QED BY <1>2, <2>1
  <1>4. CASE TakeFailed(r)
    <2>1. CASE ~ MayTake(r, Ended)
      <3>1. \E pc \in {"stood", "lost"} : Go(r, pc) /\ UNCHANGED op /\ ~ At(r, "made")
        BY <1>4, <2>1 DEF TakeFailed, Take, At
      <3> QED BY <1>2, <3>1
    <2>2. CASE MayTake(r, Ended)
      <3> DEFINE new == [run[r] EXCEPT !.pc = "build"]
      <3>1. /\ Claimed(run[r].op, r, FALSE) /\ run' = [run EXCEPT ![r] = new]
            /\ new \in RunType /\ new.pc = "build" /\ new.op = run[r].op
            /\ new.row = run[r].row /\ At(r, "take")
        BY <1>1, <1>4, <2>2 DEF TakeFailed, Take, Go, RunType, Steps
      <3>2. new.row # "none"
        BY <3>1 DEF Trace, Books, Kinds, IsRetry, At
      <3> HIDE DEF new
      <3> QED BY <1>1, <3>1, <3>2, RunRows, Taken DEF At
    <2> QED BY <2>1, <2>2
  <1>5. CASE TakePartial(r)
    <2>1. ~ MayTake(r, {"PARTIAL"})
      BY <1>1, RunRows DEF MayTake, Trace, Books, LinkedFirst, Bare
    <2>2. \E pc \in {"stood", "lost"} : Go(r, pc) /\ UNCHANGED op /\ ~ At(r, "made")
      BY <1>5, <2>1 DEF TakePartial, Take, At
    <2> QED BY <1>2, <2>2
  <1>6. CASE Repair(r, "SUCCEEDED", "won") \/ Repair(r, "PARTIAL", "lost")
    BY <1>6 DEF Repair, Trace, Books, LinkedFirst, Bare, At
  <1>7. CASE Close(r)
    <2>1. UNCHANGED op /\ \E row \in QueueRows : End(r, row)
      BY <1>7 DEF Close, QueueRows
    <2>2. \A q \in Runs : Moved(q)
      BY <1>1, <2>1, OneMoves
    <2> QED BY <1>1, <2>1, <2>2, Shift DEF StaysOpen
  <1> QED BY <1>3, <1>4, <1>5, <1>6, <1>7 DEF RetryStep

LEMMA TraceStep ==
  ASSUME Trace, [Next]_vars
  PROVE  Trace'
  <1>1. Books'
    BY BooksStep DEF Trace
  <1>2. /\ TypeOK /\ run \in [Runs -> RunType] /\ op \in [Rows -> OpType]
        /\ made \in Nat /\ cash \in BOOLEAN /\ linked \in BOOLEAN /\ rows \in 0..MaxRows
    BY DEF Trace, Books, TypeOK, RunType, OpType
  <1>3. CASE ~ Bare'
    <2>1. Working' /\ MadeKept'
      BY <1>3, WorkingNext, MadeNext
    <2> QED BY <1>1, <2>1 DEF Trace
  <1>4. CASE Bare'
    <2>1. Bare
      <3>1. linked => linked'
        BY <1>2 DEF Next, RunStep, RetryStep, OfficerStep, Ask, Insert, Claim, Drain, Sibling, Read,
          Recheck, Send, Link, Complete, Replay, Drop, Throw, ThrowMade, Cool, RetryReads,
          TakeFailed, TakePartial, Take, Repair, Close, Requeue, Reset, ResetRetry, Look, Mark,
          Judge, CheckMarkPaid, MarkPaid, Crash, CrashDesk, Forget, books, vars
      <3>2. cash => cash' \/ linked
        BY <1>2 DEF Next, RunStep, RetryStep, OfficerStep, Ask, Insert, Claim, Drain, Sibling, Read,
          Recheck, Send, Link, Complete, Replay, Drop, Throw, ThrowMade, Cool, RetryReads,
          TakeFailed, TakePartial, Take, Repair, Close, Requeue, Reset, ResetRetry, Look, Mark,
          Judge, CheckMarkPaid, MarkPaid, Crash, CrashDesk, Forget, desks, vars
      <3> QED BY <1>4, <3>1, <3>2 DEF Bare
    <2>2. ASSUME UNCHANGED <<run, made>>, StaysOpen
          PROVE  Working' /\ MadeKept'
      <3>1. \A q \in Runs : Moved(q)
        BY <2>2 DEF Moved
      <3> QED BY <2>1, <2>2, <3>1, Shift
    <2>3. ASSUME \/ UNCHANGED vars \/ \E override \in BOOLEAN : Ask(override)
                 \/ CheckMarkPaid \/ CrashDesk \/ Forget
                 \/ \E o \in Rows : Requeue(o) \/ Look(o)
          PROVE  Working' /\ MadeKept'
      <3>1. UNCHANGED <<run, op, made>>
        BY <2>3 DEF vars, Ask, CheckMarkPaid, CrashDesk, Forget, Requeue, Look, books
      <3> QED BY <2>2, <3>1 DEF StaysOpen
    <2>4. ASSUME MarkPaid
          PROVE  Working' /\ MadeKept'
      BY <1>4, <2>4 DEF MarkPaid, Bare, books
    <2>5. ASSUME Insert
          PROVE  Working' /\ MadeKept'
      <3>1. UNCHANGED <<run, made>>
        BY <2>5 DEF Insert, books
      <3>2. op[rows + 1].status = "none" \/ rows = MaxRows
        BY <1>2, OpsAssumption DEF TypeOK, Rows
      <3>3. StaysOpen
        BY <1>2, <2>5, <3>2, OpsAssumption DEF Insert, StaysOpen, OpType, Rows
      <3> QED BY <2>2, <3>1, <3>3
    <2>6. ASSUME Mark \/ Judge
          PROVE  Working' /\ MadeKept'
      <3>1. UNCHANGED <<run, made>>
        BY <2>6 DEF Mark, Judge, books
      <3>2. \A o \in Rows : op'[o].status = op[o].status /\ op'[o].claim = op[o].claim
        BY <1>2, <2>6 DEF Mark, Judge, OpType
      <3> QED BY <2>2, <3>1, <3>2 DEF StaysOpen
    <2>7. ASSUME NEW o \in Rows, Reset(o)
          PROVE  Working' /\ MadeKept'
      <3>1. UNCHANGED <<run, made>> /\ ~ op[o].repair
        BY <2>1, <2>7 DEF Reset, books, Trace, Books, LinkedFirst, Bare
      <3>2. StaysOpen
        BY <1>2, <2>7, <3>1 DEF Reset, StaysOpen, OpType
      <3> QED BY <2>2, <3>1, <3>2
    <2>8. ASSUME NEW r \in Runs, ResetRetry(r)
          PROVE  Working' /\ MadeKept'
      <3>1. UNCHANGED <<op, made>>
        BY <2>8 DEF ResetRetry, books
      <3>2. \A q \in Runs : Moved(q)
        BY <1>2, <2>8 DEF ResetRetry, Moved, RunType
      <3> QED BY <2>1, <3>1, <3>2, Shift DEF StaysOpen
    <2>9. ASSUME NEW r \in Runs, Crash(r)
          PROVE  Working' /\ MadeKept'
      <3>1. UNCHANGED <<op, made>> /\ ~ At(r, "end") /\ \E row \in QueueRows : End(r, row)
        BY <1>2, <2>9 DEF Crash, books, RunType
      <3>2. \A q \in Runs : Moved(q)
        BY <3>1, OneMoves
      <3> QED BY <2>1, <3>1, <3>2, Shift DEF StaysOpen
    <2>10. ASSUME NEW r \in Runs, NEW o \in Rows, Claim(r, o)
           PROVE  Working' /\ MadeKept'
      <3> DEFINE new == [pc |-> "claimed", op |-> o, row |-> "none"]
      <3>1. /\ Claimed(o, r, FALSE) /\ run' = [run EXCEPT ![r] = new] /\ made' = made
            /\ new.op = o /\ new.pc = "claimed" /\ ~ At(r, "made")
            /\ op[o].status = "PENDING" /\ Free(r)
        BY <2>10 DEF Claim, Free, At, books
      <3>2. new \in RunType
        BY OpsAssumption DEF RunType, Steps, QueueRows, Rows
      <3> HIDE DEF new
      <3> QED BY <2>1, <3>1, <3>2, Taken
    <2>11. ASSUME NEW r \in Runs, NEW o \in Rows, Drain(r, o)
           PROVE  Working' /\ MadeKept'
      <3> DEFINE new == [pc |-> "retry", op |-> o, row |-> "RUNNING"]
      <3>1. /\ UNCHANGED <<op, made>> /\ run' = [run EXCEPT ![r] = new]
            /\ new.pc = "retry" /\ new.row = "RUNNING" /\ run[r].pc = "end"
        BY <2>11 DEF Drain, Free, At, books
      <3> HIDE DEF new
      <3>2. ASSUME NEW p \in Rows, Traced(p)
            PROVE  TracedNext(p)
        BY <1>2, <3>1, <3>2 DEF Traced, TracedNext, At, IsRetry
      <3>3. ASSUME NEW q \in Runs, run'[q].pc \in Work
            PROVE  WorksNext(q)
        <4>1. run'[q] = run[q] /\ run[q].pc \in Work
          BY <1>2, <3>1, <3>3 DEF Work
        <4>2. /\ op[run[q].op].status \in {"RUNNING", "FAILED"}
              /\ op[run[q].op].claim = q \/ Traced(run[q].op)
              /\ run[q].op \in Rows
          BY <1>2, <2>1, <4>1, RunRows DEF Trace, Working, Work, At
        <4> QED BY <3>1, <3>2, <4>1, <4>2 DEF WorksNext
      <3>4. made' > 0 => \E p \in Rows : TracedNext(p)
        BY <2>1, <3>1, <3>2 DEF Trace, MadeKept
      <3> QED BY <3>3, <3>4, WorkingNext, MadeNext
    <2>12. Working' /\ MadeKept'
      BY <1>4, <2>1, <2>3, <2>4, <2>5, <2>6, <2>7, <2>8, <2>9, <2>10, <2>11, TraceRun, TraceRetry
        DEF Next, OfficerStep
    <2> QED BY <1>1, <2>12 DEF Trace
  <1> QED BY <1>3, <1>4

\* Whatever fails, is retried, reset or resolved by hand: while the booking has
\* neither its invoice nor the cash, an invoice Xero made has a row that is not
\* closed (every writer of the operations table, and the mark-paid desk).
THEOREM InvoiceMadeIsTraced == Spec => []MadeIsTraced
  <1>1. Init => Trace
    <2>1. ASSUME Init
          PROVE  LinkedFirst /\ Kinds /\ Working /\ MadeKept
      BY <2>1, OpsAssumption DEF Init, LinkedFirst, Kinds, Working, MadeKept, IsRetry, At, Work
    <2> QED BY <2>1, InitTypes DEF Trace, Books
  <1>2. Trace /\ [Next]_vars => Trace'
    BY TraceStep
  <1>3. Trace => MadeIsTraced
    <2>1. ASSUME Trace, made > 0, Bare
          PROVE  \E o \in Queued : op[o].status \in Active \cup Ended
      <3>1. PICK o \in Rows : Traced(o)
        BY <2>1 DEF Trace, MadeKept
      <3>2. op[o].status \in Active \cup Ended /\ op[o].status # "none"
        BY <3>1 DEF Traced, Active, Ended
      <3>3. o \in Queued
        BY <2>1, <3>2, OpsAssumption DEF Trace, Books, TypeOK, Rows, Queued
      <3> QED BY <3>2, <3>3
    <2> QED BY <2>1 DEF MadeIsTraced, Held, Bare
  <1>4. Spec => []Trace
    BY <1>1, <1>2, PTL DEF Spec
  <1> QED BY <1>3, <1>4, PTL

-----------------------------------------------------------------------------
(* The life of the invoice *)

\* What the steps look at besides: a key Xero knows made an invoice, and a desk
\* that found no cash still finds none.
Known == (known => made > 0) /\ (settling => ~ cash)

\* A step that neither makes nor links an invoice nor records the cash.
Leaves == /\ UNCHANGED <<made, linked, cash>>
          /\ known' => known
          /\ settling' => settling \/ ~ cash

\* Every step leaves the invoice and the cash, but for three.
LEMMA LifeMoves ==
  ASSUME [Next]_vars
  PROVE  \/ Leaves
         \/ \E r \in Runs : Send(r)
         \/ \E r \in Runs, pc \in {"done", "faulty"} : Link(r, pc)
         \/ MarkPaid
  <1>1. CASE UNCHANGED vars
    BY <1>1 DEF Leaves, vars, desks, books
  <1>2. ASSUME NEW override \in BOOLEAN, Ask(override)
        PROVE  Leaves
    BY <1>2 DEF Leaves, Ask, books
  <1>3. CASE Insert
    BY <1>3 DEF Leaves, Insert, books
  <1>4. ASSUME NEW r \in Runs, NEW o \in Rows, Claim(r, o) \/ Drain(r, o)
        PROVE  Leaves
    <2>1. UNCHANGED <<desks, books>>
      BY <1>4 DEF Claim, Drain
    <2> QED BY <2>1 DEF Leaves, desks, books
  <1>5. ASSUME NEW r \in Runs, RunStep(r)
        PROVE  Leaves \/ Send(r) \/ \E pc \in {"done", "faulty"} : Link(r, pc)
    <2>1. \/ UNCHANGED <<desks, books>>
          \/ Send(r) \/ \E pc \in {"done", "faulty"} : Link(r, pc)
      BY <1>5 DEF RunStep, Sibling, Read, Recheck, Complete, Replay, Drop, Throw, ThrowMade, Cool
    <2> QED BY <2>1 DEF Leaves, desks, books
  <1>6. ASSUME NEW r \in Runs, RetryStep(r) \/ Crash(r) \/ ResetRetry(r)
        PROVE  Leaves
    <2>1. UNCHANGED <<desks, books>>
      BY <1>6 DEF RetryStep, RetryReads, TakeFailed, TakePartial, Take, Repair, Close, Crash,
        ResetRetry
    <2> QED BY <2>1 DEF Leaves, desks, books
  <1>7. ASSUME NEW o \in Rows, Requeue(o) \/ Reset(o) \/ Look(o)
        PROVE  Leaves
    BY <1>7 DEF Leaves, Requeue, Reset, Look, desks, books
  <1>8. CASE Mark \/ Judge \/ CheckMarkPaid \/ CrashDesk \/ Forget
    BY <1>8 DEF Leaves, Mark, Judge, CheckMarkPaid, CrashDesk, Forget, desks, books
  <1> QED BY <1>1, <1>2, <1>3, <1>4, <1>5, <1>6, <1>7, <1>8 DEF Next, OfficerStep

LEMMA KnownStep ==
  ASSUME TypeOK, Known, [Next]_vars
  PROVE  Known'
  <1>1. CASE Leaves
    BY <1>1 DEF Leaves, Known
  <1>2. ASSUME NEW r \in Runs, Send(r)
        PROVE  Known'
    BY <1>2 DEF Send, Known, TypeOK, desks
  <1>3. ASSUME NEW r \in Runs, NEW pc \in {"done", "faulty"}, Link(r, pc)
        PROVE  Known'
    BY <1>3 DEF Link, Known, desks
  <1>4. CASE MarkPaid
    BY <1>4 DEF MarkPaid, Known, books
  <1> QED BY <1>1, <1>2, <1>3, <1>4, LifeMoves

LEMMA LifeStep ==
  ASSUME TypeOK, KeyKept, Known, MadeIsTraced', [Next]_vars
  PROVE  [Life!Next]_Life!life
  <1> USE DEF Life!Next, Life!life, Life!TakeUp, Life!Make, Life!Link, Life!TakeCash, Life!LetGo
  <1>1. Held \in BOOLEAN /\ Held' \in BOOLEAN
    BY DEF Held
  <1>2. CASE Leaves
    <2>1. UNCHANGED <<made, linked, cash>>
      BY <1>2 DEF Leaves
    <2>2. ~ Held' => made = 0 \/ linked \/ cash
      BY <2>1 DEF MadeIsTraced, TypeOK
    <2> QED BY <1>1, <2>1, <2>2
  <1>3. ASSUME NEW r \in Runs, Send(r)
        PROVE  [Life!Next]_Life!life
    <2>1. /\ UNCHANGED <<linked, cash, rows, op>>
          /\ made' = made \/ made' = made + 1
      BY <1>3 DEF Send, desks
    <2>2. Held' = Held
      BY <2>1 DEF Held, Queued
    <2>3. linked => made' = made
      BY KeyStep
    <2>4. made' = made + 1 => linked \/ cash \/ Held
      BY <2>1, <2>2 DEF MadeIsTraced, TypeOK
    <2> HIDE DEF Held
    <2>5. CASE made' = made
      BY <2>1, <2>2, <2>5
    <2>6. CASE made' = made + 1 /\ ~ linked
      BY <2>1, <2>2, <2>4, <2>6
    <2> QED BY <2>1, <2>3, <2>5, <2>6
  <1>4. ASSUME NEW r \in Runs, NEW pc \in {"done", "faulty"}, Link(r, pc)
        PROVE  [Life!Next]_Life!life
    <2>1. /\ UNCHANGED <<made, cash, rows, op>>
          /\ linked' = TRUE /\ At(r, "made")
      BY <1>4 DEF Link, desks
    <2>2. Held' = Held
      BY <2>1 DEF Held, Queued
    <2>3. made > 0
      BY <2>1 DEF KeyKept, Known
    <2> QED BY <2>1, <2>2, <2>3
  <1>5. CASE MarkPaid
    <2>1. /\ UNCHANGED <<made, linked, rows, op>>
          /\ cash' = ~ linked /\ ~ cash
      BY <1>5 DEF MarkPaid, Known, books
    <2>2. Held' = Held
      BY <2>1 DEF Held, Queued
    <2>3. CASE linked
      BY <2>1, <2>2, <2>3 DEF TypeOK
    <2>4. CASE ~ linked
      BY <2>1, <2>2, <2>4
    <2> QED BY <2>3, <2>4
  <1> QED BY <1>2, <1>3, <1>4, <1>5, LifeMoves

LEMMA LifeInit == Init => Life!Init
  BY OpsAssumption DEF Init, Life!Init, Held, Queued, Rows

\* The rows, runs, retries and officers implement the life of one invoice: made only
\* while the booking has none, linked for good once made, never let go unknown.
THEOREM InvoiceLives == Spec => LifeSpec
  <1>1. Init => TypeOK /\ KeyKept /\ Known
    <2>1. Init => KeyKept /\ Known
      BY DEF Init, KeyKept, Known, At
    <2> QED BY <2>1, InitTypes
  <1>2. TypeOK /\ KeyKept /\ Known /\ [Next]_vars => TypeOK' /\ KeyKept' /\ Known'
    BY TypesHold, KeyStep, KnownStep
  <1>3. TypeOK /\ KeyKept /\ Known /\ MadeIsTraced' /\ [Next]_vars => [Life!Next]_Life!life
    BY LifeStep
  <1> QED BY <1>1, <1>2, <1>3, LifeInit, InvoiceMadeIsTraced, PTL DEF Spec, LifeSpec, Life!Spec

==============================================================================
