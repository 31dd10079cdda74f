------------------------------ MODULE InvoiceLife ------------------------------
(***************************************************************************)
(* What the operations promise of the one invoice of a booking, however    *)
(* many rows, runs, retries and officers work on it: Xero is asked for an  *)
(* invoice only while the booking has none and somebody holds the          *)
(* operation or the money came as cash; the booking takes over an invoice  *)
(* that exists, for good; cash is recorded only while it has none; and the *)
(* operation is let go only when nothing Xero made is left to be found.    *)
(***************************************************************************)
EXTENDS Naturals

VARIABLES
  made,    \* how many invoices Xero made for the booking
  linked,  \* the booking carries its invoice
  cash,    \* the money was recorded as cash
  held     \* an operation is open, or an officer answers for it

life == <<made, linked, cash, held>>

Init == made = 0 /\ linked = FALSE /\ cash = FALSE /\ held = FALSE

TakeUp ==
  /\ ~ held /\ held' = TRUE
  /\ UNCHANGED <<made, linked, cash>>

\* Cash may be recorded beside a run that is about to send.
Make ==
  /\ ~ linked
  /\ held \/ cash
  /\ made' = made + 1
  /\ UNCHANGED <<linked, cash, held>>

Link ==
  /\ made > 0
  /\ linked' = TRUE
  /\ UNCHANGED <<made, cash, held>>

TakeCash ==
  /\ ~ linked
  /\ cash' = TRUE
  /\ UNCHANGED <<made, linked, held>>

LetGo ==
  /\ held
  /\ made = 0 \/ linked \/ cash
  /\ held' = FALSE
  /\ UNCHANGED <<made, linked, cash>>

Next == TakeUp \/ Make \/ Link \/ TakeCash \/ LetGo

Spec == Init /\ [][Next]_life
=============================================================================
