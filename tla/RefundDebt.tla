------------------------------ MODULE RefundDebt ------------------------------
(***************************************************************************)
(* What the recovery of a card refund promises of one debt, however many   *)
(* requests, runners, webhooks and crashes it takes: the money is sent     *)
(* again only when the books know that the refund before it has failed,    *)
(* and the debt is let go only while the books count a refund, to be owed  *)
(* again in the same moment in which they learn that it failed.            *)
(***************************************************************************)
VARIABLES
  stands,   \* the last refund, as it stands at Stripe
  counted,  \* the last refund, as it stands on the books
  open      \* whether a row owes the debt

debt == <<stands, counted, open>>

Outcomes == {"live", "failed"}

Init == stands = "none" /\ counted = "none" /\ open = TRUE

\* Stripe makes a refund: the first, or the next after one the books know failed.
Send ==
  /\ open
  /\ stands = "none" \/ counted = "failed"
  /\ stands' \in Outcomes
  /\ counted' = "none"
  /\ UNCHANGED open

\* A refund Stripe accepted fails after all.
Fail ==
  /\ stands = "live"
  /\ stands' = "failed"
  /\ UNCHANGED <<counted, open>>

\* The books count it: Stripe answered or listed it, and it may have failed since.
Count ==
  /\ stands # "none" /\ counted = "none"
  /\ counted' = "live"
  /\ UNCHANGED <<stands, open>>

\* The books learn that it failed, and from that moment a row owes the debt.
Uncount ==
  /\ stands = "failed" /\ counted # "failed"
  /\ counted' = "failed"
  /\ open' = TRUE
  /\ UNCHANGED stands

\* The debt is let go.
Close ==
  /\ open /\ counted = "live"
  /\ open' = FALSE
  /\ UNCHANGED <<stands, counted>>

Next == Send \/ Fail \/ Count \/ Uncount \/ Close

Spec == Init /\ [][Next]_debt
=============================================================================
