----------------------------- MODULE CaptureBooks -----------------------------
(***************************************************************************)
(* What the charge of a saved card promises of the money Stripe takes for  *)
(* one booking, however many callers, keys and webhooks it takes: at most  *)
(* one capture is kept, and for good; one that meets a paid or a cancelled *)
(* booking goes back; nothing goes back that was not taken; and the event  *)
(* of a capture is let go only when the books account for it.              *)
(***************************************************************************)
CONSTANT Intents

VARIABLES
  stage,     \* of the booking: "open", "paid" or "void"
  captured,  \* what Stripe took
  awaited,   \* the captures whose event is still to be handled
  kept,      \* the capture that paid the booking
  returned,  \* the captures that go back
  reported   \* the captures the officers were told of

books == <<stage, captured, awaited, kept, returned, reported>>

Init ==
  /\ stage = "open"
  /\ captured = {} /\ awaited = {}
  /\ kept = {} /\ returned = {} /\ reported = {}

\* The event of i may be done with, or come again.
Handled(i) == awaited' \in {awaited, awaited \ {i}}

Capture(i) ==
  /\ i \notin captured
  /\ captured' = captured \cup {i}
  /\ awaited' = awaited \cup {i}
  /\ UNCHANGED <<stage, kept, returned, reported>>

\* A capture pays the booking.
Pay(i) ==
  /\ stage = "open" /\ stage' = "paid"
  /\ i \in captured /\ kept' = {i}
  /\ Handled(i)
  /\ UNCHANGED <<captured, returned, reported>>

\* The booking is cancelled, or has no room for its guests.
Void ==
  /\ stage = "open" /\ stage' = "void"
  /\ returned' \subseteq captured
  /\ awaited \ returned' \subseteq awaited' /\ awaited' \subseteq awaited
  /\ UNCHANGED <<captured, kept, reported>>

\* A capture meets a booking that another paid, or that is void.
Return(i) ==
  /\ stage # "open"
  /\ i \in captured /\ i \notin kept
  /\ returned' = returned \cup {i}
  /\ Handled(i)
  /\ UNCHANGED <<stage, captured, kept, reported>>

\* No row names the capture.
Report(i) ==
  /\ i \in awaited /\ i \notin kept
  /\ reported' = reported \cup {i}
  /\ Handled(i)
  /\ UNCHANGED <<stage, captured, kept, returned>>

\* The capture that paid is heard of again.
Confirm(i) ==
  /\ i \in kept
  /\ Handled(i)
  /\ UNCHANGED <<stage, captured, kept, returned, reported>>

Next ==
  \/ \E i \in Intents : Capture(i) \/ Pay(i) \/ Return(i) \/ Report(i) \/ Confirm(i)
  \/ Void

Spec == Init /\ [][Next]_books
=============================================================================
