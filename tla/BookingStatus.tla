---------------------------- MODULE BookingStatus ----------------------------
(***************************************************************************)
(* The status sets of a booking row that the capacity, waitlist, payment   *)
(* and cancellation code test, translated from src/lib/booking-status.ts   *)
(* and from the private sets beside their only users.                      *)
(*                                                                         *)
(* "ABSENT" is not a status of the code: it marks a row not yet created.   *)
(***************************************************************************)

\* The statuses that occupy beds.  The waitlist statuses are not among them.
CapacityHoldingStatuses ==
  {"PAID", "COMPLETED", "CONFIRMED", "AWAITING_REVIEW"}

\* A booking that is going ahead or may still go ahead.
ActiveStatuses ==
  {"PENDING", "PAYMENT_PENDING", "CONFIRMED", "PAID", "AWAITING_REVIEW"}

\* The statuses that make a second booking of the same stay a duplicate.
DuplicateStayStatuses == ActiveStatuses \cup {"COMPLETED"}

\* A capture may settle a booking in one of these.
PayableStatuses == {"PAYMENT_PENDING", "CONFIRMED", "PENDING", "DRAFT"}

\* Cancelled without touching a payment: the no-payment branch of the cancel.
NoPaymentCancellableStatuses ==
  {"WAITLISTED", "WAITLIST_OFFERED", "AWAITING_REVIEW"}

Statuses ==
  ActiveStatuses \cup
  {"ABSENT", "WAITLISTED", "WAITLIST_OFFERED", "CANCELLED", "COMPLETED", "DRAFT"}

HoldsCapacity(s) == s \in CapacityHoldingStatuses
=============================================================================
