------------------------------ MODULE BedLedger ------------------------------
(***************************************************************************)
(* What every writer of booking rows promises about beds, and nothing      *)
(* else: a booking takes all the beds of its party in one step, only when  *)
(* they fit under the lodge's ceiling or an administrator has overridden   *)
(* the ceiling for that booking, and it gives them all back in one step.   *)
(* The state machines of this project refine this specification: what      *)
(* they add (offers, payments, crashes, in-flight requests) may never      *)
(* move a bed in another way.                                              *)
(***************************************************************************)
EXTENDS Naturals, FiniteSets

CONSTANTS
  Rows,     \* booking rows
  Lodges,   \* lodges
  Nights,   \* lodge nights
  Guests,   \* the guests a booking may name
  Beds      \* the number of beds of each lodge

\* What the theorems take of the constants.
LedgerAssumption ==
  /\ IsFiniteSet(Rows)
  /\ IsFiniteSet(Guests)
  /\ Beds \in [Lodges -> Nat]

VARIABLES
  claims,      \* claims[x]: the <<lodge, night, guest>> triples booking x occupies
  overridden   \* the bookings carrying an administrator's capacity override

vars == <<claims, overridden>>

Triples == Lodges \X Nights \X Guests

TypeOK ==
  /\ claims \in [Rows -> SUBSET Triples]
  /\ overridden \in SUBSET Rows

Init ==
  /\ claims = [x \in Rows |-> {}]
  /\ overridden = {}

\* The beds occupied at lodge l on night n, one <<booking, guest>> pair per bed.
Occupied(l, n) ==
  {p \in Rows \X Guests : <<l, n, p[2]>> \in claims[p[1]]}

\* The guests of the claim c who sleep at lodge l on night n.
Sleeping(c, l, n) == {g \in Guests : <<l, n, g>> \in c}

\* Every bed of c fits beside what is occupied already.
FitsUnder(c) ==
  \A l \in Lodges, n \in Nights :
    Sleeping(c, l, n) # {} =>
      Cardinality(Occupied(l, n)) + Cardinality(Sleeping(c, l, n)) <= Beds[l]

\* A booking takes its beds because they fit.
Take(x, c) ==
  /\ claims[x] = {}
  /\ claims' = [claims EXCEPT ![x] = c]
  /\ UNCHANGED overridden
  /\ FitsUnder(c)

\* A booking takes its beds, fitting or not, under an override granted now or
\* earlier.
TakeOverridden(x, c) ==
  /\ claims[x] = {}
  /\ claims' = [claims EXCEPT ![x] = c]
  /\ overridden' = overridden \cup {x}

\* An override is recorded on a booking that holds no bed yet.
Override(x) ==
  /\ claims[x] = {}
  /\ overridden' = overridden \cup {x}
  /\ UNCHANGED claims

\* A booking gives all its beds back.
Release(x) ==
  /\ claims' = [claims EXCEPT ![x] = {}]
  /\ UNCHANGED overridden

Next ==
  \/ \E x \in Rows : Release(x) \/ Override(x)
  \/ \E x \in Rows, c \in SUBSET Triples : Take(x, c) \/ TakeOverridden(x, c)

Spec == Init /\ [][Next]_vars

-----------------------------------------------------------------------------
\* The beds at lodge l on night n whose booking carries no override.
Ordinary(l, n) == {p \in Occupied(l, n) : p[1] \notin overridden}

\* No lodge is ever over its ceiling except by bookings an administrator
\* overrode: the beds of all others together fit.
WithinCeiling ==
  \A l \in Lodges, n \in Nights : Cardinality(Ordinary(l, n)) <= Beds[l]
=============================================================================
