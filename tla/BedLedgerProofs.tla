--------------------------- MODULE BedLedgerProofs ---------------------------
(***************************************************************************)
(* The ledger keeps its ceiling, for every set of bookings, lodges and     *)
(* nights: the only step that adds a bed without an override checks, in    *)
(* the same step, that all the beds of the party fit.                      *)
(***************************************************************************)
EXTENDS BedLedger, FiniteSetTheorems, TLAPS

Pairs == Rows \X Guests

\* The inductive invariant: the ceiling needs no strengthening beyond types and
\* the assumption on the constants.
IInv == LedgerAssumption /\ TypeOK /\ WithinCeiling

\* The pairs of bookings and guests are finitely many.
LEMMA PairsFinite == LedgerAssumption => IsFiniteSet(Pairs)
  BY FS_Product DEF Pairs, LedgerAssumption

\* The occupied beds of any lodge and night, and the ordinary ones among
\* them, are finitely many.
LEMMA OccupiedFinite ==
  ASSUME LedgerAssumption, NEW l \in Lodges, NEW n \in Nights
  PROVE  /\ IsFiniteSet(Occupied(l, n)) /\ Cardinality(Occupied(l, n)) \in Nat
         /\ IsFiniteSet(Ordinary(l, n)) /\ Cardinality(Ordinary(l, n)) \in Nat
         /\ Cardinality(Ordinary(l, n)) <= Cardinality(Occupied(l, n))
<1>1. Occupied(l, n) \in SUBSET Pairs /\ Ordinary(l, n) \in SUBSET Occupied(l, n)
  BY DEF Occupied, Ordinary, Pairs
<1>2. IsFiniteSet(Occupied(l, n)) /\ Cardinality(Occupied(l, n)) \in Nat
  BY <1>1, PairsFinite, FS_Subset, FS_CardinalityType
<1>3. QED
  BY <1>1, <1>2, FS_Subset, FS_CardinalityType

\* A party of one booking takes as many beds as it has guests.
LEMMA PartyBeds ==
  ASSUME LedgerAssumption, NEW x \in Rows, NEW P \in SUBSET Guests
  PROVE  /\ IsFiniteSet({x} \X P) /\ Cardinality({x} \X P) = Cardinality(P)
         /\ Cardinality(P) \in Nat
<1>1. IsFiniteSet(P) /\ Cardinality(P) \in Nat
  BY FS_Subset, FS_CardinalityType DEF LedgerAssumption
<1>2. IsFiniteSet({x}) /\ Cardinality({x}) = 1
  BY FS_Singleton
<1>3. IsFiniteSet({x} \X P) /\ Cardinality({x} \X P) = 1 * Cardinality(P)
  BY <1>1, <1>2, FS_Product
<1>4. QED
  BY <1>1, <1>3

\* A step after which every ordinary bed was ordinary before keeps the ceiling.
LEMMA FewerOrdinary ==
  ASSUME LedgerAssumption, WithinCeiling,
         NEW l \in Lodges, NEW n \in Nights, Ordinary(l, n)' \subseteq Ordinary(l, n)
  PROVE  (Cardinality(Ordinary(l, n)) <= Beds[l])'
<1>1. /\ Cardinality(Ordinary(l, n)') <= Cardinality(Ordinary(l, n))
      /\ Cardinality(Ordinary(l, n)') \in Nat
  BY OccupiedFinite, FS_Subset, FS_CardinalityType
<1>2. Cardinality(Ordinary(l, n)) <= Beds[l] /\ Beds[l] \in Nat
  BY DEF WithinCeiling, LedgerAssumption
<1>3. QED
  BY <1>1, <1>2, OccupiedFinite

\* Initially nobody has a bed.
LEMMA CeilingInit == LedgerAssumption /\ Init => IInv
<1> SUFFICES ASSUME LedgerAssumption, Init PROVE IInv
  OBVIOUS
<1>1. TypeOK
  BY DEF Init, TypeOK
<1>2. ASSUME NEW l \in Lodges, NEW n \in Nights
      PROVE  Cardinality(Ordinary(l, n)) <= Beds[l]
  <2>1. Ordinary(l, n) = {}
    BY DEF Init, Ordinary, Occupied
  <2>2. QED
    BY <2>1, FS_EmptySet DEF LedgerAssumption
<1>3. QED
  BY <1>1, <1>2 DEF IInv, WithinCeiling

\* Taking the beds that fit keeps the ceiling.
LEMMA TakeKeepsCeiling ==
  ASSUME IInv, NEW x \in Rows, NEW c \in SUBSET Triples, Take(x, c)
  PROVE  WithinCeiling'
<1> SUFFICES ASSUME NEW l \in Lodges, NEW n \in Nights
             PROVE  (Cardinality(Ordinary(l, n)) <= Beds[l])'
  BY DEF WithinCeiling
<1> DEFINE P == Sleeping(c, l, n)
<1>1. Ordinary(l, n)' \subseteq Ordinary(l, n) \cup ({x} \X P)
  BY DEF IInv, TypeOK, Take, Ordinary, Occupied, Sleeping
<1>2. CASE P = {}
  <2>1. Ordinary(l, n)' \subseteq Ordinary(l, n)
    BY <1>1, <1>2
  <2>2. QED
    BY <2>1, FewerOrdinary DEF IInv
<1>3. CASE P # {}
  <2>1. Cardinality(Occupied(l, n)) + Cardinality(P) <= Beds[l]
    BY <1>3 DEF Take, FitsUnder
  <2>2. P \in SUBSET Guests
    BY DEF Sleeping
  <2>3. /\ IsFiniteSet(Ordinary(l, n) \cup ({x} \X P))
        /\ Cardinality(Ordinary(l, n) \cup ({x} \X P)) <= Cardinality(Ordinary(l, n)) + Cardinality(P)
    <3>1. IsFiniteSet({x} \X P) /\ Cardinality({x} \X P) = Cardinality(P) /\ Cardinality(P) \in Nat
      BY <2>2, PartyBeds DEF IInv
    <3>2. /\ IsFiniteSet(Ordinary(l, n) \cap ({x} \X P))
          /\ Cardinality(Ordinary(l, n) \cap ({x} \X P)) \in Nat
      BY OccupiedFinite, FS_Intersection, FS_CardinalityType DEF IInv
    <3> DEFINE O == Ordinary(l, n)
               T == {x} \X P
    <3>3. IsFiniteSet(O) /\ Cardinality(O) \in Nat
      BY OccupiedFinite DEF IInv
    <3> HIDE DEF O, T
    <3>4. /\ IsFiniteSet(O \cup T)
          /\ Cardinality(O \cup T) = Cardinality(O) + Cardinality(T) - Cardinality(O \cap T)
      BY <3>1, <3>3, FS_Union DEF T
    <3>5. Cardinality(O \cap T) \in Nat
      BY <3>2 DEF O, T
    <3>6. Cardinality(T) = Cardinality(P) /\ Cardinality(P) \in Nat
      BY <3>1 DEF T
    <3>7. Cardinality(O \cup T) <= Cardinality(O) + Cardinality(P)
      BY <3>3, <3>4, <3>5, <3>6
    <3>8. QED
      BY <3>4, <3>7 DEF O, T
  <2>4. /\ Cardinality(Ordinary(l, n)') <= Cardinality(Ordinary(l, n) \cup ({x} \X P))
        /\ Cardinality(Ordinary(l, n)') \in Nat
        /\ Cardinality(Ordinary(l, n) \cup ({x} \X P)) \in Nat
    BY <1>1, <2>3, FS_Subset, FS_CardinalityType
  <2>5. Cardinality(P) \in Nat /\ Beds[l] \in Nat
    BY <2>2, PartyBeds DEF IInv, LedgerAssumption
  <2>6. QED
    BY <2>1, <2>3, <2>4, <2>5, OccupiedFinite DEF IInv
<1>4. QED
  BY <1>2, <1>3

\* The other steps add no ordinary bed.
LEMMA OthersKeepCeiling ==
  ASSUME IInv, NEW x \in Rows, NEW c \in SUBSET Triples,
         TakeOverridden(x, c) \/ Override(x) \/ Release(x) \/ UNCHANGED vars
  PROVE  WithinCeiling'
<1> SUFFICES ASSUME NEW l \in Lodges, NEW n \in Nights
             PROVE  Ordinary(l, n)' \subseteq Ordinary(l, n)
  BY FewerOrdinary DEF WithinCeiling, IInv
<1>1. QED
  BY DEF IInv, TypeOK, TakeOverridden, Override, Release, vars, Ordinary, Occupied

\* The types are kept.
LEMMA TypeStep == TypeOK /\ [Next]_vars => TypeOK'
  BY DEF TypeOK, Next, Take, TakeOverridden, Override, Release, vars

\* Every step keeps the inductive invariant.
LEMMA CeilingStep == IInv /\ [Next]_vars => IInv'
<1> SUFFICES ASSUME IInv, [Next]_vars PROVE WithinCeiling'
  BY TypeStep DEF IInv
<1>1. ASSUME NEW x \in Rows, NEW c \in SUBSET Triples, Take(x, c)
      PROVE  WithinCeiling'
  BY <1>1, TakeKeepsCeiling
<1>2. ASSUME NEW x \in Rows, NEW c \in SUBSET Triples,
             TakeOverridden(x, c) \/ Override(x) \/ Release(x)
      PROVE  WithinCeiling'
  BY <1>2, OthersKeepCeiling
<1>3. CASE UNCHANGED vars
  BY <1>3 DEF IInv, WithinCeiling, Ordinary, Occupied, vars
<1>4. {} \in SUBSET Triples
  OBVIOUS
<1>5. QED
  BY <1>1, <1>2, <1>3, <1>4 DEF Next

\* The ledger's variables stay in their types.
THEOREM LedgerTypes == Spec => []TypeOK
<1>1. Init => TypeOK
  BY DEF Init, TypeOK
<1>2. QED
  BY <1>1, TypeStep, PTL DEF Spec

\* Under the ledger, the bookings without an override never exceed the beds of
\* a lodge: what every writer of bookings gets by refining it.
THEOREM LedgerCeiling == LedgerAssumption /\ Spec => []WithinCeiling
<1>1. IInv => WithinCeiling
  BY DEF IInv
<1>2. QED
  BY <1>1, CeilingInit, CeilingStep, PTL DEF Spec
=============================================================================
