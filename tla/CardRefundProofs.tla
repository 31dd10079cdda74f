---------------------------- MODULE CardRefundProofs --------------------------
(***************************************************************************)
(* For any number of runners, refunds and attempts: no debt is refunded    *)
(* twice, after every commit it is refunded or owed by one row, and a row  *)
(* that is closed stays closed.                                            *)
(*                                                                         *)
(* The matching of refunds to rows and the decisions of a recording are    *)
(* recursive functions over the refunds.  The first sections show, by the  *)
(* well-foundedness of the naturals, that such a function exists and takes *)
(* the steps its definition says; then that on books in order a recording  *)
(* judges the last refund only.  Next come what each step changes, and for *)
(* every action that it keeps the invariant of CardRefundInvariant.        *)
(***************************************************************************)
EXTENDS CardRefundInvariant, FiniteSetTheorems, WellFoundedInduction, TLAPS

-----------------------------------------------------------------------------
(* Induction and recursion over an interval *)

LEMMA Smallest ==
  ASSUME NEW T, T \subseteq Nat, T # {}
  PROVE  \E m \in T : \A k \in T : m <= k
<1>1. IsWellFoundedOn(OpToRel(<, Nat), Nat)
  BY NatLessThanWellFounded
<1>2. PICK m \in T : \A k \in T : ~(<<k, m>> \in OpToRel(<, Nat))
  BY <1>1, WFMin
<1>3. \A k \in T : ~(k < m)
  BY <1>2 DEF OpToRel
<1> QED BY <1>3

LEMMA SetInduction ==
  ASSUME NEW N \in Nat, NEW T, 0 \in T, \A i \in 0 .. N - 1 : i \in T => i + 1 \in T
  PROVE  \A i \in 0 .. N : i \in T
<1> DEFINE L == {i \in 0 .. N : i \notin T}
<1>1. SUFFICES ASSUME L # {} PROVE FALSE
  OBVIOUS
<1>2. L \subseteq Nat
  OBVIOUS
<1>3. PICK m \in L : \A k \in L : m <= k
  <2> HIDE DEF L
  <2> QED BY <1>1, <1>2, Smallest
<1>4. m # 0 /\ m - 1 \in 0 .. N - 1 /\ m \in 0 .. N /\ m \notin T
  BY <1>3
<1>5. m - 1 \in T
  BY <1>3, <1>4
<1>6. (m - 1) + 1 = m
  BY <1>4
<1> QED BY <1>4, <1>5, <1>6

\* The functions with the equations of a recursion: there is one.
Solutions(N, S, a, g) ==
  {f \in [0 .. N -> S] : f[0] = a /\ \A i \in 1 .. N : f[i] = g[i][f[i - 1]]}

LEMMA Recursion ==
  ASSUME NEW N \in Nat, NEW S, NEW a \in S, NEW g \in [1 .. N -> [S -> S]]
  PROVE  Solutions(N, S, a, g) # {}
<1> DEFINE Good(n, f) == f[0] = a /\ \A i \in 1 .. n : f[i] = g[i][f[i - 1]]
           T == {n \in 0 .. N : \E f \in [0 .. N -> S] : Good(n, f)}
<1>1. 0 \in T
  <2>1. [i \in 0 .. N |-> a] \in [0 .. N -> S] /\ Good(0, [i \in 0 .. N |-> a])
    OBVIOUS
  <2>2. 0 \in 0 .. N
    OBVIOUS
  <2> QED BY <2>1, <2>2
<1>2. ASSUME NEW n \in 0 .. N - 1, n \in T PROVE n + 1 \in T
  <2>1. PICK f \in [0 .. N -> S] : Good(n, f)
    BY <1>2
  <2> DEFINE h == [f EXCEPT ![n + 1] = g[n + 1][f[n]]]
  <2>2. n + 1 \in 1 .. N /\ n \in 0 .. N /\ n + 1 \in 0 .. N /\ f[n] \in S
    OBVIOUS
  <2>3. g[n + 1][f[n]] \in S
    BY <2>2
  <2>4. h \in [0 .. N -> S]
    BY <2>2, <2>3
  <2>5. h[0] = a
    BY <2>1, <2>2
  <2>6. ASSUME NEW i \in 1 .. n + 1 PROVE h[i] = g[i][h[i - 1]]
    <3>1. CASE i = n + 1
      <4>1. h[i] = g[n + 1][f[n]] BY <3>1, <2>2
      <4>2. i - 1 = n /\ h[n] = f[n] BY <3>1, <2>2
      <4> QED BY <4>1, <4>2, <3>1
    <3>2. CASE i # n + 1
      <4>1. i \in 1 .. n /\ i - 1 \in 0 .. N /\ i \in 0 .. N /\ i - 1 # n + 1 BY <3>2
      <4>2. h[i] = f[i] /\ h[i - 1] = f[i - 1] BY <4>1, <3>2
      <4> QED BY <4>1, <4>2, <2>1
    <3> QED BY <3>1, <3>2
  <2>7. Good(n + 1, h)
    BY <2>5, <2>6
  <2> QED BY <2>2, <2>4, <2>7
<1>3. N \in T
  <2>1. N \in 0 .. N
    OBVIOUS
  <2> HIDE DEF T
  <2>2. \A i \in 0 .. N : i \in T
    BY <1>1, <1>2, SetInduction
  <2> QED BY <2>1, <2>2
<1>4. PICK f \in [0 .. N -> S] : Good(N, f)
  BY <1>3
<1> QED BY <1>4 DEF Solutions

-----------------------------------------------------------------------------
(* Types *)

Statuses == {"NONE", "PENDING", "PROCESSING", "FAILED", "SUCCEEDED"}

RowT ==
  [status : Statuses, attempts : 0 .. MaxAttempts, started : 0 .. MaxAttempts, due : BOOLEAN,
   suffix : Nat, made : Refunds \cup {NoRefund}, failed : SUBSET Refunds,
   nth : Nat, born : 0 .. MaxRefunds, shut : 0 .. MaxRefunds]

RowsT == [RowIds -> RowT]
Slices == [RowIds -> Refunds \cup {NoRefund}]

\* The books as far as the outcome of a decision is one row that is still open.
AccT == [rows : RowsT, refused : SUBSET Refunds, threw : BOOLEAN]

LEMMA Bounds ==
  /\ MaxRefunds \in Nat /\ MaxRefunds >= 1
  /\ MaxAttempts \in Nat /\ MaxAttempts >= 1
  /\ RowIds = 0 .. MaxRefunds /\ IsFiniteSet(RowIds) /\ IsFiniteSet(Refunds)
  /\ Refunds \subseteq RowIds /\ Door \in RowIds /\ Door \notin Refunds
  /\ NoRefund \notin Refunds
  /\ Cardinality(Refunds) = MaxRefunds
<1>1. MaxRefunds \in Nat /\ MaxRefunds >= 1 /\ MaxAttempts \in Nat /\ MaxAttempts >= 1
  BY RefundAssumption
<1>2. RowIds = 0 .. MaxRefunds
  BY <1>1 DEF RowIds, Refunds, Door
<1>3. IsFiniteSet(0 .. MaxRefunds) /\ IsFiniteSet(1 .. MaxRefunds) /\ Cardinality(1 .. MaxRefunds) = MaxRefunds
  BY <1>1, FS_Interval
<1> QED BY <1>1, <1>2, <1>3 DEF Refunds, Door, NoRefund

LEMMA ExistingFinite ==
  ASSUME NEW rs PROVE IsFiniteSet(Existing(rs)) /\ Cardinality(Existing(rs)) \in Nat
<1>1. Existing(rs) \subseteq RowIds
  BY DEF Existing
<1>2. IsFiniteSet(Existing(rs))
  BY <1>1, Bounds, FS_Subset
<1> QED BY <1>2, FS_CardinalityType

LEMMA NoRowT == NoRow \in RowT /\ NoRow.status = "NONE" /\ NoRow.made = NoRefund /\ NoRow.failed = {} /\ NoRow.suffix = 0
  BY Bounds DEF NoRow, RowT, Statuses

LEMMA NewRowT ==
  ASSUME NEW nth \in Nat, NEW attempts \in 0 .. MaxAttempts, made \in 0 .. MaxRefunds
  PROVE  /\ NewRow(nth, attempts) \in RowT
         /\ NewRow(nth, attempts).status = "PENDING"
         /\ NewRow(nth, attempts).attempts = attempts
         /\ NewRow(nth, attempts).due
         /\ NewRow(nth, attempts).suffix = 0
         /\ NewRow(nth, attempts).made = NoRefund
         /\ NewRow(nth, attempts).failed = {}
         /\ NewRow(nth, attempts).nth = nth
         /\ NewRow(nth, attempts).born = made
<1> DEFINE r1 == [NoRow EXCEPT !.status = "PENDING"]
           r2 == [r1 EXCEPT !.due = TRUE]
           r3 == [r2 EXCEPT !.attempts = attempts]
           r4 == [r3 EXCEPT !.nth = nth]
           r5 == [r4 EXCEPT !.born = made]
           Rest(r) == r.status = "PENDING" /\ r.suffix = 0 /\ r.made = NoRefund /\ r.failed = {}
<1>1. NewRow(nth, attempts) = r5
  BY DEF NewRow
<1>2. r1 \in RowT /\ Rest(r1)
  BY NoRowT DEF RowT, Statuses
<1> HIDE DEF r1
<1>3. r2 \in RowT /\ Rest(r2) /\ r2.due
  BY <1>2 DEF RowT
<1> HIDE DEF r2
<1>4. r3 \in RowT /\ Rest(r3) /\ r3.due /\ r3.attempts = attempts
  BY <1>3 DEF RowT
<1> HIDE DEF r3
<1>5. r4 \in RowT /\ Rest(r4) /\ r4.due /\ r4.attempts = attempts /\ r4.nth = nth
  BY <1>4 DEF RowT
<1> HIDE DEF r4
<1>6. r5 \in RowT /\ Rest(r5) /\ r5.due /\ r5.attempts = attempts /\ r5.nth = nth /\ r5.born = made
  BY <1>5 DEF RowT
<1> QED BY <1>1, <1>6

LEMMA ReplannedT ==
  ASSUME NEW row \in RowT, NEW r \in Refunds
  PROVE  /\ Replanned(row, r) \in RowT
         /\ Replanned(row, r).status = row.status
         /\ Replanned(row, r).attempts = row.attempts
         /\ Replanned(row, r).due = row.due
         /\ Replanned(row, r).suffix = row.suffix + 1
         /\ Replanned(row, r).made = NoRefund
         /\ Replanned(row, r).failed = row.failed \cup {r}
         /\ Replanned(row, r).nth = row.nth
         /\ Replanned(row, r).born = row.born
<1> DEFINE r1 == [row EXCEPT !.suffix = row.suffix + 1]
           r2 == [r1 EXCEPT !.made = NoRefund]
           r3 == [r2 EXCEPT !.failed = row.failed \cup {r}]
           Rest(q) == /\ q.status = row.status /\ q.attempts = row.attempts /\ q.due = row.due
                      /\ q.nth = row.nth /\ q.born = row.born /\ q.suffix = row.suffix + 1
<1>1. r1 \in RowT /\ Rest(r1) /\ r1.failed = row.failed
  BY DEF RowT
<1>2. Replanned(row, r) = [[r1 EXCEPT !.made = NoRefund] EXCEPT !.failed = @ \cup {r}]
  BY DEF Replanned
<1> HIDE DEF r1
<1>3. r2 \in RowT /\ Rest(r2) /\ r2.made = NoRefund /\ r2.failed = row.failed
  BY <1>1 DEF RowT
<1>4. Replanned(row, r) = r3
  BY <1>2, <1>3
<1> HIDE DEF r2
<1>5. r3 \in RowT /\ Rest(r3) /\ r3.made = NoRefund /\ r3.failed = row.failed \cup {r}
  BY <1>3 DEF RowT
<1> QED BY <1>4, <1>5

\* The step of the filling at place i.
Place(rs, led, order, fill, i) ==
  IF \E r \in Refunds : order[r] = i
  THEN Take(rs, led, fill, CHOOSE r \in Refunds : order[r] = i)
  ELSE fill

LEMMA MarkedType ==
  ASSUME NEW rs \in RowsT, NEW led, NEW handed
  PROVE  Marked(rs, led, handed) \in Slices
<1>1. \A o \in RowIds : rs[o].made \in Refunds \cup {NoRefund}
  BY DEF RowsT, RowT
<1> QED BY <1>1 DEF Marked, Slices

LEMMA TakeType ==
  ASSUME NEW rs, NEW led, NEW fill \in Slices, NEW r \in Refunds
  PROVE  Take(rs, led, fill, r) \in Slices
<1> DEFINE o == CHOOSE o \in Takers(rs, fill, r) : \A p \in Takers(rs, fill, r) : rs[p].nth <= rs[o].nth
<1>1. Take(rs, led, fill, r) \in {fill, [fill EXCEPT ![o] = r]}
  BY DEF Take
<1> HIDE DEF o
<1>2. [fill EXCEPT ![o] = r] \in Slices
  BY DEF Slices
<1> QED BY <1>1, <1>2

LEMMA PlaceType ==
  ASSUME NEW rs, NEW led, NEW order, NEW fill \in Slices, NEW i
  PROVE  Place(rs, led, order, fill, i) \in Slices
<1>1. CASE \E r \in Refunds : order[r] = i
  <2>1. (CHOOSE r \in Refunds : order[r] = i) \in Refunds
    BY <1>1
  <2> QED BY <1>1, <2>1, TakeType DEF Place
<1>2. CASE ~ \E r \in Refunds : order[r] = i
  BY <1>2 DEF Place
<1> QED BY <1>1, <1>2

LEMMA FillsSteps ==
  ASSUME NEW rs \in RowsT, NEW led, NEW order, NEW handed
  PROVE  \E fill \in [0 .. MaxRefunds -> Slices] :
           /\ fill[0] = Marked(rs, led, handed)
           /\ \A i \in 1 .. MaxRefunds : fill[i] = Place(rs, led, order, fill[i - 1], i)
           /\ Fills(rs, led, order, handed) = fill[MaxRefunds]
<1> DEFINE a == Marked(rs, led, handed)
           g == [i \in 1 .. MaxRefunds |-> [f \in Slices |-> Place(rs, led, order, f, i)]]
           Def(f) == f = [i \in 0 .. MaxRefunds |->
                            IF i = 0 THEN Marked(rs, led, handed)
                            ELSE IF \E r \in Refunds : order[r] = i
                              THEN Take(rs, led, f[i - 1], CHOOSE r \in Refunds : order[r] = i)
                            ELSE f[i - 1]]
<1>1. a \in Slices
  BY MarkedType
<1>2. g \in [1 .. MaxRefunds -> [Slices -> Slices]]
  BY PlaceType
<1>3. PICK f \in [0 .. MaxRefunds -> Slices] : f[0] = a /\ \A i \in 1 .. MaxRefunds : f[i] = g[i][f[i - 1]]
  <2> HIDE DEF g, a
  <2>1. MaxRefunds \in Nat
    BY Bounds
  <2>2. Solutions(MaxRefunds, Slices, a, g) # {}
    BY <1>1, <1>2, <2>1, Recursion
  <2> QED BY <2>2 DEF Solutions
<1>4. ASSUME NEW i \in 1 .. MaxRefunds PROVE f[i] = Place(rs, led, order, f[i - 1], i)
  <2>1. f[i - 1] \in Slices
    BY Bounds
  <2> QED BY <1>3, <2>1
<1>5. Def(f)
  <2>1. ASSUME NEW i \in 0 .. MaxRefunds
        PROVE  f[i] = IF i = 0 THEN Marked(rs, led, handed)
                            ELSE IF \E r \in Refunds : order[r] = i
                              THEN Take(rs, led, f[i - 1], CHOOSE r \in Refunds : order[r] = i)
                            ELSE f[i - 1]
    <3>1. CASE i = 0
      BY <1>3, <3>1
    <3>2. CASE i # 0
      <4>1. i \in 1 .. MaxRefunds
        BY <3>2, Bounds
      <4> QED BY <1>4, <4>1, <3>2 DEF Place
    <3> QED BY <3>1, <3>2
  <2>2. f = [i \in 0 .. MaxRefunds |-> f[i]]
    OBVIOUS
  <2> QED BY <2>1, <2>2, Zenon
<1> DEFINE h == CHOOSE h : Def(h)
<1>6. Def(h)
  BY <1>5, Zenon
<1>7. Fills(rs, led, order, handed) = h[MaxRefunds]
  BY Zenon DEF Fills
<1> HIDE DEF h
<1>8. \A i \in 0 .. MaxRefunds :
        h[i] = IF i = 0 THEN Marked(rs, led, handed)
               ELSE IF \E r \in Refunds : order[r] = i
                 THEN Take(rs, led, h[i - 1], CHOOSE r \in Refunds : order[r] = i)
               ELSE h[i - 1]
  BY <1>6, Zenon
<1>9. h[0] = a /\ \A i \in 1 .. MaxRefunds : h[i] = Place(rs, led, order, h[i - 1], i)
  BY <1>8, Bounds DEF Place
<1>10. ASSUME NEW i \in 0 .. MaxRefunds PROVE h[i] \in Slices
  <2> DEFINE T == {n \in 0 .. MaxRefunds : h[n] \in Slices}
  <2>1. 0 \in T
    BY <1>9, <1>1, Bounds
  <2>2. ASSUME NEW n \in 0 .. MaxRefunds - 1, n \in T PROVE n + 1 \in T
    <3>1. n + 1 \in 1 .. MaxRefunds /\ (n + 1) - 1 = n /\ n + 1 \in 0 .. MaxRefunds
      BY Bounds
    <3>2. h[n + 1] = Place(rs, led, order, h[n], n + 1)
      BY <1>9, <3>1
    <3> QED BY <3>1, <3>2, <2>2, PlaceType
  <2>3. MaxRefunds \in Nat
    BY Bounds
  <2> HIDE DEF T
  <2>4. \A n \in 0 .. MaxRefunds : n \in T
    BY <2>1, <2>2, <2>3, SetInduction
  <2> QED BY <2>4 DEF T
<1>11. h \in [0 .. MaxRefunds -> Slices]
  <2>1. h = [i \in 0 .. MaxRefunds |-> h[i]]
    BY <1>6, Zenon
  <2> QED BY <1>10, <2>1
<1> QED BY <1>7, <1>9, <1>11

-----------------------------------------------------------------------------
(* Decisions *)

OpenRows(rs) == {o \in Existing(rs) : IsOpen(rs[o])}
NewAttempts(r) == IF key[r].row = Door THEN 0 ELSE MaxAttempts
Owed(rs, r) == rs[r].status # "NONE" \/ \E o \in OpenRows(rs) : r \in rs[o].failed
Owner(led, order, rs, r) ==
  LET marked == {o \in OpenRows(rs) : rs[o].made = r}
  IN IF marked # {} THEN marked
     ELSE {o \in FilledBy(rs, led, order, r) \cap OpenRows(rs) : SentByRow(o, r)}
Chosen(led, order, rs, r) == CHOOSE o \in Owner(led, order, rs, r) : TRUE
Held(row) == row.status = "PROCESSING" \/ IsUntouched(row)

\* The cases of a decision.
LEMMA DecideOwed ==
  ASSUME NEW led, NEW order, NEW acc, NEW r, Owed(acc.rows, r) \/ acc.threw
  PROVE  Decide(led, order, acc, r) = acc
BY Zenon DEF Decide, Owed, OpenRows

Undecided(rs, acc, r) == ~(Owed(rs, r) \/ acc.threw)

LEMMA DecideRaises ==
  ASSUME NEW led, NEW order, NEW acc \in AccT, NEW r, Undecided(acc.rows, acc, r),
         Owner(led, order, acc.rows, r) = {}
  PROVE  Decide(led, order, acc, r) = 
           [rows |-> [acc.rows EXCEPT ![r] = NewRow(Cardinality(Existing(acc.rows)), NewAttempts(r))],
            refused |-> acc.refused, threw |-> FALSE]
<1>1. Decide(led, order, acc, r) = [acc EXCEPT !.rows[r] = NewRow(Cardinality(Existing(acc.rows)), NewAttempts(r))]
  BY Zenon DEF Decide, Undecided, Owed, Owner, Chosen, Held, OpenRows, NewAttempts
<1> QED BY <1>1 DEF AccT, Undecided

LEMMA DecideReplans ==
  ASSUME NEW led, NEW order, NEW acc \in AccT, NEW r, Undecided(acc.rows, acc, r),
         Owner(led, order, acc.rows, r) # {}, ~Held(acc.rows[Chosen(led, order, acc.rows, r)])
  PROVE  Decide(led, order, acc, r) = 
           [rows |-> [acc.rows EXCEPT ![Chosen(led, order, acc.rows, r)] =
                        Replanned(acc.rows[Chosen(led, order, acc.rows, r)], r)],
            refused |-> acc.refused, threw |-> FALSE]
<1>1. Decide(led, order, acc, r) = [acc EXCEPT !.rows[Chosen(led, order, acc.rows, r)] = Replanned(@, r)]
  BY Zenon DEF Decide, Undecided, Owed, Owner, Chosen, Held, OpenRows, NewAttempts
<1> QED BY <1>1 DEF AccT, Undecided

Refusing(acc, r) == [rows |-> acc.rows, refused |-> acc.refused \cup {r}, threw |-> FALSE]

LEMMA DecideRefuses ==
  ASSUME NEW led, NEW order, NEW acc \in AccT, NEW r \in Refunds, Undecided(acc.rows, acc, r),
         Owner(led, order, acc.rows, r) # {}, Held(acc.rows[Chosen(led, order, acc.rows, r)]), ledger[r] = "failed"
  PROVE  Decide(led, order, acc, r) = Refusing(acc, r)
<1>1. Decide(led, order, acc, r) = [acc EXCEPT !.refused = @ \cup {r}]
  BY Zenon DEF Decide, Undecided, Owed, Owner, Chosen, Held, OpenRows, NewAttempts
<1> QED BY <1>1 DEF AccT, Undecided, Refusing

LEMMA DecideThrows ==
  ASSUME NEW led, NEW order, NEW acc \in AccT, NEW r, Undecided(acc.rows, acc, r),
         Owner(led, order, acc.rows, r) # {}, Held(acc.rows[Chosen(led, order, acc.rows, r)]), ledger[r] # "failed"
  PROVE  Decide(led, order, acc, r) = 
           [rows |-> acc.rows, refused |-> acc.refused, threw |-> TRUE]
<1>1. Decide(led, order, acc, r) = [acc EXCEPT !.threw = TRUE]
  BY Zenon DEF Decide, Undecided, Owed, Owner, Chosen, Held, OpenRows, NewAttempts
<1> QED BY <1>1 DEF AccT, Undecided

LEMMA OwnerExists ==
  ASSUME NEW led, NEW order, NEW rs, NEW r, Owner(led, order, rs, r) # {}
  PROVE  LET o == Chosen(led, order, rs, r)
         IN /\ o \in Owner(led, order, rs, r)
            /\ o \in OpenRows(rs) /\ o \in RowIds
            /\ rs[o].status # "NONE" /\ rs[o].status # "SUCCEEDED"
<1>1. Chosen(led, order, rs, r) \in Owner(led, order, rs, r)
  BY Zenon DEF Chosen
<1>2. \A o \in Owner(led, order, rs, r) :
        o \in OpenRows(rs) /\ o \in RowIds /\ rs[o].status # "NONE" /\ rs[o].status # "SUCCEEDED"
  BY DEF Owner, OpenRows, Existing, IsOpen, Unfinished, Claimable
<1> QED BY <1>1, <1>2, Zenon

PendingDue(row) == row.status = "PENDING" => row.due

\* A decision changes at most one row, and no closed one; none is left to wait.
Kept(rs, acc) ==
  \A o \in RowIds :
    /\ rs[o].status = "SUCCEEDED" => acc.rows[o].status = "SUCCEEDED"
    /\ rs[o].status # "NONE" => acc.rows[o].status # "NONE"
    /\ PendingDue(rs[o]) => PendingDue(acc.rows[o])

LEMMA DecideType ==
  ASSUME made \in 0 .. MaxRefunds, NEW led, NEW order, NEW acc \in AccT, NEW r \in Refunds
  PROVE  /\ Decide(led, order, acc, r) \in AccT
         /\ \A rs \in RowsT : Kept(rs, acc) => Kept(rs, Decide(led, order, acc, r))
<1> DEFINE owner == Owner(led, order, acc.rows, r)
           res == Decide(led, order, acc, r)
           Goal == res \in AccT /\ \A rs \in RowsT : Kept(rs, acc) => Kept(rs, res)
<1>1. acc.rows \in RowsT /\ acc.refused \in SUBSET Refunds /\ acc.threw \in BOOLEAN /\ r \in RowIds
  BY Bounds DEF AccT
<1>2. CASE Owed(acc.rows, r) \/ acc.threw
  <2>1. res = acc
    BY <1>2, DecideOwed
  <2> QED BY <2>1
<1>3. CASE Undecided(acc.rows, acc, r) /\ owner = {}
  <2> DEFINE new == NewRow(Cardinality(Existing(acc.rows)), NewAttempts(r))
             rs1 == [acc.rows EXCEPT ![r] = new]
  <2>1. res = [rows |-> rs1, refused |-> acc.refused, threw |-> FALSE]
    BY <1>3, DecideRaises
  <2>2. new \in RowT /\ new.status = "PENDING" /\ new.due
    <3>1. NewAttempts(r) \in 0 .. MaxAttempts
      BY Bounds DEF NewAttempts
    <3>2. Cardinality(Existing(acc.rows)) \in Nat
      BY ExistingFinite
    <3> QED BY <3>1, <3>2, NewRowT
  <2> HIDE DEF new
  <2>3. rs1 \in RowsT /\ rs1[r] = new /\ \A p \in RowIds : p # r => rs1[p] = acc.rows[p]
    BY <1>1, <2>2 DEF RowsT
  <2> HIDE DEF rs1
  <2>4. res \in AccT /\ res.rows = rs1
    BY <1>1, <2>1, <2>3 DEF AccT
  <2>5. acc.rows[r].status = "NONE"
    BY <1>3 DEF Undecided, Owed
  <2>6. ASSUME NEW rs \in RowsT, Kept(rs, acc) PROVE Kept(rs, res)
    BY <2>2, <2>3, <2>4, <2>5, <2>6 DEF Kept, PendingDue
  <2> QED BY <2>4, <2>6
<1>4. CASE Undecided(acc.rows, acc, r) /\ owner # {}
  <2> DEFINE o == Chosen(led, order, acc.rows, r)
  <2>0. o \in RowIds /\ acc.rows[o].status # "NONE" /\ acc.rows[o].status # "SUCCEEDED"
    BY <1>4, OwnerExists
  <2>1. CASE ~Held(acc.rows[o])
    <3> DEFINE new == Replanned(acc.rows[o], r)
               rs1 == [acc.rows EXCEPT ![o] = new]
    <3>2. res = [rows |-> rs1, refused |-> acc.refused, threw |-> FALSE]
      BY <1>4, <2>1, DecideReplans
    <3> HIDE DEF o
    <3>3. new \in RowT /\ new.status = acc.rows[o].status /\ new.due = acc.rows[o].due
      BY <1>1, <2>0, ReplannedT DEF RowsT
    <3> HIDE DEF new
    <3>4. rs1 \in RowsT /\ rs1[o] = new /\ \A p \in RowIds : p # o => rs1[p] = acc.rows[p]
      BY <1>1, <2>0, <3>3 DEF RowsT
    <3> HIDE DEF rs1
    <3>5. res \in AccT /\ res.rows = rs1
      BY <1>1, <3>2, <3>4 DEF AccT
    <3>6. ASSUME NEW rs \in RowsT, Kept(rs, acc) PROVE Kept(rs, res)
      BY <3>3, <3>4, <3>5, <3>6 DEF Kept, PendingDue
    <3> QED BY <3>5, <3>6
  <2>2. CASE Held(acc.rows[o]) /\ ledger[r] = "failed"
    <3>0. res = Refusing(acc, r)
      BY <1>4, <2>2, DecideRefuses
    <3>1. res \in AccT /\ res.rows = acc.rows
      BY <1>1, <3>0 DEF AccT, Refusing
    <3> QED BY <3>1 DEF Kept
  <2>3. CASE Held(acc.rows[o]) /\ ledger[r] # "failed"
    <3>1. res = [rows |-> acc.rows, refused |-> acc.refused, threw |-> TRUE]
      BY <1>4, <2>3, DecideThrows
    <3>2. res \in AccT /\ res.rows = acc.rows
      BY <3>1, <1>1 DEF AccT
    <3> QED BY <3>2 DEF Kept
  <2> QED BY <2>1, <2>2, <2>3
<1> QED BY <1>2, <1>3, <1>4 DEF Undecided

-----------------------------------------------------------------------------
(* A recording *)

\* What a recording decides of refund r.
Judged(listing, acc, r) ==
  IF r \in FailedLater(listing) THEN Decide(Listed(listing), Ordered(listing), acc, r) ELSE acc

Start == [rows |-> rows, refused |-> {}, threw |-> FALSE]

Decisions == {acc \in AccT : Kept(rows, acc)}

LEMMA JudgedType ==
  ASSUME made \in 0 .. MaxRefunds, rows \in RowsT, NEW listing, NEW acc \in Decisions, NEW r \in Refunds
  PROVE  Judged(listing, acc, r) \in Decisions
<1>1. CASE r \in FailedLater(listing)
  <2>1. Judged(listing, acc, r) = Decide(Listed(listing), Ordered(listing), acc, r)
    BY <1>1 DEF Judged
  <2>2. acc \in AccT /\ Kept(rows, acc)
    BY DEF Decisions
  <2> QED BY <2>1, <2>2, DecideType DEF Decisions
<1>2. CASE r \notin FailedLater(listing)
  BY <1>2 DEF Judged
<1> QED BY <1>1, <1>2

LEMMA RecordingSteps ==
  ASSUME made \in 0 .. MaxRefunds, rows \in RowsT, NEW listing
  PROVE  \E d \in [0 .. MaxRefunds -> Decisions] :
           /\ d[0] = Start
           /\ \A i \in 1 .. MaxRefunds : d[i] = Judged(listing, d[i - 1], i)
           /\ Recording(listing).rows = d[MaxRefunds].rows
           /\ Recording(listing).refused = d[MaxRefunds].refused
           /\ Recording(listing).threw = d[MaxRefunds].threw
<1> DEFINE a == Start
           g == [i \in 1 .. MaxRefunds |-> [f \in Decisions |-> Judged(listing, f, i)]]
           Def(f) == f = [r \in 0 .. MaxRefunds |->
                            IF r = 0 THEN [rows |-> rows, refused |-> {}, threw |-> FALSE]
                            ELSE IF r \in FailedLater(listing)
                              THEN Decide(Listed(listing), Ordered(listing), f[r - 1], r)
                            ELSE f[r - 1]]
<1>0. 1 .. MaxRefunds = Refunds /\ MaxRefunds \in Nat
  BY Bounds DEF Refunds
<1>1. a \in Decisions
  BY DEF Decisions, AccT, Start, Kept
<1>2. g \in [1 .. MaxRefunds -> [Decisions -> Decisions]]
  BY JudgedType, <1>0
<1>3. PICK f \in [0 .. MaxRefunds -> Decisions] : f[0] = a /\ \A i \in 1 .. MaxRefunds : f[i] = g[i][f[i - 1]]
  <2> HIDE DEF g, a
  <2>2. Solutions(MaxRefunds, Decisions, a, g) # {}
    BY <1>1, <1>2, <1>0, Recursion
  <2> QED BY <2>2 DEF Solutions
<1>4. ASSUME NEW i \in 1 .. MaxRefunds PROVE f[i] = Judged(listing, f[i - 1], i)
  <2>1. f[i - 1] \in Decisions
    BY Bounds
  <2> QED BY <1>3, <2>1
<1>5. Def(f)
  <2>1. ASSUME NEW r \in 0 .. MaxRefunds
        PROVE  f[r] = IF r = 0 THEN [rows |-> rows, refused |-> {}, threw |-> FALSE]
                      ELSE IF r \in FailedLater(listing)
                        THEN Decide(Listed(listing), Ordered(listing), f[r - 1], r)
                      ELSE f[r - 1]
    <3>1. CASE r = 0
      BY <1>3, <3>1 DEF Start
    <3>2. CASE r # 0
      <4>1. r \in 1 .. MaxRefunds
        BY <3>2, Bounds
      <4> QED BY <1>4, <4>1, <3>2 DEF Judged
    <3> QED BY <3>1, <3>2
  <2>2. f = [r \in 0 .. MaxRefunds |-> f[r]]
    OBVIOUS
  <2> QED BY <2>1, <2>2, Zenon
<1> DEFINE h == CHOOSE h : Def(h)
<1>6. Def(h)
  BY <1>5, Zenon
<1>7. Recording(listing) =
        [ledger |-> Listed(listing), recorded |-> Ordered(listing), rows |-> h[MaxRefunds].rows,
         refused |-> h[MaxRefunds].refused, threw |-> h[MaxRefunds].threw]
  BY Zenon DEF Recording
<1> HIDE DEF h
<1>8. \A r \in 0 .. MaxRefunds :
        h[r] = IF r = 0 THEN [rows |-> rows, refused |-> {}, threw |-> FALSE]
               ELSE IF r \in FailedLater(listing)
                 THEN Decide(Listed(listing), Ordered(listing), h[r - 1], r)
               ELSE h[r - 1]
  BY <1>6, Zenon
<1>9. h[0] = Start /\ \A i \in 1 .. MaxRefunds : h[i] = Judged(listing, h[i - 1], i)
  <2>1. h[0] = Start
    <3>1. 0 \in 0 .. MaxRefunds
      BY <1>0
    <3> QED BY <1>8, <3>1, Zenon DEF Start
  <2>2. ASSUME NEW i \in 1 .. MaxRefunds PROVE h[i] = Judged(listing, h[i - 1], i)
    <3>1. i \in 0 .. MaxRefunds /\ i # 0
      BY <1>0
    <3> QED BY <1>8, <3>1, Zenon DEF Judged
  <2> QED BY <2>1, <2>2
<1>10. ASSUME NEW i \in 0 .. MaxRefunds PROVE h[i] \in Decisions
  <2> DEFINE T == {n \in 0 .. MaxRefunds : h[n] \in Decisions}
  <2>1. 0 \in T
    BY <1>9, <1>1, Bounds
  <2>2. ASSUME NEW n \in 0 .. MaxRefunds - 1, n \in T PROVE n + 1 \in T
    <3>1. n + 1 \in Refunds /\ n + 1 \in 1 .. MaxRefunds /\ (n + 1) - 1 = n /\ n + 1 \in 0 .. MaxRefunds
      BY Bounds, <1>0
    <3>2. h[n + 1] = Judged(listing, h[n], n + 1)
      BY <1>9, <3>1
    <3> QED BY <3>1, <3>2, <2>2, JudgedType
  <2> HIDE DEF T
  <2>4. \A n \in 0 .. MaxRefunds : n \in T
    BY <2>1, <2>2, <1>0, SetInduction
  <2> QED BY <2>4 DEF T
<1>11. h \in [0 .. MaxRefunds -> Decisions]
  <2>1. h = [i \in 0 .. MaxRefunds |-> h[i]]
    BY <1>6, Zenon
  <2> QED BY <1>10, <2>1
<1>12. /\ Recording(listing).rows = h[MaxRefunds].rows
       /\ Recording(listing).refused = h[MaxRefunds].refused
       /\ Recording(listing).threw = h[MaxRefunds].threw
  BY <1>7
<1> QED BY <1>9, <1>11, <1>12, Zenon

\* The books after a recording are books, and it closes no row again.
LEMMA RecordingType ==
  ASSUME made \in 0 .. MaxRefunds, rows \in RowsT, NEW listing
  PROVE  /\ Recording(listing).ledger = Listed(listing)
         /\ Recording(listing).recorded = Ordered(listing)
         /\ Recording(listing).rows \in RowsT
         /\ Recording(listing).refused \subseteq Refunds
         /\ Recording(listing).threw \in BOOLEAN
         /\ Kept(rows, Recording(listing))
<1>1. PICK d \in [0 .. MaxRefunds -> Decisions] :
           /\ Recording(listing).rows = d[MaxRefunds].rows
           /\ Recording(listing).refused = d[MaxRefunds].refused
           /\ Recording(listing).threw = d[MaxRefunds].threw
  BY RecordingSteps
<1>2. d[MaxRefunds] \in AccT /\ Kept(rows, d[MaxRefunds])
  BY Bounds DEF Decisions
<1>3. Recording(listing).ledger = Listed(listing) /\ Recording(listing).recorded = Ordered(listing)
  BY DEF Recording
<1> QED BY <1>1, <1>2, <1>3 DEF AccT, Kept

Pcs == {"idle", "claimed", "listing", "recording", "marking", "asking",
        "answered", "refused", "made", "closing", "failing"}

WorkT ==
  [pc : Pcs, row : RowIds, attempts : 0 .. MaxAttempts, started : 0 .. MaxAttempts, suffix : Nat,
   made : Refunds \cup {NoRefund}, failed : SUBSET Refunds, listing : Listings,
   refund : Refunds \cup {NoRefund}]

DoorT == [pc : {"asking", "answered", "made", "refused", "done"}, refund : Refunds \cup {NoRefund}]

StripeTypes ==
  /\ made \in 0 .. MaxRefunds
  /\ key \in [Refunds -> [row : RowIds, suffix : Nat]]
  /\ answer \in Listings
  /\ status \in Listings
  /\ age \in [Refunds -> {"none", "young", "old", "forgotten"}]

BookTypes ==
  /\ ledger \in Listings
  /\ recorded \in [Refunds -> Nat]
  /\ rows \in RowsT

ServerTypes ==
  /\ door \in DoorT
  /\ door.pc = "answered" => door.refund \in Refunds
  /\ work \in [Workers -> WorkT]
  /\ \A w \in Workers : work[w].pc = "answered" => work[w].refund \in Refunds
  /\ charge \in Listings

Types == StripeTypes /\ BookTypes /\ ServerTypes

-----------------------------------------------------------------------------
(* The parts *)

LEMMA NothingT == Nothing \in Listings /\ \A r \in Refunds : Nothing[r] = "none"
  BY DEF Nothing, Listings

LEMMA OnlyT ==
  ASSUME NEW r \in Refunds, NEW s \in {"none", "live", "failed"}
  PROVE  /\ Only(r, s) \in Listings /\ Only(r, s)[r] = s
         /\ \A q \in Refunds : q # r => Only(r, s)[q] = "none"
  BY NothingT DEF Only, Listings

LEMMA IdleT == Idle \in WorkT /\ Idle.pc = "idle" /\ Idle.listing = Nothing
<1>1. Door \in RowIds /\ 0 \in 0 .. MaxAttempts
  BY Bounds
<1> QED BY <1>1, NothingT DEF Idle, WorkT, Pcs

\* Of some refunds one was made last.
LEMMA Largest ==
  ASSUME NEW T, T \subseteq Refunds, T # {}
  PROVE  LET m == CHOOSE m \in T : \A q \in T : q <= m IN m \in T /\ \A q \in T : q <= m
<1> DEFINE D == {n \in 0 .. MaxRefunds : MaxRefunds - n \in T}
<1>1. D \subseteq Nat /\ D # {}
  <2>1. PICK q \in T : TRUE
    OBVIOUS
  <2>2. MaxRefunds - q \in 0 .. MaxRefunds /\ MaxRefunds - (MaxRefunds - q) = q
    BY Bounds DEF Refunds
  <2> QED BY <2>1, <2>2
<1>2. PICK n \in D : \A k \in D : n <= k
  <2> HIDE DEF D
  <2> QED BY <1>1, Smallest
<1>3. MaxRefunds - n \in T
  OBVIOUS
<1>4. ASSUME NEW q \in T PROVE q <= MaxRefunds - n
  <2>1. q \in Nat /\ q <= MaxRefunds /\ q >= 1
    BY Bounds DEF Refunds
  <2>2. MaxRefunds - q \in D
    <3>1. MaxRefunds - q \in 0 .. MaxRefunds /\ MaxRefunds - (MaxRefunds - q) = q
      BY <2>1, Bounds
    <3> QED BY <3>1
  <2>3. n <= MaxRefunds - q /\ n \in Nat
    BY <2>2, <1>2
  <2> QED BY <2>1, <2>3, Bounds
<1>5. \E m \in T : \A q \in T : q <= m
  BY <1>3, <1>4
<1> QED BY <1>5, Zenon

LEMMA ListedT ==
  ASSUME ledger \in Listings, NEW listing \in Listings
  PROVE  /\ Listed(listing) \in Listings
         /\ \A r \in Refunds : Listed(listing)[r] =
              IF listing[r] = "none" \/ ledger[r] = "failed" THEN ledger[r] ELSE listing[r]
  BY DEF Listed, Listings

LEMMA OrderedT ==
  ASSUME recorded \in [Refunds -> Nat], NEW listing
  PROVE  Ordered(listing) \in [Refunds -> Nat]
<1>1. ASSUME NEW S, S \subseteq Refunds PROVE Cardinality(S) \in Nat
  <2>1. IsFiniteSet(S)
    BY <1>1, Bounds, FS_Subset
  <2> QED BY <2>1, FS_CardinalityType
<1>2. Cardinality({q \in Refunds : recorded[q] # 0}) \in Nat
  BY <1>1
<1>3. \A r \in Refunds : Cardinality({q \in Fresh(listing) : q <= r}) \in Nat
  <2>1. Fresh(listing) \subseteq Refunds
    BY DEF Fresh
  <2> QED BY <1>1, <2>1
<1> QED BY <1>2, <1>3 DEF Ordered

\* A recording committed leaves books.
LEMMA CommitT ==
  ASSUME Types, NEW listing \in Listings, Commit(Recording(listing))
  PROVE  /\ BookTypes'
         /\ ledger' = Listed(listing) /\ recorded' = Ordered(listing)
         /\ rows' = Recording(listing).rows
         /\ ~Recording(listing).threw
         /\ \A o \in RowIds : rows[o].status = "SUCCEEDED" => rows'[o].status = "SUCCEEDED"
         /\ \A o \in RowIds : rows[o].status # "NONE" => rows'[o].status # "NONE"
         /\ \A o \in RowIds : PendingDue(rows[o]) => PendingDue(rows'[o])
<1>1. made \in 0 .. MaxRefunds /\ rows \in RowsT /\ ledger \in Listings /\ recorded \in [Refunds -> Nat]
  BY DEF Types, StripeTypes, BookTypes
<1>2. /\ ledger' = Listed(listing) /\ recorded' = Ordered(listing)
      /\ rows' = Recording(listing).rows /\ ~Recording(listing).threw
  BY <1>1, RecordingType DEF Commit
<1>3. rows' \in RowsT /\ Kept(rows, Recording(listing))
  BY <1>1, <1>2, RecordingType
<1>4. ledger' \in Listings /\ recorded' \in [Refunds -> Nat]
  BY <1>1, <1>2, ListedT, OrderedT
<1> QED BY <1>2, <1>3, <1>4 DEF BookTypes, Kept

\* What a row becomes.
LEMMA SucceededT ==
  ASSUME NEW row \in RowT, made \in 0 .. MaxRefunds
  PROVE  /\ Succeeded(row) \in RowT
         /\ Succeeded(row).status = "SUCCEEDED"
         /\ Succeeded(row).suffix = row.suffix
         /\ Succeeded(row).made = row.made
         /\ Succeeded(row).failed = row.failed
         /\ Succeeded(row).nth = row.nth
         /\ Succeeded(row).born = row.born
<1> DEFINE r1 == [row EXCEPT !.status = "SUCCEEDED"]
           r2 == [r1 EXCEPT !.started = 0]
           r3 == [r2 EXCEPT !.shut = made]
           Rest(q) == /\ q.status = "SUCCEEDED" /\ q.suffix = row.suffix /\ q.made = row.made
                      /\ q.failed = row.failed /\ q.nth = row.nth /\ q.born = row.born
<1>0. 0 \in 0 .. MaxAttempts
  BY Bounds
<1>1. Succeeded(row) = r3
  BY DEF Succeeded
<1>2. r1 \in RowT /\ Rest(r1)
  BY DEF RowT, Statuses
<1> HIDE DEF r1
<1>3. r2 \in RowT /\ Rest(r2)
  BY <1>0, <1>2 DEF RowT
<1> HIDE DEF r2
<1>4. r3 \in RowT /\ Rest(r3)
  BY <1>3 DEF RowT
<1> QED BY <1>1, <1>4

LEMMA GivenUpT ==
  ASSUME NEW row \in RowT
  PROVE  /\ GivenUp(row) \in RowT
         /\ GivenUp(row).status = "FAILED"
         /\ GivenUp(row).due = FALSE
         /\ GivenUp(row).attempts = row.attempts
         /\ GivenUp(row).suffix = row.suffix
         /\ GivenUp(row).made = row.made
         /\ GivenUp(row).failed = row.failed
         /\ GivenUp(row).nth = row.nth
         /\ GivenUp(row).born = row.born
<1> DEFINE r1 == [row EXCEPT !.status = "FAILED"]
           r2 == [r1 EXCEPT !.started = 0]
           r3 == [r2 EXCEPT !.due = FALSE]
           Rest(q) == /\ q.status = "FAILED" /\ q.suffix = row.suffix /\ q.made = row.made
                      /\ q.failed = row.failed /\ q.nth = row.nth /\ q.born = row.born
                      /\ q.attempts = row.attempts
<1>1. GivenUp(row) = r3
  BY DEF GivenUp
<1>2. r1 \in RowT /\ Rest(r1)
  BY DEF RowT, Statuses
<1> HIDE DEF r1
<1>3. r2 \in RowT /\ Rest(r2)
  <2>1. 0 \in 0 .. MaxAttempts
    BY Bounds
  <2> QED BY <1>2, <2>1 DEF RowT
<1> HIDE DEF r2
<1>4. r3 \in RowT /\ Rest(r3) /\ r3.due = FALSE
  BY <1>3 DEF RowT
<1> QED BY <1>1, <1>4

\* A row written, and the others left alone.
LEMMA Written ==
  ASSUME rows \in RowsT, NEW o \in RowIds, NEW new \in RowT, rows' = [rows EXCEPT ![o] = new]
  PROVE  rows' \in RowsT /\ rows'[o] = new /\ \A p \in RowIds : p # o => rows'[p] = rows[p]
  BY DEF RowsT

-----------------------------------------------------------------------------
(* What each step does, and that it keeps the types *)

\* The attempts of the others.
Others(w) == \A v \in Workers : v # w => work'[v] = work[v]

SameBooks == ledger' = ledger /\ recorded' = recorded /\ rows' = rows
SameStripe == made' = made /\ key' = key /\ answer' = answer /\ status' = status /\ age' = age

LEMMA Unchanged ==
  /\ UNCHANGED stripe => SameStripe
  /\ UNCHANGED books => SameBooks
  /\ Types /\ SameStripe => StripeTypes'
  /\ Types /\ SameBooks => BookTypes'
  BY DEF stripe, books, SameStripe, SameBooks, Types, StripeTypes, BookTypes

LEMMA MovesE ==
  ASSUME Types, NEW w \in Workers, NEW pc \in Pcs, Moves(w, pc), pc # "answered"
  PROVE  /\ work' \in [Workers -> WorkT] /\ Others(w)
         /\ work'[w].pc = pc /\ work'[w].row = work[w].row
         /\ work'[w].attempts = work[w].attempts /\ work'[w].started = work[w].started
         /\ work'[w].suffix = work[w].suffix /\ work'[w].made = work[w].made
         /\ work'[w].failed = work[w].failed /\ work'[w].listing = work[w].listing
         /\ work'[w].refund = work[w].refund
         /\ \A v \in Workers : work'[v].pc = "answered" => work'[v].refund \in Refunds
<1>1. work \in [Workers -> WorkT] /\ \A v \in Workers : work[v].pc = "answered" => work[v].refund \in Refunds
  BY DEF Types, ServerTypes
<1>2. work' = [work EXCEPT ![w] = [work[w] EXCEPT !.pc = pc]]
  BY DEF Moves
<1>3. work[w] \in WorkT
  BY <1>1
<1> DEFINE new == [work[w] EXCEPT !.pc = pc]
<1>4. /\ new \in WorkT /\ new.pc = pc /\ new.row = work[w].row /\ new.attempts = work[w].attempts
      /\ new.started = work[w].started /\ new.suffix = work[w].suffix /\ new.made = work[w].made
      /\ new.failed = work[w].failed /\ new.listing = work[w].listing /\ new.refund = work[w].refund
  BY <1>3 DEF WorkT
<1> HIDE DEF new
<1>5. work' \in [Workers -> WorkT] /\ work'[w] = new /\ Others(w)
  BY <1>1, <1>2, <1>4 DEF Others, new
<1> QED BY <1>1, <1>4, <1>5 DEF Others

LEMMA StopsE ==
  ASSUME Types, NEW w \in Workers, Stops(w)
  PROVE  /\ work' \in [Workers -> WorkT] /\ Others(w) /\ work'[w] = Idle /\ work'[w].pc = "idle"
         /\ work'[w].listing = Nothing
         /\ \A v \in Workers : work'[v].pc = "answered" => work'[v].refund \in Refunds
<1>1. work \in [Workers -> WorkT] /\ \A v \in Workers : work[v].pc = "answered" => work[v].refund \in Refunds
  BY DEF Types, ServerTypes
<1>2. work' \in [Workers -> WorkT] /\ work'[w] = Idle /\ Others(w)
  BY <1>1, IdleT DEF Stops, Others
<1> QED BY <1>1, <1>2, IdleT DEF Others

\* Refund r is made for a key nobody remembers.
Makes(k, r) ==
  /\ \A q \in Refunds : ~Remembers(q, k)
  /\ r = made + 1 /\ made' = r
  /\ key'[r] = k /\ age'[r] = "young"
  /\ answer'[r] \in {"live", "failed"} /\ status'[r] = answer'[r]
  /\ \A q \in Refunds : q # r =>
       key'[q] = key[q] /\ age'[q] = age[q] /\ answer'[q] = answer[q] /\ status'[q] = status[q]

LEMMA AskedE ==
  ASSUME Types, NEW k \in [row : RowIds, suffix : Nat], NEW r \in Refunds, Asked(k, r)
  PROVE  /\ StripeTypes'
         /\ (Remembers(r, k) /\ SameStripe) \/ Makes(k, r)
<1>1. StripeTypes
  BY DEF Types
<1>2. CASE \E q \in Refunds : Remembers(q, k)
  <2>1. Remembers(r, k) /\ UNCHANGED stripe
    BY <1>2 DEF Asked
  <2> QED BY <2>1, Unchanged
<1>3. CASE ~ \E q \in Refunds : Remembers(q, k)
  <2>1. /\ r = made + 1 /\ made' = r
        /\ key' = [key EXCEPT ![r] = k]
        /\ age' = [age EXCEPT ![r] = "young"]
        /\ \E s \in {"live", "failed"} :
             /\ answer' = [answer EXCEPT ![r] = s]
             /\ status' = [status EXCEPT ![r] = s]
    BY <1>3 DEF Asked
  <2>2. PICK s \in {"live", "failed"} : answer' = [answer EXCEPT ![r] = s] /\ status' = [status EXCEPT ![r] = s]
    BY <2>1
  <2>3. made' \in 0 .. MaxRefunds
    BY <2>1, Bounds
  <2>4. /\ key' \in [Refunds -> [row : RowIds, suffix : Nat]] /\ key'[r] = k
        /\ \A q \in Refunds : q # r => key'[q] = key[q]
    BY <1>1, <2>1 DEF StripeTypes
  <2>5. /\ answer' \in Listings /\ status' \in Listings /\ answer'[r] = s /\ status'[r] = s
        /\ \A q \in Refunds : q # r => answer'[q] = answer[q] /\ status'[q] = status[q]
    BY <1>1, <2>2 DEF StripeTypes, Listings
  <2>6. /\ age' \in [Refunds -> {"none", "young", "old", "forgotten"}] /\ age'[r] = "young"
        /\ \A q \in Refunds : q # r => age'[q] = age[q]
    BY <1>1, <2>1 DEF StripeTypes
  <2> QED BY <1>3, <2>1, <2>3, <2>4, <2>5, <2>6 DEF StripeTypes, Makes
<1> QED BY <1>2, <1>3

LEMMA FailLaterE ==
  ASSUME Types, NEW r \in Refunds, FailLater(r)
  PROVE  /\ Types' /\ SameBooks /\ door' = door /\ work' = work /\ charge' = charge
         /\ made' = made /\ key' = key /\ answer' = answer /\ age' = age
         /\ status[r] = "live" /\ status'[r] = "failed"
         /\ \A q \in Refunds : q # r => status'[q] = status[q]
         /\ charge[r] = "none" \/ "sync" \in Delays
<1>1. status' \in Listings /\ status'[r] = "failed" /\ \A q \in Refunds : q # r => status'[q] = status[q]
  BY DEF FailLater, Types, StripeTypes, Listings
<1> QED BY <1>1 DEF FailLater, Types, StripeTypes, BookTypes, ServerTypes, books, SameBooks

LEMMA AgesE ==
  ASSUME Types, NEW r \in Refunds, Age(r) \/ Forget(r)
  PROVE  /\ Types' /\ SameBooks /\ door' = door /\ work' = work /\ charge' = charge
         /\ made' = made /\ key' = key /\ answer' = answer /\ status' = status
         /\ \A q \in Refunds : q # r => age'[q] = age[q]
         /\ \/ age[r] = "young" /\ age'[r] = "old" /\ Quiet
            \/ age[r] = "old" /\ age'[r] = "forgotten"
<1>1. PICK a \in {"old", "forgotten"} :
        /\ age' = [age EXCEPT ![r] = a]
        /\ \/ age[r] = "young" /\ a = "old" /\ Quiet
           \/ age[r] = "old" /\ a = "forgotten"
  BY DEF Age, Forget
<1>2. /\ age' \in [Refunds -> {"none", "young", "old", "forgotten"}] /\ age'[r] = a
      /\ \A q \in Refunds : q # r => age'[q] = age[q]
  BY <1>1 DEF Types, StripeTypes
<1>3. UNCHANGED <<made, key, answer, status, books, door, work, charge>>
  BY DEF Age, Forget
<1> QED BY <1>1, <1>2, <1>3 DEF Types, StripeTypes, BookTypes, ServerTypes, books, SameBooks

\* Two rows that agree on their claim, or on their plan.
SameClaim(new, row) ==
  /\ new.status = row.status /\ new.attempts = row.attempts /\ new.started = row.started
  /\ new.due = row.due /\ new.nth = row.nth /\ new.born = row.born
SamePlan(new, row) ==
  /\ new.suffix = row.suffix /\ new.made = row.made /\ new.failed = row.failed
  /\ new.nth = row.nth /\ new.born = row.born

LEMMA DoorAsksE ==
  ASSUME Types, DoorAsks
  PROVE  /\ Types' /\ SameBooks /\ work' = work /\ charge' = charge
         /\ door.pc = "asking" /\ door'.pc = "answered" /\ door'.refund \in Refunds
         /\ (Remembers(door'.refund, FirstKey) /\ SameStripe) \/ Makes(FirstKey, door'.refund)
<1>1. PICK r \in Refunds : Asked(FirstKey, r) /\ door' = [pc |-> "answered", refund |-> r]
  BY DEF DoorAsks, FirstKey
<1>2. FirstKey \in [row : RowIds, suffix : Nat]
  BY Bounds DEF FirstKey
<1>3. door' \in DoorT /\ door'.pc = "answered" /\ door'.refund = r
  BY <1>1 DEF DoorT
<1>4. StripeTypes' /\ ((Remembers(r, FirstKey) /\ SameStripe) \/ Makes(FirstKey, r))
  BY <1>1, <1>2, AskedE
<1>5. SameBooks /\ work' = work /\ charge' = charge /\ door.pc = "asking"
  BY DEF DoorAsks, books, SameBooks
<1> QED BY <1>3, <1>4, <1>5, Unchanged DEF Types, ServerTypes

LEMMA DoorRecordsE ==
  ASSUME Types, DoorRecords
  PROVE  LET r == door.refund
             listing == Only(r, answer[r])
             refused == answer[r] = "failed" \/ r \in Recording(listing).refused
         IN /\ Types' /\ SameStripe /\ work' = work /\ charge' = charge
            /\ door.pc = "answered" /\ r \in Refunds /\ listing \in Listings
            /\ Commit(Recording(listing))
            /\ door'.refund = r
            /\ refused => door'.pc = "refused"
            /\ ~refused => door'.pc = "made"
<1> DEFINE r == door.refund
           listing == Only(r, answer[r])
           refused == answer[r] = "failed" \/ r \in Recording(listing).refused
<1>1. door.pc = "answered" /\ r \in Refunds /\ answer[r] \in {"none", "live", "failed"} /\ door \in DoorT
  BY DEF DoorRecords, Types, ServerTypes, StripeTypes, Listings
<1>2. listing \in Listings
  BY <1>1, OnlyT
<1>3. /\ Commit(Recording(listing)) /\ SameStripe /\ work' = work /\ charge' = charge
      /\ door' = [door EXCEPT !.pc = IF refused THEN "refused" ELSE "made"]
  BY DEF DoorRecords, stripe, SameStripe
<1>4. BookTypes'
  BY <1>2, <1>3, CommitT
<1> HIDE DEF refused
<1>5. door' \in DoorT /\ door'.refund = r /\ door'.pc = IF refused THEN "refused" ELSE "made"
  BY <1>1, <1>3 DEF DoorT
<1>6. Types'
  BY <1>3, <1>4, <1>5, Unchanged DEF Types, ServerTypes
<1> QED BY <1>1, <1>2, <1>3, <1>5, <1>6 DEF refused

\* The door's two writes to its row, and its end.
LEMMA DoorKeepsOwedE ==
  ASSUME Types, DoorKeepsOwed
  PROVE  /\ Types' /\ SameStripe /\ ledger' = ledger /\ recorded' = recorded
         /\ work' = work /\ charge' = charge
         /\ door.pc = "refused" /\ door'.pc = "done"
         /\ \/ rows' = rows
            \/ /\ IsUntouched(rows[Door]) /\ Plan(rows[Door]) = SentPlan
               /\ SameClaim(rows'[Door], rows[Door])
               /\ rows'[Door].suffix = 1 /\ rows'[Door].made = NoRefund /\ rows'[Door].failed = {}
               /\ \A o \in RowIds : o # Door => rows'[o] = rows[o]
<1>1. /\ SameStripe /\ ledger' = ledger /\ recorded' = recorded /\ work' = work /\ charge' = charge
      /\ door.pc = "refused" /\ door' = [door EXCEPT !.pc = "done"]
  BY DEF DoorKeepsOwed, stripe, SameStripe
<1>2. door \in DoorT /\ rows \in RowsT /\ ledger \in Listings /\ recorded \in [Refunds -> Nat]
  BY DEF Types, ServerTypes, BookTypes
<1>3. door' \in DoorT /\ door'.pc = "done"
  BY <1>1, <1>2 DEF DoorT
<1>4. ServerTypes'
  BY <1>1, <1>3 DEF Types, ServerTypes
<1>5. CASE IsUntouched(rows[Door]) /\ Plan(rows[Door]) = SentPlan
  <2> DEFINE new == [rows[Door] EXCEPT !.suffix = rows[Door].suffix + 1]
  <2>1. rows' = [rows EXCEPT ![Door] = new]
    BY <1>5 DEF DoorKeepsOwed
  <2>0. Door \in RowIds /\ rows[Door] \in RowT
    BY <1>2, Bounds DEF RowsT
  <2>1a. rows[Door].suffix = 0 /\ rows[Door].made = NoRefund /\ rows[Door].failed = {}
    BY <1>5, <2>0 DEF Plan, SentPlan, RowT
  <2>2. /\ new \in RowT /\ SameClaim(new, rows[Door])
        /\ new.suffix = 1 /\ new.made = NoRefund /\ new.failed = {}
    BY <2>0, <2>1a DEF RowT, SameClaim
  <2>3. rows' \in RowsT /\ rows'[Door] = new /\ \A p \in RowIds : p # Door => rows'[p] = rows[p]
    <3> HIDE DEF new
    <3> QED BY <1>2, <2>0, <2>1, <2>2, Written
  <2> HIDE DEF new
  <2> QED BY <1>1, <1>2, <1>3, <1>4, <1>5, <2>2, <2>3, Unchanged DEF Types, BookTypes
<1>6. CASE ~(IsUntouched(rows[Door]) /\ Plan(rows[Door]) = SentPlan)
  <2>1. rows' = rows
    BY <1>6 DEF DoorKeepsOwed
  <2> QED BY <1>1, <1>2, <1>3, <1>4, <2>1, Unchanged DEF Types, BookTypes
<1> QED BY <1>5, <1>6

LEMMA DoorClosesE ==
  ASSUME Types, DoorCloses
  PROVE  /\ Types' /\ SameStripe /\ ledger' = ledger /\ recorded' = recorded
         /\ work' = work /\ charge' = charge
         /\ door.pc = "made" /\ door'.pc = "done"
         /\ \/ rows' = rows
            \/ /\ IsOpen(rows[Door]) /\ Plan(rows[Door]) = SentPlan
               /\ rows'[Door] = Succeeded(rows[Door])
               /\ \A o \in RowIds : o # Door => rows'[o] = rows[o]
<1>1. /\ SameStripe /\ ledger' = ledger /\ recorded' = recorded /\ work' = work /\ charge' = charge
      /\ door.pc = "made" /\ door' = [door EXCEPT !.pc = "done"]
  BY DEF DoorCloses, stripe, SameStripe
<1>2. /\ door \in DoorT /\ rows \in RowsT /\ ledger \in Listings /\ recorded \in [Refunds -> Nat]
      /\ made \in 0 .. MaxRefunds
  BY DEF Types, ServerTypes, BookTypes, StripeTypes
<1>3. door' \in DoorT /\ door'.pc = "done"
  BY <1>1, <1>2 DEF DoorT
<1>4. ServerTypes'
  BY <1>1, <1>3 DEF Types, ServerTypes
<1>5. CASE IsOpen(rows[Door]) /\ Plan(rows[Door]) = SentPlan
  <2> DEFINE new == Succeeded(rows[Door])
  <2>1. rows' = [rows EXCEPT ![Door] = new]
    BY <1>5 DEF DoorCloses, OpenOnSentPlan
  <2>2. new \in RowT /\ Door \in RowIds
    <3>1. Door \in RowIds /\ rows[Door] \in RowT
      BY <1>2, Bounds DEF RowsT
    <3> QED BY <1>2, <3>1, SucceededT
  <2>3. rows' \in RowsT /\ rows'[Door] = new /\ \A p \in RowIds : p # Door => rows'[p] = rows[p]
    <3> HIDE DEF new
    <3> QED BY <1>2, <2>1, <2>2, Written
  <2> QED BY <1>1, <1>2, <1>3, <1>4, <1>5, <2>3, Unchanged DEF Types, BookTypes
<1>6. CASE ~(IsOpen(rows[Door]) /\ Plan(rows[Door]) = SentPlan)
  <2>1. rows' = rows
    BY <1>6 DEF DoorCloses, OpenOnSentPlan
  <2> QED BY <1>1, <1>2, <1>3, <1>4, <2>1, Unchanged DEF Types, BookTypes
<1> QED BY <1>5, <1>6

LEMMA DoorEndsE ==
  ASSUME Types, DoorEnds
  PROVE  /\ Types' /\ SameStripe /\ SameBooks /\ work' = work /\ charge' = charge
         /\ door.pc # "done" /\ door'.pc = "done"
<1>1. /\ SameStripe /\ SameBooks /\ work' = work /\ charge' = charge
      /\ door.pc # "done" /\ door' = [door EXCEPT !.pc = "done"]
  BY DEF DoorEnds, stripe, SameStripe, books, SameBooks
<1>2. door \in DoorT
  BY DEF Types, ServerTypes
<1>3. door' \in DoorT /\ door'.pc = "done"
  BY <1>1, <1>2 DEF DoorT
<1>4. ServerTypes'
  BY <1>1, <1>3 DEF Types, ServerTypes
<1> QED BY <1>1, <1>3, <1>4, Unchanged DEF Types

\* Two attempts that agree on all but what follows.
SameAim(new, old) ==
  /\ new.row = old.row /\ new.suffix = old.suffix /\ new.failed = old.failed

\* An attempt written, and the others left alone.
LEMMA Worked ==
  ASSUME Types, NEW w \in Workers, NEW new \in WorkT, work' = [work EXCEPT ![w] = new],
         new.pc = "answered" => new.refund \in Refunds
  PROVE  /\ work' \in [Workers -> WorkT] /\ work'[w] = new /\ Others(w)
         /\ \A v \in Workers : work'[v].pc = "answered" => work'[v].refund \in Refunds
<1>1. work \in [Workers -> WorkT] /\ \A v \in Workers : work[v].pc = "answered" => work[v].refund \in Refunds
  BY DEF Types, ServerTypes
<1>2. work' \in [Workers -> WorkT] /\ work'[w] = new /\ Others(w)
  BY <1>1 DEF Others
<1> QED BY <1>1, <1>2 DEF Others

LEMMA ClaimE ==
  ASSUME Types, NEW w \in Workers, NEW o \in RowIds, Claim(w, o)
  PROVE  /\ Types' /\ SameStripe /\ ledger' = ledger /\ recorded' = recorded
         /\ door' = door /\ charge' = charge /\ Others(w)
         /\ work[w].pc = "idle" /\ MayClaim(rows[o])
         /\ work'[w].pc = "claimed" /\ work'[w].row = o /\ work'[w].listing = work[w].listing
         /\ rows'[o].status = "PROCESSING" /\ SamePlan(rows'[o], rows[o])
         /\ \A p \in RowIds : p # o => rows'[p] = rows[p]
<1>1. /\ SameStripe /\ ledger' = ledger /\ recorded' = recorded /\ door' = door /\ charge' = charge
      /\ work[w].pc = "idle" /\ MayClaim(rows[o])
  BY DEF Claim, stripe, SameStripe
<1>2. /\ rows \in RowsT /\ rows[o] \in RowT /\ work \in [Workers -> WorkT] /\ work[w] \in WorkT
      /\ door \in DoorT /\ ledger \in Listings /\ recorded \in [Refunds -> Nat] /\ charge \in Listings
  BY DEF Types, ServerTypes, BookTypes, RowsT
<1> DEFINE r1 == [rows[o] EXCEPT !.status = "PROCESSING"]
           r2 == [r1 EXCEPT !.attempts = rows[o].attempts + 1]
           r3 == [r2 EXCEPT !.started = rows[o].attempts + 1]
           k1 == [work[w] EXCEPT !.pc = "claimed"]
           k2 == [k1 EXCEPT !.row = o]
<1>3. rows' = [rows EXCEPT ![o] = r3]
  BY DEF Claim
<1>4. work' = [work EXCEPT ![w] = k2]
  BY DEF Claim
<1>5. rows[o].attempts \in 0 .. MaxAttempts /\ rows[o].attempts + 1 \in 0 .. MaxAttempts
  <2>1. rows[o].attempts \in 0 .. MaxAttempts
    BY <1>2 DEF RowT
  <2>2. rows[o].attempts < MaxAttempts
    BY <1>1 DEF MayClaim
  <2>3. MaxAttempts \in Nat
    BY Bounds
  <2> QED BY <2>1, <2>2, <2>3
<1>6. r1 \in RowT /\ r1.status = "PROCESSING" /\ SamePlan(r1, rows[o]) /\ r1.attempts = rows[o].attempts
  BY <1>2 DEF RowT, Statuses, SamePlan
<1>7. k1 \in WorkT /\ k1.pc = "claimed" /\ k1.listing = work[w].listing
  BY <1>2 DEF WorkT, Pcs
<1> HIDE DEF r1, k1
<1>8. r2 \in RowT /\ r2.status = "PROCESSING" /\ SamePlan(r2, rows[o])
  BY <1>5, <1>6 DEF RowT, SamePlan
<1>9. k2 \in WorkT /\ k2.pc = "claimed" /\ k2.row = o /\ k2.listing = work[w].listing
  BY <1>7 DEF WorkT
<1> HIDE DEF r2, k2
<1>11. r3 \in RowT /\ r3.status = "PROCESSING" /\ SamePlan(r3, rows[o])
  BY <1>5, <1>8 DEF RowT, SamePlan
<1> HIDE DEF r3
<1>12. rows' \in RowsT /\ rows'[o] = r3 /\ \A p \in RowIds : p # o => rows'[p] = rows[p]
  BY <1>2, <1>3, <1>11, Written
<1>13. /\ work' \in [Workers -> WorkT] /\ work'[w] = k2 /\ Others(w)
       /\ \A v \in Workers : work'[v].pc = "answered" => work'[v].refund \in Refunds
  BY <1>4, <1>9, Worked
<1>14. ServerTypes' /\ BookTypes'
  BY <1>1, <1>2, <1>12, <1>13 DEF ServerTypes, BookTypes, Types
<1> QED BY <1>1, <1>9, <1>11, <1>12, <1>13, <1>14, Unchanged DEF Types

LEMMA ReadClaimE ==
  ASSUME Types, NEW w \in Workers, ReadClaim(w)
  PROVE  LET row == rows[work[w].row]
         IN /\ Types' /\ SameStripe /\ SameBooks /\ door' = door /\ charge' = charge /\ Others(w)
            /\ work[w].pc = "claimed"
            /\ row.made = NoRefund => work'[w].pc = "listing"
            /\ row.made # NoRefund => work'[w].pc = "closing"
            /\ work'[w].row = work[w].row /\ work'[w].listing = work[w].listing
            /\ work'[w].suffix = row.suffix /\ work'[w].made = row.made /\ work'[w].failed = row.failed
<1> DEFINE row == rows[work[w].row]
           pc == IF row.made = NoRefund THEN "listing" ELSE "closing"
           k1 == [work[w] EXCEPT !.pc = pc]
           k2 == [k1 EXCEPT !.attempts = row.attempts]
           k3 == [k2 EXCEPT !.started = row.started]
           k4 == [k3 EXCEPT !.suffix = row.suffix]
           k5 == [k4 EXCEPT !.made = row.made]
           k6 == [k5 EXCEPT !.failed = row.failed]
           Same(k) == k.pc = pc /\ k.row = work[w].row /\ k.listing = work[w].listing
<1>1. SameStripe /\ SameBooks /\ door' = door /\ charge' = charge /\ work[w].pc = "claimed"
  BY DEF ReadClaim, stripe, SameStripe, books, SameBooks
<1>2. work' = [work EXCEPT ![w] = k6]
  BY DEF ReadClaim
<1>3. work[w] \in WorkT /\ work[w].row \in RowIds /\ row \in RowT
  BY DEF Types, ServerTypes, BookTypes, RowsT, WorkT
<1>3a. /\ pc \in Pcs /\ pc # "answered"
       /\ row.made = NoRefund => pc = "listing"
       /\ row.made # NoRefund => pc = "closing"
  BY DEF Pcs
<1> HIDE DEF row, pc
<1>4. k1 \in WorkT /\ Same(k1)
  BY <1>3, <1>3a DEF WorkT
<1> HIDE DEF k1
<1>5. k2 \in WorkT /\ Same(k2)
  BY <1>3, <1>4 DEF WorkT, RowT
<1> HIDE DEF k2
<1>6. k3 \in WorkT /\ Same(k3)
  BY <1>3, <1>5 DEF WorkT, RowT
<1> HIDE DEF k3
<1>7. k4 \in WorkT /\ Same(k4) /\ k4.suffix = row.suffix
  BY <1>3, <1>6 DEF WorkT, RowT
<1> HIDE DEF k4
<1>8. k5 \in WorkT /\ Same(k5) /\ k5.suffix = row.suffix /\ k5.made = row.made
  BY <1>3, <1>7 DEF WorkT, RowT
<1> HIDE DEF k5
<1>9. k6 \in WorkT /\ Same(k6) /\ k6.suffix = row.suffix /\ k6.made = row.made /\ k6.failed = row.failed
  BY <1>3, <1>8 DEF WorkT, RowT
<1> HIDE DEF k6
<1>10. /\ work' \in [Workers -> WorkT] /\ work'[w] = k6 /\ Others(w)
       /\ \A v \in Workers : work'[v].pc = "answered" => work'[v].refund \in Refunds
  BY <1>2, <1>3a, <1>9, Worked
<1>11. ServerTypes'
  BY <1>1, <1>10 DEF ServerTypes, Types
<1> QED BY <1>1, <1>3a, <1>9, <1>10, <1>11, Unchanged DEF Types, row

LEMMA ListRefundsE ==
  ASSUME Types, NEW w \in Workers, ListRefunds(w)
  PROVE  /\ Types' /\ SameStripe /\ SameBooks /\ door' = door /\ charge' = charge /\ Others(w)
         /\ work[w].pc = "listing"
         /\ made = 0 => work'[w].pc = "asking"
         /\ made # 0 => work'[w].pc = "recording"
         /\ SameAim(work'[w], work[w]) /\ work'[w].made = work[w].made /\ work'[w].listing = status
<1> DEFINE pc == IF made = 0 THEN "asking" ELSE "recording"
           k1 == [work[w] EXCEPT !.pc = pc]
           k2 == [k1 EXCEPT !.listing = status]
<1>1. SameStripe /\ SameBooks /\ door' = door /\ charge' = charge /\ work[w].pc = "listing"
  BY DEF ListRefunds, stripe, SameStripe, books, SameBooks
<1>2. work' = [work EXCEPT ![w] = k2]
  BY DEF ListRefunds
<1>3. work[w] \in WorkT /\ status \in Listings
  BY DEF Types, ServerTypes, StripeTypes
<1>3a. pc \in Pcs /\ pc # "answered" /\ (made = 0 => pc = "asking") /\ (made # 0 => pc = "recording")
  BY DEF Pcs
<1> HIDE DEF pc
<1>4. k1 \in WorkT /\ k1.pc = pc /\ SameAim(k1, work[w]) /\ k1.made = work[w].made
  BY <1>3, <1>3a DEF WorkT, SameAim
<1> HIDE DEF k1
<1>5. k2 \in WorkT /\ k2.pc = pc /\ SameAim(k2, work[w]) /\ k2.made = work[w].made /\ k2.listing = status
  BY <1>3, <1>4 DEF WorkT, SameAim
<1> HIDE DEF k2
<1>10. /\ work' \in [Workers -> WorkT] /\ work'[w] = k2 /\ Others(w)
       /\ \A v \in Workers : work'[v].pc = "answered" => work'[v].refund \in Refunds
  BY <1>2, <1>3a, <1>5, Worked
<1>11. ServerTypes'
  BY <1>1, <1>10 DEF ServerTypes, Types
<1> QED BY <1>1, <1>3a, <1>5, <1>10, <1>11, Unchanged DEF Types

LEMMA RecordListingE ==
  ASSUME Types, NEW w \in Workers, RecordListing(w)
  PROVE  LET listing == work[w].listing
             own == OwnListed(work[w]) \ Recording(listing).refused
         IN /\ Types' /\ SameStripe /\ door' = door /\ charge' = charge /\ Others(w)
            /\ work[w].pc = "recording" /\ listing \in Listings
            /\ SameAim(work'[w], work[w])
            /\ \/ SameBooks /\ work'[w].pc = "failing" /\ work'[w].listing = listing
               \/ /\ Commit(Recording(listing))
                  /\ work'[w].listing = Nothing /\ work'[w].made = work[w].made
                  /\ \/ own = {} /\ work'[w].pc = "asking"
                     \/ own # {} /\ work'[w].pc = "marking" /\ work'[w].refund \in own
<1> DEFINE listing == work[w].listing
           own == OwnListed(work[w]) \ Recording(listing).refused
           pc == IF own = {} THEN "asking" ELSE "marking"
           found == IF own = {} THEN NoRefund ELSE CHOOSE r \in own : \A q \in own : q <= r
           k1 == [work[w] EXCEPT !.pc = pc]
           k2 == [k1 EXCEPT !.listing = Nothing]
           k3 == [k2 EXCEPT !.refund = found]
           Same(k) == k.pc = pc /\ SameAim(k, work[w]) /\ k.made = work[w].made
<1>1. SameStripe /\ door' = door /\ charge' = charge /\ work[w].pc = "recording"
  BY DEF RecordListing, stripe, SameStripe
<1>2. work[w] \in WorkT /\ listing \in Listings
  BY DEF Types, ServerTypes, WorkT
<1>3. own \subseteq Refunds
  BY DEF OwnListed
<1>4. CASE Recording(listing).threw
  <2>1. Moves(w, "failing") /\ SameBooks
    BY <1>4 DEF RecordListing, books, SameBooks
  <2>2. "failing" \in Pcs
    BY DEF Pcs
  <2>3. /\ work' \in [Workers -> WorkT] /\ Others(w)
        /\ work'[w].pc = "failing" /\ SameAim(work'[w], work[w]) /\ work'[w].listing = listing
        /\ \A v \in Workers : work'[v].pc = "answered" => work'[v].refund \in Refunds
    BY <2>1, <2>2, MovesE DEF SameAim
  <2>4. ServerTypes'
    BY <1>1, <2>3 DEF ServerTypes, Types
  <2> QED BY <1>1, <1>2, <2>1, <2>3, <2>4, Unchanged DEF Types
<1>5. CASE ~Recording(listing).threw
  <2>1. Commit(Recording(listing)) /\ work' = [work EXCEPT ![w] = k3]
    BY <1>5 DEF RecordListing
  <2>2. own # {} => found \in own
    <3> HIDE DEF own
    <3> QED BY <1>3, Largest
  <2>3. found \in Refunds \cup {NoRefund}
    <3> HIDE DEF own
    <3> QED BY <1>3, <2>2
  <2>4. pc \in Pcs /\ pc # "answered" /\ (own = {} => pc = "asking") /\ (own # {} => pc = "marking")
    BY DEF Pcs
  <2> HIDE DEF own, found, pc
  <2>5. k1 \in WorkT /\ Same(k1)
    BY <1>2, <2>4 DEF WorkT, SameAim
  <2> HIDE DEF k1
  <2>6. k2 \in WorkT /\ Same(k2) /\ k2.listing = Nothing
    BY <2>5, NothingT DEF WorkT, SameAim
  <2> HIDE DEF k2
  <2>7. k3 \in WorkT /\ Same(k3) /\ k3.listing = Nothing /\ k3.refund = found
    BY <2>3, <2>6 DEF WorkT, SameAim
  <2> HIDE DEF k3
  <2>8. /\ work' \in [Workers -> WorkT] /\ work'[w] = k3 /\ Others(w)
        /\ \A v \in Workers : work'[v].pc = "answered" => work'[v].refund \in Refunds
    BY <2>1, <2>4, <2>7, Worked
  <2>9. ServerTypes'
    BY <1>1, <2>8 DEF ServerTypes, Types
  <2>10. BookTypes'
    BY <1>2, <2>1, CommitT
  <2>11. Types'
    BY <1>1, <2>9, <2>10, Unchanged DEF Types
  <2>12. /\ SameAim(work'[w], work[w]) /\ work'[w].listing = Nothing /\ work'[w].made = work[w].made
         /\ \/ own = {} /\ work'[w].pc = "asking"
            \/ own # {} /\ work'[w].pc = "marking" /\ work'[w].refund \in own
    BY <2>2, <2>4, <2>7, <2>8
  <2> QED BY <1>1, <1>2, <2>1, <2>8, <2>11, <2>12 DEF own
<1> QED BY <1>4, <1>5

LEMMA MarkListedE ==
  ASSUME Types, NEW w \in Workers, MarkListed(w)
  PROVE  LET o == work[w].row
         IN /\ Types' /\ SameStripe /\ ledger' = ledger /\ recorded' = recorded
            /\ door' = door /\ charge' = charge /\ Others(w)
            /\ work[w].pc = "marking" /\ o \in RowIds
            /\ SameAim(work'[w], work[w]) /\ work'[w].listing = work[w].listing
            /\ \/ rows' = rows /\ work'[w].pc = "failing"
               \/ /\ work'[w].pc = "closing"
                  /\ rows[o].status = "PROCESSING" /\ Plan(rows[o]) = Plan(work[w])
                  /\ SameClaim(rows'[o], rows[o])
                  /\ rows'[o].suffix = rows[o].suffix /\ rows'[o].failed = rows[o].failed
                  /\ rows'[o].made = work[w].refund
                  /\ \A p \in RowIds : p # o => rows'[p] = rows[p]
<1> DEFINE o == work[w].row
           held == rows[o].status = "PROCESSING" /\ rows[o].started = work[w].started
                     /\ Plan(rows[o]) = Plan(work[w])
<1>1. /\ SameStripe /\ ledger' = ledger /\ recorded' = recorded /\ door' = door /\ charge' = charge
      /\ work[w].pc = "marking"
  BY DEF MarkListed, stripe, SameStripe
<1>2. /\ work[w] \in WorkT /\ o \in RowIds /\ rows[o] \in RowT /\ rows \in RowsT
      /\ work[w].refund \in Refunds \cup {NoRefund}
      /\ ledger \in Listings /\ recorded \in [Refunds -> Nat]
  BY DEF Types, ServerTypes, BookTypes, RowsT, WorkT
<1>3. CASE held
  <2> DEFINE new == [rows[o] EXCEPT !.made = work[w].refund]
             k1 == [work[w] EXCEPT !.pc = "closing"]
             k2 == [k1 EXCEPT !.made = work[w].refund]
  <2>1. rows' = [rows EXCEPT ![o] = new] /\ work' = [work EXCEPT ![w] = k2]
    BY <1>3 DEF MarkListed
  <2>2. /\ new \in RowT /\ SameClaim(new, rows[o]) /\ new.suffix = rows[o].suffix
        /\ new.failed = rows[o].failed /\ new.made = work[w].refund
    <3> DEFINE row == rows[o]
    <3>1. row \in RowT /\ new = [row EXCEPT !.made = work[w].refund]
      BY <1>2
    <3> HIDE DEF row
    <3>2. /\ new \in RowT /\ SameClaim(new, row) /\ new.suffix = row.suffix
          /\ new.failed = row.failed /\ new.made = work[w].refund
      BY <1>2, <3>1 DEF RowT, SameClaim
    <3> QED BY <3>2 DEF row
  <2>3. k1 \in WorkT /\ k1.pc = "closing" /\ SameAim(k1, work[w]) /\ k1.listing = work[w].listing
    BY <1>2 DEF WorkT, Pcs, SameAim
  <2> HIDE DEF k1
  <2>4. k2 \in WorkT /\ k2.pc = "closing" /\ SameAim(k2, work[w]) /\ k2.listing = work[w].listing
    BY <1>2, <2>3 DEF WorkT, SameAim
  <2> HIDE DEF new, k2
  <2>5. rows' \in RowsT /\ rows'[o] = new /\ \A p \in RowIds : p # o => rows'[p] = rows[p]
    <3> HIDE DEF o
    <3> QED BY <1>2, <2>1, <2>2, Written
  <2>6. /\ work' \in [Workers -> WorkT] /\ work'[w] = k2 /\ Others(w)
        /\ \A v \in Workers : work'[v].pc = "answered" => work'[v].refund \in Refunds
    BY <2>1, <2>4, Worked
  <2>7. ServerTypes' /\ BookTypes'
    BY <1>1, <1>2, <2>5, <2>6 DEF ServerTypes, BookTypes, Types
  <2>8. Types'
    BY <1>1, <2>7, Unchanged DEF Types
  <2>9. /\ work'[w].pc = "closing" /\ SameAim(work'[w], work[w]) /\ work'[w].listing = work[w].listing
        /\ rows[o].status = "PROCESSING" /\ Plan(rows[o]) = Plan(work[w])
        /\ SameClaim(rows'[o], rows[o])
        /\ rows'[o].suffix = rows[o].suffix /\ rows'[o].failed = rows[o].failed
        /\ rows'[o].made = work[w].refund
    BY <1>3, <2>2, <2>4, <2>5, <2>6
  <2> QED BY <1>1, <1>2, <2>5, <2>6, <2>8, <2>9
<1>4. CASE ~held
  <2>1. Moves(w, "failing") /\ rows' = rows
    BY <1>4 DEF MarkListed
  <2>2. "failing" \in Pcs
    BY DEF Pcs
  <2>3. /\ work' \in [Workers -> WorkT] /\ Others(w)
        /\ work'[w].pc = "failing" /\ SameAim(work'[w], work[w]) /\ work'[w].listing = work[w].listing
        /\ \A v \in Workers : work'[v].pc = "answered" => work'[v].refund \in Refunds
    BY <2>1, <2>2, MovesE DEF SameAim
  <2>4. ServerTypes' /\ BookTypes'
    BY <1>1, <1>2, <2>1, <2>3 DEF ServerTypes, BookTypes, Types
  <2> QED BY <1>1, <1>2, <2>1, <2>3, <2>4, Unchanged DEF Types
<1> QED BY <1>3, <1>4

LEMMA AskE ==
  ASSUME Types, NEW w \in Workers, Ask(w)
  PROVE  /\ Types' /\ SameBooks /\ door' = door /\ charge' = charge /\ Others(w)
         /\ work[w].pc = "asking" /\ work'[w].pc = "answered" /\ work'[w].refund \in Refunds
         /\ SameAim(work'[w], work[w]) /\ work'[w].made = work[w].made
         /\ work'[w].listing = work[w].listing
         /\ \/ Remembers(work'[w].refund, KeyOf(w)) /\ SameStripe
            \/ Makes(KeyOf(w), work'[w].refund)
<1>1. PICK r \in Refunds :
        /\ Asked(KeyOf(w), r)
        /\ work' = [work EXCEPT ![w] = [work[w] EXCEPT !.pc = "answered", !.refund = r]]
  BY DEF Ask, KeyOf
<1>2. SameBooks /\ door' = door /\ charge' = charge /\ work[w].pc = "asking"
  BY DEF Ask, books, SameBooks
<1>3. work[w] \in WorkT
  BY DEF Types, ServerTypes
<1>4. KeyOf(w) \in [row : RowIds, suffix : Nat]
  BY <1>3 DEF KeyOf, WorkT
<1>5. StripeTypes' /\ ((Remembers(r, KeyOf(w)) /\ SameStripe) \/ Makes(KeyOf(w), r))
  BY <1>1, <1>4, AskedE
<1> DEFINE k1 == [work[w] EXCEPT !.pc = "answered"]
           k2 == [k1 EXCEPT !.refund = r]
           Same(k) == /\ k.pc = "answered" /\ SameAim(k, work[w]) /\ k.made = work[w].made
                      /\ k.listing = work[w].listing
<1>6. work' = [work EXCEPT ![w] = k2]
  BY <1>1
<1>7. k1 \in WorkT /\ Same(k1)
  BY <1>3 DEF WorkT, Pcs, SameAim
<1> HIDE DEF k1
<1>8. k2 \in WorkT /\ Same(k2) /\ k2.refund = r
  BY <1>7 DEF WorkT, SameAim
<1> HIDE DEF k2
<1>9. /\ work' \in [Workers -> WorkT] /\ work'[w] = k2 /\ Others(w)
      /\ \A v \in Workers : work'[v].pc = "answered" => work'[v].refund \in Refunds
  BY <1>6, <1>8, Worked
<1>10. ServerTypes'
  BY <1>2, <1>9 DEF ServerTypes, Types
<1> QED BY <1>2, <1>5, <1>8, <1>9, <1>10, Unchanged DEF Types

LEMMA RecordAnswerE ==
  ASSUME Types, NEW w \in Workers, RecordAnswer(w)
  PROVE  LET r == work[w].refund
             listing == Only(r, answer[r])
             refused == answer[r] = "failed" \/ r \in Recording(listing).refused
         IN /\ Types' /\ SameStripe /\ door' = door /\ charge' = charge /\ Others(w)
            /\ work[w].pc = "answered" /\ r \in Refunds /\ listing \in Listings
            /\ Commit(Recording(listing))
            /\ SameAim(work'[w], work[w]) /\ work'[w].made = work[w].made
            /\ work'[w].listing = work[w].listing /\ work'[w].refund = r
            /\ refused => work'[w].pc = "refused"
            /\ ~refused => work'[w].pc \in {"made", "closing"}
<1> DEFINE r == work[w].refund
           listing == Only(r, answer[r])
           refused == answer[r] = "failed" \/ r \in Recording(listing).refused
           pc == IF refused THEN "refused"
                 ELSE IF work[w].failed # {} \/ work[w].row # Door THEN "made" ELSE "closing"
<1>1. /\ work[w].pc = "answered" /\ r \in Refunds /\ answer[r] \in {"none", "live", "failed"}
      /\ work[w] \in WorkT
  BY DEF RecordAnswer, Types, ServerTypes, StripeTypes, Listings
<1>2. listing \in Listings
  BY <1>1, OnlyT
<1>3. Commit(Recording(listing)) /\ SameStripe /\ door' = door /\ charge' = charge /\ Moves(w, pc)
  BY DEF RecordAnswer, stripe, SameStripe
<1>4. BookTypes'
  BY <1>2, <1>3, CommitT
<1>5. /\ pc \in Pcs /\ pc # "answered" /\ (refused => pc = "refused")
      /\ (~refused => pc \in {"made", "closing"})
  BY DEF Pcs
<1> HIDE DEF pc, refused
<1>6. /\ work' \in [Workers -> WorkT] /\ Others(w)
      /\ work'[w].pc = pc /\ SameAim(work'[w], work[w]) /\ work'[w].made = work[w].made
      /\ work'[w].listing = work[w].listing /\ work'[w].refund = r
      /\ \A v \in Workers : work'[v].pc = "answered" => work'[v].refund \in Refunds
  BY <1>3, <1>5, MovesE DEF SameAim
<1>7. ServerTypes'
  BY <1>3, <1>6 DEF ServerTypes, Types
<1>8. Types'
  BY <1>3, <1>4, <1>7, Unchanged DEF Types
<1> QED BY <1>1, <1>2, <1>3, <1>5, <1>6, <1>8 DEF refused

\* A step of a runner that writes its row and goes on.
LEMMA MoveRefusedE ==
  ASSUME Types, NEW w \in Workers, MoveRefused(w)
  PROVE  LET o == work[w].row
         IN /\ Types' /\ SameStripe /\ ledger' = ledger /\ recorded' = recorded
            /\ door' = door /\ charge' = charge /\ Others(w)
            /\ work[w].pc = "refused" /\ work'[w].pc = "failing" /\ o \in RowIds
            /\ SameAim(work'[w], work[w]) /\ work'[w].listing = work[w].listing
            /\ \/ rows' = rows
               \/ /\ rows[o].status = "PROCESSING" /\ SameClaim(rows'[o], rows[o])
                  /\ rows'[o].suffix = work[w].suffix + 1
                  /\ rows'[o].made = work[w].made /\ rows'[o].failed = work[w].failed
                  /\ \A p \in RowIds : p # o => rows'[p] = rows[p]
<1> DEFINE o == work[w].row
           held == rows[o].status = "PROCESSING" /\ rows[o].started = work[w].started
<1>1. /\ SameStripe /\ ledger' = ledger /\ recorded' = recorded /\ door' = door /\ charge' = charge
      /\ work[w].pc = "refused" /\ Moves(w, "failing")
  BY DEF MoveRefused, stripe, SameStripe
<1>2. /\ work[w] \in WorkT /\ o \in RowIds /\ rows[o] \in RowT /\ rows \in RowsT
      /\ work[w].suffix \in Nat /\ work[w].made \in Refunds \cup {NoRefund} /\ work[w].failed \in SUBSET Refunds
      /\ ledger \in Listings /\ recorded \in [Refunds -> Nat]
  BY DEF Types, ServerTypes, BookTypes, RowsT, WorkT
<1>3. /\ work' \in [Workers -> WorkT] /\ Others(w)
      /\ work'[w].pc = "failing" /\ SameAim(work'[w], work[w]) /\ work'[w].listing = work[w].listing
      /\ \A v \in Workers : work'[v].pc = "answered" => work'[v].refund \in Refunds
  <2>1. "failing" \in Pcs
    BY DEF Pcs
  <2> QED BY <1>1, <2>1, MovesE DEF SameAim
<1>4. ServerTypes'
  BY <1>1, <1>3 DEF ServerTypes, Types
<1>5. CASE held
  <2> DEFINE row == rows[o]
             r1 == [row EXCEPT !.suffix = work[w].suffix + 1]
             r2 == [r1 EXCEPT !.made = work[w].made]
             r3 == [r2 EXCEPT !.failed = work[w].failed]
  <2>1. rows' = [rows EXCEPT ![o] = r3]
    BY <1>5 DEF MoveRefused
  <2>2. row \in RowT /\ row.status = "PROCESSING"
    BY <1>2, <1>5
  <2> HIDE DEF row
  <2>3. r1 \in RowT /\ SameClaim(r1, row) /\ r1.suffix = work[w].suffix + 1
    BY <1>2, <2>2 DEF RowT, SameClaim
  <2> HIDE DEF r1
  <2>4. r2 \in RowT /\ SameClaim(r2, row) /\ r2.suffix = work[w].suffix + 1 /\ r2.made = work[w].made
    BY <1>2, <2>3 DEF RowT, SameClaim
  <2> HIDE DEF r2
  <2>5. /\ r3 \in RowT /\ SameClaim(r3, row) /\ r3.suffix = work[w].suffix + 1
        /\ r3.made = work[w].made /\ r3.failed = work[w].failed
    BY <1>2, <2>4 DEF RowT, SameClaim
  <2> HIDE DEF r3
  <2>6. rows' \in RowsT /\ rows'[o] = r3 /\ \A p \in RowIds : p # o => rows'[p] = rows[p]
    <3> HIDE DEF o
    <3> QED BY <1>2, <2>1, <2>5, Written
  <2>7. BookTypes'
    BY <1>1, <1>2, <2>6 DEF BookTypes, Types
  <2>8. Types'
    BY <1>1, <1>4, <2>7, Unchanged DEF Types
  <2>9. /\ rows[o].status = "PROCESSING" /\ SameClaim(rows'[o], rows[o])
        /\ rows'[o].suffix = work[w].suffix + 1
        /\ rows'[o].made = work[w].made /\ rows'[o].failed = work[w].failed
    BY <2>2, <2>5, <2>6 DEF row
  <2> QED BY <1>1, <1>2, <1>3, <2>6, <2>8, <2>9
<1>6. CASE ~held
  <2>1. rows' = rows
    BY <1>6 DEF MoveRefused
  <2>2. BookTypes'
    BY <1>1, <1>2, <2>1 DEF BookTypes, Types
  <2> QED BY <1>1, <1>2, <1>3, <1>4, <2>1, <2>2, Unchanged DEF Types
<1> QED BY <1>5, <1>6

LEMMA MarkResentE ==
  ASSUME Types, NEW w \in Workers, MarkResent(w)
  PROVE  LET o == work[w].row
         IN /\ Types' /\ SameStripe /\ ledger' = ledger /\ recorded' = recorded
            /\ door' = door /\ charge' = charge /\ Others(w)
            /\ work[w].pc = "made" /\ work'[w].pc = "closing" /\ o \in RowIds
            /\ SameAim(work'[w], work[w]) /\ work'[w].listing = work[w].listing
            /\ \/ rows' = rows
               \/ /\ Plan(rows[o]) = Plan(work[w]) /\ SameClaim(rows'[o], rows[o])
                  /\ rows'[o].suffix = rows[o].suffix /\ rows'[o].failed = rows[o].failed
                  /\ rows'[o].made = work[w].refund
                  /\ \A p \in RowIds : p # o => rows'[p] = rows[p]
<1> DEFINE o == work[w].row
           held == Plan(rows[o]) = Plan(work[w])
<1>1. /\ SameStripe /\ ledger' = ledger /\ recorded' = recorded /\ door' = door /\ charge' = charge
      /\ work[w].pc = "made" /\ Moves(w, "closing")
  BY DEF MarkResent, stripe, SameStripe
<1>2. /\ work[w] \in WorkT /\ o \in RowIds /\ rows[o] \in RowT /\ rows \in RowsT
      /\ work[w].refund \in Refunds \cup {NoRefund}
      /\ ledger \in Listings /\ recorded \in [Refunds -> Nat]
  BY DEF Types, ServerTypes, BookTypes, RowsT, WorkT
<1>3. /\ work' \in [Workers -> WorkT] /\ Others(w)
      /\ work'[w].pc = "closing" /\ SameAim(work'[w], work[w]) /\ work'[w].listing = work[w].listing
      /\ \A v \in Workers : work'[v].pc = "answered" => work'[v].refund \in Refunds
  <2>1. "closing" \in Pcs
    BY DEF Pcs
  <2> QED BY <1>1, <2>1, MovesE DEF SameAim
<1>4. ServerTypes'
  BY <1>1, <1>3 DEF ServerTypes, Types
<1>5. CASE held
  <2> DEFINE row == rows[o]
             new == [row EXCEPT !.made = work[w].refund]
  <2>1. rows' = [rows EXCEPT ![o] = new]
    BY <1>5 DEF MarkResent
  <2>2. row \in RowT
    BY <1>2, <1>5
  <2> HIDE DEF row
  <2>5. /\ new \in RowT /\ SameClaim(new, row) /\ new.suffix = row.suffix
        /\ new.made = work[w].refund /\ new.failed = row.failed
    BY <1>2, <2>2 DEF RowT, SameClaim
  <2> HIDE DEF new
  <2>6. rows' \in RowsT /\ rows'[o] = new /\ \A p \in RowIds : p # o => rows'[p] = rows[p]
    <3> HIDE DEF o
    <3> QED BY <1>2, <2>1, <2>5, Written
  <2>7. BookTypes'
    BY <1>1, <1>2, <2>6 DEF BookTypes, Types
  <2>8. Types'
    BY <1>1, <1>4, <2>7, Unchanged DEF Types
  <2>9. /\ Plan(rows[o]) = Plan(work[w]) /\ SameClaim(rows'[o], rows[o])
        /\ rows'[o].suffix = rows[o].suffix /\ rows'[o].failed = rows[o].failed
        /\ rows'[o].made = work[w].refund
    BY <1>5, <2>5, <2>6 DEF row
  <2> QED BY <1>1, <1>2, <1>3, <2>6, <2>8, <2>9
<1>6. CASE ~held
  <2>1. rows' = rows
    BY <1>6 DEF MarkResent
  <2>2. BookTypes'
    BY <1>1, <1>2, <2>1 DEF BookTypes, Types
  <2> QED BY <1>1, <1>2, <1>3, <1>4, <2>1, <2>2, Unchanged DEF Types
<1> QED BY <1>5, <1>6

LEMMA CompleteE ==
  ASSUME Types, NEW w \in Workers, Complete(w)
  PROVE  LET o == work[w].row
         IN /\ Types' /\ SameStripe /\ ledger' = ledger /\ recorded' = recorded
            /\ door' = door /\ charge' = charge /\ Others(w)
            /\ work[w].pc = "closing" /\ work'[w].pc = "idle" /\ o \in RowIds
            /\ work'[w].listing = Nothing
            /\ \/ rows' = rows
               \/ /\ rows[o].status = "PROCESSING" /\ rows'[o] = Succeeded(rows[o])
                  /\ \A p \in RowIds : p # o => rows'[p] = rows[p]
<1> DEFINE o == work[w].row
           held == Holds(rows[o], work[w])
<1>1. /\ SameStripe /\ ledger' = ledger /\ recorded' = recorded /\ door' = door /\ charge' = charge
      /\ work[w].pc = "closing" /\ Stops(w)
  BY DEF Complete, stripe, SameStripe
<1>2. /\ work[w] \in WorkT /\ o \in RowIds /\ rows[o] \in RowT /\ rows \in RowsT
      /\ ledger \in Listings /\ recorded \in [Refunds -> Nat] /\ made \in 0 .. MaxRefunds
  BY DEF Types, ServerTypes, BookTypes, StripeTypes, RowsT, WorkT
<1>3. /\ work' \in [Workers -> WorkT] /\ Others(w) /\ work'[w].pc = "idle" /\ work'[w].listing = Nothing
      /\ \A v \in Workers : work'[v].pc = "answered" => work'[v].refund \in Refunds
  BY <1>1, StopsE
<1>4. ServerTypes'
  BY <1>1, <1>3 DEF ServerTypes, Types
<1>5. CASE held
  <2> DEFINE new == Succeeded(rows[o])
  <2>1. rows' = [rows EXCEPT ![o] = new] /\ rows[o].status = "PROCESSING"
    BY <1>5 DEF Complete, Holds
  <2>2. new \in RowT
    BY <1>2, SucceededT
  <2>6. rows' \in RowsT /\ rows'[o] = new /\ \A p \in RowIds : p # o => rows'[p] = rows[p]
    <3> HIDE DEF o, new
    <3> QED BY <1>2, <2>1, <2>2, Written
  <2>7. BookTypes'
    BY <1>1, <1>2, <2>6 DEF BookTypes, Types
  <2> QED BY <1>1, <1>2, <1>3, <1>4, <2>1, <2>6, <2>7, Unchanged DEF Types
<1>6. CASE ~held
  <2>1. rows' = rows
    BY <1>6 DEF Complete
  <2>2. BookTypes'
    BY <1>1, <1>2, <2>1 DEF BookTypes, Types
  <2> QED BY <1>1, <1>2, <1>3, <1>4, <2>1, <2>2, Unchanged DEF Types
<1> QED BY <1>5, <1>6

LEMMA FailAttemptE ==
  ASSUME Types, NEW w \in Workers, FailAttempt(w)
  PROVE  LET o == work[w].row
         IN /\ Types' /\ SameStripe /\ ledger' = ledger /\ recorded' = recorded
            /\ door' = door /\ charge' = charge /\ Others(w)
            /\ work[w].pc = "failing" /\ work'[w].pc = "idle" /\ o \in RowIds
            /\ work'[w].listing = Nothing
            /\ \/ rows' = rows
               \/ /\ IsOpen(rows[o]) /\ rows'[o] = GivenUp(rows[o])
                  /\ \A p \in RowIds : p # o => rows'[p] = rows[p]
<1> DEFINE o == work[w].row
           held == MayFail(rows[o], work[w])
<1>1. /\ SameStripe /\ ledger' = ledger /\ recorded' = recorded /\ door' = door /\ charge' = charge
      /\ work[w].pc = "failing" /\ Stops(w)
  BY DEF FailAttempt, stripe, SameStripe
<1>2. /\ work[w] \in WorkT /\ o \in RowIds /\ rows[o] \in RowT /\ rows \in RowsT
      /\ ledger \in Listings /\ recorded \in [Refunds -> Nat]
  BY DEF Types, ServerTypes, BookTypes, RowsT, WorkT
<1>3. /\ work' \in [Workers -> WorkT] /\ Others(w) /\ work'[w].pc = "idle" /\ work'[w].listing = Nothing
      /\ \A v \in Workers : work'[v].pc = "answered" => work'[v].refund \in Refunds
  BY <1>1, StopsE
<1>4. ServerTypes'
  BY <1>1, <1>3 DEF ServerTypes, Types
<1>5. CASE held
  <2> DEFINE new == GivenUp(rows[o])
  <2>1. rows' = [rows EXCEPT ![o] = new] /\ IsOpen(rows[o])
    BY <1>5 DEF FailAttempt, MayFail, IsOpen
  <2>2. new \in RowT
    BY <1>2, GivenUpT
  <2>6. rows' \in RowsT /\ rows'[o] = new /\ \A p \in RowIds : p # o => rows'[p] = rows[p]
    <3> HIDE DEF o, new
    <3> QED BY <1>2, <2>1, <2>2, Written
  <2>7. BookTypes'
    BY <1>1, <1>2, <2>6 DEF BookTypes, Types
  <2> QED BY <1>1, <1>2, <1>3, <1>4, <2>1, <2>6, <2>7, Unchanged DEF Types
<1>6. CASE ~held
  <2>1. rows' = rows
    BY <1>6 DEF FailAttempt
  <2>2. BookTypes'
    BY <1>1, <1>2, <2>1 DEF BookTypes, Types
  <2> QED BY <1>1, <1>2, <1>3, <1>4, <2>1, <2>2, Unchanged DEF Types
<1> QED BY <1>5, <1>6

LEMMA ThrowE ==
  ASSUME Types, NEW w \in Workers, Throw(w)
  PROVE  /\ Types' /\ SameStripe /\ SameBooks /\ door' = door /\ charge' = charge /\ Others(w)
         /\ work[w].pc \notin {"idle", "failing"} /\ work'[w].pc = "failing"
         /\ work'[w].row = work[w].row /\ work'[w].listing = work[w].listing
<1>1. /\ SameStripe /\ SameBooks /\ door' = door /\ charge' = charge /\ Moves(w, "failing")
      /\ work[w].pc \notin {"idle", "failing"}
  BY DEF Throw, stripe, SameStripe, books, SameBooks
<1>2. "failing" \in Pcs
  BY DEF Pcs
<1>3. /\ work' \in [Workers -> WorkT] /\ Others(w)
      /\ work'[w].pc = "failing" /\ work'[w].row = work[w].row /\ work'[w].listing = work[w].listing
      /\ \A v \in Workers : work'[v].pc = "answered" => work'[v].refund \in Refunds
  BY <1>1, <1>2, MovesE
<1>4. ServerTypes'
  BY <1>1, <1>3 DEF ServerTypes, Types
<1> QED BY <1>1, <1>3, <1>4, Unchanged DEF Types

LEMMA CrashE ==
  ASSUME Types, NEW w \in Workers, Crash(w)
  PROVE  /\ Types' /\ SameStripe /\ SameBooks /\ door' = door /\ charge' = charge /\ Others(w)
         /\ work[w].pc # "idle" /\ work'[w].pc = "idle" /\ work'[w].listing = Nothing
<1>1. /\ SameStripe /\ SameBooks /\ door' = door /\ charge' = charge /\ Stops(w) /\ work[w].pc # "idle"
  BY DEF Crash, stripe, SameStripe, books, SameBooks
<1>3. /\ work' \in [Workers -> WorkT] /\ Others(w) /\ work'[w].pc = "idle" /\ work'[w].listing = Nothing
      /\ \A v \in Workers : work'[v].pc = "answered" => work'[v].refund \in Refunds
  BY <1>1, StopsE
<1>4. ServerTypes'
  BY <1>1, <1>3 DEF ServerTypes, Types
<1> QED BY <1>1, <1>3, <1>4, Unchanged DEF Types

\* The clock and the reaper give a row back.
LEMMA GivesBackE ==
  ASSUME Types, NEW o \in RowIds, ComeDue(o) \/ ResetStale(o)
  PROVE  /\ Types' /\ SameStripe /\ ledger' = ledger /\ recorded' = recorded
         /\ door' = door /\ charge' = charge /\ work' = work /\ Quiet
         /\ rows[o].status \in {"FAILED", "PROCESSING"} /\ rows'[o].status = "FAILED"
         /\ SamePlan(rows'[o], rows[o])
         /\ \A p \in RowIds : p # o => rows'[p] = rows[p]
<1>1. /\ SameStripe /\ ledger' = ledger /\ recorded' = recorded
      /\ door' = door /\ charge' = charge /\ work' = work /\ Quiet
      /\ rows[o].status \in {"FAILED", "PROCESSING"}
  BY DEF ComeDue, ResetStale, IsStale, stripe, SameStripe
<1>2. rows[o] \in RowT /\ rows \in RowsT /\ ledger \in Listings /\ recorded \in [Refunds -> Nat]
  BY DEF Types, BookTypes, RowsT
<1>3. ServerTypes'
  BY <1>1 DEF ServerTypes, Types
<1> DEFINE row == rows[o]
           n1 == [row EXCEPT !.due = TRUE]
           g == GivenUp(row)
           n2 == [g EXCEPT !.due = TRUE]
<1>4. CASE ComeDue(o)
  <2>1. rows' = [rows EXCEPT ![o] = n1] /\ row.status = "FAILED" /\ row \in RowT
    BY <1>2, <1>4 DEF ComeDue
  <2> HIDE DEF row
  <2>2. n1 \in RowT /\ n1.status = "FAILED" /\ SamePlan(n1, row)
    BY <2>1 DEF RowT, SamePlan
  <2> HIDE DEF n1
  <2>3. rows' \in RowsT /\ rows'[o] = n1 /\ \A p \in RowIds : p # o => rows'[p] = rows[p]
    BY <1>2, <2>1, <2>2, Written
  <2>4. BookTypes'
    BY <1>1, <1>2, <2>3 DEF BookTypes
  <2> QED BY <1>1, <1>3, <2>2, <2>3, <2>4, Unchanged DEF Types, row
<1>5. CASE ResetStale(o)
  <2>1. rows' = [rows EXCEPT ![o] = n2] /\ row \in RowT
    BY <1>2, <1>5 DEF ResetStale
  <2> HIDE DEF row
  <2>2. g \in RowT /\ g.status = "FAILED" /\ SamePlan(g, row)
    BY <2>1, GivenUpT DEF SamePlan
  <2> HIDE DEF g
  <2>2a. n2 \in RowT /\ n2.status = "FAILED" /\ SamePlan(n2, row)
    BY <2>2 DEF RowT, SamePlan
  <2> HIDE DEF n2
  <2>3. rows' \in RowsT /\ rows'[o] = n2 /\ \A p \in RowIds : p # o => rows'[p] = rows[p]
    BY <1>2, <2>1, <2>2a, Written
  <2>4. BookTypes'
    BY <1>1, <1>2, <2>3 DEF BookTypes
  <2> QED BY <1>1, <1>3, <2>2a, <2>3, <2>4, Unchanged DEF Types, row
<1> QED BY <1>4, <1>5

-----------------------------------------------------------------------------
LEMMA RecordFailureE ==
  ASSUME Types, NEW r \in Refunds, RecordFailure(r)
  PROVE  /\ Types' /\ SameStripe /\ door' = door /\ charge' = charge /\ work' = work
         /\ status[r] = "failed" /\ Only(r, "failed") \in Listings
         /\ Commit(Recording(Only(r, "failed")))
<1>1. /\ SameStripe /\ door' = door /\ charge' = charge /\ work' = work
      /\ status[r] = "failed" /\ Commit(Recording(Only(r, "failed")))
  BY DEF RecordFailure, stripe, SameStripe
<1>2. Only(r, "failed") \in Listings
  BY OnlyT
<1>3. BookTypes'
  BY <1>1, <1>2, CommitT
<1>4. ServerTypes'
  BY <1>1 DEF ServerTypes, Types
<1> QED BY <1>1, <1>2, <1>3, <1>4, Unchanged DEF Types

LEMMA ListChargeE ==
  ASSUME Types, ListCharge
  PROVE  /\ Types' /\ SameStripe /\ SameBooks /\ door' = door /\ work' = work /\ charge' = status
<1>1. SameStripe /\ SameBooks /\ door' = door /\ work' = work /\ charge' = status
  BY DEF ListCharge, stripe, SameStripe, books, SameBooks
<1>2. ServerTypes'
  BY <1>1 DEF ServerTypes, StripeTypes, Types
<1> QED BY <1>1, <1>2, Unchanged DEF Types

LEMMA RecordChargeE ==
  ASSUME Types, RecordCharge
  PROVE  /\ Types' /\ SameStripe /\ door' = door /\ work' = work /\ charge' = Nothing
         /\ charge \in Listings /\ (Commit(Recording(charge)) \/ SameBooks)
<1>1. /\ SameStripe /\ door' = door /\ work' = work /\ charge' = Nothing
      /\ Commit(Recording(charge)) \/ SameBooks
  BY DEF RecordCharge, stripe, SameStripe, books, SameBooks
<1>2. charge \in Listings
  BY DEF Types, ServerTypes
<1>3. BookTypes'
  BY <1>1, <1>2, CommitT, Unchanged
<1>4. ServerTypes'
  BY <1>1, NothingT DEF ServerTypes, Types
<1> QED BY <1>1, <1>2, <1>3, <1>4, Unchanged DEF Types

-----------------------------------------------------------------------------
(* The types, and the rows that are closed *)

LEMMA InitTypes == Init => Types
<1> SUFFICES ASSUME Init PROVE Types
  OBVIOUS
<1>1. /\ made = 0 /\ 0 \in 0 .. MaxRefunds /\ Door \in RowIds /\ 0 \in 0 .. MaxAttempts
  BY Bounds DEF Init
<1>2. NewRow(0, 0) \in RowT /\ NoRow \in RowT
  BY <1>1, NewRowT, NoRowT
<1>3. rows \in RowsT
  BY <1>2 DEF Init, RowsT
<1>4. work \in [Workers -> WorkT] /\ \A w \in Workers : work[w].pc = "idle"
  BY IdleT DEF Init
<1>5. [row |-> Door, suffix |-> 0] \in [row : RowIds, suffix : Nat]
  BY <1>1
<1>6. key \in [Refunds -> [row : RowIds, suffix : Nat]]
  BY <1>5 DEF Init
<1>7. /\ answer \in Listings /\ status \in Listings /\ ledger \in Listings /\ charge \in Listings
      /\ age \in [Refunds -> {"none", "young", "old", "forgotten"}] /\ recorded \in [Refunds -> Nat]
  BY NothingT DEF Init, Listings
<1>8. door \in DoorT /\ door.pc = "asking"
  BY DEF Init, DoorT
<1> QED BY <1>1, <1>3, <1>4, <1>6, <1>7, <1>8 DEF Types, StripeTypes, BookTypes, ServerTypes

LEMMA StepTypes == Types /\ [Next]_vars => Types'
<1> SUFFICES ASSUME Types, [Next]_vars PROVE Types'
  OBVIOUS
<1>1. ASSUME NEW w \in Workers, Runner(w) PROVE Types'
  BY <1>1, ClaimE, ReadClaimE, ListRefundsE, RecordListingE, MarkListedE, AskE, RecordAnswerE,
     MoveRefusedE, MarkResentE, CompleteE, FailAttemptE DEF Runner
<1>2. ASSUME Progress PROVE Types'
  BY <1>1, <1>2, GivesBackE, DoorAsksE, DoorRecordsE, DoorKeepsOwedE, DoorClosesE, RecordChargeE,
     RecordFailureE DEF Progress
<1>3. ASSUME Next PROVE Types'
  BY <1>2, <1>3, DoorEndsE, ThrowE, CrashE, FailLaterE, AgesE, ListChargeE DEF Next
<1>4. CASE UNCHANGED vars
  BY <1>4 DEF vars, Types, StripeTypes, BookTypes, ServerTypes
<1> QED BY <1>3, <1>4

\* Every variable holds a value of its kind, after every step, and an attempt
\* that was answered knows the refund it was answered with.
THEOREM RefundTypes == Spec => []Types
<1>1. Init => Types
  BY InitTypes
<1>2. Types /\ [Next]_vars => Types'
  BY StepTypes
<1> QED BY <1>1, <1>2, PTL DEF Spec

LEMMA StepCloses ==
  Types /\ [Next]_vars =>
    \A o \in RowIds : rows[o].status = "SUCCEEDED" => rows'[o].status = "SUCCEEDED"
<1> DEFINE Stays == \A o \in RowIds : rows[o].status = "SUCCEEDED" => rows'[o].status = "SUCCEEDED"
<1> SUFFICES ASSUME Types, [Next]_vars PROVE Stays
  OBVIOUS
<1>0. /\ rows \in RowsT /\ made \in 0 .. MaxRefunds /\ Door \in RowIds
      /\ \A o \in RowIds : rows[o] \in RowT
  BY Bounds DEF Types, BookTypes, StripeTypes, RowsT
<1>0a. ASSUME SameBooks PROVE Stays
  BY <1>0a DEF SameBooks
<1>0b. ASSUME NEW listing \in Listings, Commit(Recording(listing)) PROVE Stays
  BY <1>0b, CommitT
<1>0c. \A o \in RowIds : Succeeded(rows[o]).status = "SUCCEEDED"
  BY <1>0, SucceededT
<1>1. ASSUME NEW w \in Workers, Runner(w) PROVE Stays
  <2>1. ASSUME NEW o \in RowIds, Claim(w, o) PROVE Stays
    BY <2>1, ClaimE DEF MayClaim, Claimable
  <2>2. CASE ReadClaim(w)
    BY <2>2, ReadClaimE, <1>0a
  <2>3. CASE ListRefunds(w)
    BY <2>3, ListRefundsE, <1>0a
  <2>4. CASE RecordListing(w)
    <3>1. work[w].listing \in Listings /\ (SameBooks \/ Commit(Recording(work[w].listing)))
      BY <2>4, RecordListingE
    <3> QED BY <3>1, <1>0a, <1>0b
  <2>5. CASE MarkListed(w)
    BY <2>5, MarkListedE DEF SameClaim
  <2>6. CASE Ask(w)
    BY <2>6, AskE, <1>0a
  <2>7. CASE RecordAnswer(w)
    BY <2>7, RecordAnswerE, <1>0b
  <2>8. CASE MoveRefused(w)
    BY <2>8, MoveRefusedE
  <2>9. CASE MarkResent(w)
    BY <2>9, MarkResentE DEF SameClaim
  <2>10. CASE Complete(w)
    BY <2>10, CompleteE, <1>0c
  <2>11. CASE FailAttempt(w)
    BY <2>11, FailAttemptE DEF IsOpen, Unfinished, Claimable
  <2> QED BY <1>1, <2>1, <2>2, <2>3, <2>4, <2>5, <2>6, <2>7, <2>8, <2>9, <2>10, <2>11 DEF Runner
<1>2. CASE Progress
  <2>1. ASSUME NEW o \in RowIds, ResetStale(o) \/ ComeDue(o) PROVE Stays
    BY <2>1, GivesBackE
  <2>2. CASE DoorAsks
    BY <2>2, DoorAsksE, <1>0a
  <2>3. CASE DoorRecords
    BY <2>3, DoorRecordsE, <1>0b
  <2>4. CASE DoorKeepsOwed
    BY <2>4, DoorKeepsOwedE DEF SameClaim
  <2>5. CASE DoorCloses
    BY <2>5, DoorClosesE, <1>0, <1>0c
  <2>6. CASE RecordCharge
    BY <2>6, RecordChargeE, <1>0a, <1>0b
  <2>7. ASSUME NEW r \in Refunds, RecordFailure(r) PROVE Stays
    BY <2>7, RecordFailureE, <1>0b
  <2> QED BY <1>1, <1>2, <2>1, <2>2, <2>3, <2>4, <2>5, <2>6, <2>7 DEF Progress
<1>3. CASE DoorEnds \/ ListCharge \/ (\E w \in Workers : Throw(w) \/ Crash(w))
            \/ (\E r \in Refunds : FailLater(r) \/ Age(r) \/ Forget(r))
  BY <1>3, <1>0a, DoorEndsE, ListChargeE, ThrowE, CrashE, FailLaterE, AgesE
<1>4. CASE UNCHANGED vars
  BY <1>4 DEF vars
<1> QED BY <1>2, <1>3, <1>4 DEF Next

\* A closed row is never reopened: not by an attempt that comes late, not by the
\* reaper, not by the failure of the refund that closed it.
THEOREM ClosedRowsStayClosed == Spec => ClosedStaysClosed
<1>1. Types /\ [Next]_vars =>
        [\A o \in RowIds : rows[o].status = "SUCCEEDED" => rows'[o].status = "SUCCEEDED"]_vars
  BY StepCloses
<1> QED BY <1>1, RefundTypes, PTL DEF Spec, ClosedStaysClosed

-----------------------------------------------------------------------------
(* Which row a refund fills *)

\* A refund that does not count fills nothing.
LEMMA TakeNothing ==
  ASSUME NEW rs, NEW led, NEW fill, NEW r, led[r] # "live"
  PROVE  Take(rs, led, fill, r) = fill
  BY DEF Take

LEMMA PlaceNothing ==
  ASSUME NEW rs, NEW led, NEW order, NEW fill, NEW i,
         \A q \in Refunds : order[q] = i => led[q] # "live"
  PROVE  Place(rs, led, order, fill, i) = fill
<1>1. CASE \E q \in Refunds : order[q] = i
  <2> DEFINE q == CHOOSE q \in Refunds : order[q] = i
  <2>1. q \in Refunds /\ order[q] = i
    BY <1>1
  <2>2. Place(rs, led, order, fill, i) = Take(rs, led, fill, q)
    BY <1>1 DEF Place
  <2> HIDE DEF q
  <2> QED BY <2>1, <2>2, TakeNothing
<1>2. CASE ~ \E q \in Refunds : order[q] = i
  BY <1>2 DEF Place
<1> QED BY <1>1, <1>2

\* Without a refund that counts, the marks are all.
LEMMA FillsMarked ==
  ASSUME NEW rs \in RowsT, NEW led, NEW order, NEW handed, \A q \in Refunds : led[q] # "live"
  PROVE  Fills(rs, led, order, handed) = Marked(rs, led, handed)
<1>1. PICK fill \in [0 .. MaxRefunds -> Slices] :
           /\ fill[0] = Marked(rs, led, handed)
           /\ \A i \in 1 .. MaxRefunds : fill[i] = Place(rs, led, order, fill[i - 1], i)
           /\ Fills(rs, led, order, handed) = fill[MaxRefunds]
  BY FillsSteps
<1> DEFINE T == {i \in 0 .. MaxRefunds : fill[i] = Marked(rs, led, handed)}
<1>2. 0 \in T
  BY <1>1, Bounds
<1>3. ASSUME NEW i \in 0 .. MaxRefunds - 1, i \in T PROVE i + 1 \in T
  <2>1. i + 1 \in 1 .. MaxRefunds /\ i + 1 \in 0 .. MaxRefunds /\ (i + 1) - 1 = i
    BY Bounds
  <2>2. fill[i + 1] = Place(rs, led, order, fill[i], i + 1)
    BY <1>1, <2>1
  <2>3. fill[i + 1] = fill[i]
    BY <2>2, PlaceNothing
  <2> QED BY <1>3, <2>1, <2>3
<1>4. MaxRefunds \in T
  <2>1. MaxRefunds \in Nat /\ MaxRefunds \in 0 .. MaxRefunds
    BY Bounds
  <2> HIDE DEF T
  <2>2. \A i \in 0 .. MaxRefunds : i \in T
    BY <1>2, <1>3, <2>1, SetInduction
  <2> QED BY <2>1, <2>2
<1> QED BY <1>1, <1>4

\* The one refund that counts fills the newest row, when that is open, and no other.
LEMMA FillsLatest ==
  ASSUME NEW rs \in RowsT, NEW led, NEW order, NEW handed, NEW r \in Refunds, NEW cur \in RowIds,
         led[r] = "live", \A q \in Refunds : q # r => led[q] # "live",
         order[r] \in 1 .. MaxRefunds, \A q \in Refunds : order[q] = order[r] => q = r,
         r \notin handed, NoRefund \notin handed,
         cur \in Existing(rs), rs[cur].status # "SUCCEEDED", rs[cur].made \in {NoRefund, r},
         rs[cur].born < r,
         \A p \in Existing(rs) : p # cur => rs[p].nth < rs[cur].nth,
         \A p \in RowIds : p # cur => rs[p].made # r
  PROVE  \A o \in RowIds : Fills(rs, led, order, handed)[o] = r <=> o = cur
<1> DEFINE mark == Marked(rs, led, handed)
           full == [mark EXCEPT ![cur] = r]
<1>1. PICK fill \in [0 .. MaxRefunds -> Slices] :
           /\ fill[0] = mark
           /\ \A i \in 1 .. MaxRefunds : fill[i] = Place(rs, led, order, fill[i - 1], i)
           /\ Fills(rs, led, order, handed) = fill[MaxRefunds]
  BY FillsSteps
<1>2. mark \in Slices /\ NoRefund \notin Refunds
  BY MarkedType, Bounds
<1>3. \A o \in RowIds : mark[o] = r <=> rs[o].made = r
  BY <1>2 DEF Marked
<1>4. \A o \in RowIds : o # cur => mark[o] # r
  BY <1>3
<1>5. rs[cur].made = NoRefund => mark[cur] = NoRefund
  BY DEF Marked
<1> HIDE DEF mark
<1>6. \A o \in RowIds : full[o] = r <=> o = cur
  BY <1>2, <1>4 DEF Slices
<1>7. ASSUME NEW i \in 1 .. MaxRefunds, i # order[r] PROVE fill[i] = fill[i - 1]
  <2>1. \A q \in Refunds : order[q] = i => led[q] # "live"
    BY <1>7
  <2> QED BY <1>1, <2>1, PlaceNothing
<1>8. fill[order[r]] = Take(rs, led, fill[order[r] - 1], r)
  <2>1. (CHOOSE q \in Refunds : order[q] = order[r]) = r
    OBVIOUS
  <2>2. fill[order[r]] = Place(rs, led, order, fill[order[r] - 1], order[r])
    BY <1>1
  <2> QED BY <2>1, <2>2 DEF Place
<1>9. CASE rs[cur].made = r
  <2>1. \A f : Take(rs, led, f, r) = f
    BY <1>9 DEF Take
  <2>2. ASSUME NEW i \in 1 .. MaxRefunds PROVE fill[i] = fill[i - 1]
    BY <1>7, <1>8, <2>1
  <2> DEFINE T == {i \in 0 .. MaxRefunds : fill[i] = mark}
  <2>3. 0 \in T
    BY <1>1, Bounds
  <2>4. ASSUME NEW i \in 0 .. MaxRefunds - 1, i \in T PROVE i + 1 \in T
    <3>1. i + 1 \in 1 .. MaxRefunds /\ i + 1 \in 0 .. MaxRefunds /\ (i + 1) - 1 = i
      BY Bounds
    <3> QED BY <2>2, <2>4, <3>1
  <2>5. MaxRefunds \in T
    <3>1. MaxRefunds \in Nat /\ MaxRefunds \in 0 .. MaxRefunds
      BY Bounds
    <3> HIDE DEF T
    <3>2. \A i \in 0 .. MaxRefunds : i \in T
      BY <2>3, <2>4, <3>1, SetInduction
    <3> QED BY <3>1, <3>2
  <2>6. Fills(rs, led, order, handed) = mark
    BY <1>1, <2>5
  <2> QED BY <1>3, <1>4, <1>9, <2>6
<1>10. CASE rs[cur].made = NoRefund
  <2>1. Take(rs, led, mark, r) = full
    <3> DEFINE takers == Takers(rs, mark, r)
    <3>1. cur \in takers
      BY <1>5, <1>10 DEF Takers
    <3>2. takers \subseteq Existing(rs) /\ \A p \in Existing(rs) : rs[p].nth \in Nat
      BY DEF Takers, Existing, RowsT, RowT
    <3>3. ~ \E o \in RowIds : rs[o].made = r
      BY <1>2, <1>10
    <3> HIDE DEF takers
    <3>4. (CHOOSE o \in takers : \A p \in takers : rs[p].nth <= rs[o].nth) = cur
      <4>1. \A p \in takers : rs[p].nth <= rs[cur].nth
        BY <3>1, <3>2
      <4>2. \A o \in takers : (\A p \in takers : rs[p].nth <= rs[o].nth) => o = cur
        <5> SUFFICES ASSUME NEW o \in takers, \A p \in takers : rs[p].nth <= rs[o].nth, o # cur PROVE FALSE
          OBVIOUS
        <5>1. rs[cur].nth <= rs[o].nth /\ rs[o].nth < rs[cur].nth
          BY <3>1, <3>2
        <5> QED BY <5>1, <3>1, <3>2
      <4>3. \E o \in takers : \A p \in takers : rs[p].nth <= rs[o].nth
        BY <3>1, <4>1
      <4> QED BY <4>2, <4>3, Zenon
    <3>5. takers # {}
      BY <3>1
    <3> QED BY <3>3, <3>4, <3>5, Zenon DEF Take, takers
  <2> DEFINE T == {i \in 0 .. MaxRefunds : fill[i] = IF i < order[r] THEN mark ELSE full}
  <2> HIDE DEF full
  <2>3. 0 \in T
    BY <1>1, Bounds
  <2>4. ASSUME NEW i \in 0 .. MaxRefunds - 1, i \in T PROVE i + 1 \in T
    <3>1. i + 1 \in 1 .. MaxRefunds /\ i + 1 \in 0 .. MaxRefunds /\ (i + 1) - 1 = i
      BY Bounds
    <3>2. CASE i + 1 = order[r]
      <4>1. fill[i] = mark
        BY <2>4, <3>1, <3>2
      <4>2. order[r] - 1 = i
        BY <3>1, <3>2
      <4>3. fill[i + 1] = full
        BY <1>8, <2>1, <3>2, <4>1, <4>2
      <4> QED BY <3>1, <3>2, <4>3
    <3>3. CASE i + 1 # order[r]
      <4>1. fill[i + 1] = fill[i]
        BY <1>7, <3>1, <3>3
      <4>2. i < order[r] <=> i + 1 < order[r]
        BY <3>1, <3>3
      <4> QED BY <2>4, <3>1, <4>1, <4>2
    <3> QED BY <3>2, <3>3
  <2>5. MaxRefunds \in T
    <3>1. MaxRefunds \in Nat /\ MaxRefunds \in 0 .. MaxRefunds
      BY Bounds
    <3> HIDE DEF T
    <3>2. \A i \in 0 .. MaxRefunds : i \in T
      BY <2>3, <2>4, <3>1, SetInduction
    <3> QED BY <3>1, <3>2
  <2>6. Fills(rs, led, order, handed) = full
    BY <1>1, <2>5, Bounds
  <2> QED BY <1>6, <2>6
<1> QED BY <1>9, <1>10

LEMMA FilledByLatest ==
  ASSUME NEW rs \in RowsT, NEW led, NEW order, NEW r \in Refunds, NEW cur \in RowIds,
         led \in Listings, \A q \in Refunds : q # r => led[q] # "live",
         order[r] \in 1 .. MaxRefunds, \A q \in Refunds : order[q] = order[r] => q = r,
         rs[r] = NoRow,
         cur \in Existing(rs), rs[cur].status # "SUCCEEDED", rs[cur].made \in {NoRefund, r},
         rs[cur].born < r,
         \A p \in Existing(rs) : p # cur => rs[p].nth < rs[cur].nth,
         \A p \in RowIds : p # cur => rs[p].made # r
  PROVE  FilledBy(rs, led, order, r) = {cur}
<1> DEFINE before == [rs EXCEPT ![r] = NoRow]
           led2 == [led EXCEPT ![r] = "live"]
<1>1. before = rs
  BY Bounds DEF RowsT
<1>2. led2[r] = "live" /\ \A q \in Refunds : q # r => led2[q] # "live"
  BY DEF Listings
<1>3. r \notin HandedOver(rs) /\ NoRefund \notin HandedOver(rs)
  BY NoRowT DEF HandedOver, Existing, Door, NoRefund
<1> HIDE DEF led2
<1>4. \A o \in RowIds : Fills(rs, led2, order, HandedOver(rs))[o] = r <=> o = cur
  BY <1>2, <1>3, FillsLatest
<1>5. FilledBy(rs, led, order, r) = {o \in Existing(rs) : Fills(rs, led2, order, HandedOver(rs))[o] = r}
  BY <1>1 DEF FilledBy, led2
<1>6. Existing(rs) \subseteq RowIds
  BY DEF Existing
<1> QED BY <1>4, <1>5, <1>6

-----------------------------------------------------------------------------
(* What the books tell *)

LEMMA OpenRow ==
  ASSUME NEW row \in RowT
  PROVE  /\ IsOpen(row) <=> row.status # "NONE" /\ row.status # "SUCCEEDED"
         /\ row.status = "PROCESSING" => IsOpen(row) /\ Held(row)
         /\ IsUntouched(row) => IsOpen(row) /\ Held(row)
         /\ MayClaim(row) => IsOpen(row)
BY DEF RowT, Statuses, IsOpen, Unfinished, Claimable, Held, IsUntouched, MayClaim

LEMMA OpenIsLatest ==
  ASSUME Types, RowsInTurn, NEW o \in RowIds, IsOpen(rows[o])
  PROVE  Latest(o) /\ Exists(o)
<1>1. \A p \in RowIds : rows[p] \in RowT
  BY DEF Types, BookTypes, RowsT
<1>2. Exists(o) /\ rows[o].status # "SUCCEEDED"
  BY <1>1, OpenRow DEF Exists
<1>3. ASSUME NEW p \in RowIds, Exists(p) PROVE p <= o
  <2>1. o \in Nat /\ p \in Nat
    BY Bounds
  <2> QED BY <1>2, <1>3, <2>1 DEF RowsInTurn
<1> QED BY <1>2, <1>3 DEF Latest

LEMMA LatestIsOne ==
  ASSUME NEW o \in RowIds, NEW p \in RowIds, Latest(o), Latest(p)
  PROVE  o = p
<1>1. o <= p /\ p <= o
  BY DEF Latest
<1>2. o \in Nat /\ p \in Nat
  BY Bounds
<1> QED BY <1>1, <1>2

\* A row that is open is the one the last refund was asked for by, or has come of its failure.
LEMMA OpenAsked ==
  ASSUME Types, RowsInTurn, KeysInTurn, made > 0, NEW o \in RowIds, IsOpen(rows[o])
  PROVE  /\ made \in Refunds /\ made \in RowIds /\ key[made].row \in RowIds
         /\ ~Exists(made) => o = key[made].row
         /\ Exists(made) => o = made
         /\ key[made].row = o => ~Exists(made)
<1>1. made \in Refunds /\ made \in RowIds /\ key[made].row \in RowIds /\ made \in Nat
  BY Bounds DEF Types, StripeTypes, Refunds
<1>2. Latest(o)
  BY OpenIsLatest
<1>3. ASSUME ~Exists(made) PROVE o = key[made].row
  BY <1>1, <1>2, <1>3, LatestIsOne DEF KeysInTurn
<1>4. ASSUME Exists(made) PROVE o = made
  <2>1. o <= made /\ made <= o
    BY <1>1, <1>2, <1>4 DEF Latest, RowsInTurn
  <2> QED BY <2>1, <1>1, Bounds
<1>5. key[made].row < made
  BY <1>1 DEF KeysInTurn
<1>6. key[made].row = o => o # made
  BY <1>1, <1>5, Bounds
<1> QED BY <1>1, <1>3, <1>4, <1>6

-----------------------------------------------------------------------------
(* What a recording does *)

\* A recording judges the last refund only.
Verdict(listing) == IF made = 0 THEN Start ELSE Judged(listing, Start, made)

LEMMA RecordingVerdict ==
  ASSUME Types, RefundsInTurn, NEW listing \in Listings, Read(listing), Seen(listing)
  PROVE  /\ Recording(listing).rows = Verdict(listing).rows
         /\ Recording(listing).refused = Verdict(listing).refused
         /\ Recording(listing).threw = Verdict(listing).threw
<1>0. /\ made \in 0 .. MaxRefunds /\ rows \in RowsT /\ MaxRefunds \in Nat
      /\ Refunds = 1 .. MaxRefunds
  BY Bounds DEF Types, StripeTypes, BookTypes, Refunds
<1>1. PICK d \in [0 .. MaxRefunds -> Decisions] :
           /\ d[0] = Start
           /\ \A i \in 1 .. MaxRefunds : d[i] = Judged(listing, d[i - 1], i)
           /\ Recording(listing).rows = d[MaxRefunds].rows
           /\ Recording(listing).refused = d[MaxRefunds].refused
           /\ Recording(listing).threw = d[MaxRefunds].threw
  BY <1>0, RecordingSteps
<1>2. ASSUME NEW i \in Refunds, i < made PROVE Judged(listing, Start, i) = Start
  <2>1. CASE i \notin FailedLater(listing)
    BY <2>1 DEF Judged
  <2>2. CASE i \in FailedLater(listing)
    <3>1. ledger[i] = "failed"
      BY <1>2 DEF RefundsInTurn
    <3>2. listing[i] = "live"
      BY <2>2, <3>1 DEF FailedLater
    <3>3. rows[i].status # "NONE"
      BY <1>2, <3>2 DEF Seen, Exists
    <3>4. Owed(Start.rows, i)
      BY <3>3 DEF Owed, Start
    <3> QED BY <2>2, <3>4, DecideOwed DEF Judged
  <2> QED BY <2>1, <2>2
<1>3. ASSUME NEW i \in Refunds, i > made, NEW acc PROVE Judged(listing, acc, i) = acc
  <2>1. ledger[i] = "none"
    BY <1>3 DEF RefundsInTurn
  <2> QED BY <2>1 DEF Judged, FailedLater
<1> DEFINE T == {i \in 0 .. MaxRefunds : IF i < made THEN d[i] = Start ELSE d[i] = Verdict(listing)}
<1>4. 0 \in T
  BY <1>0, <1>1 DEF Verdict
<1>5. ASSUME NEW i \in 0 .. MaxRefunds - 1, i \in T PROVE i + 1 \in T
  <2>1. i + 1 \in Refunds /\ i + 1 \in 0 .. MaxRefunds /\ (i + 1) - 1 = i /\ i \in Nat
    BY <1>0
  <2>2. d[i + 1] = Judged(listing, d[i], i + 1)
    BY <1>0, <1>1, <2>1
  <2>3. CASE i + 1 < made
    BY <1>0, <1>2, <1>5, <2>1, <2>2, <2>3
  <2>4. CASE i + 1 = made
    <3>1. d[i] = Start /\ made # 0
      BY <1>0, <1>5, <2>1, <2>4
    <3>2. d[i + 1] = Verdict(listing)
      BY <2>2, <2>4, <3>1 DEF Verdict
    <3> QED BY <1>0, <2>1, <2>4, <3>2
  <2>5. CASE i + 1 > made
    <3>1. d[i] = Verdict(listing)
      BY <1>0, <1>5, <2>1, <2>5
    <3>2. d[i + 1] = Verdict(listing)
      BY <1>3, <2>1, <2>2, <2>5, <3>1
    <3> QED BY <1>0, <2>1, <2>5, <3>2
  <2> QED BY <1>0, <2>1, <2>3, <2>4, <2>5
<1> HIDE DEF T
<1>6. MaxRefunds \in T
  <2>1. \A i \in 0 .. MaxRefunds - 1 : i \in T => i + 1 \in T
    BY <1>5
  <2>2. \A i \in 0 .. MaxRefunds : i \in T
    BY <1>0, <1>4, <2>1, SetInduction
  <2> QED BY <1>0, <2>2
<1>7. d[MaxRefunds] = Verdict(listing)
  <2>1. ~(MaxRefunds < made)
    BY <1>0
  <2> QED BY <1>6, <2>1 DEF T
<1> QED BY <1>1, <1>7

\* The outcomes of a recording that commits: the rows are as they were, ...
Keeps(listing) ==
  /\ rows' = rows /\ Recording(listing).refused = {}
  /\ made > 0 /\ ledger[made] = "live" => listing[made] # "failed"
  /\ made > 0 /\ ledger[made] = "failed" /\ listing[made] = "live" =>
       Exists(made) \/ \E o \in RowIds : IsOpen(rows[o]) /\ made \in rows[o].failed

\* ... the open row takes the failed refund over, ...
Replans(listing) ==
  /\ Recording(listing).refused = {}
  /\ made > 0 /\ made \in FailedLater(listing) /\ ~Exists(made)
  /\ IsOpen(rows[key[made].row]) /\ ~Held(rows[key[made].row])
  /\ made \notin rows[key[made].row].failed
  /\ rows'[key[made].row] = Replanned(rows[key[made].row], made)
  /\ \A o \in RowIds : o # key[made].row => rows'[o] = rows[o]

\* ... a row of its own does, ...
Raises(listing) ==
  /\ Recording(listing).refused = {}
  /\ made > 0 /\ ledger[made] = "live" /\ listing[made] = "failed" /\ ~Exists(made)
  /\ \A o \in RowIds : ~IsOpen(rows[o])
  /\ rows'[made] = NewRow(Cardinality(Existing(rows)), NewAttempts(made))
  /\ \A o \in RowIds : o # made => rows'[o] = rows[o]

\* ... or an attempt that holds the open row is told the refund was refused.
Refuses(listing) ==
  /\ rows' = rows /\ Recording(listing).refused = {made}
  /\ made > 0 /\ ledger[made] = "failed" /\ listing[made] = "live" /\ ~Exists(made)
  /\ IsOpen(rows[key[made].row]) /\ Held(rows[key[made].row])
  /\ made \notin rows[key[made].row].failed

LEMMA NothingFresh ==
  ASSUME Types, RefundsInTurn, NEW listing \in Listings, Read(listing), made > 0, ledger[made] # "none"
  PROVE  Fresh(listing) = {} /\ Ordered(listing) = recorded
<1>1. /\ made \in 0 .. MaxRefunds /\ Refunds = 1 .. MaxRefunds /\ recorded \in [Refunds -> Nat]
  BY DEF Types, StripeTypes, BookTypes, Refunds
<1>2. ASSUME NEW r \in Fresh(listing) PROVE FALSE
  <2>1. r \in Refunds /\ listing[r] # "none" /\ ledger[r] = "none"
    BY <1>2 DEF Fresh
  <2>2. r <= made /\ ~(r < made)
    BY <2>1 DEF Read, RefundsInTurn
  <2>3. r = made
    BY <1>1, <2>1, <2>2
  <2> QED BY <2>1, <2>3
<1>3. Fresh(listing) = {}
  BY <1>2
<1>4. Ordered(listing) = [r \in Refunds |-> recorded[r]]
  BY <1>3 DEF Ordered
<1> QED BY <1>1, <1>3, <1>4

\* The open row is the owner of the last refund.
LEMMA OwnerIsOpen ==
  ASSUME Types, RefundsInTurn, RowsInTurn, NotesHold, KeysInTurn, NEW listing \in Listings, Read(listing),
         made > 0, made \in FailedLater(listing), ~Exists(made), NEW o \in RowIds, IsOpen(rows[o])
  PROVE  Owner(Listed(listing), Ordered(listing), rows, made) = {o} /\ o = key[made].row
<1> DEFINE led == Listed(listing)
<1>1. /\ made \in Refunds /\ made \in RowIds /\ o = key[made].row
  BY OpenAsked
<1>2. /\ made \in 1 .. MaxRefunds /\ rows \in RowsT /\ ledger \in Listings /\ rows[o] \in RowT
      /\ key[made].row < made /\ Refunds = 1 .. MaxRefunds
      /\ \A p \in RowIds : rows[p] \in RowT
  BY <1>1 DEF Types, BookTypes, RowsT, Refunds, KeysInTurn
<1>3. ledger[made] # "none"
  BY DEF FailedLater
<1>4. Ordered(listing) = recorded /\ recorded[made] = made
  BY <1>1, <1>3, NothingFresh DEF RefundsInTurn
<1>5. \A q \in Refunds : recorded[q] = made => q = made
  BY <1>2, Bounds DEF RefundsInTurn
<1>6. led \in Listings /\ \A q \in Refunds : q # made => led[q] # "live"
  <2>1. ASSUME NEW q \in Refunds, q # made PROVE led[q] # "live"
    <3>1. CASE q < made
      BY <1>2, <3>1, ListedT DEF RefundsInTurn
    <3>2. CASE q > made
      <4>1. ledger[q] = "none" /\ listing[q] = "none"
        BY <1>2, <3>2 DEF RefundsInTurn, Read
      <4> QED BY <1>2, <4>1, ListedT
    <3> QED BY <1>2, <2>1, <3>1, <3>2
  <2> QED BY <1>2, <2>1, ListedT
<1>7. rows[made] = NoRow
  BY <1>1 DEF RowsInTurn
<1>8. Latest(o) /\ Exists(o) /\ rows[o].status # "SUCCEEDED"
  BY <1>2, OpenIsLatest, OpenRow
<1>9. rows[o].made \in {NoRefund, made} /\ rows[o].born < made
  <2>1. rows[o].born = o
    BY <1>8 DEF RowsInTurn
  <2> QED BY <1>1, <1>2, <2>1 DEF NotesHold
<1>10. ASSUME NEW p \in RowIds, p # o PROVE rows[p].made # made /\ (p \in Existing(rows) => rows[p].nth < rows[o].nth)
  <2>1. rows[p].made # made
    BY <1>1, <1>2, <1>10, Bounds DEF NotesHold
  <2>2. ASSUME Exists(p) PROVE rows[p].nth < rows[o].nth
    <3>1. p < o
      BY <1>8, <1>10, <2>2, Bounds DEF Latest
    <3> QED BY <1>8, <2>2, <3>1 DEF RowsInTurn
  <2> QED BY <2>1, <2>2 DEF Existing, Exists
<1>11. FilledBy(rows, led, recorded, made) = {o}
  <2>1. o \in Existing(rows) /\ \A p \in Existing(rows) : p # o => rows[p].nth < rows[o].nth
    BY <1>8, <1>10 DEF Existing, Exists
  <2>2. \A p \in RowIds : p # o => rows[p].made # made
    BY <1>10
  <2>3. recorded[made] \in 1 .. MaxRefunds /\ \A q \in Refunds : recorded[q] = recorded[made] => q = made
    BY <1>2, <1>4, <1>5
  <2> HIDE DEF led
  <2>4. rows \in RowsT /\ made \in Refunds /\ led \in Listings /\ rows[o].status # "SUCCEEDED"
    BY <1>1, <1>2, <1>6, <1>8
  <2>5. \A q \in Refunds : q # made => led[q] # "live"
    BY <1>6
  <2>6. recorded[made] \in 1 .. MaxRefunds
    BY <2>3
  <2>7. \A q \in Refunds : recorded[q] = recorded[made] => q = made
    BY <2>3
  <2>8. o \in Existing(rows)
    BY <2>1
  <2>9. \A p \in Existing(rows) : p # o => rows[p].nth < rows[o].nth
    BY <2>1
  <2>10. rows[o].made \in {NoRefund, made}
    BY <1>9
  <2>11. rows[o].born < made
    BY <1>9
  <2> QED BY <1>7, <2>2, <2>4, <2>5, <2>6, <2>7, <2>8, <2>9, <2>10, <2>11, FilledByLatest
<1>12. OpenRows(rows) = {o}
  <2>1. ASSUME NEW p \in OpenRows(rows) PROVE p = o
    <3>1. p \in RowIds /\ IsOpen(rows[p])
      BY DEF OpenRows, Existing
    <3> QED BY <1>8, <3>1, OpenIsLatest, LatestIsOne
  <2>2. o \in OpenRows(rows)
    BY <1>8 DEF OpenRows, Existing, Exists
  <2> QED BY <2>1, <2>2
<1>13. SentByRow(o, made)
  BY <1>1 DEF SentByRow
<1> QED BY <1>1, <1>4, <1>11, <1>12, <1>13 DEF Owner

LEMMA CommitE ==
  ASSUME Types, BooksInv, NEW listing \in Listings, Read(listing), Seen(listing),
         Commit(Recording(listing))
  PROVE  Keeps(listing) \/ Replans(listing) \/ Raises(listing) \/ Refuses(listing)
<1>1. /\ made \in Nat /\ rows \in RowsT /\ RefundsInTurn /\ RowsInTurn /\ NotesHold /\ KeysInTurn /\ Debt
      /\ \A o \in RowIds : rows[o] \in RowT
      /\ ledger \in Listings
  BY Bounds DEF Types, StripeTypes, BookTypes, BooksInv, RowsT
<1>2. /\ rows' = Verdict(listing).rows
      /\ Recording(listing).refused = Verdict(listing).refused
      /\ ~Verdict(listing).threw
  BY <1>1, RecordingVerdict, CommitT
<1>3. ASSUME Verdict(listing) = Start PROVE rows' = rows /\ Recording(listing).refused = {}
  BY <1>2, <1>3 DEF Start
<1>4. CASE made = 0
  BY <1>3, <1>4 DEF Verdict, Keeps
<1>5. CASE made > 0
  <2>1. made \in Refunds /\ made \in RowIds /\ key[made].row \in RowIds
    BY <1>5, Bounds DEF Types, StripeTypes, Refunds
  <2>2. Verdict(listing) = Judged(listing, Start, made)
    BY <1>1, <1>5 DEF Verdict
  <2>3. CASE made \notin FailedLater(listing)
    <3>1. Verdict(listing) = Start
      BY <2>2, <2>3 DEF Judged
    <3> QED BY <1>3, <2>1, <2>3, <3>1 DEF Keeps, FailedLater
  <2>4. CASE made \in FailedLater(listing) /\ Owed(rows, made)
    <3>1. Verdict(listing) = Start
      BY <2>2, <2>4, DecideOwed DEF Judged, Start
    <3>2. Exists(made) \/ \E o \in RowIds : IsOpen(rows[o]) /\ made \in rows[o].failed
      BY <2>4 DEF Owed, Exists, OpenRows, Existing
    <3>3. ledger[made] = "failed"
      BY <2>1, <1>1, <3>2 DEF RowsInTurn, NotesHold
    <3> QED BY <1>3, <3>1, <3>2, <3>3 DEF Keeps
  <2>5. CASE made \in FailedLater(listing) /\ ~Owed(rows, made)
    <3> DEFINE led == Listed(listing)
               order == Ordered(listing)
               o == Chosen(led, order, rows, made)
    <3>1. Start \in AccT /\ Start.rows = rows /\ Start.refused = {} /\ Start.threw = FALSE
      BY <1>1 DEF Start, AccT
    <3>2. Verdict(listing) = Decide(led, order, Start, made) /\ Undecided(Start.rows, Start, made)
      BY <2>2, <2>5, <3>1 DEF Judged, Undecided
    <3>3. ~Exists(made) /\ \A p \in RowIds : IsOpen(rows[p]) => made \notin rows[p].failed
      BY <1>1, <2>5, OpenRow DEF Owed, Exists, OpenRows, Existing
    <3>4. CASE \E p \in RowIds : IsOpen(rows[p])
      <4>1. PICK p \in RowIds : IsOpen(rows[p])
        BY <3>4
      <4>2. Owner(led, order, rows, made) = {p} /\ p = key[made].row
        BY <1>1, <1>5, <2>5, <3>3, <4>1, OwnerIsOpen
      <4>3. o = p
        BY <4>2 DEF Chosen
      <4> HIDE DEF led, order, o
      <4>4. CASE ~Held(rows[p])
        <5>1. Decide(led, order, Start, made) =
                [rows |-> [rows EXCEPT ![p] = Replanned(rows[p], made)], refused |-> {}, threw |-> FALSE]
          <6>1. Chosen(led, order, Start.rows, made) = p /\ Owner(led, order, Start.rows, made) # {}
            <7>1. Start.rows = rows
              BY <3>1
            <7>2. Chosen(led, order, rows, made) = p /\ Owner(led, order, rows, made) # {}
              BY <4>2, <4>3 DEF o
            <7> QED BY <7>1, <7>2
          <6>2. ~Held(Start.rows[Chosen(led, order, Start.rows, made)])
            BY <3>1, <4>4, <6>1
          <6>3. Start \in AccT /\ Undecided(Start.rows, Start, made)
            BY <3>1, <3>2
          <6>4. Decide(led, order, Start, made) =
                  [rows |-> [Start.rows EXCEPT ![Chosen(led, order, Start.rows, made)] =
                               Replanned(Start.rows[Chosen(led, order, Start.rows, made)], made)],
                   refused |-> Start.refused, threw |-> FALSE]
            BY <6>1, <6>2, <6>3, DecideReplans, Zenon
          <6> QED BY <3>1, <6>1, <6>4
        <5>2. /\ rows' = [rows EXCEPT ![p] = Replanned(rows[p], made)] /\ Recording(listing).refused = {}
          BY <1>2, <3>2, <5>1
        <5>3. /\ rows'[p] = Replanned(rows[p], made)
              /\ \A q \in RowIds : q # p => rows'[q] = rows[q]
          BY <1>1, <4>1, <5>2 DEF RowsT
        <5> QED BY <1>5, <2>5, <3>3, <4>1, <4>2, <4>4, <5>2, <5>3 DEF Replans
      <4>5. CASE Held(rows[p]) /\ ledger[made] = "failed"
        <5>1. Decide(led, order, Start, made) = Refusing(Start, made)
          BY <2>1, <3>1, <3>2, <4>2, <4>3, <4>5, DecideRefuses DEF o
        <5>2. rows' = rows /\ Recording(listing).refused = {made}
          BY <1>2, <3>1, <3>2, <5>1 DEF Refusing
        <5>3. listing[made] = "live"
          BY <2>5, <4>5 DEF FailedLater
        <5> QED BY <1>5, <3>3, <4>1, <4>2, <4>5, <5>2, <5>3 DEF Refuses
      <4>6. CASE Held(rows[p]) /\ ledger[made] # "failed"
        <5>1. Decide(led, order, Start, made) = [rows |-> rows, refused |-> {}, threw |-> TRUE]
          BY <3>1, <3>2, <4>2, <4>3, <4>6, DecideThrows DEF o
        <5> QED BY <1>2, <3>2, <5>1
      <4> QED BY <4>4, <4>5, <4>6
    <3>5. CASE \A p \in RowIds : ~IsOpen(rows[p])
      <4>1. OpenRows(rows) = {}
        BY <3>5 DEF OpenRows, Existing
      <4>2. Owner(led, order, rows, made) = {}
        BY <4>1 DEF Owner
      <4> HIDE DEF led, order
      <4>3. Decide(led, order, Start, made) =
           [rows |-> [rows EXCEPT ![made] = NewRow(Cardinality(Existing(rows)), NewAttempts(made))],
            refused |-> {}, threw |-> FALSE]
        <5>1. Owner(led, order, Start.rows, made) = {}
          BY <3>1, <4>2
        <5>2. Start \in AccT /\ Undecided(Start.rows, Start, made)
          BY <3>1, <3>2
        <5>3. Decide(led, order, Start, made) =
                [rows |-> [Start.rows EXCEPT ![made] = NewRow(Cardinality(Existing(Start.rows)), NewAttempts(made))],
                 refused |-> Start.refused, threw |-> FALSE]
          BY <5>1, <5>2, DecideRaises, Zenon
        <5> QED BY <3>1, <5>3
      <4>4. /\ rows' = [rows EXCEPT ![made] = NewRow(Cardinality(Existing(rows)), NewAttempts(made))]
            /\ Recording(listing).refused = {}
        BY <1>2, <3>2, <4>3
      <4>5. /\ rows'[made] = NewRow(Cardinality(Existing(rows)), NewAttempts(made))
            /\ \A q \in RowIds : q # made => rows'[q] = rows[q]
        BY <1>1, <2>1, <4>4 DEF RowsT
      <4>6. ledger[made] = "live" /\ listing[made] = "failed"
        BY <1>1, <2>5, <3>5 DEF FailedLater, Debt
      <4> QED BY <1>5, <3>3, <3>5, <4>4, <4>5, <4>6 DEF Raises
    <3> QED BY <3>4, <3>5
  <2> QED BY <2>3, <2>4, <2>5
<1> QED BY <1>1, <1>4, <1>5

-----------------------------------------------------------------------------
(* A recording keeps the books in order *)

LEMMA RecordingRefunds ==
  ASSUME Types, RefundsInTurn, NEW listing \in Listings, Read(listing), Commit(Recording(listing)), SameStripe
  PROVE  /\ RefundsInTurn'
         /\ made > 0 => ledger'[made] = IF listing[made] = "none" \/ ledger[made] = "failed"
                                        THEN ledger[made] ELSE listing[made]
         /\ \A r \in Refunds : ledger[r] = "failed" => ledger'[r] = "failed"
<1>1. /\ made \in 0 .. MaxRefunds /\ Refunds = 1 .. MaxRefunds /\ recorded \in [Refunds -> Nat]
      /\ ledger \in Listings /\ MaxRefunds \in Nat
      /\ ledger' = Listed(listing) /\ recorded' = Ordered(listing)
  BY CommitT, Bounds DEF Types, StripeTypes, BookTypes, Refunds
<1>2. \A r \in Refunds : ledger'[r] = IF listing[r] = "none" \/ ledger[r] = "failed" THEN ledger[r] ELSE listing[r]
  BY <1>1, ListedT
<1>3. ASSUME NEW r \in Refunds, r # made PROVE ledger'[r] = ledger[r]
  <2>1. CASE r < made
    BY <1>2, <2>1 DEF RefundsInTurn
  <2>2. CASE r > made
    <3>1. listing[r] = "none"
      BY <1>1, <2>2 DEF Read
    <3> QED BY <1>2, <3>1
  <2> QED BY <1>1, <1>3, <2>1, <2>2
<1>4. ASSUME NEW r \in Refunds, ledger'[r] = "failed" PROVE status[r] = "failed"
  BY <1>2, <1>4 DEF RefundsInTurn, Read, Listings
<1>5. ASSUME NEW r \in Refunds PROVE recorded'[r] = IF ledger'[r] = "none" THEN 0 ELSE r
  <2>1. ASSUME Fresh(listing) = {} PROVE recorded'[r] = recorded[r]
    BY <1>1, <2>1 DEF Ordered
  <2>2. ASSUME NEW q \in Fresh(listing) PROVE q = made /\ made > 0 /\ ledger[made] = "none" /\ listing[made] # "none"
    <3>1. q \in Refunds /\ listing[q] # "none" /\ ledger[q] = "none"
      BY DEF Fresh
    <3>2. q <= made /\ ~(q < made)
      BY <3>1 DEF Read, RefundsInTurn
    <3> QED BY <1>1, <3>1, <3>2
  <2>3. CASE Fresh(listing) = {}
    <3>1. ledger'[r] = "none" <=> ledger[r] = "none"
      BY <1>2, <2>3 DEF Fresh
    <3> QED BY <2>1, <2>3, <3>1 DEF RefundsInTurn
  <2>4. CASE Fresh(listing) # {}
    <3>1. Fresh(listing) = {made} /\ made > 0 /\ ledger[made] = "none" /\ listing[made] # "none"
      BY <2>2, <2>4
    <3>2. CASE r = made
      <4>1. {q \in Refunds : recorded[q] # 0} = 1 .. made - 1
        <5>1. ASSUME NEW q \in Refunds PROVE recorded[q] # 0 <=> q < made
          BY <1>1, <3>1 DEF RefundsInTurn
        <5> QED BY <1>1, <5>1
      <4>2. Cardinality(1 .. made - 1) = made - 1
        BY <1>1, <3>1, FS_Interval
      <4>3. {q \in Fresh(listing) : q <= r} = {made}
        BY <1>1, <3>1, <3>2
      <4>4. Cardinality({made}) = 1
        BY FS_Singleton
      <4>5. recorded'[r] = Cardinality({q \in Refunds : recorded[q] # 0})
                             + Cardinality({q \in Fresh(listing) : q <= r})
        BY <1>1, <3>1, <3>2 DEF Ordered
      <4>6. recorded'[r] = made
        <5>1. recorded'[r] = Cardinality(1 .. made - 1) + Cardinality({made})
          BY <4>1, <4>3, <4>5
        <5> QED BY <1>1, <3>1, <4>2, <4>4, <5>1
      <4> QED BY <1>2, <3>1, <3>2, <4>6
    <3>3. CASE r # made
      <4>1. recorded'[r] = recorded[r]
        BY <1>1, <3>1, <3>3 DEF Ordered
      <4> QED BY <1>3, <3>3, <4>1 DEF RefundsInTurn
    <3> QED BY <3>2, <3>3
  <2> QED BY <2>3, <2>4
<1>6. made > 0 => made \in Refunds
  BY <1>1
<1> DEFINE A1 == \A r \in Refunds : r < made => status[r] = "failed" /\ ledger'[r] = "failed"
           A2 == \A r \in Refunds : r > made =>
                   status[r] = "none" /\ ledger'[r] = "none" /\ answer[r] = "none" /\ age[r] = "none"
<1>7. A1 /\ A2
  BY <1>1, <1>3 DEF RefundsInTurn
<1>8. RefundsInTurn'
  BY <1>4, <1>5, <1>7 DEF RefundsInTurn, SameStripe
<1> QED BY <1>2, <1>6, <1>8

\* What became of the rows, as the invariant sees it.
Stood == rows' = rows /\ (made > 0 /\ ledger[made] = "live" => ledger'[made] = "live")

Took(o) ==
  /\ made \in Refunds /\ o \in RowIds /\ ~Exists(made) /\ ledger'[made] = "failed"
  /\ o = key[made].row /\ IsOpen(rows[o]) /\ ~Held(rows[o]) /\ rows[o].suffix <= made
  /\ SameClaim(rows'[o], rows[o])
  /\ rows'[o].suffix = rows[o].suffix + 1 /\ rows'[o].made = NoRefund
  /\ rows'[o].failed = rows[o].failed \cup {made}
  /\ \A p \in RowIds : p # o => rows'[p] = rows[p]

Wrote ==
  /\ made \in Refunds /\ ~Exists(made) /\ ledger[made] = "live" /\ ledger'[made] = "failed"
  /\ \A p \in RowIds : ~IsOpen(rows[p])
  /\ rows'[made].status = "PENDING" /\ rows'[made].attempts = NewAttempts(made)
  /\ rows'[made].suffix = 0 /\ rows'[made].made = NoRefund /\ rows'[made].failed = {}
  /\ rows'[made].nth = Cardinality(Existing(rows)) /\ rows'[made].born = made
  /\ \A p \in RowIds : p # made => rows'[p] = rows[p]

\* A refund whose failure is on the books is told live only in the early day, or to the
\* attempt that holds the open row.
Aware(listing) ==
  made > 0 /\ ledger[made] = "failed" /\ listing[made] = "live" =>
    Early \/ \A o \in RowIds : IsOpen(rows[o]) => Held(rows[o])

LEMMA ReplannedClaim ==
  ASSUME NEW row \in RowT, NEW r \in Refunds
  PROVE  SameClaim(Replanned(row, r), row)
<1> DEFINE r1 == [row EXCEPT !.suffix = row.suffix + 1]
           r2 == [r1 EXCEPT !.made = NoRefund]
           r3 == [r2 EXCEPT !.failed = row.failed \cup {r}]
<1>1. Replanned(row, r) = r3
  BY DEF Replanned, RowT
<1>2. r1 \in RowT /\ SameClaim(r1, row)
  BY DEF RowT, SameClaim
<1> HIDE DEF r1
<1>3. r2 \in RowT /\ SameClaim(r2, row)
  BY <1>2 DEF RowT, SameClaim
<1> HIDE DEF r2
<1>4. SameClaim(r3, row)
  BY <1>3 DEF RowT, SameClaim
<1> QED BY <1>1, <1>4

LEMMA RecordingE ==
  ASSUME Types, BooksInv, EarlyInv, NEW listing \in Listings, Read(listing), Seen(listing), Aware(listing),
         Commit(Recording(listing)), SameStripe
  PROVE  Stood \/ (\E o \in RowIds : Took(o)) \/ Wrote
<1>1. /\ made \in Nat /\ made \in 0 .. MaxRefunds /\ rows \in RowsT /\ ledger \in Listings
      /\ RefundsInTurn /\ RowsInTurn /\ NotesHold /\ KeysInTurn /\ Debt
      /\ \A o \in RowIds : rows[o] \in RowT
      /\ \A r \in Refunds : key[r].row \in RowIds /\ key[r].suffix \in Nat
  BY Bounds DEF Types, StripeTypes, BookTypes, BooksInv, RowsT
<1>2. made > 0 => /\ made \in Refunds /\ made \in RowIds
                  /\ ledger'[made] = IF listing[made] = "none" \/ ledger[made] = "failed"
                                     THEN ledger[made] ELSE listing[made]
  BY <1>1, RecordingRefunds, Bounds DEF Refunds
<1>3. CASE Keeps(listing)
  <2>1. rows' = rows
    BY <1>3 DEF Keeps
  <2>2. ASSUME made > 0, ledger[made] = "live" PROVE ledger'[made] = "live"
    BY <1>2, <1>3, <2>2 DEF Keeps, Listings
  <2> QED BY <2>1, <2>2 DEF Stood
<1>4. CASE Replans(listing)
  <2> DEFINE o == key[made].row
  <2>1. /\ made > 0 /\ made \in Refunds /\ o \in RowIds /\ made \in FailedLater(listing) /\ ~Exists(made)
        /\ IsOpen(rows[o]) /\ ~Held(rows[o]) /\ made \notin rows[o].failed
        /\ rows'[o] = Replanned(rows[o], made)
        /\ \A p \in RowIds : p # o => rows'[p] = rows[p]
    BY <1>1, <1>2, <1>4 DEF Replans
  <2> HIDE DEF o
  <2>2. ledger'[made] = "failed"
    BY <1>2, <2>1 DEF FailedLater
  <2>3. rows[o].suffix <= made
    <3>1. CASE ledger[made] = "live"
      <4>1. key[made].suffix = rows[o].suffix /\ key[made].suffix <= made
        BY <1>1, <2>1, <3>1 DEF KeysInTurn, o
      <4> QED BY <4>1
    <3>2. CASE ledger[made] = "failed" /\ listing[made] = "live"
      <4>1. Early
        BY <2>1, <3>2 DEF Aware
      <4>2. rows[o].suffix <= 1
        BY <2>1, <4>1 DEF EarlyInv, EarlyRow
      <4>3. rows[o].suffix \in Nat
        BY <1>1, <2>1 DEF RowT
      <4> QED BY <1>1, <2>1, <4>2, <4>3
    <3> QED BY <2>1, <3>1, <3>2 DEF FailedLater
  <2>4. /\ rows'[o].suffix = rows[o].suffix + 1 /\ rows'[o].made = NoRefund
        /\ rows'[o].failed = rows[o].failed \cup {made}
    BY <1>1, <2>1, ReplannedT
  <2>5. SameClaim(rows'[o], rows[o])
    BY <1>1, <2>1, ReplannedClaim
  <2>6. Took(o)
    BY <2>1, <2>2, <2>3, <2>4, <2>5 DEF Took, o
  <2> QED BY <2>1, <2>6
<1>5. CASE Raises(listing)
  <2>1. NewAttempts(made) \in 0 .. MaxAttempts /\ Cardinality(Existing(rows)) \in Nat
    BY Bounds, ExistingFinite DEF NewAttempts
  <2>2. made > 0 /\ rows'[made] = NewRow(Cardinality(Existing(rows)), NewAttempts(made))
    BY <1>5 DEF Raises
  <2>3. /\ rows'[made].status = "PENDING" /\ rows'[made].attempts = NewAttempts(made)
        /\ rows'[made].suffix = 0 /\ rows'[made].made = NoRefund /\ rows'[made].failed = {}
        /\ rows'[made].nth = Cardinality(Existing(rows)) /\ rows'[made].born = made
    BY <1>1, <2>1, <2>2, NewRowT
  <2> QED BY <1>2, <1>5, <2>2, <2>3 DEF Raises, Wrote
<1>6. CASE Refuses(listing)
  BY <1>6 DEF Refuses, Stood
<1> QED BY <1>3, <1>4, <1>5, <1>6, CommitE

LEMMA RecordingRows ==
  ASSUME Types, RowsInTurn, RefundsInTurn, SameStripe,
         \A r \in Refunds : ledger[r] = "failed" => ledger'[r] = "failed",
         Stood \/ (\E o \in RowIds : Took(o)) \/ Wrote
  PROVE  RowsInTurn'
<1>1. /\ made \in Nat /\ made' = made /\ \A o \in RowIds : rows[o] \in RowT /\ o \in Nat
      /\ Refunds \subseteq RowIds /\ Door \in RowIds /\ Door \notin Refunds
  BY Bounds DEF Types, StripeTypes, BookTypes, SameStripe, RowsT
<1>2. CASE Stood
  BY <1>1, <1>2 DEF Stood, RowsInTurn, Exists, Existing
<1>3. ASSUME NEW o \in RowIds, Took(o) PROVE RowsInTurn'
  <2>1. /\ Exists(o) /\ Latest(o) /\ \A p \in RowIds : p # o => rows'[p] = rows[p]
        /\ SameClaim(rows'[o], rows[o])
    BY <1>3, OpenIsLatest DEF Took
  <2>2. \A p \in RowIds : /\ rows'[p].status = rows[p].status
                          /\ rows'[p].born = rows[p].born /\ rows'[p].nth = rows[p].nth
    BY <2>1 DEF SameClaim
  <2>3. /\ \A p \in RowIds : (Exists(p))' <=> Exists(p)
        /\ Existing(rows') = Existing(rows)
    BY <2>2 DEF Exists, Existing
  <2>4. \A p \in RowIds : rows[p].status = "NONE" => rows'[p] = NoRow
    BY <2>1 DEF RowsInTurn, Exists
  <2> QED BY <1>1, <1>3, <2>2, <2>3, <2>4 DEF RowsInTurn, Exists
<1>4. CASE Wrote
  <2>1. /\ made \in Refunds /\ ~Exists(made) /\ ledger'[made] = "failed"
        /\ rows'[made].status = "PENDING" /\ rows'[made].nth = Cardinality(Existing(rows))
        /\ rows'[made].born = made
        /\ \A p \in RowIds : p # made => rows'[p] = rows[p]
        /\ \A p \in RowIds : ~IsOpen(rows[p])
    BY <1>4 DEF Wrote
  <2>2. Existing(rows') = Existing(rows) \cup {made} /\ made \notin Existing(rows)
    BY <1>1, <2>1 DEF Existing, Exists
  <2>3. Cardinality(Existing(rows')) = Cardinality(Existing(rows)) + 1 /\ Cardinality(Existing(rows)) \in Nat
    BY <2>2, ExistingFinite, FS_AddElement
  <2>4. ASSUME NEW p \in RowIds PROVE rows'[p].status # "NONE" <=> p = made \/ Exists(p)
    BY <2>1 DEF Exists
  <2>5. ASSUME NEW p \in RowIds, rows'[p].status = "NONE" PROVE rows'[p] = NoRow
    BY <2>1, <2>5 DEF RowsInTurn, Exists
  <2>6. ASSUME NEW p \in RowIds, rows'[p].status # "NONE"
        PROVE  p <= made /\ rows'[p].born = p /\ rows'[p].nth < Cardinality(Existing(rows'))
    <3>1. CASE p = made
      BY <1>1, <2>1, <2>3, <3>1
    <3>2. CASE p # made
      <4>1. Exists(p) /\ rows'[p] = rows[p] /\ rows[p].nth \in Nat
        BY <1>1, <2>1, <2>4, <2>6, <3>2 DEF RowT
      <4> QED BY <2>3, <4>1 DEF RowsInTurn
    <3> QED BY <3>1, <3>2
  <2>7. ASSUME NEW p \in Refunds, rows'[p].status # "NONE" PROVE ledger'[p] = "failed"
    BY <1>1, <2>1, <2>4, <2>7 DEF RowsInTurn
  <2>8. ASSUME NEW p \in RowIds, NEW q \in RowIds, rows'[p].status # "NONE", rows'[q].status # "NONE", p < q
        PROVE  rows'[p].nth < rows'[q].nth /\ rows'[p].status = "SUCCEEDED"
    <3>1. p # made
      BY <1>1, <2>6, <2>8
    <3>2. Exists(p) /\ rows'[p] = rows[p] /\ rows[p].nth \in Nat
      BY <1>1, <2>1, <2>4, <2>8, <3>1 DEF RowT
    <3>3. rows[p].status = "SUCCEEDED"
      BY <1>1, <2>1, <3>2, OpenRow DEF Exists
    <3>4. rows[p].nth < rows'[q].nth
      <4>1. CASE q = made
        BY <2>1, <2>3, <3>2, <4>1 DEF RowsInTurn
      <4>2. CASE q # made
        BY <2>1, <2>4, <2>8, <3>2, <4>2 DEF RowsInTurn
      <4> QED BY <4>1, <4>2
    <3> QED BY <3>2, <3>3, <3>4
  <2>9. rows'[Door].status # "NONE"
    BY <1>1, <2>4 DEF RowsInTurn
  <2> QED BY <1>1, <2>5, <2>6, <2>7, <2>8, <2>9 DEF RowsInTurn, Exists
<1> QED BY <1>2, <1>3, <1>4

LEMMA RecordingNotes ==
  ASSUME Types, NotesHold, RowsInTurn, KeysInTurn, SameStripe,
         \A r \in Refunds : ledger[r] = "failed" => ledger'[r] = "failed",
         Stood \/ (\E o \in RowIds : Took(o)) \/ Wrote
  PROVE  NotesHold'
<1>1. /\ made \in Nat /\ made' = made /\ key' = key /\ \A o \in RowIds : rows[o] \in RowT /\ o \in Nat
      /\ Refunds \subseteq RowIds /\ Refunds = 1 .. MaxRefunds /\ MaxRefunds \in Nat /\ made <= MaxRefunds
      /\ \A r \in Refunds : key[r].suffix \in Nat
      /\ NoRefund = 0
  BY Bounds DEF Types, StripeTypes, BookTypes, SameStripe, RowsT, Refunds, NoRefund
<1>1a. \A o \in RowIds : rows[o].made # NoRefund => rows[o].made \in Refunds /\ made > 0
  BY <1>1 DEF RowT, NotesHold
<1>1b. \A o \in RowIds : \A f \in rows[o].failed : f \in Refunds
  BY <1>1 DEF RowT
<1>2. CASE Stood
  <2>1. rows' = rows /\ \A o \in RowIds : rows[o].made # NoRefund /\ IsOpen(rows[o]) => ledger'[made] = "live"
    BY <1>1a, <1>2 DEF Stood, NotesHold
  <2>2. \A o \in RowIds : \A f \in rows[o].failed : ledger'[f] = "failed"
    BY <1>1b DEF NotesHold
  <2> QED BY <1>1, <2>1, <2>2 DEF NotesHold
<1>3. ASSUME NEW o \in RowIds, Took(o) PROVE NotesHold'
  <2>1. /\ o = key[made].row /\ rows'[o].suffix = rows[o].suffix + 1 /\ rows'[o].made = NoRefund
        /\ rows'[o].failed = rows[o].failed \cup {made} /\ made \in Refunds /\ ledger'[made] = "failed"
        /\ \A p \in RowIds : p # o => rows'[p] = rows[p]
        /\ IsOpen(rows[o])
    BY <1>3 DEF Took
  <2>2. ASSUME NEW p \in RowIds, rows'[p].made # NoRefund
        PROVE  /\ rows'[p].made <= made /\ key[rows'[p].made].row = p
               /\ ~IsOpen(rows'[p])
    <3>1. p # o /\ rows'[p] = rows[p]
      BY <2>1, <2>2
    <3>2. ~IsOpen(rows[p])
      BY <2>1, <3>1, OpenIsLatest, LatestIsOne
    <3> QED BY <2>2, <3>1, <3>2 DEF NotesHold
  <2>3. ASSUME NEW p \in RowIds, NEW f \in rows'[p].failed
        PROVE  f <= made /\ ledger'[f] = "failed" /\ (key[f].row = p => key[f].suffix < rows'[p].suffix)
    <3>1. CASE p # o
      <4>1. rows'[p] = rows[p]
        BY <2>1, <3>1
      <4>2. f \in rows[p].failed /\ f \in Refunds
        BY <1>1b, <2>3, <4>1
      <4>3. f <= made /\ ledger[f] = "failed" /\ (key[f].row = p => key[f].suffix < rows[p].suffix)
        BY <4>2 DEF NotesHold
      <4> QED BY <4>1, <4>2, <4>3
    <3>2. CASE p = o /\ f = made
      <4>1. key[made].suffix <= rows[o].suffix /\ key[made].suffix \in Nat
        BY <1>1, <2>1 DEF KeysInTurn
      <4>2. rows[o] \in RowT /\ rows[o].suffix \in Nat /\ made <= made
        BY <1>1 DEF RowT
      <4>3. key[made].suffix < rows'[o].suffix
        BY <2>1, <4>1, <4>2
      <4> QED BY <2>1, <3>2, <4>2, <4>3
    <3>3. CASE p = o /\ f # made
      <4>1. f \in rows[o].failed /\ f \in Refunds
        BY <1>1b, <2>1, <2>3, <3>3
      <4>2. f <= made /\ ledger[f] = "failed" /\ (key[f].row = o => key[f].suffix < rows[o].suffix)
        BY <4>1 DEF NotesHold
      <4>3. rows[o].suffix \in Nat /\ key[f].suffix \in Nat /\ ledger'[f] = "failed"
        BY <1>1, <4>1, <4>2 DEF RowT
      <4>4. key[f].row = o => key[f].suffix < rows[o].suffix + 1
        BY <4>2, <4>3
      <4> QED BY <2>1, <3>3, <4>2, <4>3, <4>4
    <3> QED BY <3>1, <3>2, <3>3
  <2> QED BY <1>1, <2>2, <2>3 DEF NotesHold
<1>4. CASE Wrote
  <2>1. /\ rows'[made].made = NoRefund /\ rows'[made].failed = {} /\ made \in Refunds
        /\ \A p \in RowIds : p # made => rows'[p] = rows[p]
        /\ \A p \in RowIds : ~IsOpen(rows[p])
    BY <1>4 DEF Wrote
  <2>2. ASSUME NEW p \in RowIds, rows'[p].made # NoRefund
        PROVE  /\ rows'[p].made <= made /\ key[rows'[p].made].row = p
               /\ ~IsOpen(rows'[p])
    BY <2>1, <2>2 DEF NotesHold
  <2>3. ASSUME NEW p \in RowIds, NEW f \in rows'[p].failed
        PROVE  f <= made /\ ledger'[f] = "failed" /\ (key[f].row = p => key[f].suffix < rows'[p].suffix)
    BY <1>1b, <2>1, <2>3 DEF NotesHold
  <2> QED BY <1>1, <2>2, <2>3 DEF NotesHold
<1> QED BY <1>2, <1>3, <1>4

LEMMA RecordingDebt ==
  ASSUME Types, Debt, SameStripe, Stood \/ (\E o \in RowIds : Took(o)) \/ Wrote
  PROVE  Debt'
<1>1. CASE Stood
  BY <1>1 DEF Stood, Debt, SameStripe
<1>2. ASSUME NEW o \in RowIds, Took(o) PROVE Debt'
  BY <1>2 DEF Took, Debt, SameClaim, IsOpen
<1>3. CASE Wrote
  <2>1. made \in RowIds
    BY <1>3, Bounds DEF Wrote
  <2> QED BY <1>3, <2>1 DEF Wrote, Debt, IsOpen, Unfinished, Claimable
<1> QED BY <1>1, <1>2, <1>3

LEMMA RecordingKeys ==
  ASSUME Types, KeysInTurn, RowsInTurn, SameStripe,
         \A r \in Refunds : ledger[r] = "failed" => ledger'[r] = "failed",
         Stood \/ (\E o \in RowIds : Took(o)) \/ Wrote
  PROVE  KeysInTurn'
<1>1. /\ made \in Nat /\ made' = made /\ key' = key /\ age' = age
      /\ \A o \in RowIds : rows[o] \in RowT /\ o \in Nat
      /\ Refunds \subseteq RowIds /\ Refunds = 1 .. MaxRefunds /\ MaxRefunds \in Nat /\ made <= MaxRefunds
      /\ \A r \in Refunds : key[r].suffix \in Nat /\ key[r].row \in RowIds
      /\ Door \in RowIds
  BY Bounds DEF Types, StripeTypes, BookTypes, SameStripe, RowsT, Refunds
<1>1a. \A o \in RowIds : rows[o].suffix \in Nat
  BY <1>1 DEF RowT
<1>1b. \A o \in RowIds : rows[o].suffix <= made + 1
  BY DEF KeysInTurn
<1>1c. made' = made /\ key' = key /\ age' = age
  BY <1>1
<1>2. CASE Stood
  <2>1. made > 0 /\ ledger'[made] # "failed" => ledger[made] # "failed"
    <3>1. made > 0 => made \in Refunds
      BY <1>1
    <3> QED BY <3>1
  <2>2. rows' = rows
    BY <1>2 DEF Stood
  <2> QED BY <1>1c, <2>1, <2>2 DEF KeysInTurn, Latest, Exists
<1>3. ASSUME NEW o \in RowIds, Took(o) PROVE KeysInTurn'
  <2>1. /\ rows'[o].suffix = rows[o].suffix + 1 /\ rows[o].suffix <= made /\ made \in Refunds
        /\ ledger'[made] = "failed" /\ rows'[o].status = rows[o].status
        /\ \A p \in RowIds : p # o => rows'[p] = rows[p]
    BY <1>3 DEF Took, SameClaim
  <2>2. \A p \in RowIds : rows'[p].status = rows[p].status /\ rows[p].suffix <= rows'[p].suffix
                          /\ rows'[p].suffix <= made + 1 /\ rows'[p].suffix \in Nat
    <3>1. ASSUME NEW p \in RowIds
          PROVE  /\ rows'[p].status = rows[p].status /\ rows[p].suffix <= rows'[p].suffix
                 /\ rows'[p].suffix <= made + 1 /\ rows'[p].suffix \in Nat
      <4>1. rows[p].suffix \in Nat /\ rows[p].suffix <= made + 1 /\ rows[o].suffix \in Nat
        BY <1>1a, <1>1b
      <4>2. CASE p = o
        <5>1. rows'[p].suffix = rows[p].suffix + 1 /\ rows[p].suffix <= made /\ rows'[p].status = rows[p].status
          BY <2>1, <4>2
        <5>2. made \in Nat
          BY <1>1
        <5> QED BY <4>1, <5>1, <5>2
      <4>3. CASE p # o
        <5>1. rows'[p] = rows[p]
          BY <2>1, <4>3
        <5> QED BY <4>1, <5>1
      <4> QED BY <4>2, <4>3
    <3> QED BY <3>1
  <2>3. ASSUME NEW r \in Refunds, r <= made
        PROVE  rows'[key[r].row].status # "NONE" /\ key[r].suffix <= rows'[key[r].row].suffix
    <3>1. Exists(key[r].row) /\ key[r].suffix <= rows[key[r].row].suffix
      BY <2>3 DEF KeysInTurn
    <3>2. key[r].row \in RowIds /\ key[r].suffix \in Nat /\ rows[key[r].row].suffix \in Nat
      BY <1>1, <1>1a
    <3>3. /\ rows'[key[r].row].status = rows[key[r].row].status
          /\ rows[key[r].row].suffix <= rows'[key[r].row].suffix /\ rows'[key[r].row].suffix \in Nat
      BY <2>2, <3>2
    <3> QED BY <3>1, <3>2, <3>3 DEF Exists
  <2>4. Exists(made) \/ Latest(key[made].row) => (Exists(made) \/ Latest(key[made].row))'
    BY <1>1, <2>1, <2>2 DEF Exists, Latest
  <2>5. (made > 0 => Exists(made) \/ Latest(key[made].row))'
    BY <1>1, <2>4 DEF KeysInTurn
  <2>6. made = made' /\ made # 0
    BY <1>1, <2>1
  <2>7. \A r \in Refunds : r <= made => key[r].row < r /\ key[r].suffix <= r
    BY DEF KeysInTurn
  <2>8. \A q, r \in Refunds : q < r /\ r <= made /\ key[q].row = key[r].row =>
       key[q].suffix < key[r].suffix \/ (key[q].suffix = key[r].suffix /\ age[q] = "forgotten")
    BY DEF KeysInTurn
  <2>9. (\A r \in Refunds : r <= made =>
          Exists(key[r].row) /\ key[r].row < r /\ key[r].suffix <= rows[key[r].row].suffix
          /\ key[r].suffix <= r)'
    BY <1>1, <2>3, <2>7 DEF Exists
  <2>10. (\A q, r \in Refunds : q < r /\ r <= made /\ key[q].row = key[r].row =>
           key[q].suffix < key[r].suffix \/ (key[q].suffix = key[r].suffix /\ age[q] = "forgotten"))'
    BY <1>1c, <2>8
  <2>11. (made > 0 /\ ledger[made] # "failed" /\ IsOpen(rows[key[made].row]) =>
            key[made].suffix = rows[key[made].row].suffix)'
    BY <2>1, <2>6
  <2>12. (made = 0 => rows[Door].suffix = 0)' /\ (\A p \in RowIds : rows[p].suffix <= made + 1)'
    BY <2>2, <2>6
  <2> QED BY <2>5, <2>6, <2>9, <2>10, <2>11, <2>12 DEF KeysInTurn
<1>4. CASE Wrote
  <2>1. /\ made \in Refunds /\ ~Exists(made) /\ ledger'[made] = "failed"
        /\ rows'[made].status # "NONE" /\ rows'[made].suffix = 0
        /\ \A p \in RowIds : p # made => rows'[p] = rows[p]
    BY <1>4 DEF Wrote
  <2>2. ASSUME NEW r \in Refunds, r <= made
        PROVE  rows'[key[r].row].status # "NONE" /\ key[r].suffix <= rows'[key[r].row].suffix
    <3>1. Exists(key[r].row) /\ key[r].suffix <= rows[key[r].row].suffix /\ key[r].row # made
      BY <2>1, <2>2 DEF KeysInTurn
    <3> QED BY <1>1, <2>1, <3>1 DEF Exists
  <2>3. \A p \in RowIds : rows'[p].suffix <= made' + 1
    BY <1>1, <2>1 DEF KeysInTurn
  <2>4. made \in RowIds /\ made # 0 /\ made' = made
    BY <1>1, <2>1
  <2>7. \A r \in Refunds : r <= made => key[r].row < r /\ key[r].suffix <= r
    BY DEF KeysInTurn
  <2>8. \A q, r \in Refunds : q < r /\ r <= made /\ key[q].row = key[r].row =>
       key[q].suffix < key[r].suffix \/ (key[q].suffix = key[r].suffix /\ age[q] = "forgotten")
    BY DEF KeysInTurn
  <2>9. (\A r \in Refunds : r <= made =>
          Exists(key[r].row) /\ key[r].row < r /\ key[r].suffix <= rows[key[r].row].suffix
          /\ key[r].suffix <= r)'
    BY <1>1, <2>2, <2>7 DEF Exists
  <2>10. (\A q, r \in Refunds : q < r /\ r <= made /\ key[q].row = key[r].row =>
           key[q].suffix < key[r].suffix \/ (key[q].suffix = key[r].suffix /\ age[q] = "forgotten"))'
    BY <1>1c, <2>8
  <2>11. (made > 0 => Exists(made) \/ Latest(key[made].row))'
    BY <1>1, <2>1 DEF Exists
  <2>12. (made > 0 /\ ledger[made] # "failed" /\ IsOpen(rows[key[made].row]) =>
            key[made].suffix = rows[key[made].row].suffix)'
    BY <2>1, <2>4
  <2>13. (made = 0 => rows[Door].suffix = 0)' /\ (\A p \in RowIds : rows[p].suffix <= made + 1)'
    BY <2>3, <2>4
  <2> QED BY <2>9, <2>10, <2>11, <2>12, <2>13 DEF KeysInTurn
<1> QED BY <1>2, <1>3, <1>4

\* A recording keeps the books in order.
LEMMA RecordingBooks ==
  ASSUME Types, BooksInv, EarlyInv, NEW listing \in Listings, Read(listing), Seen(listing), Aware(listing),
         Commit(Recording(listing)), SameStripe
  PROVE  BooksInv'
<1>1. RefundsInTurn /\ RowsInTurn /\ NotesHold /\ Debt /\ KeysInTurn
  BY DEF BooksInv
<1>2. RefundsInTurn' /\ \A r \in Refunds : ledger[r] = "failed" => ledger'[r] = "failed"
  BY <1>1, RecordingRefunds
<1>3. Stood \/ (\E o \in RowIds : Took(o)) \/ Wrote
  BY RecordingE
<1>4. RowsInTurn' /\ NotesHold' /\ Debt' /\ KeysInTurn'
  BY <1>1, <1>2, <1>3, RecordingRows, RecordingNotes, RecordingDebt, RecordingKeys
<1> QED BY <1>2, <1>4 DEF BooksInv

-----------------------------------------------------------------------------
(* The other steps keep the books in order *)

LEMMA BooksStay ==
  ASSUME Types, BooksInv, SameStripe, SameBooks
  PROVE  BooksInv'
BY DEF SameStripe, SameBooks, BooksInv, RefundsInTurn, RowsInTurn, NotesHold, Debt, KeysInTurn,
       Latest, Exists

\* Only the last refund can still be live.
LEMMA LiveIsLast ==
  ASSUME Types, RefundsInTurn, NEW r \in Refunds, status[r] = "live"
  PROVE  r = made /\ made > 0
<1>1. ~(r < made) /\ ~(r > made)
  BY DEF RefundsInTurn
<1> QED BY <1>1 DEF Types, StripeTypes, Refunds

LEMMA FailLaterBooks ==
  ASSUME Types, BooksInv, NEW r \in Refunds, FailLater(r)
  PROVE  BooksInv'
<1>1. /\ SameBooks /\ made' = made /\ key' = key /\ answer' = answer /\ age' = age
      /\ status'[r] = "failed" /\ \A q \in Refunds : q # r => status'[q] = status[q]
      /\ r = made
  BY FailLaterE, LiveIsLast DEF BooksInv
<1>2. RefundsInTurn'
  <2>1. \A q \in Refunds : status[q] = "failed" => status'[q] = "failed"
    BY <1>1
  <2>2. \A q \in Refunds : q > made => status'[q] = "none"
    <3>1. ~(r > made) /\ \A q \in Refunds : q > made => status[q] = "none"
      BY <1>1 DEF BooksInv, RefundsInTurn, Types, StripeTypes
    <3> QED BY <1>1, <3>1
  <2>3. \A q \in Refunds : q <= made => status'[q] # "none"
    BY <1>1 DEF BooksInv, RefundsInTurn
  <2> QED BY <1>1, <2>1, <2>2, <2>3 DEF BooksInv, RefundsInTurn, SameBooks
<1>3. RowsInTurn' /\ NotesHold' /\ Debt' /\ KeysInTurn'
  BY <1>1 DEF SameBooks, BooksInv, RowsInTurn, NotesHold, Debt, KeysInTurn, Latest, Exists
<1> QED BY <1>2, <1>3 DEF BooksInv

LEMMA AgesBooks ==
  ASSUME Types, BooksInv, NEW r \in Refunds, Age(r) \/ Forget(r)
  PROVE  BooksInv'
<1>1. /\ SameBooks /\ made' = made /\ key' = key /\ answer' = answer /\ status' = status
      /\ \A q \in Refunds : q # r => age'[q] = age[q]
      /\ \/ age[r] = "young" /\ age'[r] = "old"
         \/ age[r] = "old" /\ age'[r] = "forgotten"
  BY AgesE
<1>2. \A q \in Refunds : /\ (age'[q] = "none") <=> (age[q] = "none")
                         /\ age[q] = "forgotten" => age'[q] = "forgotten"
  BY <1>1
<1>3. RefundsInTurn'
  BY <1>1, <1>2 DEF BooksInv, RefundsInTurn, SameBooks
<1>4. KeysInTurn'
  BY <1>1, <1>2 DEF BooksInv, KeysInTurn, SameBooks, Latest, Exists
<1>5. RowsInTurn' /\ NotesHold' /\ Debt'
  BY <1>1 DEF SameBooks, BooksInv, RowsInTurn, NotesHold, Debt, Exists
<1> QED BY <1>3, <1>4, <1>5 DEF BooksInv

\* A refund is made for the open row, under the key that row is to use next.
LEMMA MakesBooks ==
  ASSUME Types, BooksInv, NEW k \in [row : RowIds, suffix : Nat], NEW r \in Refunds, Makes(k, r), SameBooks,
         IsOpen(rows[k.row]), k.suffix = rows[k.row].suffix, made > 0 => ledger[made] = "failed"
  PROVE  BooksInv'
<1>1. /\ made \in Nat /\ r = made + 1 /\ made' = r /\ rows' = rows /\ ledger' = ledger /\ recorded' = recorded
      /\ key'[r] = k /\ age'[r] = "young" /\ status'[r] = answer'[r] /\ answer'[r] \in {"live", "failed"}
      /\ \A q \in Refunds : q # r =>
           key'[q] = key[q] /\ age'[q] = age[q] /\ answer'[q] = answer[q] /\ status'[q] = status[q]
      /\ \A q \in Refunds : ~Remembers(q, k)
      /\ k.row \in RowIds /\ k.suffix \in Nat
  BY Bounds DEF Makes, SameBooks, Types, StripeTypes
<1>2. /\ Latest(k.row) /\ Exists(k.row)
      /\ RefundsInTurn /\ RowsInTurn /\ NotesHold /\ KeysInTurn
  BY <1>1, OpenIsLatest DEF BooksInv
<1>3a. \A o \in RowIds : o \in Nat /\ rows[o] \in RowT
  BY Bounds DEF Types, BookTypes, RowsT
<1>3. /\ Refunds = 1 .. MaxRefunds /\ MaxRefunds \in Nat /\ Refunds \subseteq RowIds
      /\ \A o \in RowIds : o \in Nat /\ rows[o] \in RowT /\ rows[o].suffix \in Nat
      /\ \A q \in Refunds : key[q] \in [row : RowIds, suffix : Nat]
      /\ \A q \in Refunds : age[q] \in {"none", "young", "old", "forgotten"}
      /\ NoRefund = 0
  BY <1>3a, Bounds DEF Types, StripeTypes, RowT, Refunds, NoRefund
<1>4. \A q \in Refunds : q < r <=> q <= made
  BY <1>1, <1>3
<1>5. RefundsInTurn'
  <2>1. \A q \in Refunds : q < r => status[q] = "failed" /\ ledger[q] = "failed"
    <3>1. made > 0 => made \in Refunds /\ status[made] = "failed" /\ ledger[made] = "failed"
      BY <1>1, <1>2, <1>3 DEF RefundsInTurn
    <3> QED BY <1>1, <1>2, <1>3, <1>4, <3>1 DEF RefundsInTurn
  <2>2. \A q \in Refunds : q > r =>
       status[q] = "none" /\ ledger[q] = "none" /\ answer[q] = "none" /\ age[q] = "none"
    BY <1>1, <1>2, <1>3 DEF RefundsInTurn
  <2>3. \A q \in Refunds : q # r /\ q <= r => status[q] # "none" /\ answer[q] # "none" /\ age[q] # "none"
    BY <1>1, <1>2, <1>3 DEF RefundsInTurn
  <2>4. ledger[r] = "none"
    BY <1>1, <1>2, <1>3 DEF RefundsInTurn
  <2>5. (\A q \in Refunds : q < made => status[q] = "failed" /\ ledger[q] = "failed")'
    BY <1>1, <1>3, <2>1
  <2>6. (\A q \in Refunds : q > made =>
       status[q] = "none" /\ ledger[q] = "none" /\ answer[q] = "none" /\ age[q] = "none")'
    BY <1>1, <1>3, <2>2
  <2>7. (\A q \in Refunds : q <= made => status[q] # "none" /\ answer[q] # "none" /\ age[q] # "none")'
    <3>1. ASSUME NEW q \in Refunds, q <= r
          PROVE  status'[q] # "none" /\ answer'[q] # "none" /\ age'[q] # "none"
      <4>1. CASE q = r
        BY <1>1, <4>1
      <4>2. CASE q # r
        BY <1>1, <2>3, <3>1, <4>2
      <4> QED BY <4>1, <4>2
    <3> QED BY <1>1, <3>1
  <2>8. (\A q \in Refunds : ledger[q] = "failed" => status[q] = "failed")'
    BY <1>1, <1>2, <2>4 DEF RefundsInTurn
  <2>9. (\A q \in Refunds : answer[q] = "failed" => status[q] = "failed")'
    <3>1. \A q \in Refunds : answer[q] = "failed" => status[q] = "failed"
      BY <1>2 DEF RefundsInTurn
    <3> QED BY <1>1, <3>1
  <2>10. (\A q \in Refunds : recorded[q] = IF ledger[q] = "none" THEN 0 ELSE q)'
    BY <1>1, <1>2 DEF RefundsInTurn
  <2> QED BY <2>5, <2>6, <2>7, <2>8, <2>9, <2>10 DEF RefundsInTurn
<1>6. RowsInTurn'
  <2>1. \A o \in RowIds : Exists(o) => o <= r
    BY <1>1, <1>2, <1>3 DEF RowsInTurn
  <2> QED BY <1>1, <1>2, <2>1 DEF RowsInTurn, Exists
<1>7. NotesHold'
  <2>1. ASSUME NEW o \in RowIds, rows[o].made # NoRefund
        PROVE  rows[o].made <= r /\ key'[rows[o].made].row = o /\ ~IsOpen(rows[o])
    <3>1. rows[o].made \in Refunds /\ rows[o].made <= made
      BY <1>2, <1>3, <2>1 DEF RowT, NotesHold
    <3>2. made > 0 /\ rows[o].made # r
      BY <1>1, <1>3, <3>1
    <3>3. key[rows[o].made].row = o /\ (IsOpen(rows[o]) => ledger[made] = "live")
      BY <1>2, <2>1 DEF NotesHold
    <3>4. key'[rows[o].made] = key[rows[o].made]
      BY <1>1, <3>1, <3>2
    <3>5. rows[o].made <= r
      BY <1>1, <1>3, <3>1
    <3>6. ~IsOpen(rows[o])
      BY <3>2, <3>3
    <3> QED BY <3>3, <3>4, <3>5, <3>6
  <2>2. ASSUME NEW o \in RowIds, NEW f \in rows[o].failed
        PROVE  f <= r /\ ledger[f] = "failed" /\ (key'[f].row = o => key'[f].suffix < rows[o].suffix)
    <3>1. f \in Refunds /\ f <= made
      BY <1>2, <1>3 DEF RowT, NotesHold
    <3> QED BY <1>1, <1>2, <1>3, <3>1 DEF NotesHold
  <2> QED BY <1>1, <2>1, <2>2 DEF NotesHold
<1>8. Debt'
  BY <1>1 DEF Debt
<1>9. KeysInTurn'
  <2>1. ASSUME NEW q \in Refunds, q <= r
        PROVE  Exists(key'[q].row) /\ key'[q].row < q /\ key'[q].suffix <= rows[key'[q].row].suffix
               /\ key'[q].suffix <= q
    <3>1. CASE q = r
      <4>1. k.row <= made /\ rows[k.row].suffix <= made + 1
        BY <1>1, <1>2 DEF RowsInTurn, KeysInTurn
      <4>2. key'[q] = k /\ q = made + 1
        BY <1>1, <1>3, <3>1
      <4>3. k.row \in Nat /\ k.suffix \in Nat /\ k.suffix = rows[k.row].suffix /\ made \in Nat
        BY <1>1, <1>3
      <4>4. k.row < q /\ k.suffix <= q /\ k.suffix <= rows[k.row].suffix
        BY <4>1, <4>2, <4>3
      <4>5. Exists(k.row)
        BY <1>1, <1>2, <1>3
      <4> QED BY <4>2, <4>4, <4>5
    <3>2. CASE q # r
      BY <1>1, <1>2, <1>3, <2>1, <3>2 DEF KeysInTurn
    <3> QED BY <3>1, <3>2
  <2>2. ASSUME NEW p \in Refunds, NEW q \in Refunds, p < q, q <= r, key'[p].row = key'[q].row
        PROVE  key'[p].suffix < key'[q].suffix \/ (key'[p].suffix = key'[q].suffix /\ age'[p] = "forgotten")
    <3>1. CASE q # r
      <4>1. p # r /\ q <= made
        BY <1>1, <1>3, <2>2, <3>1
      <4>2. key'[p] = key[p] /\ key'[q] = key[q] /\ age'[p] = age[p]
        BY <1>1, <3>1, <4>1
      <4> QED BY <1>2, <2>2, <4>1, <4>2 DEF KeysInTurn
    <3>2. CASE q = r
      <4>1. p <= made /\ p # r /\ key'[p] = key[p] /\ age'[p] = age[p] /\ key[p].row = k.row
        BY <1>1, <1>3, <2>2, <3>2
      <4>2. key[p].suffix <= k.suffix /\ age[p] # "none"
        BY <1>2, <4>1 DEF KeysInTurn, RefundsInTurn
      <4>3. CASE key[p].suffix < k.suffix
        BY <1>1, <3>2, <4>1, <4>3
      <4>4. CASE key[p].suffix = k.suffix
        <5>1. key[p] = k
          BY <1>3, <4>1, <4>4
        <5>2. age[p] = "forgotten"
          BY <1>1, <1>3, <4>2, <5>1 DEF Remembers
        <5> QED BY <1>1, <3>2, <4>1, <4>4, <5>2
      <4> QED BY <1>1, <1>3, <4>2, <4>3, <4>4
    <3> QED BY <3>1, <3>2
  <2>3. (\A q \in Refunds : q <= made =>
           Exists(key[q].row) /\ key[q].row < q /\ key[q].suffix <= rows[key[q].row].suffix
           /\ key[q].suffix <= q)'
    BY <1>1, <2>1 DEF Exists
  <2>4. (made > 0 => Exists(made) \/ Latest(key[made].row))'
    BY <1>1, <1>2 DEF Latest, Exists
  <2>5. (\A p, q \in Refunds : p < q /\ q <= made /\ key[p].row = key[q].row =>
           key[p].suffix < key[q].suffix \/ (key[p].suffix = key[q].suffix /\ age[p] = "forgotten"))'
    BY <1>1, <2>2
  <2>6. (made > 0 /\ ledger[made] # "failed" /\ IsOpen(rows[key[made].row]) =>
           key[made].suffix = rows[key[made].row].suffix)'
    BY <1>1
  <2>7. (made = 0 => rows[Door].suffix = 0)'
    BY <1>1
  <2>8. (\A o \in RowIds : rows[o].suffix <= made + 1)'
    BY <1>1, <1>2, <1>3 DEF KeysInTurn
  <2> QED BY <2>3, <2>4, <2>5, <2>6, <2>7, <2>8 DEF KeysInTurn
<1> QED BY <1>5, <1>6, <1>7, <1>8, <1>9 DEF BooksInv

\* A row written by its attempt, the door, the clock or the reaper.
RowStep(o) ==
  /\ rows[o].status # "NONE" /\ rows'[o].status # "NONE"
  /\ rows[o].status = "SUCCEEDED" => rows'[o].status = "SUCCEEDED"
  /\ rows'[o].nth = rows[o].nth /\ rows'[o].born = rows[o].born /\ rows'[o].failed = rows[o].failed
  /\ rows[o].suffix <= rows'[o].suffix /\ rows'[o].suffix <= made + 1
  /\ rows'[o].suffix # rows[o].suffix => made > 0 /\ (key[made].row = o => ledger[made] = "failed")
  /\ rows'[o].made # NoRefund =>
       /\ rows'[o].made <= made /\ key[rows'[o].made].row = o
       /\ IsOpen(rows'[o]) => rows'[o].made = made /\ ledger[made] = "live"
  /\ IsOpen(rows[o]) /\ ~IsOpen(rows'[o]) => made > 0 /\ ledger[made] = "live"
  /\ \A p \in RowIds : p # o => rows'[p] = rows[p]

LEMMA RowBooks ==
  ASSUME Types, Types', BooksInv, SameStripe, ledger' = ledger, recorded' = recorded,
         NEW o \in RowIds, RowStep(o)
  PROVE  BooksInv'
<1>1. /\ made' = made /\ key' = key /\ answer' = answer /\ status' = status /\ age' = age
      /\ RefundsInTurn /\ RowsInTurn /\ NotesHold /\ Debt /\ KeysInTurn
      /\ made \in Nat
  BY Bounds DEF SameStripe, BooksInv, Types, StripeTypes
<1>2. /\ \A p \in RowIds : p # o => rows'[p] = rows[p]
      /\ rows[o].status # "NONE" /\ rows'[o].status # "NONE"
      /\ rows[o].status = "SUCCEEDED" => rows'[o].status = "SUCCEEDED"
      /\ rows'[o].nth = rows[o].nth /\ rows'[o].born = rows[o].born /\ rows'[o].failed = rows[o].failed
      /\ rows[o].suffix <= rows'[o].suffix /\ rows'[o].suffix <= made + 1
  BY DEF RowStep
<1>3a. \A p \in RowIds : p \in Nat /\ rows[p] \in RowT /\ rows'[p] \in RowT
  BY Bounds DEF Types, BookTypes, RowsT
<1>3b. \A p \in RowIds : rows[p].suffix \in Nat /\ rows'[p].suffix \in Nat
  BY <1>3a DEF RowT
<1>3c. \A q \in Refunds : key[q].row \in RowIds /\ key[q].suffix \in Nat
  BY DEF Types, StripeTypes
<1>3. /\ \A p \in RowIds : rows[p] \in RowT /\ rows'[p] \in RowT
      /\ \A p \in RowIds : p \in Nat /\ rows[p].suffix \in Nat /\ rows'[p].suffix \in Nat
      /\ \A q \in Refunds : key[q].row \in RowIds /\ key[q].suffix \in Nat
      /\ Refunds \subseteq RowIds /\ Door \in RowIds /\ Refunds = 1 .. MaxRefunds
      /\ made > 0 => made \in Refunds
  BY <1>3a, <1>3b, <1>3c, <1>1, Bounds DEF Types, StripeTypes, Refunds
<1>4. RefundsInTurn'
  BY <1>1 DEF RefundsInTurn
<1>5. \A p \in RowIds : /\ rows'[p].status # "NONE" <=> rows[p].status # "NONE"
                        /\ rows[p].status = "SUCCEEDED" => rows'[p].status = "SUCCEEDED"
                        /\ rows'[p].nth = rows[p].nth /\ rows'[p].born = rows[p].born
                        /\ rows'[p].failed = rows[p].failed /\ rows[p].suffix <= rows'[p].suffix
                        /\ rows'[p].suffix <= made + 1
                        /\ IsOpen(rows'[p]) => IsOpen(rows[p])
  BY <1>1, <1>2, <1>3, OpenRow DEF KeysInTurn
<1>6. RowsInTurn'
  <2>1. Existing(rows') = Existing(rows)
    BY <1>5 DEF Existing
  <2>2. \A p \in RowIds : rows'[p].status = "NONE" => rows'[p] = NoRow
    BY <1>1, <1>2 DEF RowsInTurn, Exists
  <2> QED BY <1>1, <1>3, <1>5, <2>1, <2>2 DEF RowsInTurn, Exists
<1>7. NotesHold'
  <2>1. ASSUME NEW p \in RowIds, rows'[p].made # NoRefund
        PROVE  /\ rows'[p].made <= made /\ key[rows'[p].made].row = p
               /\ IsOpen(rows'[p]) => rows'[p].made = made /\ ledger[made] = "live"
    BY <1>1, <1>2, <2>1 DEF RowStep, NotesHold
  <2>2. ASSUME NEW p \in RowIds, NEW f \in rows[p].failed
        PROVE  f <= made /\ ledger[f] = "failed" /\ (key[f].row = p => key[f].suffix < rows'[p].suffix)
    <3>1. f \in Refunds
      BY <1>3 DEF RowT
    <3>2. f <= made /\ ledger[f] = "failed" /\ (key[f].row = p => key[f].suffix < rows[p].suffix)
      BY <1>1 DEF NotesHold
    <3> QED BY <1>3, <1>5, <3>1, <3>2
  <2> QED BY <1>1, <1>5, <2>1, <2>2 DEF NotesHold
<1>8. Debt'
  <2>1. ASSUME NEW p \in RowIds, IsOpen(rows[p]) PROVE IsOpen(rows'[p]) \/ (made > 0 /\ ledger[made] = "live")
    BY <1>2, <2>1 DEF RowStep
  <2> QED BY <1>1, <2>1 DEF Debt
<1>9. KeysInTurn'
  <2>1. (\A q \in Refunds : q <= made =>
           Exists(key[q].row) /\ key[q].row < q /\ key[q].suffix <= rows[key[q].row].suffix
           /\ key[q].suffix <= q)'
    <3>1. ASSUME NEW q \in Refunds, q <= made
          PROVE  /\ rows'[key[q].row].status # "NONE" /\ key[q].row < q
                 /\ key[q].suffix <= rows'[key[q].row].suffix /\ key[q].suffix <= q
      <4>1. Exists(key[q].row) /\ key[q].row < q /\ key[q].suffix <= rows[key[q].row].suffix /\ key[q].suffix <= q
        BY <1>1, <3>1 DEF KeysInTurn
      <4>2. /\ key[q].row \in RowIds /\ key[q].suffix \in Nat
            /\ rows[key[q].row].suffix \in Nat /\ rows'[key[q].row].suffix \in Nat
        BY <1>3
      <4>3. /\ rows'[key[q].row].status # "NONE" <=> rows[key[q].row].status # "NONE"
            /\ rows[key[q].row].suffix <= rows'[key[q].row].suffix
        BY <1>5, <4>2
      <4> QED BY <4>1, <4>2, <4>3 DEF Exists
    <3> QED BY <1>1, <3>1 DEF Exists
  <2>2. (made > 0 => Exists(made) \/ Latest(key[made].row))'
    BY <1>1, <1>3, <1>5 DEF KeysInTurn, Latest, Exists
  <2>3. (\A p, q \in Refunds : p < q /\ q <= made /\ key[p].row = key[q].row =>
           key[p].suffix < key[q].suffix \/ (key[p].suffix = key[q].suffix /\ age[p] = "forgotten"))'
    BY <1>1 DEF KeysInTurn
  <2>4. (made > 0 /\ ledger[made] # "failed" /\ IsOpen(rows[key[made].row]) =>
           key[made].suffix = rows[key[made].row].suffix)'
    <3>1. ASSUME made > 0, ledger[made] # "failed", IsOpen(rows'[key[made].row])
          PROVE  key[made].suffix = rows'[key[made].row].suffix
      <4>1. key[made].suffix = rows[key[made].row].suffix
        BY <1>1, <1>3, <1>5, <3>1 DEF KeysInTurn
      <4>2. rows'[key[made].row].suffix = rows[key[made].row].suffix
        BY <1>2, <1>3, <3>1 DEF RowStep
      <4> QED BY <4>1, <4>2
    <3> QED BY <1>1, <3>1
  <2>5. (made = 0 => rows[Door].suffix = 0)'
    <3>1. ASSUME made = 0 PROVE rows'[Door].suffix = 0
      BY <1>1, <1>2, <1>3, <3>1 DEF RowStep, KeysInTurn
    <3> QED BY <1>1, <3>1
  <2>6. (\A p \in RowIds : rows[p].suffix <= made + 1)'
    BY <1>1, <1>5
  <2> QED BY <2>1, <2>2, <2>3, <2>4, <2>5, <2>6 DEF KeysInTurn
<1> QED BY <1>4, <1>6, <1>7, <1>8, <1>9 DEF BooksInv

-----------------------------------------------------------------------------
(* Steps that leave Stripe alone *)

WorkerOk(w) == AttemptInv(w) /\ (Holder(w) => HolderInv(w)) /\ (Late(w) => LateInv(w))

\* What no such step does to the books.
Onward ==
  /\ \A r \in Refunds : ledger[r] = "failed" => ledger'[r] = "failed"
  /\ \A o \in RowIds : rows[o].status # "NONE" => rows'[o].status # "NONE"
  /\ \A r \in Refunds : r <= made =>
       (IsUntouched(rows'[key[r].row]) => IsUntouched(rows[key[r].row]))

\* An attempt whose row is not written.
Apart(w) ==
  Busy(w) => /\ rows'[work[w].row] = rows[work[w].row]
             /\ rows[work[w].row].status = "PROCESSING" /\ made > 0 /\ ledger[made] = "live" =>
                  ledger'[made] = "live"

LEMMA WorkerStays ==
  ASSUME Types, SameStripe, Onward, NEW w \in Workers, Apart(w), work'[w] = work[w], WorkerOk(w)
  PROVE  WorkerOk(w)' /\ (Late(w)' => Late(w)) /\ (Holder(w)' => Holder(w))
<1>1. /\ made' = made /\ key' = key /\ answer' = answer /\ status' = status /\ age' = age
      /\ work[w].row \in RowIds /\ Door \in RowIds /\ (made > 0 => made \in Refunds)
      /\ work[w].pc \in Pcs
  BY Bounds DEF SameStripe, Types, ServerTypes, StripeTypes, WorkT, Refunds
<1>2. CASE work[w].pc = "idle"
  <2>1. AttemptInv(w)'
    BY <1>1, <1>2 DEF WorkerOk, AttemptInv, Busy, Read, Working, Answered
  <2> QED BY <1>1, <1>2, <2>1 DEF WorkerOk, Holder, Late, Busy
<1>3. CASE work[w].pc # "idle"
  <2>1. /\ rows'[work[w].row] = rows[work[w].row]
        /\ (rows[work[w].row].status = "PROCESSING" /\ made > 0 /\ ledger[made] = "live" => ledger'[made] = "live")
    BY <1>3 DEF Apart, Busy
  <2>2. \A r \in Refunds : rows[r].status # "NONE" => rows'[r].status # "NONE"
    BY Bounds DEF Onward
  <2>3. AttemptInv(w)'
    BY <1>1, <1>3, <2>1, <2>2 DEF WorkerOk, AttemptInv, Busy, Read, Seen, Exists, KeyOf
  <2>4. (Holder(w)' => Holder(w)) /\ (Late(w)' => Late(w))
    BY <1>1, <1>3, <2>1 DEF Holder, Late, Busy
  <2>5. ASSUME Holder(w) PROVE HolderInv(w)'
    <3>1. rows[work[w].row].status = "PROCESSING" /\ HolderInv(w)
      BY <2>5 DEF WorkerOk, Holder
    <3>2. work[w].pc \in {"made", "marking", "closing", "refused", "recording"} => made > 0
      BY <1>1, <3>1 DEF WorkerOk, HolderInv, AttemptInv, Answered, Types, ServerTypes, StripeTypes
    <3>3. work[w].pc \in {"made", "marking", "closing"} => made > 0 /\ ledger'[made] = "live"
      BY <2>1, <3>1 DEF HolderInv
    <3>4. /\ work[w].pc = "refused" => ledger'[made] = "failed"
          /\ work[w].pc = "asking" /\ made > 0 => ledger'[made] = "failed" \/ Young(w)
      BY <1>1, <3>1, <3>2 DEF HolderInv, Onward
    <3> QED BY <1>1, <2>1, <3>1, <3>3, <3>4 DEF HolderInv, Young, KeyOf
  <2>6. ASSUME Late(w) PROVE LateInv(w)'
    <3>1. work[w].row = Door
      BY <2>6 DEF WorkerOk, AttemptInv, Late
    <3> QED BY <1>1, <2>1, <2>6, <3>1 DEF WorkerOk, LateInv
  <2> QED BY <2>3, <2>4, <2>5, <2>6 DEF WorkerOk
<1> QED BY <1>2, <1>3

\* A busy attempt's row is held, or is the first row and closed.
LEMMA BusyRow ==
  ASSUME Types, WorkInv, NEW w \in Workers, Busy(w)
  PROVE  /\ work[w].row \in RowIds /\ rows[work[w].row] \in RowT
         /\ Holder(w) => IsOpen(rows[work[w].row]) /\ Held(rows[work[w].row])
         /\ ~Holder(w) => Late(w) /\ work[w].row = Door /\ rows[Door].status = "SUCCEEDED"
<1>1. work[w].row \in RowIds /\ rows[work[w].row] \in RowT
  BY DEF Types, ServerTypes, BookTypes, RowsT, WorkT
<1> QED BY <1>1, OpenRow DEF WorkInv, AttemptInv, Holder, Late, Busy

\* A recording writes no attempt's row, and what a holder was told stays so.
LEMMA RecordingApart ==
  ASSUME Types, BooksInv, WorkInv, Stood \/ (\E o \in RowIds : Took(o)) \/ Wrote
  PROVE  \A w \in Workers : Apart(w)
<1> SUFFICES ASSUME NEW w \in Workers, Busy(w)
             PROVE  /\ rows'[work[w].row] = rows[work[w].row]
                    /\ rows[work[w].row].status = "PROCESSING" /\ made > 0 /\ ledger[made] = "live" =>
                         ledger'[made] = "live"
  BY DEF Apart
<1>1. CASE Stood
  BY <1>1 DEF Stood
<1>2. ASSUME NEW o \in RowIds, Took(o)
      PROVE  rows'[work[w].row] = rows[work[w].row] /\ rows[work[w].row].status # "PROCESSING"
  <2>1. /\ IsOpen(rows[o]) /\ ~Held(rows[o]) /\ \A p \in RowIds : p # o => rows'[p] = rows[p]
        /\ rows[o].status # "SUCCEEDED"
    BY <1>2 DEF Took, IsOpen, Unfinished, Claimable
  <2>2. ~Holder(w)
    BY <2>1, BusyRow, OpenIsLatest, LatestIsOne DEF BooksInv
  <2>3. work[w].row = Door /\ rows[Door].status = "SUCCEEDED"
    BY <2>2, BusyRow
  <2> QED BY <2>1, <2>3, Bounds
<1>3. CASE Wrote
  <2>1. /\ ~Exists(made) /\ \A p \in RowIds : ~IsOpen(rows[p])
        /\ \A p \in RowIds : p # made => rows'[p] = rows[p]
    BY <1>3 DEF Wrote
  <2>2. work[w].row = Door /\ rows[Door].status = "SUCCEEDED"
    BY <2>1, BusyRow
  <2> QED BY <2>1, <2>2, Bounds DEF Exists
<1> QED BY <1>1, <1>2, <1>3

LEMMA RecordingOnward ==
  ASSUME Types, BooksInv, \A r \in Refunds : ledger[r] = "failed" => ledger'[r] = "failed",
         Stood \/ (\E o \in RowIds : Took(o)) \/ Wrote
  PROVE  Onward
<1>1. CASE Stood
  BY <1>1 DEF Stood, Onward
<1>2. ASSUME NEW o \in RowIds, Took(o) PROVE Onward
  <2>1. \A p \in RowIds : rows'[p].status = rows[p].status /\ rows'[p].attempts = rows[p].attempts
    BY <1>2 DEF Took, SameClaim
  <2> QED BY <2>1 DEF Onward, IsUntouched, Types, StripeTypes
<1>3. CASE Wrote
  <2>1. /\ ~Exists(made) /\ rows'[made].status # "NONE"
        /\ \A p \in RowIds : p # made => rows'[p] = rows[p]
    BY <1>3 DEF Wrote
  <2>2. \A r \in Refunds : r <= made => key[r].row # made /\ key[r].row \in RowIds
    BY <2>1 DEF BooksInv, KeysInTurn, Types, StripeTypes
  <2> QED BY <2>1, <2>2 DEF Onward
<1> QED BY <1>1, <1>2, <1>3

\* In the early day the rows stay as they are to be then.
LEMMA RecordingEarly ==
  ASSUME Types, BooksInv, EarlyInv, Early, SameStripe, Stood \/ (\E o \in RowIds : Took(o)) \/ Wrote
  PROVE  \A o \in RowIds : EarlyRow(o)'
<1> SUFFICES ASSUME NEW o \in RowIds PROVE EarlyRow(o)'
  OBVIOUS
<1>1. EarlyRow(o) /\ made' = made
  BY DEF EarlyInv, SameStripe
<1>2. rows'[o] = rows[o] => EarlyRow(o)'
  BY <1>1 DEF EarlyRow
<1>3. CASE Stood
  BY <1>2, <1>3 DEF Stood
<1>4. ASSUME NEW p \in RowIds, Took(p) PROVE EarlyRow(o)'
  <2>1. CASE o # p
    BY <1>2, <1>4, <2>1 DEF Took
  <2>2. CASE o = p
    <3>1. /\ ~IsUntouched(rows[o]) /\ SameClaim(rows'[o], rows[o])
          /\ rows'[o].failed = rows[o].failed \cup {made}
      BY <1>4, <2>2 DEF Took, Held
    <3>2. ~MayClaim(rows'[o]) /\ ~IsUntouched(rows'[o])
      BY <1>1, <3>1 DEF EarlyRow, MayClaim, IsUntouched, SameClaim
    <3> QED BY <1>1, <3>1, <3>2 DEF EarlyRow
  <2> QED BY <2>1, <2>2
<1>5. CASE Wrote
  <2>1. CASE o # made
    BY <1>2, <1>5, <2>1 DEF Wrote
  <2>2. CASE o = made
    <3>1. rows'[o].status = "PENDING" /\ rows'[o].attempts \in {0, MaxAttempts} /\ rows'[o].suffix = 0
      BY <1>5, <2>2 DEF Wrote, NewAttempts
    <3> QED BY <1>1, <3>1, Bounds DEF EarlyRow, MayClaim, IsUntouched
  <2> QED BY <2>1, <2>2
<1> QED BY <1>3, <1>4, <1>5

LEMMA EarlyKeyStays ==
  ASSUME Types, EarlyInv, Early, SameStripe, Onward,
         \A v \in Workers : work'[v].pc \in BeforeAsking =>
           work[v].pc \in BeforeAsking /\ work'[v].row = work[v].row
  PROVE  \A r \in Refunds : EarlyKey(r)'
<1> SUFFICES ASSUME NEW r \in Refunds PROVE EarlyKey(r)'
  OBVIOUS
<1>1. EarlyKey(r) /\ made' = made /\ key' = key
  BY DEF EarlyInv, SameStripe
<1>2. r <= made => (IsUntouched(rows'[key[r].row]) => IsUntouched(rows[key[r].row]))
  BY DEF Onward
<1> QED BY <1>1, <1>2 DEF EarlyKey

LEMMA EarlyWorkStays ==
  ASSUME Types, SameStripe, NEW w \in Workers, EarlyWork(w), Apart(w), work'[w] = work[w]
  PROVE  EarlyWork(w)'
BY DEF EarlyWork, Apart, Holder, Busy

\* A step of the door, a reader of Stripe's news, the clock or the reaper.
LEMMA BookStep ==
  ASSUME Types, RefundInv, SameStripe, Onward, work' = work, \A w \in Workers : Apart(w),
         BooksInv', ChargeInv', DoorInv', door.pc = "done" => door'.pc = "done",
         Early => \A o \in RowIds : EarlyRow(o)'
  PROVE  RefundInv'
<1>1. WorkInv /\ EarlyInv /\ \A w \in Workers : WorkerOk(w) /\ work'[w] = work[w]
  BY DEF RefundInv, WorkInv, WorkerOk
<1>2. \A w \in Workers : WorkerOk(w)' /\ (Late(w)' => Late(w))
  BY <1>1, WorkerStays
<1>3. WorkInv'
  BY <1>1, <1>2 DEF WorkInv, WorkerOk, Busy
<1>4. Early' => Early
  BY <1>2 DEF Early
<1>5. ASSUME Early PROVE (\A r \in Refunds : EarlyKey(r)') /\ (\A w \in Workers : EarlyWork(w)')
  <2>1. \A r \in Refunds : EarlyKey(r)'
    BY <1>1, <1>5, EarlyKeyStays
  <2>2. \A w \in Workers : EarlyWork(w)'
    BY <1>1, <1>5, EarlyWorkStays DEF EarlyInv
  <2> QED BY <2>1, <2>2
<1>6. EarlyInv'
  <2> SUFFICES ASSUME Early'
               PROVE  (\A o \in RowIds : EarlyRow(o)') /\ (\A w \in Workers : EarlyWork(w)')
                      /\ (\A r \in Refunds : EarlyKey(r)')
    BY DEF EarlyInv
  <2> QED BY <1>4, <1>5
<1> QED BY <1>3, <1>6 DEF RefundInv

\* A step of an attempt.
LEMMA WorkerStep ==
  ASSUME Types, RefundInv, SameStripe, Onward, door' = door, charge' = charge, BooksInv', DoorInv',
         NEW w \in Workers, Others(w), Busy(w), Busy(w)' => work'[w].row = work[w].row,
         \A v \in Workers : v # w => Apart(v),
         WorkerOk(w)', Late(w)' => Late(w),
         Early => (\A o \in RowIds : EarlyRow(o)') /\ EarlyWork(w)',
         work'[w].pc \in BeforeAsking => work[w].pc \in BeforeAsking
  PROVE  RefundInv'
<1>1. WorkInv /\ EarlyInv /\ \A v \in Workers : WorkerOk(v)
  BY DEF RefundInv, WorkInv, WorkerOk
<1>2. \A v \in Workers : v # w => work'[v] = work[v]
  BY DEF Others
<1>3. \A v \in Workers : WorkerOk(v)' /\ (Late(v)' => Late(v))
  BY <1>1, <1>2, WorkerStays
<1>4. WorkInv'
  <2>1. \A v \in Workers : Busy(v)' => Busy(v) /\ work'[v].row = work[v].row
    BY <1>2 DEF Busy
  <2>2. ASSUME NEW u \in Workers, NEW v \in Workers, u # v, Busy(u)', Busy(v)' PROVE work'[u].row # work'[v].row
    BY <1>1, <2>1, <2>2 DEF WorkInv
  <2> QED BY <1>3, <2>2 DEF WorkInv, WorkerOk
<1>5. Early' => Early
  BY <1>3 DEF Early
<1>6. ASSUME Early PROVE (\A r \in Refunds : EarlyKey(r)') /\ (\A v \in Workers : EarlyWork(v)')
  <2>1. \A v \in Workers : work'[v].pc \in BeforeAsking =>
           work[v].pc \in BeforeAsking /\ work'[v].row = work[v].row
    BY <1>2 DEF Busy, BeforeAsking
  <2>2. \A r \in Refunds : EarlyKey(r)'
    BY <1>1, <1>6, <2>1, EarlyKeyStays
  <2>3. \A v \in Workers : EarlyWork(v)'
    BY <1>1, <1>2, <1>6, EarlyWorkStays DEF EarlyInv
  <2> QED BY <2>2, <2>3
<1>7. EarlyInv'
  <2> SUFFICES ASSUME Early'
               PROVE  (\A o \in RowIds : EarlyRow(o)') /\ (\A v \in Workers : EarlyWork(v)')
                      /\ (\A r \in Refunds : EarlyKey(r)')
    BY DEF EarlyInv
  <2> QED BY <1>5, <1>6
<1>8. ChargeInv'
  BY DEF RefundInv, ChargeInv, Read, SameStripe
<1> QED BY <1>4, <1>7, <1>8 DEF RefundInv

\* Rows and ledger as they were.
LEMMA SameOnward ==
  ASSUME Types, SameStripe, SameBooks
  PROVE  /\ Onward /\ \A w \in Workers : Apart(w)
         /\ EarlyInv /\ Early => \A o \in RowIds : EarlyRow(o)'
         /\ BooksInv => BooksInv'
         /\ DoorInv /\ door' = door => DoorInv'
<1>1. Onward /\ \A w \in Workers : Apart(w)
  BY DEF SameBooks, SameStripe, Onward, Apart
<1>2. ASSUME EarlyInv, Early, NEW o \in RowIds PROVE EarlyRow(o)'
  BY <1>2 DEF SameBooks, SameStripe, EarlyInv, EarlyRow
<1>3. BooksInv => BooksInv'
  BY BooksStay
<1>4. DoorInv /\ door' = door => DoorInv'
  BY DEF SameBooks, SameStripe, DoorInv
<1> QED BY <1>1, <1>2, <1>3, <1>4

-----------------------------------------------------------------------------
(* Steps of an attempt that write nothing *)

LEMMA QuietStep ==
  ASSUME Types, RefundInv, SameStripe, SameBooks, door' = door, charge' = charge,
         NEW w \in Workers, Others(w), Busy(w), Busy(w)' => work'[w].row = work[w].row,
         WorkerOk(w)', Early => EarlyWork(w)',
         work'[w].pc \in BeforeAsking => work[w].pc \in BeforeAsking
  PROVE  RefundInv'
<1>1. /\ Onward /\ \A v \in Workers : Apart(v)
      /\ Early => \A o \in RowIds : EarlyRow(o)'
      /\ BooksInv' /\ DoorInv'
  BY SameOnward DEF RefundInv
<1>2. Late(w)' => Late(w)
  BY DEF Late, SameBooks
<1> QED BY <1>1, <1>2, WorkerStep

\* An attempt that knows what it knew and is past asking.
LEMMA OverOk ==
  ASSUME Types, RefundInv, SameStripe, NEW w \in Workers, Busy(w),
         work'[w].pc \in {"idle", "failing"}, work'[w].pc = "failing" => work'[w].row = work[w].row,
         work'[w].listing \in {work[w].listing, Nothing},
         rows'[work[w].row].status = rows[work[w].row].status,
         work[w].row = Door => rows'[Door].suffix = rows[Door].suffix
  PROVE  WorkerOk(w)' /\ EarlyWork(w)' /\ (Late(w)' => Late(w))
<1>1. WorkerOk(w) /\ made' = made /\ key' = key /\ status' = status /\ age' = age
  BY DEF RefundInv, WorkInv, WorkerOk, SameStripe
<1>2. Read(work[w].listing)'
  BY <1>1, NothingT DEF WorkerOk, AttemptInv, Read
<1>3. AttemptInv(w)'
  BY <1>1, <1>2 DEF WorkerOk, AttemptInv, Busy, Working, Answered, Seen
<1>4. Holder(w)' => HolderInv(w)'
  BY DEF HolderInv, Working, Answered
<1>5. Late(w)' => Late(w) /\ LateInv(w)'
  <2> SUFFICES ASSUME Late(w)' PROVE Late(w) /\ LateInv(w)'
    OBVIOUS
  <2>1. Late(w)
    BY DEF Late, Busy
  <2>2. work[w].row = Door
    BY <1>1, <2>1 DEF WorkerOk, AttemptInv, Late
  <2> QED BY <1>1, <2>1, <2>2 DEF WorkerOk, LateInv, Working
<1>6. EarlyWork(w)'
  BY DEF EarlyWork, Working
<1> QED BY <1>3, <1>4, <1>5, <1>6 DEF WorkerOk

LEMMA ThrowInv ==
  ASSUME Types, RefundInv, NEW w \in Workers, Throw(w) PROVE RefundInv'
<1>1. /\ SameStripe /\ SameBooks /\ door' = door /\ charge' = charge /\ Others(w)
      /\ work[w].pc \notin {"idle", "failing"} /\ work'[w].pc = "failing"
      /\ work'[w].row = work[w].row /\ work'[w].listing = work[w].listing
  BY ThrowE
<1>2. WorkerOk(w)' /\ EarlyWork(w)'
  BY <1>1, OverOk DEF Busy, SameBooks
<1> QED BY <1>1, <1>2, QuietStep DEF Busy, BeforeAsking

LEMMA CrashInv ==
  ASSUME Types, RefundInv, NEW w \in Workers, Crash(w) PROVE RefundInv'
<1>1. /\ SameStripe /\ SameBooks /\ door' = door /\ charge' = charge /\ Others(w)
      /\ work[w].pc # "idle" /\ work'[w].pc = "idle" /\ work'[w].listing = Nothing
  BY CrashE
<1>2. WorkerOk(w)' /\ EarlyWork(w)'
  BY <1>1, OverOk DEF Busy, SameBooks
<1> QED BY <1>1, <1>2, QuietStep DEF Busy, BeforeAsking

LEMMA ReadClaimInv ==
  ASSUME Types, RefundInv, NEW w \in Workers, ReadClaim(w) PROVE RefundInv'
<1> DEFINE row == rows[work[w].row]
<1>1. /\ SameStripe /\ SameBooks /\ door' = door /\ charge' = charge /\ Others(w)
      /\ work[w].pc = "claimed"
      /\ row.made = NoRefund => work'[w].pc = "listing"
      /\ row.made # NoRefund => work'[w].pc = "closing"
      /\ work'[w].row = work[w].row /\ work'[w].listing = work[w].listing
      /\ work'[w].suffix = row.suffix /\ work'[w].made = row.made /\ work'[w].failed = row.failed
  BY ReadClaimE
<1>2. /\ WorkerOk(w) /\ NotesHold /\ EarlyInv /\ rows' = rows /\ ledger' = ledger /\ Busy(w) /\ Busy(w)'
      /\ made' = made /\ key' = key /\ status' = status /\ age' = age
  BY <1>1 DEF RefundInv, WorkInv, WorkerOk, BooksInv, SameBooks, SameStripe, Busy
<1>3. work[w].row \in RowIds /\ row \in RowT /\ NoRefund = 0 /\ made \in Nat
  BY Bounds DEF Types, ServerTypes, StripeTypes, BookTypes, RowsT, WorkT, NoRefund
<1>4. AttemptInv(w)'
  BY <1>1, <1>2 DEF WorkerOk, AttemptInv, Busy, Read, Working, Answered
<1>5. ASSUME Holder(w) PROVE HolderInv(w)'
  <2>1. row.status = "PROCESSING" /\ IsOpen(row)
    BY <1>3, <1>5, OpenRow DEF Holder
  <2>2. row.made # NoRefund => made > 0 /\ ledger[made] = "live"
    <3>1. row.made # NoRefund => row.made = made /\ ledger[made] = "live" /\ row.made \in 1 .. MaxRefunds
      BY <1>2, <1>3, <2>1 DEF NotesHold, RowT, Refunds
    <3> QED BY <1>3, <3>1
  <2> QED BY <1>1, <1>2, <2>2 DEF HolderInv, Working, Answered
<1>6. ASSUME Late(w) PROVE LateInv(w)'
  <2>1. work[w].row = Door
    BY <1>2, <1>6 DEF WorkerOk, AttemptInv, Late
  <2> QED BY <1>1, <1>2, <1>6, <2>1 DEF WorkerOk, LateInv
<1>7. (Holder(w)' => Holder(w)) /\ (Late(w)' => Late(w))
  BY <1>1, <1>2 DEF Holder, Late
<1>8. Early => EarlyWork(w)'
  BY <1>1, <1>2, <1>7 DEF EarlyInv, EarlyWork
<1> QED BY <1>1, <1>2, <1>4, <1>5, <1>6, <1>7, <1>8, QuietStep DEF WorkerOk, BeforeAsking

LEMMA ListRefundsInv ==
  ASSUME Types, RefundInv, NEW w \in Workers, ListRefunds(w) PROVE RefundInv'
<1>1. /\ SameStripe /\ SameBooks /\ door' = door /\ charge' = charge /\ Others(w)
      /\ work[w].pc = "listing"
      /\ made = 0 => work'[w].pc = "asking"
      /\ made # 0 => work'[w].pc = "recording"
      /\ SameAim(work'[w], work[w]) /\ work'[w].made = work[w].made /\ work'[w].listing = status
  BY ListRefundsE
<1>2. /\ WorkerOk(w) /\ RefundsInTurn /\ EarlyInv /\ rows' = rows /\ ledger' = ledger /\ Busy(w) /\ Busy(w)'
      /\ made' = made /\ key' = key /\ status' = status /\ age' = age
      /\ work'[w].row = work[w].row /\ work'[w].suffix = work[w].suffix /\ work'[w].failed = work[w].failed
      /\ work'[w].pc \in {"asking", "recording"}
  BY <1>1 DEF RefundInv, WorkInv, WorkerOk, BooksInv, SameBooks, SameStripe, Busy, SameAim
<1>3. made \in Nat /\ Refunds \subseteq Nat /\ (made # 0 => made \in Refunds /\ made > 0)
  BY Bounds DEF Types, StripeTypes, Refunds
<1>4. Read(status) /\ Seen(status) /\ (made # 0 => status[made] # "none")
  <2>1. \A r \in Refunds : status[r] # "none" => r <= made
    BY <1>2, <1>3 DEF RefundsInTurn
  <2> QED BY <1>2, <1>3, <2>1 DEF RefundsInTurn, Read, Seen
<1>5. AttemptInv(w)'
  BY <1>1, <1>2, <1>3, <1>4 DEF WorkerOk, AttemptInv, Busy, Read, Seen, Exists, Working, Answered
<1>6. (Holder(w)' => Holder(w)) /\ (Late(w)' => Late(w))
  BY <1>1, <1>2 DEF Holder, Late
<1>7. ASSUME Holder(w) PROVE HolderInv(w)'
  BY <1>1, <1>2, <1>3, <1>4, <1>7 DEF WorkerOk, HolderInv, Working, Answered
<1>8. ASSUME Late(w) PROVE LateInv(w)'
  BY <1>1, <1>2, <1>8 DEF WorkerOk, LateInv, Working
<1>9. Early => EarlyWork(w)'
  BY <1>1, <1>2, <1>6 DEF EarlyInv, EarlyWork, Working
<1> QED BY <1>1, <1>2, <1>5, <1>6, <1>7, <1>8, <1>9, QuietStep DEF WorkerOk, BeforeAsking

\* The refund a holder finds under its own key is the last.
LEMMA LastOfKey ==
  ASSUME Types, RefundInv, NEW w \in Workers, Holder(w), work[w].pc \in Working,
         NEW q \in Refunds, q <= made, key[q] = KeyOf(w), q = made \/ age[q] # "forgotten" \/ Exists(q)
  PROVE  q = made /\ made > 0 /\ ~Exists(made)
<1>1. /\ q \in Nat /\ made \in Nat /\ made \in Refunds /\ made > 0
      /\ key[q].row = work[w].row /\ key[q].suffix = work[w].suffix
      /\ \A r \in Refunds : key[r].suffix \in Nat
  BY Bounds DEF Types, StripeTypes, Refunds, KeyOf
<1>2. /\ IsOpen(rows[work[w].row]) /\ Latest(work[w].row) /\ work[w].row \in RowIds
      /\ rows[work[w].row].suffix = work[w].suffix /\ KeysInTurn /\ RowsInTurn /\ q \in RowIds
  BY BusyRow, OpenIsLatest, Bounds DEF RefundInv, BooksInv, WorkInv, HolderInv, Holder
<1>3. key[q].row < q
  BY <1>2 DEF KeysInTurn
<1>4. ~Exists(q)
  <2>1. ASSUME Exists(q) PROVE FALSE
    <3>1. q <= work[w].row
      BY <1>2, <2>1 DEF Latest
    <3> QED BY <1>1, <1>2, <1>3, <3>1, Bounds
  <2> QED BY <2>1
<1>5. ASSUME q # made PROVE FALSE
  <2>1. q < made
    BY <1>1, <1>5
  <2>2. ~Exists(made)
    <3>1. ASSUME Exists(made) PROVE FALSE
      <4>1. work[w].row = made
        BY <1>1, <1>2, <3>1, OpenAsked
      <4> QED BY <1>1, <1>3, <2>1, <4>1, Bounds
    <3> QED BY <3>1
  <2>3. key[made].row = work[w].row
    BY <1>1, <1>2, <2>2, OpenAsked
  <2>4. key[made].suffix <= work[w].suffix
    BY <1>1, <1>2, <2>3 DEF KeysInTurn
  <2>5. key[q].suffix < key[made].suffix \/ (key[q].suffix = key[made].suffix /\ age[q] = "forgotten")
    BY <1>1, <1>2, <2>1, <2>3 DEF KeysInTurn
  <2>6. ~(key[q].suffix < key[made].suffix)
    BY <1>1, <2>4
  <2> QED BY <1>4, <1>5, <2>5, <2>6
<1> QED BY <1>1, <1>4, <1>5

LEMMA AskRemembered ==
  ASSUME Types, RefundInv, NEW w \in Workers, Ask(w), SameStripe, Remembers(work'[w].refund, KeyOf(w))
  PROVE  RefundInv'
<1>1. /\ SameBooks /\ door' = door /\ charge' = charge /\ Others(w)
      /\ work[w].pc = "asking" /\ work'[w].pc = "answered" /\ work'[w].refund \in Refunds
      /\ SameAim(work'[w], work[w]) /\ work'[w].made = work[w].made
      /\ work'[w].listing = work[w].listing
  BY AskE
<1>2. /\ WorkerOk(w) /\ RefundsInTurn /\ EarlyInv /\ rows' = rows /\ ledger' = ledger /\ Busy(w) /\ Busy(w)'
      /\ made' = made /\ key' = key /\ status' = status /\ age' = age
      /\ work'[w].row = work[w].row /\ work'[w].suffix = work[w].suffix /\ work'[w].failed = work[w].failed
  BY <1>1 DEF RefundInv, WorkInv, WorkerOk, BooksInv, SameBooks, SameStripe, Busy, SameAim
<1>3. /\ work'[w].refund <= made /\ work'[w].refund \in 1 .. made /\ key[work'[w].refund] = KeyOf(w)
      /\ age[work'[w].refund] # "forgotten"
  <2>1. age[work'[w].refund] \in {"young", "old"} /\ key[work'[w].refund] = KeyOf(w)
    BY DEF Remembers
  <2>2. ~(work'[w].refund > made)
    BY <1>1, <1>2, <2>1 DEF RefundsInTurn
  <2> QED BY <1>1, <2>1, <2>2, Bounds DEF Types, StripeTypes, Refunds
<1>4. AttemptInv(w)'
  BY <1>1, <1>2, <1>3 DEF WorkerOk, AttemptInv, Busy, Read, KeyOf, Working, Answered
<1>5. (Holder(w)' => Holder(w)) /\ (Late(w)' => Late(w))
  BY <1>1, <1>2 DEF Holder, Late
<1>6. ASSUME Holder(w) PROVE HolderInv(w)'
  <2>1. work'[w].refund = made
    BY <1>1, <1>3, <1>6, LastOfKey DEF Working
  <2> QED BY <1>1, <1>2, <1>6, <2>1 DEF WorkerOk, HolderInv, Working, Answered
<1>7. ASSUME Late(w) PROVE LateInv(w)'
  BY <1>1, <1>2, <1>7 DEF WorkerOk, LateInv, Working
<1>8. Early => EarlyWork(w)'
  BY <1>1, <1>2, <1>5 DEF EarlyInv, EarlyWork, Working
<1> QED BY <1>1, <1>2, <1>4, <1>5, <1>6, <1>7, <1>8, QuietStep DEF WorkerOk, BeforeAsking

-----------------------------------------------------------------------------
(* Steps that record *)

LEMMA RecordingStep ==
  ASSUME Types, RefundInv, NEW listing \in Listings, Read(listing), Seen(listing), Aware(listing),
         Commit(Recording(listing)), SameStripe
  PROVE  /\ BooksInv' /\ Onward /\ (\A w \in Workers : Apart(w))
         /\ Early => \A o \in RowIds : EarlyRow(o)'
         /\ IsOpen(rows'[Door]) /\ Plan(rows'[Door]) = SentPlan => rows' = rows
         /\ \A r \in Refunds : ledger[r] = "failed" => ledger'[r] = "failed"
         /\ made > 0 => ledger'[made] = IF listing[made] = "none" \/ ledger[made] = "failed"
                                        THEN ledger[made] ELSE listing[made]
<1>1. BooksInv /\ WorkInv /\ EarlyInv /\ RefundsInTurn /\ RowsInTurn
  BY DEF RefundInv, BooksInv
<1>2. /\ \A r \in Refunds : ledger[r] = "failed" => ledger'[r] = "failed"
      /\ made > 0 => ledger'[made] = IF listing[made] = "none" \/ ledger[made] = "failed"
                                     THEN ledger[made] ELSE listing[made]
  BY <1>1, RecordingRefunds
<1>3. Stood \/ (\E o \in RowIds : Took(o)) \/ Wrote
  BY <1>1, RecordingE
<1>4. BooksInv'
  BY <1>1, RecordingBooks
<1>5. Onward /\ \A w \in Workers : Apart(w)
  BY <1>1, <1>2, <1>3, RecordingOnward, RecordingApart
<1>6. Early => \A o \in RowIds : EarlyRow(o)'
  BY <1>1, <1>3, RecordingEarly
<1>7. IsOpen(rows'[Door]) /\ Plan(rows'[Door]) = SentPlan => rows' = rows
  <2> SUFFICES ASSUME IsOpen(rows'[Door]), Plan(rows'[Door]) = SentPlan PROVE rows' = rows
    OBVIOUS
  <2>1. rows'[Door].suffix = 0
    BY DEF Plan, SentPlan
  <2>2. CASE Stood
    BY <2>2 DEF Stood
  <2>3. ASSUME NEW o \in RowIds, Took(o) PROVE FALSE
    <3>1. o # Door
      <4>1. rows[o].suffix \in Nat /\ rows'[o].suffix = rows[o].suffix + 1
        BY <2>3 DEF Took, Types, BookTypes, RowsT, RowT
      <4> QED BY <2>1, <4>1
    <3>2. IsOpen(rows[o]) /\ IsOpen(rows[Door])
      BY <2>3, <3>1, Bounds DEF Took
    <3> QED BY <1>1, <3>1, <3>2, OpenIsLatest, LatestIsOne, Bounds
  <2>4. CASE Wrote
    BY <2>4, Bounds DEF Wrote
  <2> QED BY <1>3, <2>2, <2>3, <2>4
<1> QED BY <1>2, <1>4, <1>5, <1>6, <1>7

LEMMA RecordingDoor ==
  ASSUME Types, RefundInv, NEW listing \in Listings, Read(listing), Seen(listing), Aware(listing),
         Commit(Recording(listing)), SameStripe, door' = door
  PROVE  DoorInv'
<1>1. /\ IsOpen(rows'[Door]) /\ Plan(rows'[Door]) = SentPlan => rows' = rows
      /\ \A r \in Refunds : ledger[r] = "failed" => ledger'[r] = "failed"
      /\ made > 0 => ledger'[made] = IF listing[made] = "none" \/ ledger[made] = "failed"
                                     THEN ledger[made] ELSE listing[made]
  BY RecordingStep
<1>2. DoorInv /\ BooksInv /\ 1 \in Refunds /\ made' = made /\ key' = key /\ age' = age
  BY Bounds DEF RefundInv, SameStripe, Refunds
<1>3. ASSUME door.pc = "made", IsOpen(rows'[Door]), Plan(rows'[Door]) = SentPlan
      PROVE  made = 1 /\ ledger'[1] = "live"
  <2>1. rows' = rows /\ made = 1 /\ ledger[1] = "live"
    BY <1>1, <1>2, <1>3 DEF DoorInv
  <2>2. ~Raises(listing) /\ ~Replans(listing) /\ ~Refuses(listing)
    <3>1. \E o \in RowIds : IsOpen(rows[o])
      BY <1>3, <2>1, Bounds
    <3>2. Refuses(listing) => FALSE
      BY <2>1 DEF Refuses
    <3>3. Replans(listing) => FALSE
      <4>1. ASSUME Replans(listing) PROVE FALSE
        <5>1. key[made].row \in RowIds /\ rows[key[made].row].suffix \in Nat /\ rows[key[made].row] \in RowT
          BY <1>2, <2>1 DEF Types, StripeTypes, BookTypes, RowsT, RowT
        <5>2. rows'[key[made].row].suffix = rows[key[made].row].suffix + 1
          BY <1>2, <2>1, <4>1, <5>1, ReplannedT DEF Replans
        <5> QED BY <2>1, <5>1, <5>2
      <4> QED BY <4>1
    <3> QED BY <3>1, <3>2, <3>3 DEF Raises
  <2>3. Keeps(listing)
    BY <1>2, <2>2, CommitE
  <2>4. made > 0 /\ ledger[made] = "live" /\ listing[made] # "failed"
    BY <2>1, <2>3 DEF Keeps
  <2>5. ledger'[made] = "live"
    BY <1>1, <1>2, <2>1, <2>4 DEF Listings
  <2> QED BY <2>1, <2>5
<1> QED BY <1>1, <1>2, <1>3 DEF DoorInv

\* A holder is told whether the refund under its key counts.
LEMMA HolderTold ==
  ASSUME Types, RefundInv, NEW listing \in Listings, Read(listing), Seen(listing),
         Commit(Recording(listing)), SameStripe,
         NEW w \in Workers, Holder(w), work[w].pc \in Working,
         made > 0, key[made] = KeyOf(w), listing[made] = "live"
  PROVE  /\ made \notin Recording(listing).refused => ledger'[made] = "live"
         /\ made \in Recording(listing).refused => ledger'[made] = "failed"
<1>1. /\ made \in Refunds /\ made <= made /\ BooksInv /\ RefundsInTurn /\ RowsInTurn /\ NotesHold /\ WorkInv
      /\ HolderInv(w) /\ key[made].suffix \in Nat
  BY Bounds DEF Types, StripeTypes, Refunds, RefundInv, BooksInv, WorkInv
<1>2. ledger'[made] = IF ledger[made] = "failed" THEN ledger[made] ELSE "live"
  BY <1>1, RecordingRefunds
<1>3. ~Exists(made)
  BY <1>1, LastOfKey
<1>4. /\ IsOpen(rows[work[w].row]) /\ Held(rows[work[w].row]) /\ work[w].row \in RowIds
      /\ key[made].row = work[w].row /\ key[made].suffix = rows[work[w].row].suffix
  BY <1>1, BusyRow DEF Holder, KeyOf, HolderInv
<1>5. Keeps(listing) \/ Refuses(listing)
  BY <1>1, <1>4, CommitE DEF Replans, Raises
<1>6. CASE Keeps(listing)
  <2>1. ASSUME ledger[made] = "failed" PROVE FALSE
    <3>1. PICK o \in RowIds : IsOpen(rows[o]) /\ made \in rows[o].failed
      BY <1>3, <1>6, <2>1 DEF Keeps
    <3>2. o = work[w].row
      BY <1>1, <1>4, <3>1, OpenIsLatest, LatestIsOne
    <3>3. key[made].suffix < rows[o].suffix
      BY <1>1, <1>4, <3>1, <3>2 DEF NotesHold
    <3> QED BY <1>1, <1>4, <3>2, <3>3
  <2> QED BY <1>2, <1>6, <2>1 DEF Keeps
<1>7. CASE Refuses(listing)
  BY <1>2, <1>7 DEF Refuses
<1> QED BY <1>5, <1>6, <1>7

\* An attempt at work is aware of what it reads.
LEMMA BusyAware ==
  ASSUME Types, RefundInv, NEW w \in Workers, Busy(w), NEW listing
  PROVE  Aware(listing)
<1>1. WorkInv /\ RowsInTurn
  BY DEF RefundInv, BooksInv
<1>2. CASE Late(w)
  BY <1>2 DEF Aware, Early
<1>3. CASE ~Late(w)
  <2>1. work[w].row \in RowIds /\ IsOpen(rows[work[w].row]) /\ Held(rows[work[w].row])
    BY <1>1, <1>3, BusyRow
  <2>2. \A o \in RowIds : IsOpen(rows[o]) => o = work[w].row
    BY <1>1, <2>1, OpenIsLatest, LatestIsOne
  <2> QED BY <2>1, <2>2 DEF Aware
<1> QED BY <1>2, <1>3

LEMMA RecordListingInv ==
  ASSUME Types, RefundInv, NEW w \in Workers, RecordListing(w) PROVE RefundInv'
<1> DEFINE listing == work[w].listing
           own == OwnListed(work[w]) \ Recording(listing).refused
<1>1. /\ SameStripe /\ door' = door /\ charge' = charge /\ Others(w)
      /\ work[w].pc = "recording" /\ listing \in Listings
      /\ SameAim(work'[w], work[w])
      /\ \/ SameBooks /\ work'[w].pc = "failing" /\ work'[w].listing = listing
         \/ /\ Commit(Recording(listing))
            /\ work'[w].listing = Nothing /\ work'[w].made = work[w].made
            /\ \/ own = {} /\ work'[w].pc = "asking"
               \/ own # {} /\ work'[w].pc = "marking" /\ work'[w].refund \in own
  BY RecordListingE
<1>2. /\ WorkerOk(w) /\ BooksInv /\ RefundsInTurn /\ KeysInTurn /\ RowsInTurn /\ EarlyInv /\ Busy(w) /\ WorkInv
      /\ made' = made /\ key' = key /\ status' = status /\ age' = age
      /\ work'[w].row = work[w].row /\ work'[w].suffix = work[w].suffix /\ work'[w].failed = work[w].failed
  BY <1>1 DEF RefundInv, WorkInv, WorkerOk, BooksInv, SameStripe, Busy, SameAim
<1>3. Read(listing) /\ Seen(listing) /\ made > 0 /\ work[w].made = NoRefund
  BY <1>1, <1>2 DEF WorkerOk, AttemptInv, Working
<1>4. Aware(listing)
  BY <1>2, BusyAware
<1>5. CASE SameBooks /\ work'[w].pc = "failing" /\ work'[w].listing = listing
  <2>1. WorkerOk(w)' /\ EarlyWork(w)'
    BY <1>1, <1>2, <1>5, OverOk DEF SameBooks
  <2> QED BY <1>1, <1>2, <1>5, <2>1, QuietStep DEF BeforeAsking
<1>6. CASE /\ Commit(Recording(listing))
           /\ work'[w].listing = Nothing /\ work'[w].made = work[w].made
           /\ \/ own = {} /\ work'[w].pc = "asking"
              \/ own # {} /\ work'[w].pc = "marking" /\ work'[w].refund \in own
  <2>1. /\ BooksInv' /\ Onward /\ (\A v \in Workers : Apart(v))
        /\ Early => \A o \in RowIds : EarlyRow(o)'
        /\ \A r \in Refunds : ledger[r] = "failed" => ledger'[r] = "failed"
        /\ made > 0 => ledger'[made] = IF listing[made] = "none" \/ ledger[made] = "failed"
                                        THEN ledger[made] ELSE listing[made]
    BY <1>1, <1>3, <1>4, <1>6, RecordingStep
  <2>2. DoorInv'
    BY <1>1, <1>3, <1>4, <1>6, RecordingDoor
  <2>3. rows'[work[w].row] = rows[work[w].row] /\ (work[w].row = Door => rows'[Door] = rows[Door])
    BY <1>2, <2>1 DEF Apart
  <2>4. (Holder(w)' => Holder(w)) /\ (Late(w)' => Late(w))
    BY <1>1, <1>2, <2>3 DEF Holder, Late
  <2>5. \A r \in own : /\ r \in Refunds /\ listing[r] = "live" /\ r \notin Recording(listing).refused
                       /\ key[r] = KeyOf(w) /\ r <= made /\ r \in 1 .. made
    BY <1>3, Bounds DEF OwnListed, KeyOf, Read, Refunds, Types, StripeTypes
  <2>6. Read(work[w].listing)'
    BY <1>6, NothingT DEF Read
  <2>7. AttemptInv(w)'
    BY <1>1, <1>2, <1>3, <1>6, <2>3, <2>5, <2>6 DEF WorkerOk, AttemptInv, Busy, KeyOf, Working, Answered
  <2>8. ASSUME Holder(w) PROVE HolderInv(w)'
    <3>1. HolderInv(w) /\ work[w].pc \in Working /\ made \in Refunds
      BY <1>1, <1>2, <1>3, <2>8, Bounds DEF WorkerOk, Working, Types, StripeTypes, Refunds
    <3>2. CASE own = {} /\ work'[w].pc = "asking"
      <4>1. ledger'[made] = "failed" \/ Young(w)
        <5>1. CASE listing[made] = "none"
          BY <1>1, <3>1, <5>1 DEF HolderInv
        <5>2. CASE listing[made] = "failed"
          BY <1>3, <2>1, <5>2
        <5>3. CASE listing[made] = "live" /\ key[made] = KeyOf(w)
          <6>1. made \in Recording(listing).refused
            BY <3>1, <3>2, <5>3 DEF OwnListed, KeyOf
          <6> QED BY <1>1, <1>3, <1>6, <2>8, <3>1, <5>3, <6>1, HolderTold
        <5>4. CASE listing[made] = "live" /\ key[made] # KeyOf(w)
          <6>1. IsOpen(rows[work[w].row]) /\ work[w].row \in RowIds
            BY <1>2, <2>8, BusyRow
          <6>2. CASE Exists(made)
            BY <1>2, <2>1, <3>1, <6>2 DEF RowsInTurn
          <6>3. CASE ~Exists(made)
            <7>1. key[made].row = work[w].row
              BY <1>2, <1>3, <6>1, <6>3, OpenAsked
            <7>2. key[made].suffix # work[w].suffix
              BY <3>1, <5>4, <7>1 DEF KeyOf, Types, StripeTypes
            <7>3. ledger[made] = "failed"
              BY <1>1, <1>2, <1>3, <3>1, <6>1, <7>1, <7>2 DEF KeysInTurn, HolderInv
            <7> QED BY <2>1, <3>1, <7>3
          <6> QED BY <6>2, <6>3
        <5> QED BY <1>1, <3>1, <5>1, <5>2, <5>3, <5>4 DEF Listings
      <4> QED BY <1>2, <2>3, <3>1, <3>2, <4>1 DEF HolderInv, Working, Answered, Young, KeyOf
    <3>3. CASE own # {} /\ work'[w].pc = "marking" /\ work'[w].refund \in own
      <4>1. work'[w].refund = made
        <5>1. /\ work'[w].refund \in Refunds /\ work'[w].refund <= made
              /\ key[work'[w].refund] = KeyOf(w) /\ listing[work'[w].refund] = "live"
          BY <2>5, <3>3
        <5>2. work'[w].refund = made \/ Exists(work'[w].refund)
          <6>1. work'[w].refund \in Nat /\ made \in Nat
            BY <5>1, Bounds DEF Refunds, Types, StripeTypes
          <6>2. work'[w].refund = made \/ work'[w].refund < made
            BY <5>1, <6>1
          <6> QED BY <1>3, <5>1, <6>2 DEF Seen
        <5> QED BY <2>8, <3>1, <5>1, <5>2, LastOfKey
      <4>2. ledger'[made] = "live"
        BY <1>1, <1>3, <1>6, <2>5, <2>8, <3>1, <3>3, <4>1, HolderTold
      <4> QED BY <1>2, <1>3, <2>3, <3>1, <3>3, <4>1, <4>2 DEF HolderInv, Working, Answered
    <3> QED BY <1>6, <3>2, <3>3
  <2>9. ASSUME Late(w) PROVE LateInv(w)'
    <3>1. work[w].row = Door
      BY <1>2, <2>9 DEF WorkerOk, AttemptInv, Late
    <3> QED BY <1>1, <1>2, <2>3, <2>9, <3>1 DEF WorkerOk, LateInv, Working
  <2>10. Early => EarlyWork(w)'
    BY <1>1, <1>2, <1>6, <2>4 DEF EarlyInv, EarlyWork, Working
  <2>11. work'[w].pc \in BeforeAsking => work[w].pc \in BeforeAsking
    BY <1>1 DEF BeforeAsking
  <2> QED BY <1>1, <1>2, <2>1, <2>2, <2>4, <2>7, <2>8, <2>9, <2>10, <2>11, WorkerStep DEF WorkerOk
<1> QED BY <1>1, <1>5, <1>6

\* In the early day refund 1 is the first row's only one, and what came of its failure is on the books.
LEMMA EarlySeen ==
  ASSUME Types, RefundInv, Early, made > 1
  PROVE  Exists(1)
<1>1. /\ 2 \in Refunds /\ 2 <= made /\ key[2].row \in RowIds /\ RowIds \subseteq Nat /\ Door = 0
  BY Bounds DEF Types, StripeTypes, Refunds, Door
<1>2. key[2].row # Door
  BY <1>1 DEF RefundInv, EarlyInv, EarlyKey
<1>3. Exists(key[2].row) /\ key[2].row < 2
  BY <1>1 DEF RefundInv, BooksInv, KeysInTurn
<1>4. key[2].row = 1
  <2>1. key[2].row \in Nat /\ key[2].row # 0 /\ key[2].row < 2
    BY <1>1, <1>2, <1>3
  <2> QED BY <2>1
<1> QED BY <1>3, <1>4

LEMMA LateRefund ==
  ASSUME Types, RefundInv, NEW w \in Workers, Late(w), work[w].pc \in Answered
  PROVE  work[w].refund = 1
<1>1. work[w].row = Door /\ work[w].refund \in 1 .. made /\ key[work[w].refund] = KeyOf(w)
  BY DEF RefundInv, WorkInv, AttemptInv, Late
<1>2. work[w].refund \in Refunds /\ work[w].refund <= made
  BY <1>1, Bounds DEF Types, StripeTypes, Refunds
<1>3. key[work[w].refund].row = Door
  BY <1>1 DEF KeyOf
<1> QED BY <1>2, <1>3 DEF RefundInv, EarlyInv, EarlyKey, Early

\* The answer to a call, as it is recorded.
LEMMA AnswerRead ==
  ASSUME Types, RefundInv, NEW r \in Refunds, r <= made, r = made \/ (r = 1 /\ Early)
  PROVE  /\ Read(Only(r, answer[r])) /\ Seen(Only(r, answer[r]))
         /\ answer[r] \in {"live", "failed"} /\ Only(r, answer[r])[r] = answer[r]
<1>1. answer[r] \in {"live", "failed"}
  BY DEF RefundInv, BooksInv, RefundsInTurn, Types, StripeTypes, Listings
<1>2. /\ Only(r, answer[r])[r] = answer[r]
      /\ \A q \in Refunds : q # r => Only(r, answer[r])[q] = "none"
  BY <1>1, OnlyT
<1>3. answer[r] = "failed" => status[r] = "failed"
  BY DEF RefundInv, BooksInv, RefundsInTurn
<1>4. r < made => Exists(r)
  <2>1. ASSUME r < made PROVE Exists(r)
    <3>1. made \in Nat /\ r # made
      BY <2>1, Bounds DEF Types, StripeTypes, Refunds
    <3> QED BY <2>1, <3>1, EarlySeen
  <2> QED BY <2>1
<1> QED BY <1>1, <1>2, <1>3, <1>4 DEF Read, Seen

LEMMA RefusedOnes ==
  ASSUME Types, RefundInv, NEW listing \in Listings, Read(listing), Seen(listing),
         Commit(Recording(listing)), NEW r \in Recording(listing).refused
  PROVE  r = made /\ ledger[made] = "failed" /\ Refuses(listing)
BY CommitE DEF RefundInv, Keeps, Replans, Raises, Refuses

LEMMA RecordAnswerInv ==
  ASSUME Types, RefundInv, NEW w \in Workers, RecordAnswer(w) PROVE RefundInv'
<1> DEFINE r == work[w].refund
           listing == Only(r, answer[r])
           refused == answer[r] = "failed" \/ r \in Recording(listing).refused
<1>1. /\ SameStripe /\ door' = door /\ charge' = charge /\ Others(w)
      /\ work[w].pc = "answered" /\ r \in Refunds /\ listing \in Listings
      /\ Commit(Recording(listing))
      /\ SameAim(work'[w], work[w]) /\ work'[w].made = work[w].made
      /\ work'[w].listing = work[w].listing /\ work'[w].refund = r
      /\ refused => work'[w].pc = "refused"
      /\ ~refused => work'[w].pc \in {"made", "closing"}
  BY RecordAnswerE
<1>2. /\ WorkerOk(w) /\ BooksInv /\ RefundsInTurn /\ RowsInTurn /\ EarlyInv /\ Busy(w) /\ WorkInv
      /\ made' = made /\ key' = key /\ status' = status /\ age' = age
      /\ work'[w].row = work[w].row /\ work'[w].suffix = work[w].suffix /\ work'[w].failed = work[w].failed
      /\ work'[w].pc \in {"refused", "made", "closing"}
  BY <1>1 DEF RefundInv, WorkInv, WorkerOk, BooksInv, SameStripe, Busy, SameAim
<1>3. /\ r \in 1 .. made /\ r <= made /\ made > 0 /\ key[r] = KeyOf(w) /\ work[w].made = NoRefund
      /\ made \in Nat
  BY <1>1, <1>2, Bounds DEF WorkerOk, AttemptInv, Working, Answered, Types, StripeTypes
<1>4. r = made \/ (r = 1 /\ Early)
  <2>1. CASE Holder(w)
    BY <1>1, <1>2, <2>1 DEF WorkerOk, HolderInv, Answered
  <2>2. CASE ~Holder(w)
    BY <1>1, <1>2, <2>2, BusyRow, LateRefund DEF Answered, Early
  <2> QED BY <2>1, <2>2
<1>5. /\ Read(listing) /\ Seen(listing) /\ answer[r] \in {"live", "failed"} /\ listing[r] = answer[r]
  BY <1>1, <1>3, <1>4, AnswerRead
<1>6. Aware(listing)
  BY <1>2, BusyAware
<1> HIDE DEF listing
<1>7. /\ BooksInv' /\ Onward /\ (\A v \in Workers : Apart(v))
      /\ Early => \A o \in RowIds : EarlyRow(o)'
      /\ made > 0 => ledger'[made] = IF listing[made] = "none" \/ ledger[made] = "failed"
                                     THEN ledger[made] ELSE listing[made]
  BY <1>1, <1>5, <1>6, RecordingStep
<1>8. DoorInv'
  BY <1>1, <1>5, <1>6, RecordingDoor
<1>9. rows'[work[w].row] = rows[work[w].row] /\ (work[w].row = Door => rows'[Door] = rows[Door])
  BY <1>2, <1>7 DEF Apart
<1>10. (Holder(w)' => Holder(w)) /\ (Late(w)' => Late(w))
  BY <1>1, <1>2, <1>9 DEF Holder, Late
<1>11. AttemptInv(w)'
  BY <1>1, <1>2, <1>3, <1>9 DEF WorkerOk, AttemptInv, Busy, KeyOf, Working, Answered, Read
<1>12. ASSUME Holder(w) PROVE HolderInv(w)'
  <2>1. HolderInv(w) /\ work[w].pc \in Working /\ r = made
    BY <1>1, <1>2, <1>12 DEF WorkerOk, HolderInv, Working, Answered
  <2>2. ASSUME refused PROVE ledger'[made] = "failed"
    <3>1. CASE answer[r] = "failed"
      BY <1>3, <1>5, <1>7, <2>1, <3>1
    <3>2. CASE r \in Recording(listing).refused
      <4>1. ledger[made] = "failed"
        BY <1>1, <1>5, <3>2, RefusedOnes
      <4> QED BY <1>3, <1>7, <4>1
    <3> QED BY <2>2, <3>1, <3>2
  <2>3. ASSUME ~refused PROVE ledger'[made] = "live"
    <3>1. listing[made] = "live" /\ made \notin Recording(listing).refused /\ key[made] = KeyOf(w)
      BY <1>3, <1>5, <2>1, <2>3
    <3> QED BY <1>1, <1>3, <1>5, <1>12, <2>1, <3>1, HolderTold
  <2> QED BY <1>1, <1>2, <1>3, <1>9, <2>1, <2>2, <2>3 DEF HolderInv, Working, Answered
<1>13. ASSUME Late(w) PROVE LateInv(w)'
  <2>1. work[w].row = Door
    BY <1>2, <1>13 DEF WorkerOk, AttemptInv, Late
  <2> QED BY <1>1, <1>2, <1>9, <1>13, <2>1 DEF WorkerOk, LateInv, Working
<1>14. Early => EarlyWork(w)'
  BY <1>1, <1>2, <1>10 DEF EarlyInv, EarlyWork, Working
<1>15. work'[w].pc \notin BeforeAsking
  BY <1>2 DEF BeforeAsking
<1> QED BY <1>1, <1>2, <1>7, <1>8, <1>10, <1>11, <1>12, <1>13, <1>14, <1>15, WorkerStep DEF WorkerOk

LEMMA DoorRecordsInv ==
  ASSUME Types, RefundInv, DoorRecords PROVE RefundInv'
<1> DEFINE listing == Only(1, answer[1])
           refused == answer[1] = "failed" \/ 1 \in Recording(listing).refused
<1>1. /\ door.pc = "answered" /\ door.refund = 1 /\ made > 0 /\ Early /\ DoorInv
      /\ 1 \in Refunds /\ made \in Nat /\ BooksInv /\ RowsInTurn /\ RefundsInTurn
  <2>1. door.pc = "answered"
    BY DEF DoorRecords
  <2> QED BY <2>1, Bounds DEF RefundInv, BooksInv, DoorInv, Early, Refunds, Types, StripeTypes
<1>2. /\ SameStripe /\ work' = work /\ charge' = charge /\ listing \in Listings
      /\ Commit(Recording(listing))
      /\ door'.refund = 1
      /\ refused => door'.pc = "refused"
      /\ ~refused => door'.pc = "made"
  BY <1>1, DoorRecordsE
<1>3. /\ Read(listing) /\ Seen(listing) /\ answer[1] \in {"live", "failed"} /\ listing[1] = answer[1]
  BY <1>1, AnswerRead
<1>4. Aware(listing)
  BY <1>1 DEF Aware
<1> HIDE DEF listing
<1>5. /\ BooksInv' /\ Onward /\ (\A v \in Workers : Apart(v))
      /\ Early => \A o \in RowIds : EarlyRow(o)'
      /\ IsOpen(rows'[Door]) /\ Plan(rows'[Door]) = SentPlan => rows' = rows
      /\ \A q \in Refunds : ledger[q] = "failed" => ledger'[q] = "failed"
      /\ made > 0 => ledger'[made] = IF listing[made] = "none" \/ ledger[made] = "failed"
                                     THEN ledger[made] ELSE listing[made]
  BY <1>2, <1>3, <1>4, RecordingStep
<1>6. ASSUME refused PROVE ledger'[1] = "failed"
  <2>1. CASE made # 1
    <3>1. 1 < made
      BY <1>1, <2>1
    <3> QED BY <1>1, <1>5, <3>1 DEF RefundsInTurn
  <2>2. CASE made = 1 /\ answer[1] = "failed"
    BY <1>1, <1>3, <1>5, <2>2
  <2>3. CASE made = 1 /\ 1 \in Recording(listing).refused
    <3>1. ledger[1] = "failed"
      BY <1>2, <1>3, <2>3, RefusedOnes
    <3> QED BY <1>1, <1>5, <3>1
  <2> QED BY <1>6, <2>1, <2>2, <2>3
<1>7. ASSUME ~refused, IsOpen(rows'[Door]), Plan(rows'[Door]) = SentPlan
      PROVE  made = 1 /\ ledger'[1] = "live"
  <2>1. rows' = rows /\ IsOpen(rows[Door]) /\ Plan(rows[Door]) = SentPlan
    BY <1>5, <1>7
  <2>2. Latest(Door) /\ ~Exists(1)
    <3>1. Latest(Door) /\ 1 \in RowIds /\ ~(1 <= Door)
      BY <1>1, <2>1, OpenIsLatest, Bounds DEF Door
    <3> QED BY <3>1 DEF Latest
  <2>3. made = 1
    <3>1. ~(made > 1)
      BY <1>1, <2>2, EarlySeen
    <3> QED BY <1>1, <3>1
  <2>4. answer[1] = "live" /\ listing[made] = "live"
    BY <1>3, <1>7, <2>3
  <2>5. ledger[made] # "failed"
    <3> SUFFICES ASSUME ledger[made] = "failed" PROVE FALSE
      OBVIOUS
    <3>1. CASE Keeps(listing)
      <4>1. PICK o \in RowIds : IsOpen(rows[o]) /\ made \in rows[o].failed
        BY <2>2, <2>3, <2>4, <3>1 DEF Keeps
      <4>2. o = Door
        BY <1>1, <2>2, <4>1, OpenIsLatest, LatestIsOne, Bounds
      <4>3. rows[Door].failed = {}
        BY <2>1 DEF Plan, SentPlan
      <4> QED BY <4>1, <4>2, <4>3
    <3>2. CASE Replans(listing)
      <4>1. key[made].row \in RowIds /\ rows[key[made].row].suffix \in Nat /\ rows[key[made].row] \in RowT
        BY <1>1, <2>3 DEF Types, StripeTypes, BookTypes, RowsT, RowT
      <4>2. rows'[key[made].row].suffix = rows[key[made].row].suffix + 1
        BY <1>1, <2>3, <3>2, <4>1, ReplannedT DEF Replans
      <4> QED BY <2>1, <4>1, <4>2
    <3>3. CASE Raises(listing)
      BY <3>3 DEF Raises
    <3>4. CASE Refuses(listing)
      BY <1>7, <2>3, <3>4 DEF Refuses
    <3> QED BY <1>1, <1>2, <1>3, <3>1, <3>2, <3>3, <3>4, CommitE
  <2>6. ledger'[made] = "live"
    BY <1>1, <1>5, <2>4, <2>5
  <2> QED BY <2>3, <2>6
<1>8. DoorInv'
  <2>1. made' = made /\ key' = key /\ age' = age /\ door'.pc \in {"refused", "made"}
        /\ key[1] = FirstKey /\ age[1] = "young"
    BY <1>1, <1>2 DEF SameStripe, DoorInv
  <2> QED BY <1>1, <1>2, <1>6, <1>7, <2>1 DEF DoorInv
<1>9. ChargeInv'
  BY <1>2 DEF RefundInv, ChargeInv, Read, SameStripe
<1> QED BY <1>1, <1>2, <1>5, <1>8, <1>9, BookStep

LEMMA RecordFailureInv ==
  ASSUME Types, RefundInv, NEW r \in Refunds, RecordFailure(r) PROVE RefundInv'
<1> DEFINE listing == Only(r, "failed")
<1>1. /\ SameStripe /\ door' = door /\ charge' = charge /\ work' = work
      /\ status[r] = "failed" /\ listing \in Listings /\ Commit(Recording(listing))
  BY RecordFailureE
<1>2. listing[r] = "failed" /\ \A q \in Refunds : q # r => listing[q] = "none"
  BY OnlyT
<1>3. r <= made
  <2>1. ~(r > made)
    BY <1>1 DEF RefundInv, BooksInv, RefundsInTurn
  <2> QED BY <2>1, Bounds DEF Types, StripeTypes, Refunds
<1> HIDE DEF listing
<1>4. Read(listing) /\ Seen(listing)
  BY <1>1, <1>2, <1>3 DEF Read, Seen
<1>5. Aware(listing)
  <2>1. made > 0 => made \in Refunds
    BY Bounds DEF Types, StripeTypes, Refunds
  <2>2. \A q \in Refunds : listing[q] # "live"
    BY <1>2
  <2> QED BY <2>1, <2>2 DEF Aware
<1>6. /\ BooksInv' /\ Onward /\ (\A v \in Workers : Apart(v))
      /\ Early => \A o \in RowIds : EarlyRow(o)'
  BY <1>1, <1>4, <1>5, RecordingStep
<1>7. DoorInv'
  BY <1>1, <1>4, <1>5, RecordingDoor
<1>8. ChargeInv'
  BY <1>1 DEF RefundInv, ChargeInv, Read, SameStripe
<1> QED BY <1>1, <1>6, <1>7, <1>8, BookStep

LEMMA ListChargeInv ==
  ASSUME Types, RefundInv, ListCharge PROVE RefundInv'
<1>1. SameStripe /\ SameBooks /\ door' = door /\ work' = work /\ charge' = status
  BY ListChargeE
<1>2. \A r \in Refunds : status[r] # "none" => r <= made
  <2>1. \A r \in Refunds : r > made => status[r] = "none"
    BY DEF RefundInv, BooksInv, RefundsInTurn
  <2> QED BY <2>1, Bounds DEF Types, StripeTypes, Refunds
<1>3. ChargeInv'
  BY <1>1, <1>2 DEF ChargeInv, Read, SameStripe
<1> QED BY <1>1, <1>3, SameOnward, BookStep DEF RefundInv

LEMMA RecordChargeInv ==
  ASSUME Types, RefundInv, RecordCharge PROVE RefundInv'
<1>1. /\ SameStripe /\ door' = door /\ work' = work /\ charge' = Nothing
      /\ charge \in Listings /\ (Commit(Recording(charge)) \/ SameBooks)
  BY RecordChargeE
<1>2. ChargeInv'
  BY <1>1, NothingT DEF ChargeInv, Read
<1>3. CASE SameBooks
  BY <1>1, <1>2, <1>3, SameOnward, BookStep DEF RefundInv
<1>4. CASE Commit(Recording(charge))
  <2>1. Read(charge) /\ RefundsInTurn /\ \A r \in Refunds : charge[r] = "live" => status[r] = "live" /\ r = made
    BY LiveIsLast DEF RefundInv, BooksInv, ChargeInv
  <2>2. Seen(charge)
    BY <2>1, Bounds DEF Seen, Types, StripeTypes, Refunds
  <2>3. Aware(charge)
    BY <2>1, Bounds DEF Aware, RefundsInTurn, Types, StripeTypes, Refunds
  <2>4. /\ BooksInv' /\ Onward /\ (\A v \in Workers : Apart(v))
        /\ Early => \A o \in RowIds : EarlyRow(o)'
    BY <1>1, <1>4, <2>1, <2>2, <2>3, RecordingStep
  <2>5. DoorInv'
    BY <1>1, <1>4, <2>1, <2>2, <2>3, RecordingDoor
  <2> QED BY <1>1, <1>2, <2>4, <2>5, BookStep
<1> QED BY <1>1, <1>3, <1>4

-----------------------------------------------------------------------------
(* Steps of an attempt that write its row *)

LEMMA RowWorker ==
  ASSUME Types, Types', RefundInv, SameStripe, ledger' = ledger, recorded' = recorded,
         door' = door, charge' = charge,
         NEW w \in Workers, Others(w), Busy(w), Busy(w)' => work'[w].row = work[w].row,
         NEW o \in RowIds, o = work[w].row, RowStep(o), IsUntouched(rows'[o]) => IsUntouched(rows[o]),
         o = Door /\ IsOpen(rows'[Door]) /\ Plan(rows'[Door]) = SentPlan =>
           IsOpen(rows[Door]) /\ Plan(rows[Door]) = SentPlan,
         WorkerOk(w)', Late(w)' => Late(w),
         Early => EarlyRow(o)' /\ EarlyWork(w)',
         work'[w].pc \in BeforeAsking => work[w].pc \in BeforeAsking
  PROVE  RefundInv'
<1>1. /\ BooksInv /\ WorkInv /\ DoorInv /\ EarlyInv
      /\ made' = made /\ key' = key /\ age' = age
      /\ \A p \in RowIds : p # o => rows'[p] = rows[p]
      /\ rows'[o].status # "NONE"
  BY DEF RefundInv, SameStripe, RowStep
<1>2. BooksInv'
  BY <1>1, RowBooks
<1>3. \A p \in RowIds : /\ rows[p].status # "NONE" => rows'[p].status # "NONE"
                        /\ IsUntouched(rows'[p]) => IsUntouched(rows[p])
  BY <1>1
<1>4. \A r \in Refunds : r \in RowIds /\ key[r].row \in RowIds
  BY Bounds DEF Types, StripeTypes
<1>5. Onward
  BY <1>3, <1>4 DEF Onward
<1>6. ASSUME NEW v \in Workers, v # w PROVE Apart(v)
  <2>1. Busy(v) => work[v].row \in RowIds /\ work[v].row # o
    BY <1>1, <1>6 DEF WorkInv, Types, ServerTypes, WorkT
  <2> QED BY <1>1, <2>1 DEF Apart
<1>7. DoorInv'
  <2>1. IsOpen(rows'[Door]) /\ Plan(rows'[Door]) = SentPlan => IsOpen(rows[Door]) /\ Plan(rows[Door]) = SentPlan
    BY <1>1, Bounds
  <2> QED BY <1>1, <2>1 DEF DoorInv
<1>8. ASSUME Early PROVE (\A p \in RowIds : EarlyRow(p)') /\ EarlyWork(w)'
  <2>1. \A p \in RowIds : EarlyRow(p) /\ (p # o => EarlyRow(p)')
    BY <1>1, <1>8 DEF EarlyInv, EarlyRow
  <2> QED BY <1>8, <2>1
<1> QED BY <1>2, <1>5, <1>6, <1>7, <1>8, WorkerStep

LEMMA MarkListedInv ==
  ASSUME Types, RefundInv, NEW w \in Workers, MarkListed(w) PROVE RefundInv'
<1>0. PICK o \in RowIds : o = work[w].row
  BY DEF Types, ServerTypes, WorkT
<1>1. /\ Types' /\ SameStripe /\ ledger' = ledger /\ recorded' = recorded
      /\ door' = door /\ charge' = charge /\ Others(w)
      /\ work[w].pc = "marking" /\ o \in RowIds
      /\ SameAim(work'[w], work[w]) /\ work'[w].listing = work[w].listing
      /\ \/ rows' = rows /\ work'[w].pc = "failing"
         \/ /\ work'[w].pc = "closing"
            /\ rows[o].status = "PROCESSING" /\ Plan(rows[o]) = Plan(work[w])
            /\ SameClaim(rows'[o], rows[o])
            /\ rows'[o].suffix = rows[o].suffix /\ rows'[o].failed = rows[o].failed
            /\ rows'[o].made = work[w].refund
            /\ \A p \in RowIds : p # o => rows'[p] = rows[p]
  BY <1>0, MarkListedE
<1>2. /\ WorkerOk(w) /\ EarlyInv /\ Busy(w) /\ work'[w].row = o
      /\ work'[w].suffix = work[w].suffix /\ work'[w].failed = work[w].failed
      /\ made' = made /\ key' = key /\ status' = status /\ age' = age
  BY <1>0, <1>1 DEF RefundInv, WorkInv, WorkerOk, Busy, SameAim, SameStripe
<1>3. CASE rows' = rows /\ work'[w].pc = "failing"
  <2>1. WorkerOk(w)' /\ EarlyWork(w)'
    BY <1>0, <1>1, <1>2, <1>3, OverOk
  <2> QED BY <1>0, <1>1, <1>2, <1>3, <2>1, QuietStep DEF SameBooks, BeforeAsking
<1>4. CASE /\ work'[w].pc = "closing"
           /\ rows[o].status = "PROCESSING" /\ Plan(rows[o]) = Plan(work[w])
           /\ SameClaim(rows'[o], rows[o])
           /\ rows'[o].suffix = rows[o].suffix /\ rows'[o].failed = rows[o].failed
           /\ rows'[o].made = work[w].refund
           /\ \A p \in RowIds : p # o => rows'[p] = rows[p]
  <2>1. Holder(w) /\ HolderInv(w) /\ AttemptInv(w)
    BY <1>0, <1>2, <1>4 DEF Holder, WorkerOk
  <2>2. /\ work[w].refund = made /\ made > 0 /\ ledger[made] = "live" /\ key[made] = KeyOf(w) /\ made \in Nat
        /\ work[w].suffix = rows[o].suffix /\ work[w].failed = rows[o].failed
    BY <1>0, <1>1, <2>1, Bounds DEF HolderInv, AttemptInv, Working, Answered, Types, StripeTypes
  <2>3. /\ key[made].row = o /\ rows'[o].status = "PROCESSING"
        /\ rows[o] \in RowT /\ rows[o].suffix \in Nat /\ rows[o].suffix <= made + 1
        /\ rows'[o].nth = rows[o].nth /\ rows'[o].born = rows[o].born
        /\ rows'[o].attempts = rows[o].attempts /\ rows'[o].due = rows[o].due
    BY <1>0, <1>1, <1>4, <2>2 DEF KeyOf, SameClaim, RefundInv, BooksInv, KeysInTurn, Types, BookTypes, RowsT, RowT
  <2>4. RowStep(o)
    BY <1>0, <1>1, <1>4, <2>2, <2>3 DEF RowStep, IsOpen, Unfinished
  <2>5. ~(Plan(rows'[Door]) = SentPlan) \/ o # Door
    BY <1>4, <2>2 DEF Plan, SentPlan, NoRefund
  <2>6. AttemptInv(w)'
    BY <1>0, <1>1, <1>2, <1>4, <2>1, <2>3 DEF AttemptInv, Read, Working, Answered, Busy
  <2>7. HolderInv(w)'
    BY <1>0, <1>1, <1>2, <1>4, <2>2 DEF HolderInv, Working, Answered
  <2>8. ~Late(w)' /\ Holder(w)' /\ ~IsUntouched(rows'[o])
    BY <1>0, <1>1, <1>2, <1>4, <2>3 DEF Late, Holder, Busy, IsUntouched
  <2>9. Early => EarlyRow(o)' /\ EarlyWork(w)'
    BY <1>0, <1>1, <1>2, <1>4, <2>1, <2>2, <2>3 DEF EarlyInv, EarlyRow, EarlyWork, MayClaim, IsUntouched, Claimable,
       IsOpen, Working
  <2> QED BY <1>0, <1>1, <1>2, <1>4, <2>4, <2>5, <2>6, <2>7, <2>8, <2>9, RowWorker DEF WorkerOk, BeforeAsking
<1> QED BY <1>0, <1>1, <1>3, <1>4

LEMMA MarkResentInv ==
  ASSUME Types, RefundInv, NEW w \in Workers, MarkResent(w) PROVE RefundInv'
<1>0. PICK o \in RowIds : o = work[w].row
  BY DEF Types, ServerTypes, WorkT
<1>1. /\ Types' /\ SameStripe /\ ledger' = ledger /\ recorded' = recorded
      /\ door' = door /\ charge' = charge /\ Others(w)
      /\ work[w].pc = "made" /\ work'[w].pc = "closing" /\ o \in RowIds
      /\ SameAim(work'[w], work[w]) /\ work'[w].listing = work[w].listing
      /\ \/ rows' = rows
         \/ /\ Plan(rows[o]) = Plan(work[w]) /\ SameClaim(rows'[o], rows[o])
            /\ rows'[o].suffix = rows[o].suffix /\ rows'[o].failed = rows[o].failed
            /\ rows'[o].made = work[w].refund
            /\ \A p \in RowIds : p # o => rows'[p] = rows[p]
  BY <1>0, MarkResentE
<1>2. /\ WorkerOk(w) /\ EarlyInv /\ WorkInv /\ BooksInv /\ Busy(w) /\ work'[w].row = o
      /\ work'[w].suffix = work[w].suffix /\ work'[w].failed = work[w].failed
      /\ made' = made /\ key' = key /\ status' = status /\ age' = age
  BY <1>0, <1>1 DEF RefundInv, WorkInv, WorkerOk, Busy, SameAim, SameStripe
<1>3. /\ rows'[o].status = rows[o].status /\ rows'[o].suffix = rows[o].suffix
      /\ rows'[o].failed = rows[o].failed /\ rows'[o].attempts = rows[o].attempts /\ rows'[o].due = rows[o].due
      /\ rows'[o].nth = rows[o].nth /\ rows'[o].born = rows[o].born
  BY <1>1 DEF SameClaim
<1>4. (Holder(w)' => Holder(w)) /\ (Late(w)' => Late(w))
  BY <1>0, <1>1, <1>2, <1>3 DEF Holder, Late
<1>5. AttemptInv(w)'
  <2>1. o = Door => rows'[Door].status = rows[Door].status
    BY <1>3
  <2> QED BY <1>0, <1>1, <1>2, <1>3, <2>1 DEF WorkerOk, AttemptInv, Read, Working, Answered, Busy
<1>6. ASSUME Holder(w) PROVE HolderInv(w)'
  BY <1>0, <1>1, <1>2, <1>3, <1>6 DEF WorkerOk, HolderInv, Working, Answered
<1>7. ASSUME Late(w) PROVE LateInv(w)'
  <2>1. o = Door
    BY <1>0, <1>2, <1>7, BusyRow DEF Late, Holder
  <2> QED BY <1>0, <1>1, <1>2, <1>3, <1>7, <2>1 DEF WorkerOk, LateInv, Working
<1>8. WorkerOk(w)'
  BY <1>4, <1>5, <1>6, <1>7 DEF WorkerOk
<1>9. Early => EarlyWork(w)'
  BY <1>0, <1>1, <1>2, <1>4 DEF EarlyInv, EarlyWork, Working
<1>10. CASE rows' = rows
  BY <1>0, <1>1, <1>2, <1>8, <1>9, <1>10, QuietStep DEF SameBooks, BeforeAsking
<1>11. CASE /\ Plan(rows[o]) = Plan(work[w])
            /\ rows'[o].made = work[w].refund
            /\ \A p \in RowIds : p # o => rows'[p] = rows[p]
  <2>1. /\ work[w].refund \in 1 .. made /\ key[work[w].refund].row = o /\ made \in Nat
        /\ work[w].refund <= made /\ work[w].refund # 0
    BY <1>0, <1>1, <1>2, Bounds DEF WorkerOk, AttemptInv, Answered, KeyOf, Types, StripeTypes
  <2>2. /\ rows[o] \in RowT /\ rows[o].suffix \in Nat /\ rows[o].suffix <= made + 1
        /\ (IsOpen(rows'[o]) <=> IsOpen(rows[o])) /\ rows[o].status # "NONE"
    <3>1. rows[o] \in RowT
      BY <1>0, <1>2, BusyRow
    <3>2. rows[o].suffix \in Nat
      BY <3>1 DEF RowT
    <3>3. rows[o].suffix <= made + 1
      BY <1>2 DEF BooksInv, KeysInTurn
    <3>4. IsOpen(rows'[o]) <=> IsOpen(rows[o])
      BY <1>3 DEF IsOpen
    <3>5. rows[o].status # "NONE"
      <4>1. rows[o].status = "PROCESSING" \/ rows[o].status = "SUCCEEDED"
        BY <1>0, <1>2, BusyRow DEF Holder
      <4> QED BY <4>1
    <3> QED BY <3>1, <3>2, <3>3, <3>4, <3>5
  <2>3. ASSUME IsOpen(rows[o]) PROVE work[w].refund = made /\ ledger[made] = "live"
    <3>1. Holder(w)
      BY <1>0, <1>2, <2>2, <2>3, BusyRow, OpenRow
    <3> QED BY <1>0, <1>1, <1>2, <3>1 DEF WorkerOk, HolderInv, Answered
  <2>4. RowStep(o)
    BY <1>0, <1>1, <1>3, <1>11, <2>1, <2>2, <2>3 DEF RowStep
  <2>5. ~(Plan(rows'[Door]) = SentPlan) \/ o # Door
    BY <1>11, <2>1 DEF Plan, SentPlan, NoRefund
  <2>6. Early => EarlyRow(o)'
    BY <1>0, <1>1, <1>2, <1>3, <2>2 DEF EarlyInv, EarlyRow, MayClaim, IsUntouched, IsOpen
  <2>7. IsUntouched(rows'[o]) => IsUntouched(rows[o])
    BY <1>3 DEF IsUntouched
  <2> QED BY <1>0, <1>1, <1>2, <1>4, <1>8, <1>9, <2>4, <2>5, <2>6, <2>7, RowWorker DEF BeforeAsking
<1> QED BY <1>0, <1>1, <1>10, <1>11

LEMMA MoveRefusedInv ==
  ASSUME Types, RefundInv, NEW w \in Workers, MoveRefused(w) PROVE RefundInv'
<1>0. PICK o \in RowIds : o = work[w].row
  BY DEF Types, ServerTypes, WorkT
<1>1. /\ Types' /\ SameStripe /\ ledger' = ledger /\ recorded' = recorded
      /\ door' = door /\ charge' = charge /\ Others(w)
      /\ work[w].pc = "refused" /\ work'[w].pc = "failing"
      /\ SameAim(work'[w], work[w]) /\ work'[w].listing = work[w].listing
      /\ \/ rows' = rows
         \/ /\ rows[o].status = "PROCESSING" /\ SameClaim(rows'[o], rows[o])
            /\ rows'[o].suffix = work[w].suffix + 1
            /\ rows'[o].made = work[w].made /\ rows'[o].failed = work[w].failed
            /\ \A p \in RowIds : p # o => rows'[p] = rows[p]
  BY <1>0, MoveRefusedE
<1>2. /\ WorkerOk(w) /\ EarlyInv /\ BooksInv /\ Busy(w) /\ work'[w].row = o
      /\ made' = made /\ key' = key /\ status' = status /\ age' = age
  BY <1>0, <1>1 DEF RefundInv, WorkInv, WorkerOk, Busy, SameAim, SameStripe
<1>3. CASE rows' = rows
  <2>1. WorkerOk(w)' /\ EarlyWork(w)'
    BY <1>0, <1>1, <1>2, <1>3, OverOk
  <2> QED BY <1>0, <1>1, <1>2, <1>3, <2>1, QuietStep DEF SameBooks, BeforeAsking
<1>4. CASE /\ rows[o].status = "PROCESSING" /\ SameClaim(rows'[o], rows[o])
           /\ rows'[o].suffix = work[w].suffix + 1
           /\ rows'[o].made = work[w].made /\ rows'[o].failed = work[w].failed
           /\ \A p \in RowIds : p # o => rows'[p] = rows[p]
  <2>1. Holder(w) /\ HolderInv(w) /\ AttemptInv(w)
    BY <1>0, <1>2, <1>4 DEF Holder, WorkerOk
  <2>2. /\ work[w].refund = made /\ work[w].refund \in 1 .. made /\ ledger[made] = "failed"
        /\ key[made] = KeyOf(w) /\ work[w].made = NoRefund
        /\ work[w].suffix = rows[o].suffix /\ work[w].failed = rows[o].failed
    BY <1>0, <1>1, <2>1 DEF HolderInv, AttemptInv, Working, Answered
  <2>3. made \in Refunds /\ made > 0 /\ made \in Nat
    BY <2>2, Bounds DEF Types, StripeTypes, Refunds
  <2>4. /\ rows[o] \in RowT /\ rows[o].suffix \in Nat
        /\ key[made].row = o /\ key[made].suffix = rows[o].suffix /\ key[made].suffix <= made
    BY <1>0, <1>2, <2>2, <2>3 DEF KeyOf, BooksInv, KeysInTurn, Types, BookTypes, RowsT, RowT
  <2>5. /\ rows'[o].suffix = rows[o].suffix + 1 /\ rows[o].suffix <= rows'[o].suffix
        /\ rows'[o].suffix <= made + 1 /\ rows'[o].suffix # 0
    BY <1>4, <2>2, <2>3, <2>4
  <2>6. /\ rows'[o].status = "PROCESSING" /\ rows'[o].made = NoRefund /\ rows'[o].failed = rows[o].failed
        /\ rows'[o].nth = rows[o].nth /\ rows'[o].born = rows[o].born
    BY <1>4, <2>2 DEF SameClaim
  <2>7. RowStep(o)
    BY <1>4, <2>2, <2>3, <2>5, <2>6 DEF RowStep, IsOpen, Unfinished
  <2>8. ~(Plan(rows'[Door]) = SentPlan) \/ o # Door
    BY <2>5 DEF Plan, SentPlan
  <2>9. AttemptInv(w)'
    BY <1>0, <1>1, <1>2, <2>1, <2>6 DEF AttemptInv, Read, Working, Answered, Busy
  <2>10. HolderInv(w)' /\ EarlyWork(w)'
    BY <1>1 DEF HolderInv, EarlyWork, Working, Answered
  <2>11. ~Late(w)' /\ ~IsUntouched(rows'[o])
    BY <1>2, <2>6 DEF Late, IsUntouched
  <2>12. ASSUME Early PROVE EarlyRow(o)'
    <3>1. work[w].suffix = 0
      BY <1>1, <1>2, <2>1, <2>12 DEF EarlyInv, EarlyWork, Working
    <3>2. rows'[o].suffix <= 1
      BY <1>4, <3>1
    <3> QED BY <2>6, <2>11, <3>2 DEF EarlyRow, MayClaim, Claimable
  <2> QED BY <1>0, <1>1, <1>2, <1>4, <2>7, <2>8, <2>9, <2>10, <2>11, <2>12, RowWorker DEF WorkerOk, BeforeAsking
<1> QED BY <1>1, <1>3, <1>4

\* The attempt is over.
LEMMA IdleOk ==
  ASSUME Types, NEW w \in Workers, work'[w].pc = "idle", work'[w].listing = Nothing
  PROVE  WorkerOk(w)' /\ EarlyWork(w)' /\ ~Late(w)' /\ ~Busy(w)' /\ work'[w].pc \notin BeforeAsking
<1>1. ~Busy(w)' /\ ~Late(w)' /\ ~Holder(w)' /\ EarlyWork(w)'
  BY DEF Busy, Late, Holder, EarlyWork
<1>2. AttemptInv(w)'
  BY <1>1, NothingT DEF AttemptInv, Read, Working, Answered
<1> QED BY <1>1, <1>2 DEF WorkerOk, BeforeAsking

LEMMA CompleteInv ==
  ASSUME Types, RefundInv, NEW w \in Workers, Complete(w) PROVE RefundInv'
<1>0. PICK o \in RowIds : o = work[w].row
  BY DEF Types, ServerTypes, WorkT
<1>1. /\ Types' /\ SameStripe /\ ledger' = ledger /\ recorded' = recorded
      /\ door' = door /\ charge' = charge /\ Others(w)
      /\ work[w].pc = "closing" /\ work'[w].pc = "idle"
      /\ work'[w].listing = Nothing
      /\ \/ rows' = rows
         \/ /\ rows[o].status = "PROCESSING" /\ rows'[o] = Succeeded(rows[o])
            /\ \A p \in RowIds : p # o => rows'[p] = rows[p]
  BY <1>0, CompleteE
<1>2. WorkerOk(w) /\ BooksInv /\ EarlyInv /\ Busy(w)
  BY <1>1 DEF RefundInv, WorkInv, WorkerOk, Busy
<1>3. WorkerOk(w)' /\ EarlyWork(w)' /\ ~Late(w)' /\ ~Busy(w)' /\ work'[w].pc \notin BeforeAsking
  BY <1>1, IdleOk
<1>4. CASE rows' = rows
  BY <1>1, <1>2, <1>3, <1>4, QuietStep DEF SameBooks
<1>5. CASE /\ rows[o].status = "PROCESSING" /\ rows'[o] = Succeeded(rows[o])
           /\ \A p \in RowIds : p # o => rows'[p] = rows[p]
  <2>1. made > 0 /\ ledger[made] = "live"
    <3>1. Holder(w)
      BY <1>0, <1>2, <1>5 DEF Holder
    <3> QED BY <1>1, <1>2, <3>1 DEF WorkerOk, HolderInv
  <2>2. made \in 0 .. MaxRefunds /\ rows[o] \in RowT
    BY DEF Types, StripeTypes, BookTypes, RowsT
  <2>3. /\ rows'[o].status = "SUCCEEDED" /\ rows'[o].suffix = rows[o].suffix /\ rows'[o].made = rows[o].made
        /\ rows'[o].failed = rows[o].failed /\ rows'[o].nth = rows[o].nth /\ rows'[o].born = rows[o].born
    BY <1>5, <2>2, SucceededT
  <2>4. ~IsOpen(rows'[o]) /\ ~IsUntouched(rows'[o]) /\ ~MayClaim(rows'[o])
    BY <2>3 DEF IsOpen, Unfinished, Claimable, IsUntouched, MayClaim
  <2>5. rows[o].suffix \in Nat /\ rows[o].suffix <= made + 1
    BY <1>2, <2>2 DEF RowT, BooksInv, KeysInTurn
  <2>6. rows[o].made # NoRefund => rows[o].made <= made /\ key[rows[o].made].row = o
    BY <1>2 DEF BooksInv, NotesHold
  <2>7. RowStep(o)
    BY <1>5, <2>1, <2>3, <2>4, <2>5, <2>6 DEF RowStep
  <2>8. EarlyRow(o)'
    BY <2>4 DEF EarlyRow
  <2> QED BY <1>0, <1>1, <1>2, <1>3, <2>4, <2>7, <2>8, RowWorker
<1> QED BY <1>1, <1>4, <1>5

LEMMA FailAttemptInv ==
  ASSUME Types, RefundInv, NEW w \in Workers, FailAttempt(w) PROVE RefundInv'
<1>0. PICK o \in RowIds : o = work[w].row
  BY DEF Types, ServerTypes, WorkT
<1>1. /\ Types' /\ SameStripe /\ ledger' = ledger /\ recorded' = recorded
      /\ door' = door /\ charge' = charge /\ Others(w)
      /\ work[w].pc = "failing" /\ work'[w].pc = "idle"
      /\ work'[w].listing = Nothing
      /\ \/ rows' = rows
         \/ /\ IsOpen(rows[o]) /\ rows'[o] = GivenUp(rows[o])
            /\ \A p \in RowIds : p # o => rows'[p] = rows[p]
  BY <1>0, FailAttemptE
<1>2. BooksInv /\ EarlyInv /\ Busy(w)
  BY <1>1 DEF RefundInv, Busy
<1>3. WorkerOk(w)' /\ EarlyWork(w)' /\ ~Late(w)' /\ ~Busy(w)' /\ work'[w].pc \notin BeforeAsking
  BY <1>1, IdleOk
<1>4. CASE rows' = rows
  BY <1>1, <1>2, <1>3, <1>4, QuietStep DEF SameBooks
<1>5. CASE /\ IsOpen(rows[o]) /\ rows'[o] = GivenUp(rows[o])
           /\ \A p \in RowIds : p # o => rows'[p] = rows[p]
  <2>2. rows[o] \in RowT /\ made' = made
    BY <1>1 DEF Types, BookTypes, RowsT, SameStripe
  <2>3. /\ rows'[o].status = "FAILED" /\ rows'[o].suffix = rows[o].suffix /\ rows'[o].made = rows[o].made
        /\ rows'[o].failed = rows[o].failed /\ rows'[o].nth = rows[o].nth /\ rows'[o].born = rows[o].born
        /\ rows'[o].due = FALSE
    <3> DEFINE new == GivenUp(rows[o])
    <3>1. rows'[o] = new
      BY <1>5
    <3>2. /\ new.status = "FAILED" /\ new.suffix = rows[o].suffix /\ new.made = rows[o].made
          /\ new.failed = rows[o].failed /\ new.nth = rows[o].nth /\ new.born = rows[o].born
          /\ new.due = FALSE
      BY <2>2, GivenUpT
    <3> HIDE DEF new
    <3> QED BY <3>1, <3>2
  <2>4. IsOpen(rows'[o]) /\ ~IsUntouched(rows'[o]) /\ ~MayClaim(rows'[o])
    BY <2>3 DEF IsOpen, Unfinished, Claimable, IsUntouched, MayClaim
  <2>5. rows[o].suffix \in Nat /\ rows[o].suffix <= made + 1 /\ rows[o].status # "NONE" /\ rows[o].status # "SUCCEEDED"
    BY <1>2, <1>5, <2>2, OpenRow DEF RowT, BooksInv, KeysInTurn
  <2>6. rows[o].made # NoRefund =>
          rows[o].made <= made /\ key[rows[o].made].row = o /\ rows[o].made = made /\ ledger[made] = "live"
    BY <1>2, <1>5 DEF BooksInv, NotesHold
  <2>7. RowStep(o)
    BY <1>5, <2>3, <2>4, <2>5, <2>6 DEF RowStep
  <2>8. Early => EarlyRow(o)'
    BY <1>2, <1>5, <2>2, <2>3, <2>4 DEF EarlyInv, EarlyRow
  <2>9. Plan(rows'[o]) = Plan(rows[o])
    BY <2>3 DEF Plan
  <2> QED BY <1>0, <1>1, <1>2, <1>3, <1>5, <2>4, <2>7, <2>8, <2>9, RowWorker
<1> QED BY <1>1, <1>4, <1>5

LEMMA ClaimInv ==
  ASSUME Types, RefundInv, NEW w \in Workers, NEW o \in RowIds, Claim(w, o) PROVE RefundInv'
<1>1. /\ Types' /\ SameStripe /\ ledger' = ledger /\ recorded' = recorded
      /\ door' = door /\ charge' = charge /\ Others(w)
      /\ work[w].pc = "idle" /\ MayClaim(rows[o])
      /\ work'[w].pc = "claimed" /\ work'[w].row = o /\ work'[w].listing = work[w].listing
      /\ rows'[o].status = "PROCESSING" /\ SamePlan(rows'[o], rows[o])
      /\ \A p \in RowIds : p # o => rows'[p] = rows[p]
  BY ClaimE
<1>2. /\ BooksInv /\ WorkInv /\ DoorInv /\ EarlyInv /\ ChargeInv
      /\ \A v \in Workers : WorkerOk(v)
      /\ made' = made /\ key' = key /\ status' = status /\ age' = age
      /\ \A v \in Workers : v # w => work'[v] = work[v]
  BY <1>1 DEF RefundInv, WorkInv, WorkerOk, SameStripe, Others
<1>3. /\ rows[o] \in RowT /\ IsOpen(rows[o]) /\ rows[o].status \notin {"NONE", "PROCESSING", "SUCCEEDED"}
      /\ rows[o].suffix \in Nat
  <2>1. rows[o] \in RowT
    BY DEF Types, BookTypes, RowsT
  <2> QED BY <1>1, <2>1, OpenRow DEF MayClaim, Claimable, RowT
<1>4. /\ rows'[o].suffix = rows[o].suffix /\ rows'[o].made = rows[o].made /\ rows'[o].failed = rows[o].failed
      /\ rows'[o].nth = rows[o].nth /\ rows'[o].born = rows[o].born
      /\ ~IsUntouched(rows'[o]) /\ ~MayClaim(rows'[o]) /\ Plan(rows'[o]) = Plan(rows[o])
  BY <1>1 DEF SamePlan, IsUntouched, MayClaim, Claimable, Plan
<1>5. RowStep(o)
  <2>1. /\ rows[o].suffix <= made + 1
        /\ rows[o].made # NoRefund =>
             rows[o].made <= made /\ key[rows[o].made].row = o /\ rows[o].made = made /\ ledger[made] = "live"
    BY <1>2, <1>3 DEF BooksInv, NotesHold, KeysInTurn
  <2> QED BY <1>1, <1>3, <1>4, <2>1 DEF RowStep, IsOpen, Unfinished
<1>6. BooksInv'
  BY <1>1, <1>2, <1>5, RowBooks
<1>7. Onward
  <2>1. \A p \in RowIds : /\ rows[p].status # "NONE" => rows'[p].status # "NONE"
                          /\ IsUntouched(rows'[p]) => IsUntouched(rows[p])
    BY <1>1, <1>4
  <2>2. \A r \in Refunds : r \in RowIds /\ key[r].row \in RowIds
    BY Bounds DEF Types, StripeTypes
  <2> QED BY <1>1, <2>1, <2>2 DEF Onward
<1>8. ASSUME NEW v \in Workers, Busy(v) PROVE v # w /\ work[v].row # o /\ Apart(v)
  <2>1. v # w /\ work[v].row \in RowIds
    BY <1>1, <1>8 DEF Busy, Types, ServerTypes, WorkT
  <2>2. work[v].row # o
    BY <1>2, <1>3, <1>8, BusyRow DEF Holder, Late
  <2> QED BY <1>1, <2>1, <2>2 DEF Apart
<1>9. ASSUME NEW v \in Workers, v # w PROVE WorkerOk(v)' /\ (Late(v)' => Late(v))
  <2>1. Apart(v)
    BY <1>8 DEF Apart
  <2> QED BY <1>1, <1>2, <1>7, <1>9, <2>1, WorkerStays
<1>10. WorkerOk(w)' /\ ~Late(w)'
  <2>1. AttemptInv(w)'
    BY <1>1, <1>2 DEF WorkerOk, AttemptInv, Busy, Read, Working, Answered
  <2>2. HolderInv(w)' /\ ~Late(w)'
    BY <1>1 DEF HolderInv, Late, Working, Answered
  <2> QED BY <2>1, <2>2 DEF WorkerOk
<1>11. WorkInv'
  <2>1. ASSUME NEW u \in Workers, NEW v \in Workers, u # v, Busy(u)', Busy(v)' PROVE work'[u].row # work'[v].row
    <3>1. CASE u # w /\ v # w
      BY <1>2, <2>1, <3>1 DEF WorkInv, Busy
    <3>2. CASE u = w \/ v = w
      BY <1>1, <1>2, <1>8, <2>1, <3>2 DEF Busy
    <3> QED BY <3>1, <3>2
  <2> QED BY <1>9, <1>10, <2>1 DEF WorkInv, WorkerOk
<1>12. DoorInv'
  <2>1. IsOpen(rows'[Door]) /\ Plan(rows'[Door]) = SentPlan => IsOpen(rows[Door]) /\ Plan(rows[Door]) = SentPlan
    BY <1>1, <1>3, <1>4, Bounds
  <2> QED BY <1>1, <1>2, <2>1 DEF DoorInv
<1>13. ChargeInv'
  BY <1>1, <1>2 DEF ChargeInv, Read
<1>14. ASSUME Early
       PROVE  /\ \A p \in RowIds : EarlyRow(p)'
              /\ \A v \in Workers : EarlyWork(v)'
              /\ \A r \in Refunds : EarlyKey(r)'
  <2>1. ASSUME NEW p \in RowIds PROVE EarlyRow(p)'
    <3>1. EarlyRow(p)
      BY <1>2, <1>14 DEF EarlyInv
    <3> QED BY <1>1, <1>2, <1>3, <1>4, <3>1 DEF EarlyRow
  <2>2. IsUntouched(rows[o]) /\ rows[o].suffix = 0
    BY <1>1, <1>2, <1>14 DEF EarlyInv, EarlyRow
  <2>3. ASSUME NEW v \in Workers PROVE EarlyWork(v)'
    <3>1. CASE v = w
      BY <1>1, <1>4, <2>2, <3>1 DEF EarlyWork, Working
    <3>2. CASE v # w
      <4>1. EarlyWork(v) /\ Apart(v) /\ work'[v] = work[v]
        BY <1>2, <1>8, <1>14, <3>2 DEF EarlyInv, Apart
      <4> QED BY <1>1, <4>1, EarlyWorkStays
    <3> QED BY <3>1, <3>2
  <2>4. ASSUME NEW r \in Refunds PROVE EarlyKey(r)'
    <3>1. EarlyKey(r) /\ (r <= made => (IsUntouched(rows'[key[r].row]) => IsUntouched(rows[key[r].row])))
      BY <1>2, <1>7, <1>14 DEF EarlyInv, Onward
    <3>2. r <= made /\ key[r].row # Door => key[r].row # o
      BY <2>2, <3>1 DEF EarlyKey
    <3> QED BY <1>1, <1>2, <3>1, <3>2 DEF EarlyKey
  <2> QED BY <2>1, <2>3, <2>4
<1>15. EarlyInv'
  <2>1. Early' => Early
    BY <1>1, <1>9, <1>10 DEF Early
  <2> SUFFICES ASSUME Early'
               PROVE  (\A p \in RowIds : EarlyRow(p)') /\ (\A v \in Workers : EarlyWork(v)')
                      /\ (\A r \in Refunds : EarlyKey(r)')
    BY DEF EarlyInv
  <2> QED BY <1>14, <2>1
<1> QED BY <1>6, <1>11, <1>12, <1>13, <1>15 DEF RefundInv

-----------------------------------------------------------------------------
(* Steps of the door, the clock and the reaper *)

LEMMA DoorEndsInv ==
  ASSUME Types, RefundInv, DoorEnds PROVE RefundInv'
<1>1. SameStripe /\ SameBooks /\ work' = work /\ charge' = charge /\ door'.pc = "done"
  BY DoorEndsE
<1>2. DoorInv' /\ ChargeInv'
  BY <1>1 DEF DoorInv, RefundInv, ChargeInv, Read, SameStripe
<1> QED BY <1>1, <1>2, SameOnward, BookStep DEF RefundInv

\* What a row written by the door, the clock or the reaper leaves.
LEMMA RowOnward ==
  ASSUME Types, Types', BooksInv, SameStripe, ledger' = ledger, recorded' = recorded,
         NEW o \in RowIds, RowStep(o), IsUntouched(rows'[o]) => IsUntouched(rows[o])
  PROVE  BooksInv' /\ Onward
<1>1. /\ \A p \in RowIds : p # o => rows'[p] = rows[p]
      /\ rows'[o].status # "NONE"
  BY DEF RowStep
<1>2. \A p \in RowIds : /\ rows[p].status # "NONE" => rows'[p].status # "NONE"
                        /\ IsUntouched(rows'[p]) => IsUntouched(rows[p])
  BY <1>1
<1>3. \A r \in Refunds : r \in RowIds /\ key[r].row \in RowIds
  BY Bounds DEF Types, StripeTypes
<1> QED BY <1>2, <1>3, RowBooks DEF Onward

LEMMA DoorKeepsOwedInv ==
  ASSUME Types, RefundInv, DoorKeepsOwed PROVE RefundInv'
<1>1. /\ Types' /\ SameStripe /\ ledger' = ledger /\ recorded' = recorded
      /\ work' = work /\ charge' = charge
      /\ door.pc = "refused" /\ door'.pc = "done"
      /\ \/ rows' = rows
         \/ /\ IsUntouched(rows[Door]) /\ Plan(rows[Door]) = SentPlan
            /\ SameClaim(rows'[Door], rows[Door])
            /\ rows'[Door].suffix = 1 /\ rows'[Door].made = NoRefund /\ rows'[Door].failed = {}
            /\ \A o \in RowIds : o # Door => rows'[o] = rows[o]
  BY DoorKeepsOwedE
<1>2. DoorInv' /\ ChargeInv'
  BY <1>1 DEF DoorInv, RefundInv, ChargeInv, Read, SameStripe
<1>3. CASE rows' = rows
  BY <1>1, <1>2, <1>3, SameOnward, BookStep DEF RefundInv, SameBooks
<1>4. CASE /\ IsUntouched(rows[Door]) /\ Plan(rows[Door]) = SentPlan
           /\ SameClaim(rows'[Door], rows[Door])
           /\ rows'[Door].suffix = 1 /\ rows'[Door].made = NoRefund /\ rows'[Door].failed = {}
           /\ \A o \in RowIds : o # Door => rows'[o] = rows[o]
  <2>1. /\ BooksInv /\ WorkInv /\ EarlyInv /\ Early /\ made > 0 /\ ledger[1] = "failed" /\ made \in Refunds
        /\ \A v \in Workers : WorkerOk(v)
    BY <1>1, Bounds DEF RefundInv, DoorInv, Early, WorkInv, WorkerOk, Types, StripeTypes, Refunds
  <2>2. /\ rows[Door].suffix = 0 /\ rows[Door].failed = {} /\ rows[Door].status = "PENDING"
        /\ rows[Door] \in RowT /\ Door \in RowIds
    BY <1>4, Bounds DEF Plan, SentPlan, IsUntouched, Types, BookTypes, RowsT
  <2>3. key[made].row = Door => ledger[made] = "failed"
    <3>1. EarlyKey(made) /\ made <= made
      BY <2>1, Bounds DEF EarlyInv, Refunds
    <3> QED BY <2>1, <3>1 DEF EarlyKey
  <2>4. 0 <= 1 /\ 1 <= made + 1
    BY <2>1, Bounds DEF Refunds
  <2>5. RowStep(Door) /\ (IsUntouched(rows'[Door]) => IsUntouched(rows[Door]))
    BY <1>4, <2>1, <2>2, <2>3, <2>4 DEF RowStep, SameClaim, IsOpen, Unfinished, Claimable
  <2>6. BooksInv' /\ Onward
    BY <1>1, <2>1, <2>2, <2>5, RowOnward
  <2>7. ASSUME NEW v \in Workers PROVE Apart(v) /\ ~Late(v)'
    <3>1. Busy(v) => work[v].row \in RowIds /\ work[v].row # Door /\ rows[work[v].row].status = "PROCESSING"
      BY <2>1, <2>2, BusyRow DEF Holder
    <3> QED BY <1>1, <1>4, <3>1 DEF Apart, Late, Busy
  <2>8. WorkInv'
    <3>1. \A v \in Workers : WorkerOk(v)'
      BY <1>1, <2>1, <2>6, <2>7, WorkerStays
    <3> QED BY <1>1, <2>1, <3>1 DEF WorkInv, WorkerOk, Busy
  <2>9. EarlyInv'
    BY <1>1, <2>7 DEF EarlyInv, Early
  <2> QED BY <1>2, <2>6, <2>8, <2>9 DEF RefundInv
<1> QED BY <1>1, <1>3, <1>4

LEMMA DoorClosesInv ==
  ASSUME Types, RefundInv, DoorCloses PROVE RefundInv'
<1>1. /\ Types' /\ SameStripe /\ ledger' = ledger /\ recorded' = recorded
      /\ work' = work /\ charge' = charge
      /\ door.pc = "made" /\ door'.pc = "done"
      /\ \/ rows' = rows
         \/ /\ IsOpen(rows[Door]) /\ Plan(rows[Door]) = SentPlan
            /\ rows'[Door] = Succeeded(rows[Door])
            /\ \A o \in RowIds : o # Door => rows'[o] = rows[o]
  BY DoorClosesE
<1>2. DoorInv' /\ ChargeInv'
  BY <1>1 DEF DoorInv, RefundInv, ChargeInv, Read, SameStripe
<1>3. CASE rows' = rows
  BY <1>1, <1>2, <1>3, SameOnward, BookStep DEF RefundInv, SameBooks
<1>4. CASE /\ IsOpen(rows[Door]) /\ Plan(rows[Door]) = SentPlan
           /\ rows'[Door] = Succeeded(rows[Door])
           /\ \A o \in RowIds : o # Door => rows'[o] = rows[o]
  <2>1. /\ BooksInv /\ WorkInv /\ EarlyInv /\ Early /\ made = 1 /\ ledger[made] = "live"
        /\ key[1] = FirstKey /\ age[1] = "young"
        /\ made' = made /\ key' = key /\ age' = age
        /\ \A v \in Workers : WorkerOk(v)
    BY <1>1, <1>4 DEF RefundInv, DoorInv, Early, WorkInv, WorkerOk, SameStripe
  <2>2. /\ rows[Door].suffix = 0 /\ rows[Door].failed = {} /\ rows[Door].made = NoRefund
        /\ rows[Door] \in RowT /\ Door \in RowIds /\ rows[Door].status # "NONE" /\ rows[Door].status # "SUCCEEDED"
    <3>1. rows[Door] \in RowT /\ Door \in RowIds
      BY Bounds DEF Types, BookTypes, RowsT
    <3> QED BY <1>4, <3>1, OpenRow DEF Plan, SentPlan
  <2>3. /\ rows'[Door].status = "SUCCEEDED" /\ rows'[Door].suffix = 0 /\ rows'[Door].made = NoRefund
        /\ rows'[Door].failed = rows[Door].failed /\ rows'[Door].nth = rows[Door].nth
        /\ rows'[Door].born = rows[Door].born
    BY <1>4, <2>2, SucceededT DEF Types, StripeTypes
  <2>4. ~IsOpen(rows'[Door]) /\ ~IsUntouched(rows'[Door]) /\ ~MayClaim(rows'[Door])
    BY <2>3 DEF IsOpen, Unfinished, Claimable, IsUntouched, MayClaim
  <2>5. RowStep(Door)
    BY <1>4, <2>1, <2>2, <2>3, <2>4 DEF RowStep
  <2>6. BooksInv' /\ Onward
    BY <1>1, <2>1, <2>2, <2>4, <2>5, RowOnward
  <2>7. ASSUME NEW v \in Workers, ~Busy(v) \/ work[v].row # Door
        PROVE  Apart(v) /\ WorkerOk(v)' /\ (Late(v)' => Late(v))
    <3>1. Apart(v)
      BY <1>1, <1>4, <2>7 DEF Apart, Types, ServerTypes, WorkT
    <3> QED BY <1>1, <2>1, <2>6, <3>1, WorkerStays
  <2>8. ASSUME NEW v \in Workers, Busy(v), work[v].row = Door PROVE WorkerOk(v)' /\ ~Holder(v)'
    <3>1. Holder(v) /\ HolderInv(v) /\ AttemptInv(v)
      BY <2>1, <2>2, <2>8, BusyRow DEF WorkerOk
    <3>2. ~Holder(v)'
      BY <1>1, <2>3, <2>8 DEF Holder
    <3>3. LateInv(v)'
      BY <1>1, <2>1, <2>2, <2>3, <2>8, <3>1 DEF HolderInv, LateInv
    <3>4. Read(work[v].listing)'
      BY <1>1, <2>1, <3>1 DEF AttemptInv, Read, SameStripe
    <3>5. Seen(work[v].listing) => Seen(work[v].listing)'
      <4>1. \A r \in Refunds : rows[r].status # "NONE" => rows'[r].status # "NONE"
        BY <2>6, Bounds DEF Onward
      <4> QED BY <1>1, <2>1, <4>1 DEF Seen, Exists
    <3>6. AttemptInv(v)'
      BY <1>1, <2>1, <2>3, <2>8, <3>1, <3>4, <3>5 DEF AttemptInv, KeyOf
    <3> QED BY <3>2, <3>3, <3>6 DEF WorkerOk
  <2>9. WorkInv'
    <3>1. \A v \in Workers : WorkerOk(v)'
      BY <2>7, <2>8
    <3> QED BY <1>1, <2>1, <3>1 DEF WorkInv, WorkerOk, Busy
  <2>10. ASSUME NEW o \in RowIds PROVE EarlyRow(o)'
    BY <1>4, <2>1, <2>4 DEF EarlyInv, EarlyRow
  <2>11. ASSUME NEW v \in Workers PROVE EarlyWork(v)'
    <3>1. CASE ~Busy(v) \/ work[v].row # Door
      BY <1>1, <2>1, <2>7, <3>1, EarlyWorkStays DEF EarlyInv
    <3>2. CASE Busy(v) /\ work[v].row = Door
      BY <2>8, <3>2 DEF EarlyWork
    <3> QED BY <3>1, <3>2
  <2>12. \A r \in Refunds : EarlyKey(r)'
    BY <1>1, <2>1, <2>6, EarlyKeyStays
  <2>13. EarlyInv'
    BY <2>10, <2>11, <2>12 DEF EarlyInv
  <2> QED BY <1>2, <2>6, <2>9, <2>13 DEF RefundInv
<1> QED BY <1>1, <1>3, <1>4

LEMMA GivesBackInv ==
  ASSUME Types, RefundInv, NEW o \in RowIds, ComeDue(o) \/ ResetStale(o) PROVE RefundInv'
<1>1. /\ Types' /\ SameStripe /\ ledger' = ledger /\ recorded' = recorded
      /\ door' = door /\ charge' = charge /\ work' = work /\ Quiet
      /\ rows[o].status \in {"FAILED", "PROCESSING"} /\ rows'[o].status = "FAILED"
      /\ SamePlan(rows'[o], rows[o])
      /\ \A p \in RowIds : p # o => rows'[p] = rows[p]
  BY GivesBackE
<1>2. /\ BooksInv /\ WorkInv /\ door.pc = "done" /\ \A v \in Workers : ~Busy(v) /\ WorkerOk(v)
  BY <1>1 DEF RefundInv, WorkInv, WorkerOk, Quiet, Busy
<1>3. IsOpen(rows[o]) /\ IsOpen(rows'[o]) /\ ~IsUntouched(rows'[o])
  BY <1>1 DEF IsOpen, Unfinished, Claimable, IsUntouched
<1>4. RowStep(o)
  <2>1. /\ rows[o].suffix <= made + 1 /\ rows[o].suffix \in Nat
        /\ rows[o].made # NoRefund =>
             rows[o].made <= made /\ key[rows[o].made].row = o /\ rows[o].made = made /\ ledger[made] = "live"
    BY <1>2, <1>3 DEF BooksInv, NotesHold, KeysInTurn, Types, BookTypes, RowsT, RowT
  <2> QED BY <1>1, <1>3, <2>1 DEF RowStep, SamePlan
<1>5. BooksInv' /\ Onward
  BY <1>1, <1>2, <1>3, <1>4, RowOnward
<1>6. WorkInv'
  <2>1. \A v \in Workers : WorkerOk(v)'
    BY <1>1, <1>2, <1>5, WorkerStays DEF Apart
  <2> QED BY <1>1, <1>2, <2>1 DEF WorkInv, WorkerOk, Busy
<1>7. EarlyInv'
  BY <1>1, <1>2 DEF EarlyInv, Early, Late, Busy
<1>8. DoorInv' /\ ChargeInv'
  BY <1>1, <1>2 DEF DoorInv, RefundInv, ChargeInv, Read, SameStripe
<1> QED BY <1>5, <1>6, <1>7, <1>8 DEF RefundInv

-----------------------------------------------------------------------------
(* Steps of Stripe *)

\* Stripe's own steps: a refund fails, or its key grows old.
LEMMA StripeMoves ==
  ASSUME Types, RefundInv, SameBooks, door' = door, work' = work, made' = made, key' = key,
         \A r \in Refunds : status[r] = "failed" => status'[r] = "failed",
         (\E w \in Workers : Busy(w)) \/ door.pc # "done" =>
           \A r \in Refunds : age[r] = "young" => age'[r] = "young"
  PROVE  WorkInv' /\ DoorInv' /\ EarlyInv'
<1>1. /\ rows' = rows /\ ledger' = ledger /\ WorkInv /\ DoorInv /\ EarlyInv
      /\ 1 \in Refunds /\ (made > 0 => made \in Refunds)
  BY Bounds DEF SameBooks, RefundInv, Types, StripeTypes, Refunds
<1>2. ASSUME NEW w \in Workers PROVE AttemptInv(w)' /\ (Holder(w)' => HolderInv(w)') /\ (Late(w)' => LateInv(w)')
  <2>1. AttemptInv(w) /\ (Holder(w) => HolderInv(w)) /\ (Late(w) => LateInv(w))
    BY <1>1 DEF WorkInv
  <2>2. Read(work[w].listing)'
    BY <2>1 DEF AttemptInv, Read
  <2>3. AttemptInv(w)'
    BY <1>1, <2>1, <2>2 DEF AttemptInv, Busy, Seen, Exists, KeyOf
  <2>4. Busy(w) => \A r \in Refunds : age[r] = "young" => age'[r] = "young"
    OBVIOUS
  <2>5. ASSUME Holder(w) PROVE HolderInv(w)'
    <3>1. HolderInv(w) /\ Busy(w) /\ (work[w].pc = "recording" => made > 0)
      BY <2>1, <2>5 DEF Holder, AttemptInv
    <3>2. made > 0 /\ Young(w) => Young(w)'
      BY <1>1, <2>4, <3>1 DEF Young, KeyOf
    <3> QED BY <1>1, <3>1, <3>2 DEF HolderInv
  <2>6. ASSUME Late(w) PROVE LateInv(w)'
    BY <1>1, <2>1, <2>4, <2>6 DEF LateInv, Late
  <2>7. (Holder(w)' => Holder(w)) /\ (Late(w)' => Late(w))
    BY <1>1 DEF Holder, Late, Busy
  <2> QED BY <2>3, <2>5, <2>6, <2>7
<1>3. WorkInv'
  BY <1>1, <1>2 DEF WorkInv, Busy
<1>4. DoorInv'
  BY <1>1 DEF DoorInv
<1>5. EarlyInv'
  BY <1>1 DEF EarlyInv, Early, Late, Busy, EarlyRow, EarlyWork, EarlyKey, Holder
<1> QED BY <1>3, <1>4, <1>5

LEMMA FailLaterInv ==
  ASSUME Types, RefundInv, "sync" \notin Delays, NEW r \in Refunds, FailLater(r) PROVE RefundInv'
<1>1. /\ SameBooks /\ door' = door /\ work' = work /\ charge' = charge
      /\ made' = made /\ key' = key /\ age' = age
      /\ status'[r] = "failed" /\ \A q \in Refunds : q # r => status'[q] = status[q]
      /\ charge[r] = "none"
  BY FailLaterE
<1>2. BooksInv'
  BY FailLaterBooks DEF RefundInv
<1>3. \A q \in Refunds : status[q] = "failed" => status'[q] = "failed"
  BY <1>1
<1>4. ChargeInv'
  BY <1>1, <1>3 DEF RefundInv, ChargeInv, Read
<1> QED BY <1>1, <1>2, <1>3, <1>4, StripeMoves DEF RefundInv

LEMMA AgesInv ==
  ASSUME Types, RefundInv, NEW r \in Refunds, Age(r) \/ Forget(r) PROVE RefundInv'
<1>1. /\ SameBooks /\ door' = door /\ work' = work /\ charge' = charge
      /\ made' = made /\ key' = key /\ status' = status
      /\ \A q \in Refunds : q # r => age'[q] = age[q]
      /\ (age[r] = "young" /\ Quiet) \/ age[r] = "old"
  BY AgesE
<1>2. BooksInv'
  BY AgesBooks DEF RefundInv
<1>3. ChargeInv'
  BY <1>1 DEF RefundInv, ChargeInv, Read
<1>4. (\E w \in Workers : Busy(w)) \/ door.pc # "done" =>
           \A q \in Refunds : age[q] = "young" => age'[q] = "young"
  BY <1>1 DEF Quiet, Busy
<1> QED BY <1>1, <1>2, <1>3, <1>4, StripeMoves DEF RefundInv

LEMMA DoorAsksInv ==
  ASSUME Types, RefundInv, DoorAsks PROVE RefundInv'
<1>1. /\ Types' /\ SameBooks /\ work' = work /\ charge' = charge
      /\ door.pc = "asking" /\ door'.pc = "answered" /\ door'.refund \in Refunds
      /\ (Remembers(door'.refund, FirstKey) /\ SameStripe) \/ Makes(FirstKey, door'.refund)
  BY DoorAsksE
<1>2. /\ BooksInv /\ WorkInv /\ DoorInv /\ EarlyInv /\ ChargeInv /\ Early
      /\ RefundsInTurn /\ RowsInTurn /\ KeysInTurn /\ Debt
      /\ rows' = rows /\ ledger' = ledger /\ 1 \in Refunds /\ made \in Nat
  BY <1>1, Bounds DEF RefundInv, BooksInv, Early, SameBooks, Refunds, Types, StripeTypes
<1> DEFINE r == door'.refund
<1>3. CASE Remembers(r, FirstKey) /\ SameStripe
  <2>1. age[r] \in {"young", "old"} /\ key[r] = FirstKey /\ key[r].row = Door
    BY <1>3 DEF Remembers, FirstKey
  <2>2. r <= made
    <3>1. ~(r > made)
      BY <1>1, <1>2, <2>1 DEF RefundsInTurn
    <3> QED BY <1>1, <1>2, <3>1 DEF Refunds
  <2>3. r = 1 /\ made > 0
    <3>1. r = 1
      BY <1>1, <1>2, <2>1, <2>2 DEF EarlyInv, EarlyKey
    <3> QED BY <1>2, <2>2, <3>1
  <2>4. DoorInv'
    BY <1>1, <1>2, <1>3, <2>3 DEF DoorInv, SameStripe
  <2>5. ChargeInv'
    BY <1>1, <1>2, <1>3 DEF ChargeInv, Read, SameStripe
  <2> QED BY <1>1, <1>2, <1>3, <2>4, <2>5, SameOnward, BookStep
<1>4. CASE Makes(FirstKey, r)
  <2>1. /\ \A q \in Refunds : ~Remembers(q, FirstKey)
        /\ r = made + 1 /\ made' = r /\ key'[r] = FirstKey /\ age'[r] = "young"
    BY <1>4 DEF Makes
  <2>2. made = 0 /\ r = 1 /\ made' = 1
    <3>1. ~(made > 0)
      BY <1>1, <1>2, <2>1 DEF DoorInv, Remembers
    <3> QED BY <1>2, <2>1, <3>1
  <2>3. IsOpen(rows[Door]) /\ rows[Door].suffix = 0 /\ rows[Door] \in RowT
    <3>1. PICK o \in RowIds : IsOpen(rows[o])
      BY <1>2, <2>2 DEF Debt
    <3>2. o = Door
      <4>1. o <= made /\ o \in Nat
        BY <1>2, <3>1, OpenIsLatest, Bounds DEF RowsInTurn
      <4> QED BY <2>2, <4>1 DEF Door
    <3> QED BY <1>2, <2>2, <3>1, <3>2 DEF KeysInTurn, Types, BookTypes, RowsT
  <2>4. FirstKey \in [row : RowIds, suffix : Nat] /\ FirstKey.row = Door /\ FirstKey.suffix = 0
    BY Bounds DEF FirstKey
  <2>5. BooksInv'
    BY <1>1, <1>2, <1>4, <2>2, <2>3, <2>4, MakesBooks
  <2>6. ASSUME NEW listing \in Listings, Read(listing) PROVE Read(listing)' /\ \A q \in Refunds : listing[q] = "none"
    <3>1. \A q \in Refunds : listing[q] = "none"
      BY <2>2, <2>6 DEF Read, Refunds
    <3> QED BY <3>1 DEF Read
  <2>7. ASSUME NEW w \in Workers
        PROVE  AttemptInv(w)' /\ (Holder(w)' => HolderInv(w)') /\ ~Late(w)'
    <3>1. /\ AttemptInv(w) /\ (Holder(w) => HolderInv(w)) /\ (Late(w) => LateInv(w))
          /\ work[w].listing \in Listings /\ work[w].row \in RowIds
      BY <1>2 DEF WorkInv, Types, ServerTypes, WorkT
    <3>2. ~Late(w) /\ ~Late(w)' /\ (Holder(w)' => Holder(w))
      BY <1>1, <1>2, <2>2, <3>1 DEF LateInv, Late, Holder, Busy
    <3>3. work[w].pc \notin Answered /\ work[w].pc # "recording"
      BY <2>2, <3>1 DEF AttemptInv
    <3>4. Read(work[w].listing)'
      BY <1>1, <2>6, <3>1 DEF AttemptInv
    <3>5. AttemptInv(w)'
      BY <1>1, <1>2, <3>1, <3>3, <3>4 DEF AttemptInv, Busy
    <3>6. ASSUME Holder(w) PROVE HolderInv(w)'
      <4>1. work[w].row = Door
        BY <1>2, <2>3, <3>1, <3>6, BusyRow, OpenIsLatest, LatestIsOne, Bounds DEF Holder
      <4>2. HolderInv(w) /\ work[w].pc \notin {"made", "marking", "closing", "refused"}
        BY <2>2, <3>1, <3>3, <3>6 DEF HolderInv, Answered
      <4>3. work[w].pc = "asking" => KeyOf(w) = FirstKey
        BY <2>3, <4>1, <4>2 DEF HolderInv, Working, KeyOf, FirstKey
      <4>4. work[w].pc = "asking" => Young(w)'
        BY <1>1, <2>1, <2>2, <4>3 DEF Young, KeyOf
      <4> QED BY <1>1, <1>2, <3>3, <4>2, <4>4 DEF HolderInv
    <3> QED BY <3>2, <3>5, <3>6
  <2>8. WorkInv'
    BY <1>1, <1>2, <2>7 DEF WorkInv, Busy
  <2>9. ChargeInv'
    <3>1. charge \in Listings /\ Read(charge)
      BY <1>2 DEF Types, ServerTypes, ChargeInv
    <3> QED BY <1>1, <2>6, <3>1 DEF ChargeInv
  <2>10. DoorInv'
    BY <1>1, <2>1, <2>2 DEF DoorInv
  <2>11. ASSUME NEW o \in RowIds PROVE EarlyRow(o)'
    <3>1. EarlyRow(o) /\ rows[o].failed \in SUBSET Refunds
      BY <1>2 DEF EarlyInv, Types, BookTypes, RowsT, RowT
    <3>2. 0 \notin Refunds
      BY DEF Refunds
    <3> QED BY <1>2, <2>2, <3>1, <3>2 DEF EarlyRow
  <2>12. ASSUME NEW w \in Workers PROVE EarlyWork(w)'
    BY <1>1, <1>2 DEF EarlyInv, EarlyWork, Holder, Busy
  <2>13. ASSUME NEW q \in Refunds PROVE EarlyKey(q)'
    BY <2>1, <2>2, <2>4 DEF EarlyKey, Refunds
  <2>14. EarlyInv'
    BY <2>11, <2>12, <2>13 DEF EarlyInv
  <2> QED BY <2>5, <2>8, <2>9, <2>10, <2>14 DEF RefundInv
<1> QED BY <1>1, <1>3, <1>4

LEMMA AskNew ==
  ASSUME Types, RefundInv, NEW w \in Workers, Ask(w), Makes(KeyOf(w), work'[w].refund)
  PROVE  RefundInv'
<1>0. PICK o \in RowIds : o = work[w].row
  BY DEF Types, ServerTypes, WorkT
<1>00. PICK r \in Refunds : r = work'[w].refund
  BY AskE
<1>1. /\ Types' /\ SameBooks /\ door' = door /\ charge' = charge /\ Others(w)
      /\ work[w].pc = "asking" /\ work'[w].pc = "answered"
      /\ work'[w].row = o /\ work'[w].suffix = work[w].suffix /\ work'[w].failed = work[w].failed
      /\ work'[w].made = work[w].made /\ work'[w].listing = work[w].listing
  BY <1>0, AskE DEF SameAim
<1>2. /\ BooksInv /\ WorkInv /\ DoorInv /\ EarlyInv /\ ChargeInv
      /\ RefundsInTurn /\ RowsInTurn /\ KeysInTurn /\ NotesHold
      /\ rows' = rows /\ ledger' = ledger /\ 1 \in Refunds /\ made \in Nat
      /\ Busy(w) /\ WorkerOk(w) /\ (made > 0 => made \in Refunds)
      /\ \A v \in Workers : v # w => work'[v] = work[v]
  BY <1>1, Bounds DEF RefundInv, BooksInv, WorkInv, WorkerOk, SameBooks, Refunds, Types, StripeTypes, Busy, Others
<1>3. /\ \A q \in Refunds : ~Remembers(q, KeyOf(w))
      /\ r = made + 1 /\ made' = r /\ key'[r] = KeyOf(w) /\ age'[r] = "young"
      /\ status'[r] \in {"live", "failed"}
      /\ \A q \in Refunds : q # r => key'[q] = key[q] /\ age'[q] = age[q] /\ status'[q] = status[q]
  BY <1>00 DEF Makes
<1>4. /\ \A q \in Refunds : q <= made => q # r /\ q <= r
      /\ \A q \in Refunds : q <= r => q = r \/ q <= made
  BY <1>2, <1>3 DEF Refunds
\* Under its own key nothing is remembered: the asker has its row, and the last refund has failed.
<1>5. Holder(w) /\ HolderInv(w) /\ IsOpen(rows[o]) /\ rows[o].status = "PROCESSING"
  <2>1. ~Late(w)
    <3> SUFFICES ASSUME Late(w) PROVE FALSE
      OBVIOUS
    <3>1. work[w].row = Door /\ work[w].suffix = 0 /\ key[1] = FirstKey /\ age[1] = "young"
      BY <1>1, <1>2 DEF WorkerOk, AttemptInv, LateInv, Late, Working
    <3>2. KeyOf(w) = FirstKey
      BY <3>1 DEF KeyOf, FirstKey
    <3> QED BY <1>2, <1>3, <3>1, <3>2 DEF Remembers
  <2>2. Holder(w)
    BY <1>2, <2>1 DEF Late, Holder
  <2> QED BY <1>0, <1>2, <2>2, BusyRow DEF WorkerOk, Holder
<1>6. /\ made > 0 => ledger[made] = "failed"
      /\ work[w].suffix = rows[o].suffix /\ work[w].failed = rows[o].failed /\ work[w].suffix \in Nat
  <2>1. made > 0 => ~Young(w)
    BY <1>2, <1>3 DEF Young, Remembers
  <2> QED BY <1>0, <1>1, <1>5, <2>1 DEF HolderInv, Working, Types, ServerTypes, WorkT
<1>7. KeyOf(w) \in [row : RowIds, suffix : Nat] /\ KeyOf(w).row = o /\ KeyOf(w).suffix = rows[o].suffix
  BY <1>0, <1>6 DEF KeyOf
<1>8. BooksInv'
  BY <1>00, <1>1, <1>2, <1>5, <1>6, <1>7, MakesBooks
<1>9. Latest(o) /\ \A p \in RowIds : IsOpen(rows[p]) => p = o
  BY <1>2, <1>5, OpenIsLatest, LatestIsOne
<1>10. ASSUME NEW v \in Workers, v # w, Busy(v)
       PROVE  work[v].row # o /\ Late(v) /\ work[v].row = Door /\ rows[Door].status = "SUCCEEDED" /\ Early
  <2>1. work[v].row # o
    BY <1>0, <1>2, <1>10 DEF WorkInv
  <2>2. ~Holder(v)
    BY <1>2, <1>9, <1>10, <2>1, BusyRow
  <2> QED BY <1>2, <1>10, <2>1, <2>2, BusyRow DEF Early
<1>11. ASSUME NEW listing, Read(listing)
       PROVE  Read(listing)'
  BY <1>3, <1>4, <1>11, <1>2 DEF Read, Refunds
<1>12. AttemptInv(w)' /\ HolderInv(w)' /\ Holder(w)' /\ ~Late(w)'
  <2>1. r \in 1 .. r /\ r > 0
    BY <1>2, <1>3
  <2>2. Read(work[w].listing)'
    BY <1>1, <1>2, <1>11 DEF WorkerOk, AttemptInv
  <2>3. work'[w].made = NoRefund
    BY <1>1, <1>2 DEF WorkerOk, AttemptInv, Working
  <2>4. KeyOf(w)' = KeyOf(w)
    BY <1>0, <1>1 DEF KeyOf
  <2>5. AttemptInv(w)'
    BY <1>00, <1>1, <1>2, <1>3, <1>5, <2>1, <2>2, <2>3, <2>4 DEF AttemptInv, Busy
  <2>6. HolderInv(w)'
    BY <1>00, <1>1, <1>2, <1>3, <1>6 DEF HolderInv
  <2> QED BY <1>1, <1>2, <1>5, <2>5, <2>6 DEF Holder, Late, Busy
\* A late attempt that is told of the last refund finds the row of its failure.
<1>13. ASSUME NEW v \in Workers, v # w, Busy(v), made > 0, ~Exists(made), work[v].pc = "recording" PROVE FALSE
  <2>1. Latest(key[made].row) /\ key[made].row \in RowIds
    BY <1>2, <1>13 DEF KeysInTurn, Types, StripeTypes
  <2>2. key[made].row = o
    BY <1>9, <2>1, LatestIsOne
  <2>3. Early /\ o # Door
    BY <1>5, <1>10, <1>13
  <2>4. EarlyKey(made) /\ made <= made
    BY <1>2, <1>13, <2>3 DEF EarlyInv
  <2> QED BY <1>0, <1>1, <2>2, <2>3, <2>4 DEF EarlyKey, BeforeAsking
<1>14. ASSUME NEW v \in Workers, v # w
       PROVE  AttemptInv(v)' /\ (Holder(v)' => HolderInv(v)') /\ (Late(v)' => LateInv(v)') /\ (Late(v)' => Late(v))
  <2>1. /\ AttemptInv(v) /\ (Late(v) => LateInv(v)) /\ work'[v] = work[v]
        /\ (Late(v)' => Late(v)) /\ ~Holder(v) /\ ~Holder(v)'
    BY <1>2, <1>10, <1>14 DEF WorkInv, Late, Holder, Busy
  <2>2. Read(work[v].listing)'
    BY <1>11, <2>1 DEF AttemptInv
  <2>3. ASSUME work[v].pc = "recording" PROVE r > 0 /\ Seen(work[v].listing)'
    <3>1. Busy(v) /\ made > 0 /\ Seen(work[v].listing)
      BY <2>1, <2>3 DEF AttemptInv, Busy
    <3>2. Exists(made)
      BY <1>13, <1>14, <2>3, <3>1
    <3>3. ASSUME NEW q \in Refunds, q < r, work[v].listing[q] = "live" PROVE Exists(q)
      <4>1. q = made \/ q < made
        BY <1>2, <1>3, <3>3 DEF Refunds
      <4> QED BY <3>1, <3>2, <3>3, <4>1 DEF Seen
    <3> QED BY <1>2, <1>3, <2>1, <3>1, <3>3 DEF Seen, Exists
  <2>4. ASSUME work[v].pc \in Answered PROVE work[v].refund \in 1 .. r /\ key'[work[v].refund] = KeyOf(v)
    <3>1. work[v].refund \in 1 .. made /\ key[work[v].refund] = KeyOf(v)
      BY <2>1, <2>4 DEF AttemptInv
    <3>2. work[v].refund \in Refunds /\ work[v].refund <= made
      BY <1>2, <3>1, Bounds DEF Refunds, Types, StripeTypes
    <3> QED BY <1>2, <1>3, <1>4, <3>1, <3>2
  <2>5. AttemptInv(v)'
    BY <1>2, <1>3, <2>1, <2>2, <2>3, <2>4 DEF AttemptInv, Busy, KeyOf
  <2>6. ASSUME Late(v) PROVE LateInv(v)'
    <3>1. 1 <= made
      BY <1>2, <2>1, <2>6 DEF LateInv
    <3> QED BY <1>2, <1>3, <1>4, <2>1, <2>6, <3>1 DEF LateInv
  <2> QED BY <2>1, <2>5, <2>6
<1>15. WorkInv'
  <2>1. \A v \in Workers : AttemptInv(v)' /\ (Holder(v)' => HolderInv(v)') /\ (Late(v)' => LateInv(v)')
    BY <1>12, <1>14
  <2>2. \A v \in Workers : (Busy(v)' => Busy(v)) /\ work'[v].row = work[v].row
    BY <1>0, <1>1, <1>2 DEF Busy
  <2> QED BY <1>2, <2>1, <2>2 DEF WorkInv
<1>16. ChargeInv'
  <2>1. \A q \in Refunds : charge[q] = "live" => status'[q] = "live"
    <3>1. \A q \in Refunds : charge[q] = "live" => status[q] = "live" /\ q <= made
      BY <1>2 DEF ChargeInv, Read
    <3> QED BY <1>3, <1>4, <3>1
  <2> QED BY <1>1, <1>2, <1>11, <2>1 DEF ChargeInv
\* In the early day the first key is remembered, so this call uses another.
<1>17. ASSUME Early, made > 0 PROVE key[1] = FirstKey /\ age[1] = "young"
  <2>1. CASE door.pc # "done"
    BY <1>2, <1>17, <2>1 DEF DoorInv
  <2>2. ASSUME NEW v \in Workers, Late(v) PROVE key[1] = FirstKey /\ age[1] = "young"
    BY <1>2, <2>2 DEF WorkInv, LateInv
  <2> QED BY <1>17, <2>1, <2>2 DEF Early
<1>18. ASSUME o = Door, work[w].suffix = 0, Early PROVE made = 0 /\ r = 1
  <2>1. KeyOf(w) = FirstKey
    BY <1>0, <1>18 DEF KeyOf, FirstKey
  <2>2. ~(made > 0)
    BY <1>2, <1>3, <1>17, <1>18, <2>1 DEF Remembers
  <2> QED BY <1>2, <1>3, <2>2
<1>19. DoorInv'
  <2>1. ASSUME door.pc # "done" PROVE key'[1] = FirstKey /\ age'[1] = "young"
    <3>1. CASE made > 0
      BY <1>2, <1>3, <1>4, <2>1, <3>1 DEF DoorInv
    <3>2. CASE made = 0
      <4>1. r = 1 /\ o = Door
        <5>1. o <= made /\ o \in Nat
          BY <1>2, <1>9, Bounds DEF RowsInTurn, Latest
        <5> QED BY <1>3, <3>2, <5>1 DEF Door
      <4>2. work[w].suffix = 0
        BY <1>2, <1>6, <3>2, <4>1 DEF KeysInTurn
      <4>3. KeyOf(w) = FirstKey
        BY <1>0, <4>1, <4>2 DEF KeyOf, FirstKey
      <4> QED BY <1>3, <4>1, <4>3
    <3> QED BY <1>2, <3>1, <3>2
  <2>2. ASSUME door.pc = "made", IsOpen(rows[Door]), Plan(rows[Door]) = SentPlan PROVE FALSE
    <3>1. made = 1 /\ ledger[1] = "live"
      BY <1>2, <2>2 DEF DoorInv
    <3> QED BY <1>6, <3>1
  <2>3. r > 0
    BY <1>2, <1>3
  <2> QED BY <1>1, <1>2, <1>3, <2>1, <2>2, <2>3 DEF DoorInv
<1>20. ASSUME Early
       PROVE  /\ \A p \in RowIds : EarlyRow(p)'
              /\ \A v \in Workers : EarlyWork(v)'
              /\ \A q \in Refunds : EarlyKey(q)'
  <2>1. work[w].suffix = 0 /\ rows[o].suffix <= 1
    BY <1>1, <1>2, <1>5, <1>6, <1>20 DEF EarlyInv, EarlyWork, Working
  <2>2. ASSUME NEW p \in RowIds PROVE EarlyRow(p)'
    BY <1>2, <1>9, <1>20, <2>1 DEF EarlyInv, EarlyRow
  <2>3. ASSUME NEW v \in Workers PROVE EarlyWork(v)'
    <3>1. CASE v = w
      BY <1>1, <2>1, <3>1 DEF EarlyWork
    <3>2. CASE v # w
      BY <1>1, <1>2, <1>20, <3>2 DEF EarlyInv, EarlyWork, Holder, Busy
    <3> QED BY <3>1, <3>2
  <2>4. ASSUME NEW q \in Refunds PROVE EarlyKey(q)'
    <3>1. CASE q <= made
      <4>1. EarlyKey(q) /\ key'[q] = key[q]
        BY <1>2, <1>3, <1>4, <1>20, <3>1 DEF EarlyInv
      <4>2. \A v \in Workers : work'[v].pc \in BeforeAsking => work'[v] = work[v]
        BY <1>1, <1>2 DEF BeforeAsking
      <4> QED BY <1>2, <3>1, <4>1, <4>2 DEF EarlyKey
    <3>2. CASE q = r
      <4>1. key'[q].row = o
        BY <1>3, <1>7, <3>2
      <4>2. o = Door => q = 1
        BY <1>18, <1>20, <2>1, <3>2
      <4>3. ~IsUntouched(rows[o])
        BY <1>5 DEF IsUntouched
      <4>4. \A v \in Workers : work'[v].row = o => work'[v].pc \notin BeforeAsking
        BY <1>1, <1>2, <1>10 DEF Busy, BeforeAsking
      <4> QED BY <1>2, <4>1, <4>2, <4>3, <4>4 DEF EarlyKey
    <3>3. CASE ~(q <= r)
      BY <1>3, <3>3 DEF EarlyKey
    <3> QED BY <1>4, <3>1, <3>2, <3>3
  <2> QED BY <2>2, <2>3, <2>4
<1>21. EarlyInv'
  <2>1. Early' => Early
    BY <1>1, <1>12, <1>14 DEF Early
  <2> SUFFICES ASSUME Early'
               PROVE  (\A p \in RowIds : EarlyRow(p)') /\ (\A v \in Workers : EarlyWork(v)')
                      /\ (\A q \in Refunds : EarlyKey(q)')
    BY DEF EarlyInv
  <2> QED BY <1>20, <2>1
<1> QED BY <1>8, <1>15, <1>16, <1>19, <1>21 DEF RefundInv

LEMMA AskInv ==
  ASSUME Types, RefundInv, NEW w \in Workers, Ask(w) PROVE RefundInv'
BY AskE, AskRemembered, AskNew

-----------------------------------------------------------------------------
(* The invariant *)

LEMMA InitInv == Init => RefundInv
<1> SUFFICES ASSUME Init PROVE RefundInv
  OBVIOUS
<1>1. /\ made = 0 /\ 0 \in 0 .. MaxRefunds /\ Door \in RowIds /\ Door = 0 /\ 0 \in 0 .. MaxAttempts
      /\ RowIds = 0 .. MaxRefunds /\ MaxRefunds \in Nat /\ Refunds = 1 .. MaxRefunds /\ NoRefund = 0
  BY Bounds DEF Init, Door, Refunds, NoRefund
<1>2. /\ \A r \in Refunds : /\ status[r] = "none" /\ ledger[r] = "none" /\ answer[r] = "none"
                            /\ age[r] = "none" /\ recorded[r] = 0
      /\ \A w \in Workers : work[w] = Idle
      /\ charge = Nothing /\ door.pc = "asking"
  BY DEF Init
<1>3. /\ rows[Door].status = "PENDING" /\ rows[Door].suffix = 0 /\ rows[Door].made = NoRefund
      /\ rows[Door].failed = {} /\ rows[Door].nth = 0 /\ rows[Door].born = 0 /\ rows[Door].attempts = 0
  <2>1. rows[Door] = NewRow(0, 0)
    BY <1>1 DEF Init
  <2> QED BY <1>1, <2>1, NewRowT
<1>4. \A o \in RowIds : o # Door =>
        /\ rows[o] = NoRow /\ rows[o].status = "NONE" /\ rows[o].made = NoRefund
        /\ rows[o].failed = {} /\ rows[o].suffix = 0
  <2>1. \A o \in RowIds : o # Door => rows[o] = NoRow
    BY DEF Init
  <2> QED BY <2>1, NoRowT
<1>5. \A w \in Workers : work[w].pc = "idle" /\ work[w].listing = Nothing
  BY <1>2, IdleT
<1>6. \A r \in Refunds : ~(r <= made) /\ ~(r < made)
  BY <1>1
<1>7. RefundsInTurn
  BY <1>2, <1>6 DEF RefundsInTurn
<1>8. /\ \A o \in RowIds : Exists(o) => o = Door
      /\ Exists(Door)
  BY <1>3, <1>4 DEF Exists
<1>9. RowsInTurn
  <2>1. Existing(rows) = {Door}
    BY <1>1, <1>8 DEF Existing, Exists
  <2>2. Cardinality(Existing(rows)) = 1
    BY <2>1, FS_Singleton
  <2>3. \A o \in RowIds : ~Exists(o) => rows[o] = NoRow
    BY <1>4, <1>8
  <2>4. \A o \in RowIds : Exists(o) => o <= made /\ rows[o].born = o /\ rows[o].nth < Cardinality(Existing(rows))
    BY <1>1, <1>3, <1>8, <2>2
  <2>5. \A o \in Refunds : ~Exists(o)
    BY <1>1, <1>8, Bounds
  <2>6. \A o, p \in RowIds : Exists(o) /\ Exists(p) => ~(o < p)
    BY <1>1, <1>8
  <2> QED BY <1>8, <2>3, <2>4, <2>5, <2>6 DEF RowsInTurn
<1>10. NotesHold
  BY <1>3, <1>4 DEF NotesHold
<1>11. Debt
  BY <1>1, <1>3 DEF Debt, IsOpen, Unfinished, Claimable
<1>12. KeysInTurn
  <2>1. \A o \in RowIds : rows[o].suffix <= made + 1
    BY <1>1, <1>3, <1>4
  <2> QED BY <1>1, <1>3, <1>6, <2>1 DEF KeysInTurn
<1>13. Read(Nothing)
  BY NothingT DEF Read
<1>14. ChargeInv
  BY <1>2, <1>13, NothingT DEF ChargeInv
<1>15. WorkInv
  BY <1>5, <1>13 DEF WorkInv, AttemptInv, Busy, Holder, Late, Working, Answered
<1>16. DoorInv
  BY <1>1, <1>2 DEF DoorInv
<1>17. EarlyInv
  <2>1. \A o \in RowIds : EarlyRow(o)
    BY <1>3, <1>4 DEF EarlyRow, MayClaim, IsUntouched, IsOpen, Unfinished, Claimable
  <2>2. \A w \in Workers : EarlyWork(w)
    BY <1>5 DEF EarlyWork, Holder, Busy
  <2>3. \A r \in Refunds : EarlyKey(r)
    BY <1>6 DEF EarlyKey
  <2> QED BY <2>1, <2>2, <2>3 DEF EarlyInv
<1> QED BY <1>7, <1>9, <1>10, <1>11, <1>12, <1>14, <1>15, <1>16, <1>17 DEF RefundInv, BooksInv

LEMMA StepKeys == Types /\ UnusedKeys /\ [Next]_vars => UnusedKeys'
<1> SUFFICES ASSUME Types, UnusedKeys, [Next]_vars PROVE UnusedKeys'
  OBVIOUS
<1>1. ASSUME made' = made /\ key' = key PROVE UnusedKeys'
  BY <1>1 DEF UnusedKeys
<1>2. ASSUME SameStripe PROVE UnusedKeys'
  BY <1>1, <1>2 DEF SameStripe
<1>3. ASSUME NEW k, NEW r \in Refunds, Makes(k, r) PROVE UnusedKeys'
  <2>1. /\ r = made + 1 /\ made' = r /\ made \in Nat /\ Refunds \subseteq Nat
        /\ \A q \in Refunds : q # r => key'[q] = key[q]
    BY <1>3, Bounds DEF Makes, Types, StripeTypes, Refunds
  <2>2. \A q \in Refunds : q > made' => q > made /\ q # r
    BY <2>1
  <2> QED BY <2>1, <2>2 DEF UnusedKeys
<1>4. ASSUME NEW w \in Workers, Runner(w) PROVE UnusedKeys'
  <2>1. CASE Ask(w)
    BY <1>2, <1>3, <2>1, AskE
  <2> QED BY <1>2, <1>4, <2>1, ClaimE, ReadClaimE, ListRefundsE, RecordListingE, MarkListedE,
             RecordAnswerE, MoveRefusedE, MarkResentE, CompleteE, FailAttemptE DEF Runner
<1>5. CASE Progress
  <2>1. CASE DoorAsks
    BY <1>2, <1>3, <2>1, DoorAsksE
  <2> QED BY <1>2, <1>4, <1>5, <2>1, GivesBackE, DoorRecordsE, DoorKeepsOwedE, DoorClosesE,
             RecordChargeE, RecordFailureE DEF Progress
<1>6. CASE Next
  BY <1>1, <1>2, <1>5, <1>6, DoorEndsE, ThrowE, CrashE, FailLaterE, AgesE, ListChargeE DEF Next
<1>7. CASE UNCHANGED vars
  BY <1>1, <1>7 DEF vars
<1> QED BY <1>6, <1>7

LEMMA StepInv == "sync" \notin Delays /\ Types /\ RefundInv /\ [Next]_vars => RefundInv'
<1> SUFFICES ASSUME "sync" \notin Delays, Types, RefundInv, [Next]_vars PROVE RefundInv'
  OBVIOUS
<1>1. ASSUME NEW w \in Workers, Runner(w) PROVE RefundInv'
  BY <1>1, ClaimInv, ReadClaimInv, ListRefundsInv, RecordListingInv, MarkListedInv, AskInv,
     RecordAnswerInv, MoveRefusedInv, MarkResentInv, CompleteInv, FailAttemptInv DEF Runner
<1>2. CASE Progress
  BY <1>1, <1>2, GivesBackInv, DoorAsksInv, DoorRecordsInv, DoorKeepsOwedInv, DoorClosesInv,
     RecordChargeInv, RecordFailureInv DEF Progress
<1>3. CASE Next
  BY <1>2, <1>3, DoorEndsInv, ThrowInv, CrashInv, FailLaterInv, AgesInv, ListChargeInv DEF Next
<1>4. CASE UNCHANGED vars
  <2>1. /\ made' = made /\ key' = key /\ answer' = answer /\ status' = status /\ age' = age
        /\ ledger' = ledger /\ recorded' = recorded /\ rows' = rows /\ door' = door
        /\ work' = work /\ charge' = charge
    BY <1>4 DEF vars
  <2> QED BY <2>1 DEF RefundInv, BooksInv, RefundsInTurn, RowsInTurn, NotesHold, Debt, KeysInTurn,
             ChargeInv, WorkInv, DoorInv, EarlyInv, Exists, Latest, Busy, Holder, Late, Early, Read, Seen,
             Young, AttemptInv, HolderInv, LateInv, EarlyRow, EarlyWork, EarlyKey, KeyOf, Existing
<1> QED BY <1>3, <1>4

\* However the request, the runners, Stripe's failures and their news meet, the
\* books, the rows and every server at work keep to the invariant.
THEOREM RefundInvariant == "sync" \notin Delays /\ Spec => [](Types /\ RefundInv /\ UnusedKeys)
<1>1. Init => Types /\ RefundInv /\ UnusedKeys
  BY InitTypes, InitInv DEF Init, UnusedKeys
<1>2. "sync" \notin Delays /\ Types /\ RefundInv /\ UnusedKeys /\ [Next]_vars =>
        (Types /\ RefundInv /\ UnusedKeys)'
  BY StepTypes, StepInv, StepKeys
<1>3. CASE "sync" \notin Delays
  <2>1. Types /\ RefundInv /\ UnusedKeys /\ [Next]_vars => (Types /\ RefundInv /\ UnusedKeys)'
    BY <1>2, <1>3
  <2> QED BY <1>1, <2>1, PTL DEF Spec
<1> QED BY <1>3

-----------------------------------------------------------------------------
(* What the invariant says of the debt *)

\* Refunds counted live, at Stripe or on the books: the last one or none.
LEMMA OnlyLastLives ==
  ASSUME Types, RefundsInTurn
  PROVE  /\ \A r \in Refunds : r # made => status[r] # "live" /\ ledger[r] # "live"
         /\ {r \in Refunds : status[r] = "live"} \subseteq {made}
         /\ {r \in Refunds : ledger[r] = "live"} \subseteq {made}
<1>1. made \in Nat /\ Refunds \subseteq Nat
  BY Bounds DEF Types, StripeTypes, Refunds
<1>2. ASSUME NEW r \in Refunds, r # made PROVE status[r] # "live" /\ ledger[r] # "live"
  <2>1. r < made \/ r > made
    BY <1>1, <1>2
  <2>2. CASE r < made
    <3>1. status[r] = "failed" /\ ledger[r] = "failed"
      BY <2>2 DEF RefundsInTurn
    <3> QED BY <3>1
  <2>3. CASE r > made
    <3>1. status[r] = "none" /\ ledger[r] = "none"
      BY <2>3 DEF RefundsInTurn
    <3> QED BY <3>1
  <2> QED BY <2>1, <2>2, <2>3
<1>3. \A r \in Refunds : r # made => status[r] # "live" /\ ledger[r] # "live"
  BY <1>2
<1> QED BY <1>3

LEMMA PaidOnceHolds ==
  ASSUME Types, RefundsInTurn PROVE PaidOnce
<1>1. {r \in Refunds : status[r] = "live"} \subseteq {made}
  BY OnlyLastLives
<1>2. IsFiniteSet({made}) /\ Cardinality({made}) = 1
  BY FS_Singleton
<1>3. /\ IsFiniteSet({r \in Refunds : status[r] = "live"})
      /\ Cardinality({r \in Refunds : status[r] = "live"}) <= 1
  BY <1>1, <1>2, FS_Subset
<1> QED BY <1>3 DEF PaidOnce

\* The last refund counts: it fills the open row, if there is one.
LEMMA NothingOwed ==
  ASSUME Types, BooksInv, made > 0, ledger[made] = "live"
  PROVE  Owing = {}
<1>1. /\ RefundsInTurn /\ RowsInTurn /\ NotesHold /\ KeysInTurn
      /\ made \in Refunds /\ made \in 1 .. MaxRefunds /\ Refunds = 1 .. MaxRefunds /\ rows \in RowsT
      /\ NoRefund = 0 /\ Door = 0 /\ RowIds = 0 .. MaxRefunds /\ MaxRefunds \in Nat
      /\ \A p \in RowIds : rows[p] \in RowT
  BY Bounds DEF BooksInv, Types, StripeTypes, BookTypes, Refunds, RowsT, NoRefund, Door
<1>2. SUFFICES ASSUME NEW o \in RowIds, IsOpen(rows[o])
               PROVE  Fills(rows, ledger, recorded, HandedOver(rows))[o] # NoRefund
  BY DEF Owing, Existing
<1>3. ~Exists(made)
  BY <1>1 DEF RowsInTurn
<1>4. /\ Latest(o) /\ Exists(o) /\ rows[o].status # "SUCCEEDED" /\ o = key[made].row
  BY <1>1, <1>2, <1>3, OpenIsLatest, OpenAsked, OpenRow
<1>5. \A q \in Refunds : q # made => ledger[q] # "live"
  BY <1>1, OnlyLastLives
<1>6. recorded[made] = made /\ \A q \in Refunds : recorded[q] = made => q = made
  BY <1>1 DEF RefundsInTurn
<1>7. made \notin HandedOver(rows) /\ NoRefund \notin HandedOver(rows)
  BY <1>1, <1>3 DEF HandedOver, Existing, Exists
<1>8. rows[o].made \in {NoRefund, made} /\ rows[o].born < made
  <2>1. rows[o].born = o /\ o < made
    BY <1>1, <1>4 DEF RowsInTurn, KeysInTurn
  <2> QED BY <1>1, <1>2, <2>1 DEF NotesHold
<1>9. ASSUME NEW p \in RowIds, p # o
      PROVE  rows[p].made # made /\ (p \in Existing(rows) => rows[p].nth < rows[o].nth)
  <2>1. rows[p].made # made
    BY <1>1, <1>4, <1>9 DEF NotesHold
  <2>2. ASSUME Exists(p) PROVE rows[p].nth < rows[o].nth
    <3>1. p < o
      BY <1>1, <1>4, <1>9, <2>2 DEF Latest
    <3> QED BY <1>1, <1>4, <2>2, <3>1 DEF RowsInTurn
  <2> QED BY <2>1, <2>2 DEF Existing, Exists
<1>10. o \in Existing(rows)
  BY <1>4 DEF Existing, Exists
<1>11. recorded[made] \in 1 .. MaxRefunds /\ \A q \in Refunds : recorded[q] = recorded[made] => q = made
  BY <1>1, <1>6
<1>12. Fills(rows, ledger, recorded, HandedOver(rows))[o] = made
  <2>1. \A p \in Existing(rows) : p # o => rows[p].nth < rows[o].nth
    BY <1>9 DEF Existing
  <2>2. \A p \in RowIds : p # o => rows[p].made # made
    BY <1>9
  <2>3. \A p \in RowIds : Fills(rows, ledger, recorded, HandedOver(rows))[p] = made <=> p = o
    BY <1>1, <1>4, <1>5, <1>7, <1>8, <1>10, <1>11, <2>1, <2>2, FillsLatest
  <2> QED BY <2>3
<1> QED BY <1>1, <1>12

\* No refund counts: the open row owes it.
LEMMA OneOwes ==
  ASSUME Types, BooksInv, ~(made > 0 /\ ledger[made] = "live")
  PROVE  \E o \in RowIds : Owing = {o}
<1>1. /\ RefundsInTurn /\ RowsInTurn /\ NotesHold /\ KeysInTurn /\ Debt
      /\ made \in Nat /\ Refunds = 1 .. MaxRefunds /\ rows \in RowsT
      /\ NoRefund = 0 /\ Door = 0 /\ RowIds = 0 .. MaxRefunds /\ MaxRefunds \in Nat
      /\ \A p \in RowIds : rows[p] \in RowT
  BY Bounds DEF BooksInv, Types, StripeTypes, BookTypes, Refunds, RowsT, NoRefund, Door
<1>2. PICK o \in RowIds : IsOpen(rows[o])
  BY <1>1 DEF Debt
<1>3. Latest(o) /\ Exists(o)
  BY <1>1, <1>2, OpenIsLatest
<1>4. \A q \in Refunds : ledger[q] # "live"
  <2>1. \A q \in Refunds : q # made => ledger[q] # "live"
    BY <1>1, OnlyLastLives
  <2>2. made \in Refunds => made > 0
    BY <1>1
  <2>3. made \in Refunds => ledger[made] # "live"
    BY <2>2
  <2> QED BY <2>1, <2>3
<1>5. rows[o].made = NoRefund
  BY <1>1, <1>2, <1>4 DEF NotesHold, Types, BookTypes
<1>6. NoRefund \notin HandedOver(rows)
  BY <1>1 DEF HandedOver
<1>7. Fills(rows, ledger, recorded, HandedOver(rows))[o] = NoRefund
  <2>1. Fills(rows, ledger, recorded, HandedOver(rows)) = Marked(rows, ledger, HandedOver(rows))
    BY <1>1, <1>4, FillsMarked
  <2> QED BY <1>5, <1>6, <2>1 DEF Marked
<1>8. \A p \in Owing : p = o
  <2>1. ASSUME NEW p \in Owing PROVE p = o
    <3>1. p \in RowIds /\ IsOpen(rows[p])
      BY DEF Owing, Existing
    <3> QED BY <1>1, <1>3, <3>1, OpenIsLatest, LatestIsOne
  <2> QED BY <2>1
<1>9. o \in Owing
  BY <1>2, <1>3, <1>7 DEF Owing, Existing, Exists
<1> QED BY <1>8, <1>9

LEMMA OwedOnceHolds ==
  ASSUME Types, BooksInv PROVE OwedOnce
<1> DEFINE Live == {r \in Refunds : ledger[r] = "live"}
<1>1. RefundsInTurn /\ made \in 0 .. MaxRefunds /\ MaxRefunds \in Nat /\ Refunds = 1 .. MaxRefunds
  BY Bounds DEF BooksInv, Types, StripeTypes, Refunds
<1>2. Live \subseteq {made}
  BY <1>1, OnlyLastLives
<1>3. CASE made > 0 /\ ledger[made] = "live"
  <2>1. Live = {made}
    BY <1>1, <1>2, <1>3
  <2>2. Owing = {}
    BY <1>3, NothingOwed
  <2>3. Cardinality(Live) = 1 /\ Cardinality(Owing) = 0
    BY <2>1, <2>2, FS_Singleton, FS_EmptySet
  <2> QED BY <2>3 DEF OwedOnce
<1>4. CASE ~(made > 0 /\ ledger[made] = "live")
  <2>1. Live = {}
    BY <1>1, <1>2, <1>4
  <2>2. PICK o \in RowIds : Owing = {o}
    BY <1>4, OneOwes
  <2>3. Cardinality(Live) = 0 /\ Cardinality(Owing) = 1
    BY <2>1, <2>2, FS_Singleton, FS_EmptySet
  <2> QED BY <2>3 DEF OwedOnce
<1> QED BY <1>3, <1>4

LEMMA TypeOKHolds ==
  ASSUME Types, BooksInv, UnusedKeys PROVE TypeOK
<1>1. /\ RefundsInTurn /\ RowsInTurn /\ KeysInTurn
      /\ made \in 0 .. MaxRefunds /\ MaxRefunds \in Nat /\ MaxRefunds >= 1 /\ Refunds = 1 .. MaxRefunds
      /\ rows \in RowsT /\ RowIds = 0 .. MaxRefunds /\ KeySuffixes = 0 .. 2 * MaxRefunds
  BY Bounds DEF BooksInv, Types, StripeTypes, BookTypes, Refunds, KeySuffixes
<1>2. key \in [Refunds -> [row : RowIds, suffix : KeySuffixes]]
  <2>1. key \in [Refunds -> [row : RowIds, suffix : Nat]]
    BY DEF Types, StripeTypes
  <2>2. ASSUME NEW r \in Refunds PROVE key[r] \in [row : RowIds, suffix : KeySuffixes]
    <3>1. key[r].suffix <= r \/ key[r].suffix = 0
      BY <1>1 DEF KeysInTurn, UnusedKeys
    <3>2. key[r] \in [row : RowIds, suffix : Nat]
      BY <2>1
    <3>3. key[r].suffix \in KeySuffixes
      BY <1>1, <3>1, <3>2
    <3> QED BY <3>2, <3>3
  <2> QED BY <2>1, <2>2
<1>3. recorded \in [Refunds -> 0 .. MaxRefunds]
  <2>1. \A r \in Refunds : recorded[r] \in 0 .. MaxRefunds
    BY <1>1 DEF RefundsInTurn
  <2> QED BY <2>1 DEF Types, BookTypes
<1>4. rows \in [RowIds -> RowType]
  <2>1. ASSUME NEW o \in RowIds PROVE rows[o] \in RowType
    <3>1. rows[o] \in RowT
      BY <1>1 DEF RowsT
    <3>2. rows[o].suffix \in KeySuffixes
      <4>1. rows[o].suffix <= made + 1 /\ rows[o].suffix \in Nat
        BY <1>1, <3>1 DEF KeysInTurn, RowT
      <4> QED BY <1>1, <4>1
    <3>3. rows[o].nth \in 0 .. MaxRefunds
      <4>1. rows[o].nth \in Nat
        BY <3>1 DEF RowT
      <4>2. CASE Exists(o)
        <5>1. Existing(rows) \subseteq RowIds /\ IsFiniteSet(RowIds) /\ Cardinality(RowIds) = MaxRefunds + 1
          BY <1>1, FS_Interval DEF Existing
        <5>2. Cardinality(Existing(rows)) <= MaxRefunds + 1 /\ Cardinality(Existing(rows)) \in Nat
          BY <5>1, FS_Subset, ExistingFinite
        <5>3. rows[o].nth < Cardinality(Existing(rows))
          BY <1>1, <4>2 DEF RowsInTurn
        <5> QED BY <1>1, <4>1, <5>2, <5>3
      <4>3. CASE ~Exists(o)
        <5>1. rows[o] = NoRow
          BY <1>1, <4>3 DEF RowsInTurn
        <5> QED BY <1>1, <5>1 DEF NoRow
      <4> QED BY <4>2, <4>3
    <3> QED BY <3>1, <3>2, <3>3 DEF RowT, RowType, Statuses
  <2> QED BY <1>1, <2>1 DEF RowsT
<1>5. /\ {answer, status, ledger, charge} \subseteq Listings
      /\ age \in [Refunds -> {"none", "young", "old", "forgotten"}]
  BY DEF Types, StripeTypes, BookTypes, ServerTypes
<1>6. door \in [pc : {"asking", "answered", "made", "refused", "done"}, refund : Refunds \cup {NoRefund}]
  BY DEF Types, ServerTypes, DoorT
<1>7. \A w \in Workers :
       /\ work[w].row \in RowIds
       /\ work[w].pc \in {"idle", "claimed", "listing", "recording", "marking", "asking",
                         "answered", "refused", "made", "closing", "failing"}
  BY DEF Types, ServerTypes, WorkT, Pcs
<1> QED BY <1>1, <1>2, <1>3, <1>4, <1>5, <1>6, <1>7 DEF TypeOK

\* No row counts more attempts than it may, and no key moves on more often than
\* Stripe refused or failed a refund.
THEOREM RefundTypeOK == "sync" \notin Delays /\ Spec => []TypeOK
<1>1. Types /\ RefundInv /\ UnusedKeys => TypeOK
  BY TypeOKHolds DEF RefundInv
<1> QED BY <1>1, RefundInvariant, PTL

\* The member is never paid twice: two refunds of the debt never stand at Stripe
\* together.
THEOREM RefundPaidOnce == "sync" \notin Delays /\ Spec => []PaidOnce
<1>1. Types /\ RefundInv => PaidOnce
  BY PaidOnceHolds DEF RefundInv, BooksInv
<1> QED BY <1>1, RefundInvariant, PTL

\* After every commit the debt is counted as refunded, or one row owes it, and
\* never both, whatever was recorded in whatever order.
THEOREM RefundOwedOnce == "sync" \notin Delays /\ Spec => []OwedOnce
<1>1. Types /\ RefundInv => OwedOnce
  BY OwedOnceHolds DEF RefundInv
<1> QED BY <1>1, RefundInvariant, PTL

-----------------------------------------------------------------------------
(* The debt does not rest *)

\* A row is written to be taken up at once, and only a failed attempt puts it off.
LEMMA StepDue == Types /\ PendingIsDue /\ [Next]_vars => PendingIsDue'
<1> DEFINE Stays == \A o \in RowIds : PendingDue(rows[o]) => PendingDue(rows'[o])
<1> SUFFICES ASSUME Types, [Next]_vars PROVE Stays
  BY DEF PendingIsDue, PendingDue
<1>0. /\ rows \in RowsT /\ made \in 0 .. MaxRefunds /\ Door \in RowIds
      /\ \A o \in RowIds : rows[o] \in RowT
  BY Bounds DEF Types, BookTypes, StripeTypes, RowsT
<1>0a. ASSUME SameBooks PROVE Stays
  BY <1>0a DEF SameBooks
<1>0b. ASSUME NEW listing \in Listings, Commit(Recording(listing)) PROVE Stays
  BY <1>0b, CommitT
<1>0c. \A o \in RowIds : Succeeded(rows[o]).status = "SUCCEEDED" /\ GivenUp(rows[o]).status = "FAILED"
  BY <1>0, SucceededT, GivenUpT
<1>1. ASSUME NEW w \in Workers, Runner(w) PROVE Stays
  <2>1. ASSUME NEW o \in RowIds, Claim(w, o) PROVE Stays
    BY <2>1, ClaimE DEF PendingDue
  <2>2. CASE ReadClaim(w)
    BY <2>2, ReadClaimE, <1>0a
  <2>3. CASE ListRefunds(w)
    BY <2>3, ListRefundsE, <1>0a
  <2>4. CASE RecordListing(w)
    <3>1. work[w].listing \in Listings /\ (SameBooks \/ Commit(Recording(work[w].listing)))
      BY <2>4, RecordListingE
    <3> QED BY <3>1, <1>0a, <1>0b
  <2>5. CASE MarkListed(w)
    BY <2>5, MarkListedE DEF SameClaim, PendingDue
  <2>6. CASE Ask(w)
    BY <2>6, AskE, <1>0a
  <2>7. CASE RecordAnswer(w)
    BY <2>7, RecordAnswerE, <1>0b
  <2>8. CASE MoveRefused(w)
    BY <2>8, MoveRefusedE DEF SameClaim, PendingDue
  <2>9. CASE MarkResent(w)
    BY <2>9, MarkResentE DEF SameClaim, PendingDue
  <2>10. CASE Complete(w)
    BY <2>10, CompleteE, <1>0c DEF PendingDue
  <2>11. CASE FailAttempt(w)
    BY <2>11, FailAttemptE, <1>0c DEF PendingDue
  <2> QED BY <1>1, <2>1, <2>2, <2>3, <2>4, <2>5, <2>6, <2>7, <2>8, <2>9, <2>10, <2>11 DEF Runner
<1>2. CASE Progress
  <2>1. ASSUME NEW o \in RowIds, ResetStale(o) \/ ComeDue(o) PROVE Stays
    BY <2>1, GivesBackE DEF PendingDue
  <2>2. CASE DoorAsks
    BY <2>2, DoorAsksE, <1>0a
  <2>3. CASE DoorRecords
    BY <2>3, DoorRecordsE, <1>0b
  <2>4. CASE DoorKeepsOwed
    BY <2>4, DoorKeepsOwedE DEF SameClaim, PendingDue
  <2>5. CASE DoorCloses
    BY <2>5, DoorClosesE, <1>0, <1>0c DEF PendingDue
  <2>6. CASE RecordCharge
    BY <2>6, RecordChargeE, <1>0a, <1>0b
  <2>7. ASSUME NEW r \in Refunds, RecordFailure(r) PROVE Stays
    BY <2>7, RecordFailureE, <1>0b
  <2> QED BY <1>1, <1>2, <2>1, <2>2, <2>3, <2>4, <2>5, <2>6, <2>7 DEF Progress
<1>3. CASE DoorEnds \/ ListCharge \/ (\E w \in Workers : Throw(w) \/ Crash(w))
            \/ (\E r \in Refunds : FailLater(r) \/ Age(r) \/ Forget(r))
  BY <1>3, <1>0a, DoorEndsE, ListChargeE, ThrowE, CrashE, FailLaterE, AgesE
<1>4. CASE UNCHANGED vars
  BY <1>4 DEF vars
<1> QED BY <1>2, <1>3, <1>4 DEF Next

LEMMA InitDue == Init => PendingIsDue
<1> SUFFICES ASSUME Init PROVE PendingIsDue
  OBVIOUS
<1>1. made \in 0 .. MaxRefunds /\ 0 \in 0 .. MaxAttempts /\ 0 \in Nat
  BY Bounds DEF Init
<1>2. NewRow(0, 0).due
  BY <1>1, NewRowT
<1>3. \A o \in RowIds : rows[o] = IF o = Door THEN NewRow(0, 0) ELSE NoRow
  BY DEF Init
<1> QED BY <1>2, <1>3, NoRowT DEF PendingIsDue

\* A row owes the refund, and then it waits for somebody or is dead; or the last
\* refund counts on the books, and then it stands at Stripe or its failure is to come.
LEMMA DebtIsInHandHolds ==
  ASSUME Types, BooksInv, PendingIsDue PROVE DebtIsInHand
<1>1. /\ RefundsInTurn /\ Debt /\ made \in 0 .. MaxRefunds /\ status \in Listings
      /\ \A o \in RowIds : rows[o] \in RowT
      /\ MaxAttempts \in Nat
  BY Bounds DEF Types, StripeTypes, BookTypes, BooksInv, RowsT
<1>2. CASE \E o \in RowIds : IsOpen(rows[o])
  <2>1. PICK o \in RowIds : IsOpen(rows[o])
    BY <1>2
  <2>2. rows[o].attempts \in 0 .. MaxAttempts /\ rows[o].status \in {"PENDING", "FAILED", "PROCESSING"}
    BY <1>1, <2>1 DEF IsOpen, Unfinished, Claimable, RowT
  <2>3. CASE rows[o].status = "PROCESSING"
    BY <2>3 DEF DebtIsInHand, Awaited, IsStale
  <2>4. CASE rows[o].status # "PROCESSING" /\ rows[o].attempts >= MaxAttempts
    BY <2>2, <2>4 DEF DebtIsInHand, Settled, IsDead, Claimable
  <2>5. CASE rows[o].status = "FAILED" /\ rows[o].attempts < MaxAttempts
    BY <2>5 DEF DebtIsInHand, Awaited
  <2>6. CASE rows[o].status = "PENDING" /\ rows[o].attempts < MaxAttempts
    BY <2>6 DEF DebtIsInHand, Awaited, MayClaim, Claimable, PendingIsDue
  <2> QED BY <1>1, <2>2, <2>3, <2>4, <2>5, <2>6
<1>3. CASE ~\E o \in RowIds : IsOpen(rows[o])
  <2>1. made > 0 /\ ledger[made] = "live" /\ made \in Refunds
    BY <1>1, <1>3 DEF Debt, Refunds
  <2>2. \A o \in Existing(rows) : rows[o].status = "SUCCEEDED"
    BY <1>1, <1>3 DEF Existing, IsOpen, Unfinished, Claimable, RowT, Statuses
  <2>3. status[made] # "none" /\ status[made] \in {"none", "live", "failed"}
    BY <1>1, <2>1 DEF RefundsInTurn, Listings
  <2>4. CASE status[made] = "live"
    BY <2>1, <2>2, <2>4 DEF DebtIsInHand, Settled
  <2>5. CASE status[made] = "failed"
    BY <2>1, <2>5 DEF DebtIsInHand
  <2> QED BY <2>3, <2>4, <2>5
<1> QED BY <1>2, <1>3

\* However the attempts on it end, the debt is settled, told to the officers, or
\* waits for a step the runner, the reaper or Stripe's news will take.
THEOREM RefundInHand == "sync" \notin Delays /\ Spec => []DebtIsInHand
<1>1. Init => PendingIsDue
  BY InitDue
<1>2. Types /\ PendingIsDue /\ [Next]_vars => PendingIsDue'
  BY StepDue
<1>3. Types /\ RefundInv /\ PendingIsDue => DebtIsInHand
  BY DebtIsInHandHolds DEF RefundInv
<1> QED BY <1>1, <1>2, <1>3, RefundInvariant, PTL DEF Spec
-----------------------------------------------------------------------------
(* The promise of the abstract debt *)

DebtStep == [Debts!Next]_Debts!debt

\* Neither Stripe nor the books move, and the same rows are open.
LEMMA DebtRests ==
  ASSUME SameStripe, ledger' = ledger, \A o \in RowIds : IsOpen(rows'[o]) <=> IsOpen(rows[o])
  PROVE  DebtStep
<1>1. Stands' = Stands /\ Counted' = Counted
  BY DEF SameStripe, Stands, Counted
<1>2. IsOwed' = IsOwed
  BY DEF IsOwed
<1> QED BY <1>1, <1>2 DEF DebtStep, Debts!debt

\* One row is written, and is as open as before.
LEMMA RowRests ==
  ASSUME SameStripe, ledger' = ledger, NEW o \in RowIds, IsOpen(rows'[o]) <=> IsOpen(rows[o]),
         \A p \in RowIds : p # o => rows'[p] = rows[p]
  PROVE  DebtStep
BY DebtRests

LEMMA BooksRest ==
  ASSUME SameStripe, SameBooks
  PROVE  DebtStep
BY DebtRests DEF SameBooks

LEMMA OpenAsBefore ==
  ASSUME NEW new, NEW row, new.status = row.status
  PROVE  IsOpen(new) <=> IsOpen(row)
BY DEF IsOpen

\* The open row is closed while the books count the last refund.
LEMMA RowCloses ==
  ASSUME Types, RowsInTurn, SameStripe, ledger' = ledger, made > 0, ledger[made] = "live",
         NEW o \in RowIds, IsOpen(rows[o]), rows'[o] = Succeeded(rows[o]),
         \A p \in RowIds : p # o => rows'[p] = rows[p]
  PROVE  DebtStep
<1>1. Stands' = Stands /\ Counted' = Counted /\ Counted = "live"
  BY DEF SameStripe, Stands, Counted
<1>2. IsOwed
  BY DEF IsOwed
<1>3. ~IsOwed'
  <2>1. ~IsOpen(rows'[o])
    <3>1. rows[o] \in RowT /\ made \in 0 .. MaxRefunds
      BY DEF Types, BookTypes, StripeTypes, RowsT
    <3>2. rows'[o].status = "SUCCEEDED"
      BY <3>1, SucceededT
    <3> QED BY <3>2 DEF IsOpen, Unfinished, Claimable
  <2>2. ASSUME NEW p \in RowIds, p # o PROVE ~IsOpen(rows'[p])
    BY <2>2, OpenIsLatest, LatestIsOne
  <2> QED BY <2>1, <2>2 DEF IsOwed
<1>4. IsOwed' = FALSE
  BY <1>3
<1>5. Debts!Close
  BY <1>1, <1>2, <1>4 DEF Debts!Close
<1> QED BY <1>5 DEF DebtStep, Debts!Next

\* A refund is made: the first, or after one the books know failed.
LEMMA RefundSent ==
  ASSUME Types, RefundInv, RefundInv', SameBooks, NEW k, NEW r \in Refunds, Makes(k, r)
  PROVE  DebtStep
<1>1. /\ RefundsInTurn /\ (RefundsInTurn)' /\ Debt /\ made \in Nat /\ made \in 0 .. MaxRefunds
      /\ r = made + 1 /\ made' = r /\ ledger' = ledger /\ rows' = rows
  BY Bounds DEF RefundInv, BooksInv, Types, StripeTypes, Makes, SameBooks
<1>2. made > 0 => ledger[made] = "failed"
  <2> SUFFICES ASSUME made > 0 PROVE ledger[made] = "failed"
    OBVIOUS
  <2>1. made \in Refunds /\ made < made'
    BY <1>1 DEF Refunds
  <2> QED BY <1>1, <2>1 DEF RefundsInTurn
<1>3. IsOwed
  BY <1>1, <1>2 DEF Debt, IsOwed
<1>4. Stands = "none" \/ Counted = "failed"
  BY <1>1, <1>2 DEF Stands, Counted
<1>5. Stands' \in {"live", "failed"}
  BY <1>1 DEF Makes, Stands
<1>6. Counted' = "none"
  <2>1. ledger[r] = "none"
    BY <1>1 DEF RefundsInTurn
  <2> QED BY <1>1, <2>1 DEF Counted
<1>7. IsOwed' = IsOwed
  BY <1>1 DEF IsOwed
<1>8. Debts!Send
  BY <1>3, <1>4, <1>5, <1>6, <1>7 DEF Debts!Send, Debts!Outcomes
<1> QED BY <1>8 DEF DebtStep, Debts!Next

\* A list or an answer is recorded: the books count the last refund, or learn that it
\* failed and leave a row that owes the debt, or learn nothing.
LEMMA RefundRecorded ==
  ASSUME Types, RefundInv, RefundInv', NEW listing \in Listings, Read(listing), Seen(listing),
         Aware(listing), Commit(Recording(listing)), SameStripe
  PROVE  DebtStep
<1>1. /\ BooksInv /\ EarlyInv /\ RefundsInTurn /\ (RefundsInTurn)' /\ Debt' /\ made' = made
      /\ status' = status /\ ledger \in Listings
      /\ (made = 0 \/ made \in Refunds) /\ made \in Nat
  BY Bounds DEF RefundInv, BooksInv, SameStripe, Types, BookTypes, StripeTypes, Refunds
<1>2. Stood \/ (\E o \in RowIds : Took(o)) \/ Wrote
  BY <1>1, RecordingE
<1>3. made > 0 => ledger'[made] = IF listing[made] = "none" \/ ledger[made] = "failed"
                                  THEN ledger[made] ELSE listing[made]
  BY <1>1, RecordingRefunds
<1>4. Stands' = Stands
  BY <1>1 DEF Stands
<1>5. ASSUME NEW o \in RowIds, Took(o) PROVE ledger'[made] = "failed" /\ made \in Refunds /\ IsOwed /\ IsOwed'
  BY <1>5, OpenAsBefore DEF Took, SameClaim, IsOwed
<1>6. CASE made = 0
  <2>1. rows' = rows
    BY <1>1, <1>2, <1>5, <1>6, Bounds DEF Stood, Wrote, Refunds
  <2>2. Counted' = Counted /\ IsOwed' = IsOwed
    BY <1>1, <1>6, <2>1 DEF Counted, IsOwed
  <2> QED BY <1>4, <2>2 DEF DebtStep, Debts!debt
<1>7. CASE made \in Refunds
  <2>1. /\ made > 0 /\ Counted = ledger[made] /\ Counted' = ledger'[made] /\ Stands = status[made]
        /\ ledger[made] \in {"none", "live", "failed"}
        /\ ledger'[made] = "failed" => status[made] = "failed"
        /\ status[made] # "none"
    BY <1>1, <1>7, Bounds DEF Refunds, Counted, Stands, Listings, RefundsInTurn
  <2>2. CASE ledger'[made] = "failed"
    <3>1. IsOwed'
      BY <1>1, <2>1, <2>2 DEF Debt, IsOwed
    <3>2. CASE ledger[made] = "failed"
      <4>1. IsOwed
        BY <2>1, <3>2 DEF RefundInv, BooksInv, Debt, IsOwed
      <4>2. IsOwed' = IsOwed
        BY <3>1, <4>1 DEF IsOwed
      <4>3. Counted' = Counted
        BY <2>1, <2>2, <3>2
      <4> QED BY <1>4, <4>2, <4>3 DEF DebtStep, Debts!debt
    <3>3. CASE ledger[made] # "failed"
      <4>1. Stands = "failed" /\ Counted # "failed" /\ Counted' = "failed"
        BY <2>1, <2>2, <3>3
      <4>2. IsOwed' = TRUE
        BY <3>1 DEF IsOwed
      <4>3. Debts!Uncount
        BY <1>4, <4>1, <4>2 DEF Debts!Uncount
      <4> QED BY <4>3 DEF DebtStep, Debts!Next
    <3> QED BY <3>2, <3>3
  <2>3. CASE ledger'[made] # "failed"
    <3>1. Stood
      BY <1>2, <1>5, <2>3 DEF Wrote
    <3>2. IsOwed' = IsOwed
      BY <3>1 DEF Stood, IsOwed
    <3>3. CASE ledger'[made] = ledger[made]
      <4>1. Counted' = Counted
        BY <2>1, <3>3
      <4> QED BY <1>4, <3>2, <4>1 DEF DebtStep, Debts!debt
    <3>4. CASE ledger'[made] # ledger[made]
      <4>1. listing[made] \in {"none", "live", "failed"}
        BY <1>7 DEF Listings
      <4>2. ledger'[made] = "live" /\ ledger[made] = "none"
        BY <1>3, <2>1, <2>3, <3>1, <3>4, <4>1 DEF Stood
      <4>3. Stands # "none" /\ Counted = "none" /\ Counted' = "live"
        BY <2>1, <4>2
      <4>4. Debts!Count
        BY <1>4, <3>2, <4>3 DEF Debts!Count
      <4> QED BY <4>4 DEF DebtStep, Debts!Next
    <3> QED BY <3>3, <3>4
  <2> QED BY <2>2, <2>3
<1> QED BY <1>1, <1>6, <1>7
-----------------------------------------------------------------------------
(* ... kept by every step *)

\* What Stripe told is so: of the list an attempt read, ...
LEMMA RecordListingDebt ==
  ASSUME Types, RefundInv, RefundInv', NEW w \in Workers, RecordListing(w) PROVE DebtStep
<1>1. /\ SameStripe /\ work[w].pc = "recording" /\ work[w].listing \in Listings
      /\ SameBooks \/ Commit(Recording(work[w].listing))
  BY RecordListingE
<1>2. Read(work[w].listing) /\ Seen(work[w].listing)
  BY <1>1 DEF RefundInv, WorkInv, AttemptInv
<1>3. Aware(work[w].listing)
  BY <1>1, BusyAware DEF Busy
<1> QED BY <1>1, <1>2, <1>3, BooksRest, RefundRecorded

\* ... of the answer to an attempt, ...
LEMMA RecordAnswerDebt ==
  ASSUME Types, RefundInv, RefundInv', NEW w \in Workers, RecordAnswer(w) PROVE DebtStep
<1> DEFINE r == work[w].refund
           listing == Only(r, answer[r])
<1>1. /\ SameStripe /\ work[w].pc = "answered" /\ r \in Refunds /\ listing \in Listings
      /\ Commit(Recording(listing))
  BY RecordAnswerE
<1>2. WorkInv /\ AttemptInv(w) /\ Busy(w) /\ work[w].pc \in Answered
  BY <1>1 DEF RefundInv, WorkInv, Busy, Answered
<1>3. r \in 1 .. made /\ r <= made
  BY <1>1, <1>2, Bounds DEF AttemptInv, Answered, Types, StripeTypes
<1>4. r = made \/ (r = 1 /\ Early)
  <2>1. CASE Holder(w)
    BY <1>2, <2>1 DEF WorkInv, HolderInv
  <2>2. CASE ~Holder(w)
    BY <1>2, <2>2, LateRefund DEF Early, Holder, Late
  <2> QED BY <2>1, <2>2
<1>5. Read(listing) /\ Seen(listing)
  BY <1>1, <1>3, <1>4, AnswerRead
<1>6. Aware(listing)
  BY <1>2, BusyAware
<1> HIDE DEF listing
<1> QED BY <1>1, <1>5, <1>6, RefundRecorded

\* ... of the answer to the cancellation's own request, ...
LEMMA DoorRecordsDebt ==
  ASSUME Types, RefundInv, RefundInv', DoorRecords PROVE DebtStep
<1> DEFINE listing == Only(1, answer[1])
<1>1. door.pc = "answered" /\ door.refund = 1 /\ made > 0 /\ Early /\ 1 \in Refunds /\ 1 <= made
  <2>1. door.pc = "answered"
    BY DEF DoorRecords
  <2> QED BY <2>1, Bounds DEF RefundInv, DoorInv, Early, Refunds, Types, StripeTypes
<1>2. SameStripe /\ listing \in Listings /\ Commit(Recording(listing))
  BY <1>1, DoorRecordsE
<1>3. Read(listing) /\ Seen(listing)
  BY <1>1, AnswerRead
<1>4. Aware(listing)
  BY <1>1 DEF Aware
<1> HIDE DEF listing
<1> QED BY <1>2, <1>3, <1>4, RefundRecorded

\* ... of a failure, ...
LEMMA RecordFailureDebt ==
  ASSUME Types, RefundInv, RefundInv', NEW r \in Refunds, RecordFailure(r) PROVE DebtStep
<1> DEFINE listing == Only(r, "failed")
<1>1. SameStripe /\ status[r] = "failed" /\ listing \in Listings /\ Commit(Recording(listing))
  BY RecordFailureE
<1>2. listing[r] = "failed" /\ \A q \in Refunds : q # r => listing[q] = "none"
  BY OnlyT
<1>3. r <= made
  <2>1. ~(r > made)
    BY <1>1 DEF RefundInv, BooksInv, RefundsInTurn
  <2> QED BY <2>1, Bounds DEF Types, StripeTypes, Refunds
<1> HIDE DEF listing
<1>4. Read(listing) /\ Seen(listing)
  BY <1>1, <1>2, <1>3 DEF Read, Seen
<1>5. Aware(listing)
  <2>1. made > 0 => made \in Refunds
    BY Bounds DEF Types, StripeTypes, Refunds
  <2> QED BY <1>2, <2>1 DEF Aware
<1> QED BY <1>1, <1>4, <1>5, RefundRecorded

\* ... and of the charge.
LEMMA RecordChargeDebt ==
  ASSUME Types, RefundInv, RefundInv', RecordCharge PROVE DebtStep
<1>1. SameStripe /\ charge \in Listings /\ (Commit(Recording(charge)) \/ SameBooks)
  BY RecordChargeE
<1>2. Read(charge) /\ RefundsInTurn /\ \A r \in Refunds : charge[r] = "live" => status[r] = "live" /\ r = made
  BY LiveIsLast DEF RefundInv, BooksInv, ChargeInv
<1>3. Seen(charge)
  BY <1>2, Bounds DEF Seen, Types, StripeTypes, Refunds
<1>4. Aware(charge)
  BY <1>2, Bounds DEF Aware, RefundsInTurn, Types, StripeTypes, Refunds
<1> QED BY <1>1, <1>2, <1>3, <1>4, BooksRest, RefundRecorded

\* Asking: a remembered key makes nothing.
LEMMA AskDebt ==
  ASSUME Types, RefundInv, RefundInv', NEW w \in Workers, Ask(w) PROVE DebtStep
BY AskE, BooksRest, RefundSent

LEMMA DoorAsksDebt ==
  ASSUME Types, RefundInv, RefundInv', DoorAsks PROVE DebtStep
BY DoorAsksE, BooksRest, RefundSent

\* A refund that fails is the last one.
LEMMA FailLaterDebt ==
  ASSUME Types, RefundInv, NEW r \in Refunds, FailLater(r) PROVE DebtStep
<1>1. /\ SameBooks /\ made' = made /\ status[r] = "live" /\ status'[r] = "failed"
  BY FailLaterE
<1>2. r = made /\ made > 0
  BY <1>1, LiveIsLast DEF RefundInv, BooksInv
<1>3. Stands = "live" /\ Stands' = "failed" /\ Counted' = Counted /\ IsOwed' = IsOwed
  BY <1>1, <1>2, Bounds DEF Stands, Counted, IsOwed, SameBooks, Refunds
<1>4. Debts!Fail
  BY <1>3 DEF Debts!Fail
<1> QED BY <1>4 DEF DebtStep, Debts!Next

LEMMA AgesDebt ==
  ASSUME Types, NEW r \in Refunds, Age(r) \/ Forget(r) PROVE DebtStep
<1>1. SameBooks /\ made' = made /\ status' = status
  BY AgesE
<1>2. Stands' = Stands /\ Counted' = Counted /\ IsOwed' = IsOwed
  BY <1>1 DEF SameBooks, Stands, Counted, IsOwed
<1> QED BY <1>2 DEF DebtStep, Debts!debt

\* The two that close the row: the request on the plan it sent, and the attempt
\* that holds the claim, each with the last refund on the books.
LEMMA DoorClosesDebt ==
  ASSUME Types, RefundInv, DoorCloses PROVE DebtStep
<1>1. /\ SameStripe /\ ledger' = ledger /\ door.pc = "made"
      /\ \/ rows' = rows
         \/ /\ IsOpen(rows[Door]) /\ Plan(rows[Door]) = SentPlan
            /\ rows'[Door] = Succeeded(rows[Door])
            /\ \A o \in RowIds : o # Door => rows'[o] = rows[o]
  BY DoorClosesE
<1>2. CASE rows' = rows
  BY <1>1, <1>2, DebtRests
<1>3. CASE /\ IsOpen(rows[Door]) /\ Plan(rows[Door]) = SentPlan
           /\ rows'[Door] = Succeeded(rows[Door])
           /\ \A o \in RowIds : o # Door => rows'[o] = rows[o]
  <2>1. made = 1 /\ ledger[1] = "live" /\ RowsInTurn
    BY <1>1, <1>3 DEF RefundInv, BooksInv, DoorInv
  <2>2. made > 0 /\ ledger[made] = "live" /\ Door \in RowIds
    BY <2>1, Bounds
  <2> QED BY <1>1, <1>3, <2>1, <2>2, RowCloses
<1> QED BY <1>1, <1>2, <1>3

LEMMA CompleteDebt ==
  ASSUME Types, RefundInv, NEW w \in Workers, Complete(w) PROVE DebtStep
<1> DEFINE o == work[w].row
<1>1. /\ SameStripe /\ ledger' = ledger /\ work[w].pc = "closing" /\ o \in RowIds
      /\ \/ rows' = rows
         \/ /\ rows[o].status = "PROCESSING" /\ rows'[o] = Succeeded(rows[o])
            /\ \A p \in RowIds : p # o => rows'[p] = rows[p]
  BY CompleteE
<1>2. CASE rows' = rows
  BY <1>1, <1>2, DebtRests
<1>3. CASE /\ rows[o].status = "PROCESSING" /\ rows'[o] = Succeeded(rows[o])
           /\ \A p \in RowIds : p # o => rows'[p] = rows[p]
  <2>1. Holder(w)
    BY <1>1, <1>3 DEF Holder, Busy
  <2>2. made > 0 /\ ledger[made] = "live" /\ RowsInTurn
    BY <1>1, <2>1 DEF RefundInv, BooksInv, WorkInv, HolderInv
  <2>3. IsOpen(rows[o])
    BY <1>3 DEF IsOpen, Unfinished
  <2> HIDE DEF o
  <2> QED BY <1>1, <1>3, <2>2, <2>3, RowCloses
<1> QED BY <1>1, <1>2, <1>3

\* The steps that write a row and leave it open.
LEMMA RowStepDebt ==
  ASSUME Types,
         \/ DoorKeepsOwed
         \/ \E o \in RowIds : ComeDue(o) \/ ResetStale(o)
         \/ \E w \in Workers : \/ \E o \in RowIds : Claim(w, o)
                               \/ MarkListed(w) \/ MoveRefused(w) \/ MarkResent(w) \/ FailAttempt(w)
  PROVE  DebtStep
<1>1. CASE DoorKeepsOwed
  <2>1. /\ SameStripe /\ ledger' = ledger
        /\ \/ rows' = rows
           \/ /\ SameClaim(rows'[Door], rows[Door])
              /\ \A o \in RowIds : o # Door => rows'[o] = rows[o]
    BY <1>1, DoorKeepsOwedE
  <2> QED BY <2>1, DebtRests, RowRests, OpenAsBefore, Bounds DEF SameClaim
<1>2. ASSUME NEW o \in RowIds, ComeDue(o) \/ ResetStale(o) PROVE DebtStep
  <2>1. /\ SameStripe /\ ledger' = ledger
        /\ rows[o].status \in {"FAILED", "PROCESSING"} /\ rows'[o].status = "FAILED"
        /\ \A p \in RowIds : p # o => rows'[p] = rows[p]
    BY <1>2, GivesBackE
  <2>2. IsOpen(rows'[o]) /\ IsOpen(rows[o])
    BY <2>1 DEF IsOpen, Unfinished, Claimable
  <2> QED BY <2>1, <2>2, RowRests
<1>3. ASSUME NEW w \in Workers, NEW o \in RowIds, Claim(w, o) PROVE DebtStep
  <2>1. /\ SameStripe /\ ledger' = ledger /\ MayClaim(rows[o]) /\ rows'[o].status = "PROCESSING"
        /\ \A p \in RowIds : p # o => rows'[p] = rows[p]
    BY <1>3, ClaimE
  <2>2. IsOpen(rows'[o]) /\ IsOpen(rows[o])
    BY <2>1 DEF MayClaim, IsOpen, Unfinished, Claimable
  <2> QED BY <2>1, <2>2, RowRests
<1>4. ASSUME NEW w \in Workers, MarkListed(w) \/ MoveRefused(w) \/ MarkResent(w) PROVE DebtStep
  <2>1. /\ SameStripe /\ ledger' = ledger /\ work[w].row \in RowIds
        /\ \/ rows' = rows
           \/ /\ SameClaim(rows'[work[w].row], rows[work[w].row])
              /\ \A p \in RowIds : p # work[w].row => rows'[p] = rows[p]
    BY <1>4, MarkListedE, MoveRefusedE, MarkResentE
  <2> QED BY <2>1, DebtRests, RowRests, OpenAsBefore DEF SameClaim
<1>5. ASSUME NEW w \in Workers, FailAttempt(w) PROVE DebtStep
  <2> DEFINE o == work[w].row
  <2>1. /\ SameStripe /\ ledger' = ledger /\ o \in RowIds
        /\ \/ rows' = rows
           \/ /\ IsOpen(rows[o]) /\ rows'[o] = GivenUp(rows[o])
              /\ \A p \in RowIds : p # o => rows'[p] = rows[p]
    BY <1>5, FailAttemptE
  <2>2. rows[o] \in RowT
    BY <2>1 DEF Types, BookTypes, RowsT
  <2>3. rows'[o] = GivenUp(rows[o]) => IsOpen(rows'[o])
    <3>1. GivenUp(rows[o]).status = "FAILED"
      BY <2>2, GivenUpT
    <3> QED BY <3>1 DEF IsOpen, Unfinished, Claimable
  <2> HIDE DEF o
  <2> QED BY <2>1, <2>3, DebtRests, RowRests
<1> QED BY <1>1, <1>2, <1>3, <1>4, <1>5

LEMMA StepDebt == Types /\ RefundInv /\ RefundInv' /\ [Next]_vars => DebtStep
<1> SUFFICES ASSUME Types, RefundInv, RefundInv', [Next]_vars PROVE DebtStep
  OBVIOUS
<1>1. ASSUME NEW w \in Workers, Runner(w) PROVE DebtStep
  BY <1>1, RowStepDebt, ReadClaimE, ListRefundsE, BooksRest, RecordListingDebt, AskDebt,
     RecordAnswerDebt, CompleteDebt DEF Runner
<1>2. CASE Progress
  BY <1>1, <1>2, RowStepDebt, DoorAsksDebt, DoorRecordsDebt, DoorClosesDebt,
     RecordChargeDebt, RecordFailureDebt DEF Progress
<1>3. ASSUME NEW w \in Workers, Throw(w) \/ Crash(w) PROVE DebtStep
  BY <1>3, ThrowE, CrashE, BooksRest
<1>4. CASE Next
  BY <1>2, <1>3, <1>4, DoorEndsE, ListChargeE, BooksRest, FailLaterDebt, AgesDebt DEF Next
<1>5. CASE UNCHANGED vars
  BY <1>5, BooksRest DEF vars, SameStripe, SameBooks
<1> QED BY <1>4, <1>5

LEMMA InitDebt == Init => Debts!Init
<1> SUFFICES ASSUME Init PROVE Debts!Init
  OBVIOUS
<1>1. made = 0 /\ Types /\ RefundInv
  BY InitTypes, InitInv DEF Init
<1>2. IsOwed = TRUE
  BY <1>1 DEF RefundInv, BooksInv, Debt, IsOwed
<1> QED BY <1>1, <1>2 DEF Debts!Init, Stands, Counted

\* Whatever the request, the runners, the webhooks and Stripe do to the rows, the debt
\* behind them is one of RefundDebt: sent again only when the books know of the
\* failure, let go only while they count a refund, owed again at once when it failed.
THEOREM RefundImplementsDebt == "sync" \notin Delays /\ Spec => DebtSpec
<1>1. Types /\ RefundInv /\ RefundInv' /\ [Next]_vars => [Debts!Next]_Debts!debt
  BY StepDebt DEF DebtStep
<1> QED BY <1>1, InitDebt, RefundInvariant, PTL DEF Spec, DebtSpec, Debts!Spec
=============================================================================
