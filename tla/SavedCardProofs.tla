--------------------------- MODULE SavedCardProofs ---------------------------
(***************************************************************************)
(* For any number of callers, rows, intents and cards: the charge of a     *)
(* saved card keeps its types, makes one charge of an attempt, never takes *)
(* a capture off the ledger, leaves a paid booking with a capture behind   *)
(* it, and implements CaptureBooks.                                        *)
(***************************************************************************)
EXTENDS SavedCardCharge, TLAPS

USE DEF Rows, Intents, Cards, None

-----------------------------------------------------------------------------
(* Types *)

\* A caller that works on an attempt has its row, one that was answered an
\* intent: TypeOK alone is not inductive.
CallOK(k) ==
  /\ k.pc \in {"canceling", "reviving", "asking", "failing", "settling", "answering"} => k.row \in Rows
  /\ k.pc \in {"settling", "answering", "marking"} => k.intent \in Intents
  /\ k.pc \in {"settling", "answering"} => k.told # "none"
  /\ k.pc = "reviving" => k.found \in Intents

TypedCall == {k \in CallType : CallOK(k)}

TypedRow == {r \in RowType : r.status = "SUCCEEDED" => r.intent \in Intents}

TInv == TypeOK /\ call \in [Callers -> TypedCall] /\ rows \in [Rows -> TypedRow]

\* What a caller carries from one step to the next is a call record.
LEMMA IdleType == Idle \in CallType /\ Idle.pc = "idle"
  BY DEF Idle, CallType

LEMMA AnsweredType ==
  ASSUME NEW k \in CallType, NEW i \in Intents, NEW told \in {"SUCCEEDED", "PROCESSING", "FAILED"}
  PROVE  /\ Answered(k, i, told) \in CallType
         /\ Answered(k, i, told).pc = IF told = "SUCCEEDED" THEN "settling" ELSE "answering"
         /\ Answered(k, i, told).row = k.row
         /\ Answered(k, i, told).intent = i
         /\ Answered(k, i, told).told = told
         /\ Answered(k, i, told).stale = {}
         /\ Answered(k, i, told).captured = None
         /\ Answered(k, i, told).live = None
  <1> DEFINE pc == IF told = "SUCCEEDED" THEN "settling" ELSE "answering"
             r1 == [Idle EXCEPT !.pc = pc]
             r2 == [r1 EXCEPT !.row = k.row]
             r3 == [r2 EXCEPT !.intent = i]
             r4 == [r3 EXCEPT !.told = told]
             Rest(r) == r.stale = {} /\ r.captured = None /\ r.live = None
  <1>1. k.row \in Rows \cup {None} /\ pc \in {"settling", "answering"}
    BY DEF CallType
  <1>2. r1 \in CallType /\ r1.pc = pc /\ Rest(r1)
    BY <1>1, IdleType DEF CallType, Idle
  <1>3. Answered(k, i, told) = r4
    BY DEF Answered
  <1> HIDE DEF pc, r1
  <1>4. r2 \in CallType /\ r2.pc = pc /\ r2.row = k.row /\ Rest(r2)
    BY <1>1, <1>2 DEF CallType
  <1> HIDE DEF r2
  <1>5. r3 \in CallType /\ r3.pc = pc /\ r3.row = k.row /\ r3.intent = i /\ Rest(r3)
    BY <1>4 DEF CallType
  <1> HIDE DEF r3
  <1>6. r4 \in CallType /\ r4.pc = pc /\ r4.row = k.row /\ r4.intent = i /\ r4.told = told /\ Rest(r4)
    BY <1>5 DEF CallType
  <1> HIDE DEF r4
  <1> QED BY <1>3, <1>6 DEF pc

LEMMA AnsweredTyped ==
  ASSUME NEW k \in CallType, NEW i \in Intents, NEW told \in {"SUCCEEDED", "PROCESSING", "FAILED"},
         k.row \in Rows
  PROVE  Answered(k, i, told) \in TypedCall
  BY AnsweredType DEF TypedCall, CallOK

LEMMA LedgerStatusType ==
  ASSUME NEW s PROVE LedgerStatus(s) \in {"SUCCEEDED", "PROCESSING", "FAILED"}
  BY DEF LedgerStatus

LEMMA VisitedType ==
  ASSUME NEW k \in CallType, NEW i, k.row \in Rows
  PROVE  Visited(k, i) \in TypedCall
  <1> DEFINE rest == [k EXCEPT !.stale = @ \ {i}, !.found = None]
  <1>1. rest \in CallType
    BY DEF CallType
  <1>2. [rest EXCEPT !.pc = "canceling"] \in CallType /\ [rest EXCEPT !.pc = "asking"] \in CallType
    BY <1>1 DEF CallType
  <1>3. rest.captured = k.captured /\ rest.live = k.live /\ rest.captured \in Intents \cup {None}
        /\ rest.live \in Intents \cup {None}
    BY DEF CallType
  <1>4. Visited(k, i) = IF rest.stale # {} THEN [rest EXCEPT !.pc = "canceling"]
     ELSE IF rest.captured # None THEN Answered(k, rest.captured, "SUCCEEDED")
     ELSE IF rest.live # None THEN Answered(k, rest.live, "PROCESSING")
     ELSE [rest EXCEPT !.pc = "asking"]
    BY DEF Visited
  <1> HIDE DEF rest
  <1>5. rest.captured # None => Answered(k, rest.captured, "SUCCEEDED") \in TypedCall
    BY <1>3, AnsweredTyped
  <1>6. rest.live # None => Answered(k, rest.live, "PROCESSING") \in TypedCall
    BY <1>3, AnsweredTyped
  <1>7. [rest EXCEPT !.pc = "canceling"] \in TypedCall /\ [rest EXCEPT !.pc = "asking"] \in TypedCall
    <2>1. rest.row = k.row
      BY DEF rest, CallType
    <2> QED BY <1>1, <1>2, <2>1 DEF TypedCall, CallOK, CallType
  <1> QED BY <1>4, <1>5, <1>6, <1>7

\* The two writers of an answer keep the ledger in its type.
LEMMA SettledType ==
  ASSUME TInv, NEW a, NEW i \in Intents, NEW st \in {"SUCCEEDED", "PROCESSING", "FAILED"}
  PROVE  Settled(rows, a, i, st) \in [Rows -> TypedRow]
  <1> DEFINE row(b) == Settled(rows, a, i, st)[b]
  <1>1. Settled(rows, a, i, st) = [b \in Rows |-> row(b)]
    BY DEF Settled
  <1>2. ASSUME NEW b \in Rows PROVE row(b) \in TypedRow
    BY DEF Settled, TypeOK, RowType, TypedRow, TInv, NoRow
  <1> QED BY <1>1, <1>2

LEMMA UpsertedType ==
  ASSUME TInv, NEW a \in Rows, NEW i \in Intents
  PROVE  Upserted(rows, a, i) \in [Rows -> TypedRow]
  BY DEF TypeOK, Upserted, RowType, TypedRow, TInv

\* The records a caller goes on with.
LEMMA ReleasesType == [Idle EXCEPT !.pc = "releasing"] \in TypedCall
  <1>1. [Idle EXCEPT !.pc = "releasing"] \in CallType /\ [Idle EXCEPT !.pc = "releasing"].pc = "releasing"
    BY IdleType DEF CallType
  <1> QED BY <1>1 DEF TypedCall, CallOK

LEMMA CondemnsType ==
  ASSUME NEW k \in CallType, NEW pc \in {"releasing", "retiring"}
  PROVE  [Idle EXCEPT !.pc = pc, !.card = k.card] \in TypedCall
  <1> DEFINE r == [Idle EXCEPT !.pc = pc]
  <1>1. r \in CallType /\ r.pc = pc /\ k.card \in Cards \cup {None}
    BY IdleType DEF CallType
  <1> HIDE DEF r
  <1>2. [r EXCEPT !.card = k.card] \in CallType /\ [r EXCEPT !.card = k.card].pc = pc
    BY <1>1 DEF CallType
  <1>3. [r EXCEPT !.card = k.card] \in TypedCall
    BY <1>2 DEF TypedCall, CallOK
  <1> QED BY <1>3 DEF r

LEMMA MarksType ==
  ASSUME NEW k \in CallType, k.intent \in Intents
  PROVE  /\ [Idle EXCEPT !.pc = "marking", !.intent = k.intent] \in TypedCall
         /\ [Idle EXCEPT !.pc = "marking", !.intent = k.intent].intent = k.intent
         /\ [Idle EXCEPT !.pc = "marking", !.intent = k.intent].pc = "marking"
         /\ [Idle EXCEPT !.pc = "marking", !.intent = k.intent].row = None
  <1> DEFINE r == [Idle EXCEPT !.pc = "marking"]
             q == [r EXCEPT !.intent = k.intent]
  <1>1. r \in CallType /\ r.pc = "marking" /\ r.row = None
    BY IdleType DEF CallType, Idle
  <1> HIDE DEF r
  <1>2. q \in CallType /\ q.pc = "marking" /\ q.intent = k.intent /\ q.row = None
    BY <1>1 DEF CallType
  <1>3. q \in TypedCall
    BY <1>2 DEF TypedCall, CallOK
  <1> QED BY <1>2, <1>3 DEF r

LEMMA FailingType ==
  ASSUME NEW k \in CallType, k.row \in Rows
  PROVE  [k EXCEPT !.pc = "failing"] \in TypedCall
  BY DEF TypedCall, CallType, CallOK

LEMMA RevivingType ==
  ASSUME NEW k \in CallType, k.row \in Rows, NEW i \in Intents
  PROVE  [k EXCEPT !.pc = "reviving", !.found = i] \in TypedCall
  <1> DEFINE r == [k EXCEPT !.pc = "reviving"]
  <1>1. r \in CallType /\ r.pc = "reviving" /\ r.row = k.row
    BY DEF CallType
  <1> HIDE DEF r
  <1>2. [r EXCEPT !.found = i] \in TypedCall
    BY <1>1 DEF CallType, TypedCall, CallOK
  <1> QED BY <1>2 DEF r

LEMMA FoundType ==
  ASSUME NEW k \in CallType, NEW i \in Intents
  PROVE  /\ FoundCaptured(k, i) \in CallType
         /\ FoundCaptured(k, i).row = k.row
         /\ FoundLive(k, i) \in CallType
         /\ FoundLive(k, i).row = k.row
  <1>1. First(k.captured, i) \in Intents \cup {None} /\ First(k.live, i) \in Intents \cup {None}
    BY DEF CallType, First
  <1>2. FoundCaptured(k, i) \in CallType /\ FoundCaptured(k, i).row = k.row
    BY <1>1 DEF CallType, FoundCaptured
  <1>3. FoundLive(k, i) \in CallType /\ FoundLive(k, i).row = k.row
    BY <1>1 DEF CallType, FoundLive
  <1> QED BY <1>2, <1>3

LEMMA BegunType ==
  ASSUME TInv, NEW a \in Rows, NEW i \in Intents \cup {None}, NEW stale \in SUBSET Intents
  PROVE  /\ Begun(a, i, stale) \in CallType
         /\ Begun(a, i, stale).pc \in {"canceling", "asking"}
         /\ Begun(a, i, stale).row = a
         /\ Begun(a, i, stale).intent = i
         /\ Begun(a, i, stale).stale = stale
         /\ Begun(a, i, stale).told = "none"
         /\ Begun(a, i, stale).captured = None
         /\ Begun(a, i, stale).live = None
  <1> DEFINE pc == IF stale = {} THEN "asking" ELSE "canceling"
             r1 == [Idle EXCEPT !.pc = pc]
             r2 == [r1 EXCEPT !.row = a]
             r3 == [r2 EXCEPT !.card = card]
             r4 == [r3 EXCEPT !.intent = i]
             r5 == [r4 EXCEPT !.stale = stale]
             Rest(r) == r.captured = None /\ r.live = None /\ r.told = "none"
  <1>1. pc \in {"canceling", "asking"} /\ card \in Cards \cup {None}
    BY DEF TInv, TypeOK
  <1>2. r1 \in CallType /\ r1.pc = pc /\ Rest(r1)
    BY <1>1, IdleType DEF CallType, Idle
  <1>3. Begun(a, i, stale) = r5
    BY DEF Begun
  <1> HIDE DEF pc, r1
  <1>4. r2 \in CallType /\ r2.pc = pc /\ r2.row = a /\ Rest(r2)
    BY <1>2 DEF CallType
  <1> HIDE DEF r2
  <1>5. r3 \in CallType /\ r3.pc = pc /\ r3.row = a /\ Rest(r3)
    BY <1>1, <1>4 DEF CallType
  <1> HIDE DEF r3
  <1>6. r4 \in CallType /\ r4.pc = pc /\ r4.row = a /\ r4.intent = i /\ Rest(r4)
    BY <1>5 DEF CallType
  <1> HIDE DEF r4
  <1>7. r5 \in CallType /\ r5.pc = pc /\ r5.row = a /\ r5.intent = i /\ r5.stale = stale /\ Rest(r5)
    BY <1>6 DEF CallType
  <1> HIDE DEF r5
  <1> QED BY <1>1, <1>3, <1>7

LEMMA RowStatus ==
  ASSUME NEW r \in TypedRow, NEW s \in {"PENDING", "PROCESSING", "FAILED"}
  PROVE  [r EXCEPT !.status = s] \in TypedRow
  BY DEF TypedRow, RowType

LEMMA RowCard == ASSUME NEW r \in TypedRow PROVE [r EXCEPT !.card = None] \in TypedRow
  BY DEF TypedRow, RowType

LEMMA RowsTyped == ASSUME TInv, NEW a \in Rows PROVE rows[a] \in TypedRow
  BY DEF TInv

\* One caller's call is all a caller changes.
LEMMA CallType1 ==
  ASSUME TInv, NEW c \in Callers, NEW k \in TypedCall, call' = [call EXCEPT ![c] = k]
  PROVE  call' \in [Callers -> TypedCall] /\ call' \in [Callers -> CallType]
  BY DEF TInv, TypedCall

LEMMA CallTyped ==
  ASSUME TInv, NEW c \in Callers
  PROVE  call[c] \in CallType /\ CallOK(call[c])
  BY DEF TInv, TypedCall

LEMMA EndedType ==
  ASSUME TInv, NEW ended
  PROVE  Ended(rows, ended) \in [Rows -> TypedRow]
  <1>1. ASSUME NEW a \in Rows PROVE Ended(rows, ended)[a] \in TypedRow
    BY DEF Ended, TypeOK, RowType, TypedRow, TInv
  <1>2. Ended(rows, ended) = [a \in Rows |-> Ended(rows, ended)[a]]
    BY DEF Ended
  <1> QED BY <1>1, <1>2

LEMMA StopsType ==
  ASSUME TInv, NEW c \in Callers, Stops(c)
  PROVE  call' \in [Callers -> TypedCall] /\ call' \in [Callers -> CallType]
  BY IdleType, CallType1 DEF Stops, TypedCall, CallOK

LEMMA AnswersType ==
  ASSUME TInv, NEW c \in Callers, NEW i \in Intents, NEW status, Answers(c, i, status),
         call[c].row \in Rows
  PROVE  \E k \in TypedCall : call' = [call EXCEPT ![c] = k]
  <1>1. call[c] \in CallType
    BY CallTyped
  <1>2. Answered(call[c], i, LedgerStatus(status)) \in TypedCall
    BY <1>1, AnsweredTyped, LedgerStatusType
  <1> QED BY <1>1, <1>2, FailingType, ReleasesType DEF Answers, Releases

\* What a settlement writes.
SettlesTyped ==
  /\ rows \in [Rows -> TypedRow] /\ settler \in Rows \cup {None} /\ returned \subseteq Intents
  /\ booking \in {"PENDING", "CONFIRMED", "PAID", "CANCELLED"}

LEMMA SettlesType ==
  ASSUME TInv, NEW i \in Intents, NEW a \in Rows, Settles(i, a)
  PROVE  SettlesTyped'
  BY UpsertedType DEF SettlesTyped, Settles, TInv, TypeOK

\* Every step keeps the types.
LEMMA TypeStep == TInv /\ [Next]_vars => TInv'
  <1> SUFFICES ASSUME TInv, [Next]_vars PROVE TInv'
    OBVIOUS
  <1> USE SavedCardAssumption
  <1>0. TypeOK
    BY DEF TInv
  <1>1. ASSUME NEW c \in Callers, Claim(c) PROVE TInv'
    <2>1. PICK a \in Rows :
            LET stale == {rows[b].intent : b \in Superseded(a)} \ {None}
                ended == Ended(rows, Superseded(a))
            IN \/ /\ Replay(a)
                  /\ rows' = ended
                  /\ call' = [call EXCEPT ![c] = Begun(a, rows[a].intent, stale)]
               \/ /\ Replayable = {} /\ a \in Fresh(rows)
                  /\ rows' = [ended EXCEPT ![a] = [status |-> "PENDING", card |-> card, intent |-> None]]
                  /\ call' = [call EXCEPT ![c] = Begun(a, None, stale)]
      BY <1>1 DEF Claim
    <2> DEFINE stale == {rows[b].intent : b \in Superseded(a)} \ {None}
               ended == Ended(rows, Superseded(a))
    <2>2. stale \in SUBSET Intents
      BY <1>0 DEF Superseded, Open, TypeOK, RowType, TypedRow, TInv
    <2>3. ended \in [Rows -> TypedRow]
      BY <1>0, EndedType
    <2>4. [status |-> "PENDING", card |-> card, intent |-> None] \in TypedRow
      BY <1>0 DEF TypeOK, RowType, TypedRow, TInv
    <2>5. rows[a].intent \in Intents \cup {None}
      BY <1>0 DEF TypeOK, RowType, TypedRow, TInv
    <2> HIDE DEF stale, ended
    <2>6. rows' \in [Rows -> TypedRow]
      BY <2>1, <2>3, <2>4 DEF stale, ended
    <2>7. ASSUME NEW i \in Intents \cup {None} PROVE Begun(a, i, stale) \in TypedCall
      <3>1. /\ Begun(a, i, stale) \in CallType
            /\ Begun(a, i, stale).pc \in {"canceling", "asking"}
            /\ Begun(a, i, stale).row = a
        BY <2>2, BegunType
      <3> QED BY <3>1 DEF TypedCall, CallOK
    <2>8. PICK i \in Intents \cup {None} : call' = [call EXCEPT ![c] = Begun(a, i, stale)]
      BY <2>1, <2>5 DEF stale
    <2>9. call' \in [Callers -> TypedCall] /\ call' \in [Callers -> CallType]
      BY <2>7, <2>8, CallType1
    <2> QED BY <1>0, <1>1, <2>6, <2>9 DEF TInv, TypedRow, TypeOK, Claim, stripe
  <1>2. ASSUME NEW c \in Callers, CancelSuperseded(c) PROVE TInv'
    <2>0. call[c] \in CallType /\ call[c].row \in Rows
      BY <1>2, CallTyped DEF CallOK, CancelSuperseded
    <2>1. PICK i \in call[c].stale :
       \/ /\ intents[i] \in {"action", "failed"}
          /\ intents' = [intents EXCEPT ![i] = "canceled"]
          /\ news' = news \cup {<<i, "failed">>}
          /\ Visits(c, i)
       \/ /\ intents[i] = "succeeded"
          /\ call' = [call EXCEPT ![c] = Visited(FoundCaptured(@, i), i)]
          /\ UNCHANGED <<intents, news>>
       \/ /\ intents[i] = "processing"
          /\ call' = [call EXCEPT ![c].pc = "reviving", ![c].found = i]
          /\ UNCHANGED <<intents, news>>
       \/ /\ Visits(c, i)
          /\ UNCHANGED <<intents, news>>
      BY <1>2 DEF CancelSuperseded
    <2>2. i \in Intents
      BY <2>0 DEF CallType
    <2>3. \E k \in TypedCall : call' = [call EXCEPT ![c] = k]
      <3>1. CASE Visits(c, i)
        BY <3>1, <2>0, VisitedType DEF Visits
      <3>2. CASE call' = [call EXCEPT ![c] = Visited(FoundCaptured(@, i), i)]
        <4>1. call' = [call EXCEPT ![c] = Visited(FoundCaptured(call[c], i), i)]
          BY <3>2
        <4>2. Visited(FoundCaptured(call[c], i), i) \in TypedCall
          BY <2>0, <2>2, FoundType, VisitedType
        <4> QED BY <4>1, <4>2
      <3>3. CASE call' = [call EXCEPT ![c].pc = "reviving", ![c].found = i]
        <4>1. call' = [call EXCEPT ![c] = [call[c] EXCEPT !.pc = "reviving", !.found = i]]
          BY <3>3, <1>0 DEF TypeOK
        <4> QED BY <4>1, <2>0, <2>2, RevivingType
      <3> QED BY <2>1, <3>1, <3>2, <3>3
    <2>4. call' \in [Callers -> TypedCall] /\ call' \in [Callers -> CallType]
      BY <2>3, CallType1
    <2>5. intents' \in [Intents -> {"none", "processing", "action", "failed", "canceled", "succeeded"}]
          /\ news' \subseteq Intents \X {"succeeded", "failed"}
      <3>1. intents' = intents \/ intents' = [intents EXCEPT ![i] = "canceled"]
        BY <2>1
      <3>2. news' = news \/ news' = news \cup {<<i, "failed">>}
        BY <2>1
      <3> QED BY <1>0, <2>2, <3>1, <3>2 DEF TypeOK
    <2> QED BY <1>0, <1>2, <2>4, <2>5 DEF TInv, TypedRow, TypeOK, CancelSuperseded, ledger
  <1>3. ASSUME NEW c \in Callers, Revive(c) PROVE TInv'
    <2>0. call[c] \in CallType /\ call[c].row \in Rows /\ call[c].found \in Intents
      BY <1>3, CallTyped DEF CallOK, Revive
    <2> DEFINE i == call[c].found
               r(a) == IF rows[a].intent = i /\ rows[a].status = "FAILED"
                       THEN [rows[a] EXCEPT !.status = "PROCESSING"] ELSE rows[a]
    <2>1. rows' = [a \in Rows |-> r(a)]
      BY <1>3 DEF Revive
    <2>2. ASSUME NEW a \in Rows PROVE r(a) \in TypedRow
      BY RowsTyped, RowStatus
    <2>3. rows' \in [Rows -> TypedRow]
      BY <2>1, <2>2
    <2>4. call' = [call EXCEPT ![c] = Visited(FoundLive(@, i), i)]
      BY <1>3 DEF Revive
    <2>5. Visited(FoundLive(call[c], i), i) \in TypedCall
      BY <2>0, FoundType, VisitedType
    <2>6. call' = [call EXCEPT ![c] = Visited(FoundLive(call[c], i), i)]
      BY <2>4
    <2>7. call' \in [Callers -> TypedCall] /\ call' \in [Callers -> CallType]
      BY <2>5, <2>6, CallType1
    <2> QED BY <1>0, <1>3, <2>3, <2>7 DEF TInv, TypedRow, TypeOK, Revive, stripe
  <1>4. ASSUME NEW c \in Callers, Retrieve(c) PROVE TInv'
    <2>0. call[c] \in CallType /\ call[c].row \in Rows /\ call[c].intent \in Intents
      BY <1>4, CallTyped DEF CallOK, Retrieve, CallType
    <2>1. Answered(call[c], call[c].intent, LedgerStatus(intents[call[c].intent])) \in TypedCall
      BY <2>0, AnsweredTyped, LedgerStatusType
    <2>2. \E k \in TypedCall : call' = [call EXCEPT ![c] = k]
      BY <1>4, <2>1, ReleasesType DEF Retrieve, Releases
    <2>3. call' \in [Callers -> TypedCall] /\ call' \in [Callers -> CallType]
      BY <2>2, CallType1
    <2> QED BY <1>0, <1>4, <2>3 DEF TInv, TypedRow, TypeOK, Retrieve, ledger, stripe
  <1>5. ASSUME NEW c \in Callers, ChargeAgain(c) PROVE TInv'
    <2>1. call[c].row \in Rows
      BY <1>5, CallTyped DEF CallOK, ChargeAgain
    <2>2. \E k \in TypedCall : call' = [call EXCEPT ![c] = k]
      <3>1. PICK i \in Intents : IF on[i] = call[c].card THEN Answers(c, i, answer[i]) ELSE Releases(c)
        BY <1>5 DEF ChargeAgain, Remembered
      <3> QED BY <2>1, <3>1, AnswersType, ReleasesType DEF Releases
    <2>3. call' \in [Callers -> TypedCall] /\ call' \in [Callers -> CallType]
      BY <2>2, CallType1
    <2> QED BY <1>0, <1>5, <2>3 DEF TInv, TypedRow, TypeOK, ChargeAgain, ledger, stripe
  <1>6. ASSUME NEW c \in Callers, Charge(c) PROVE TInv'
    <2>1. call[c].row \in Rows /\ call[c].card \in Cards \cup {None}
      BY <1>6, CallTyped DEF CallOK, Charge, CallType
    <2>2. PICK i \in Intents, status \in {"succeeded", "processing", "action", "declined"} :
       /\ intents' = [intents EXCEPT ![i] = IF status = "declined" THEN "failed" ELSE status]
       /\ key' = [key EXCEPT ![i] = call[c].row]
       /\ on' = [on EXCEPT ![i] = call[c].card]
       /\ answer' = [answer EXCEPT ![i] = Told(status)]
       /\ news' = CASE status = "succeeded" -> news \cup {<<i, "succeeded">>}
                    [] status = "declined" -> news \cup {<<i, "failed">>}
                    [] OTHER -> news
       /\ Answers(c, i, status)
      BY <1>6 DEF Charge
    <2>3. call' \in [Callers -> TypedCall] /\ call' \in [Callers -> CallType]
      BY <2>1, <2>2, AnswersType, CallType1
    <2>4. intents' \in [Intents -> {"none", "processing", "action", "failed", "canceled", "succeeded"}]
          /\ key' \in [Intents -> Rows \cup {None}] /\ on' \in [Intents -> Cards \cup {None}]
          /\ answer' \in [Intents -> {"none", "succeeded", "processing", "declined"}]
      BY <1>0, <2>1, <2>2 DEF TypeOK, Told
    <2>5. news' \subseteq Intents \X {"succeeded", "failed"}
      <3>1. news' \in {news, news \cup {<<i, "succeeded">>}, news \cup {<<i, "failed">>}}
        BY <2>2
      <3> QED BY <1>0, <3>1 DEF TypeOK
    <2> QED BY <1>0, <1>6, <2>3, <2>4, <2>5 DEF TInv, TypedRow, TypeOK, Charge, ledger
  <1>7. ASSUME NEW c \in Callers, ChargeRefused(c) PROVE TInv'
    <2>1. call[c] \in CallType /\ call[c].row \in Rows
      BY <1>7, CallTyped DEF CallOK, ChargeRefused
    <2>2. \E k \in TypedCall : call' = [call EXCEPT ![c] = k]
      <3>1. CASE Releases(c)
        BY <3>1, ReleasesType DEF Releases
      <3>2. CASE call' = [call EXCEPT ![c].pc = "failing"]
        <4>1. call' = [call EXCEPT ![c] = [call[c] EXCEPT !.pc = "failing"]]
          BY <3>2
        <4> QED BY <2>1, <4>1, FailingType
      <3> QED BY <1>7, <3>1, <3>2 DEF ChargeRefused
    <2>3. call' \in [Callers -> TypedCall] /\ call' \in [Callers -> CallType]
      BY <2>2, CallType1
    <2> QED BY <1>0, <1>7, <2>3 DEF TInv, TypedRow, TypeOK, ChargeRefused, ledger, stripe
  <1>8. ASSUME NEW c \in Callers, FailAttempt(c) PROVE TInv'
    <2>1. call[c] \in CallType /\ call[c].row \in Rows
      BY <1>8, CallTyped DEF CallOK, FailAttempt
    <2>2. call' \in [Callers -> TypedCall] /\ call' \in [Callers -> CallType]
      BY <1>8, <2>1, CondemnsType, CallType1 DEF FailAttempt, Condemns
    <2>3. rows' \in [Rows -> TypedRow]
      <3>1. rows' = rows \/ rows' = [rows EXCEPT ![call[c].row] = [rows[call[c].row] EXCEPT !.status = "FAILED"]]
        BY <1>8 DEF FailAttempt
      <3>2. [rows[call[c].row] EXCEPT !.status = "FAILED"] \in TypedRow
        BY <2>1, RowsTyped, RowStatus
      <3> QED BY <2>1, <3>1, <3>2 DEF TInv
    <2> QED BY <1>0, <1>8, <2>2, <2>3 DEF TInv, TypedRow, TypeOK, FailAttempt, stripe
  <1>9. ASSUME NEW c \in Callers, Settle(c) PROVE TInv'
    <2>1. call[c] \in CallType /\ call[c].row \in Rows /\ call[c].intent \in Intents
      BY <1>9, CallTyped DEF CallOK, Settle
    <2>2. call' \in [Callers -> TypedCall] /\ call' \in [Callers -> CallType]
      BY <1>9, <2>1, MarksType, CallType1 DEF Settle, Marks
    <2>3. rows' \in [Rows -> TypedRow]
      BY <1>9, <2>1, SettledType DEF Settle, TInv
    <2> QED BY <1>0, <1>9, <2>2, <2>3 DEF TInv, TypedRow, TypeOK, Settle, stripe
  <1>10. ASSUME NEW c \in Callers, Mark(c) PROVE TInv'
    <2>1. call[c].intent \in Intents
      BY <1>10, CallTyped DEF CallOK, Mark
    <2>2. call' \in [Callers -> TypedCall] /\ call' \in [Callers -> CallType]
      BY <1>10, StopsType DEF Mark
    <2>3. PICK a \in Rows : Settles(call[c].intent, a)
      BY <1>10 DEF Mark, UpsertAt, RowOf, Fresh
    <2>4. SettlesTyped'
      BY <1>0, <2>1, <2>3, SettlesType
    <2> QED BY <1>0, <1>10, <2>2, <2>4 DEF TInv, TypedRow, TypeOK, SettlesTyped, Mark, stripe
  <1>11. ASSUME NEW c \in Callers, RecordAndRelease(c) PROVE TInv'
    <2>1. call[c] \in CallType /\ call[c].row \in Rows /\ call[c].intent \in Intents
      BY <1>11, CallTyped DEF CallOK, RecordAndRelease
    <2>2. call' \in [Callers -> TypedCall] /\ call' \in [Callers -> CallType]
      BY <1>11, StopsType, ReleasesType, CallType1 DEF RecordAndRelease, Releases
    <2>3. rows' \in [Rows -> TypedRow]
      <3>1. call[c].told \in {"SUCCEEDED", "PROCESSING", "FAILED"}
        BY <1>11, CallTyped DEF CallOK, RecordAndRelease, CallType
      <3>2. Settled(rows, call[c].row, call[c].intent, call[c].told) \in [Rows -> TypedRow]
        BY <2>1, <3>1, SettledType
      <3> QED BY <1>11, <3>2 DEF RecordAndRelease, TInv
    <2> QED BY <1>0, <1>11, <2>2, <2>3 DEF TInv, TypedRow, TypeOK, RecordAndRelease, Released, stripe
  <1>12. ASSUME NEW c \in Callers, ReleaseClaim(c) PROVE TInv'
    <2>1. call[c] \in CallType
      BY CallTyped
    <2>2. call' \in [Callers -> TypedCall] /\ call' \in [Callers -> CallType]
      BY <1>12, <2>1, StopsType, CondemnsType, CallType1 DEF ReleaseClaim, Condemns
    <2> QED BY <1>0, <1>12, <2>2 DEF TInv, TypedRow, TypeOK, ReleaseClaim, Released, ledger, stripe
  <1>13. ASSUME NEW c \in Callers, Retire(c) PROVE TInv'
    <2>1. call' \in [Callers -> TypedCall] /\ call' \in [Callers -> CallType]
      BY <1>13, StopsType DEF Retire
    <2> DEFINE r(a) == IF rows[a].card = call[c].card THEN [rows[a] EXCEPT !.card = None] ELSE rows[a]
    <2>2. ASSUME NEW a \in Rows PROVE r(a) \in TypedRow
      BY RowsTyped, RowCard
    <2>3. rows' = [a \in Rows |-> r(a)] \/ rows' = rows
      BY <1>13 DEF Retire
    <2>4. rows' \in [Rows -> TypedRow]
      BY <2>2, <2>3 DEF TInv
    <2> QED BY <1>0, <1>13, <2>1, <2>4 DEF TInv, TypedRow, TypeOK, Retire, stripe
  <1>14. ASSUME NEW c \in Callers, Stop(c) PROVE TInv'
    <2>1. call' \in [Callers -> TypedCall] /\ call' \in [Callers -> CallType]
      BY <1>14, StopsType DEF Stop
    <2> QED BY <1>0, <1>14, <2>1 DEF TInv, TypedRow, TypeOK, Stop, ledger, stripe
  <1>15. ASSUME NEW i \in Intents, Adopt(i) PROVE TInv'
    <2>1. rows' \in [Rows -> TypedRow]
      BY <1>0, <1>15, SettledType DEF Adopt
    <2> QED BY <1>0, <1>15, <2>1 DEF TInv, TypedRow, TypeOK, Adopt, stripe
  <1>16. ASSUME NEW i \in Intents, Unmatched(i) PROVE TInv'
    BY <1>0, <1>16 DEF TInv, TypedRow, TypeOK, Unmatched, Handled, stripe
  <1>17. ASSUME NEW i \in Intents, SucceededEvent(i) PROVE TInv'
    <2>1. PICK a \in Rows : \/ Settles(i, a)
                            \/ /\ rows' = Upserted(rows, a, i)
                               /\ returned' = returned \cup {i}
                               /\ UNCHANGED <<booking, settler>>
      BY <1>17 DEF SucceededEvent, RowOf
    <2>2. SettlesTyped'
      <3>1. CASE Settles(i, a)
        BY <3>1, SettlesType
      <3>2. CASE /\ rows' = Upserted(rows, a, i)
                 /\ returned' = returned \cup {i}
                 /\ UNCHANGED <<booking, settler>>
        BY <1>0, <3>2, UpsertedType DEF SettlesTyped, TypeOK
      <3> QED BY <2>1, <3>1, <3>2
    <2>3. news' \subseteq Intents \X {"succeeded", "failed"}
      BY <1>0, <1>17 DEF TypeOK, SucceededEvent, Handled
    <2> QED BY <1>0, <1>17, <2>2, <2>3 DEF TInv, TypedRow, TypeOK, SettlesTyped, SucceededEvent, stripe
  <1>18. ASSUME NEW i \in Intents, FailedEvent(i) PROVE TInv'
    <2>0. PICK adopted \in SUBSET Adoptable(i) :
            rows' = [a \in Rows |->
                       IF rows[a].intent = i /\ rows[a].status # "SUCCEEDED"
                         THEN [rows[a] EXCEPT !.status = "FAILED"]
                       ELSE IF a \in adopted
                         THEN [status |-> "FAILED", card |-> on[i], intent |-> i]
                       ELSE rows[a]]
      BY <1>18 DEF FailedEvent
    <2> DEFINE r(a) == IF rows[a].intent = i /\ rows[a].status # "SUCCEEDED"
                  THEN [rows[a] EXCEPT !.status = "FAILED"]
                ELSE IF a \in adopted
                  THEN [status |-> "FAILED", card |-> on[i], intent |-> i]
                ELSE rows[a]
    <2>1. ASSUME NEW a \in Rows PROVE r(a) \in TypedRow
      <3>1. [status |-> "FAILED", card |-> on[i], intent |-> i] \in TypedRow
        BY <1>0 DEF TypeOK, RowType, TypedRow
      <3> QED BY <3>1, RowsTyped, RowStatus
    <2>2. rows' = [a \in Rows |-> r(a)]
      BY <2>0
    <2>3. rows' \in [Rows -> TypedRow]
      BY <2>1, <2>2
    <2>4. news' \subseteq Intents \X {"succeeded", "failed"}
      BY <1>0, <1>18 DEF TypeOK, FailedEvent, Handled
    <2> QED BY <1>0, <1>18, <2>3, <2>4 DEF TInv, TypedRow, TypeOK, FailedEvent, stripe
  <1>19. ASSUME NEW i \in Intents, Capture(i) \/ Fail(i) PROVE TInv'
    <2>1. intents' \in [Intents -> {"none", "processing", "action", "failed", "canceled", "succeeded"}]
      BY <1>0, <1>19 DEF TypeOK, Capture, Fail
    <2>2. news' \subseteq Intents \X {"succeeded", "failed"}
      BY <1>0, <1>19 DEF TypeOK, Capture, Fail
    <2> QED BY <1>0, <1>19, <2>1, <2>2 DEF TInv, TypeOK, Capture, Fail, ledger
  <1>20. ASSUME NEW a \in Rows, Expire(a) PROVE TInv'
    BY <1>0, <1>20 DEF TInv, TypedRow, TypeOK, Expire, ledger, stripe
  <1>21. CASE SaveCard
    BY <1>0, <1>21 DEF TInv, TypedRow, TypeOK, SaveCard, ledger, stripe
  <1>22. CASE CancelBooking
    <2>1. {rows[a].intent : a \in {b \in Rows : booking = "CONFIRMED" /\ rows[b].status = "SUCCEEDED"}}
            \subseteq Intents
      BY DEF TInv, TypedRow
    <2> QED BY <1>0, <1>22, <2>1 DEF TInv, TypedRow, TypeOK, CancelBooking, stripe
  <1>23. CASE UNCHANGED vars
    BY <1>0, <1>23 DEF TInv, TypedRow, TypeOK, vars
  <1> QED
    BY <1>1, <1>2, <1>3, <1>4, <1>5, <1>6, <1>7, <1>8, <1>9, <1>10, <1>11, <1>12, <1>13, <1>14,
       <1>15, <1>16, <1>17, <1>18, <1>19, <1>20, <1>21, <1>22, <1>23
    DEF Next, Caller, Webhook

LEMMA TypesInit == Init => TInv
  <1> SUFFICES ASSUME Init PROVE TInv
    OBVIOUS
  <1>1. rows \in [Rows -> TypedRow] /\ rows \in [Rows -> RowType]
    BY DEF Init, NoRow, TypedRow, RowType
  <1>2. call \in [Callers -> TypedCall] /\ call \in [Callers -> CallType]
    BY IdleType DEF Init, TypedCall, CallOK
  <1> QED BY <1>1, <1>2, SavedCardAssumption DEF Init, TInv, TypeOK

\* Every variable keeps its type, whatever the callers, webhooks and clock do.
THEOREM SavedCardTypes == Spec => []TypeOK
  BY TypesInit, TypeStep, PTL DEF Spec, TInv

-----------------------------------------------------------------------------
(* The inductive invariant *)

\* A caller that has claimed and not yet asked Stripe.
Working(k) == k.pc \in {"canceling", "reviving", "asking"}

Elsewhere(rs, a, i) == RowOf(rs, i) \ {a} # {}

\* What a caller knows is still so: the row it claimed was made, a key it is
\* about to send is young, the intents it superseded have rows of their own, the
\* answer it carries is of its own attempt or on another row, and what it was
\* told is captured is.
Informed(k, rs, ky, ints, ex) ==
  /\ k.row # None => rs[k.row].status # "NONE"
  /\ Sending(k) => k.row \notin ex
  /\ Working(k) /\ k.intent # None => rs[k.row].intent = k.intent
  /\ Working(k) =>
       /\ \A i \in k.stale : Elsewhere(rs, k.row, i)
       /\ k.captured # None => Elsewhere(rs, k.row, k.captured) /\ ints[k.captured] = "succeeded"
       /\ k.live # None => Elsewhere(rs, k.row, k.live)
  /\ k.pc = "reviving" => k.found \in k.stale
  /\ k.pc \in {"settling", "answering"} => Elsewhere(rs, k.row, k.intent) \/ ky[k.intent] = k.row
  /\ k.pc \in {"settling", "marking"} => ints[k.intent] = "succeeded"
  /\ k.pc = "settling" <=> k.told = "SUCCEEDED"

\* A row names the intent asked under its own key, and no two rows one intent;
\* only a row made for a capture that nothing named has another key's.
Linked ==
  /\ \A a \in Rows : rows[a].status \in {"NONE", "DELETED"} => rows[a].intent = None
  /\ \A a, b \in Rows : rows[a].intent # None /\ rows[a].intent = rows[b].intent => a = b
  /\ \A a \in Rows : rows[a].intent # None =>
       \/ key[rows[a].intent] = a
       \/ rows[a].status = "SUCCEEDED" /\ \A c \in Callers : call[c].row # a

\* What the rows, the answers and the events say is captured is.
Truthful ==
  /\ \A a \in Rows : rows[a].status = "SUCCEEDED" => intents[rows[a].intent] = "succeeded"
  /\ \A i \in Intents : answer[i] = "succeeded" => intents[i] = "succeeded"
  /\ \A i \in Intents : <<i, "succeeded">> \in news => intents[i] = "succeeded"

Keyed ==
  /\ \A a \in expired : rows[a].status # "NONE"
  /\ \A i \in Intents : intents[i] = "none" => key[i] = None
  /\ OneIntentPerKey

\* Nothing goes back while the booking is still to be paid.
Money ==
  /\ booking \in {"PENDING", "CONFIRMED"} => returned = {}
  /\ PaidIsBacked
  /\ CaptureIsAccounted

Inv ==
  /\ TInv
  /\ Keyed
  /\ Linked
  /\ Truthful
  /\ \A c \in Callers : Informed(call[c], rows, key, intents, expired)
  /\ Money

-----------------------------------------------------------------------------
(* What a step may do to the rows *)

Moved(a) ==
  /\ rows[a].status # "NONE" => rows'[a].status # "NONE"
  /\ rows[a].intent # None => rows'[a].intent = rows[a].intent
  /\ rows[a].status = "SUCCEEDED" => rows'[a].status = "SUCCEEDED"
  /\ rows'[a].status \in {"NONE", "DELETED"} => rows'[a].intent = None
  /\ rows[a].intent = None /\ rows'[a].intent # None =>
       /\ RowOf(rows, rows'[a].intent) = {}
       /\ \/ key[rows'[a].intent] = a
          \/ rows[a].status = "NONE" /\ rows'[a].status = "SUCCEEDED"
  /\ rows'[a].status = "SUCCEEDED" => intents[rows'[a].intent] = "succeeded"

RowMoves ==
  /\ \A a \in Rows : Moved(a)
  /\ \A a, b \in Rows : rows'[a].intent # None /\ rows'[a].intent = rows'[b].intent => a = b

\* A row whose status alone changes, and not from or to a captured one.
LEMMA StatusMoves ==
  ASSUME Inv,
         \A a \in Rows :
           /\ rows'[a].intent = rows[a].intent
           /\ \/ rows'[a].status = rows[a].status
              \/ /\ rows[a].status \notin {"NONE", "DELETED", "SUCCEEDED"}
                 /\ rows'[a].status \in {"PROCESSING", "FAILED"}
  PROVE  RowMoves
  <1>1. ASSUME NEW a \in Rows PROVE Moved(a)
    BY DEF Moved, Inv, Linked, Truthful
  <1> QED BY <1>1 DEF RowMoves, Inv, Linked

LEMMA SameRowsMove == Inv /\ rows' = rows => RowMoves
  BY StatusMoves

LEMMA SettledMoves ==
  ASSUME Inv, NEW a \in Rows, NEW i \in Intents, NEW st \in {"SUCCEEDED", "PROCESSING", "FAILED"},
         rows' = Settled(rows, a, i, st),
         st = "SUCCEEDED" => intents[i] = "succeeded",
         Elsewhere(rows, a, i) \/ (key[i] = a /\ rows[a].intent \in {None, i})
  PROVE  RowMoves
  <1> DEFINE other == RowOf(rows, i) \ {a}
             target == IF other = {} THEN {a} ELSE other
  <1>0. None \notin Intents
    BY SavedCardAssumption
  <1>1. ASSUME NEW b \in Rows
        PROVE  \/ /\ b \in target /\ Forward(rows[b].status, st)
                  /\ rows'[b].status = st /\ rows'[b].intent = i
               \/ /\ b = a /\ other # {} /\ rows[b].intent = None
                  /\ ~(b \in target /\ Forward(rows[b].status, st))
                  /\ rows'[b].status = "DELETED" /\ rows'[b].intent = None
               \/ rows'[b] = rows[b]
    BY DEF Settled, NoRow
  <1>2. ASSUME NEW b \in Rows, b \in target
        PROVE  \/ rows[b].intent = i
               \/ b = a /\ RowOf(rows, i) = {} /\ rows[b].intent = None /\ key[i] = a
    <2>1. CASE other = {}
      <3>1. b = a /\ key[i] = a /\ rows[a].intent \in {None, i}
        BY <1>2, <2>1 DEF Elsewhere
      <3> QED BY <1>0, <2>1, <3>1 DEF RowOf
    <2>2. CASE other # {}
      BY <1>2, <2>2 DEF RowOf
    <2> QED BY <2>1, <2>2
  <1>3. ASSUME NEW b \in Rows, Forward(rows[b].status, st)
        PROVE  rows[b].status \notin {"NONE", "DELETED"} /\ (rows[b].status = "SUCCEEDED" => st = "SUCCEEDED")
    BY <1>3 DEF Forward, Unresolved
  <1>4. ASSUME NEW b \in Rows, rows[b].intent = None
        PROVE  rows[b].status # "SUCCEEDED"
    BY <1>0, <1>4 DEF Inv, TInv, TypedRow
  <1> HIDE DEF target, other
  <1>6. ASSUME NEW b \in Rows PROVE Moved(b)
    <2>1. CASE rows'[b] = rows[b]
      BY <2>1 DEF Moved, Inv, Linked, Truthful
    <2>2. CASE /\ b \in target /\ Forward(rows[b].status, st)
               /\ rows'[b].status = st /\ rows'[b].intent = i
      BY <2>2, <1>2, <1>3, <1>0 DEF Moved
    <2>3. CASE /\ rows[b].intent = None
               /\ rows'[b].status = "DELETED" /\ rows'[b].intent = None
      BY <2>3, <1>4 DEF Moved
    <2> QED BY <1>1, <2>1, <2>2, <2>3
  <1>7. ASSUME NEW b \in Rows, NEW d \in Rows, rows'[b].intent # None, rows'[b].intent = rows'[d].intent
        PROVE  b = d
    <2>1. ASSUME NEW e \in Rows
          PROVE  \/ rows'[e].intent = rows[e].intent
                 \/ e = a /\ RowOf(rows, i) = {} /\ rows'[e].intent = i
      BY <1>1, <1>2
    <2> QED BY <1>7, <2>1 DEF RowOf, Inv, Linked
  <1> QED BY <1>6, <1>7 DEF RowMoves

LEMMA UpsertedMoves ==
  ASSUME Inv, NEW i \in Intents, NEW a \in UpsertAt(rows, i), rows' = Upserted(rows, a, i),
         intents[i] = "succeeded"
  PROVE  RowMoves
  <1>1. a \in Rows
    BY DEF UpsertAt, RowOf, Fresh
  <1>2. rows'[a].status = "SUCCEEDED" /\ rows'[a].intent = i
        /\ \A b \in Rows \ {a} : rows'[b] = rows[b]
    BY <1>1 DEF Upserted, Inv, TInv
  <1>3. \/ rows[a].intent = i
        \/ RowOf(rows, i) = {} /\ rows[a].status = "NONE" /\ rows[a].intent = None
    <2>1. CASE RowOf(rows, i) # {}
      BY <2>1 DEF UpsertAt, RowOf
    <2>2. CASE RowOf(rows, i) = {}
      <3>1. rows[a].status = "NONE"
        BY <2>2 DEF UpsertAt, Fresh
      <3> QED BY <1>1, <2>2, <3>1 DEF Inv, Linked
    <2> QED BY <2>1, <2>2
  <1>4. ASSUME NEW b \in Rows PROVE Moved(b)
    <2>1. CASE b = a
      BY <2>1, <1>2, <1>3 DEF Moved
    <2>2. CASE b # a
      BY <2>2, <1>2 DEF Moved, Inv, Linked, Truthful
    <2> QED BY <2>1, <2>2
  <1>5. ASSUME NEW b \in Rows, NEW d \in Rows, rows'[b].intent # None, rows'[b].intent = rows'[d].intent
        PROVE  b = d
    BY <1>1, <1>2, <1>3, <1>5 DEF RowOf, Inv, Linked
  <1> QED BY <1>4, <1>5 DEF RowMoves

\* A webhook that fails a charge, or adopts its attempt as failed.
LEMMA FailedMoves ==
  ASSUME Inv, NEW i \in Intents, FailedEvent(i)
  PROVE  RowMoves
  <1>0. None \notin Intents
    BY SavedCardAssumption
  <1>a. PICK adopted \in SUBSET Adoptable(i) :
          rows' = [a \in Rows |->
                     IF rows[a].intent = i /\ rows[a].status # "SUCCEEDED"
                       THEN [rows[a] EXCEPT !.status = "FAILED"]
                     ELSE IF a \in adopted
                       THEN [status |-> "FAILED", card |-> on[i], intent |-> i]
                     ELSE rows[a]]
    BY DEF FailedEvent
  <1>1. ASSUME NEW b \in Rows
        PROVE  \/ /\ rows[b].intent = i /\ rows[b].status # "SUCCEEDED"
                  /\ rows'[b].status = "FAILED" /\ rows'[b].intent = i
               \/ /\ b \in Adoptable(i)
                  /\ rows'[b].status = "FAILED" /\ rows'[b].intent = i
               \/ rows'[b] = rows[b]
    <2>1. rows'[b] = IF rows[b].intent = i /\ rows[b].status # "SUCCEEDED"
                       THEN [rows[b] EXCEPT !.status = "FAILED"]
                     ELSE IF b \in adopted
                       THEN [status |-> "FAILED", card |-> on[i], intent |-> i]
                     ELSE rows[b]
      BY <1>a
    <2>2. rows[b] \in RowType
      BY DEF Inv, TInv, TypeOK
    <2>3. /\ [rows[b] EXCEPT !.status = "FAILED"].status = "FAILED"
          /\ [rows[b] EXCEPT !.status = "FAILED"].intent = rows[b].intent
      BY <2>2 DEF RowType
    <2> QED BY <2>1, <2>3
  <1>2. ASSUME NEW b \in Adoptable(i)
        PROVE  RowOf(rows, i) = {} /\ key[i] = b /\ rows[b].intent = None /\ rows[b].status \in Unresolved
    BY DEF Adoptable
  <1>3. ASSUME NEW b \in Rows PROVE Moved(b)
    <2>1. CASE rows'[b] = rows[b]
      BY <2>1 DEF Moved, Inv, Linked, Truthful
    <2>2. CASE /\ rows[b].intent = i /\ rows[b].status # "SUCCEEDED"
               /\ rows'[b].status = "FAILED" /\ rows'[b].intent = i
      BY <2>2, <1>0 DEF Moved
    <2>3. CASE /\ b \in Adoptable(i)
               /\ rows'[b].status = "FAILED" /\ rows'[b].intent = i
      BY <2>3, <1>0, <1>2 DEF Moved, Unresolved
    <2> QED BY <1>1, <2>1, <2>2, <2>3
  <1>4. ASSUME NEW b \in Rows, NEW d \in Rows, rows'[b].intent # None, rows'[b].intent = rows'[d].intent
        PROVE  b = d
    <2>1. ASSUME NEW e \in Rows
          PROVE  \/ rows'[e].intent = rows[e].intent
                 \/ key[i] = e /\ RowOf(rows, i) = {} /\ rows'[e].intent = i
      BY <1>1, <1>2
    <2> QED BY <1>4, <2>1 DEF RowOf, Inv, Linked
  <1> QED BY <1>3, <1>4 DEF RowMoves

\* A claim ends the attempts it supersedes and takes one row up, or makes one.
LEMMA ClaimMoves ==
  ASSUME Inv, NEW c \in Callers, Claim(c)
  PROVE  RowMoves
  <1>1. PICK a \in Rows :
          \/ Replay(a) /\ rows' = Ended(rows, Superseded(a))
          \/ /\ a \in Fresh(rows)
             /\ rows' = [Ended(rows, Superseded(a)) EXCEPT
                           ![a] = [status |-> "PENDING", card |-> card, intent |-> None]]
    BY DEF Claim
  <1> DEFINE ended == Ended(rows, Superseded(a))
  <1>2. ended \in [Rows -> TypedRow]
    BY EndedType DEF Inv
  <1>3. ASSUME NEW b \in Rows
        PROVE  /\ ended[b].intent = rows[b].intent
               /\ \/ ended[b].status = rows[b].status
                  \/ rows[b].status \in Unresolved /\ ended[b].status = "FAILED"
    <2>1. rows[b] \in RowType
      BY DEF Inv, TInv, TypeOK
    <2>2. CASE b \in Superseded(a)
      <3>1. ended[b] = [rows[b] EXCEPT !.status = "FAILED"] /\ rows[b].status \in Unresolved
        BY <2>2 DEF Ended, Superseded, Open
      <3> QED BY <2>1, <3>1 DEF RowType
    <2>3. CASE b \notin Superseded(a)
      BY <2>3 DEF Ended
    <2> QED BY <2>2, <2>3
  <1> HIDE DEF ended
  <1>4. CASE rows' = ended
    BY <1>3, <1>4, StatusMoves DEF Unresolved
  <1>5. CASE /\ a \in Fresh(rows)
             /\ rows' = [ended EXCEPT ![a] = [status |-> "PENDING", card |-> card, intent |-> None]]
    <2>1. rows[a].status = "NONE" /\ rows[a].intent = None
      BY <1>5 DEF Fresh, Inv, Linked
    <2>2. rows'[a].status = "PENDING" /\ rows'[a].intent = None
          /\ \A b \in Rows \ {a} : rows'[b] = ended[b]
      BY <1>2, <1>5
    <2>3. ASSUME NEW b \in Rows PROVE Moved(b)
      <3>1. CASE b = a
        BY <2>1, <2>2, <3>1 DEF Moved
      <3>2. CASE b # a
        BY <1>3, <2>2, <3>2 DEF Moved, Inv, Linked, Truthful, Unresolved
      <3> QED BY <3>1, <3>2
    <2>4. \A b \in Rows : rows'[b].intent = rows[b].intent
      BY <1>3, <2>1, <2>2
    <2> QED BY <2>3, <2>4 DEF RowMoves, Inv, Linked
  <1> QED BY <1>1, <1>4, <1>5 DEF ended

\* The answer a caller records is of its own attempt, or has its row elsewhere.
LEMMA OwnAnswer ==
  ASSUME Inv, NEW c \in Callers, call[c].pc \in {"settling", "answering"}
  PROVE  /\ call[c].row \in Rows /\ call[c].intent \in Intents
         /\ call[c].told \in {"SUCCEEDED", "PROCESSING", "FAILED"}
         /\ \/ Elsewhere(rows, call[c].row, call[c].intent)
            \/ key[call[c].intent] = call[c].row /\ rows[call[c].row].intent \in {None, call[c].intent}
  <1>1. /\ call[c].row \in Rows /\ call[c].intent \in Intents
        /\ call[c].told \in {"SUCCEEDED", "PROCESSING", "FAILED"}
    BY CallTyped DEF Inv, CallOK, CallType
  <1>2. Elsewhere(rows, call[c].row, call[c].intent) \/ key[call[c].intent] = call[c].row
    BY DEF Inv, Informed
  <1>3. rows[call[c].row].intent # None => key[rows[call[c].row].intent] = call[c].row
    BY <1>1 DEF Inv, Linked
  <1>4. rows[call[c].row].intent \in Intents \cup {None}
    BY <1>1 DEF Inv, TInv, TypeOK, RowType
  <1>5. ASSUME key[call[c].intent] = call[c].row, rows[call[c].row].intent # None
        PROVE  rows[call[c].row].intent = call[c].intent
    BY <1>1, <1>3, <1>4, <1>5, SavedCardAssumption DEF Inv, Keyed, OneIntentPerKey
  <1> QED BY <1>1, <1>2, <1>5

\* So every step moves the rows in these ways only.
LEMMA RowsStep == Inv /\ [Next]_vars => RowMoves
  <1> SUFFICES ASSUME Inv, [Next]_vars PROVE RowMoves
    OBVIOUS
  <1>1. ASSUME NEW c \in Callers, Claim(c) PROVE RowMoves
    BY <1>1, ClaimMoves
  <1>2. ASSUME NEW c \in Callers, Revive(c) PROVE RowMoves
    <2>1. ASSUME NEW a \in Rows
          PROVE  /\ rows'[a].intent = rows[a].intent
                 /\ \/ rows'[a].status = rows[a].status
                    \/ rows[a].status = "FAILED" /\ rows'[a].status = "PROCESSING"
      <3>1. rows[a] \in RowType
        BY DEF Inv, TInv, TypeOK
      <3> QED BY <1>2, <3>1 DEF Revive, RowType
    <2> QED BY <2>1, StatusMoves
  <1>3. ASSUME NEW c \in Callers, FailAttempt(c) PROVE RowMoves
    <2>0. call[c].row \in Rows
      BY <1>3, CallTyped DEF FailAttempt, CallOK, Inv
    <2>1. ASSUME NEW a \in Rows
          PROVE  /\ rows'[a].intent = rows[a].intent
                 /\ \/ rows'[a].status = rows[a].status
                    \/ rows[a].status \in Unresolved /\ rows'[a].status = "FAILED"
      <3>1. rows \in [Rows -> RowType] /\ rows[a] \in RowType
        BY DEF Inv, TInv, TypeOK
      <3>2. \/ rows'[a] = rows[a]
            \/ rows[a].status \in Unresolved /\ rows'[a] = [rows[a] EXCEPT !.status = "FAILED"]
        BY <1>3, <2>0, <3>1 DEF FailAttempt
      <3> QED BY <3>1, <3>2 DEF RowType
    <2> QED BY <2>1, StatusMoves DEF Unresolved
  <1>4. ASSUME NEW c \in Callers, Settle(c) PROVE RowMoves
    <2>1. CASE rows' = rows
      BY <2>1, SameRowsMove
    <2>2. CASE rows' = Settled(rows, call[c].row, call[c].intent, "SUCCEEDED")
      <3>1. call[c].pc = "settling"
        BY <1>4 DEF Settle
      <3>2. intents[call[c].intent] = "succeeded"
        BY <3>1 DEF Inv, Informed
      <3> QED BY <2>2, <3>1, <3>2, OwnAnswer, SettledMoves
    <2> QED BY <1>4, <2>1, <2>2 DEF Settle
  <1>5. ASSUME NEW c \in Callers, Mark(c) PROVE RowMoves
    <2>1. call[c].pc = "marking" /\ call[c].intent \in Intents
      BY <1>5, CallTyped DEF Mark, CallOK, Inv
    <2>2. intents[call[c].intent] = "succeeded"
      BY <2>1 DEF Inv, Informed
    <2>3. \E a \in UpsertAt(rows, call[c].intent) : rows' = Upserted(rows, a, call[c].intent)
      BY <1>5 DEF Mark, Settles
    <2> QED BY <2>1, <2>2, <2>3, UpsertedMoves
  <1>6. ASSUME NEW c \in Callers, RecordAndRelease(c) PROVE RowMoves
    <2>1. call[c].pc = "answering"
      BY <1>6 DEF RecordAndRelease
    <2>2. CASE rows' = rows
      BY <2>2, SameRowsMove
    <2>3. CASE rows' = Settled(rows, call[c].row, call[c].intent, call[c].told)
      <3>1. call[c].told # "SUCCEEDED"
        BY <2>1 DEF Inv, Informed
      <3> QED BY <2>1, <2>3, <3>1, OwnAnswer, SettledMoves
    <2> QED BY <1>6, <2>2, <2>3 DEF RecordAndRelease
  <1>7. ASSUME NEW c \in Callers, Retire(c) PROVE RowMoves
    <2>1. ASSUME NEW a \in Rows
          PROVE  rows'[a].intent = rows[a].intent /\ rows'[a].status = rows[a].status
      <3>1. rows[a] \in RowType
        BY DEF Inv, TInv, TypeOK
      <3>2. rows'[a] = rows[a] \/ rows'[a] = [rows[a] EXCEPT !.card = None]
        BY <1>7 DEF Retire
      <3> QED BY <3>1, <3>2 DEF RowType
    <2> QED BY <2>1, StatusMoves
  <1>8. ASSUME NEW i \in Intents, Adopt(i) PROVE RowMoves
    <2>1. PICK a \in Adoptable(i) : rows' = Settled(rows, a, i, "SUCCEEDED")
      BY <1>8 DEF Adopt
    <2>2. a \in Rows /\ key[i] = a /\ rows[a].intent = None
      BY DEF Adoptable
    <2>3. intents[i] = "succeeded"
      BY <1>8 DEF Adopt, Inv, Truthful
    <2> QED BY <2>1, <2>2, <2>3, SettledMoves
  <1>9. ASSUME NEW i \in Intents, SucceededEvent(i) PROVE RowMoves
    <2>1. PICK a \in RowOf(rows, i) : rows' = Upserted(rows, a, i)
      BY <1>9 DEF SucceededEvent, Settles
    <2>2. a \in UpsertAt(rows, i)
      BY DEF UpsertAt
    <2>3. intents[i] = "succeeded"
      BY <1>9 DEF SucceededEvent, Inv, Truthful
    <2> QED BY <2>1, <2>2, <2>3, UpsertedMoves
  <1>10. ASSUME NEW i \in Intents, FailedEvent(i) PROVE RowMoves
    BY <1>10, FailedMoves
  <1>11. CASE rows' = rows
    BY <1>11, SameRowsMove
  <1>12. ASSUME NEW c \in Callers,
                CancelSuperseded(c) \/ Retrieve(c) \/ ChargeAgain(c) \/ Charge(c) \/ ChargeRefused(c)
                \/ ReleaseClaim(c) \/ Stop(c)
         PROVE  rows' = rows
    BY <1>12 DEF CancelSuperseded, Retrieve, ChargeAgain, Charge, ChargeRefused, ReleaseClaim, Stop, ledger
  <1>13. ASSUME NEW i \in Intents, Unmatched(i) \/ Capture(i) \/ Fail(i) PROVE rows' = rows
    BY <1>13 DEF Unmatched, Capture, Fail, ledger
  <1>14. ASSUME NEW a \in Rows, Expire(a) PROVE rows' = rows
    BY <1>14 DEF Expire, ledger
  <1>15. ASSUME SaveCard \/ CancelBooking \/ UNCHANGED vars PROVE rows' = rows
    BY <1>15 DEF SaveCard, CancelBooking, vars, ledger
  <1> QED
    BY <1>1, <1>2, <1>3, <1>4, <1>5, <1>6, <1>7, <1>8, <1>9, <1>10, <1>11, <1>12, <1>13, <1>14, <1>15
    DEF Next, Caller, Webhook

-----------------------------------------------------------------------------
(* What a step may do to the intents *)

IntentMoved(i) ==
  /\ intents[i] = "succeeded" => intents'[i] = "succeeded"
  /\ intents'[i] = "none" => key'[i] = None
  /\ key[i] # None => key'[i] = key[i]
  /\ intents'[i] = "succeeded" => intents[i] = "succeeded" \/ <<i, "succeeded">> \in news'
  /\ answer'[i] = "succeeded" => intents'[i] = "succeeded"
  /\ <<i, "succeeded">> \in news' => intents'[i] = "succeeded"

IntentMoves == OneIntentPerKey' /\ \A i \in Intents : IntentMoved(i)

\* The events of other intents come and go with none of this.
LEMMA SameIntentsMove ==
  ASSUME Inv, UNCHANGED stripe,
         \A i \in Intents : <<i, "succeeded">> \in news' => <<i, "succeeded">> \in news
  PROVE  IntentMoves
  BY DEF Inv, Keyed, Truthful, IntentMoves, IntentMoved, OneIntentPerKey, stripe

\* A key is sent for the first time: whatever was made under it is forgotten,
\* and a caller sends no key that is.
LEMMA ChargeMoves ==
  ASSUME Inv, NEW c \in Callers, Charge(c)
  PROVE  IntentMoves
  <1>1. PICK i \in Intents, status \in {"succeeded", "processing", "action", "declined"} :
       /\ intents[i] = "none"
       /\ intents' = [intents EXCEPT ![i] = IF status = "declined" THEN "failed" ELSE status]
       /\ key' = [key EXCEPT ![i] = call[c].row]
       /\ answer' = [answer EXCEPT ![i] = Told(status)]
       /\ news' = CASE status = "succeeded" -> news \cup {<<i, "succeeded">>}
                    [] status = "declined" -> news \cup {<<i, "failed">>}
                    [] OTHER -> news
    BY DEF Charge
  <1>2. Sending(call[c]) /\ call[c].row \notin expired
    BY DEF Charge, Sending, Inv, Informed
  <1>3. \A j \in Intents : key[j] # call[c].row
    BY <1>2 DEF Charge, Remembered
  <1>4. /\ intents \in [Intents -> {"none", "processing", "action", "failed", "canceled", "succeeded"}]
        /\ key \in [Intents -> Rows \cup {None}]
        /\ answer \in [Intents -> {"none", "succeeded", "processing", "declined"}]
    BY DEF Inv, TInv, TypeOK
  <1>5. call[c].row # None
    BY CallTyped, SavedCardAssumption DEF Charge, CallOK, Inv
  <1>6. OneIntentPerKey'
    BY <1>1, <1>3, <1>4 DEF Inv, Keyed, OneIntentPerKey
  <1>7. IntentMoved(i)
    <2>1. CASE status = "succeeded"
      BY <1>1, <1>4, <1>5, <2>1 DEF IntentMoved, Inv, Keyed, Told
    <2>2. CASE status = "declined"
      <3>1. <<i, "succeeded">> \notin news
        BY <1>1 DEF Inv, Truthful
      <3> QED BY <1>1, <1>4, <1>5, <2>2, <3>1 DEF IntentMoved, Inv, Keyed, Told
    <2>3. CASE status \in {"processing", "action"}
      <3>1. <<i, "succeeded">> \notin news
        BY <1>1 DEF Inv, Truthful
      <3>2. news' = news
        BY <1>1, <2>3
      <3> QED BY <1>1, <1>4, <1>5, <2>3, <3>1, <3>2 DEF IntentMoved, Inv, Keyed, Told
    <2> QED BY <2>1, <2>2, <2>3
  <1>8. ASSUME NEW j \in Intents, j # i PROVE IntentMoved(j)
    <2>1. intents'[j] = intents[j] /\ key'[j] = key[j] /\ answer'[j] = answer[j]
      BY <1>1, <1>4, <1>8
    <2>2. <<j, "succeeded">> \in news' => <<j, "succeeded">> \in news
      <3>1. news' \subseteq news \cup {<<i, "succeeded">>, <<i, "failed">>}
        BY <1>1
      <3> QED BY <3>1, <1>8
    <2> QED BY <2>1, <2>2 DEF IntentMoved, Inv, Keyed, Truthful
  <1> QED BY <1>6, <1>7, <1>8 DEF IntentMoves

LEMMA IntentsStep == Inv /\ [Next]_vars => IntentMoves
  <1> SUFFICES ASSUME Inv, [Next]_vars PROVE IntentMoves
    OBVIOUS
  <1>0. intents \in [Intents -> {"none", "processing", "action", "failed", "canceled", "succeeded"}]
    BY DEF Inv, TInv, TypeOK
  <1>1. ASSUME NEW c \in Callers, Charge(c) PROVE IntentMoves
    BY <1>1, ChargeMoves
  <1>2. ASSUME NEW c \in Callers, CancelSuperseded(c) PROVE IntentMoves
    <2>1. PICK i \in Intents :
            \/ /\ intents[i] \in {"action", "failed"}
               /\ intents' = [intents EXCEPT ![i] = "canceled"]
               /\ news' = news \cup {<<i, "failed">>}
            \/ UNCHANGED <<intents, news>>
      <3>1. call[c].stale \subseteq Intents
        BY CallTyped DEF Inv, CallType
      <3> QED BY <1>2, <3>1 DEF CancelSuperseded
    <2>2. UNCHANGED <<key, on, answer>>
      BY <1>2 DEF CancelSuperseded
    <2>3. CASE UNCHANGED <<intents, news>>
      BY <2>2, <2>3, SameIntentsMove DEF stripe
    <2>4. CASE /\ intents[i] \in {"action", "failed"}
               /\ intents' = [intents EXCEPT ![i] = "canceled"]
               /\ news' = news \cup {<<i, "failed">>}
      <3>1. ASSUME NEW j \in Intents PROVE IntentMoved(j)
        <4>1. <<j, "succeeded">> \in news' <=> <<j, "succeeded">> \in news
          BY <2>4
        <4> QED BY <1>0, <2>2, <2>4, <4>1 DEF IntentMoved, Inv, Keyed, Truthful
      <3> QED BY <2>2, <3>1 DEF IntentMoves, OneIntentPerKey, Inv, Keyed
    <2> QED BY <2>1, <2>3, <2>4
  <1>3. ASSUME NEW i \in Intents, Capture(i) PROVE IntentMoves
    <2>1. ASSUME NEW j \in Intents PROVE IntentMoved(j)
      <3>1. CASE j = i
        BY <1>0, <1>3, <3>1 DEF Capture, IntentMoved, Inv, Keyed, Truthful
      <3>2. CASE j # i
        <4>1. <<j, "succeeded">> \in news' <=> <<j, "succeeded">> \in news
          BY <1>3, <3>2 DEF Capture
        <4> QED BY <1>0, <1>3, <3>2, <4>1 DEF Capture, IntentMoved, Inv, Keyed, Truthful
      <3> QED BY <3>1, <3>2
    <2> QED BY <1>3, <2>1 DEF Capture, IntentMoves, OneIntentPerKey, Inv, Keyed
  <1>4. ASSUME NEW i \in Intents, Fail(i) PROVE IntentMoves
    <2>1. ASSUME NEW j \in Intents PROVE IntentMoved(j)
      <3>1. <<j, "succeeded">> \in news' <=> <<j, "succeeded">> \in news
        BY <1>4 DEF Fail
      <3> QED BY <1>0, <1>4, <3>1 DEF Fail, IntentMoved, Inv, Keyed, Truthful
    <2> QED BY <1>4, <2>1 DEF Fail, IntentMoves, OneIntentPerKey, Inv, Keyed
  <1>5. ASSUME NEW i \in Intents, Adopt(i) \/ Unmatched(i) \/ SucceededEvent(i) \/ FailedEvent(i)
        PROVE  IntentMoves
    <2>1. UNCHANGED stripe /\ news' \subseteq news
      BY <1>5 DEF Adopt, Unmatched, SucceededEvent, FailedEvent, Handled
    <2> QED BY <2>1, SameIntentsMove
  <1>6. CASE UNCHANGED <<stripe, news>>
    BY <1>6, SameIntentsMove
  <1>7. ASSUME NEW c \in Callers,
               Claim(c) \/ Revive(c) \/ Retrieve(c) \/ ChargeAgain(c) \/ ChargeRefused(c)
               \/ FailAttempt(c) \/ Settle(c) \/ Mark(c) \/ RecordAndRelease(c) \/ ReleaseClaim(c)
               \/ Retire(c) \/ Stop(c)
        PROVE  UNCHANGED <<stripe, news>>
    BY <1>7 DEF Claim, Revive, Retrieve, ChargeAgain, ChargeRefused, FailAttempt, Settle, Mark,
                RecordAndRelease, ReleaseClaim, Retire, Stop
  <1>8. ASSUME NEW a \in Rows, Expire(a) PROVE UNCHANGED <<stripe, news>>
    BY <1>8 DEF Expire
  <1>9. ASSUME SaveCard \/ CancelBooking \/ UNCHANGED vars PROVE UNCHANGED <<stripe, news>>
    BY <1>9 DEF SaveCard, CancelBooking, vars, stripe
  <1> QED
    BY <1>1, <1>2, <1>3, <1>4, <1>5, <1>6, <1>7, <1>8, <1>9 DEF Next, Caller, Webhook

-----------------------------------------------------------------------------
(* What a caller knows *)

\* What a caller knew stays so, as long as no key it is about to send expires.
LEMMA StaysInformed ==
  ASSUME Inv, RowMoves, IntentMoves,
         NEW k \in TypedCall, Informed(k, rows, key, intents, expired),
         Sending(k) => k.row \notin expired'
  PROVE  Informed(k, rows', key', intents', expired')
  <1>0. k \in CallType /\ CallOK(k)
    BY DEF TypedCall
  <1>1. ASSUME NEW i \in Intents, NEW a \in Rows, Elsewhere(rows, a, i) PROVE Elsewhere(rows', a, i)
    <2>1. PICK b \in Rows : b # a /\ rows[b].intent = i
      BY <1>1 DEF Elsewhere, RowOf
    <2>2. rows'[b].intent = i
      BY <2>1, SavedCardAssumption DEF RowMoves, Moved
    <2> QED BY <2>1, <2>2 DEF Elsewhere, RowOf
  <1>2. k.row # None => rows'[k.row].status # "NONE"
    BY <1>0 DEF Informed, RowMoves, Moved, CallType
  <1>3. Working(k) => k.row \in Rows
    BY <1>0 DEF Working, CallOK
  <1>4. Working(k) /\ k.intent # None => rows'[k.row].intent = k.intent
    BY <1>3 DEF Informed, RowMoves, Moved
  <1>5. Working(k) =>
          /\ \A i \in k.stale : Elsewhere(rows', k.row, i)
          /\ k.captured # None => Elsewhere(rows', k.row, k.captured) /\ intents'[k.captured] = "succeeded"
          /\ k.live # None => Elsewhere(rows', k.row, k.live)
    BY <1>0, <1>1, <1>3 DEF Informed, CallType, IntentMoves, IntentMoved
  <1>6. k.pc \in {"settling", "answering"} =>
          Elsewhere(rows', k.row, k.intent) \/ key'[k.intent] = k.row
    <2> SUFFICES ASSUME k.pc \in {"settling", "answering"}
                 PROVE  Elsewhere(rows', k.row, k.intent) \/ key'[k.intent] = k.row
      OBVIOUS
    <2>1. k.row \in Rows /\ k.intent \in Intents /\ k.row # None
      BY <1>0, SavedCardAssumption DEF CallOK
    <2>2. Elsewhere(rows, k.row, k.intent) \/ key[k.intent] = k.row
      BY DEF Informed
    <2>3. key[k.intent] # None => key'[k.intent] = key[k.intent]
      BY <2>1 DEF IntentMoves, IntentMoved
    <2> QED BY <1>1, <2>1, <2>2, <2>3
  <1>7. k.pc \in {"settling", "marking"} => intents'[k.intent] = "succeeded"
    BY <1>0 DEF Informed, CallOK, IntentMoves, IntentMoved
  <1> QED BY <1>2, <1>4, <1>5, <1>6, <1>7 DEF Informed

\* The records that know nothing.
LEMMA IdleInformed ==
  ASSUME NEW rs, NEW ky, NEW ints, NEW ex,
         NEW k, k.row = None, k.pc \in {"idle", "releasing", "retiring"}, k.told = "none"
  PROVE  Informed(k, rs, ky, ints, ex)
  BY DEF Informed, Working, Sending

\* A caller on its way to Stripe, at the row it claimed.
Ready(k) ==
  /\ k.row \in Rows /\ rows[k.row].status # "NONE"
  /\ k.intent = None => k.row \notin expired
  /\ k.intent # None => rows[k.row].intent = k.intent
  /\ \A i \in k.stale : Elsewhere(rows, k.row, i)
  /\ k.captured # None => Elsewhere(rows, k.row, k.captured) /\ intents[k.captured] = "succeeded"
  /\ k.live # None => Elsewhere(rows, k.row, k.live)
  /\ k.told # "SUCCEEDED"

LEMMA WorkingReady ==
  ASSUME Inv, NEW c \in Callers, Working(call[c])
  PROVE  Ready(call[c])
  BY CallTyped, SavedCardAssumption DEF Inv, Informed, Working, Sending, CallOK, Ready

LEMMA ReadyWorking ==
  ASSUME NEW k, Ready(k), k.pc \in {"canceling", "asking"}
  PROVE  Informed(k, rows, key, intents, expired)
  BY SavedCardAssumption DEF Informed, Working, Sending, Ready

LEMMA FoundReady ==
  ASSUME NEW k \in CallType, Ready(k), NEW i \in Intents, Elsewhere(rows, k.row, i)
  PROVE  /\ intents[i] = "succeeded" => Ready(FoundCaptured(k, i))
         /\ Ready(FoundLive(k, i))
  <1>1. LET r == FoundCaptured(k, i)
        IN /\ r.row = k.row /\ r.intent = k.intent /\ r.stale = k.stale /\ r.live = k.live
           /\ r.told = k.told /\ r.captured \in {k.captured, i}
    BY DEF FoundCaptured, First, CallType
  <1>2. LET r == FoundLive(k, i)
        IN /\ r.row = k.row /\ r.intent = k.intent /\ r.stale = k.stale /\ r.captured = k.captured
           /\ r.told = k.told /\ r.live \in {k.live, i}
    BY DEF FoundLive, First, CallType
  <1>3. intents[i] = "succeeded" => Ready(FoundCaptured(k, i))
    BY <1>1 DEF Ready
  <1>4. Ready(FoundLive(k, i))
    BY <1>2 DEF Ready
  <1> QED BY <1>3, <1>4

LEMMA AnsweredInformed ==
  ASSUME NEW rs, NEW ky, NEW ints, NEW ex,
         NEW k \in CallType, k.row \in Rows, rs[k.row].status # "NONE",
         NEW i \in Intents, NEW told \in {"SUCCEEDED", "PROCESSING", "FAILED"},
         Elsewhere(rs, k.row, i) \/ ky[i] = k.row,
         told = "SUCCEEDED" => ints[i] = "succeeded"
  PROVE  /\ Answered(k, i, told) \in TypedCall
         /\ Informed(Answered(k, i, told), rs, ky, ints, ex)
         /\ Answered(k, i, told).row = k.row
  <1> DEFINE r == Answered(k, i, told)
  <1>1. /\ r.pc = IF told = "SUCCEEDED" THEN "settling" ELSE "answering"
        /\ r.row = k.row /\ r.intent = i /\ r.told = told
    BY AnsweredType
  <1>2. r \in TypedCall
    BY AnsweredTyped
  <1> HIDE DEF r
  <1>3. Informed(r, rs, ky, ints, ex)
    BY <1>1 DEF Informed, Working, Sending
  <1> QED BY <1>1, <1>2, <1>3 DEF r

LEMMA VisitedInformed ==
  ASSUME NEW k \in CallType, Ready(k), NEW i
  PROVE  /\ Visited(k, i) \in TypedCall
         /\ Informed(Visited(k, i), rows, key, intents, expired)
         /\ Visited(k, i).row = k.row
  <1> DEFINE r1 == [k EXCEPT !.stale = @ \ {i}]
             rest == [r1 EXCEPT !.found = None]
             go(pc) == [rest EXCEPT !.pc = pc]
  <1>1. /\ r1 \in CallType
        /\ r1.row = k.row /\ r1.intent = k.intent /\ r1.stale \subseteq k.stale
        /\ r1.captured = k.captured /\ r1.live = k.live /\ r1.told = k.told
    BY DEF CallType
  <1>2. Visited(k, i) = IF rest.stale # {} THEN go("canceling")
     ELSE IF rest.captured # None THEN Answered(k, rest.captured, "SUCCEEDED")
     ELSE IF rest.live # None THEN Answered(k, rest.live, "PROCESSING")
     ELSE go("asking")
    BY DEF Visited
  <1> HIDE DEF r1
  <1>3. /\ rest \in CallType
        /\ rest.row = k.row /\ rest.intent = k.intent /\ rest.stale \subseteq k.stale
        /\ rest.captured = k.captured /\ rest.live = k.live /\ rest.told = k.told
    BY <1>1 DEF CallType
  <1> HIDE DEF rest
  <1>4. ASSUME NEW pc \in {"canceling", "asking"}
        PROVE  /\ Informed(go(pc), rows, key, intents, expired)
               /\ go(pc).row = k.row
    <2>1. /\ go(pc).pc = pc
          /\ go(pc).row = k.row /\ go(pc).intent = k.intent /\ go(pc).stale \subseteq k.stale
          /\ go(pc).captured = k.captured /\ go(pc).live = k.live /\ go(pc).told = k.told
      BY <1>3 DEF CallType
    <2> HIDE DEF go
    <2>2. Ready(go(pc))
      BY <2>1 DEF Ready
    <2> QED BY <2>1, <2>2, ReadyWorking
  <1>5. k.captured \in Intents \cup {None} /\ k.live \in Intents \cup {None}
    BY DEF CallType
  <1>6. k.captured # None =>
          /\ Informed(Answered(k, k.captured, "SUCCEEDED"), rows, key, intents, expired)
          /\ Answered(k, k.captured, "SUCCEEDED").row = k.row
    BY <1>5, AnsweredInformed DEF Ready
  <1>7. k.live # None =>
          /\ Informed(Answered(k, k.live, "PROCESSING"), rows, key, intents, expired)
          /\ Answered(k, k.live, "PROCESSING").row = k.row
    BY <1>5, AnsweredInformed DEF Ready
  <1>8. Visited(k, i) \in TypedCall
    BY VisitedType DEF Ready
  <1> HIDE DEF go
  <1> QED BY <1>2, <1>3, <1>4, <1>6, <1>7, <1>8

\* What a caller goes on with, and what it knows of the state it read.
GoesOn(c) ==
  \E k \in TypedCall : /\ call' = [call EXCEPT ![c] = k]
                       /\ Informed(k, rows, key, intents, expired)
                       /\ k.row \in {call[c].row, None}

LEMMA StopsGoesOn == ASSUME NEW c \in Callers, Stops(c) PROVE GoesOn(c)
  <1>1. Idle \in TypedCall /\ Idle.row = None /\ Idle.told = "none"
    BY IdleType DEF TypedCall, CallOK, Idle
  <1> QED BY <1>1, IdleType, IdleInformed DEF Stops, GoesOn

LEMMA ReleasesGoesOn == ASSUME NEW c \in Callers, Releases(c) PROVE GoesOn(c)
  <1> DEFINE k == [Idle EXCEPT !.pc = "releasing"]
  <1>1. k.pc = "releasing" /\ k.row = None /\ k.told = "none"
    BY DEF Idle
  <1>2. k \in TypedCall
    BY ReleasesType
  <1> HIDE DEF k
  <1>3. Informed(k, rows, key, intents, expired)
    BY <1>1, IdleInformed
  <1>4. call' = [call EXCEPT ![c] = k]
    BY DEF Releases, k
  <1> QED BY <1>1, <1>2, <1>3, <1>4 DEF GoesOn

LEMMA CondemnsGoesOn ==
  ASSUME TInv, NEW c \in Callers, NEW pc \in {"releasing", "retiring"}, Condemns(c, pc)
  PROVE  GoesOn(c)
  <1> DEFINE r == [Idle EXCEPT !.pc = pc]
             k == [r EXCEPT !.card = call[c].card]
  <1>1. r \in CallType /\ r.pc = pc /\ r.row = None /\ r.told = "none"
    BY IdleType DEF CallType, Idle
  <1>2. k \in TypedCall
    BY CallTyped, CondemnsType
  <1>3. call' = [call EXCEPT ![c] = k]
    BY DEF Condemns
  <1> HIDE DEF r
  <1>4. k.pc = pc /\ k.row = None /\ k.told = "none"
    BY <1>1 DEF CallType
  <1> HIDE DEF k
  <1>5. Informed(k, rows, key, intents, expired)
    BY <1>4, IdleInformed
  <1> QED BY <1>2, <1>3, <1>4, <1>5 DEF GoesOn

LEMMA FailingGoesOn ==
  ASSUME Inv, NEW c \in Callers, call[c].row \in Rows, call[c].pc = "asking",
         call' = [call EXCEPT ![c].pc = "failing"]
  PROVE  GoesOn(c)
  <1> DEFINE k == [call[c] EXCEPT !.pc = "failing"]
  <1>1. call[c] \in CallType
    BY CallTyped DEF Inv
  <1>2. k \in TypedCall
    BY <1>1, FailingType
  <1>3. call' = [call EXCEPT ![c] = k]
    OBVIOUS
  <1>4. k.pc = "failing" /\ k.row = call[c].row /\ k.told = call[c].told
    BY <1>1 DEF CallType
  <1> HIDE DEF k
  <1>5. Informed(k, rows, key, intents, expired)
    BY <1>4 DEF Informed, Working, Sending, Inv
  <1> QED BY <1>2, <1>3, <1>4, <1>5 DEF GoesOn

\* Every caller's step but the claim and the first use of a key.
LEMMA CallerGoesOn ==
  ASSUME Inv, NEW c \in Callers, Caller(c), ~Claim(c), ~Charge(c)
  PROVE  GoesOn(c)
  <1>0. TInv /\ call[c] \in CallType /\ CallOK(call[c])
    BY CallTyped DEF Inv
  <1>1. CASE CancelSuperseded(c)
    <2>1. call[c].row \in Rows /\ Ready(call[c]) /\ call[c].stale \subseteq Intents
      BY <1>0, <1>1, WorkingReady DEF CancelSuperseded, Working, CallOK, CallType
    <2>2. PICK i \in call[c].stale :
            \/ Visits(c, i)
            \/ /\ intents[i] = "succeeded"
               /\ call' = [call EXCEPT ![c] = Visited(FoundCaptured(@, i), i)]
            \/ call' = [call EXCEPT ![c].pc = "reviving", ![c].found = i]
      BY <1>1 DEF CancelSuperseded
    <2>3. i \in Intents /\ Elsewhere(rows, call[c].row, i)
      BY <2>1 DEF Ready
    <2>4. CASE Visits(c, i)
      BY <1>0, <2>1, <2>4, VisitedInformed DEF Visits, GoesOn
    <2>5. CASE /\ intents[i] = "succeeded"
               /\ call' = [call EXCEPT ![c] = Visited(FoundCaptured(@, i), i)]
      <3>1. FoundCaptured(call[c], i) \in CallType /\ FoundCaptured(call[c], i).row = call[c].row
        BY <1>0, <2>3, FoundType
      <3>2. Ready(FoundCaptured(call[c], i))
        BY <1>0, <2>1, <2>3, <2>5, FoundReady
      <3> QED BY <2>5, <3>1, <3>2, VisitedInformed DEF GoesOn
    <2>6. CASE call' = [call EXCEPT ![c].pc = "reviving", ![c].found = i]
      <3> DEFINE r == [call[c] EXCEPT !.pc = "reviving"]
                 k == [r EXCEPT !.found = i]
      <3>1. k \in TypedCall
        BY <1>0, <2>1, <2>3, RevivingType
      <3>2. call' = [call EXCEPT ![c] = k]
        BY <2>6, <1>0 DEF TInv, TypeOK
      <3>3. /\ r \in CallType /\ r.pc = "reviving" /\ r.row = call[c].row /\ r.intent = call[c].intent
            /\ r.stale = call[c].stale /\ r.captured = call[c].captured /\ r.live = call[c].live
            /\ r.told = call[c].told
        BY <1>0 DEF CallType
      <3> HIDE DEF r
      <3>4. /\ k.pc = "reviving" /\ k.row = call[c].row /\ k.intent = call[c].intent
            /\ k.stale = call[c].stale /\ k.captured = call[c].captured /\ k.live = call[c].live
            /\ k.told = call[c].told /\ k.found = i
        BY <3>3 DEF CallType
      <3> HIDE DEF k
      <3>5. Informed(k, rows, key, intents, expired)
        BY <2>1, <3>4, SavedCardAssumption DEF Ready, Informed, Working, Sending
      <3> QED BY <3>1, <3>2, <3>4, <3>5 DEF GoesOn
    <2> QED BY <2>2, <2>4, <2>5, <2>6
  <1>2. CASE Revive(c)
    <2>1. call[c].row \in Rows /\ Ready(call[c]) /\ call[c].found \in Intents
      BY <1>0, <1>2, WorkingReady DEF Revive, Working, CallOK
    <2>2. Elsewhere(rows, call[c].row, call[c].found)
      BY <1>2, <2>1 DEF Revive, Ready, Inv, Informed
    <2>3. FoundLive(call[c], call[c].found) \in CallType
          /\ FoundLive(call[c], call[c].found).row = call[c].row
      BY <1>0, <2>1, FoundType
    <2>4. Ready(FoundLive(call[c], call[c].found))
      BY <1>0, <2>1, <2>2, FoundReady
    <2>5. call' = [call EXCEPT ![c] = Visited(FoundLive(@, call[c].found), call[c].found)]
      BY <1>2 DEF Revive
    <2> DEFINE k == Visited(FoundLive(call[c], call[c].found), call[c].found)
    <2>6. k \in TypedCall /\ Informed(k, rows, key, intents, expired) /\ k.row = call[c].row
      BY <2>3, <2>4, VisitedInformed
    <2>7. call' = [call EXCEPT ![c] = k]
      BY <2>5
    <2> HIDE DEF k
    <2> QED BY <2>6, <2>7 DEF GoesOn
  <1>3. CASE Retrieve(c)
    <2>1. /\ call[c].row \in Rows /\ Ready(call[c])
          /\ call[c].intent \in Intents /\ rows[call[c].row].intent = call[c].intent
      BY <1>0, <1>3, WorkingReady DEF Retrieve, Working, CallOK, CallType, Ready
    <2>2. key[call[c].intent] = call[c].row
      BY <2>1, SavedCardAssumption DEF Inv, Linked
    <2> DEFINE told == LedgerStatus(intents[call[c].intent])
    <2>3. told \in {"SUCCEEDED", "PROCESSING", "FAILED"}
          /\ (told = "SUCCEEDED" => intents[call[c].intent] = "succeeded")
      BY DEF LedgerStatus
    <2>4. \/ Releases(c)
          \/ call' = [call EXCEPT ![c] = Answered(@, call[c].intent, told)]
      BY <1>3 DEF Retrieve
    <2> HIDE DEF told
    <2> QED BY <1>0, <2>1, <2>2, <2>3, <2>4, AnsweredInformed, ReleasesGoesOn DEF GoesOn, Ready
  <1>4. CASE ChargeAgain(c)
    <2>1. /\ call[c].row \in Rows /\ Ready(call[c]) /\ call[c].pc = "asking"
      BY <1>0, <1>4, WorkingReady DEF ChargeAgain, Working, CallOK
    <2>2. PICK i \in Intents : key[i] = call[c].row /\ (Answers(c, i, answer[i]) \/ Releases(c))
      BY <1>4 DEF ChargeAgain, Remembered
    <2> DEFINE told == LedgerStatus(answer[i])
    <2>3. told \in {"SUCCEEDED", "PROCESSING", "FAILED"}
          /\ (told = "SUCCEEDED" => answer[i] = "succeeded")
      BY DEF LedgerStatus
    <2>4. told = "SUCCEEDED" => intents[i] = "succeeded"
      BY <2>3 DEF Inv, Truthful
    <2>5. \/ Releases(c)
          \/ call' = [call EXCEPT ![c].pc = "failing"]
          \/ call' = [call EXCEPT ![c] = Answered(@, i, told)]
      BY <2>2 DEF Answers
    <2> HIDE DEF told
    <2>6. CASE call' = [call EXCEPT ![c] = Answered(@, i, told)]
      <3> DEFINE k == Answered(call[c], i, told)
      <3>1. /\ rows[call[c].row].status # "NONE" /\ call[c].row \in Rows
            /\ Elsewhere(rows, call[c].row, i) \/ key[i] = call[c].row
        BY <2>1, <2>2 DEF Ready
      <3>2. call[c] \in CallType /\ told \in {"SUCCEEDED", "PROCESSING", "FAILED"}
        BY <1>0, <2>3
      <3>3. /\ k.pc = IF told = "SUCCEEDED" THEN "settling" ELSE "answering"
            /\ k.row = call[c].row /\ k.intent = i /\ k.told = told /\ k \in TypedCall
        BY <3>1, <3>2, AnsweredTyped, AnsweredType
      <3> HIDE DEF k
      <3>4. Informed(k, rows, key, intents, expired)
        BY <2>4, <3>1, <3>3 DEF Informed, Working, Sending
      <3>5. call' = [call EXCEPT ![c] = k]
        BY <2>6 DEF k
      <3> QED BY <3>3, <3>4, <3>5 DEF GoesOn
    <2> QED BY <2>1, <2>5, <2>6, ReleasesGoesOn, FailingGoesOn
  <1>5. CASE ChargeRefused(c)
    BY <1>0, <1>5, ReleasesGoesOn, FailingGoesOn DEF ChargeRefused, CallOK
  <1>6. CASE FailAttempt(c)
    BY <1>0, <1>6, CondemnsGoesOn DEF FailAttempt
  <1>7. CASE Settle(c)
    <2> DEFINE k == [Idle EXCEPT !.pc = "marking", !.intent = call[c].intent]
    <2>1. call[c].intent \in Intents /\ intents[call[c].intent] = "succeeded"
      BY <1>0, <1>7 DEF Settle, CallOK, Inv, Informed
    <2>2. k \in TypedCall /\ k.pc = "marking" /\ k.intent = call[c].intent /\ k.row = None
      BY <1>0, <2>1, MarksType
    <2>3. k.told = "none"
      BY DEF Idle
    <2>4. call' = [call EXCEPT ![c] = k]
      BY <1>7 DEF Settle, Marks
    <2> HIDE DEF k
    <2>5. Informed(k, rows, key, intents, expired)
      BY <2>1, <2>2, <2>3 DEF Informed, Working, Sending
    <2> QED BY <2>2, <2>4, <2>5 DEF GoesOn
  <1>8. CASE Mark(c) \/ Stop(c) \/ Retire(c)
    BY <1>8, StopsGoesOn DEF Mark, Stop, Retire
  <1>9. CASE RecordAndRelease(c)
    BY <1>9, StopsGoesOn, ReleasesGoesOn DEF RecordAndRelease
  <1>10. CASE ReleaseClaim(c)
    BY <1>0, <1>10, StopsGoesOn, CondemnsGoesOn DEF ReleaseClaim
  <1> QED
    BY <1>1, <1>2, <1>3, <1>4, <1>5, <1>6, <1>7, <1>8, <1>9, <1>10 DEF Caller

\* The first use of a key: the answer is of the intent made under it.
LEMMA ChargeGoesOn ==
  ASSUME Inv, NEW c \in Callers, Charge(c)
  PROVE  \E k \in TypedCall : /\ call' = [call EXCEPT ![c] = k]
                              /\ Informed(k, rows', key', intents', expired')
                              /\ k.row \in {call[c].row, None}
  <1>1. PICK i \in Intents, status \in {"succeeded", "processing", "action", "declined"} :
       /\ intents' = [intents EXCEPT ![i] = IF status = "declined" THEN "failed" ELSE status]
       /\ key' = [key EXCEPT ![i] = call[c].row]
       /\ Answers(c, i, status)
    BY DEF Charge
  <1>2. TInv /\ call[c] \in CallType /\ call[c].pc = "asking" /\ call[c].row \in Rows
    BY CallTyped DEF Charge, CallOK, Inv
  <1>3. rows' = rows /\ rows[call[c].row].status # "NONE"
    BY <1>2, SavedCardAssumption DEF Charge, ledger, Inv, Informed
  <1> DEFINE told == LedgerStatus(status)
  <1>4. told \in {"SUCCEEDED", "PROCESSING", "FAILED"} /\ (told = "SUCCEEDED" => status = "succeeded")
    BY DEF LedgerStatus
  <1>5. key'[i] = call[c].row /\ (status = "succeeded" => intents'[i] = "succeeded")
    BY <1>1 DEF Inv, TInv, TypeOK
  <1>6. \/ call' = [call EXCEPT ![c] = [call[c] EXCEPT !.pc = "failing"]]
        \/ call' = [call EXCEPT ![c] = Answered(call[c], i, told)]
        \/ call' = [call EXCEPT ![c] = [Idle EXCEPT !.pc = "releasing"]]
    BY <1>1 DEF Answers, Releases
  <1> HIDE DEF told
  <1>7. CASE call' = [call EXCEPT ![c] = [call[c] EXCEPT !.pc = "failing"]]
    <2> DEFINE k == [call[c] EXCEPT !.pc = "failing"]
    <2>1. k \in TypedCall /\ k.pc = "failing" /\ k.row = call[c].row /\ k.told = call[c].told
      BY <1>2, FailingType DEF CallType
    <2>2. call[c].told # "SUCCEEDED"
      BY <1>2 DEF Inv, Informed
    <2> HIDE DEF k
    <2>3. Informed(k, rows', key', intents', expired')
      BY <1>3, <2>1, <2>2 DEF Informed, Working, Sending
    <2> QED BY <1>7, <2>1, <2>3 DEF k
  <1>8. CASE call' = [call EXCEPT ![c] = Answered(call[c], i, told)]
    <2> DEFINE k == Answered(call[c], i, told)
    <2>1. /\ rows'[call[c].row].status # "NONE"
          /\ Elsewhere(rows', call[c].row, i) \/ key'[i] = call[c].row
          /\ told = "SUCCEEDED" => intents'[i] = "succeeded"
      BY <1>3, <1>4, <1>5
    <2>2. /\ k.pc = IF told = "SUCCEEDED" THEN "settling" ELSE "answering"
          /\ k.row = call[c].row /\ k.intent = i /\ k.told = told /\ k \in TypedCall
      BY <1>2, <1>4, AnsweredTyped, AnsweredType
    <2> HIDE DEF k
    <2>3. Informed(k, rows', key', intents', expired')
      BY <2>1, <2>2 DEF Informed, Working, Sending
    <2> QED BY <1>8, <2>2, <2>3 DEF k
  <1>9. CASE call' = [call EXCEPT ![c] = [Idle EXCEPT !.pc = "releasing"]]
    <2> DEFINE k == [Idle EXCEPT !.pc = "releasing"]
    <2>1. k \in TypedCall /\ k.pc = "releasing" /\ k.row = None /\ k.told = "none"
      BY ReleasesType DEF Idle
    <2> HIDE DEF k
    <2>2. Informed(k, rows', key', intents', expired')
      BY <2>1, IdleInformed
    <2> QED BY <1>9, <2>1, <2>2 DEF k
  <1> QED BY <1>6, <1>7, <1>8, <1>9

\* A claim takes up an attempt whose key is young, or whose intent its row names.
LEMMA ClaimGoesOn ==
  ASSUME Inv, RowMoves, NEW c \in Callers, Claim(c)
  PROVE  \E k \in TypedCall : /\ call' = [call EXCEPT ![c] = k]
                              /\ Informed(k, rows', key', intents', expired')
                              /\ rows'[k.row].status # "SUCCEEDED"
  <1>1. PICK a \in Rows :
            LET stale == {rows[b].intent : b \in Superseded(a)} \ {None}
                ended == Ended(rows, Superseded(a))
            IN \/ /\ Replay(a)
                  /\ rows' = ended
                  /\ call' = [call EXCEPT ![c] = Begun(a, rows[a].intent, stale)]
               \/ /\ Replayable = {} /\ a \in Fresh(rows)
                  /\ rows' = [ended EXCEPT ![a] = [status |-> "PENDING", card |-> card, intent |-> None]]
                  /\ call' = [call EXCEPT ![c] = Begun(a, None, stale)]
    BY DEF Claim
  <1> DEFINE stale == {rows[b].intent : b \in Superseded(a)} \ {None}
             ended == Ended(rows, Superseded(a))
  <1>2. stale \in SUBSET Intents /\ ended \in [Rows -> TypedRow] /\ TInv /\ rows[a].intent \in Intents \cup {None}
    <2>1. TInv /\ \A b \in Rows : rows[b].intent \in Intents \cup {None}
      BY DEF Inv, TInv, TypeOK, RowType
    <2>2. stale \in SUBSET Intents
      BY <2>1 DEF Superseded, Open
    <2>3. ended \in [Rows -> TypedRow]
      BY <2>1, EndedType
    <2> QED BY <2>1, <2>2, <2>3
  <1>3. expired' = expired /\ None \notin Rows
    BY SavedCardAssumption DEF Claim
  <1>4. \A i \in stale : Elsewhere(rows', a, i)
    BY DEF RowMoves, Moved, Superseded, Open, Elsewhere, RowOf
  <1>5. ended[a].status = rows[a].status
    BY DEF Ended, Superseded
  <1>6. \/ /\ Replay(a) /\ rows' = ended
           /\ call' = [call EXCEPT ![c] = Begun(a, rows[a].intent, stale)]
        \/ /\ a \in Fresh(rows)
           /\ rows' = [ended EXCEPT ![a] = [status |-> "PENDING", card |-> card, intent |-> None]]
           /\ call' = [call EXCEPT ![c] = Begun(a, None, stale)]
    BY <1>1
  <1> HIDE DEF stale, ended
  <1>7. ASSUME NEW i \in Intents \cup {None},
               rows'[a].status \notin {"NONE", "SUCCEEDED"},
               i = None => a \notin expired,
               i # None => rows'[a].intent = i,
               call' = [call EXCEPT ![c] = Begun(a, i, stale)]
        PROVE  \E k \in TypedCall : /\ call' = [call EXCEPT ![c] = k]
                                    /\ Informed(k, rows', key', intents', expired')
                                    /\ rows'[k.row].status # "SUCCEEDED"
    <2> DEFINE k == Begun(a, i, stale)
    <2>1. /\ k \in CallType /\ k.pc \in {"canceling", "asking"} /\ k.row = a /\ k.intent = i
          /\ k.stale = stale /\ k.told = "none" /\ k.captured = None /\ k.live = None
      BY <1>2, BegunType
    <2> HIDE DEF k
    <2>2. k \in TypedCall
      BY <2>1 DEF TypedCall, CallOK
    <2>3. Informed(k, rows', key', intents', expired')
      BY <1>3, <1>4, <1>7, <2>1 DEF Informed, Working, Sending
    <2> QED BY <1>7, <2>1, <2>2, <2>3 DEF k
  <1>8. CASE /\ Replay(a) /\ rows' = ended
             /\ call' = [call EXCEPT ![c] = Begun(a, rows[a].intent, stale)]
    <2>1. rows[a].status \in Unresolved /\ (rows[a].intent = None => a \notin expired)
      BY <1>8 DEF Replay, Replayable, Open
    <2>2. rows[a].intent # None => rows'[a].intent = rows[a].intent
      BY DEF RowMoves, Moved
    <2>3. rows'[a].status \notin {"NONE", "SUCCEEDED"}
      BY <1>5, <1>8, <2>1 DEF Unresolved
    <2> QED BY <1>2, <1>7, <1>8, <2>1, <2>2, <2>3
  <1>9. CASE /\ a \in Fresh(rows)
             /\ rows' = [ended EXCEPT ![a] = [status |-> "PENDING", card |-> card, intent |-> None]]
             /\ call' = [call EXCEPT ![c] = Begun(a, None, stale)]
    <2>1. a \notin expired
      BY <1>9 DEF Fresh, Inv, Keyed
    <2>2. rows'[a].status = "PENDING"
      BY <1>2, <1>9
    <2> QED BY <1>7, <1>9, <2>1, <2>2
  <1> QED BY <1>6, <1>8, <1>9

\* Every caller still knows, and takes up no row that is captured.
LEMMA InformedStep ==
  ASSUME Inv, [Next]_vars, RowMoves, IntentMoves, NEW d \in Callers
  PROVE  /\ Informed(call'[d], rows', key', intents', expired')
         /\ \/ call'[d].row \in {call[d].row, None}
            \/ rows'[call'[d].row].status # "SUCCEEDED"
  <1>0. call \in [Callers -> TypedCall] /\ Informed(call[d], rows, key, intents, expired)
    BY DEF Inv, TInv
  <1>1. ASSUME expired' = expired
        PROVE  Informed(call[d], rows', key', intents', expired')
    <2>1. call[d] \in TypedCall /\ (Sending(call[d]) => call[d].row \notin expired')
      BY <1>0, <1>1 DEF Informed
    <2> QED BY <1>0, <2>1, StaysInformed
  <1>2. ASSUME NEW c \in Callers, Caller(c) PROVE expired' = expired
    BY <1>2 DEF Caller, Claim, CancelSuperseded, Revive, Retrieve, ChargeAgain, Charge, ChargeRefused,
                FailAttempt, Settle, Mark, RecordAndRelease, ReleaseClaim, Retire, Stop
  <1>3. ASSUME NEW c \in Callers, Caller(c)
        PROVE  \E k \in TypedCall : /\ call' = [call EXCEPT ![c] = k]
                                    /\ Informed(k, rows', key', intents', expired')
                                    /\ \/ k.row \in {call[c].row, None}
                                       \/ rows'[k.row].status # "SUCCEEDED"
    <2>1. CASE Claim(c)
      BY <2>1, ClaimGoesOn
    <2>2. CASE Charge(c)
      BY <2>2, ChargeGoesOn
    <2>3. CASE ~Claim(c) /\ ~Charge(c)
      <3>1. PICK k \in TypedCall : /\ call' = [call EXCEPT ![c] = k]
                                   /\ Informed(k, rows, key, intents, expired)
                                   /\ k.row \in {call[c].row, None}
        BY <1>3, <2>3, CallerGoesOn DEF GoesOn
      <3>2. Sending(k) => k.row \notin expired'
        BY <1>2, <1>3, <3>1 DEF Informed
      <3>3. Informed(k, rows', key', intents', expired')
        BY <3>1, <3>2, StaysInformed
      <3> QED BY <3>1, <3>3
    <2> QED BY <2>1, <2>2, <2>3
  <1>4. ASSUME NEW c \in Callers, Caller(c)
        PROVE  /\ Informed(call'[d], rows', key', intents', expired')
               /\ \/ call'[d].row \in {call[d].row, None}
                  \/ rows'[call'[d].row].status # "SUCCEEDED"
    <2>1. PICK k \in TypedCall : /\ call' = [call EXCEPT ![c] = k]
                                 /\ Informed(k, rows', key', intents', expired')
                                 /\ \/ k.row \in {call[c].row, None}
                                    \/ rows'[k.row].status # "SUCCEEDED"
      BY <1>3, <1>4
    <2>2. CASE c = d
      <3>1. call'[d] = k
        BY <1>0, <2>1, <2>2
      <3> QED BY <2>1, <2>2, <3>1
    <2>3. CASE c # d
      <3>1. call'[d] = call[d]
        BY <1>0, <2>1, <2>3
      <3>2. Informed(call[d], rows', key', intents', expired')
        BY <1>1, <1>2, <1>4
      <3> QED BY <3>1, <3>2
    <2> QED BY <2>2, <2>3
  <1>5. ASSUME NEW a \in Rows, Expire(a)
        PROVE  Informed(call'[d], rows', key', intents', expired') /\ call' = call
    <2>1. call' = call /\ expired' = expired \cup {a} /\ ~(Sending(call[d]) /\ call[d].row = a)
      BY <1>5 DEF Expire
    <2>2. call[d] \in TypedCall /\ (Sending(call[d]) => call[d].row \notin expired')
      BY <1>0, <2>1 DEF Informed
    <2>3. Informed(call[d], rows', key', intents', expired')
      BY <1>0, <2>2, StaysInformed
    <2> QED BY <2>1, <2>3
  <1>6. CASE UNCHANGED <<expired, call>>
    BY <1>1, <1>6
  <1>7. ASSUME NEW i \in Intents, Webhook(i) \/ Capture(i) \/ Fail(i) PROVE UNCHANGED <<expired, call>>
    BY <1>7 DEF Webhook, Adopt, Unmatched, SucceededEvent, FailedEvent, Capture, Fail
  <1>8. ASSUME SaveCard \/ CancelBooking \/ UNCHANGED vars PROVE UNCHANGED <<expired, call>>
    BY <1>8 DEF SaveCard, CancelBooking, vars
  <1> QED BY <1>4, <1>5, <1>6, <1>7, <1>8 DEF Next

LEMMA KeyedStep ==
  ASSUME Inv, [Next]_vars, RowMoves, IntentMoves
  PROVE  Keyed'
  <1>1. ASSUME NEW a \in expired' PROVE rows[a].status # "NONE" /\ a \in Rows
    <2>1. CASE a \in expired
      BY <2>1 DEF Inv, Keyed, TInv, TypeOK
    <2>2. CASE a \notin expired
      <3>1. ASSUME NEW c \in Callers, Caller(c) PROVE expired' = expired
        BY <3>1 DEF Caller, Claim, CancelSuperseded, Revive, Retrieve, ChargeAgain, Charge, ChargeRefused,
                FailAttempt, Settle, Mark, RecordAndRelease, ReleaseClaim, Retire, Stop
      <3>2. ASSUME NEW i \in Intents, Webhook(i) \/ Capture(i) \/ Fail(i) PROVE expired' = expired
        BY <3>2 DEF Webhook, Adopt, Unmatched, SucceededEvent, FailedEvent, Capture, Fail
      <3>3. ASSUME SaveCard \/ CancelBooking \/ UNCHANGED vars PROVE expired' = expired
        BY <3>3 DEF SaveCard, CancelBooking, vars
      <3>4. ASSUME NEW b \in Rows, Expire(b) PROVE expired' = expired \cup {b} /\ rows[b].status # "NONE"
        BY <3>4 DEF Expire, Unresolved
      <3> QED BY <2>2, <3>1, <3>2, <3>3, <3>4 DEF Next
    <2> QED BY <2>1, <2>2
  <1>2. \A a \in expired' : rows'[a].status # "NONE"
    BY <1>1 DEF RowMoves, Moved
  <1> QED BY <1>2 DEF Keyed, IntentMoves, IntentMoved

LEMMA LinkedStep ==
  ASSUME Inv, [Next]_vars, RowMoves, IntentMoves
  PROVE  Linked'
  <1>1. \A a \in Rows : rows'[a].status \in {"NONE", "DELETED"} => rows'[a].intent = None
    BY DEF RowMoves, Moved
  <1>2. \A a, b \in Rows : rows'[a].intent # None /\ rows'[a].intent = rows'[b].intent => a = b
    BY DEF RowMoves
  <1>3. ASSUME NEW a \in Rows, rows'[a].intent # None, key'[rows'[a].intent] # a
        PROVE  rows'[a].status = "SUCCEEDED" /\ \A c \in Callers : call'[c].row # a
    <2>1. a # None /\ rows'[a].intent \in Intents
      <3>1. TInv'
        BY TypeStep DEF Inv
      <3> QED BY <1>3, <3>1, SavedCardAssumption DEF TInv, TypeOK, RowType
    <2>2. key[rows'[a].intent] # a
      BY <1>3, <2>1 DEF IntentMoves, IntentMoved
    <2>3. rows'[a].status = "SUCCEEDED" /\ \A c \in Callers : call[c].row # a
      <3>1. CASE rows[a].intent # None
        BY <2>2, <3>1 DEF RowMoves, Moved, Inv, Linked
      <3>2. CASE rows[a].intent = None
        <4>1. rows[a].status = "NONE" /\ rows'[a].status = "SUCCEEDED"
          BY <1>3, <2>2, <3>2 DEF RowMoves, Moved
        <4> QED BY <2>1, <4>1 DEF Inv, Informed
      <3> QED BY <3>1, <3>2
    <2>4. ASSUME NEW c \in Callers PROVE call'[c].row # a
      BY <2>1, <2>3, InformedStep
    <2> QED BY <2>3, <2>4
  <1> QED BY <1>1, <1>2, <1>3 DEF Linked

LEMMA TruthfulStep == RowMoves /\ IntentMoves /\ TInv' => Truthful'
  <1> SUFFICES ASSUME RowMoves, IntentMoves, TInv' PROVE Truthful'
    OBVIOUS
  <1>1. ASSUME NEW a \in Rows, rows'[a].status = "SUCCEEDED"
        PROVE  intents'[rows'[a].intent] = "succeeded"
    <2>1. rows'[a].intent \in Intents
      BY <1>1 DEF TInv, TypedRow
    <2> QED BY <1>1, <2>1 DEF RowMoves, Moved, IntentMoves, IntentMoved
  <1> QED BY <1>1 DEF Truthful, IntentMoves, IntentMoved

-----------------------------------------------------------------------------
(* Where the money is *)

\* A step that neither settles, hands back nor cancels.
QuietMoney ==
  /\ booking' = "PAID" <=> booking = "PAID"
  /\ booking' \in {"PENDING", "CONFIRMED"} <=> booking \in {"PENDING", "CONFIRMED"}
  /\ UNCHANGED <<settler, returned>>
  /\ reported \subseteq reported'
  /\ \A i \in Intents : <<i, "succeeded">> \in news => <<i, "succeeded">> \in news' \/ i \in reported'

\* The settler's row names the intent it named.
LEMMA SettlerStays ==
  ASSUME Inv, RowMoves, IntentMoves, booking = "PAID"
  PROVE  /\ settler \in Rows /\ rows'[settler].status = "SUCCEEDED"
         /\ rows[settler].intent \in Intents /\ rows'[settler].intent = rows[settler].intent
         /\ intents'[rows[settler].intent] = "succeeded"
         /\ rows[settler].intent \notin returned
  <1>1. /\ settler \in Rows /\ rows[settler].status = "SUCCEEDED"
        /\ rows[settler].intent \in Intents \ returned
        /\ intents[rows[settler].intent] = "succeeded"
    BY DEF Inv, Money, PaidIsBacked
  <1>2. rows[settler].intent # None
    BY <1>1, SavedCardAssumption
  <1>3. rows'[settler].status = "SUCCEEDED" /\ rows'[settler].intent = rows[settler].intent
    BY <1>1, <1>2 DEF RowMoves, Moved
  <1>4. intents'[rows[settler].intent] = "succeeded"
    BY <1>1 DEF IntentMoves, IntentMoved
  <1> QED BY <1>1, <1>3, <1>4

LEMMA LinkStays ==
  ASSUME RowMoves, NEW i \in Intents, NEW a \in RowOf(rows, i)
  PROVE  a \in RowOf(rows', i)
  BY SavedCardAssumption DEF RowOf, RowMoves, Moved

LEMMA QuietStep == Inv /\ RowMoves /\ IntentMoves /\ QuietMoney => Money'
  <1> SUFFICES ASSUME Inv, RowMoves, IntentMoves, QuietMoney PROVE Money'
    OBVIOUS
  <1>1. booking' \in {"PENDING", "CONFIRMED"} => returned' = {}
    BY DEF QuietMoney, Inv, Money
  <1>2. PaidIsBacked'
    <2> SUFFICES ASSUME booking' = "PAID" PROVE PaidIsBacked'
      BY DEF PaidIsBacked
    <2>1. booking = "PAID" /\ settler' = settler /\ returned' = returned
      BY DEF QuietMoney
    <2> QED BY <2>1, SettlerStays DEF PaidIsBacked
  <1>3. ASSUME NEW i \in Intents, intents'[i] = "succeeded"
        PROVE  \/ <<i, "succeeded">> \in news'
               \/ i \in returned' \cup reported'
               \/ booking' = "PAID" /\ settler' \in RowOf(rows', i)
    BY <1>3, LinkStays DEF QuietMoney, Inv, Money, CaptureIsAccounted, IntentMoves, IntentMoved
  <1> QED BY <1>1, <1>2, <1>3 DEF Money, CaptureIsAccounted

\* A capture is settled, from whichever door; its event may be handled with it.
LEMMA SettlesStep ==
  ASSUME Inv, RowMoves, IntentMoves, TInv',
         NEW i \in Intents, NEW a \in UpsertAt(rows, i), intents[i] = "succeeded",
         \/ Settles(i, a)
         \/ /\ booking = "CANCELLED"
            /\ rows' = Upserted(rows, a, i)
            /\ returned' = returned \cup {i}
            /\ UNCHANGED <<booking, settler>>,
         reported' = reported, news \ {<<i, "succeeded">>} \subseteq news'
  PROVE  Money'
  <1>0. a \in Rows
    BY DEF UpsertAt, RowOf, Fresh
  <1>1. rows'[a].status = "SUCCEEDED" /\ rows'[a].intent = i /\ intents'[i] = "succeeded"
    <2>1. rows' = Upserted(rows, a, i)
      BY DEF Settles
    <2>2. rows'[a] = [status |-> "SUCCEEDED", card |-> on[i], intent |-> i]
      BY <1>0, <2>1 DEF Upserted, Inv, TInv
    <2>3. intents'[i] = "succeeded"
      BY DEF IntentMoves, IntentMoved
    <2>4. rows'[a].status = "SUCCEEDED" /\ rows'[a].intent = i
      BY <2>2
    <2> QED BY <2>3, <2>4
  <1>2. \A j \in Intents : j # i /\ <<j, "succeeded">> \in news => <<j, "succeeded">> \in news'
    OBVIOUS
  <1>3. CASE /\ booking \in {"PENDING", "CONFIRMED"}
             /\ booking' = "PAID"
             /\ settler' = a
             /\ UNCHANGED returned
    <2>1. returned' = {}
      BY <1>3 DEF Inv, Money
    <2>2. PaidIsBacked'
      BY <1>0, <1>1, <1>3, <2>1 DEF PaidIsBacked
    <2>3. ASSUME NEW j \in Intents, intents'[j] = "succeeded"
          PROVE  \/ <<j, "succeeded">> \in news'
                 \/ j \in returned' \cup reported'
                 \/ booking' = "PAID" /\ settler' \in RowOf(rows', j)
      <3>1. CASE j = i
        BY <1>0, <1>1, <1>3, <3>1 DEF RowOf
      <3>2. CASE j # i
        BY <1>2, <1>3, <2>3, <3>2 DEF Inv, Money, CaptureIsAccounted, IntentMoves, IntentMoved
      <3> QED BY <3>1, <3>2
    <2> QED BY <1>3, <2>2, <2>3 DEF Money, CaptureIsAccounted
  <1>4. CASE /\ booking # "PAID"
             /\ booking' = "CANCELLED"
             /\ returned' = returned \cup {i}
             /\ UNCHANGED settler
    <2>1. ASSUME NEW j \in Intents, intents'[j] = "succeeded"
          PROVE  \/ <<j, "succeeded">> \in news'
                 \/ j \in returned' \cup reported'
      BY <1>2, <1>4, <2>1 DEF Inv, Money, CaptureIsAccounted, IntentMoves, IntentMoved
    <2> QED BY <1>4, <2>1 DEF Money, CaptureIsAccounted, PaidIsBacked
  <1>5. CASE /\ booking = "PAID"
             /\ returned' = IF HandsBack(a) THEN returned \cup {i} ELSE returned
             /\ UNCHANGED <<booking, settler>>
    <2>1. a = settler \/ i # rows[settler].intent
      <3>1. ASSUME i = rows[settler].intent PROVE a = settler
        <4>1. settler \in RowOf(rows, i)
          BY <1>5, <3>1, SettlerStays DEF RowOf
        <4>2. rows[a].intent = i
          BY <4>1 DEF UpsertAt, RowOf
        <4> QED BY <1>0, <1>5, <3>1, <4>2, SettlerStays, SavedCardAssumption DEF Inv, Linked
      <3> QED BY <3>1
    <2>2. rows[settler].intent \notin returned'
      BY <1>5, <2>1, SettlerStays DEF HandsBack
    <2>3. PaidIsBacked'
      BY <1>5, <2>2, SettlerStays DEF PaidIsBacked
    <2>4. ASSUME NEW j \in Intents, intents'[j] = "succeeded"
          PROVE  \/ <<j, "succeeded">> \in news'
                 \/ j \in returned' \cup reported'
                 \/ booking' = "PAID" /\ settler' \in RowOf(rows', j)
      <3>1. CASE j = i
        BY <1>0, <1>1, <1>5, <3>1 DEF HandsBack, RowOf
      <3>2. CASE j # i
        <4>1. \/ <<j, "succeeded">> \in news'
              \/ j \in returned \cup reported
              \/ settler \in RowOf(rows, j)
          BY <1>2, <2>4, <3>2 DEF Inv, Money, CaptureIsAccounted, IntentMoves, IntentMoved
        <4> QED BY <1>5, <4>1, LinkStays
      <3> QED BY <3>1, <3>2
    <2>5. booking' \notin {"PENDING", "CONFIRMED"}
      BY <1>5
    <2> QED BY <2>3, <2>4, <2>5 DEF Money, CaptureIsAccounted
  <1> QED BY <1>3, <1>4, <1>5 DEF Settles

LEMMA MoneyStep ==
  ASSUME Inv, [Next]_vars, RowMoves, IntentMoves, TInv'
  PROVE  Money'
  <1>1. ASSUME NEW c \in Callers, Mark(c) PROVE Money'
    <2>1. call[c].pc = "marking" /\ call[c].intent \in Intents
      BY <1>1, CallTyped DEF Mark, CallOK, Inv
    <2>2. intents[call[c].intent] = "succeeded"
      BY <2>1 DEF Inv, Informed
    <2>3. \E a \in UpsertAt(rows, call[c].intent) : Settles(call[c].intent, a)
      BY <1>1 DEF Mark
    <2>4. reported' = reported /\ news' = news
      BY <1>1 DEF Mark
    <2> QED BY <2>1, <2>2, <2>3, <2>4, SettlesStep
  <1>2. ASSUME NEW i \in Intents, SucceededEvent(i) PROVE Money'
    <2>1. PICK a \in RowOf(rows, i) :
            \/ Settles(i, a)
            \/ /\ booking = "CANCELLED"
               /\ rows' = Upserted(rows, a, i)
               /\ returned' = returned \cup {i}
               /\ UNCHANGED <<booking, settler>>
      BY <1>2 DEF SucceededEvent
    <2>2. a \in UpsertAt(rows, i)
      BY DEF UpsertAt
    <2>3. intents[i] = "succeeded" /\ reported' = reported /\ news \ {<<i, "succeeded">>} \subseteq news'
      BY <1>2 DEF SucceededEvent, Handled, Inv, Truthful
    <2> QED BY <2>1, <2>2, <2>3, SettlesStep
  <1>3. CASE CancelBooking
    <2>1. booking' = "CANCELLED" /\ booking # "PAID" /\ returned \subseteq returned' /\ reported' = reported
          /\ news' = news
      BY <1>3 DEF CancelBooking
    <2>2. ASSUME NEW j \in Intents, intents'[j] = "succeeded"
          PROVE  \/ <<j, "succeeded">> \in news'
                 \/ j \in returned' \cup reported'
      BY <2>1, <2>2 DEF Inv, Money, CaptureIsAccounted, IntentMoves, IntentMoved
    <2> QED BY <2>1, <2>2 DEF Money, CaptureIsAccounted, PaidIsBacked
  <1>4. CASE QuietMoney
    BY <1>4, QuietStep
  <1>5. ASSUME NEW c \in Callers,
               Claim(c) \/ CancelSuperseded(c) \/ Revive(c) \/ Retrieve(c) \/ ChargeAgain(c)
               \/ ChargeRefused(c) \/ FailAttempt(c) \/ Settle(c)
               \/ RecordAndRelease(c) \/ ReleaseClaim(c) \/ Retire(c) \/ Stop(c)
        PROVE  QuietMoney
    <2>1. UNCHANGED <<settler, returned, reported>> /\ news \subseteq news'
      BY <1>5 DEF Claim, CancelSuperseded, Revive, Retrieve, ChargeAgain, ChargeRefused, FailAttempt,
                  Settle, RecordAndRelease, ReleaseClaim, Retire, Stop, ledger, stripe
    <2>2. \/ booking' = booking
          \/ booking \in {"PENDING", "CONFIRMED"} /\ booking' \in {"PENDING", "CONFIRMED"}
      BY <1>5 DEF Claim, CancelSuperseded, Revive, Retrieve, ChargeAgain, ChargeRefused, FailAttempt,
                  Settle, RecordAndRelease, ReleaseClaim, Retire, Stop, Released
    <2> QED BY <2>1, <2>2 DEF QuietMoney
  <1>6. ASSUME NEW c \in Callers, Charge(c) PROVE QuietMoney
    <2>1. UNCHANGED <<booking, settler, returned, reported>>
      BY <1>6 DEF Charge, ledger
    <2>2. news \subseteq news'
      <3>1. PICK i \in Intents, status \in {"succeeded", "processing", "action", "declined"} :
              news' = CASE status = "succeeded" -> news \cup {<<i, "succeeded">>}
                        [] status = "declined" -> news \cup {<<i, "failed">>}
                        [] OTHER -> news
        BY <1>6 DEF Charge
      <3> QED BY <3>1
    <2> QED BY <2>1, <2>2 DEF QuietMoney
  <1>7. ASSUME NEW i \in Intents, Adopt(i) \/ Unmatched(i) \/ FailedEvent(i) \/ Capture(i) \/ Fail(i)
        PROVE  QuietMoney
    <2>1. UNCHANGED <<booking, settler, returned>> /\ reported \subseteq reported'
      BY <1>7 DEF Adopt, Unmatched, FailedEvent, Capture, Fail, ledger
    <2>2. ASSUME NEW j \in Intents, <<j, "succeeded">> \in news
          PROVE  <<j, "succeeded">> \in news' \/ j \in reported'
      <3>1. CASE Unmatched(i)
        BY <2>2, <3>1 DEF Unmatched, Handled
      <3>2. CASE FailedEvent(i)
        BY <2>2, <3>2 DEF FailedEvent, Handled
      <3>3. CASE Adopt(i) \/ Capture(i) \/ Fail(i)
        BY <2>2, <3>3 DEF Adopt, Capture, Fail
      <3> QED BY <1>7, <3>1, <3>2, <3>3
    <2> QED BY <2>1, <2>2 DEF QuietMoney
  <1>8. ASSUME NEW a \in Rows, Expire(a) PROVE QuietMoney
    BY <1>8 DEF Expire, ledger, QuietMoney
  <1>9. ASSUME SaveCard \/ UNCHANGED vars PROVE QuietMoney
    BY <1>9 DEF SaveCard, vars, ledger, QuietMoney
  <1> QED BY <1>1, <1>2, <1>3, <1>4, <1>5, <1>6, <1>7, <1>8, <1>9 DEF Next, Caller, Webhook

-----------------------------------------------------------------------------
(* The theorems *)

LEMMA InvInit == Init => Inv
  <1> SUFFICES ASSUME Init PROVE Inv
    OBVIOUS
  <1>1. TInv
    BY TypesInit
  <1>2. Keyed /\ Linked /\ Truthful /\ Money
    BY DEF Init, NoRow, Keyed, Linked, Truthful, Money, OneIntentPerKey, PaidIsBacked, CaptureIsAccounted
  <1>3. ASSUME NEW c \in Callers PROVE Informed(call[c], rows, key, intents, expired)
    <2>1. Idle.pc = "idle" /\ Idle.row = None /\ Idle.told = "none" /\ call[c] = Idle
      BY DEF Init, Idle
    <2> QED BY <2>1, IdleInformed
  <1> QED BY <1>1, <1>2, <1>3 DEF Inv

LEMMA InvStep == Inv /\ [Next]_vars => Inv'
  <1> SUFFICES ASSUME Inv, [Next]_vars PROVE Inv'
    OBVIOUS
  <1>1. TInv'
    BY TypeStep DEF Inv
  <1>2. RowMoves /\ IntentMoves
    BY RowsStep, IntentsStep
  <1>3. Keyed' /\ Linked' /\ Truthful' /\ Money'
    BY <1>1, <1>2, KeyedStep, LinkedStep, TruthfulStep, MoneyStep
  <1>4. \A c \in Callers : Informed(call'[c], rows', key', intents', expired')
    BY <1>2, InformedStep
  <1> QED BY <1>1, <1>3, <1>4 DEF Inv

LEMMA Invariant == Spec => []Inv
  BY InvInit, InvStep, PTL DEF Spec

\* Stripe makes one charge of an attempt, however often its key is sent.
THEOREM OneCharge == Spec => []OneIntentPerKey
  <1>1. Inv => OneIntentPerKey
    BY DEF Inv, Keyed
  <1> QED BY <1>1, Invariant, PTL

\* A paid booking has a capture behind it that nothing hands back.
THEOREM PaidStands == Spec => []PaidIsBacked
  <1>1. Inv => PaidIsBacked
    BY DEF Inv, Money
  <1> QED BY <1>1, Invariant, PTL

\* No capture is lost or kept twice in silence.
THEOREM CapturesAccounted == Spec => []CaptureIsAccounted
  <1>1. Inv => CaptureIsAccounted
    BY DEF Inv, Money
  <1> QED BY <1>1, Invariant, PTL

\* No late or repeated answer takes a capture off the ledger.
THEOREM CapturedStays == Spec => CapturedStaysCaptured
  <1>1. Inv /\ [Next]_vars =>
          [\A a \in Rows : rows[a].status = "SUCCEEDED" =>
             rows'[a].status = "SUCCEEDED" /\ rows'[a].intent = rows[a].intent]_vars
    <2> SUFFICES ASSUME Inv, [Next]_vars, NEW a \in Rows, rows[a].status = "SUCCEEDED"
                 PROVE  rows'[a].status = "SUCCEEDED" /\ rows'[a].intent = rows[a].intent
      OBVIOUS
    <2>1. rows[a].intent # None
      BY SavedCardAssumption DEF Inv, TInv, TypedRow
    <2> QED BY <2>1, RowsStep DEF RowMoves, Moved
  <1> QED BY <1>1, Invariant, PTL DEF Spec, CapturedStaysCaptured

-----------------------------------------------------------------------------
(* Every step is a step of the books, or is not seen there *)

\* What is captured or awaited is so of an intent.
LEMMA OneByOne ==
  /\ \A i : i \in Captured <=> i \in Intents /\ intents[i] = "succeeded"
  /\ \A i : i \in Captured' <=> i \in Intents /\ intents'[i] = "succeeded"
  /\ \A i : i \in Awaited <=> i \in Intents /\ <<i, "succeeded">> \in news
  /\ \A i : i \in Awaited' <=> i \in Intents /\ <<i, "succeeded">> \in news'
  BY DEF Captured, Awaited

\* What the settled row keeps is kept while the booking stays paid, or unpaid.
LEMMA KeptStays ==
  ASSUME Inv, RowMoves, IntentMoves, settler' = settler, booking' = "PAID" <=> booking = "PAID"
  PROVE  Kept' = Kept
  <1>1. CASE booking = "PAID"
    BY <1>1, SettlerStays DEF Kept
  <1>2. CASE booking # "PAID"
    BY <1>2 DEF Kept
  <1> QED BY <1>1, <1>2

\* A step that captures nothing, settles nothing and handles no capture's event.
Unseen ==
  /\ Stage' = Stage /\ (booking' = "PAID" <=> booking = "PAID")
  /\ UNCHANGED <<settler, returned, reported>>
  /\ \A i \in Intents : intents'[i] = "succeeded" <=> intents[i] = "succeeded"
  /\ \A i \in Intents : <<i, "succeeded">> \in news' <=> <<i, "succeeded">> \in news

LEMMA BooksRest ==
  ASSUME Inv, RowMoves, IntentMoves, Unseen
  PROVE  UNCHANGED Books!books
  <1>1. Captured' = Captured
    BY OneByOne DEF Unseen
  <1>2. Awaited' = Awaited
    BY OneByOne DEF Unseen
  <1>3. Kept' = Kept
    BY KeptStays DEF Unseen
  <1> QED BY <1>1, <1>2, <1>3 DEF Unseen, Books!books

\* Stripe captures an intent, at once or later.
LEMMA BooksCapture ==
  ASSUME Inv, RowMoves, IntentMoves, NEW i \in Intents,
         UNCHANGED <<booking, settler, returned, reported>>,
         intents[i] # "succeeded", intents' = [intents EXCEPT ![i] = "succeeded"],
         news' = news \cup {<<i, "succeeded">>}
  PROVE  Books!Capture(i)
  <1>1. \A j \in Intents : intents'[j] = "succeeded" <=> intents[j] = "succeeded" \/ j = i
    BY DEF Inv, TInv, TypeOK
  <1>2. Captured' = Captured \cup {i}
    BY <1>1, OneByOne
  <1>3. Awaited' = Awaited \cup {i}
    BY OneByOne
  <1>4. i \notin Captured
    BY OneByOne
  <1>5. Kept' = Kept
    BY KeptStays
  <1> QED BY <1>2, <1>3, <1>4, <1>5 DEF Books!Capture, Stage

\* The webhook of a capture may have been its last.
LEMMA BooksHandled ==
  ASSUME NEW i \in Intents, news' \in {news, news \ {<<i, "succeeded">>}}
  PROVE  Books!Handled(i)
  <1>1. CASE news' = news
    BY <1>1 DEF Awaited, Books!Handled
  <1>2. CASE news' = news \ {<<i, "succeeded">>}
    <2>1. Awaited' = Awaited \ {i}
      BY <1>2, OneByOne
    <2> QED BY <2>1 DEF Books!Handled
  <1> QED BY <1>1, <1>2

\* A capture is settled, from whichever door.
LEMMA BooksSettle ==
  ASSUME Inv, RowMoves, IntentMoves,
         NEW i \in Intents, NEW a \in UpsertAt(rows, i), intents[i] = "succeeded",
         \/ Settles(i, a)
         \/ /\ booking = "CANCELLED"
            /\ rows' = Upserted(rows, a, i)
            /\ returned' = returned \cup {i}
            /\ UNCHANGED <<booking, settler>>,
         UNCHANGED <<reported, intents>>, news' \in {news, news \ {<<i, "succeeded">>}}
  PROVE  Books!Next
  <1>0. a \in Rows
    BY DEF UpsertAt, RowOf, Fresh
  <1>1. rows'[a].intent = i
    <2>1. rows' = Upserted(rows, a, i)
      BY DEF Settles
    <2>2. rows'[a] = [status |-> "SUCCEEDED", card |-> on[i], intent |-> i]
      BY <1>0, <2>1 DEF Upserted, Inv, TInv
    <2> QED BY <2>2
  <1>2. Captured' = Captured /\ i \in Captured
    BY OneByOne DEF Captured
  <1>3. Books!Handled(i)
    BY BooksHandled
  <1>4. CASE /\ booking \in {"PENDING", "CONFIRMED"}
             /\ booking' = "PAID"
             /\ settler' = a
             /\ UNCHANGED returned
    <2>1. Kept' = {i} /\ Stage = "open" /\ Stage' = "paid"
      BY <1>1, <1>4 DEF Kept, Stage
    <2>2. Books!Pay(i)
      BY <1>2, <1>3, <1>4, <2>1 DEF Books!Pay
    <2> QED BY <2>2 DEF Books!Next
  <1>5. CASE /\ booking \in {"PENDING", "CONFIRMED"}
             /\ booking' = "CANCELLED"
             /\ returned' = returned \cup {i}
             /\ UNCHANGED settler
    <2>1. Kept' = Kept /\ Stage = "open" /\ Stage' = "void"
      BY <1>5 DEF Kept, Stage
    <2>2. returned' = {i}
      BY <1>5 DEF Inv, Money
    <2>3. Awaited' \in {Awaited, Awaited \ {i}}
      BY <1>3 DEF Books!Handled
    <2>4. Awaited \ returned' \subseteq Awaited' /\ Awaited' \subseteq Awaited
      BY <2>2, <2>3
    <2>5. Books!Void
      BY <1>2, <2>1, <2>2, <2>4 DEF Books!Void
    <2> QED BY <2>5 DEF Books!Next
  <1>6. CASE /\ booking = "PAID"
             /\ returned' = IF HandsBack(a) THEN returned \cup {i} ELSE returned
             /\ UNCHANGED <<booking, settler>>
    <2>1. Kept' = Kept /\ Kept = {rows[settler].intent} /\ Stage # "open" /\ Stage' = Stage
      BY <1>6, KeptStays DEF Kept, Stage
    <2>2. CASE a = settler
      <3>1. i \in Kept
        BY <1>1, <1>6, <2>1, <2>2, SettlerStays
      <3>2. returned' = returned
        BY <1>6, <2>2 DEF HandsBack
      <3>3. Books!Confirm(i)
        BY <1>2, <1>3, <2>1, <3>1, <3>2 DEF Books!Confirm
      <3> QED BY <3>3 DEF Books!Next
    <2>3. CASE a # settler
      <3>1. i # rows[settler].intent
        <4>1. rows'[settler].intent = rows[settler].intent /\ settler \in Rows
          BY <1>6, SettlerStays
        <4>2. i # None
          BY SavedCardAssumption
        <4> QED BY <1>0, <1>1, <2>3, <4>1, <4>2 DEF RowMoves
      <3>2. returned' = returned \cup {i}
        BY <1>6, <2>3 DEF HandsBack
      <3>3. Books!Return(i)
        BY <1>2, <1>3, <2>1, <3>1, <3>2 DEF Books!Return
      <3> QED BY <3>3 DEF Books!Next
    <2> QED BY <2>2, <2>3
  <1>7. CASE /\ booking = "CANCELLED"
             /\ returned' = returned \cup {i}
             /\ UNCHANGED <<booking, settler>>
    <2>1. Kept = {} /\ Kept' = {} /\ Stage = "void" /\ Stage' = "void"
      BY <1>7 DEF Kept, Stage
    <2>2. Books!Return(i)
      BY <1>2, <1>3, <1>7, <2>1 DEF Books!Return
    <2> QED BY <2>2 DEF Books!Next
  <1> QED BY <1>4, <1>5, <1>6, <1>7 DEF Settles

\* A cancel hands back what the ledger shows as taken.
LEMMA BooksCancel ==
  ASSUME Inv, CancelBooking
  PROVE  Books!Void
  <1>1. Kept' = Kept /\ Stage = "open" /\ Stage' = "void"
    BY DEF CancelBooking, Kept, Stage
  <1>2. UNCHANGED <<intents, news, reported>>
    BY DEF CancelBooking, stripe
  <1>3. Captured' = Captured /\ Awaited' = Awaited
    BY <1>2 DEF Captured, Awaited
  <1>4. returned' \subseteq Captured
    <2>1. returned = {}
      BY DEF CancelBooking, Inv, Money
    <2>2. ASSUME NEW a \in Rows, rows[a].status = "SUCCEEDED" PROVE rows[a].intent \in Captured
      BY <2>2, OneByOne DEF Inv, TInv, TypedRow, Truthful
    <2> QED BY <2>1, <2>2 DEF CancelBooking
  <1> QED BY <1>1, <1>2, <1>3, <1>4 DEF Books!Void

\* A capture no row names is none that paid.
LEMMA BooksReport ==
  ASSUME Inv, NEW i \in Intents, Unmatched(i)
  PROVE  Books!Report(i)
  <1>1. /\ UNCHANGED <<booking, settler, rows, returned, intents>>
        /\ <<i, "succeeded">> \in news /\ reported' = reported \cup {i}
        /\ news' \in {news, news \ {<<i, "succeeded">>}} /\ RowOf(rows, i) = {}
    BY DEF Unmatched, Handled, stripe
  <1>2. Captured' = Captured /\ Kept' = Kept /\ Stage' = Stage
    BY <1>1 DEF Captured, Kept, Stage
  <1>3. i \in Awaited /\ Books!Handled(i)
    BY <1>1, OneByOne, BooksHandled
  <1>4. i \notin Kept
    BY <1>1 DEF Kept, RowOf, Inv, Money, PaidIsBacked
  <1> QED BY <1>1, <1>2, <1>3, <1>4 DEF Books!Report

\* The steps of a caller other than its charge and its mark are not seen.
LEMMA CallerUnseen ==
  ASSUME Inv, NEW c \in Callers,
         \/ Claim(c) \/ CancelSuperseded(c) \/ Revive(c) \/ Retrieve(c) \/ ChargeAgain(c)
         \/ ChargeRefused(c) \/ FailAttempt(c) \/ Settle(c)
         \/ RecordAndRelease(c) \/ ReleaseClaim(c) \/ Retire(c) \/ Stop(c)
  PROVE  Unseen
  <1>1. UNCHANGED <<settler, returned, reported>>
    BY DEF Claim, CancelSuperseded, Revive, Retrieve, ChargeAgain, ChargeRefused, FailAttempt,
           Settle, RecordAndRelease, ReleaseClaim, Retire, Stop, ledger
  <1>2. \/ booking' = booking
        \/ booking \in {"PENDING", "CONFIRMED"} /\ booking' \in {"PENDING", "CONFIRMED"}
    BY DEF Claim, CancelSuperseded, Revive, Retrieve, ChargeAgain, ChargeRefused, FailAttempt,
           Settle, RecordAndRelease, ReleaseClaim, Retire, Stop, Released
  <1>3. Stage' = Stage /\ (booking' = "PAID" <=> booking = "PAID")
    BY <1>2 DEF Stage
  <1>4. CASE CancelSuperseded(c)
    <2>1. PICK i \in call[c].stale :
            \/ /\ intents[i] \in {"action", "failed"}
               /\ intents' = [intents EXCEPT ![i] = "canceled"]
               /\ news' = news \cup {<<i, "failed">>}
            \/ UNCHANGED <<intents, news>>
      BY <1>4 DEF CancelSuperseded
    <2>2. intents \in [Intents -> {"none", "processing", "action", "failed", "canceled", "succeeded"}]
      BY DEF Inv, TInv, TypeOK
    <2>3. \A j \in Intents : intents'[j] = "succeeded" <=> intents[j] = "succeeded"
      BY <2>1, <2>2
    <2>4. \A j \in Intents : <<j, "succeeded">> \in news' <=> <<j, "succeeded">> \in news
      BY <2>1
    <2> QED BY <1>1, <1>3, <2>3, <2>4 DEF Unseen
  <1>5. CASE UNCHANGED <<intents, news>>
    BY <1>1, <1>3, <1>5 DEF Unseen
  <1> QED BY <1>4, <1>5 DEF Claim, Revive, Retrieve, ChargeAgain, ChargeRefused, FailAttempt,
             Settle, RecordAndRelease, ReleaseClaim, Retire, Stop, stripe

LEMMA ChargeBooks ==
  ASSUME Inv, RowMoves, IntentMoves, NEW c \in Callers, Charge(c)
  PROVE  [Books!Next]_(Books!books)
  <1>1. PICK i \in Intents, status \in {"succeeded", "processing", "action", "declined"} :
          /\ intents[i] = "none"
          /\ intents' = [intents EXCEPT ![i] = IF status = "declined" THEN "failed" ELSE status]
          /\ news' = CASE status = "succeeded" -> news \cup {<<i, "succeeded">>}
                       [] status = "declined" -> news \cup {<<i, "failed">>}
                       [] OTHER -> news
    BY DEF Charge
  <1>2. UNCHANGED <<booking, settler, returned, reported>>
    BY DEF Charge, ledger
  <1>3. intents \in [Intents -> {"none", "processing", "action", "failed", "canceled", "succeeded"}]
    BY DEF Inv, TInv, TypeOK
  <1>4. CASE status = "succeeded"
    <2>1. Books!Capture(i)
      BY <1>1, <1>2, <1>4, BooksCapture
    <2> QED BY <2>1 DEF Books!Next
  <1>5. CASE status # "succeeded"
    <2>1. \A j \in Intents : intents'[j] = "succeeded" <=> intents[j] = "succeeded"
      BY <1>1, <1>3, <1>5
    <2>2. \A j \in Intents : <<j, "succeeded">> \in news' <=> <<j, "succeeded">> \in news
      BY <1>1, <1>5
    <2>3. Unseen
      BY <1>2, <2>1, <2>2 DEF Unseen, Stage
    <2> QED BY <2>3, BooksRest
  <1> QED BY <1>4, <1>5

\* The webhooks of failed charges, an adoption and a failure at Stripe are not seen.
LEMMA EventUnseen ==
  ASSUME Inv, NEW i \in Intents, Adopt(i) \/ FailedEvent(i) \/ Fail(i)
  PROVE  Unseen
  <1>1. UNCHANGED <<booking, settler, returned, reported>>
    BY DEF Adopt, FailedEvent, Fail, ledger
  <1>2. \A j \in Intents : intents'[j] = "succeeded" <=> intents[j] = "succeeded"
    <2>1. intents \in [Intents -> {"none", "processing", "action", "failed", "canceled", "succeeded"}]
      BY DEF Inv, TInv, TypeOK
    <2>2. CASE Fail(i)
      BY <2>1, <2>2 DEF Fail
    <2>3. CASE Adopt(i) \/ FailedEvent(i)
      BY <2>3 DEF Adopt, FailedEvent, stripe
    <2> QED BY <2>2, <2>3
  <1>3. \A j \in Intents : <<j, "succeeded">> \in news' <=> <<j, "succeeded">> \in news
    BY DEF Adopt, FailedEvent, Fail, Handled
  <1> QED BY <1>1, <1>2, <1>3 DEF Unseen, Stage

LEMMA BooksStep == Inv /\ [Next]_vars => [Books!Next]_(Books!books)
  <1> SUFFICES ASSUME Inv, [Next]_vars PROVE [Books!Next]_(Books!books)
    OBVIOUS
  <1>0. RowMoves /\ IntentMoves
    BY RowsStep, IntentsStep
  <1>1. ASSUME NEW c \in Callers, Mark(c) PROVE Books!Next
    <2>1. call[c].pc = "marking" /\ call[c].intent \in Intents
      BY <1>1, CallTyped DEF Mark, CallOK, Inv
    <2>2. intents[call[c].intent] = "succeeded"
      BY <2>1 DEF Inv, Informed
    <2>3. PICK a \in UpsertAt(rows, call[c].intent) : Settles(call[c].intent, a)
      BY <1>1 DEF Mark
    <2>4. UNCHANGED <<reported, intents, news>>
      BY <1>1 DEF Mark, stripe
    <2> QED BY <1>0, <2>1, <2>2, <2>3, <2>4, BooksSettle
  <1>2. ASSUME NEW i \in Intents, SucceededEvent(i) PROVE Books!Next
    <2>1. PICK a \in RowOf(rows, i) :
            \/ Settles(i, a)
            \/ /\ booking = "CANCELLED"
               /\ rows' = Upserted(rows, a, i)
               /\ returned' = returned \cup {i}
               /\ UNCHANGED <<booking, settler>>
      BY <1>2 DEF SucceededEvent
    <2>2. a \in UpsertAt(rows, i)
      BY DEF UpsertAt
    <2>3. /\ intents[i] = "succeeded" /\ UNCHANGED <<reported, intents>>
          /\ news' \in {news, news \ {<<i, "succeeded">>}}
      BY <1>2 DEF SucceededEvent, Handled, Inv, Truthful, stripe
    <2> QED BY <1>0, <2>1, <2>2, <2>3, BooksSettle
  <1>3. CASE CancelBooking
    BY <1>3, BooksCancel DEF Books!Next
  <1>4. CASE Unseen
    BY <1>0, <1>4, BooksRest
  <1>5. ASSUME NEW c \in Callers, Caller(c), ~Mark(c) PROVE [Books!Next]_(Books!books)
    BY <1>0, <1>4, <1>5, CallerUnseen, ChargeBooks DEF Caller
  <1>6. ASSUME NEW i \in Intents, Capture(i) PROVE Books!Next
    <2>1. /\ UNCHANGED <<booking, settler, returned, reported>>
          /\ intents[i] # "succeeded" /\ intents' = [intents EXCEPT ![i] = "succeeded"]
          /\ news' = news \cup {<<i, "succeeded">>}
      BY <1>6 DEF Capture, ledger
    <2>2. Books!Capture(i)
      BY <1>0, <2>1, BooksCapture
    <2> QED BY <2>2 DEF Books!Next
  <1>7. ASSUME NEW i \in Intents, Unmatched(i) PROVE Books!Next
    BY <1>7, BooksReport DEF Books!Next
  <1>8. ASSUME NEW i \in Intents, Adopt(i) \/ FailedEvent(i) \/ Fail(i)
        PROVE  [Books!Next]_(Books!books)
    BY <1>4, <1>8, EventUnseen
  <1>9. ASSUME NEW a \in Rows, Expire(a) PROVE Unseen
    BY <1>9 DEF Expire, ledger, stripe, Unseen, Stage
  <1>10. ASSUME SaveCard \/ UNCHANGED vars PROVE Unseen
    BY <1>10 DEF SaveCard, vars, ledger, stripe, Unseen, Stage
  <1> QED BY <1>1, <1>2, <1>3, <1>4, <1>5, <1>6, <1>7, <1>8, <1>9, <1>10 DEF Next, Webhook

LEMMA BooksInit == Init => Books!Init
  <1> SUFFICES ASSUME Init PROVE Books!Init
    OBVIOUS
  <1>1. Captured = {} /\ Awaited = {}
    BY OneByOne DEF Init
  <1> QED BY <1>1 DEF Init, Books!Init, Stage, Kept

\* The charge of a saved card implements the books of its captures: for any number of
\* callers, rows, intents and cards, one capture is kept, for good, whatever comes
\* late, twice or out of order goes back, and no event is let go unaccounted.
THEOREM ChargeImplementsBooks == Spec => BooksSpec
  BY BooksInit, BooksStep, Invariant, PTL DEF Spec, BooksSpec, Books!Spec
=============================================================================
