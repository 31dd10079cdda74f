--------------------------- MODULE XeroTokenProofs ---------------------------
(***************************************************************************)
(* For any number of calls and processes and any lease: a save only moves  *)
(* the stored tokens on, in whatever order the claims commit.  As long as  *)
(* claims reach the database in the order they read the clock, no token is *)
(* spent by two calls within their leases, the lease fences alone keep a   *)
(* save from overwriting, and the stored token stays spendable but for a   *)
(* cause.                                                                  *)
(***************************************************************************)
EXTENDS XeroTokenLease, TLAPS

InFlight == {"ready", "spent", "releasing"}
CallType == [pc : Steps, at : Nat, row : Nat, token : Nat, new : Nat]

\* Every id and token is one that was issued.
Numbered ==
  /\ row.id <= issued /\ store.token <= issued
  /\ \A c \in Calls :
       /\ call[c].token <= issued /\ call[c].row <= issued /\ call[c].new <= issued
       /\ call[c].pc \in InFlight => call[c].row # None /\ call[c].token # None

\* The pair a call has yet to save is live, and nobody has read it.
NewIsUnread ==
  \A c \in Calls : call[c].pc = "spent" =>
    /\ call[c].new \in live /\ call[c].new # store.token
    /\ \A d \in Calls : call[d].pc \in InFlight => call[d].token # call[c].new
    /\ \A d \in Calls : call[d].pc = "spent" /\ d # c => call[d].new # call[c].new

\* Xero numbers its tokens as it issues them.
Ascends == \A c \in Calls : call[c].pc = "spent" => call[c].token < call[c].new

\* What holds of the tokens, in whatever order the claims commit.
Tokens == TypeOK /\ Numbered /\ NewIsUnread /\ Ascends

\* A call that claimed with the tokens that are stored claimed on the row that is there.
SameRow ==
  \A c \in Calls :
    call[c].pc \in InFlight /\ call[c].token = store.token => call[c].row = row.id

\* Claims commit in the order of their clock readings.
InOrder ==
  /\ \A c \in Calls : call[c].pc \in InFlight \cup {"claiming"} => call[c].at < now
  /\ \A c, d \in Calls : /\ call[c].pc \in InFlight /\ call[d].pc = "claiming"
                         => call[c].at < call[d].at
  /\ \A c, d \in Calls : call[c].pc = "claiming" /\ call[d].pc = "claiming" => c = d

\* A refresh within its lease has both halves of it, and is the latest.
WholeLease ==
  \A c \in Calls : Holds(c) =>
    /\ row.lease = Until(c) /\ conn.lease = Until(c)
    /\ \A d \in Calls : call[d].pc \in InFlight /\ d # c => call[d].at < call[c].at

\* A lease on the row a call claimed is its own, with the tokens it read, or a later one.
LeaseKnown ==
  \A c \in Calls :
    call[c].pc \in InFlight /\ row.id = call[c].row /\ row.lease # None =>
      /\ Until(c) <= row.lease
      /\ row.lease = Until(c) /\ call[c].pc # "releasing" => call[c].token = store.token

Leases == Tokens /\ SameRow /\ InOrder /\ WholeLease /\ LeaseKnown

USE DEF None, InFlight

-----------------------------------------------------------------------------
(* The tokens: one lemma for each action *)

LEMMA CallTyped ==
  ASSUME Tokens, NEW c \in Calls
  PROVE  /\ call[c] \in CallType
         /\ now \in Nat /\ row.id \in Nat /\ store.token \in Nat
         /\ "due" \in Steps /\ "claiming" \in Steps /\ "ready" \in Steps
  BY DEF Tokens, TypeOK, CallType, Steps

LEMMA AtChanges ==
  ASSUME NEW k \in CallType, NEW pc \in Steps, NEW n \in Nat
  PROVE  [k EXCEPT !.pc = pc, !.at = n] \in CallType
  <1> DEFINE r == [k EXCEPT !.pc = pc]
  <1>1. r \in CallType
    BY DEF CallType
  <1> HIDE DEF r
  <1>2. [r EXCEPT !.at = n] \in CallType
    BY <1>1 DEF CallType
  <1> QED BY <1>2 DEF r

LEMMA TokenChanges ==
  ASSUME NEW k \in CallType, NEW pc \in Steps, NEW n \in Nat
  PROVE  [k EXCEPT !.pc = pc, !.token = n] \in CallType
  <1> DEFINE r == [k EXCEPT !.pc = pc]
  <1>1. r \in CallType
    BY DEF CallType
  <1> HIDE DEF r
  <1>2. [r EXCEPT !.token = n] \in CallType
    BY <1>1 DEF CallType
  <1> QED BY <1>2 DEF r

LEMMA RowTokenChanges ==
  ASSUME NEW k \in CallType, NEW pc \in Steps, NEW n \in Nat, NEW m \in Nat
  PROVE  [k EXCEPT !.pc = pc, !.row = n, !.token = m] \in CallType
  <1> DEFINE r == [k EXCEPT !.pc = pc]
             q == [r EXCEPT !.row = n]
  <1>1. r \in CallType
    BY DEF CallType
  <1> HIDE DEF r
  <1>2. q \in CallType
    BY <1>1 DEF CallType
  <1> HIDE DEF q
  <1>3. [q EXCEPT !.token = m] \in CallType
    BY <1>2 DEF CallType
  <1> QED BY <1>3 DEF r, q

LEMMA LoadTokens ==
  ASSUME Tokens, NEW c \in Calls, Load(c)
  PROVE  Tokens'
  <1>1. TypeOK'
    <2>1. call' = [call EXCEPT ![c] = [call[c] EXCEPT !.pc = "due", !.token = store.token]]
      BY DEF Load, Tokens, TypeOK
    <2>2. [call[c] EXCEPT !.pc = "due", !.token = store.token] \in CallType
      BY CallTyped, TokenChanges, Zenon
    <2> QED BY <2>1, <2>2 DEF Load, rows, xero, Tokens, TypeOK, CallType
  <1>2. Numbered'
    BY LeaseAssumption DEF Load, rows, xero, Tokens, TypeOK, Numbered
  <1>3. NewIsUnread'
    BY LeaseAssumption DEF Load, rows, xero, Tokens, TypeOK, Numbered, NewIsUnread
  <1>4. Ascends'
    BY LeaseAssumption DEF Load, rows, xero, Tokens, TypeOK, Numbered, Ascends
  <1> QED BY <1>1, <1>2, <1>3, <1>4 DEF Tokens

LEMMA JoinTokens ==
  ASSUME Tokens, NEW c \in Calls, Join(c)
  PROVE  Tokens'
  <1>1. TypeOK'
    BY LeaseAssumption DEF Join, End, Idle, rows, xero, Steps, Tokens, TypeOK, Numbered
  <1>2. Numbered'
    BY LeaseAssumption DEF Join, End, Idle, rows, xero, Tokens, TypeOK, Numbered
  <1>3. NewIsUnread'
    BY LeaseAssumption DEF Join, End, Idle, rows, xero, Tokens, TypeOK, Numbered, NewIsUnread
  <1>4. Ascends'
    BY LeaseAssumption DEF Join, End, Idle, rows, xero, Tokens, TypeOK, Numbered, Ascends
  <1> QED BY <1>1, <1>2, <1>3, <1>4 DEF Tokens

LEMMA ReadClockTokens ==
  ASSUME Tokens, NEW c \in Calls, ReadClock(c)
  PROVE  Tokens'
  <1>1. TypeOK'
    <2>1. call' = [call EXCEPT ![c] = [call[c] EXCEPT !.pc = "claiming", !.at = now]]
      BY DEF ReadClock, Tokens, TypeOK
    <2>2. [call[c] EXCEPT !.pc = "claiming", !.at = now] \in CallType
      BY CallTyped, AtChanges, Zenon
    <2> QED BY <2>1, <2>2 DEF ReadClock, rows, xero, Tokens, TypeOK, CallType
  <1>2. Numbered'
    BY LeaseAssumption DEF ReadClock, rows, xero, Tokens, TypeOK, Numbered
  <1>3. NewIsUnread'
    BY LeaseAssumption DEF ReadClock, rows, xero, Tokens, TypeOK, Numbered, NewIsUnread
  <1>4. Ascends'
    BY LeaseAssumption DEF ReadClock, rows, xero, Tokens, TypeOK, Numbered, Ascends
  <1> QED BY <1>1, <1>2, <1>3, <1>4 DEF Tokens

LEMMA ClaimTokens ==
  ASSUME Tokens, NEW c \in Calls, Claim(c)
  PROVE  Tokens'
  <1>1. TypeOK'
    <2>1. Claimed(c) \in CallType
      BY CallTyped, RowTokenChanges, Zenon DEF Claimed
    <2>2. Until(c) \in Nat
      BY LeaseAssumption DEF Until, Tokens, TypeOK
    <2>3. row' \in [id : Nat, lease : Nat] /\ row'.id = row.id
      BY <2>2 DEF Claim, TakeLeases, Tokens, TypeOK
    <2>4. conn' \in [on : BOOLEAN, lease : Nat] /\ conn'.on = conn.on
      BY <2>2 DEF Claim, TakeLeases, Tokens, TypeOK
    <2>5. call' \in [Calls -> CallType] /\ flight' \in [Processes -> Calls \cup {NoCall}]
      BY <2>1, LeaseAssumption DEF Claim, Tokens, TypeOK, CallType
    <2> QED BY <2>3, <2>4, <2>5 DEF Claim, xero, Tokens, TypeOK, CallType
  <1>2. Numbered'
    BY LeaseAssumption DEF Claim, TakeLeases, IsFree, Claimed, xero, Tokens, TypeOK, Numbered
  <1>3. NewIsUnread'
    BY LeaseAssumption DEF Claim, TakeLeases, IsFree, Claimed, xero, Tokens, TypeOK, Numbered,
      NewIsUnread
  <1>4. Ascends'
    BY LeaseAssumption DEF Claim, TakeLeases, IsFree, Claimed, xero, Tokens, TypeOK, Numbered,
      Ascends
  <1> QED BY <1>1, <1>2, <1>3, <1>4 DEF Tokens

LEMMA ClaimUnansweredTokens ==
  ASSUME Tokens, NEW c \in Calls, ClaimUnanswered(c)
  PROVE  Tokens'
  <1>1. TypeOK'
    <2>1. Until(c) \in Nat
      BY LeaseAssumption DEF Until, Tokens, TypeOK
    <2>2. row' \in [id : Nat, lease : Nat] /\ row'.id = row.id
      BY <2>1 DEF ClaimUnanswered, TakeLeases, Tokens, TypeOK
    <2>3. conn' \in [on : BOOLEAN, lease : Nat] /\ conn'.on = conn.on
      BY <2>1 DEF ClaimUnanswered, TakeLeases, Tokens, TypeOK
    <2>4. call' \in [Calls -> CallType]
      BY DEF ClaimUnanswered, End, Idle, Steps, Tokens, TypeOK, CallType
    <2> QED BY <2>2, <2>3, <2>4 DEF ClaimUnanswered, xero, Tokens, TypeOK, CallType
  <1>2. Numbered'
    BY LeaseAssumption DEF ClaimUnanswered, TakeLeases, IsFree, End, Idle, xero, Tokens, TypeOK,
      Numbered
  <1>3. NewIsUnread'
    BY LeaseAssumption DEF ClaimUnanswered, TakeLeases, IsFree, End, Idle, xero, Tokens, TypeOK,
      Numbered, NewIsUnread
  <1>4. Ascends'
    BY LeaseAssumption DEF ClaimUnanswered, TakeLeases, IsFree, End, Idle, xero, Tokens, TypeOK,
      Numbered, Ascends
  <1> QED BY <1>1, <1>2, <1>3, <1>4 DEF Tokens

LEMMA LoseClaimTokens ==
  ASSUME Tokens, NEW c \in Calls, LoseClaim(c)
  PROVE  Tokens'
  <1>1. TypeOK'
    BY LeaseAssumption DEF LoseClaim, IsFree, Idle, rows, xero, Steps, Tokens, TypeOK, Numbered
  <1>2. Numbered'
    BY LeaseAssumption DEF LoseClaim, IsFree, Idle, rows, xero, Tokens, TypeOK, Numbered
  <1>3. NewIsUnread'
    BY LeaseAssumption DEF LoseClaim, IsFree, Idle, rows, xero, Tokens, TypeOK, Numbered,
      NewIsUnread
  <1>4. Ascends'
    BY LeaseAssumption DEF LoseClaim, IsFree, Idle, rows, xero, Tokens, TypeOK, Numbered, Ascends
  <1> QED BY <1>1, <1>2, <1>3, <1>4 DEF Tokens

LEMMA ClaimFailsTokens ==
  ASSUME Tokens, NEW c \in Calls, ClaimFails(c)
  PROVE  Tokens'
  <1>1. TypeOK'
    BY LeaseAssumption DEF ClaimFails, End, Idle, rows, xero, Steps, Tokens, TypeOK, Numbered
  <1>2. Numbered'
    BY LeaseAssumption DEF ClaimFails, End, Idle, rows, xero, Tokens, TypeOK, Numbered
  <1>3. NewIsUnread'
    BY LeaseAssumption DEF ClaimFails, End, Idle, rows, xero, Tokens, TypeOK, Numbered, NewIsUnread
  <1>4. Ascends'
    BY LeaseAssumption DEF ClaimFails, End, Idle, rows, xero, Tokens, TypeOK, Numbered, Ascends
  <1> QED BY <1>1, <1>2, <1>3, <1>4 DEF Tokens

LEMMA PollTokens ==
  ASSUME Tokens, NEW c \in Calls, Poll(c)
  PROVE  Tokens'
  <1>1. TypeOK'
    BY LeaseAssumption DEF Poll, IsFree, End, Idle, rows, xero, Steps, Tokens, TypeOK, Numbered
  <1>2. Numbered'
    BY LeaseAssumption DEF Poll, IsFree, End, Idle, rows, xero, Tokens, TypeOK, Numbered
  <1>3. NewIsUnread'
    BY LeaseAssumption DEF Poll, IsFree, End, Idle, rows, xero, Tokens, TypeOK, Numbered,
      NewIsUnread
  <1>4. Ascends'
    BY LeaseAssumption DEF Poll, IsFree, End, Idle, rows, xero, Tokens, TypeOK, Numbered, Ascends
  <1> QED BY <1>1, <1>2, <1>3, <1>4 DEF Tokens

LEMMA GiveUpTokens ==
  ASSUME Tokens, NEW c \in Calls, GiveUp(c)
  PROVE  Tokens'
  <1>1. TypeOK'
    BY LeaseAssumption DEF GiveUp, Step, rows, xero, Steps, Tokens, TypeOK, Numbered
  <1>2. Numbered'
    BY LeaseAssumption DEF GiveUp, Step, rows, xero, Tokens, TypeOK, Numbered
  <1>3. NewIsUnread'
    BY LeaseAssumption DEF GiveUp, Step, rows, xero, Tokens, TypeOK, Numbered, NewIsUnread
  <1>4. Ascends'
    BY LeaseAssumption DEF GiveUp, Step, rows, xero, Tokens, TypeOK, Numbered, Ascends
  <1> QED BY <1>1, <1>2, <1>3, <1>4 DEF Tokens

LEMMA SpendTokens ==
  ASSUME Tokens, NEW c \in Calls, Spend(c)
  PROVE  Tokens'
  <1>1. TypeOK'
    BY LeaseAssumption DEF Spend, Exchange, rows, Steps, Tokens, TypeOK, Numbered
  <1>2. Numbered'
    BY LeaseAssumption DEF Spend, Exchange, rows, Tokens, TypeOK, Numbered
  <1>3. NewIsUnread'
    BY LeaseAssumption DEF Spend, Exchange, rows, Tokens, TypeOK, Numbered, NewIsUnread
  <1>4. Ascends'
    BY LeaseAssumption DEF Spend, Exchange, rows, Tokens, TypeOK, Numbered, Ascends
  <1> QED BY <1>1, <1>2, <1>3, <1>4 DEF Tokens

LEMMA SpendUnansweredTokens ==
  ASSUME Tokens, NEW c \in Calls, SpendUnanswered(c)
  PROVE  Tokens'
  <1>1. TypeOK'
    BY LeaseAssumption DEF SpendUnanswered, Exchange, Step, rows, Steps, Tokens, TypeOK, Numbered
  <1>2. Numbered'
    BY LeaseAssumption DEF SpendUnanswered, Exchange, Step, rows, Tokens, TypeOK, Numbered
  <1>3. NewIsUnread'
    BY LeaseAssumption DEF SpendUnanswered, Exchange, Step, rows, Tokens, TypeOK, Numbered,
      NewIsUnread
  <1>4. Ascends'
    BY LeaseAssumption DEF SpendUnanswered, Exchange, Step, rows, Tokens, TypeOK, Numbered, Ascends
  <1> QED BY <1>1, <1>2, <1>3, <1>4 DEF Tokens

LEMMA RefusedTokens ==
  ASSUME Tokens, NEW c \in Calls, Refused(c)
  PROVE  Tokens'
  <1>1. TypeOK'
    BY LeaseAssumption DEF Refused, Step, rows, xero, Steps, Tokens, TypeOK, Numbered
  <1>2. Numbered'
    BY LeaseAssumption DEF Refused, Step, rows, xero, Tokens, TypeOK, Numbered
  <1>3. NewIsUnread'
    BY LeaseAssumption DEF Refused, Step, rows, xero, Tokens, TypeOK, Numbered, NewIsUnread
  <1>4. Ascends'
    BY LeaseAssumption DEF Refused, Step, rows, xero, Tokens, TypeOK, Numbered, Ascends
  <1> QED BY <1>1, <1>2, <1>3, <1>4 DEF Tokens

LEMMA SaveTokens ==
  ASSUME Tokens, NEW c \in Calls, Save(c)
  PROVE  Tokens'
  <1>1. TypeOK'
    <2>1. row' \in [id : Nat, lease : Nat] /\ row'.id = row.id
      BY DEF Save, Tokens, TypeOK
    <2>2. conn' \in [on : BOOLEAN, lease : Nat] /\ conn'.on = conn.on
      BY DEF Save, Tokens, TypeOK
    <2>3. store' \in [token : Nat, due : Nat] /\ store'.token # None
      <3>1. call[c].new \in Nat /\ now + Life \in Nat /\ call[c].new # None
        BY LeaseAssumption DEF Save, Tokens, NewIsUnread, TypeOK
      <3> QED BY <3>1 DEF Save
    <2>4. call' \in [Calls -> CallType]
      BY DEF Save, Step, Steps, Tokens, TypeOK, CallType
    <2> QED BY <2>1, <2>2, <2>3, <2>4 DEF Save, Fenced, xero, Tokens, TypeOK, CallType
  <1>2. Numbered'
    BY LeaseAssumption DEF Save, Fenced, IsMine, Step, xero, Tokens, TypeOK, Numbered
  <1>3. NewIsUnread'
    BY LeaseAssumption DEF Save, Fenced, IsMine, Step, xero, Tokens, TypeOK, Numbered, NewIsUnread
  <1>4. Ascends'
    BY LeaseAssumption DEF Save, Fenced, IsMine, Step, xero, Tokens, TypeOK, Numbered, Ascends
  <1> QED BY <1>1, <1>2, <1>3, <1>4 DEF Tokens

LEMMA SaveRefusedTokens ==
  ASSUME Tokens, NEW c \in Calls, SaveRefused(c)
  PROVE  Tokens'
  <1>1. TypeOK'
    BY LeaseAssumption DEF SaveRefused, Fenced, IsMine, Step, rows, xero, Steps, Tokens, TypeOK,
      Numbered
  <1>2. Numbered'
    BY LeaseAssumption DEF SaveRefused, Fenced, IsMine, Step, rows, xero, Tokens, TypeOK, Numbered
  <1>3. NewIsUnread'
    BY LeaseAssumption DEF SaveRefused, Fenced, IsMine, Step, rows, xero, Tokens, TypeOK, Numbered,
      NewIsUnread
  <1>4. Ascends'
    BY LeaseAssumption DEF SaveRefused, Fenced, IsMine, Step, rows, xero, Tokens, TypeOK, Numbered,
      Ascends
  <1> QED BY <1>1, <1>2, <1>3, <1>4 DEF Tokens

LEMMA SaveFailsTokens ==
  ASSUME Tokens, NEW c \in Calls, SaveFails(c)
  PROVE  Tokens'
  <1>1. TypeOK'
    BY LeaseAssumption DEF SaveFails, Step, rows, xero, Steps, Tokens, TypeOK, Numbered
  <1>2. Numbered'
    BY LeaseAssumption DEF SaveFails, Step, rows, xero, Tokens, TypeOK, Numbered
  <1>3. NewIsUnread'
    BY LeaseAssumption DEF SaveFails, Step, rows, xero, Tokens, TypeOK, Numbered, NewIsUnread
  <1>4. Ascends'
    BY LeaseAssumption DEF SaveFails, Step, rows, xero, Tokens, TypeOK, Numbered, Ascends
  <1> QED BY <1>1, <1>2, <1>3, <1>4 DEF Tokens

LEMMA ReleaseTokens ==
  ASSUME Tokens, NEW c \in Calls, Release(c)
  PROVE  Tokens'
  <1>1. TypeOK'
    BY LeaseAssumption DEF Release, RowReleased, IsMine, ConnReleased, End, Idle, xero, Steps,
      Tokens, TypeOK, Numbered
  <1>2. Numbered'
    BY LeaseAssumption DEF Release, RowReleased, IsMine, ConnReleased, End, Idle, xero, Tokens,
      TypeOK, Numbered
  <1>3. NewIsUnread'
    BY LeaseAssumption DEF Release, RowReleased, IsMine, ConnReleased, End, Idle, xero, Tokens,
      TypeOK, Numbered, NewIsUnread
  <1>4. Ascends'
    BY LeaseAssumption DEF Release, RowReleased, IsMine, ConnReleased, End, Idle, xero, Tokens,
      TypeOK, Numbered, Ascends
  <1> QED BY <1>1, <1>2, <1>3, <1>4 DEF Tokens

LEMMA ReleaseFailsTokens ==
  ASSUME Tokens, NEW c \in Calls, ReleaseFails(c)
  PROVE  Tokens'
  <1>1. TypeOK'
    BY LeaseAssumption DEF ReleaseFails, End, Idle, rows, xero, Steps, Tokens, TypeOK, Numbered
  <1>2. Numbered'
    BY LeaseAssumption DEF ReleaseFails, End, Idle, rows, xero, Tokens, TypeOK, Numbered
  <1>3. NewIsUnread'
    BY LeaseAssumption DEF ReleaseFails, End, Idle, rows, xero, Tokens, TypeOK, Numbered,
      NewIsUnread
  <1>4. Ascends'
    BY LeaseAssumption DEF ReleaseFails, End, Idle, rows, xero, Tokens, TypeOK, Numbered, Ascends
  <1> QED BY <1>1, <1>2, <1>3, <1>4 DEF Tokens

LEMMA StopTokens ==
  ASSUME Tokens, NEW p \in Processes, Stop(p)
  PROVE  Tokens'
  <1>1. TypeOK'
    <2>1. call' \in [Calls -> CallType]
      BY DEF Stop, Idle, Steps, Tokens, TypeOK, CallType
    <2>2. flight' \in [Processes -> Calls \cup {NoCall}]
      BY DEF Stop, Tokens, TypeOK
    <2>3. broken' \subseteq 1..issued
      <3>1. \A d \in Calls : call[d].pc = "spent" => call[d].token \in 1..issued
        BY DEF Tokens, TypeOK, Numbered
      <3>2. {call[d].token : d \in {e \in Calls : ProcessOf[e] = p /\ call[e].pc = "spent"}}
              \subseteq 1..issued
        BY <3>1
      <3> QED BY <3>2 DEF Stop, Tokens, TypeOK
    <2>4. UNCHANGED <<now, row, conn, store, issued, live>>
      BY DEF Stop, rows, xero
    <2> QED BY <2>1, <2>2, <2>3, <2>4 DEF Tokens, TypeOK, CallType
  <1>2. Numbered'
    BY LeaseAssumption DEF Stop, Idle, rows, xero, Tokens, TypeOK, Numbered
  <1>3. NewIsUnread'
    BY LeaseAssumption DEF Stop, Idle, rows, xero, Tokens, TypeOK, Numbered, NewIsUnread
  <1>4. Ascends'
    BY LeaseAssumption DEF Stop, Idle, rows, xero, Tokens, TypeOK, Numbered, Ascends
  <1> QED BY <1>1, <1>2, <1>3, <1>4 DEF Tokens

LEMMA ConnectTokens ==
  ASSUME Tokens, Connect
  PROVE  Tokens'
  <1>1. TypeOK'
    <2>1. row' \in [id : Nat, lease : Nat] /\ conn' \in [on : BOOLEAN, lease : Nat]
      BY DEF Connect, Tokens, TypeOK
    <2>2. store' \in [token : Nat, due : Nat]
      BY LeaseAssumption DEF Connect, Tokens, TypeOK
    <2>3. live' \subseteq 1..issued' /\ broken' \subseteq 1..issued'
      BY DEF Connect, Tokens, TypeOK
    <2>4. row'.id # None /\ store'.token # None /\ conn'.on
      BY DEF Connect, Tokens, TypeOK
    <2>5. issued' \in Nat /\ UNCHANGED <<now, call, flight>>
      BY DEF Connect, Tokens, TypeOK
    <2> QED BY <2>1, <2>2, <2>3, <2>4, <2>5 DEF Tokens, TypeOK
  <1>2. Numbered'
    BY LeaseAssumption DEF Connect, Tokens, TypeOK, Numbered
  <1>3. NewIsUnread'
    BY LeaseAssumption DEF Connect, Tokens, TypeOK, Numbered, NewIsUnread
  <1>4. Ascends'
    BY LeaseAssumption DEF Connect, Tokens, TypeOK, Numbered, Ascends
  <1> QED BY <1>1, <1>2, <1>3, <1>4 DEF Tokens

LEMMA RevokeTokens ==
  ASSUME Tokens, Revoke
  PROVE  Tokens'
  <1>1. TypeOK'
    <2>1. store.token \in 1..issued
      BY DEF Revoke, Tokens, TypeOK, Numbered
    <2> QED BY <2>1 DEF Revoke, rows, Tokens, TypeOK
  <1>2. Numbered'
    BY LeaseAssumption DEF Revoke, rows, Tokens, TypeOK, Numbered
  <1>3. NewIsUnread'
    BY LeaseAssumption DEF Revoke, rows, Tokens, TypeOK, Numbered, NewIsUnread
  <1>4. Ascends'
    BY LeaseAssumption DEF Revoke, rows, Tokens, TypeOK, Numbered, Ascends
  <1> QED BY <1>1, <1>2, <1>3, <1>4 DEF Tokens

LEMMA DisconnectTokens ==
  ASSUME Tokens, Disconnect
  PROVE  Tokens'
  <1>1. TypeOK'
    <2>1. /\ row' \in [id : Nat, lease : Nat] /\ conn' \in [on : BOOLEAN, lease : Nat]
          /\ store' \in [token : Nat, due : Nat]
      BY DEF Disconnect, Tokens, TypeOK
    <2> QED BY <2>1 DEF Disconnect, xero, Tokens, TypeOK
  <1>2. Numbered'
    BY LeaseAssumption DEF Disconnect, xero, Tokens, TypeOK, Numbered
  <1>3. NewIsUnread'
    BY LeaseAssumption DEF Disconnect, xero, Tokens, TypeOK, Numbered, NewIsUnread
  <1>4. Ascends'
    BY LeaseAssumption DEF Disconnect, xero, Tokens, TypeOK, Numbered, Ascends
  <1> QED BY <1>1, <1>2, <1>3, <1>4 DEF Tokens

LEMMA TickTokens ==
  ASSUME Tokens, Tick
  PROVE  Tokens'
  <1>1. TypeOK'
    BY LeaseAssumption DEF Tick, rows, xero, Steps, Tokens, TypeOK, Numbered
  <1>2. Numbered'
    BY LeaseAssumption DEF Tick, rows, xero, Tokens, TypeOK, Numbered
  <1>3. NewIsUnread'
    BY LeaseAssumption DEF Tick, rows, xero, Tokens, TypeOK, Numbered, NewIsUnread
  <1>4. Ascends'
    BY LeaseAssumption DEF Tick, rows, xero, Tokens, TypeOK, Numbered, Ascends
  <1> QED BY <1>1, <1>2, <1>3, <1>4 DEF Tokens

-----------------------------------------------------------------------------
(* The invariant of the tokens *)

LEMMA TokensInit == Init => Tokens
  <1> SUFFICES ASSUME Init PROVE Tokens
    OBVIOUS
  <1>1. \A c \in Calls : call[c] = Idle
    BY DEF Init
  <1>2. TypeOK
    <2>1. call \in [Calls -> CallType]
      BY DEF Init, Idle, CallType, Steps
    <2>2. row \in [id : Nat, lease : Nat] /\ conn \in [on : BOOLEAN, lease : Nat]
      BY DEF Init
    <2>3. conn.on /\ row.id # None /\ store.token # None
      BY DEF Init
    <2>4. store \in [token : Nat, due : Nat] /\ flight \in [Processes -> Calls \cup {NoCall}]
      BY DEF Init
    <2>5. now \in Nat /\ issued \in Nat /\ live \subseteq 1..issued /\ broken \subseteq 1..issued
      BY DEF Init
    <2> QED BY <2>1, <2>2, <2>3, <2>4, <2>5 DEF TypeOK, CallType
  <1>3. Numbered /\ NewIsUnread /\ Ascends
    BY <1>1 DEF Init, Idle, Numbered, NewIsUnread, Ascends
  <1> QED BY <1>2, <1>3 DEF Tokens

LEMMA TokensStep == Tokens /\ [Next]_vars => Tokens'
  <1> SUFFICES ASSUME Tokens, [Next]_vars PROVE Tokens'
    OBVIOUS
  <1>1. ASSUME NEW c \in Calls,
               \/ Load(c) \/ Join(c) \/ ReadClock(c) \/ Claim(c) \/ ClaimUnanswered(c)
               \/ LoseClaim(c) \/ ClaimFails(c) \/ Poll(c) \/ GiveUp(c)
        PROVE  Tokens'
    BY <1>1, LoadTokens, JoinTokens, ReadClockTokens, ClaimTokens, ClaimUnansweredTokens,
       LoseClaimTokens, ClaimFailsTokens, PollTokens, GiveUpTokens
  <1>2. ASSUME NEW c \in Calls,
               \/ Spend(c) \/ SpendUnanswered(c) \/ Refused(c) \/ Save(c) \/ SaveRefused(c)
               \/ SaveFails(c) \/ Release(c) \/ ReleaseFails(c)
        PROVE  Tokens'
    BY <1>2, SpendTokens, SpendUnansweredTokens, RefusedTokens, SaveTokens, SaveRefusedTokens,
       SaveFailsTokens, ReleaseTokens, ReleaseFailsTokens
  <1>3. CASE UNCHANGED vars
    BY <1>3 DEF vars, rows, xero, Tokens, TypeOK, Numbered, NewIsUnread, Ascends
  <1> QED BY <1>1, <1>2, <1>3, StopTokens, ConnectTokens, RevokeTokens, DisconnectTokens,
             TickTokens DEF Next

LEMMA TokensAlways == Spec => []Tokens
  BY TokensInit, TokensStep, PTL DEF Spec

-----------------------------------------------------------------------------
(* The leases: one lemma for each action *)

\* A load touches nothing but its call.
LEMMA LoadStep ==
  ASSUME Leases, ~Overtake, NEW c \in Calls, Load(c)
  PROVE  Leases'
  <1>1. Tokens'
    BY LoadTokens DEF Leases
  <1>2. SameRow'
    BY LeaseAssumption DEF Load, rows, xero, Leases, Tokens, TypeOK, Numbered, NewIsUnread, SameRow
  <1>3. InOrder'
    BY LeaseAssumption DEF Load, rows, xero, Leases, Tokens, TypeOK, InOrder
  <1>4. WholeLease'
    BY LeaseAssumption DEF Load, rows, xero, Leases, Tokens, TypeOK, Numbered, NewIsUnread, SameRow,
      InOrder, WholeLease, Holds, Until
  <1>5. LeaseKnown'
    BY LeaseAssumption DEF Load, rows, xero, Leases, Tokens, TypeOK, Numbered, NewIsUnread, SameRow,
      InOrder, WholeLease, LeaseKnown, Holds, Until
  <1> QED BY <1>1, <1>2, <1>3, <1>4, <1>5 DEF Leases

LEMMA JoinStep ==
  ASSUME Leases, ~Overtake, NEW c \in Calls, Join(c)
  PROVE  Leases'
  <1>1. Tokens'
    BY JoinTokens DEF Leases
  <1>2. SameRow'
    BY LeaseAssumption DEF Join, End, Idle, rows, xero, Leases, Tokens, TypeOK, Numbered,
      NewIsUnread, SameRow
  <1>3. InOrder'
    BY LeaseAssumption DEF Join, End, Idle, rows, xero, Leases, Tokens, TypeOK, InOrder
  <1>4. WholeLease'
    BY LeaseAssumption DEF Join, End, Idle, rows, xero, Leases, Tokens, TypeOK, Numbered,
      NewIsUnread, SameRow, InOrder, WholeLease, Holds, Until
  <1>5. LeaseKnown'
    BY LeaseAssumption DEF Join, End, Idle, rows, xero, Leases, Tokens, TypeOK, Numbered,
      NewIsUnread, SameRow, InOrder, WholeLease, LeaseKnown, Holds, Until
  <1> QED BY <1>1, <1>2, <1>3, <1>4, <1>5 DEF Leases

LEMMA ReadClockStep ==
  ASSUME Leases, ~Overtake, NEW c \in Calls, ReadClock(c)
  PROVE  Leases'
  <1>1. Tokens'
    BY ReadClockTokens DEF Leases
  <1>2. SameRow'
    BY LeaseAssumption DEF ReadClock, rows, xero, Leases, Tokens, TypeOK, Numbered, NewIsUnread,
      SameRow
  <1>3. InOrder'
    BY LeaseAssumption DEF ReadClock, rows, xero, Leases, Tokens, TypeOK, InOrder
  <1>4. WholeLease'
    BY LeaseAssumption DEF ReadClock, rows, xero, Leases, Tokens, TypeOK, Numbered, NewIsUnread,
      SameRow, InOrder, WholeLease, Holds, Until
  <1>5. LeaseKnown'
    BY LeaseAssumption DEF ReadClock, rows, xero, Leases, Tokens, TypeOK, Numbered, NewIsUnread,
      SameRow, InOrder, WholeLease, LeaseKnown, Holds, Until
  <1> QED BY <1>1, <1>2, <1>3, <1>4, <1>5 DEF Leases

\* The claim that commits is the latest, and none is within its lease.
LEMMA ClaimStep ==
  ASSUME Leases, ~Overtake, NEW c \in Calls, Claim(c)
  PROVE  Leases'
  <1>1. Tokens'
    BY ClaimTokens DEF Leases
  <1>2. SameRow'
    BY LeaseAssumption DEF Claim, TakeLeases, IsFree, Claimed, xero, Leases, Tokens, TypeOK,
      Numbered, NewIsUnread, SameRow
  <1>3. InOrder'
    BY LeaseAssumption DEF Claim, TakeLeases, IsFree, Claimed, xero, Leases, Tokens, TypeOK, InOrder
  <1>4. WholeLease'
    BY LeaseAssumption DEF Claim, TakeLeases, IsFree, Claimed, xero, Leases, Tokens, TypeOK,
      Numbered, NewIsUnread, SameRow, InOrder, WholeLease, Holds, Until
  <1>5. LeaseKnown'
    BY LeaseAssumption DEF Claim, TakeLeases, IsFree, Claimed, xero, Leases, Tokens, TypeOK,
      Numbered, NewIsUnread, SameRow, InOrder, WholeLease, LeaseKnown, Holds, Until
  <1> QED BY <1>1, <1>2, <1>3, <1>4, <1>5 DEF Leases

LEMMA ClaimUnansweredStep ==
  ASSUME Leases, ~Overtake, NEW c \in Calls, ClaimUnanswered(c)
  PROVE  Leases'
  <1>1. Tokens'
    BY ClaimUnansweredTokens DEF Leases
  <1>2. SameRow'
    BY LeaseAssumption DEF ClaimUnanswered, TakeLeases, IsFree, End, Idle, xero, Leases, Tokens,
      TypeOK, Numbered, NewIsUnread, SameRow
  <1>3. InOrder'
    BY LeaseAssumption DEF ClaimUnanswered, TakeLeases, IsFree, End, Idle, xero, Leases, Tokens,
      TypeOK, InOrder
  <1>4. WholeLease'
    BY LeaseAssumption DEF ClaimUnanswered, TakeLeases, IsFree, End, Idle, xero, Leases, Tokens,
      TypeOK, Numbered, NewIsUnread, SameRow, InOrder, WholeLease, Holds, Until
  <1>5. LeaseKnown'
    BY LeaseAssumption DEF ClaimUnanswered, TakeLeases, IsFree, End, Idle, xero, Leases, Tokens,
      TypeOK, Numbered, NewIsUnread, SameRow, InOrder, WholeLease, LeaseKnown, Holds, Until
  <1> QED BY <1>1, <1>2, <1>3, <1>4, <1>5 DEF Leases

LEMMA LoseClaimStep ==
  ASSUME Leases, ~Overtake, NEW c \in Calls, LoseClaim(c)
  PROVE  Leases'
  <1>1. Tokens'
    BY LoseClaimTokens DEF Leases
  <1>2. SameRow'
    BY LeaseAssumption DEF LoseClaim, IsFree, Idle, rows, xero, Leases, Tokens, TypeOK, Numbered,
      NewIsUnread, SameRow
  <1>3. InOrder'
    BY LeaseAssumption DEF LoseClaim, IsFree, Idle, rows, xero, Leases, Tokens, TypeOK, InOrder
  <1>4. WholeLease'
    BY LeaseAssumption DEF LoseClaim, IsFree, Idle, rows, xero, Leases, Tokens, TypeOK, Numbered,
      NewIsUnread, SameRow, InOrder, WholeLease, Holds, Until
  <1>5. LeaseKnown'
    BY LeaseAssumption DEF LoseClaim, IsFree, Idle, rows, xero, Leases, Tokens, TypeOK, Numbered,
      NewIsUnread, SameRow, InOrder, WholeLease, LeaseKnown, Holds, Until
  <1> QED BY <1>1, <1>2, <1>3, <1>4, <1>5 DEF Leases

LEMMA ClaimFailsStep ==
  ASSUME Leases, ~Overtake, NEW c \in Calls, ClaimFails(c)
  PROVE  Leases'
  <1>1. Tokens'
    BY ClaimFailsTokens DEF Leases
  <1>2. SameRow'
    BY LeaseAssumption DEF ClaimFails, End, Idle, rows, xero, Leases, Tokens, TypeOK, Numbered,
      NewIsUnread, SameRow
  <1>3. InOrder'
    BY LeaseAssumption DEF ClaimFails, End, Idle, rows, xero, Leases, Tokens, TypeOK, InOrder
  <1>4. WholeLease'
    BY LeaseAssumption DEF ClaimFails, End, Idle, rows, xero, Leases, Tokens, TypeOK, Numbered,
      NewIsUnread, SameRow, InOrder, WholeLease, Holds, Until
  <1>5. LeaseKnown'
    BY LeaseAssumption DEF ClaimFails, End, Idle, rows, xero, Leases, Tokens, TypeOK, Numbered,
      NewIsUnread, SameRow, InOrder, WholeLease, LeaseKnown, Holds, Until
  <1> QED BY <1>1, <1>2, <1>3, <1>4, <1>5 DEF Leases

LEMMA PollStep ==
  ASSUME Leases, ~Overtake, NEW c \in Calls, Poll(c)
  PROVE  Leases'
  <1>1. Tokens'
    BY PollTokens DEF Leases
  <1>2. SameRow'
    BY LeaseAssumption DEF Poll, IsFree, End, Idle, rows, xero, Leases, Tokens, TypeOK, Numbered,
      NewIsUnread, SameRow
  <1>3. InOrder'
    BY LeaseAssumption DEF Poll, IsFree, End, Idle, rows, xero, Leases, Tokens, TypeOK, InOrder
  <1>4. WholeLease'
    BY LeaseAssumption DEF Poll, IsFree, End, Idle, rows, xero, Leases, Tokens, TypeOK, Numbered,
      NewIsUnread, SameRow, InOrder, WholeLease, Holds, Until
  <1>5. LeaseKnown'
    BY LeaseAssumption DEF Poll, IsFree, End, Idle, rows, xero, Leases, Tokens, TypeOK, Numbered,
      NewIsUnread, SameRow, InOrder, WholeLease, LeaseKnown, Holds, Until
  <1> QED BY <1>1, <1>2, <1>3, <1>4, <1>5 DEF Leases

LEMMA GiveUpStep ==
  ASSUME Leases, ~Overtake, NEW c \in Calls, GiveUp(c)
  PROVE  Leases'
  <1>1. Tokens'
    BY GiveUpTokens DEF Leases
  <1>2. SameRow'
    BY LeaseAssumption DEF GiveUp, Step, rows, xero, Leases, Tokens, TypeOK, Numbered, NewIsUnread,
      SameRow
  <1>3. InOrder'
    BY LeaseAssumption DEF GiveUp, Step, rows, xero, Leases, Tokens, TypeOK, InOrder
  <1>4. WholeLease'
    BY LeaseAssumption DEF GiveUp, Step, rows, xero, Leases, Tokens, TypeOK, Numbered, NewIsUnread,
      SameRow, InOrder, WholeLease, Holds, Until
  <1>5. LeaseKnown'
    BY LeaseAssumption DEF GiveUp, Step, rows, xero, Leases, Tokens, TypeOK, Numbered, NewIsUnread,
      SameRow, InOrder, WholeLease, LeaseKnown, Holds, Until
  <1> QED BY <1>1, <1>2, <1>3, <1>4, <1>5 DEF Leases

LEMMA SpendStep ==
  ASSUME Leases, ~Overtake, NEW c \in Calls, Spend(c)
  PROVE  Leases'
  <1>1. Tokens'
    BY SpendTokens DEF Leases
  <1>2. SameRow'
    BY LeaseAssumption DEF Spend, Exchange, rows, Leases, Tokens, TypeOK, Numbered, NewIsUnread,
      SameRow
  <1>3. InOrder'
    BY LeaseAssumption DEF Spend, Exchange, rows, Leases, Tokens, TypeOK, InOrder
  <1>4. WholeLease'
    BY LeaseAssumption DEF Spend, Exchange, rows, Leases, Tokens, TypeOK, Numbered, NewIsUnread,
      SameRow, InOrder, WholeLease, Holds, Until
  <1>5. LeaseKnown'
    BY LeaseAssumption DEF Spend, Exchange, rows, Leases, Tokens, TypeOK, Numbered, NewIsUnread,
      SameRow, InOrder, WholeLease, LeaseKnown, Holds, Until
  <1> QED BY <1>1, <1>2, <1>3, <1>4, <1>5 DEF Leases

LEMMA SpendUnansweredStep ==
  ASSUME Leases, ~Overtake, NEW c \in Calls, SpendUnanswered(c)
  PROVE  Leases'
  <1>1. Tokens'
    BY SpendUnansweredTokens DEF Leases
  <1>2. SameRow'
    BY LeaseAssumption DEF SpendUnanswered, Exchange, Step, rows, Leases, Tokens, TypeOK, Numbered,
      NewIsUnread, SameRow
  <1>3. InOrder'
    BY LeaseAssumption DEF SpendUnanswered, Exchange, Step, rows, Leases, Tokens, TypeOK, InOrder
  <1>4. WholeLease'
    BY LeaseAssumption DEF SpendUnanswered, Exchange, Step, rows, Leases, Tokens, TypeOK, Numbered,
      NewIsUnread, SameRow, InOrder, WholeLease, Holds, Until
  <1>5. LeaseKnown'
    BY LeaseAssumption DEF SpendUnanswered, Exchange, Step, rows, Leases, Tokens, TypeOK, Numbered,
      NewIsUnread, SameRow, InOrder, WholeLease, LeaseKnown, Holds, Until
  <1> QED BY <1>1, <1>2, <1>3, <1>4, <1>5 DEF Leases

LEMMA RefusedStep ==
  ASSUME Leases, ~Overtake, NEW c \in Calls, Refused(c)
  PROVE  Leases'
  <1>1. Tokens'
    BY RefusedTokens DEF Leases
  <1>2. SameRow'
    BY LeaseAssumption DEF Refused, Step, rows, xero, Leases, Tokens, TypeOK, Numbered, NewIsUnread,
      SameRow
  <1>3. InOrder'
    BY LeaseAssumption DEF Refused, Step, rows, xero, Leases, Tokens, TypeOK, InOrder
  <1>4. WholeLease'
    BY LeaseAssumption DEF Refused, Step, rows, xero, Leases, Tokens, TypeOK, Numbered, NewIsUnread,
      SameRow, InOrder, WholeLease, Holds, Until
  <1>5. LeaseKnown'
    BY LeaseAssumption DEF Refused, Step, rows, xero, Leases, Tokens, TypeOK, Numbered, NewIsUnread,
      SameRow, InOrder, WholeLease, LeaseKnown, Holds, Until
  <1> QED BY <1>1, <1>2, <1>3, <1>4, <1>5 DEF Leases

\* Only the refresh whose lease stands can save.
LEMMA SaveStep ==
  ASSUME Leases, ~Overtake, NEW c \in Calls, Save(c)
  PROVE  Leases'
  <1>1. Tokens'
    BY SaveTokens DEF Leases
  <1>2. SameRow'
    BY LeaseAssumption DEF Save, Fenced, IsMine, Step, xero, Leases, Tokens, TypeOK, Numbered,
      NewIsUnread, SameRow
  <1>3. InOrder'
    BY LeaseAssumption DEF Save, Fenced, IsMine, Step, xero, Leases, Tokens, TypeOK, InOrder
  <1>4. WholeLease'
    BY LeaseAssumption DEF Save, Fenced, IsMine, Step, xero, Leases, Tokens, TypeOK, Numbered,
      NewIsUnread, SameRow, InOrder, WholeLease, Holds, Until
  <1>5. LeaseKnown'
    BY LeaseAssumption DEF Save, Fenced, IsMine, Step, xero, Leases, Tokens, TypeOK, Numbered,
      NewIsUnread, SameRow, InOrder, WholeLease, LeaseKnown, Holds, Until
  <1> QED BY <1>1, <1>2, <1>3, <1>4, <1>5 DEF Leases

LEMMA SaveRefusedStep ==
  ASSUME Leases, ~Overtake, NEW c \in Calls, SaveRefused(c)
  PROVE  Leases'
  <1>1. Tokens'
    BY SaveRefusedTokens DEF Leases
  <1>2. SameRow'
    BY LeaseAssumption DEF SaveRefused, Fenced, IsMine, Step, rows, xero, Leases, Tokens, TypeOK,
      Numbered, NewIsUnread, SameRow
  <1>3. InOrder'
    BY LeaseAssumption DEF SaveRefused, Fenced, IsMine, Step, rows, xero, Leases, Tokens, TypeOK,
      InOrder
  <1>4. WholeLease'
    BY LeaseAssumption DEF SaveRefused, Fenced, IsMine, Step, rows, xero, Leases, Tokens, TypeOK,
      Numbered, NewIsUnread, SameRow, InOrder, WholeLease, Holds, Until
  <1>5. LeaseKnown'
    BY LeaseAssumption DEF SaveRefused, Fenced, IsMine, Step, rows, xero, Leases, Tokens, TypeOK,
      Numbered, NewIsUnread, SameRow, InOrder, WholeLease, LeaseKnown, Holds, Until
  <1> QED BY <1>1, <1>2, <1>3, <1>4, <1>5 DEF Leases

LEMMA SaveFailsStep ==
  ASSUME Leases, ~Overtake, NEW c \in Calls, SaveFails(c)
  PROVE  Leases'
  <1>1. Tokens'
    BY SaveFailsTokens DEF Leases
  <1>2. SameRow'
    BY LeaseAssumption DEF SaveFails, Step, rows, xero, Leases, Tokens, TypeOK, Numbered,
      NewIsUnread, SameRow
  <1>3. InOrder'
    BY LeaseAssumption DEF SaveFails, Step, rows, xero, Leases, Tokens, TypeOK, InOrder
  <1>4. WholeLease'
    BY LeaseAssumption DEF SaveFails, Step, rows, xero, Leases, Tokens, TypeOK, Numbered,
      NewIsUnread, SameRow, InOrder, WholeLease, Holds, Until
  <1>5. LeaseKnown'
    BY LeaseAssumption DEF SaveFails, Step, rows, xero, Leases, Tokens, TypeOK, Numbered,
      NewIsUnread, SameRow, InOrder, WholeLease, LeaseKnown, Holds, Until
  <1> QED BY <1>1, <1>2, <1>3, <1>4, <1>5 DEF Leases

\* A release leaves a lease that was claimed later alone.
LEMMA ReleaseStep ==
  ASSUME Leases, ~Overtake, NEW c \in Calls, Release(c)
  PROVE  Leases'
  <1>1. Tokens'
    BY ReleaseTokens DEF Leases
  <1>2. SameRow'
    BY LeaseAssumption DEF Release, RowReleased, IsMine, ConnReleased, End, Idle, xero, Leases,
      Tokens, TypeOK, Numbered, NewIsUnread, SameRow
  <1>3. InOrder'
    BY LeaseAssumption DEF Release, RowReleased, IsMine, ConnReleased, End, Idle, xero, Leases,
      Tokens, TypeOK, InOrder
  <1>4. WholeLease'
    BY LeaseAssumption DEF Release, RowReleased, IsMine, ConnReleased, End, Idle, xero, Leases,
      Tokens, TypeOK, Numbered, NewIsUnread, SameRow, InOrder, WholeLease, Holds, Until
  <1>5. LeaseKnown'
    BY LeaseAssumption DEF Release, RowReleased, IsMine, ConnReleased, End, Idle, xero, Leases,
      Tokens, TypeOK, Numbered, NewIsUnread, SameRow, InOrder, WholeLease, LeaseKnown, Holds, Until
  <1> QED BY <1>1, <1>2, <1>3, <1>4, <1>5 DEF Leases

LEMMA ReleaseFailsStep ==
  ASSUME Leases, ~Overtake, NEW c \in Calls, ReleaseFails(c)
  PROVE  Leases'
  <1>1. Tokens'
    BY ReleaseFailsTokens DEF Leases
  <1>2. SameRow'
    BY LeaseAssumption DEF ReleaseFails, End, Idle, rows, xero, Leases, Tokens, TypeOK, Numbered,
      NewIsUnread, SameRow
  <1>3. InOrder'
    BY LeaseAssumption DEF ReleaseFails, End, Idle, rows, xero, Leases, Tokens, TypeOK, InOrder
  <1>4. WholeLease'
    BY LeaseAssumption DEF ReleaseFails, End, Idle, rows, xero, Leases, Tokens, TypeOK, Numbered,
      NewIsUnread, SameRow, InOrder, WholeLease, Holds, Until
  <1>5. LeaseKnown'
    BY LeaseAssumption DEF ReleaseFails, End, Idle, rows, xero, Leases, Tokens, TypeOK, Numbered,
      NewIsUnread, SameRow, InOrder, WholeLease, LeaseKnown, Holds, Until
  <1> QED BY <1>1, <1>2, <1>3, <1>4, <1>5 DEF Leases

LEMMA StopStep ==
  ASSUME Leases, ~Overtake, NEW p \in Processes, Stop(p)
  PROVE  Leases'
  <1>1. Tokens'
    BY StopTokens DEF Leases
  <1>2. SameRow'
    BY LeaseAssumption DEF Stop, Idle, rows, xero, Leases, Tokens, TypeOK, Numbered, NewIsUnread,
      SameRow
  <1>3. InOrder'
    BY LeaseAssumption DEF Stop, Idle, rows, xero, Leases, Tokens, TypeOK, InOrder
  <1>4. WholeLease'
    BY LeaseAssumption DEF Stop, Idle, rows, xero, Leases, Tokens, TypeOK, Numbered, NewIsUnread,
      SameRow, InOrder, WholeLease, Holds, Until
  <1>5. LeaseKnown'
    BY LeaseAssumption DEF Stop, Idle, rows, xero, Leases, Tokens, TypeOK, Numbered, NewIsUnread,
      SameRow, InOrder, WholeLease, LeaseKnown, Holds, Until
  <1> QED BY <1>1, <1>2, <1>3, <1>4, <1>5 DEF Leases

LEMMA ConnectStep ==
  ASSUME Leases, ~Overtake, Connect
  PROVE  Leases'
  <1>1. Tokens'
    BY ConnectTokens DEF Leases
  <1>2. SameRow'
    BY LeaseAssumption DEF Connect, Leases, Tokens, TypeOK, Numbered, NewIsUnread, SameRow
  <1>3. InOrder'
    BY LeaseAssumption DEF Connect, Leases, Tokens, TypeOK, InOrder
  <1>4. WholeLease'
    BY LeaseAssumption DEF Connect, Leases, Tokens, TypeOK, Numbered, NewIsUnread, SameRow, InOrder,
      WholeLease, Holds, Until
  <1>5. LeaseKnown'
    BY LeaseAssumption DEF Connect, Leases, Tokens, TypeOK, Numbered, NewIsUnread, SameRow, InOrder,
      WholeLease, LeaseKnown, Holds, Until
  <1> QED BY <1>1, <1>2, <1>3, <1>4, <1>5 DEF Leases

LEMMA RevokeStep ==
  ASSUME Leases, ~Overtake, Revoke
  PROVE  Leases'
  <1>1. Tokens'
    BY RevokeTokens DEF Leases
  <1>2. SameRow'
    BY LeaseAssumption DEF Revoke, rows, Leases, Tokens, TypeOK, Numbered, NewIsUnread, SameRow
  <1>3. InOrder'
    BY LeaseAssumption DEF Revoke, rows, Leases, Tokens, TypeOK, InOrder
  <1>4. WholeLease'
    BY LeaseAssumption DEF Revoke, rows, Leases, Tokens, TypeOK, Numbered, NewIsUnread, SameRow,
      InOrder, WholeLease, Holds, Until
  <1>5. LeaseKnown'
    BY LeaseAssumption DEF Revoke, rows, Leases, Tokens, TypeOK, Numbered, NewIsUnread, SameRow,
      InOrder, WholeLease, LeaseKnown, Holds, Until
  <1> QED BY <1>1, <1>2, <1>3, <1>4, <1>5 DEF Leases

LEMMA DisconnectStep ==
  ASSUME Leases, ~Overtake, Disconnect
  PROVE  Leases'
  <1>1. Tokens'
    BY DisconnectTokens DEF Leases
  <1>2. SameRow'
    BY LeaseAssumption DEF Disconnect, xero, Leases, Tokens, TypeOK, Numbered, NewIsUnread, SameRow
  <1>3. InOrder'
    BY LeaseAssumption DEF Disconnect, xero, Leases, Tokens, TypeOK, InOrder
  <1>4. WholeLease'
    BY LeaseAssumption DEF Disconnect, xero, Leases, Tokens, TypeOK, Numbered, NewIsUnread, SameRow,
      InOrder, WholeLease, Holds, Until
  <1>5. LeaseKnown'
    BY LeaseAssumption DEF Disconnect, xero, Leases, Tokens, TypeOK, Numbered, NewIsUnread, SameRow,
      InOrder, WholeLease, LeaseKnown, Holds, Until
  <1> QED BY <1>1, <1>2, <1>3, <1>4, <1>5 DEF Leases

LEMMA TickStep ==
  ASSUME Leases, ~Overtake, Tick
  PROVE  Leases'
  <1>1. Tokens'
    BY TickTokens DEF Leases
  <1>2. SameRow'
    BY LeaseAssumption DEF Tick, rows, xero, Leases, Tokens, TypeOK, Numbered, NewIsUnread, SameRow
  <1>3. InOrder'
    BY LeaseAssumption DEF Tick, rows, xero, Leases, Tokens, TypeOK, InOrder
  <1>4. WholeLease'
    BY LeaseAssumption DEF Tick, rows, xero, Leases, Tokens, TypeOK, Numbered, NewIsUnread, SameRow,
      InOrder, WholeLease, Holds, Until
  <1>5. LeaseKnown'
    BY LeaseAssumption DEF Tick, rows, xero, Leases, Tokens, TypeOK, Numbered, NewIsUnread, SameRow,
      InOrder, WholeLease, LeaseKnown, Holds, Until
  <1> QED BY <1>1, <1>2, <1>3, <1>4, <1>5 DEF Leases
-----------------------------------------------------------------------------
(* The invariant of the leases *)

LEMMA LeasesInit == Init => Leases
  <1> SUFFICES ASSUME Init PROVE Leases
    OBVIOUS
  <1>1. \A c \in Calls : call[c] = Idle
    BY DEF Init
  <1>2. SameRow /\ InOrder /\ WholeLease /\ LeaseKnown
    BY <1>1 DEF Init, Idle, SameRow, InOrder, WholeLease, LeaseKnown, Holds
  <1> QED BY <1>2, TokensInit DEF Leases

LEMMA LeasesStutter == Leases /\ UNCHANGED vars => Leases'
  BY TokensStep DEF vars, rows, xero, Leases, SameRow, InOrder, WholeLease, LeaseKnown, Holds, Until

LEMMA LeasesStep == Leases /\ ~Overtake /\ [Next]_vars => Leases'
  <1> SUFFICES ASSUME Leases, ~Overtake, [Next]_vars PROVE Leases'
    OBVIOUS
  <1>1. ASSUME NEW c \in Calls,
               \/ Load(c) \/ Join(c) \/ ReadClock(c) \/ Claim(c) \/ ClaimUnanswered(c)
               \/ LoseClaim(c) \/ ClaimFails(c) \/ Poll(c) \/ GiveUp(c)
        PROVE  Leases'
    BY <1>1, LoadStep, JoinStep, ReadClockStep, ClaimStep, ClaimUnansweredStep, LoseClaimStep,
       ClaimFailsStep, PollStep, GiveUpStep
  <1>2. ASSUME NEW c \in Calls,
               \/ Spend(c) \/ SpendUnanswered(c) \/ Refused(c) \/ Save(c) \/ SaveRefused(c)
               \/ SaveFails(c) \/ Release(c) \/ ReleaseFails(c)
        PROVE  Leases'
    BY <1>2, SpendStep, SpendUnansweredStep, RefusedStep, SaveStep, SaveRefusedStep,
       SaveFailsStep, ReleaseStep, ReleaseFailsStep
  <1> QED BY <1>1, <1>2, StopStep, ConnectStep, RevokeStep, DisconnectStep, TickStep,
             LeasesStutter DEF Next

LEMMA LeasesAlways == ~Overtake => (Spec => []Leases)
  <1> SUFFICES ASSUME ~Overtake PROVE Spec => []Leases
    OBVIOUS
  <1>1. Leases /\ [Next]_vars => Leases'
    BY LeasesStep
  <1> QED BY <1>1, LeasesInit, PTL DEF Spec

\* The save of a refresh that is within its lease is never refused.
LEMMA HolderSaves ==
  ASSUME Leases, NEW c \in Calls, Holds(c)
  PROVE  Fenced(c)
  <1>1. row.id = call[c].row /\ row.lease = Until(c) /\ conn.lease = Until(c)
    BY DEF Leases, SameRow, WholeLease, Holds
  <1>2. Until(c) \in Nat /\ Until(c) # None
    BY LeaseAssumption DEF Until, Leases, Tokens, TypeOK
  <1>3. conn.on
    BY DEF Holds, Leases, Tokens, TypeOK, Numbered
  <1> QED BY <1>1, <1>2, <1>3 DEF Fenced, IsMine, Holds

-----------------------------------------------------------------------------
(* The theorems *)

\* The stored token is spendable, but for a cause, is kept by every step.
LEMMA SpendableStep ==
  ASSUME Leases, StoredIsSpendable, [Next]_vars
  PROVE  StoredIsSpendable'
  <1> USE DEF StoredIsSpendable, rows, xero, Step, End, Idle
  <1>1. ASSUME NEW c \in Calls,
               \/ Load(c) \/ Join(c) \/ ReadClock(c) \/ Claim(c) \/ ClaimUnanswered(c)
               \/ LoseClaim(c) \/ ClaimFails(c) \/ Poll(c) \/ GiveUp(c) \/ Refused(c)
               \/ Release(c) \/ ReleaseFails(c)
        PROVE  StoredIsSpendable'
    <2>1. /\ store' = store /\ conn'.on = conn.on /\ live' = live /\ broken' = broken
          /\ \A d \in Calls : call[d].pc = "spent" => call'[d] = call[d]
      BY <1>1 DEF Load, Join, ReadClock, Claim, ClaimUnanswered, LoseClaim, ClaimFails, Poll,
         GiveUp, Refused, Release, ReleaseFails, TakeLeases, ConnReleased, Leases, Tokens, TypeOK
    <2> QED BY <2>1
  <1>2. ASSUME NEW c \in Calls, Spend(c) PROVE StoredIsSpendable'
    BY <1>2 DEF Spend, Exchange, Leases, Tokens, TypeOK
  <1>3. ASSUME NEW c \in Calls, SpendUnanswered(c) PROVE StoredIsSpendable'
    BY <1>3 DEF SpendUnanswered, Exchange, Leases, Tokens, TypeOK
  <1>4. ASSUME NEW c \in Calls, Save(c) PROVE StoredIsSpendable'
    BY <1>4 DEF Save, Leases, Tokens, TypeOK, NewIsUnread
  <1>5. ASSUME NEW c \in Calls, SaveRefused(c) PROVE StoredIsSpendable'
    <2>1. CASE call[c].token = store.token
      <3>1. ~Holds(c)
        BY <1>5, HolderSaves DEF SaveRefused
      <3>2. Until(c) <= now
        BY <1>5, <2>1, <3>1, LeaseAssumption DEF SaveRefused, Holds, Until, Leases, Tokens, TypeOK
      <3> QED BY <1>5, <2>1, <3>2 DEF SaveRefused, Leases, Tokens, TypeOK
    <2>2. CASE call[c].token # store.token
      BY <1>5, <2>2 DEF SaveRefused, Leases, Tokens, TypeOK
    <2> QED BY <2>1, <2>2
  <1>6. ASSUME NEW c \in Calls, SaveFails(c) PROVE StoredIsSpendable'
    BY <1>6 DEF SaveFails, Leases, Tokens, TypeOK
  <1>7. ASSUME NEW p \in Processes, Stop(p) PROVE StoredIsSpendable'
    BY <1>7 DEF Stop, Leases, Tokens, TypeOK
  <1>8. CASE Connect
    BY <1>8 DEF Connect
  <1>9. CASE Revoke
    BY <1>9 DEF Revoke
  <1>10. CASE Disconnect
    BY <1>10 DEF Disconnect
  <1>11. CASE Tick \/ UNCHANGED vars
    BY <1>11 DEF Tick, vars
  <1> QED BY <1>1, <1>2, <1>3, <1>4, <1>5, <1>6, <1>7, <1>8, <1>9, <1>10, <1>11 DEF Next

\* Every variable keeps its type, and the two rows and the stored tokens are there
\* together or not at all (a connect writes all three, a disconnect removes them).
THEOREM TokenLeaseTypes == Spec => []TypeOK
  <1>1. Tokens => TypeOK
    BY DEF Tokens
  <1> QED BY <1>1, TokensAlways, PTL

\* In whatever order claims commit, what is written over the stored tokens is newer,
\* and not spent yet: a save finds the tokens its call claimed with, which its own
\* are newer than, and a connect brings tokens nobody has.
THEOREM StoreMoves == Spec => StoreMovesOn
  <1>1. Tokens /\ [Next]_vars =>
          [store'.token # store.token =>
             \/ store'.token = None
             \/ store'.token > store.token /\ store'.token \in live']_vars
    <2> SUFFICES ASSUME Tokens, [Next]_vars, store'.token # store.token
                 PROVE  \/ store'.token = None
                        \/ store'.token > store.token /\ store'.token \in live'
      OBVIOUS
    <2>1. ASSUME NEW c \in Calls, Save(c)
          PROVE  store'.token > store.token /\ store'.token \in live'
      <3>1. store'.token = call[c].new /\ store.token = call[c].token /\ live' = live
        BY <2>1 DEF Save, Fenced, xero
      <3>2. call[c].token < call[c].new /\ call[c].new \in live
        BY <2>1 DEF Save, Tokens, NewIsUnread, Ascends
      <3>3. call[c].token \in Nat /\ call[c].new \in Nat
        BY DEF Tokens, TypeOK
      <3> QED BY <3>1, <3>2, <3>3
    <2>2. CASE Connect
      BY <2>2 DEF Connect, Tokens, TypeOK, Numbered
    <2>3. CASE Disconnect
      BY <2>3 DEF Disconnect
    <2>4. Connect \/ Disconnect \/ \E c \in Calls : Save(c)
      BY DEF Next, vars, Load, Join, ReadClock, Claim, ClaimUnanswered, LoseClaim, ClaimFails, Poll,
             GiveUp, Spend, SpendUnanswered, Refused, SaveRefused, SaveFails, Release, ReleaseFails,
             Stop, Revoke, Tick, rows
    <2> QED BY <2>1, <2>2, <2>3, <2>4
  <1> QED BY <1>1, TokensAlways, PTL DEF Spec, StoreMovesOn

\* The stored refresh token is never spent by a call that was within its lease
\* and could not save: the club has to reconnect only for a stop, a failed
\* answer or save, a lease outlived or a revocation.
THEOREM TokenNotBurnt == ~Overtake => (Spec => []StoredIsSpendable)
  <1> SUFFICES ASSUME ~Overtake PROVE Spec => []StoredIsSpendable
    OBVIOUS
  <1>1. Init => StoredIsSpendable
    BY DEF Init, StoredIsSpendable
  <1>2. Leases /\ StoredIsSpendable /\ [Next]_vars => StoredIsSpendable'
    BY SpendableStep
  <1>3. Spec => []Leases
    BY LeasesAlways
  <1> QED BY <1>1, <1>2, <1>3, PTL DEF Spec

\* Two refreshes of the same tokens are never both within their leases.
THEOREM SpendersExclude == ~Overtake => (Spec => []OneSpender)
  <1> SUFFICES ASSUME ~Overtake PROVE Spec => []OneSpender
    OBVIOUS
  <1>1. Leases => OneSpender
    <2> SUFFICES ASSUME Leases, NEW c \in Calls, NEW d \in Calls, Holds(c), Holds(d), c # d
                 PROVE  FALSE
      BY DEF OneSpender
    <2>1. call[d].at < call[c].at /\ call[c].at < call[d].at
      BY DEF Leases, WholeLease, Holds
    <2> QED BY <2>1 DEF Leases, Tokens, TypeOK
  <1>2. Spec => []Leases
    BY LeasesAlways
  <1> QED BY <1>1, <1>2, PTL

\* The two lease fences imply the compare-and-set.
THEOREM LeasesSuffice == ~Overtake => (Spec => []LeaseGuardsVersion)
  <1> SUFFICES ASSUME ~Overtake PROVE Spec => []LeaseGuardsVersion
    OBVIOUS
  <1>1. Leases => LeaseGuardsVersion
    <2> SUFFICES ASSUME Leases, NEW c \in Calls, call[c].pc \in {"ready", "spent"},
                        row.id = call[c].row, IsMine(row.lease, Until(c))
                 PROVE  store.token = call[c].token
      BY DEF LeaseGuardsVersion
    <2>1. row.lease # None /\ row.lease <= Until(c) /\ Until(c) <= row.lease
      BY DEF IsMine, Leases, LeaseKnown
    <2>2. row.lease = Until(c)
      <3>1. Until(c) \in Nat
        BY LeaseAssumption DEF Until, Leases, Tokens, TypeOK
      <3>2. row.lease \in Nat
        BY DEF Leases, Tokens, TypeOK
      <3> QED BY <2>1, <3>1, <3>2
    <2>3. call[c].pc \in InFlight /\ call[c].pc # "releasing"
      OBVIOUS
    <2> QED BY <2>1, <2>2, <2>3 DEF Leases, LeaseKnown
  <1>2. Spec => []Leases
    BY LeasesAlways
  <1> QED BY <1>1, <1>2, PTL
=============================================================================
