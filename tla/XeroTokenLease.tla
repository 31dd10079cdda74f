---------------------------- MODULE XeroTokenLease ----------------------------
(***************************************************************************)
(* The refresh of the Xero token set (xero-api-client.ts and               *)
(* xero-token-store.ts).  Xero rotates refresh tokens: each is spendable   *)
(* once, and the pair it is exchanged for must reach the store, or the     *)
(* club has to connect again.  Concurrent calls of several processes keep  *)
(* from burning the stored token by a lease on two rows, which the save is *)
(* fenced by; the spending itself happens between two transactions.        *)
(*                                                                         *)
(* Each transaction is one step: the claim's updates lock both rows, and   *)
(* every writer of the tokens takes one of them.  A token is a number, in  *)
(* the order Xero issued it; a fresh store version is written with each    *)
(* token set, so the version the save compares is the token.               *)
(***************************************************************************)
EXTENDS Naturals, FiniteSets

CONSTANTS
  Calls,        \* calls that need an authenticated client
  Processes,    \* server processes
  ProcessOf,    \* the process a call runs in
  NoCall,       \* no refresh is in flight in a process
  LeaseFor,     \* XERO_TOKEN_REFRESH_LEASE_MS, in clock readings
  Life,         \* how long a saved access token needs no refresh
  Overtake,     \* a claim may reach the database after one that read the clock later
  MaxTime,      \* bound: clock readings
  MaxTokens     \* bound: refresh tokens Xero issues

None == 0       \* no row, no lease, no token: ids and times start at 1

ASSUME LeaseAssumption ==
  /\ ProcessOf \in [Calls -> Processes]
  /\ NoCall \notin Calls
  /\ LeaseFor \in Nat \ {0}
  /\ Life \in Nat
  /\ Overtake \in BOOLEAN
  /\ MaxTime \in Nat
  /\ MaxTokens \in Nat

VARIABLES
  now,      \* the clock of the processes
  row,      \* the XeroToken row: its id and its lease
  conn,     \* the XeroConnection row: whether it is there, and its lease
  store,    \* the stored token set: its refresh token, and when it is due
  call,     \* the calls
  flight,   \* _tokenRefreshPromise of each process
  issued,   \* how many refresh tokens Xero has issued
  live,     \* the refresh tokens Xero still accepts
  broken    \* tokens whose successor was lost to a stop, a failed answer or
            \* save, or a lease outlived, and tokens revoked

rows == <<row, conn>>
xero == <<issued, live>>
vars == <<now, row, conn, store, call, flight, issued, live, broken>>

Steps == {"idle", "due", "claiming", "waiting", "ready", "spent", "releasing"}
Idle == [pc |-> "idle", at |-> None, row |-> None, token |-> None, new |-> None]

TypeOK ==
  /\ now \in Nat
  /\ row \in [id : Nat, lease : Nat]
  /\ conn \in [on : BOOLEAN, lease : Nat]
  /\ conn.on = (row.id # None)
  /\ conn.on = (store.token # None)
  /\ store \in [token : Nat, due : Nat]
  /\ call \in [Calls -> [pc : Steps, at : Nat, row : Nat, token : Nat, new : Nat]]
  /\ flight \in [Processes -> Calls \cup {NoCall}]
  /\ issued \in Nat
  /\ live \subseteq 1..issued
  /\ broken \subseteq 1..issued

-----------------------------------------------------------------------------
\* When the lease a call claims, or claimed, runs out.
Until(c) == call[c].at + LeaseFor

\* leaseIsFree: no lease, or one that ran out at the reading "at".
IsFree(lease, at) == lease = None \/ lease <= at

NeedsRefresh == now >= store.due

\* Deviation: the lease that ends when the claim's does is no longer the claim's.
IsEarlier(lease, until) == lease # None /\ lease < until
\* Deviation: a lease is this claim's whoever took it.
IsAnyones(lease, until) == lease # None

\* `lte leaseUntil`, which no null matches: this claim's lease, or an earlier one's.
IsMine(lease, until) == lease # None /\ lease <= until

\* Deviation: a refresh that comes back saves what it got.
FencedByNothing(c) == conn.on

\* What the save of a refresh demands: both leases, and the version it claimed.
Fenced(c) ==
  /\ row.id = call[c].row /\ IsMine(row.lease, Until(c))
  /\ conn.on /\ IsMine(conn.lease, Until(c))
  /\ store.token = call[c].token

\* What a release leaves of the two leases.
RowReleased(c) ==
  IF row.id = call[c].row /\ IsMine(row.lease, Until(c))
    THEN [row EXCEPT !.lease = None] ELSE row
ConnReleased(c) ==
  IF IsMine(conn.lease, Until(c)) THEN [conn EXCEPT !.lease = None] ELSE conn

\* A claim takes both leases or neither, and keeps what it reads under them.
TakeLeases(c) ==
  /\ IsFree(row.lease, call[c].at) /\ IsFree(conn.lease, call[c].at)
  /\ row' = [row EXCEPT !.lease = Until(c)]
  /\ conn' = [conn EXCEPT !.lease = Until(c)]

\* Deviation: the tokens loaded before the claim are spent.
ClaimedAsLoaded(c) == [call[c] EXCEPT !.pc = "ready", !.row = row.id]

Claimed(c) == [call[c] EXCEPT !.pc = "ready", !.row = row.id, !.token = store.token]

Step(c, pc) == call' = [call EXCEPT ![c].pc = pc]
End(c) == call' = [call EXCEPT ![c] = Idle]

-----------------------------------------------------------------------------
Init ==
  /\ now = 1
  /\ row = [id |-> 1, lease |-> None]
  /\ conn = [on |-> TRUE, lease |-> None]
  /\ store = [token |-> 1, due |-> 1]
  /\ call = [c \in Calls |-> Idle]
  /\ flight = [p \in Processes |-> NoCall]
  /\ issued = 1
  /\ live = {1}
  /\ broken = {}

\* A call loads the stored tokens and finds them due.  (Not due, or none: it
\* goes on with them, or asks for a reconnect, and changes nothing.)
Load(c) ==
  /\ call[c].pc = "idle" /\ conn.on /\ NeedsRefresh
  /\ call' = [call EXCEPT ![c].pc = "due", ![c].token = store.token]
  /\ UNCHANGED <<now, rows, store, flight, xero, broken>>

\* A refresh of its own process is in flight: the call shares its outcome.
Join(c) ==
  /\ call[c].pc = "due" /\ flight[ProcessOf[c]] # NoCall
  /\ End(c)
  /\ UNCHANGED <<now, rows, store, flight, xero, broken>>

\* The claim reads the clock, and its transaction is on its way.
ReadClock(c) ==
  /\ call[c].pc = "due" /\ flight[ProcessOf[c]] = NoCall
  /\ now < MaxTime
  /\ Overtake \/ \A d \in Calls : call[d].pc # "claiming"
  /\ call' = [call EXCEPT ![c].pc = "claiming", ![c].at = now]
  /\ now' = now + 1
  /\ UNCHANGED <<rows, store, flight, xero, broken>>

Claim(c) ==
  /\ call[c].pc = "claiming" /\ conn.on
  /\ TakeLeases(c)
  /\ call' = [call EXCEPT ![c] = Claimed(c)]
  /\ flight' = [flight EXCEPT ![ProcessOf[c]] = c]
  /\ UNCHANGED <<now, store, xero, broken>>

\* The claim commits and its answer is lost: nobody refreshes under the lease.
ClaimUnanswered(c) ==
  /\ call[c].pc = "claiming" /\ conn.on
  /\ TakeLeases(c)
  /\ End(c)
  /\ UNCHANGED <<now, store, flight, xero, broken>>

\* Another holds a lease, or the connection is gone: the call starts to wait.
LoseClaim(c) ==
  /\ call[c].pc = "claiming"
  /\ ~(conn.on /\ IsFree(row.lease, call[c].at) /\ IsFree(conn.lease, call[c].at))
  /\ call' = [call EXCEPT ![c] = [Idle EXCEPT !.pc = "waiting", !.at = now]]
  /\ UNCHANGED <<now, rows, store, flight, xero, broken>>

ClaimFails(c) ==
  /\ call[c].pc = "claiming"
  /\ End(c)
  /\ UNCHANGED <<now, rows, store, flight, xero, broken>>

\* waitForSharedXeroTokenRefresh ends: no connection, fresh tokens, no lease
\* left, or its deadline.  Where the tokens are still due the call begins anew.
Poll(c) ==
  /\ call[c].pc = "waiting"
  /\ \/ ~conn.on
     \/ ~NeedsRefresh
     \/ IsFree(row.lease, now) /\ IsFree(conn.lease, now)
     \/ Until(c) < now
  /\ End(c)
  /\ UNCHANGED <<now, rows, store, flight, xero, broken>>

\* The client, the configuration or the check that a save is possible refuses,
\* or the request never reaches Xero: the token is not spent.
GiveUp(c) ==
  /\ call[c].pc = "ready"
  /\ Step(c, "releasing")
  /\ UNCHANGED <<now, rows, store, flight, xero, broken>>

\* Xero takes the token and issues its successor.
Exchange(c) ==
  /\ call[c].token \in live /\ issued < MaxTokens
  /\ issued' = issued + 1
  /\ live' = (live \ {call[c].token}) \cup {issued'}

Spend(c) ==
  /\ call[c].pc = "ready"
  /\ Exchange(c)
  /\ call' = [call EXCEPT ![c].pc = "spent", ![c].new = issued']
  /\ UNCHANGED <<now, rows, store, flight, broken>>

SpendUnanswered(c) ==
  /\ call[c].pc = "ready"
  /\ Exchange(c)
  /\ Step(c, "releasing")
  /\ broken' = broken \cup {call[c].token}
  /\ UNCHANGED <<now, rows, store, flight>>

Refused(c) ==
  /\ call[c].pc = "ready" /\ call[c].token \notin live
  /\ Step(c, "releasing")
  /\ UNCHANGED <<now, rows, store, flight, xero, broken>>

Save(c) ==
  /\ call[c].pc = "spent" /\ Fenced(c)
  /\ row' = [row EXCEPT !.lease = None]
  /\ conn' = [conn EXCEPT !.lease = None]
  /\ store' = [token |-> call[c].new, due |-> now + Life]
  /\ Step(c, "releasing")
  /\ UNCHANGED <<now, flight, xero, broken>>

\* LEASE_LOST_MESSAGE, or the compare-and-set loses: the new pair is dropped.
SaveRefused(c) ==
  /\ call[c].pc = "spent" /\ ~Fenced(c)
  /\ Step(c, "releasing")
  /\ broken' = IF Until(c) <= now THEN broken \cup {call[c].token} ELSE broken
  /\ UNCHANGED <<now, rows, store, flight, xero>>

SaveFails(c) ==
  /\ call[c].pc = "spent"
  /\ Step(c, "releasing")
  /\ broken' = broken \cup {call[c].token}
  /\ UNCHANGED <<now, rows, store, flight, xero>>

\* The finally of every refresh, also after its own save gave the leases back.
Release(c) ==
  /\ call[c].pc = "releasing"
  /\ row' = RowReleased(c)
  /\ conn' = ConnReleased(c)
  /\ flight' = [flight EXCEPT ![ProcessOf[c]] = NoCall]
  /\ End(c)
  /\ UNCHANGED <<now, store, xero, broken>>

\* The release fails, which is logged: the lease runs out by itself.
ReleaseFails(c) ==
  /\ call[c].pc = "releasing"
  /\ flight' = [flight EXCEPT ![ProcessOf[c]] = NoCall]
  /\ End(c)
  /\ UNCHANGED <<now, rows, store, xero, broken>>

-----------------------------------------------------------------------------
\* A process stops, with whatever its calls were at.
Stop(p) ==
  /\ call' = [c \in Calls |-> IF ProcessOf[c] = p THEN Idle ELSE call[c]]
  /\ flight' = [flight EXCEPT ![p] = NoCall]
  /\ broken' = broken \cup
       {call[c].token : c \in {d \in Calls : ProcessOf[d] = p /\ call[d].pc = "spent"}}
  /\ UNCHANGED <<now, rows, store, xero>>

\* An administrator connects, or connects again: a fresh grant, a fresh row.
Connect ==
  /\ issued < MaxTokens
  /\ issued' = issued + 1
  /\ live' = live \cup {issued'}
  /\ row' = [id |-> issued', lease |-> None]
  /\ conn' = [on |-> TRUE, lease |-> None]
  /\ store' = [token |-> issued', due |-> now + Life]
  /\ UNCHANGED <<now, call, flight, broken>>

\* A disconnect revokes the stored token where it can, before it removes the rows.
Revoke ==
  /\ conn.on
  /\ live' = live \ {store.token}
  /\ broken' = broken \cup {store.token}
  /\ UNCHANGED <<now, rows, store, call, flight, issued>>

\* Deviation: the rows go and the tokens stay.
DisconnectKeepsTokens ==
  /\ conn.on
  /\ row' = [id |-> None, lease |-> None]
  /\ conn' = [on |-> FALSE, lease |-> None]
  /\ UNCHANGED <<now, store, call, flight, xero, broken>>

\* A disconnect removes the rows and the tokens; so does a new client id or secret.
Disconnect ==
  /\ conn.on
  /\ row' = [id |-> None, lease |-> None]
  /\ conn' = [on |-> FALSE, lease |-> None]
  /\ store' = [token |-> None, due |-> None]
  /\ UNCHANGED <<now, call, flight, xero, broken>>

Tick ==
  /\ now < MaxTime
  /\ now' = now + 1
  /\ UNCHANGED <<rows, store, call, flight, xero, broken>>

Next ==
  \/ \E c \in Calls :
       \/ Load(c) \/ Join(c) \/ ReadClock(c)
       \/ Claim(c) \/ ClaimUnanswered(c) \/ LoseClaim(c) \/ ClaimFails(c)
       \/ Poll(c) \/ GiveUp(c)
       \/ Spend(c) \/ SpendUnanswered(c) \/ Refused(c)
       \/ Save(c) \/ SaveRefused(c) \/ SaveFails(c)
       \/ Release(c) \/ ReleaseFails(c)
  \/ \E p \in Processes : Stop(p)
  \/ Connect \/ Revoke \/ Disconnect \/ Tick

Spec == Init /\ [][Next]_vars

-----------------------------------------------------------------------------
\* A refresh is on its way under a lease that has not run out, for the tokens
\* that are stored.
Holds(c) ==
  /\ call[c].pc \in {"ready", "spent"}
  /\ call[c].token = store.token
  /\ now < Until(c)

\* One rotating refresh token may be spent only once: while a refresh is within
\* its lease no other one has the same tokens under a lease of its own
\* (claimXeroTokenRefreshLease, whose losers wait).
OneSpender == \A c, d \in Calls : Holds(c) /\ Holds(d) => c = d

\* The lease "keeps concurrency from burning refresh tokens" (docs/xero/
\* ARCHITECTURE.md): the stored one is accepted by Xero, or a call holds the pair
\* it was exchanged for and has yet to save it; otherwise the pair was lost to a
\* stop, a failed answer or save, or a lease outlived (getAuthenticatedXeroClient).
StoredIsSpendable ==
  conn.on => \/ store.token \in live \cup broken
             \/ \E c \in Calls : call[c].pc = "spent" /\ call[c].token = store.token

\* While the lease of a refresh stands on the row it claimed, the stored tokens
\* are those it claimed with: the lease fences alone keep a save from writing
\* over a reconnect, a removed connection or a later refresh, so that the
\* compare-and-set is there for a writer that bypassed them (saveXeroTokens).
LeaseGuardsVersion ==
  \A c \in Calls :
    /\ call[c].pc \in {"ready", "spent"}
    /\ row.id = call[c].row
    /\ IsMine(row.lease, Until(c))
    => store.token = call[c].token

\* The stored tokens only move on: whatever a refresh that comes back late meets, a
\* later refresh, a reconnect, a disconnect, or a claim that overtook its own, what is
\* written is newer than what it replaces and not spent yet, so that no save puts
\* back a token already exchanged (the fences of saveXeroTokens).
StoreMovesOn ==
  [][store'.token # store.token =>
       \/ store'.token = None
       \/ store'.token > store.token /\ store'.token \in live']_vars
=============================================================================
