----------------------------- MODULE CoinWallet -----------------------------
(***************************************************************************)
(* The coin side of the backend: unlock_episode and resolve_unlock of      *)
(* backend/apps/wallet/services.py as PostgreSQL transactions that take    *)
(* the account lock, the catalog lock and the wallet row lock one after    *)
(* the other, beside every other transaction that writes what they read:   *)
(* purchase credits, manual and rewarded grants, editorial saves, episode  *)
(* deletion and account deletion.                                          *)
(*                                                                         *)
(* A policy version is a hash of an episode's editorial inputs; here it is *)
(* those inputs themselves.  The ledger is kept as the two sums that       *)
(* wallet_balance adds up, and a null coin price is 0.                     *)
(***************************************************************************)
EXTENDS Integers, FiniteSets

CONSTANTS
  Users,      \* Firebase identities that have a profile
  Requests,   \* client-chosen request UUIDs
  Episodes,
  Series,
  SeriesOf,   \* the series an episode belongs to
  Policies,   \* editorial access settings: [mode, coin_price]
  Terms,      \* what a client may submit: [episode, version, price]
  Packs,      \* coins one verified purchase can credit
  Calls,      \* HTTP calls in flight, each one database transaction
  NoCall,     \* the holder of a free lock
  MaxBalance, \* MAX_BALANCE_COINS
  SpendingEnabled \* coin_spending_enabled()

Modes == {"free", "rewarded_ad", "coin", "both"}
Sold == {"coin", "both"}

ASSUME PoliciesAssumption ==
  /\ \A p \in Policies : /\ p.mode \in Modes
                         /\ p.coin_price \in Nat
                         /\ p.mode \in Sold <=> p.coin_price > 0
  /\ \A t \in Terms : /\ t.episode \in Episodes
                      /\ t.price \in Nat
ASSUME ConstantsAssumption ==
  /\ SeriesOf \in [Episodes -> Series]
  /\ Packs \subseteq Nat \ {0}
  /\ NoCall \notin Calls
  /\ MaxBalance \in Nat
  /\ SpendingEnabled \in BOOLEAN

VARIABLES
  profile,       \* the account: active, or deleted for good
  policy,        \* the editorial settings of an episode
  listing,       \* playable (rights, publication and media allow it), unplayable, deleted
  entitlement,   \* the source of a user's permanent access to an episode
  ledger,        \* the sums of a wallet's append-only entries, by sign
  receipts,      \* CoinUnlock rows
  cancellations, \* CoinUnlockCancellation rows
  accountLock,   \* identity advisory lock and profile row: the call holding it
  catalogLock,   \* series row (and its episode row)
  walletLock,    \* wallet row
  call           \* what each call asked for and how far its transaction is

database == <<profile, policy, listing, entitlement, ledger, receipts, cancellations>>
locks == <<accountLock, catalogLock, walletLock>>
vars == <<database, locks, call>>

Sources == {"none", "staff", "rewarded_ad", "coin"}
Receipt == [user: Users, request: Requests, terms: Terms, charged: Nat]
Cancellation == [user: Users, request: Requests, terms: Terms]
Running == [stage: {"account", "catalog", "wallet", "commit"},
            op: {"unlock", "resolve"}, user: Users, request: Requests,
            terms: Terms, legacy: BOOLEAN, charge: Nat]
Idle == [stage |-> "idle"]

Balance(u) == ledger[u].purchased - ledger[u].spent

TypeOK ==
  /\ profile \in [Users -> {"active", "deleted"}]
  /\ policy \in [Episodes -> Policies]
  /\ listing \in [Episodes -> {"playable", "unplayable", "deleted"}]
  /\ entitlement \in [Users -> [Episodes -> Sources]]
  /\ ledger \in [Users -> [purchased: Nat, spent: Nat]]
  /\ \A u \in Users : Balance(u) \in 0..MaxBalance
  /\ receipts \subseteq Receipt
  /\ cancellations \subseteq Cancellation
  /\ accountLock \in [Users -> Calls \cup {NoCall}]
  /\ catalogLock \in [Series -> Calls \cup {NoCall}]
  /\ walletLock \in [Users -> Calls \cup {NoCall}]
  /\ call \in [Calls -> Running \cup {Idle}]

Init ==
  /\ profile = [u \in Users |-> "active"]
  /\ policy \in [Episodes -> Policies]
  /\ listing = [e \in Episodes |-> "playable"]
  /\ entitlement = [u \in Users |-> [e \in Episodes |-> "none"]]
  /\ ledger = [u \in Users |-> [purchased |-> 0, spent |-> 0]]
  /\ receipts = {}
  /\ cancellations = {}
  /\ accountLock = [u \in Users |-> NoCall]
  /\ catalogLock = [s \in Series |-> NoCall]
  /\ walletLock = [u \in Users |-> NoCall]
  /\ call = [c \in Calls |-> Idle]

-----------------------------------------------------------------------------
(* What a transaction reads. *)

ReceiptsOf(c) ==
  {x \in receipts : x.user = call[c].user /\ x.request = call[c].request}
CancellationsOf(c) ==
  {x \in cancellations : x.user = call[c].user /\ x.request = call[c].request}

\* evaluate_authorize_access for an episode that is eligible: a permanent
\* entitlement, then the free window.
Granted(u, e) == entitlement[u][e] # "none" \/ policy[e].mode = "free"

\* lock_current_profile succeeds, spending is on, the request was not cancelled
\* and was not used for other terms.  A writer of the previous release (legacy)
\* does not know cancellations.
Admissible(c) ==
  LET k == call[c] IN
  /\ profile[k.user] = "active"
  /\ SpendingEnabled
  /\ k.op = "unlock" =>
       /\ k.legacy \/ CancellationsOf(c) = {}
       /\ \A x \in ReceiptsOf(c) : x.terms = k.terms

\* The offer the client agreed to is the one on sale, and the balance covers it.
Affordable(c) ==
  LET k == call[c]
      p == policy[k.terms.episode] IN
  /\ p.mode \in Sold
  /\ p.coin_price = k.terms.price
  /\ p = k.terms.version
  /\ Balance(k.user) >= p.coin_price

\* Mutant of Decides: access is not evaluated again under the wallet lock.
DecidesOnce(c) ==
  LET k == call[c] IN
  /\ ReceiptsOf(c) = {}
  /\ IF k.op = "unlock"
     THEN Granted(k.user, k.terms.episode) \/ Affordable(c)
     ELSE CancellationsOf(c) = {}

\* With every lock held, the call writes something: a first receipt for an
\* unlock, a first terminal record for a resolution.
Decides(c) ==
  LET k == call[c] IN
  /\ ReceiptsOf(c) = {}
  /\ IF k.op = "unlock"
     THEN /\ listing[k.terms.episode] = "playable"
          /\ Granted(k.user, k.terms.episode) \/ Affordable(c)
     ELSE CancellationsOf(c) = {}

Charge(c) ==
  LET k == call[c] IN
  IF k.op = "resolve" \/ Granted(k.user, k.terms.episode)
  THEN 0 ELSE policy[k.terms.episode].coin_price

\* Mutants of LedgerAccepts and TerminalAccepts: a guard of the triggers is missing.
LedgerAcceptsAnyTotal(u, amount) == profile[u] = "active" /\ Balance(u) + amount \in Nat
TerminalAcceptsCancelled(c) == profile[call[c].user] = "active" /\ ReceiptsOf(c) = {}

\* The triggers and constraints of wallet/migrations: a live wallet, a balance
\* in range, a matching terminal record at most once per request, and one
\* entitlement per profile and episode.
LedgerAccepts(u, amount) ==
  /\ profile[u] = "active"
  /\ Balance(u) + amount \in 0..MaxBalance

TerminalAccepts(c) ==
  /\ profile[call[c].user] = "active"
  /\ ReceiptsOf(c) = {}
  /\ CancellationsOf(c) = {}

DatabaseAccepts(c) ==
  LET k == call[c] IN
  /\ TerminalAccepts(c)
  /\ k.charge > 0 => /\ LedgerAccepts(k.user, -k.charge)
                     /\ k.charge = k.terms.price
                     /\ listing[k.terms.episode] # "deleted"
                     /\ entitlement[k.user][k.terms.episode] = "none"

-----------------------------------------------------------------------------
(* One call of POST /v1/coins/unlock or /v1/coins/unlock/resolve. *)

\* Mutant of Released: locks of the session (pg_advisory_lock), not of the transaction.
ReleasedBySession(table, c) == [x \in DOMAIN table |-> IF c \in Calls THEN table[x] ELSE NoCall]

\* PostgreSQL drops every lock of a transaction when it ends.
Released(table, c) == [x \in DOMAIN table |-> IF table[x] = c THEN NoCall ELSE table[x]]

EndTransaction(c) ==
  /\ accountLock' = Released(accountLock, c)
  /\ catalogLock' = Released(catalogLock, c)
  /\ walletLock' = Released(walletLock, c)
  /\ call' = [call EXCEPT ![c] = Idle]

\* An authenticated request arrives: first, repeated, late or out of order.
Begin(c) ==
  /\ call[c].stage = "idle"
  /\ \E u \in Users, r \in Requests, t \in Terms, o \in {"unlock", "resolve"}, l \in BOOLEAN :
       /\ profile[u] = "active"
       /\ l => o = "unlock"
       /\ call' = [call EXCEPT ![c] = [stage |-> "account", op |-> o, user |-> u,
                                       request |-> r, terms |-> t, legacy |-> l,
                                       charge |-> 0]]
  /\ UNCHANGED <<database, locks>>

LockAccount(c) ==
  LET k == call[c] IN
  /\ k.stage = "account"
  /\ accountLock[k.user] = NoCall
  /\ Admissible(c)
  /\ accountLock' = [accountLock EXCEPT ![k.user] = c]
  /\ call' = [call EXCEPT ![c].stage = IF k.op = "unlock" THEN "catalog" ELSE "wallet"]
  /\ UNCHANGED <<database, catalogLock, walletLock>>

LockCatalog(c) ==
  LET k == call[c]
      s == SeriesOf[k.terms.episode] IN
  /\ k.stage = "catalog"
  /\ catalogLock[s] = NoCall
  /\ listing[k.terms.episode] = "playable"
  /\ catalogLock' = [catalogLock EXCEPT ![s] = c]
  /\ call' = [call EXCEPT ![c].stage = "wallet"]
  /\ UNCHANGED <<database, accountLock, walletLock>>

\* The wallet row is the last lock; access is evaluated again under it.
LockWallet(c) ==
  LET k == call[c] IN
  /\ k.stage = "wallet"
  /\ walletLock[k.user] = NoCall
  /\ Decides(c)
  /\ walletLock' = [walletLock EXCEPT ![k.user] = c]
  /\ call' = [call EXCEPT ![c].stage = "commit", ![c].charge = Charge(c)]
  /\ UNCHANGED <<database, accountLock, catalogLock>>

\* Debit, entitlement and receipt, in one transaction.
CommitUnlock(c) ==
  LET k == call[c] IN
  /\ k.stage = "commit"
  /\ k.op = "unlock"
  /\ DatabaseAccepts(c)
  /\ ledger' = [ledger EXCEPT ![k.user].spent = @ + k.charge]
  /\ entitlement' = IF k.charge > 0
                    THEN [entitlement EXCEPT ![k.user][k.terms.episode] = "coin"]
                    ELSE entitlement
  /\ receipts' = receipts \cup {[user |-> k.user, request |-> k.request,
                                 terms |-> k.terms, charged |-> k.charge]}
  /\ EndTransaction(c)
  /\ UNCHANGED <<profile, policy, listing, cancellations>>

CommitCancellation(c) ==
  LET k == call[c] IN
  /\ k.stage = "commit"
  /\ k.op = "resolve"
  /\ DatabaseAccepts(c)
  /\ cancellations' = cancellations \cup {[user |-> k.user, request |-> k.request,
                                           terms |-> k.terms]}
  /\ EndTransaction(c)
  /\ UNCHANGED <<profile, policy, listing, entitlement, ledger, receipts>>

\* The transaction ends without a write: 401, 404, 409, the stored terminal
\* record, or a row the database refuses.
Answer(c) ==
  LET k == call[c] IN
  /\ \/ /\ k.stage = "account"
        /\ accountLock[k.user] = NoCall
        /\ ~Admissible(c)
     \/ /\ k.stage = "catalog"
        /\ catalogLock[SeriesOf[k.terms.episode]] = NoCall
        /\ listing[k.terms.episode] # "playable"
     \/ /\ k.stage = "wallet"
        /\ walletLock[k.user] = NoCall
        /\ ~Decides(c)
     \/ /\ k.stage = "commit"
        /\ ~DatabaseAccepts(c)
  /\ EndTransaction(c)
  /\ UNCHANGED database

\* The worker is killed or loses its connection: PostgreSQL rolls back.
Crash(c) ==
  /\ call[c].stage # "idle"
  /\ EndTransaction(c)
  /\ UNCHANGED database

-----------------------------------------------------------------------------
(* The other writers.  Each takes its locks and commits in one step: what   *)
(* it does between them is invisible, and it waits while a call holds one.  *)

\* pg_advisory_xact_lock on the identity waits for the call that holds it.
Free(u) == accountLock[u] = NoCall

\* fulfill credits a verified purchase.
CreditPurchase(u) ==
  /\ Free(u)
  /\ walletLock[u] = NoCall
  /\ \E n \in Packs :
       /\ LedgerAccepts(u, n)
       /\ ledger' = [ledger EXCEPT ![u].purchased = @ + n]
  /\ UNCHANGED <<profile, policy, listing, entitlement, receipts, cancellations, locks, call>>

\* Mutant of GrantAccess: a manual grant overwrites a coin grant.
GrantAccessOverwrites(u, e) ==
  /\ Free(u)
  /\ catalogLock[SeriesOf[e]] = NoCall
  /\ profile[u] = "active"
  /\ listing[e] # "deleted"
  /\ \E s \in {"staff", "rewarded_ad"} :
       entitlement' = [entitlement EXCEPT ![u][e] = s]
  /\ UNCHANGED <<profile, policy, listing, ledger, receipts, cancellations, locks, call>>

\* grant_verified_reward, or staff adding or changing a manual grant.
GrantAccess(u, e) ==
  /\ Free(u)
  /\ catalogLock[SeriesOf[e]] = NoCall
  /\ profile[u] = "active"
  /\ listing[e] # "deleted"
  /\ entitlement[u][e] # "coin"
  /\ \E s \in {"staff", "rewarded_ad"} :
       entitlement' = [entitlement EXCEPT ![u][e] = s]
  /\ UNCHANGED <<profile, policy, listing, ledger, receipts, cancellations, locks, call>>

\* Mutant of RevokeAccess: staff can delete a coin grant.
RevokeAnyAccess(u, e) ==
  /\ Free(u)
  /\ catalogLock[SeriesOf[e]] = NoCall
  /\ entitlement' = [entitlement EXCEPT ![u][e] = "none"]
  /\ UNCHANGED <<profile, policy, listing, ledger, receipts, cancellations, locks, call>>

\* Staff deleting a manual grant; coin grants are read-only.
RevokeAccess(u, e) ==
  /\ Free(u)
  /\ catalogLock[SeriesOf[e]] = NoCall
  /\ entitlement[u][e] \in {"staff", "rewarded_ad"}
  /\ entitlement' = [entitlement EXCEPT ![u][e] = "none"]
  /\ UNCHANGED <<profile, policy, listing, ledger, receipts, cancellations, locks, call>>

\* Mutant of EditPolicy: the save does not take the series lock.
EditPolicyUnlocked(e) ==
  /\ listing[e] # "deleted"
  /\ \E p \in Policies : policy' = [policy EXCEPT ![e] = p]
  /\ UNCHANGED <<profile, listing, entitlement, ledger, receipts, cancellations, locks, call>>

\* An editor saves other access settings.
EditPolicy(e) ==
  /\ catalogLock[SeriesOf[e]] = NoCall
  /\ listing[e] # "deleted"
  /\ \E p \in Policies : policy' = [policy EXCEPT ![e] = p]
  /\ UNCHANGED <<profile, listing, entitlement, ledger, receipts, cancellations, locks, call>>

\* An editor deletes the episode; its entitlements go with it.
DeleteEpisode(e) ==
  /\ catalogLock[SeriesOf[e]] = NoCall
  /\ listing[e] # "deleted"
  /\ listing' = [listing EXCEPT ![e] = "deleted"]
  /\ entitlement' = [u \in Users |-> [entitlement[u] EXCEPT ![e] = "none"]]
  /\ UNCHANGED <<profile, policy, ledger, receipts, cancellations, locks, call>>

\* Rights begin or end with the clock, media becomes ready or is taken down:
\* none of it takes the catalog lock.
ChangeAvailability(e) ==
  /\ listing[e] # "deleted"
  /\ listing' = [listing EXCEPT ![e] = IF @ = "playable" THEN "unplayable" ELSE "playable"]
  /\ UNCHANGED <<profile, policy, entitlement, ledger, receipts, cancellations, locks, call>>

\* Mutants of DeleteAccount: without the account lock; leaving the entitlements.
DeleteAccountUnlocked(u) ==
  /\ profile[u] = "active"
  /\ profile' = [profile EXCEPT ![u] = "deleted"]
  /\ entitlement' = [entitlement EXCEPT ![u] = [e \in Episodes |-> "none"]]
  /\ UNCHANGED <<policy, listing, ledger, receipts, cancellations, locks, call>>
DeleteAccountKeepsAccess(u) ==
  /\ Free(u)
  /\ walletLock[u] = NoCall
  /\ profile[u] = "active"
  /\ profile' = [profile EXCEPT ![u] = "deleted"]
  /\ UNCHANGED <<policy, listing, entitlement, ledger, receipts, cancellations, locks, call>>

\* request_account_deletion: the profile and its entitlements go, the wallet is
\* detached and its records stay.
DeleteAccount(u) ==
  /\ Free(u)
  /\ walletLock[u] = NoCall
  /\ profile[u] = "active"
  /\ profile' = [profile EXCEPT ![u] = "deleted"]
  /\ entitlement' = [entitlement EXCEPT ![u] = [e \in Episodes |-> "none"]]
  /\ UNCHANGED <<policy, listing, ledger, receipts, cancellations, locks, call>>

-----------------------------------------------------------------------------
Advance(c) ==
  \/ LockAccount(c)
  \/ LockCatalog(c)
  \/ LockWallet(c)
  \/ CommitUnlock(c)
  \/ CommitCancellation(c)
  \/ Answer(c)

Next ==
  \/ \E c \in Calls : Begin(c) \/ Advance(c) \/ Crash(c)
  \/ \E u \in Users : CreditPurchase(u) \/ DeleteAccount(u)
  \/ \E u \in Users, e \in Episodes : GrantAccess(u, e) \/ RevokeAccess(u, e)
  \/ \E e \in Episodes : EditPolicy(e) \/ DeleteEpisode(e) \/ ChangeAvailability(e)

Spec == Init /\ [][Next]_vars

\* PostgreSQL queues lock waiters, so a waiting call is served in the end, and a
\* worker that is not killed keeps executing.
FairSpec == Spec /\ \A c \in Calls : SF_vars(Advance(c))
-----------------------------------------------------------------------------
(* Properties. *)

SameRequest(x, y) == x.user = y.user /\ x.request = y.request

\* A request ends once: one receipt at most, and never both a receipt and a
\* cancellation, whichever of unlock, resolve, a retry or a writer of the
\* previous release comes first.
OneTerminalOutcome ==
  /\ \A x, y \in receipts : SameRequest(x, y) => x = y
  /\ \A x, y \in cancellations : SameRequest(x, y) => x = y
  /\ \A x \in receipts, y \in cancellations : ~SameRequest(x, y)

\* What a call of the current code decided under its locks is still acceptable
\* to every trigger and constraint when it commits: the database guards of
\* wallet/migrations only ever stop a writer of the previous release whose
\* request was cancelled.
DecisionSurvivesToCommit ==
  \A c \in Calls :
    call[c].stage = "commit" =>
      DatabaseAccepts(c) \/ (call[c].legacy /\ CancellationsOf(c) # {})

\* Coins bought access that is still there: a charged episode that exists is a
\* coin entitlement of its live owner, whatever staff, rewards and editors do.
PaidAccessKept ==
  \A x \in receipts :
    /\ x.charged > 0
    /\ profile[x.user] = "active"
    /\ listing[x.terms.episode] # "deleted"
    => entitlement[x.user][x.terms.episode] = "coin"

\* No account pays twice for an episode, with any number of request ids.
ChargedOncePerEpisode ==
  \A x, y \in receipts :
    /\ x.user = y.user
    /\ x.terms.episode = y.terms.episode
    /\ x.charged > 0
    /\ y.charged > 0
    => x = y

\* At the instant a receipt charges, the terms the viewer agreed to are the
\* ones on sale, the viewer has no other access, and the account is live: no
\* editorial save, grant or deletion slips between the decision and the debit.
FairCharge ==
  \A x \in receipts' \ receipts :
    x.charged > 0 =>
      LET e == x.terms.episode IN
      /\ policy[e] = x.terms.version
      /\ policy[e].coin_price = x.charged
      /\ x.charged = x.terms.price
      /\ ~Granted(x.user, e)
      /\ profile[x.user] = "active"
FairCharges == [][FairCharge]_vars

\* Accounting only grows, and not at all once its account is deleted; nothing
\* brings a deleted account or its access back.
HistoryStep ==
  /\ receipts \subseteq receipts'
  /\ cancellations \subseteq cancellations'
  /\ \A u \in Users :
       profile[u] = "deleted" =>
         /\ profile'[u] = "deleted"
         /\ ledger'[u] = ledger[u]
         /\ entitlement'[u] = [e \in Episodes |-> "none"]
         /\ \A x \in (receipts' \ receipts) \cup (cancellations' \ cancellations) : x.user # u
HistoryKept == [][HistoryStep]_vars

\* Every call ends: nobody holds a lock for good.
CallsEnd == \A c \in Calls : call[c].stage # "idle" ~> call[c].stage = "idle"

-----------------------------------------------------------------------------
(* The wallet implements the account's promise. *)

Outcome(u, r) ==
  IF \E x \in receipts : x.user = u /\ x.request = r THEN "completed"
  ELSE IF \E x \in cancellations : x.user = u /\ x.request = r THEN "cancelled"
  ELSE "open"

Account == INSTANCE CoinAccount WITH
  standing <- profile,
  funds <- [u \in Users |-> Balance(u)],
  outcome <- [u \in Users |-> [r \in Requests |-> Outcome(u, r)]],
  access <- entitlement

\* Locks, offers, retries and rollbacks hidden, a behaviour of the wallet is a
\* behaviour of the abstract account.
ImplementsAccount == Account!Spec
=============================================================================
