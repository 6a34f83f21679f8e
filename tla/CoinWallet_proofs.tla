-------------------------- MODULE CoinWallet_proofs --------------------------
(***************************************************************************)
(* Safety of CoinWallet for every number of accounts, requests, episodes,  *)
(* policies, calls and every balance limit.                                *)
(***************************************************************************)
EXTENDS CoinWallet, TLAPS

Held == {"catalog", "wallet", "commit"}

\* A lock is held by exactly the calls whose stage says so.
LocksMatchCalls ==
  /\ \A u \in Users, c \in Calls :
       accountLock[u] = c <=> call[c].stage \in Held /\ call[c].user = u
  /\ \A s \in Series, c \in Calls :
       catalogLock[s] = c <=> /\ call[c].stage \in {"wallet", "commit"}
                              /\ call[c].op = "unlock"
                              /\ SeriesOf[call[c].terms.episode] = s
  /\ \A u \in Users, c \in Calls :
       walletLock[u] = c <=> call[c].stage = "commit" /\ call[c].user = u

\* What a call established under its account lock stays true while it holds it.
AccountFacts(c) ==
  call[c].stage \in Held =>
    /\ profile[call[c].user] = "active"
    /\ call[c].op = "unlock" => call[c].legacy \/ CancellationsOf(c) = {}
    /\ call[c].stage = "catalog" => call[c].op = "unlock"

\* An unlock that holds the catalog lock knows that the episode is not deleted.
CatalogFacts(c) ==
  call[c].stage \in {"wallet", "commit"} /\ call[c].op = "unlock" =>
    listing[call[c].terms.episode] # "deleted"

\* What it decided under the wallet lock.
DecisionFacts(c) ==
  call[c].stage = "commit" =>
    /\ ReceiptsOf(c) = {}
    /\ call[c].op = "resolve" => CancellationsOf(c) = {} /\ call[c].charge = 0
    /\ call[c].charge > 0 =>
         LET e == call[c].terms.episode IN
         /\ ~Granted(call[c].user, e)
         /\ policy[e] = call[c].terms.version
         /\ policy[e].coin_price = call[c].charge
         /\ call[c].terms.price = call[c].charge
         /\ Balance(call[c].user) >= call[c].charge

HoldersKnow == \A c \in Calls : AccountFacts(c) /\ CatalogFacts(c) /\ DecisionFacts(c)

\* A deleted account owns nothing.
DeletedOwnNothing ==
  \A u \in Users : profile[u] = "deleted" => entitlement[u] = [e \in Episodes |-> "none"]

Records ==
  OneTerminalOutcome /\ PaidAccessKept /\ ChargedOncePerEpisode /\ DeletedOwnNothing

IInv == TypeOK /\ LocksMatchCalls /\ HoldersKnow /\ Records

-----------------------------------------------------------------------------
(* Types. *)

\* A call that is not idle has a full record.
LEMMA RunningCall ==
  ASSUME TypeOK, NEW c \in Calls, call[c].stage # "idle"
  PROVE  call[c] \in Running
BY DEF TypeOK, Idle

\* Ending a transaction keeps the lock tables and the call table well typed.
LEMMA EndTransactionType ==
  ASSUME TypeOK, NEW c \in Calls, EndTransaction(c)
  PROVE  /\ accountLock' \in [Users -> Calls \cup {NoCall}]
         /\ catalogLock' \in [Series -> Calls \cup {NoCall}]
         /\ walletLock' \in [Users -> Calls \cup {NoCall}]
         /\ call' \in [Calls -> Running \cup {Idle}]
BY DEF TypeOK, EndTransaction, Released

\* Every step of a call keeps the types: a charge is a natural number and the
\* database only accepts a debit that leaves the balance in range.
LEMMA CallType ==
  ASSUME TypeOK, NEW c \in Calls, Begin(c) \/ Advance(c) \/ Crash(c)
  PROVE  TypeOK'
<1>1. CASE Begin(c)
  <2>1. call' \in [Calls -> Running \cup {Idle}]
    BY <1>1 DEF Begin, TypeOK, Running
  <2> QED BY <1>1, <2>1 DEF Begin, TypeOK, database, locks, Balance
<1>2. CASE LockAccount(c)
  <2>1. call[c] \in Running
    BY <1>2, RunningCall DEF LockAccount
  <2>2. call' \in [Calls -> Running \cup {Idle}]
    BY <1>2, <2>1 DEF LockAccount, TypeOK, Running
  <2>3. accountLock' \in [Users -> Calls \cup {NoCall}]
    BY <1>2, <2>1 DEF LockAccount, TypeOK, Running
  <2> QED BY <1>2, <2>2, <2>3 DEF LockAccount, TypeOK, database, Balance
<1>3. CASE LockCatalog(c)
  <2>1. call[c] \in Running
    BY <1>3, RunningCall DEF LockCatalog
  <2>2. call' \in [Calls -> Running \cup {Idle}]
    BY <1>3, <2>1 DEF LockCatalog, TypeOK, Running
  <2>3. catalogLock' \in [Series -> Calls \cup {NoCall}]
    BY <1>3 DEF LockCatalog, TypeOK
  <2> QED BY <1>3, <2>2, <2>3 DEF LockCatalog, TypeOK, database, Balance
<1>4. CASE LockWallet(c)
  <2>1. call[c] \in Running
    BY <1>4, RunningCall DEF LockWallet
  <2>2. Charge(c) \in Nat
    BY <2>1, PoliciesAssumption DEF Charge, TypeOK, Running
  <2>3. call' \in [Calls -> Running \cup {Idle}]
    BY <1>4, <2>1, <2>2 DEF LockWallet, TypeOK, Running
  <2>4. walletLock' \in [Users -> Calls \cup {NoCall}]
    BY <1>4 DEF LockWallet, TypeOK
  <2> QED BY <1>4, <2>3, <2>4 DEF LockWallet, TypeOK, database, Balance
<1>5. CASE CommitUnlock(c)
  <2>1. call[c] \in Running
    BY <1>5, RunningCall DEF CommitUnlock
  <2>2. EndTransaction(c)
    BY <1>5 DEF CommitUnlock
  <2>3. receipts' \subseteq Receipt
    BY <1>5, <2>1 DEF CommitUnlock, TypeOK, Running, Receipt
  <2>4. entitlement' \in [Users -> [Episodes -> Sources]]
    BY <1>5, <2>1, PoliciesAssumption DEF CommitUnlock, TypeOK, Running, Sources
  <2>5. call[c].charge > 0 => Balance(call[c].user) - call[c].charge \in 0..MaxBalance
    BY <1>5, <2>1 DEF CommitUnlock, DatabaseAccepts, LedgerAccepts, Running, TypeOK
  <2>6. /\ ledger' \in [Users -> [purchased: Nat, spent: Nat]]
        /\ \A u \in Users : (ledger'[u].purchased - ledger'[u].spent) \in 0..MaxBalance
    <3> DEFINE u == call[c].user
               n == call[c].charge
    <3>1. u \in Users /\ n \in Nat
      BY <2>1 DEF Running
    <3>2. ledger' = [ledger EXCEPT ![u].spent = @ + n]
      BY <1>5 DEF CommitUnlock
    <3>3. ledger[u].purchased - (ledger[u].spent + n) \in 0..MaxBalance
      <4>1. n = 0 \/ n > 0
        BY <3>1
      <4> QED BY <2>5, <3>1, <4>1, ConstantsAssumption DEF TypeOK, Balance
    <3> HIDE DEF u, n
    <3> QED BY <3>1, <3>2, <3>3 DEF TypeOK, Balance
  <2> QED BY <1>5, <2>2, <2>3, <2>4, <2>6, EndTransactionType DEF CommitUnlock, TypeOK, Balance
<1>6. CASE CommitCancellation(c)
  <2>1. call[c] \in Running
    BY <1>6, RunningCall DEF CommitCancellation
  <2>2. EndTransaction(c)
    BY <1>6 DEF CommitCancellation
  <2>3. cancellations' \subseteq Cancellation
    BY <1>6, <2>1 DEF CommitCancellation, TypeOK, Running, Cancellation
  <2> QED BY <1>6, <2>2, <2>3, EndTransactionType DEF CommitCancellation, TypeOK, Balance
<1>7. CASE Answer(c) \/ Crash(c)
  <2>1. EndTransaction(c) /\ UNCHANGED database
    BY <1>7 DEF Answer, Crash
  <2> QED BY <2>1, EndTransactionType DEF TypeOK, database, Balance
<1> QED BY <1>1, <1>2, <1>3, <1>4, <1>5, <1>6, <1>7 DEF Advance

\* Every other writer keeps the types: a credit stops at the balance limit.
OtherWriters ==
  \/ \E u \in Users : CreditPurchase(u) \/ DeleteAccount(u)
  \/ \E u \in Users, e \in Episodes : GrantAccess(u, e) \/ RevokeAccess(u, e)
  \/ \E e \in Episodes : EditPolicy(e) \/ DeleteEpisode(e) \/ ChangeAvailability(e)

LEMMA WriterType ==
  ASSUME TypeOK, OtherWriters
  PROVE  TypeOK'
<1>1. ASSUME NEW u \in Users, CreditPurchase(u)
      PROVE  TypeOK'
  <2>1. PICK n \in Packs : /\ LedgerAccepts(u, n)
                           /\ ledger' = [ledger EXCEPT ![u].purchased = @ + n]
    BY <1>1 DEF CreditPurchase
  <2>2. /\ ledger' \in [Users -> [purchased: Nat, spent: Nat]]
        /\ \A v \in Users : (ledger'[v].purchased - ledger'[v].spent) \in 0..MaxBalance
    <3>1. n \in Nat
      BY ConstantsAssumption
    <3>2. ledger[u].purchased + n - ledger[u].spent \in 0..MaxBalance
      BY <2>1, <3>1, ConstantsAssumption DEF LedgerAccepts, TypeOK, Balance
    <3> QED BY <2>1, <3>1, <3>2 DEF TypeOK, Balance
  <2> QED BY <1>1, <2>2 DEF CreditPurchase, TypeOK, locks, Balance
<1>2. ASSUME NEW u \in Users, DeleteAccount(u)
      PROVE  TypeOK'
  <2>1. entitlement' \in [Users -> [Episodes -> Sources]]
    BY <1>2 DEF DeleteAccount, TypeOK, Sources
  <2> QED BY <1>2, <2>1 DEF DeleteAccount, TypeOK, locks, Balance
<1>3. ASSUME NEW u \in Users, NEW e \in Episodes, GrantAccess(u, e) \/ RevokeAccess(u, e)
      PROVE  TypeOK'
  <2>1. entitlement' \in [Users -> [Episodes -> Sources]]
    <3>1. \E x \in Sources : entitlement' = [entitlement EXCEPT ![u][e] = x]
      BY <1>3 DEF GrantAccess, RevokeAccess, Sources
    <3> QED BY <3>1 DEF TypeOK
  <2> QED BY <1>3, <2>1 DEF GrantAccess, RevokeAccess, TypeOK, locks, Balance
<1>4. ASSUME NEW e \in Episodes, EditPolicy(e) \/ ChangeAvailability(e)
      PROVE  TypeOK'
  BY <1>4 DEF EditPolicy, ChangeAvailability, TypeOK, locks, Balance
<1>5. ASSUME NEW e \in Episodes, DeleteEpisode(e)
      PROVE  TypeOK'
  <2>1. entitlement' \in [Users -> [Episodes -> Sources]]
    BY <1>5 DEF DeleteEpisode, TypeOK, Sources
  <2> QED BY <1>5, <2>1 DEF DeleteEpisode, TypeOK, locks, Balance
<1> QED BY <1>1, <1>2, <1>3, <1>4, <1>5 DEF OtherWriters

\* Every step of the specification keeps the types.
LEMMA TypeStep == TypeOK /\ [Next]_vars => TypeOK'
<1>1. ASSUME TypeOK, UNCHANGED vars
      PROVE  TypeOK'
  BY <1>1 DEF vars, database, locks, TypeOK, Balance
<1> QED BY <1>1, CallType, WriterType DEF Next, OtherWriters

\* The wallet starts empty, within the balance limit.
LEMMA TypeInit == Init => TypeOK
BY ConstantsAssumption DEF Init, TypeOK, Balance, Sources

\* Type correctness, with every balance between zero and MAX_BALANCE_COINS.
THEOREM TypeCorrect == Spec => []TypeOK
BY TypeInit, TypeStep, PTL DEF Spec

-----------------------------------------------------------------------------
(* Locks. *)

\* Ending a transaction frees the locks of that call and of no other.
LEMMA EndTransactionLocks ==
  ASSUME TypeOK, LocksMatchCalls, NEW c \in Calls, EndTransaction(c)
  PROVE  LocksMatchCalls'
<1>1. /\ call'[c] = Idle
      /\ \A d \in Calls \ {c} : call'[d] = call[d]
  BY DEF EndTransaction, TypeOK
<1>2. \A u \in Users, d \in Calls : accountLock'[u] = d <=> accountLock[u] = d /\ d # c
  BY ConstantsAssumption DEF EndTransaction, Released, TypeOK
<1>3. \A s \in Series, d \in Calls : catalogLock'[s] = d <=> catalogLock[s] = d /\ d # c
  BY ConstantsAssumption DEF EndTransaction, Released, TypeOK
<1>4. \A u \in Users, d \in Calls : walletLock'[u] = d <=> walletLock[u] = d /\ d # c
  BY ConstantsAssumption DEF EndTransaction, Released, TypeOK
<1> QED BY <1>1, <1>2, <1>3, <1>4 DEF LocksMatchCalls, Idle, Held

\* Every step keeps lock tables and calls in agreement.
LEMMA LockStep ==
  ASSUME TypeOK, LocksMatchCalls, HoldersKnow, [Next]_vars
  PROVE  LocksMatchCalls'
<1>1. ASSUME NEW c \in Calls, Begin(c)
      PROVE  LocksMatchCalls'
  <2>1. /\ call'[c].stage = "account"
        /\ \A d \in Calls \ {c} : call'[d] = call[d]
    BY <1>1 DEF Begin, TypeOK
  <2> QED BY <1>1, <2>1 DEF Begin, LocksMatchCalls, Held, locks
<1>2. ASSUME NEW c \in Calls, LockAccount(c)
      PROVE  LocksMatchCalls'
  <2>1. call[c] \in Running /\ call[c].stage = "account"
    BY <1>2, RunningCall DEF LockAccount
  <2>2. /\ call'[c] = [call[c] EXCEPT !.stage = IF call[c].op = "unlock" THEN "catalog" ELSE "wallet"]
        /\ \A d \in Calls \ {c} : call'[d] = call[d]
    BY <1>2 DEF LockAccount, TypeOK
  <2>3. /\ call'[c].stage \in {"catalog", "wallet"}
        /\ call'[c].stage = "wallet" => call'[c].op # "unlock"
        /\ call'[c].user = call[c].user
    BY <2>1, <2>2 DEF Running
  <2>4. \A u \in Users, d \in Calls :
          accountLock'[u] = d <=> accountLock[u] = d \/ (u = call[c].user /\ d = c)
    BY <1>2, <2>1, ConstantsAssumption DEF LockAccount, TypeOK, Running
  <2> QED BY <1>2, <2>1, <2>2, <2>3, <2>4 DEF LockAccount, LocksMatchCalls, Held
<1>3. ASSUME NEW c \in Calls, LockCatalog(c)
      PROVE  LocksMatchCalls'
  <2>1. call[c] \in Running /\ call[c].stage = "catalog"
    BY <1>3, RunningCall DEF LockCatalog
  <2>2. call[c].op = "unlock"
    BY <2>1 DEF HoldersKnow, AccountFacts, Held
  <2>3. /\ call'[c] = [call[c] EXCEPT !.stage = "wallet"]
        /\ \A d \in Calls \ {c} : call'[d] = call[d]
    BY <1>3 DEF LockCatalog, TypeOK
  <2>4. /\ call'[c].stage = "wallet"
        /\ call'[c].op = call[c].op
        /\ call'[c].user = call[c].user
        /\ call'[c].terms = call[c].terms
    BY <2>1, <2>3 DEF Running
  <2>5. \A s \in Series, d \in Calls :
          catalogLock'[s] = d <=>
            catalogLock[s] = d \/ (s = SeriesOf[call[c].terms.episode] /\ d = c)
    BY <1>3, <2>1, ConstantsAssumption DEF LockCatalog, TypeOK
  <2> QED BY <1>3, <2>1, <2>2, <2>3, <2>4, <2>5 DEF LockCatalog, LocksMatchCalls, Held
<1>4. ASSUME NEW c \in Calls, LockWallet(c)
      PROVE  LocksMatchCalls'
  <2>1. call[c] \in Running /\ call[c].stage = "wallet"
    BY <1>4, RunningCall DEF LockWallet
  <2>2. /\ call'[c] = [call[c] EXCEPT !.stage = "commit", !.charge = Charge(c)]
        /\ \A d \in Calls \ {c} : call'[d] = call[d]
    BY <1>4 DEF LockWallet, TypeOK
  <2>3. /\ call'[c].stage = "commit"
        /\ call'[c].op = call[c].op
        /\ call'[c].user = call[c].user
        /\ call'[c].terms = call[c].terms
    BY <2>1, <2>2 DEF Running
  <2>4. \A u \in Users, d \in Calls :
          walletLock'[u] = d <=> walletLock[u] = d \/ (u = call[c].user /\ d = c)
    BY <1>4, <2>1, ConstantsAssumption DEF LockWallet, TypeOK
  <2>5. UNCHANGED <<accountLock, catalogLock>>
    BY <1>4 DEF LockWallet
  <2>6. ASSUME NEW d \in Calls, d # c
        PROVE  call'[d] = call[d]
    BY <2>2, <2>6
  <2>7. ASSUME NEW u \in Users, NEW d \in Calls
        PROVE  /\ walletLock'[u] = d <=> call'[d].stage = "commit" /\ call'[d].user = u
               /\ accountLock'[u] = d <=> call'[d].stage \in Held /\ call'[d].user = u
    <3>1. CASE d = c
      BY <2>1, <2>3, <2>4, <2>5, <3>1 DEF LocksMatchCalls, Held
    <3>2. CASE d # c
      BY <2>4, <2>5, <2>6, <3>2 DEF LocksMatchCalls
    <3> QED BY <3>1, <3>2
  <2>8. ASSUME NEW s \in Series, NEW d \in Calls
        PROVE  catalogLock'[s] = d <=> /\ call'[d].stage \in {"wallet", "commit"}
                                       /\ call'[d].op = "unlock"
                                       /\ SeriesOf[call'[d].terms.episode] = s
    <3>1. CASE d = c
      BY <2>1, <2>3, <2>5, <3>1 DEF LocksMatchCalls
    <3>2. CASE d # c
      BY <2>5, <2>6, <3>2 DEF LocksMatchCalls
    <3> QED BY <3>1, <3>2
  <2> QED BY <2>7, <2>8 DEF LocksMatchCalls
<1>5. ASSUME NEW c \in Calls, CommitUnlock(c) \/ CommitCancellation(c) \/ Answer(c) \/ Crash(c)
      PROVE  LocksMatchCalls'
  <2>1. EndTransaction(c)
    BY <1>5 DEF CommitUnlock, CommitCancellation, Answer, Crash
  <2> QED BY <2>1, EndTransactionLocks
<1>6. CASE OtherWriters
  <2>1. UNCHANGED <<locks, call>>
    BY <1>6 DEF OtherWriters, CreditPurchase, DeleteAccount, GrantAccess, RevokeAccess,
                EditPolicy, DeleteEpisode, ChangeAvailability
  <2> QED BY <2>1 DEF LocksMatchCalls, locks
<1>7. CASE UNCHANGED vars
  BY <1>7 DEF LocksMatchCalls, vars, locks
<1> QED BY <1>1, <1>2, <1>3, <1>4, <1>5, <1>6, <1>7 DEF Next, Advance, OtherWriters

-----------------------------------------------------------------------------
(* What lock holders know. *)

Owned(table, u) == {x \in table : x.user = u}

Facts(c) == AccountFacts(c) /\ CatalogFacts(c) /\ DecisionFacts(c)

\* A holder's facts only read its own account and its own locked episode.
LEMMA FactsFrame ==
  ASSUME TypeOK, NEW d \in Calls, Facts(d), call'[d] = call[d],
         call[d].stage \in Held =>
           LET u == call[d].user IN
           /\ profile'[u] = profile[u]
           /\ ledger'[u] = ledger[u]
           /\ entitlement'[u] = entitlement[u]
           /\ Owned(receipts', u) = Owned(receipts, u)
           /\ Owned(cancellations', u) = Owned(cancellations, u),
         call[d].stage \in {"wallet", "commit"} /\ call[d].op = "unlock" =>
           LET e == call[d].terms.episode IN
           /\ policy'[e] = policy[e]
           /\ listing[e] # "deleted" => listing'[e] # "deleted"
  PROVE  Facts(d)'
<1>1. CASE call[d].stage \notin Held
  BY <1>1 DEF Facts, AccountFacts, CatalogFacts, DecisionFacts, Held
<1>2. CASE call[d].stage \in Held
  <2>1. call[d] \in Running
    BY <1>2, RunningCall DEF Held
  <2>2. ReceiptsOf(d)' = ReceiptsOf(d) /\ CancellationsOf(d)' = CancellationsOf(d)
    BY <1>2 DEF ReceiptsOf, CancellationsOf, Owned
  <2>3. AccountFacts(d)'
    BY <1>2, <2>2 DEF Facts, AccountFacts
  <2>4. CatalogFacts(d)'
    BY <1>2 DEF Facts, CatalogFacts
  <2>5. DecisionFacts(d)'
    <3>1. CASE call[d].op = "unlock"
      BY <1>2, <2>2, <3>1 DEF Facts, DecisionFacts, Granted, Balance
    <3>2. CASE call[d].op = "resolve"
      <4>1. call[d].stage = "commit" => ~(call[d].charge > 0)
        BY <3>2 DEF Facts, DecisionFacts
      <4> QED BY <1>2, <2>2, <3>2, <4>1 DEF Facts, DecisionFacts
    <3> QED BY <2>1, <3>1, <3>2 DEF Running
  <2> QED BY <2>3, <2>4, <2>5 DEF Facts
<1> QED BY <1>1, <1>2

\* Two calls that hold their account locks are calls of two accounts.
LEMMA HoldersDiffer ==
  ASSUME TypeOK, LocksMatchCalls, NEW c \in Calls, NEW d \in Calls, c # d,
         call[c].stage \in Held, call[d].stage \in Held
  PROVE  call[c].user # call[d].user
<1>1. call[c] \in Running
  BY RunningCall DEF Held
<1> QED BY <1>1 DEF LocksMatchCalls, Running

\* Every step of a call keeps what every call knows.
LEMMA CallFacts ==
  ASSUME TypeOK, LocksMatchCalls, HoldersKnow, NEW c \in Calls,
         Begin(c) \/ Advance(c) \/ Crash(c)
  PROVE  HoldersKnow'
<1> SUFFICES ASSUME NEW d \in Calls PROVE Facts(d)'
  BY DEF HoldersKnow, Facts
<1>0. Facts(d) /\ Facts(c)
  BY DEF HoldersKnow, Facts
<1>1. CASE Begin(c) \/ LockAccount(c) \/ LockCatalog(c) \/ LockWallet(c)
           \/ Answer(c) \/ Crash(c)
  <2>1. UNCHANGED database
    BY <1>1 DEF Begin, LockAccount, LockCatalog, LockWallet, Answer, Crash
  <2>2. CASE d # c
    <3>1. call'[d] = call[d]
      BY <1>1, <2>2 DEF Begin, LockAccount, LockCatalog, LockWallet, Answer, Crash,
                        EndTransaction, TypeOK
    <3> QED BY <1>0, <2>1, <3>1, FactsFrame DEF database
  <2>3. CASE d = c /\ (Begin(c) \/ Answer(c) \/ Crash(c))
    <3>1. call'[d].stage \in {"account", "idle"}
      BY <2>3 DEF Begin, Answer, Crash, EndTransaction, TypeOK, Idle
    <3> QED BY <3>1 DEF Facts, AccountFacts, CatalogFacts, DecisionFacts, Held
  <2>4. CASE d = c /\ LockAccount(c)
    <3>1. call[c] \in Running
      BY <2>4, RunningCall DEF LockAccount
    <3>2. call'[c] = [call[c] EXCEPT !.stage = IF call[c].op = "unlock" THEN "catalog" ELSE "wallet"]
      BY <2>4 DEF LockAccount, TypeOK
    <3>3. /\ call'[c].op = call[c].op
          /\ call'[c].user = call[c].user
          /\ call'[c].request = call[c].request
          /\ call'[c].legacy = call[c].legacy
          /\ call'[c].stage = IF call[c].op = "unlock" THEN "catalog" ELSE "wallet"
      BY <3>1, <3>2 DEF Running
    <3>4. CancellationsOf(c)' = CancellationsOf(c)
      BY <2>1, <3>3 DEF CancellationsOf, database
    <3>5. AccountFacts(c)'
      BY <2>1, <2>4, <3>3, <3>4 DEF LockAccount, Admissible, AccountFacts, database
    <3> QED BY <2>4, <3>3, <3>5 DEF Facts, CatalogFacts, DecisionFacts
  <2>5. CASE d = c /\ LockCatalog(c)
    <3>1. call[c] \in Running /\ call[c].stage = "catalog"
      BY <2>5, RunningCall DEF LockCatalog
    <3>2. call'[c] = [call[c] EXCEPT !.stage = "wallet"]
      BY <2>5 DEF LockCatalog, TypeOK
    <3>3. /\ call'[c].op = call[c].op
          /\ call'[c].user = call[c].user
          /\ call'[c].request = call[c].request
          /\ call'[c].terms = call[c].terms
          /\ call'[c].legacy = call[c].legacy
          /\ call'[c].stage = "wallet"
      BY <3>1, <3>2 DEF Running
    <3>4. CancellationsOf(c)' = CancellationsOf(c)
      BY <2>1, <3>3 DEF CancellationsOf, database
    <3>5. AccountFacts(c)'
      BY <1>0, <2>1, <3>1, <3>3, <3>4 DEF Facts, AccountFacts, Held, database
    <3>6. CatalogFacts(c)'
      BY <2>1, <2>5, <3>3 DEF LockCatalog, CatalogFacts, database
    <3> QED BY <2>5, <3>3, <3>5, <3>6 DEF Facts, DecisionFacts
  <2>6. CASE d = c /\ LockWallet(c)
    <3>1. call[c] \in Running /\ call[c].stage = "wallet" /\ Decides(c)
      BY <2>6, RunningCall DEF LockWallet
    <3>2. call'[c] = [call[c] EXCEPT !.stage = "commit", !.charge = Charge(c)]
      BY <2>6 DEF LockWallet, TypeOK
    <3>3. /\ call'[c].op = call[c].op
          /\ call'[c].user = call[c].user
          /\ call'[c].request = call[c].request
          /\ call'[c].terms = call[c].terms
          /\ call'[c].legacy = call[c].legacy
          /\ call'[c].stage = "commit"
          /\ call'[c].charge = Charge(c)
      BY <3>1, <3>2 DEF Running
    <3>4. CancellationsOf(c)' = CancellationsOf(c) /\ ReceiptsOf(c)' = ReceiptsOf(c)
      BY <2>1, <3>3 DEF CancellationsOf, ReceiptsOf, database
    <3>5. AccountFacts(c)'
      BY <1>0, <2>1, <3>1, <3>3, <3>4 DEF Facts, AccountFacts, Held, database
    <3>6. CatalogFacts(c)'
      BY <1>0, <2>1, <3>1, <3>3 DEF Facts, CatalogFacts, database
    <3>7. /\ ReceiptsOf(c) = {}
          /\ call[c].op = "resolve" => CancellationsOf(c) = {} /\ Charge(c) = 0
      BY <3>1 DEF Decides, Charge
    <3>8. Charge(c) > 0 =>
            LET e == call[c].terms.episode IN
            /\ ~Granted(call[c].user, e)
            /\ policy[e] = call[c].terms.version
            /\ policy[e].coin_price = Charge(c)
            /\ call[c].terms.price = Charge(c)
            /\ Balance(call[c].user) >= Charge(c)
      BY <3>1 DEF Decides, Charge, Affordable, Running
    <3>9. DecisionFacts(c)'
      BY <2>1, <3>3, <3>4, <3>7, <3>8 DEF DecisionFacts, Granted, Balance, database
    <3> QED BY <2>6, <3>5, <3>6, <3>9 DEF Facts
  <2> QED BY <1>1, <2>2, <2>3, <2>4, <2>5, <2>6
<1>2. CASE CommitUnlock(c) \/ CommitCancellation(c)
  <2>1. /\ call[c] \in Running
        /\ call[c].stage = "commit"
        /\ EndTransaction(c)
        /\ UNCHANGED <<profile, policy, listing>>
    BY <1>2, RunningCall DEF CommitUnlock, CommitCancellation
  <2>2. CASE d = c
    <3>1. call'[d] = Idle
      BY <2>1, <2>2 DEF EndTransaction, TypeOK
    <3> QED BY <3>1 DEF Facts, AccountFacts, CatalogFacts, DecisionFacts, Held, Idle
  <2>3. CASE d # c
    <3>1. call'[d] = call[d]
      BY <2>1, <2>3 DEF EndTransaction, TypeOK
    <3>2. CASE call[d].stage \notin Held
      BY <1>0, <3>1, <3>2, FactsFrame DEF Held
    <3>3. CASE call[d].stage \in Held
      <4> DEFINE u == call[d].user
      <4>1. u # call[c].user /\ call[d] \in Running
        BY <2>1, <2>3, <3>3, HoldersDiffer, RunningCall DEF Held
      <4>2. /\ ledger'[u] = ledger[u]
            /\ entitlement'[u] = entitlement[u]
        BY <1>2, <2>1, <4>1 DEF CommitUnlock, CommitCancellation, TypeOK, Running
      <4>3. /\ Owned(receipts', u) = Owned(receipts, u)
            /\ Owned(cancellations', u) = Owned(cancellations, u)
        BY <1>2, <4>1 DEF CommitUnlock, CommitCancellation, Owned
      <4> QED BY <1>0, <2>1, <3>1, <4>2, <4>3, FactsFrame
    <3> QED BY <3>2, <3>3
  <2> QED BY <2>2, <2>3
<1> QED BY <1>1, <1>2 DEF Advance

\* Account locks are held by the calls that hold facts about the account.
LEMMA HolderLocks ==
  ASSUME TypeOK, LocksMatchCalls, NEW d \in Calls
  PROVE  /\ call[d].stage \in Held => call[d].user \in Users /\ ~Free(call[d].user)
         /\ call[d].stage \in {"wallet", "commit"} /\ call[d].op = "unlock" =>
              /\ call[d].terms.episode \in Episodes
              /\ catalogLock[SeriesOf[call[d].terms.episode]] # NoCall
<1>1. CASE call[d].stage \in Held
  <2>1. call[d] \in Running
    BY <1>1, RunningCall DEF Held
  <2>2. call[d].user \in Users /\ call[d].terms \in Terms
    BY <2>1 DEF Running
  <2>3. call[d].terms.episode \in Episodes /\ SeriesOf[call[d].terms.episode] \in Series
    BY <2>2, PoliciesAssumption, ConstantsAssumption
  <2> QED BY <1>1, <2>2, <2>3, ConstantsAssumption DEF LocksMatchCalls, Held, Free
<1> QED BY <1>1 DEF Held

\* The other writers respect the locks, so they change nothing a call knows.
LEMMA WriterFacts ==
  ASSUME TypeOK, LocksMatchCalls, HoldersKnow, OtherWriters
  PROVE  HoldersKnow'
<1> SUFFICES ASSUME NEW d \in Calls PROVE Facts(d)'
  BY DEF HoldersKnow, Facts
<1>0. Facts(d)
  BY DEF HoldersKnow, Facts
<1>1. /\ call' = call
      /\ receipts' = receipts
      /\ cancellations' = cancellations
  BY DEF OtherWriters, CreditPurchase, DeleteAccount, GrantAccess, RevokeAccess,
         EditPolicy, DeleteEpisode, ChangeAvailability
<1>2. ASSUME NEW u \in Users, CreditPurchase(u) \/ DeleteAccount(u)
      PROVE  Facts(d)'
  <2>1. Free(u) /\ UNCHANGED <<policy, listing>>
    BY <1>2 DEF CreditPurchase, DeleteAccount
  <2>2. \A v \in Users \ {u} : /\ profile'[v] = profile[v]
                               /\ ledger'[v] = ledger[v]
                               /\ entitlement'[v] = entitlement[v]
    BY <1>2 DEF CreditPurchase, DeleteAccount, TypeOK
  <2> QED BY <1>0, <1>1, <2>1, <2>2, HolderLocks, FactsFrame
<1>3. ASSUME NEW u \in Users, NEW e \in Episodes, GrantAccess(u, e) \/ RevokeAccess(u, e)
      PROVE  Facts(d)'
  <2>1. Free(u) /\ UNCHANGED <<profile, ledger, policy, listing>>
    BY <1>3 DEF GrantAccess, RevokeAccess
  <2>2. \A v \in Users \ {u} : entitlement'[v] = entitlement[v]
    BY <1>3 DEF GrantAccess, RevokeAccess, TypeOK
  <2> QED BY <1>0, <1>1, <2>1, <2>2, HolderLocks, FactsFrame
<1>4. ASSUME NEW e \in Episodes, EditPolicy(e)
      PROVE  Facts(d)'
  <2>1. catalogLock[SeriesOf[e]] = NoCall /\ UNCHANGED <<profile, ledger, entitlement, listing>>
    BY <1>4 DEF EditPolicy
  <2>2. \A f \in Episodes \ {e} : policy'[f] = policy[f]
    BY <1>4 DEF EditPolicy, TypeOK
  <2> QED BY <1>0, <1>1, <2>1, <2>2, HolderLocks, FactsFrame
<1>5. ASSUME NEW e \in Episodes, ChangeAvailability(e)
      PROVE  Facts(d)'
  <2>1. UNCHANGED <<profile, ledger, entitlement, policy>>
    BY <1>5 DEF ChangeAvailability
  <2>2. \A f \in Episodes : listing[f] # "deleted" => listing'[f] # "deleted"
    BY <1>5 DEF ChangeAvailability, TypeOK
  <2> QED BY <1>0, <1>1, <2>1, <2>2, HolderLocks, FactsFrame
<1>6. ASSUME NEW e \in Episodes, DeleteEpisode(e)
      PROVE  Facts(d)'
  <2>1. catalogLock[SeriesOf[e]] = NoCall /\ UNCHANGED <<profile, ledger, policy>>
    BY <1>6 DEF DeleteEpisode
  <2>2. /\ \A f \in Episodes \ {e} : listing'[f] = listing[f]
        /\ \A v \in Users, f \in Episodes \ {e} : entitlement'[v][f] = entitlement[v][f]
    BY <1>6 DEF DeleteEpisode, TypeOK
  <2>3. CASE call[d].stage \notin Held
    BY <1>1, <2>3 DEF Facts, AccountFacts, CatalogFacts, DecisionFacts, Held
  <2>4. CASE call[d].stage \in Held
    <3>1. call[d] \in Running /\ call[d].user \in Users
      BY <2>4, RunningCall, HolderLocks DEF Held
    <3>2. AccountFacts(d)'
      BY <1>0, <1>1, <2>1 DEF Facts, AccountFacts, CancellationsOf
    <3>3. CatalogFacts(d)'
      BY <1>0, <1>1, <2>1, <2>2, HolderLocks DEF Facts, CatalogFacts
    <3>4. DecisionFacts(d)'
      <4>1. CASE call[d].op = "unlock" /\ call[d].stage = "commit"
        <5>1. call[d].terms.episode \in Episodes \ {e}
          BY <2>1, <4>1, HolderLocks
        <5> QED BY <1>0, <1>1, <2>1, <2>2, <3>1, <4>1, <5>1
                DEF Facts, DecisionFacts, ReceiptsOf, CancellationsOf, Granted, Balance
      <4>2. CASE call[d].op = "resolve" \/ call[d].stage # "commit"
        BY <1>0, <1>1, <2>1, <4>2
           DEF Facts, DecisionFacts, ReceiptsOf, CancellationsOf
      <4> QED BY <3>1, <4>1, <4>2 DEF Running
    <3> QED BY <3>2, <3>3, <3>4 DEF Facts
  <2> QED BY <2>3, <2>4
<1> QED BY <1>2, <1>3, <1>4, <1>5, <1>6 DEF OtherWriters

-----------------------------------------------------------------------------
(* Records. *)

\* A new receipt is the first and only record of its request, and the only one
\* that charges its episode to its account.
LEMMA UnlockRecords ==
  ASSUME TypeOK, LocksMatchCalls, HoldersKnow, Records, NEW c \in Calls, CommitUnlock(c)
  PROVE  Records'
<1> DEFINE k == call[c]
           new == [user |-> k.user, request |-> k.request, terms |-> k.terms, charged |-> k.charge]
<1>1. k \in Running
  BY RunningCall DEF CommitUnlock
<1>2. /\ k.user \in Users /\ k.request \in Requests /\ k.terms \in Terms /\ k.charge \in Nat
      /\ k.terms.episode \in Episodes
  BY <1>1, PoliciesAssumption DEF Running
<1>3. /\ receipts' = receipts \cup {new}
      /\ UNCHANGED <<profile, policy, listing, cancellations>>
      /\ DatabaseAccepts(c)
  BY DEF CommitUnlock
<1>4. \/ k.charge = 0 /\ entitlement' = entitlement
      \/ k.charge > 0 /\ entitlement' = [entitlement EXCEPT ![k.user][k.terms.episode] = "coin"]
  BY <1>2 DEF CommitUnlock
<1>5. /\ \A x \in receipts : ~(x.user = k.user /\ x.request = k.request)
      /\ \A x \in cancellations : ~(x.user = k.user /\ x.request = k.request)
      /\ profile[k.user] = "active"
  BY <1>3 DEF DatabaseAccepts, TerminalAccepts, ReceiptsOf, CancellationsOf
<1>6. OneTerminalOutcome'
  BY <1>3, <1>5 DEF Records, OneTerminalOutcome, SameRequest
<1>7. \A u \in Users, e \in Episodes :
        entitlement'[u][e] = IF u = k.user /\ e = k.terms.episode /\ k.charge > 0
                             THEN "coin" ELSE entitlement[u][e]
  BY <1>2, <1>4 DEF TypeOK
<1>8. PaidAccessKept'
  <2> SUFFICES ASSUME NEW x \in receipts', x.charged > 0, profile[x.user] = "active",
                      listing[x.terms.episode] # "deleted"
               PROVE  entitlement'[x.user][x.terms.episode] = "coin"
    BY <1>3 DEF PaidAccessKept
  <2>1. CASE x \in receipts
    <3>1. entitlement[x.user][x.terms.episode] = "coin"
      BY <2>1 DEF Records, PaidAccessKept
    <3>2. x.user \in Users /\ x.terms.episode \in Episodes
      BY <2>1, PoliciesAssumption DEF TypeOK, Receipt
    <3> QED BY <1>7, <3>1, <3>2
  <2>2. CASE x = new
    BY <1>2, <1>7, <2>2
  <2> QED BY <1>3, <2>1, <2>2
<1>9. ChargedOncePerEpisode'
  <2>1. ASSUME NEW x \in receipts, x.charged > 0, k.charge > 0,
               x.user = k.user, x.terms.episode = k.terms.episode
        PROVE  FALSE
    <3>1. /\ listing[k.terms.episode] # "deleted"
          /\ entitlement[k.user][k.terms.episode] = "none"
      BY <1>3, <2>1 DEF DatabaseAccepts
    <3> QED BY <1>5, <2>1, <3>1 DEF Records, PaidAccessKept
  <2> QED BY <1>3, <2>1 DEF Records, ChargedOncePerEpisode
<1>10. DeletedOwnNothing'
  <2> SUFFICES ASSUME NEW u \in Users, profile[u] = "deleted"
               PROVE  entitlement'[u] = [e \in Episodes |-> "none"]
    BY <1>3 DEF DeletedOwnNothing
  <2>1. entitlement'[u] = entitlement[u]
    BY <1>2, <1>4, <1>5 DEF TypeOK
  <2> QED BY <2>1 DEF Records, DeletedOwnNothing
<1> QED BY <1>6, <1>8, <1>9, <1>10 DEF Records

\* A step that leaves the records and everything they are about alone.
LEMMA RecordsFrame ==
  ASSUME Records, UNCHANGED <<receipts, cancellations, profile, entitlement>>,
         \A e \in Episodes : listing[e] = "deleted" => listing'[e] = "deleted",
         TypeOK
  PROVE  Records'
<1>1. \A x \in receipts : x.terms.episode \in Episodes
  BY PoliciesAssumption DEF TypeOK, Receipt
<1> QED BY <1>1 DEF Records, OneTerminalOutcome, PaidAccessKept, ChargedOncePerEpisode,
                    DeletedOwnNothing

\* Every step keeps the records consistent with each other and with access.
LEMMA RecordsStep ==
  ASSUME IInv, [Next]_vars
  PROVE  Records'
<1> USE DEF IInv
<1>1. ASSUME NEW c \in Calls, Begin(c) \/ LockAccount(c) \/ LockCatalog(c) \/ LockWallet(c)
                              \/ Answer(c) \/ Crash(c)
      PROVE  Records'
  <2>1. UNCHANGED database
    BY <1>1 DEF Begin, LockAccount, LockCatalog, LockWallet, Answer, Crash
  <2> QED BY <2>1, RecordsFrame DEF database
<1>2. ASSUME NEW c \in Calls, CommitUnlock(c)
      PROVE  Records'
  BY <1>2, UnlockRecords
<1>3. ASSUME NEW c \in Calls, CommitCancellation(c)
      PROVE  Records'
  <2> DEFINE new == [user |-> call[c].user, request |-> call[c].request, terms |-> call[c].terms]
  <2>1. /\ cancellations' = cancellations \cup {new}
        /\ UNCHANGED <<profile, policy, listing, entitlement, ledger, receipts>>
        /\ DatabaseAccepts(c)
    BY <1>3 DEF CommitCancellation
  <2>2. /\ \A x \in receipts : ~(x.user = call[c].user /\ x.request = call[c].request)
        /\ \A x \in cancellations : ~(x.user = call[c].user /\ x.request = call[c].request)
    BY <2>1 DEF DatabaseAccepts, TerminalAccepts, ReceiptsOf, CancellationsOf
  <2>3. OneTerminalOutcome'
    BY <2>1, <2>2 DEF Records, OneTerminalOutcome, SameRequest
  <2> QED BY <2>1, <2>3 DEF Records, PaidAccessKept, ChargedOncePerEpisode, DeletedOwnNothing
<1>4. ASSUME NEW u \in Users, CreditPurchase(u)
      PROVE  Records'
  BY <1>4, RecordsFrame DEF CreditPurchase
<1>5. ASSUME NEW u \in Users, DeleteAccount(u)
      PROVE  Records'
  <2>1. /\ UNCHANGED <<receipts, cancellations, listing>>
        /\ profile' = [profile EXCEPT ![u] = "deleted"]
        /\ entitlement' = [entitlement EXCEPT ![u] = [e \in Episodes |-> "none"]]
    BY <1>5 DEF DeleteAccount
  <2>2. \A v \in Users : v # u => /\ profile'[v] = profile[v]
                                  /\ entitlement'[v] = entitlement[v]
    BY <2>1 DEF TypeOK
  <2>3. profile'[u] = "deleted" /\ entitlement'[u] = [e \in Episodes |-> "none"]
    BY <2>1 DEF TypeOK
  <2>4. \A x \in receipts : x.user \in Users
    BY DEF TypeOK, Receipt
  <2>5. PaidAccessKept'
    BY <2>1, <2>2, <2>3, <2>4 DEF Records, PaidAccessKept
  <2>6. DeletedOwnNothing'
    BY <2>2, <2>3 DEF Records, DeletedOwnNothing
  <2> QED BY <2>1, <2>5, <2>6 DEF Records, OneTerminalOutcome, ChargedOncePerEpisode
<1>6. ASSUME NEW u \in Users, NEW e \in Episodes, GrantAccess(u, e) \/ RevokeAccess(u, e)
      PROVE  Records'
  <2>1. /\ UNCHANGED <<receipts, cancellations, profile, listing>>
        /\ entitlement[u][e] # "coin"
        /\ profile[u] = "deleted" => entitlement[u][e] # "none"
    BY <1>6 DEF GrantAccess, RevokeAccess
  <2>2. \A v \in Users, f \in Episodes :
          ~(v = u /\ f = e) => entitlement'[v][f] = entitlement[v][f]
    BY <1>6 DEF GrantAccess, RevokeAccess, TypeOK
  <2>3. \A v \in Users : v # u => entitlement'[v] = entitlement[v]
    BY <1>6 DEF GrantAccess, RevokeAccess, TypeOK
  <2>4. profile[u] = "active"
    <3>1. profile[u] = "deleted" => entitlement[u][e] = "none"
      BY DEF Records, DeletedOwnNothing
    <3> QED BY <2>1, <3>1 DEF TypeOK
  <2>5. PaidAccessKept'
    <3> SUFFICES ASSUME NEW x \in receipts, x.charged > 0, profile[x.user] = "active",
                        listing[x.terms.episode] # "deleted"
                 PROVE  entitlement'[x.user][x.terms.episode] = "coin"
      BY <2>1 DEF PaidAccessKept
    <3>1. entitlement[x.user][x.terms.episode] = "coin"
      BY DEF Records, PaidAccessKept
    <3>2. x.user \in Users /\ x.terms.episode \in Episodes
      BY PoliciesAssumption DEF TypeOK, Receipt
    <3> QED BY <2>1, <2>2, <3>1, <3>2
  <2>6. DeletedOwnNothing'
    BY <2>1, <2>3, <2>4 DEF Records, DeletedOwnNothing
  <2> QED BY <2>1, <2>5, <2>6 DEF Records, OneTerminalOutcome, ChargedOncePerEpisode
<1>7. ASSUME NEW e \in Episodes, EditPolicy(e) \/ ChangeAvailability(e)
      PROVE  Records'
  <2>1. UNCHANGED <<receipts, cancellations, profile, entitlement>>
    BY <1>7 DEF EditPolicy, ChangeAvailability
  <2>2. \A f \in Episodes : listing[f] = "deleted" => listing'[f] = "deleted"
    BY <1>7 DEF EditPolicy, ChangeAvailability, TypeOK
  <2> QED BY <2>1, <2>2, RecordsFrame
<1>8. ASSUME NEW e \in Episodes, DeleteEpisode(e)
      PROVE  Records'
  <2>1. UNCHANGED <<receipts, cancellations, profile>>
    BY <1>8 DEF DeleteEpisode
  <2>2. /\ listing'[e] = "deleted"
        /\ \A f \in Episodes : f # e => listing'[f] = listing[f]
        /\ \A v \in Users, f \in Episodes : f # e => entitlement'[v][f] = entitlement[v][f]
        /\ \A v \in Users : entitlement[v] = [f \in Episodes |-> "none"]
                              => entitlement'[v] = [f \in Episodes |-> "none"]
    BY <1>8 DEF DeleteEpisode, TypeOK
  <2>3. \A x \in receipts : x.user \in Users /\ x.terms.episode \in Episodes
    BY PoliciesAssumption DEF TypeOK, Receipt
  <2>4. PaidAccessKept'
    BY <2>1, <2>2, <2>3 DEF Records, PaidAccessKept
  <2>5. DeletedOwnNothing'
    BY <2>1, <2>2 DEF Records, DeletedOwnNothing
  <2> QED BY <2>1, <2>4, <2>5 DEF Records, OneTerminalOutcome, ChargedOncePerEpisode
<1>9. CASE UNCHANGED vars
  BY <1>9, RecordsFrame DEF vars, database
<1> QED BY <1>1, <1>2, <1>3, <1>4, <1>5, <1>6, <1>7, <1>8, <1>9 DEF Next, Advance

-----------------------------------------------------------------------------
(* The inductive invariant and what follows from it. *)

\* The invariant holds of an empty database with no call running.
LEMMA InvariantInit == Init => IInv
<1> SUFFICES ASSUME Init PROVE IInv
  OBVIOUS
<1>1. TypeOK
  BY TypeInit
<1>2. \A c \in Calls : call[c].stage = "idle"
  BY DEF Init, Idle
<1>3. LocksMatchCalls
  BY <1>2, ConstantsAssumption DEF Init, LocksMatchCalls, Held
<1>4. HoldersKnow
  BY <1>2 DEF HoldersKnow, AccountFacts, CatalogFacts, DecisionFacts, Held
<1>5. Records
  BY DEF Init, Records, OneTerminalOutcome, PaidAccessKept, ChargedOncePerEpisode,
         DeletedOwnNothing
<1> QED BY <1>1, <1>3, <1>4, <1>5 DEF IInv

\* Every step preserves it.
LEMMA InvariantStep == IInv /\ [Next]_vars => IInv'
<1> SUFFICES ASSUME IInv, [Next]_vars PROVE IInv'
  OBVIOUS
<1>1. TypeOK'
  BY TypeStep DEF IInv
<1>2. LocksMatchCalls'
  BY LockStep DEF IInv
<1>3. HoldersKnow'
  <2>1. CASE UNCHANGED vars
    <3>1. \A c \in Calls : Facts(c)'
      BY <2>1, FactsFrame DEF IInv, HoldersKnow, Facts, vars, database
    <3> QED BY <3>1 DEF HoldersKnow, Facts
  <2>2. CASE \E c \in Calls : Begin(c) \/ Advance(c) \/ Crash(c)
    BY <2>2, CallFacts DEF IInv
  <2>3. CASE OtherWriters
    BY <2>3, WriterFacts DEF IInv
  <2> QED BY <2>1, <2>2, <2>3 DEF Next, OtherWriters
<1>4. Records'
  BY RecordsStep
<1> QED BY <1>1, <1>2, <1>3, <1>4 DEF IInv

\* The inductive invariant holds in every reachable state.
THEOREM Invariant == Spec => []IInv
BY InvariantInit, InvariantStep, PTL DEF Spec

\* A request ends once, completed or cancelled, however unlocks, resolutions,
\* retries and writers of the previous release interleave.
THEOREM OneOutcome == Spec => []OneTerminalOutcome
<1>1. IInv => OneTerminalOutcome
  BY DEF IInv, Records
<1> QED BY <1>1, Invariant, PTL

\* Paid access stays with its account until the episode or the account is deleted.
THEOREM PaidAccess == Spec => []PaidAccessKept
<1>1. IInv => PaidAccessKept
  BY DEF IInv, Records
<1> QED BY <1>1, Invariant, PTL

\* An account is charged at most once for an episode.
THEOREM ChargedOnce == Spec => []ChargedOncePerEpisode
<1>1. IInv => ChargedOncePerEpisode
  BY DEF IInv, Records
<1> QED BY <1>1, Invariant, PTL

\* The triggers and constraints never refuse what the current code decided.
THEOREM DecisionsCommit == Spec => []DecisionSurvivesToCommit
<1>1. ASSUME IInv
      PROVE  DecisionSurvivesToCommit
  <2> SUFFICES ASSUME NEW c \in Calls, call[c].stage = "commit",
                      call[c].legacy => CancellationsOf(c) = {}
               PROVE  DatabaseAccepts(c)
    BY DEF DecisionSurvivesToCommit
  <2>1. call[c] \in Running
    BY <1>1, RunningCall DEF IInv
  <2>2. AccountFacts(c) /\ CatalogFacts(c) /\ DecisionFacts(c)
    BY <1>1 DEF IInv, HoldersKnow
  <2>3. CancellationsOf(c) = {}
    BY <2>1, <2>2 DEF AccountFacts, DecisionFacts, Held, Running
  <2>4. TerminalAccepts(c)
    BY <2>2, <2>3 DEF TerminalAccepts, AccountFacts, DecisionFacts, Held
  <2>5. ASSUME call[c].charge > 0
        PROVE  /\ LedgerAccepts(call[c].user, -call[c].charge)
               /\ call[c].charge = call[c].terms.price
               /\ listing[call[c].terms.episode] # "deleted"
               /\ entitlement[call[c].user][call[c].terms.episode] = "none"
    <3>1. call[c].op = "unlock"
      BY <2>1, <2>2, <2>5 DEF DecisionFacts, Running
    <3>2. /\ Balance(call[c].user) \in 0..MaxBalance
          /\ Balance(call[c].user) >= call[c].charge
          /\ call[c].charge \in Nat
      BY <1>1, <2>1, <2>2, <2>5 DEF IInv, TypeOK, DecisionFacts, Running
    <3>3. LedgerAccepts(call[c].user, -call[c].charge)
      <4>1. Balance(call[c].user) + (-call[c].charge) \in 0..MaxBalance
        BY <3>2, ConstantsAssumption
      <4> QED BY <2>2, <4>1 DEF LedgerAccepts, AccountFacts, Held
    <3>4. /\ call[c].charge = call[c].terms.price
          /\ listing[call[c].terms.episode] # "deleted"
      BY <2>2, <2>5, <3>1 DEF DecisionFacts, CatalogFacts
    <3>5. entitlement[call[c].user][call[c].terms.episode] = "none"
      BY <2>2, <2>5 DEF DecisionFacts, Granted
    <3> QED BY <3>3, <3>4, <3>5
  <2> QED BY <2>4, <2>5 DEF DatabaseAccepts
<1> QED BY <1>1, Invariant, PTL

\* Only the commit of an unlock writes a receipt.
LEMMA ReceiptStep ==
  ASSUME [Next]_vars, receipts' # receipts
  PROVE  \E c \in Calls : CommitUnlock(c)
<1>1. ASSUME NEW c \in Calls, Begin(c) \/ LockAccount(c) \/ LockCatalog(c) \/ LockWallet(c)
                              \/ CommitCancellation(c) \/ Answer(c) \/ Crash(c)
      PROVE  FALSE
  BY <1>1 DEF database, Begin, LockAccount, LockCatalog, LockWallet, CommitCancellation,
              Answer, Crash
<1>2. CASE OtherWriters
  BY <1>2 DEF OtherWriters, CreditPurchase, DeleteAccount, GrantAccess, RevokeAccess,
              EditPolicy, DeleteEpisode, ChangeAvailability
<1>3. CASE UNCHANGED vars
  BY <1>3 DEF vars, database
<1> QED BY <1>1, <1>2, <1>3 DEF Next, Advance, OtherWriters

\* A receipt that charges is fair at the instant it is written.
THEOREM ChargesAreFair == Spec => FairCharges
<1>1. ASSUME IInv, [Next]_vars
      PROVE  FairCharge
  <2> SUFFICES ASSUME NEW x \in receipts' \ receipts, x.charged > 0
               PROVE  LET e == x.terms.episode IN
                      /\ policy[e] = x.terms.version
                      /\ policy[e].coin_price = x.charged
                      /\ x.charged = x.terms.price
                      /\ ~Granted(x.user, e)
                      /\ profile[x.user] = "active"
    BY DEF FairCharge
  <2>1. PICK c \in Calls : CommitUnlock(c)
    BY <1>1, ReceiptStep
  <2>2. call[c] \in Running /\ call[c].stage = "commit"
    BY <1>1, <2>1, RunningCall DEF CommitUnlock, IInv
  <2>3. AccountFacts(c) /\ DecisionFacts(c)
    BY <1>1 DEF IInv, HoldersKnow
  <2>4. /\ x.user = call[c].user
        /\ x.terms = call[c].terms
        /\ x.charged = call[c].charge
    BY <2>1 DEF CommitUnlock
  <2> QED BY <2>2, <2>3, <2>4 DEF AccountFacts, DecisionFacts, Held
<1> QED BY <1>1, Invariant, PTL DEF Spec, FairCharges

\* Accounting is append-only, and frozen with a deleted account.
THEOREM HistoryGrows == Spec => HistoryKept
<1>1. ASSUME IInv, [Next]_vars
      PROVE  HistoryStep
  <2> USE <1>1 DEF IInv
  <2> DEFINE Kept(u) == /\ profile'[u] = "deleted"
                        /\ ledger'[u] = ledger[u]
                        /\ entitlement'[u] = [e \in Episodes |-> "none"]
                        /\ \A x \in (receipts' \ receipts) \cup (cancellations' \ cancellations) :
                             x.user # u
  <2>0. ASSUME NEW u \in Users, profile[u] = "deleted"
        PROVE  entitlement[u] = [e \in Episodes |-> "none"]
    BY <2>0 DEF Records, DeletedOwnNothing
  <2> SUFFICES /\ receipts \subseteq receipts'
               /\ cancellations \subseteq cancellations'
               /\ \A u \in Users : profile[u] = "deleted" => Kept(u)
    BY DEF HistoryStep
  <2>1. CASE UNCHANGED database
    BY <2>0, <2>1 DEF database
  <2>2. ASSUME NEW c \in Calls, CommitUnlock(c) \/ CommitCancellation(c)
        PROVE  /\ receipts \subseteq receipts'
               /\ cancellations \subseteq cancellations'
               /\ \A u \in Users : profile[u] = "deleted" => Kept(u)
    <3>1. call[c] \in Running /\ profile[call[c].user] = "active"
      BY <2>2, RunningCall DEF CommitUnlock, CommitCancellation, DatabaseAccepts, TerminalAccepts
    <3>2. \A u \in Users \ {call[c].user} :
            profile'[u] = profile[u] /\ ledger'[u] = ledger[u] /\ entitlement'[u] = entitlement[u]
      BY <2>2, <3>1 DEF CommitUnlock, CommitCancellation, TypeOK, Running
    <3>3. /\ receipts \subseteq receipts'
          /\ cancellations \subseteq cancellations'
          /\ \A x \in (receipts' \ receipts) \cup (cancellations' \ cancellations) :
               x.user = call[c].user
      BY <2>2 DEF CommitUnlock, CommitCancellation
    <3> QED BY <2>0, <3>1, <3>2, <3>3
  <2>3. CASE OtherWriters
    <3>1. receipts' = receipts /\ cancellations' = cancellations
      BY <2>3 DEF OtherWriters, CreditPurchase, DeleteAccount, GrantAccess, RevokeAccess,
                  EditPolicy, DeleteEpisode, ChangeAvailability
    <3> SUFFICES ASSUME NEW u \in Users, profile[u] = "deleted"
                 PROVE  /\ profile'[u] = "deleted"
                        /\ ledger'[u] = ledger[u]
                        /\ entitlement'[u] = [e \in Episodes |-> "none"]
      BY <3>1
    <3>2. ASSUME NEW v \in Users, CreditPurchase(v) \/ DeleteAccount(v)
          PROVE  /\ profile'[u] = "deleted"
                 /\ ledger'[u] = ledger[u]
                 /\ entitlement'[u] = entitlement[u]
      <4>1. v # u
        BY <3>2 DEF CreditPurchase, LedgerAccepts, DeleteAccount
      <4> QED BY <3>2, <4>1 DEF CreditPurchase, DeleteAccount, TypeOK
    <3>3. ASSUME NEW v \in Users, NEW e \in Episodes, GrantAccess(v, e) \/ RevokeAccess(v, e)
          PROVE  /\ profile'[u] = "deleted"
                 /\ ledger'[u] = ledger[u]
                 /\ entitlement'[u] = entitlement[u]
      <4>1. v # u
        BY <2>0, <3>3 DEF GrantAccess, RevokeAccess
      <4> QED BY <3>3, <4>1 DEF GrantAccess, RevokeAccess, TypeOK
    <3>4. ASSUME NEW e \in Episodes, EditPolicy(e) \/ ChangeAvailability(e)
          PROVE  /\ profile'[u] = "deleted"
                 /\ ledger'[u] = ledger[u]
                 /\ entitlement'[u] = entitlement[u]
      BY <3>4 DEF EditPolicy, ChangeAvailability
    <3>5. ASSUME NEW e \in Episodes, DeleteEpisode(e)
          PROVE  /\ profile'[u] = "deleted"
                 /\ ledger'[u] = ledger[u]
                 /\ entitlement'[u] = [f \in Episodes |-> "none"]
      BY <2>0, <3>5 DEF DeleteEpisode
    <3> QED BY <2>0, <2>3, <3>2, <3>3, <3>4, <3>5 DEF OtherWriters
  <2>4. ASSUME NEW c \in Calls, Begin(c) \/ LockAccount(c) \/ LockCatalog(c) \/ LockWallet(c)
                                \/ Answer(c) \/ Crash(c)
        PROVE  UNCHANGED database
    BY <2>4 DEF Begin, LockAccount, LockCatalog, LockWallet, Answer, Crash
  <2> QED BY <2>1, <2>2, <2>3, <2>4 DEF Next, Advance, OtherWriters, vars
<1> QED BY <1>1, Invariant, PTL DEF Spec, HistoryKept

-----------------------------------------------------------------------------
(* The wallet implements the account. *)

Funds == [u \in Users |-> Balance(u)]
Outcomes == [u \in Users |-> [r \in Requests |-> Outcome(u, r)]]

\* The records of a step that writes none give every request the same outcome.
LEMMA SameOutcomes ==
  ASSUME receipts' = receipts, cancellations' = cancellations
  PROVE  Outcomes' = Outcomes
BY DEF Outcomes, Outcome

\* A step that leaves the database alone is a stutter of the account.
LEMMA Hidden ==
  ASSUME UNCHANGED database
  PROVE  UNCHANGED Account!vars
<1>1. Outcomes' = Outcomes
  BY SameOutcomes DEF database
<1>2. Funds' = Funds
  BY DEF database, Funds, Balance
<1> QED BY <1>1, <1>2 DEF Account!vars, database, Funds, Outcomes

\* The commit of an unlock completes its request, free or paid.
LEMMA UnlockImplements ==
  ASSUME IInv, NEW c \in Calls, CommitUnlock(c)
  PROVE  Account!Next
<1> DEFINE k == call[c]
           u == call[c].user
           r == call[c].request
           e == call[c].terms.episode
           n == call[c].charge
<1>1. call[c] \in Running /\ call[c].stage = "commit" /\ call[c].op = "unlock"
  BY RunningCall DEF CommitUnlock, IInv
<1>2. u \in Users /\ r \in Requests /\ e \in Episodes /\ n \in Nat
  BY <1>1, PoliciesAssumption DEF Running
<1>3. /\ receipts' = receipts \cup {[user |-> u, request |-> r, terms |-> k.terms, charged |-> n]}
      /\ ledger' = [ledger EXCEPT ![u].spent = @ + n]
      /\ UNCHANGED <<profile, cancellations>>
      /\ DatabaseAccepts(c)
  BY DEF CommitUnlock
<1>4. profile[u] = "active" /\ ReceiptsOf(c) = {} /\ CancellationsOf(c) = {}
  BY <1>3 DEF DatabaseAccepts, TerminalAccepts
<1>5. Outcome(u, r) = "open"
  BY <1>4 DEF Outcome, ReceiptsOf, CancellationsOf
<1>6. Outcomes' = [Outcomes EXCEPT ![u][r] = "completed"]
  <2>1. ASSUME NEW v \in Users, NEW q \in Requests
        PROVE  Outcome(v, q)' = IF v = u /\ q = r THEN "completed" ELSE Outcome(v, q)
    <3> DEFINE new == [user |-> u, request |-> r, terms |-> k.terms, charged |-> n]
    <3>1. receipts' = receipts \cup {new} /\ new.user = u /\ new.request = r
      BY <1>3
    <3> HIDE DEF new, u, r
    <3>2. (\E x \in receipts' : x.user = v /\ x.request = q)
            <=> (v = u /\ q = r) \/ \E x \in receipts : x.user = v /\ x.request = q
      BY <3>1
    <3> QED BY <1>3, <3>2 DEF Outcome
  <2> QED BY <1>2, <2>1 DEF Outcomes
<1>7. \A v \in Users : Balance(v)' = IF v = u THEN Balance(v) - n ELSE Balance(v)
  BY <1>2, <1>3 DEF Balance, IInv, TypeOK
<1>8. CASE n = 0
  <2>1. entitlement' = entitlement
    BY <1>8 DEF CommitUnlock
  <2>2. Funds' = Funds
    BY <1>2, <1>7, <1>8 DEF Funds, Balance, IInv, TypeOK
  <2>3. Account!CompleteFree(u, r)
    BY <1>2, <1>3, <1>4, <1>5, <1>6, <2>1, <2>2 DEF Account!CompleteFree, Funds, Outcomes
  <2> QED BY <1>2, <2>3 DEF Account!Next
<1>9. CASE n > 0
  <2>1. /\ entitlement' = [entitlement EXCEPT ![u][e] = "coin"]
        /\ entitlement[u][e] = "none"
    BY <1>3, <1>9 DEF CommitUnlock, DatabaseAccepts
  <2>2. Funds' = [Funds EXCEPT ![u] = @ - n]
    BY <1>2, <1>7 DEF Funds
  <2>3. n \in 1..Funds[u]
    <3>1. DecisionFacts(c)
      BY DEF IInv, HoldersKnow
    <3>2. Balance(u) >= n /\ Balance(u) \in Int
      BY <1>1, <1>2, <1>9, <3>1 DEF DecisionFacts, IInv, TypeOK
    <3> QED BY <1>2, <1>9, <3>2 DEF Funds
  <2>4. Account!CompletePaid(u, r, e, n)
    BY <1>2, <1>3, <1>4, <1>5, <1>6, <2>1, <2>2, <2>3 DEF Account!CompletePaid, Funds, Outcomes
  <2> QED BY <1>2, <2>3, <2>4 DEF Account!Next, Funds
<1> QED BY <1>2, <1>8, <1>9

\* Every step of the wallet is a step of the account or changes nothing it shows.
LEMMA AccountStep ==
  ASSUME IInv, [Next]_vars
  PROVE  [Account!Next]_(Account!vars)
<1> USE DEF IInv
<1>1. ASSUME NEW c \in Calls, CommitUnlock(c)
      PROVE  Account!Next
  BY <1>1, UnlockImplements
<1>2. ASSUME NEW c \in Calls, CommitCancellation(c)
      PROVE  Account!Next
  <2> DEFINE u == call[c].user
             r == call[c].request
  <2>1. call[c] \in Running
    BY <1>2, RunningCall DEF CommitCancellation
  <2>2. u \in Users /\ r \in Requests
    BY <2>1 DEF Running
  <2>3. /\ cancellations' = cancellations \cup {[user |-> u, request |-> r, terms |-> call[c].terms]}
        /\ UNCHANGED <<profile, entitlement, ledger, receipts>>
        /\ DatabaseAccepts(c)
    BY <1>2 DEF CommitCancellation
  <2>4. profile[u] = "active" /\ ReceiptsOf(c) = {} /\ CancellationsOf(c) = {}
    BY <2>3 DEF DatabaseAccepts, TerminalAccepts
  <2>5. Outcome(u, r) = "open"
    BY <2>4 DEF Outcome, ReceiptsOf, CancellationsOf
  <2>6. Outcomes' = [Outcomes EXCEPT ![u][r] = "cancelled"]
    <3>1. ASSUME NEW v \in Users, NEW q \in Requests
          PROVE  Outcome(v, q)' = IF v = u /\ q = r THEN "cancelled" ELSE Outcome(v, q)
      <4> DEFINE new == [user |-> u, request |-> r, terms |-> call[c].terms]
      <4>1. cancellations' = cancellations \cup {new} /\ new.user = u /\ new.request = r
        BY <2>3
      <4>2. ~\E x \in receipts : x.user = u /\ x.request = r
        BY <2>4 DEF ReceiptsOf
      <4> HIDE DEF new, u, r
      <4>3. (\E x \in cancellations' : x.user = v /\ x.request = q)
              <=> (v = u /\ q = r) \/ \E x \in cancellations : x.user = v /\ x.request = q
        BY <4>1
      <4> QED BY <2>3, <4>2, <4>3 DEF Outcome
    <3> QED BY <2>2, <3>1 DEF Outcomes
  <2>7. Funds' = Funds
    BY <2>3 DEF Funds, Balance
  <2>8. Account!Cancel(u, r)
    BY <2>2, <2>3, <2>4, <2>5, <2>6, <2>7 DEF Account!Cancel, Funds, Outcomes
  <2> QED BY <2>2, <2>8 DEF Account!Next
<1>3. ASSUME NEW u \in Users, CreditPurchase(u)
      PROVE  Account!Next
  <2>1. PICK n \in Packs : /\ LedgerAccepts(u, n)
                           /\ ledger' = [ledger EXCEPT ![u].purchased = @ + n]
    BY <1>3 DEF CreditPurchase
  <2>2. UNCHANGED <<profile, entitlement, receipts, cancellations>>
    BY <1>3 DEF CreditPurchase
  <2>3. Funds' = [Funds EXCEPT ![u] = @ + n]
    <3>1. \A v \in Users : Balance(v)' = IF v = u THEN Balance(v) + n ELSE Balance(v)
      BY <2>1, ConstantsAssumption DEF Balance, TypeOK
    <3> QED BY <3>1 DEF Funds
  <2>4. Account!Fund(u, n)
    BY <2>1, <2>2, <2>3, SameOutcomes DEF Account!Fund, LedgerAccepts, Funds, Outcomes
  <2> QED BY <2>4 DEF Account!Next
<1>4. ASSUME NEW u \in Users, DeleteAccount(u)
      PROVE  Account!Next
  <2>1. Funds' = Funds /\ Outcomes' = Outcomes
    BY <1>4, SameOutcomes DEF DeleteAccount, Funds, Balance
  <2>2. Account!Close(u)
    BY <1>4, <2>1 DEF Account!Close, DeleteAccount, Funds, Outcomes
  <2> QED BY <2>2 DEF Account!Next
<1>5. ASSUME NEW u \in Users, NEW e \in Episodes, GrantAccess(u, e) \/ RevokeAccess(u, e)
      PROVE  Account!Next
  <2>1. Funds' = Funds /\ Outcomes' = Outcomes /\ profile' = profile
    BY <1>5, SameOutcomes DEF GrantAccess, RevokeAccess, Funds, Balance
  <2>2. entitlement[u][e] # "coin" /\ profile[u] = "active"
    <3>1. profile[u] = "deleted" => entitlement[u][e] = "none"
      BY DEF Records, DeletedOwnNothing
    <3> QED BY <1>5, <3>1 DEF GrantAccess, RevokeAccess, TypeOK
  <2>3. PICK s \in {"none", "staff", "rewarded_ad"} :
          entitlement' = [entitlement EXCEPT ![u][e] = s]
    BY <1>5 DEF GrantAccess, RevokeAccess
  <2>4. Account!Regrant(u, e, s)
    BY <2>1, <2>2, <2>3 DEF Account!Regrant, Funds, Outcomes
  <2> QED BY <2>4 DEF Account!Next
<1>6. ASSUME NEW e \in Episodes, DeleteEpisode(e)
      PROVE  Account!Next
  <2>1. Funds' = Funds /\ Outcomes' = Outcomes
    BY <1>6, SameOutcomes DEF DeleteEpisode, Funds, Balance
  <2>2. Account!Withdraw(e)
    BY <1>6, <2>1 DEF Account!Withdraw, DeleteEpisode, Funds, Outcomes
  <2> QED BY <2>2 DEF Account!Next
<1>7. ASSUME NEW e \in Episodes, EditPolicy(e) \/ ChangeAvailability(e)
      PROVE  UNCHANGED Account!vars
  <2>1. Funds' = Funds /\ Outcomes' = Outcomes
    BY <1>7, SameOutcomes DEF EditPolicy, ChangeAvailability, Funds, Balance
  <2> QED BY <1>7, <2>1 DEF Account!vars, EditPolicy, ChangeAvailability, Funds, Outcomes
<1>8. ASSUME NEW c \in Calls, Begin(c) \/ LockAccount(c) \/ LockCatalog(c) \/ LockWallet(c)
                              \/ Answer(c) \/ Crash(c)
      PROVE  UNCHANGED Account!vars
  BY <1>8, Hidden DEF Begin, LockAccount, LockCatalog, LockWallet, Answer, Crash
<1>9. CASE UNCHANGED vars
  BY <1>9, Hidden DEF vars
<1> QED BY <1>1, <1>2, <1>3, <1>4, <1>5, <1>6, <1>7, <1>8, <1>9 DEF Next, Advance

\* An empty wallet is an account with no coins, no access and no request ended.
LEMMA AccountInit == Init => Account!Init
<1> SUFFICES ASSUME Init PROVE Account!Init
  OBVIOUS
<1>1. [u \in Users |-> Balance(u)] = [u \in Users |-> 0]
  BY DEF Init, Balance
<1>2. [u \in Users |-> [r \in Requests |-> Outcome(u, r)]]
        = [u \in Users |-> [r \in Requests |-> "open"]]
  BY DEF Init, Outcome
<1> QED BY <1>1, <1>2 DEF Account!Init, Init

\* With its locks, offers, retries and rollbacks hidden, the wallet is the
\* abstract account.
THEOREM WalletImplementsAccount == Spec => ImplementsAccount
<1>1. Init => Account!Init
  BY AccountInit
<1>2. IInv /\ [Next]_vars => [Account!Next]_(Account!vars)
  BY AccountStep
<1> QED BY <1>1, <1>2, Invariant, PTL DEF Spec, ImplementsAccount, Account!Spec
=============================================================================
