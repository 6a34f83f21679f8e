------------------------------ MODULE Purchases ------------------------------
(***************************************************************************)
(* Verified coin purchases: backend/apps/commerce.  The store sells and    *)
(* refunds; its webhooks arrive late, repeated, reordered or with a reused *)
(* id; the app asks for a synchronization.  Each call may look the         *)
(* purchase up at the provider, outside any transaction, and then runs     *)
(* fulfill as one transaction that takes advisory locks one after the      *)
(* other.  Processes configured with different product registries run side *)
(* by side.                                                                *)
(*                                                                         *)
(* A digest is the tuple it digests.  Reasons are left out, a status is    *)
(* kept, and a delivery's quantity and identity checks are one flag.       *)
(***************************************************************************)
EXTENDS Integers, FiniteSetsExt

CONSTANTS
  Users,        \* wallets and their purchase identities
  Apps,         \* provider app ids
  Applications, \* store applications (package names)
  Transactions, \* store transaction ids
  Products,
  Ids,          \* webhook event ids
  Registries,   \* the product registries of the deployed processes
  Facts,        \* the purchases the provider can confirm
  Deliveries,   \* the webhooks the provider may send
  Settings,     \* the deployment: debug, hosted, the purchase mode, webhooks on
  Calls

Row == [app: Apps, application: Applications, product: Products, coins: Nat \ {0}]
Kinds == {"purchase", "refund"}
EventIds == {<<"webhook", i>> : i \in Ids}
            \cup {<<"sync", x, k>> : x \in Transactions, k \in Kinds}
Delivery == [id: EventIds, app: Apps, txn: Transactions, product: Products,
             owner: Users, kind: Kinds, sound: BOOLEAN]
Key == [scope: Apps \cup Applications, txn: Transactions]
Claim == [key: Key, product: Products, owner: Users]
Fact == [txn: Transactions, app: Apps, application: Applications, product: Products,
         owner: Users]

\* load_products: a registry is not empty, an app has one application and an
\* application one app, and a product is listed once.
ASSUME RegistriesAssumption ==
  \A g \in Registries :
    /\ g \in (SUBSET Row) \ {{}}
    /\ \A p, q \in g : /\ p.app = q.app <=> p.application = q.application
                       /\ p.app = q.app /\ p.product = q.product => p = q
ASSUME ProviderAssumption ==
  /\ Deliveries \subseteq Delivery
  /\ Facts \subseteq Fact
  /\ Settings \in [debug: BOOLEAN, hosted: BOOLEAN, webhook: BOOLEAN,
                    mode: {"disabled", "test", "revenuecat_sandbox"}]
  /\ Apps \cap Applications = {}

\* The provider is asked about purchases only in sandbox mode; in test mode,
\* never on a hosted sandbox, its webhooks are believed as they are.
ReconciliationEnabled ==
  (Settings.debug \/ Settings.hosted) /\ Settings.mode = "revenuecat_sandbox"
TestMode == Settings.debug /\ ~Settings.hosted /\ Settings.mode = "test"
PurchasesEnabled == ReconciliationEnabled \/ TestMode
CallbacksTaken == (ReconciliationEnabled /\ Settings.webhook) \/ TestMode

VARIABLES
  profile,    \* whether the account of a wallet is active or deleted
  identities, \* wallets that have a PurchaseIdentity
  store,      \* a transaction at the store: none, owned or refunded
  bindings,   \* ApplicationBinding rows
  decisions,  \* PurchaseDecision rows
  events,     \* PurchaseEvent rows
  purchased,  \* the sum of a wallet's purchase entries
  call        \* the calls in flight

database == <<profile, identities, bindings, decisions, events, purchased>>
vars == <<database, store, call>>

Idle == [stage |-> "idle", held |-> {}]
\* What advisory locks and the account's are taken on.
Names == ({"event"} \X Apps \X EventIds) \cup ({"application"} \X (Apps \cup Applications))
           \cup ({"transaction"} \X Key) \cup ({"profile"} \X Users)
Running == [stage: {"page", "lookup", "event", "app", "application", "raw", "transaction",
                    "owner", "commit"},
            held: SUBSET Names,
            delivery: Delivery, registry: Registries, conflict: BOOLEAN,
            key: Key, decision: Key, outcome: {"attach", "quarantine", "credit"}]

TypeOK ==
  /\ profile \in [Users -> {"active", "deleted"}]
  /\ identities \subseteq Users
  /\ store \in [Transactions -> {"none", "owned", "refunded"}]
  /\ bindings \subseteq [app: Apps, application: Applications]
  /\ decisions \subseteq [key: Key, claim: Claim, status: {"credited", "quarantined"}, coins: Nat]
  /\ events \subseteq [delivery: Delivery, decision: Key, status: {"credited", "quarantined"}]
  /\ purchased \in [Users -> Nat]
  /\ call \in [Calls -> Running \cup {Idle}]

Init ==
  /\ profile = [u \in Users |-> "active"]
  /\ identities = {}
  /\ store = [x \in Transactions |-> "none"]
  /\ bindings = {}
  /\ decisions = {}
  /\ events = {}
  /\ purchased = [u \in Users |-> 0]
  /\ call = [c \in Calls |-> Idle]

-----------------------------------------------------------------------------
(* What a call reads. *)

\* The registry rows of an app, and of one of its products.
Listed(g, a) == {p \in g : p.app = a}
Offered(g, d) == {p \in Listed(g, d.app) : p.product = d.product}

RawKey(d) == [scope |-> d.app, txn |-> d.txn]
ClaimOf(d, k) == [key |-> k, product |-> d.product, owner |-> d.owner]
SameEvent(d, e) == d.app = e.app /\ d.id = e.id

\* The transaction's namespace: the application of a binding that agrees with
\* the registry, or could be made now; otherwise it stays unresolved.
Resolves(g, d) ==
  \E p \in Listed(g, d.app) :
    \A b \in bindings : b.app = d.app <=> b.application = p.application
TheApplication(g, d) == (CHOOSE p \in Listed(g, d.app) : TRUE).application

\* process_notification looks a purchase up only when everything it claims is in
\* order; anything else goes to fulfill, which quarantines it.
NeedsLookup(g, d) ==
  /\ ReconciliationEnabled
  /\ d.kind = "purchase"
  /\ Offered(g, d) # {}
  /\ d.sound
  /\ d.owner \in identities
  /\ profile[d.owner] = "active"

\* _decide, up to the owner's account lock.
Creditable(c) ==
  LET d == call[c].delivery IN
  /\ ~call[c].conflict
  /\ Offered(call[c].registry, d) # {}
  /\ d.kind = "purchase"
  /\ d.sound
  /\ d.owner \in identities

\* Mutant of Barred: history under the provider's own name is forgotten.
BarredNever(d) == FALSE

\* History under the provider's own name, which goes before any other.
Barred(d) == \E x \in decisions : x.key = RawKey(d)

\* Mutant of EventStatus: a refund that repeats the claim is not told apart.
EventStatusOfClaim(d, k, conflict, x) ==
  IF /\ ~conflict
     /\ x.status = "credited"
     /\ x.claim = ClaimOf(d, k)
     /\ d.sound
  THEN "credited" ELSE "quarantined"

\* An event counts as credited only if it repeats the credited claim.
EventStatus(d, k, conflict, x) ==
  IF /\ ~conflict
     /\ x.status = "credited"
     /\ x.claim = ClaimOf(d, k)
     /\ d.kind = "purchase"
     /\ d.sound
  THEN "credited" ELSE "quarantined"

\* pg_advisory_xact_lock: nobody else holds any of these names.
Free(c, names) == \A o \in Calls \ {c} : call[o].held \cap names = {}
Unheld(name) == \A o \in Calls : name \notin call[o].held

-----------------------------------------------------------------------------
(* One webhook, or one synchronization asked for by the app. *)

Start(c, d, g, stage) ==
  call' = [call EXCEPT ![c] =
    [stage |-> stage, held |-> {}, delivery |-> d, registry |-> g, conflict |-> FALSE,
     key |-> RawKey(d), decision |-> RawKey(d), outcome |-> "quarantine"]]

\* Mutant of End: session locks instead of transaction locks.
EndInSession(c) == call' = [call EXCEPT ![c] = [stage |-> "idle", held |-> call[c].held]]

End(c) == call' = [call EXCEPT ![c] = Idle]

\* The provider delivers what happened at the store, once or again, soon or late.
Receive(c) ==
  /\ call[c].stage = "idle"
  /\ CallbacksTaken
  /\ \E d \in Deliveries, g \in Registries :
       /\ store[d.txn] # "none"
       /\ d.kind = "refund" => store[d.txn] = "refunded"
       /\ Start(c, d, g, IF NeedsLookup(g, d) THEN "lookup" ELSE "event")
  /\ UNCHANGED <<database, store>>

\* What the app of the owner asks for.
Asking(f) == [id |-> <<"sync", f.txn, "purchase">>, app |-> f.app, txn |-> f.txn,
              product |-> f.product, owner |-> f.owner, kind |-> "purchase", sound |-> TRUE]

\* purchase_catalog: nothing is offered to a deleted account, or under an
\* application or an app bound elsewhere.
PurchaseCatalog(u, g, a) ==
  {p \in Listed(g, a) :
     /\ PurchasesEnabled
     /\ profile[u] = "active"
     /\ \A b \in bindings : b.app = a <=> b.application = p.application}

\* Both requests start over from the registry, the bindings and the identity;
\* nothing else is asked of the provider.
Askable(d, g) ==
  /\ ReconciliationEnabled
  /\ PurchaseCatalog(d.owner, g, d.app) \cap Offered(g, d) # {}
  /\ d.owner \in identities

\* The owner's app asks for a purchase it made.
SynchronizePurchase(c) ==
  /\ call[c].stage = "idle"
  /\ \E f \in Facts, g \in Registries :
       /\ store[f.txn] # "none"
       /\ Askable(Asking(f), g)
       /\ Start(c, Asking(f), g, "lookup")
  /\ UNCHANGED <<database, store>>

\* It lost the transaction and kept a fingerprint of the attempt.
RecoverPurchase(c) ==
  /\ call[c].stage = "idle"
  /\ \E f \in Facts, g \in Registries :
       /\ store[f.txn] # "none"
       /\ Askable(Asking(f), g)
       /\ Start(c, Asking(f), g, "page")
  /\ UNCHANGED <<database, store>>

\* The purchases of the customer whose transaction gives the fingerprint.
Matches(d) == {f \in Facts : f.owner = d.owner /\ f.txn = d.txn /\ store[f.txn] # "none"}

\* One match in a complete page: what was recovered is synchronized like any
\* purchase the app knows.
RecoverTransaction(c) ==
  LET d == call[c].delivery IN
  /\ call[c].stage = "page"
  /\ \E f \in Matches(d) : Matches(d) = {f}
  /\ Askable(d, call[c].registry)
  /\ call' = [call EXCEPT ![c].stage = "lookup"]
  /\ UNCHANGED <<database, store>>

\* Mutant of LookUp: the answer's state is used, its facts are not compared.
LookUpState(c) ==
  LET refunded == store[call[c].delivery.txn] = "refunded" IN
  /\ call[c].stage = "lookup"
  /\ call' = [call EXCEPT ![c].stage = "event",
       ![c].delivery.kind = IF refunded THEN "refund" ELSE "purchase"]
  /\ UNCHANGED <<database, store>>

\* The provider's answer confirms the claim and says whether it was refunded.
\* The state may change again before the answer is used.
LookUp(c) ==
  LET d == call[c].delivery
      refunded == store[d.txn] = "refunded" IN
  /\ call[c].stage = "lookup"
  /\ [txn |-> d.txn, app |-> d.app, application |-> TheApplication(call[c].registry, d),
      product |-> d.product, owner |-> d.owner] \in Facts
  /\ call' = [call EXCEPT ![c].stage = "event",
       ![c].delivery = [d EXCEPT
          !.kind = IF refunded THEN "refund" ELSE "purchase",
          !.id = IF refunded /\ d.id[1] = "sync" THEN <<"sync", d.txn, "refund">> ELSE d.id]]
  /\ UNCHANGED <<database, store>>

\* The provider is down, or its answer is incomplete or contradicts the claim:
\* nothing is recorded; a webhook gets 503, the app a purchase still awaited.
LookUpFails(c) ==
  /\ call[c].stage \in {"page", "lookup"}
  /\ End(c)
  /\ UNCHANGED <<database, store>>

\* A repeated delivery gets its first receipt; a reused id is a conflict.
LockEvent(c) ==
  LET d == call[c].delivery
      name == <<"event", d.app, d.id>> IN
  /\ call[c].stage = "event"
  /\ Free(c, {name})
  /\ IF \E e \in events : e.delivery = d
     THEN End(c)
     ELSE call' = [call EXCEPT
            ![c].stage = IF Listed(call[c].registry, d.app) = {}
                         THEN "raw" ELSE "app",
            ![c].held = @ \cup {name},
            ![c].conflict = \E e \in events : SameEvent(e.delivery, d)]
  /\ UNCHANGED <<database, store>>

\* Mutant of ResolvedKey: the registry alone names the application.
ResolvedByRegistry(g, d) == [scope |-> TheApplication(g, d), txn |-> d.txn]

ResolvedKey(g, d) ==
  IF Resolves(g, d) THEN [scope |-> TheApplication(g, d), txn |-> d.txn] ELSE RawKey(d)

\* commerce-app.
LockApp(c) ==
  LET name == <<"application", call[c].delivery.app>> IN
  /\ call[c].stage = "app"
  /\ Free(c, {name})
  /\ call' = [call EXCEPT ![c].stage = "application", ![c].held = @ \cup {name}]
  /\ UNCHANGED <<database, store>>

\* commerce-application; then the bindings are read.
LockApplication(c) ==
  LET d == call[c].delivery
      g == call[c].registry
      name == <<"application", TheApplication(g, d)>> IN
  /\ call[c].stage = "application"
  /\ Free(c, {name})
  /\ call' = [call EXCEPT ![c].stage = "raw",
                          ![c].held = @ \cup {name},
                          ![c].key = ResolvedKey(g, d)]
  /\ UNCHANGED <<database, store>>

\* commerce-transaction, under the provider's name.
LockRaw(c) ==
  LET d == call[c].delivery
      name == <<"transaction", RawKey(d)>> IN
  /\ call[c].stage = "raw"
  /\ Free(c, {name})
  /\ call' = [call EXCEPT ![c].stage = "transaction",
                          ![c].held = @ \cup {name},
                          ![c].decision = RawKey(d),
                          ![c].outcome = IF Barred(d) THEN "attach" ELSE "quarantine"]
  /\ UNCHANGED <<database, store>>

\* commerce-transaction, under the application's name, or again under the provider's.
LockTransaction(c) ==
  LET k == call[c].key
      name == <<"transaction", k>>
      decided == \E x \in decisions : x.key = k
      found == call[c].outcome = "attach" IN
  /\ call[c].stage = "transaction"
  /\ Free(c, {name})
  /\ call' = [call EXCEPT
       ![c].stage = IF ~found /\ ~decided /\ k # RawKey(call[c].delivery) /\ Creditable(c)
                    THEN "owner" ELSE "commit",
       ![c].held = @ \cup {name},
       ![c].decision = IF found THEN @ ELSE k,
       ![c].outcome = IF found \/ decided THEN "attach" ELSE "quarantine"]
  /\ UNCHANGED <<database, store>>

\* Mutant of LockOwner: the profile is read without its lock.
LockOwnerUnlocked(c) ==
  /\ call[c].stage = "owner"
  /\ call' = [call EXCEPT ![c].stage = "commit",
       ![c].outcome = IF profile[call[c].delivery.owner] = "active"
                      THEN "credit" ELSE "quarantine"]
  /\ UNCHANGED <<database, store>>

\* lock_current_profile: a deleted owner is not credited.
LockOwner(c) ==
  LET u == call[c].delivery.owner IN
  /\ call[c].stage = "owner"
  /\ Free(c, {<<"profile", u>>})
  /\ call' = [call EXCEPT ![c].stage = "commit",
                          ![c].held = @ \cup {<<"profile", u>>},
                          ![c].outcome = IF profile[u] = "active" THEN "credit" ELSE "quarantine"]
  /\ UNCHANGED <<database, store>>

\* The unique constraints on decisions and deliveries.
DatabaseAccepts(c) ==
  /\ call[c].outcome # "attach" => \A x \in decisions : x.key # call[c].key
  /\ \A e \in events : e.delivery # call[c].delivery

NewDecision(c) ==
  LET d == call[c].delivery
      credit == call[c].outcome = "credit" IN
  [key |-> call[c].key, claim |-> ClaimOf(d, call[c].key),
   status |-> IF credit THEN "credited" ELSE "quarantined",
   coins |-> IF credit THEN (CHOOSE p \in Offered(call[c].registry, d) : TRUE).coins ELSE 0]

\* Mutant of Commit: every delivery that agrees with a credit pays it.
CommitPaysAgain(c) ==
  LET d == call[c].delivery
      found == {x \in decisions : x.key = call[c].decision}
      made == IF call[c].outcome = "attach" THEN {} ELSE {NewDecision(c)} IN
  /\ call[c].stage = "commit"
  /\ DatabaseAccepts(c)
  /\ bindings' = IF call[c].key = RawKey(d) THEN bindings
                 ELSE bindings \cup {[app |-> d.app, application |-> call[c].key.scope]}
  /\ decisions' = decisions \cup made
  /\ \E x \in IF made = {} THEN found ELSE made :
       LET status == EventStatus(d, call[c].key, call[c].conflict, x) IN
       /\ events' = events \cup {[delivery |-> d, decision |-> x.key, status |-> status]}
       /\ purchased' = IF status = "credited"
                       THEN [purchased EXCEPT ![d.owner] = @ + x.coins] ELSE purchased
  /\ End(c)
  /\ UNCHANGED <<profile, identities, store>>

\* Binding, credit, decision and event receipt are one transaction.
Commit(c) ==
  LET d == call[c].delivery
      found == {x \in decisions : x.key = call[c].decision}
      made == IF call[c].outcome = "attach" THEN {} ELSE {NewDecision(c)} IN
  /\ call[c].stage = "commit"
  /\ DatabaseAccepts(c)
  /\ bindings' = IF call[c].key = RawKey(d) THEN bindings
                 ELSE bindings \cup {[app |-> d.app, application |-> call[c].key.scope]}
  /\ decisions' = decisions \cup made
  /\ \E x \in IF made = {} THEN found ELSE made :
       /\ events' = events \cup
            {[delivery |-> d, decision |-> x.key,
              status |-> EventStatus(d, call[c].key, call[c].conflict, x)]}
       /\ purchased' = IF call[c].outcome = "credit"
                       THEN [purchased EXCEPT ![d.owner] = @ + x.coins] ELSE purchased
  /\ End(c)
  /\ UNCHANGED <<profile, identities, store>>

\* The worker dies, a constraint is violated or the balance would leave its
\* range: everything is rolled back and the provider sends the webhook again.
Crash(c) ==
  /\ call[c].stage # "idle"
  /\ End(c)
  /\ UNCHANGED <<database, store>>

-----------------------------------------------------------------------------
(* Around it. *)

\* The identity of u has been named to this service.
Named(u) == \/ \E e \in events : e.delivery.owner = u
            \/ \E c \in Calls : call[c] # Idle /\ call[c].delivery.owner = u

\* POST /v1/purchases/identity, before the app can buy anything.  An identity is
\* a fresh random UUID that no webhook can have named.
ObtainIdentity(u) ==
  /\ PurchasesEnabled
  /\ Unheld(<<"profile", u>>)
  /\ profile[u] = "active"
  /\ u \notin identities
  /\ ~Named(u)
  /\ identities' = identities \cup {u}
  /\ UNCHANGED <<profile, store, bindings, decisions, events, purchased, call>>

Sell(x) ==
  /\ store[x] = "none"
  /\ \E f \in Facts : f.txn = x /\ f.owner \in identities
  /\ store' = [store EXCEPT ![x] = "owned"]
  /\ UNCHANGED <<database, call>>

Refund(x) ==
  /\ store[x] = "owned"
  /\ store' = [store EXCEPT ![x] = "refunded"]
  /\ UNCHANGED <<database, call>>

\* request_account_deletion: the wallet and the purchase identity stay behind.
DeleteAccount(u) ==
  /\ Unheld(<<"profile", u>>)
  /\ profile[u] = "active"
  /\ profile' = [profile EXCEPT ![u] = "deleted"]
  /\ UNCHANGED <<identities, store, bindings, decisions, events, purchased, call>>

-----------------------------------------------------------------------------
Advance(c) ==
  \/ RecoverTransaction(c)
  \/ LookUp(c)
  \/ LookUpFails(c)
  \/ LockEvent(c)
  \/ LockApp(c)
  \/ LockApplication(c)
  \/ LockRaw(c)
  \/ LockTransaction(c)
  \/ LockOwner(c)
  \/ Commit(c)

Next ==
  \/ \E c \in Calls : \/ Receive(c) \/ SynchronizePurchase(c) \/ RecoverPurchase(c)
                       \/ Advance(c) \/ Crash(c)
  \/ \E u \in Users : ObtainIdentity(u) \/ DeleteAccount(u)
  \/ \E x \in Transactions : Sell(x) \/ Refund(x)

Spec == Init /\ [][Next]_vars

-----------------------------------------------------------------------------
(* Properties. *)

Credited == {x \in decisions : x.status = "credited"}

\* How a credit is shown: a quarantined delivery of its transaction keeps it in review.
Shown(x) ==
  IF \E e \in events : e.decision = x.key /\ e.status = "quarantined"
  THEN "review_required" ELSE "credited"

\* purchase_history and purchase_status, what the owner of a credit is told.
PurchaseHistory(u) ==
  {[reference |-> x.key, coins |-> x.coins, status |-> Shown(x)] :
     x \in {y \in Credited : y.claim.owner = u}}
PurchaseStatus(u, n, x, p) ==
  LET found == {y \in Credited : /\ y.key = [scope |-> n, txn |-> x]
                                 /\ y.claim.product = p
                                 /\ y.claim.owner = u} IN
  IF found = {} THEN {"awaiting_verification"} ELSE {Shown(y) : y \in found}

\* The decisions that speak for a transaction of an app.
About(a, x) == {y \in decisions :
  \E e \in events : e.delivery.app = a /\ e.delivery.txn = x /\ e.decision = y.key}

\* The coins a wallet was given for purchases are those its owner's history shows:
\* no delivery, synchronization or recovery adds coins without its line.
CoinsOf(lines) == MapThenSumSet(LAMBDA x : x.coins, lines)
LedgerIsReceipted == \A u \in Users : purchased[u] = CoinsOf(PurchaseHistory(u))

\* A store transaction is credited at most once, whether it is known by its
\* provider app, whose application may be unknown or unbound when the first
\* webhook arrives, or by its application, which several apps may claim.
CreditedOnce ==
  /\ \A x, y \in Credited : x.key = y.key => x = y
  /\ \A a \in Apps, t \in Transactions : Cardinality(About(a, t) \cap Credited) <= 1

\* Whatever was recorded about a transaction before it was credited, a refund
\* above all, would have kept it from being credited: a credit is always the
\* first thing recorded under either name of its transaction.
BarrierKept ==
  [][\A x \in Credited' \ Credited, e \in events' \ events :
       e.decision = x.key => About(e.delivery.app, e.delivery.txn) = {}]_vars

\* In sandbox mode coins come only from a purchase the provider confirmed, and
\* go to the wallet that bought them, whatever the webhook said.
CreditsAreVerified ==
  ReconciliationEnabled => \A x \in Credited : \E f \in Facts :
    /\ store[f.txn] # "none"
    /\ x.key = [scope |-> f.application, txn |-> f.txn]
    /\ x.claim.product = f.product
    /\ x.claim.owner = f.owner

\* No coins reach the wallet of a deleted account, even if the deletion came
\* after the owner was looked up.
FrozenAfterDeletion ==
  [][\A u \in Users : purchased'[u] # purchased[u] => profile'[u] = "active"]_vars

\* A refund that has been recorded shows: the owner is never told that what the
\* same transaction was credited for is settled.
RefundsFlagged ==
  \A e \in events : e.delivery.kind = "refund" =>
    \A b \in bindings : b.app = e.delivery.app =>
      \A u \in Users, p \in Products :
        "credited" \notin PurchaseStatus(u, b.application, e.delivery.txn, p)

\* A call that has started is answered: the locks are taken in one order, so
\* they never close a circle.
CallsEnd == \A c \in Calls : call[c].stage # "idle" ~> call[c].stage = "idle"

\* PostgreSQL grants advisory locks in the order they are asked for.
FairSpec == Spec /\ \A c \in Calls : SF_vars(Advance(c))
=============================================================================
