--------------------------- MODULE Purchases_proofs ---------------------------
(***************************************************************************)
(* No purchase is credited twice, or credited to a deleted account, or in  *)
(* sandbox mode credited without the provider's word, for every number of  *)
(* calls, accounts, apps, applications, transactions and registries.       *)
(***************************************************************************)
EXTENDS Purchases, FiniteSetTheorems, WellFoundedInduction, TLAPS

LocksDisjoint == \A c, o \in Calls : c # o => call[c].held \cap call[o].held = {}

\* Before a decision is looked for, the call knows the transaction by the provider's
\* name for it, or by its application's under the locks of both: the registry lists
\* the app, and the bindings agree, and go on to agree, that they belong together.
KeyFacts(c) ==
  LET d == call[c].delivery
      g == call[c].registry
      n == TheApplication(g, d) IN
  /\ call[c].stage \in {"page", "lookup", "event", "app", "application"} =>
       call[c].key = RawKey(d)
  /\ call[c].stage \in {"app", "application"} => Listed(g, d.app) # {}
  /\ call[c].stage = "application" => <<"application", d.app>> \in call[c].held
  /\ call[c].stage \in {"raw", "transaction", "owner", "commit"} /\ call[c].key # RawKey(d) =>
       /\ Listed(g, d.app) # {}
       /\ call[c].key = [scope |-> n, txn |-> d.txn]
       /\ <<"application", d.app>> \in call[c].held
       /\ <<"application", n>> \in call[c].held
       /\ \A b \in bindings : b.app = d.app <=> b.application = n

\* What was found under each of the transaction's locks is still so: nothing under
\* that name, or what the event is attached to.
TransactionFacts(c) ==
  LET d == call[c].delivery IN
  /\ call[c].stage \notin {"idle", "transaction", "commit"} => call[c].outcome = "quarantine"
  /\ call[c].stage = "transaction" => call[c].outcome \in {"attach", "quarantine"}
  /\ call[c].stage \in {"transaction", "owner", "commit"} /\ call[c].outcome # "attach" =>
       /\ <<"transaction", RawKey(d)>> \in call[c].held
       /\ \A x \in decisions : x.key # RawKey(d)
  /\ call[c].stage \in {"owner", "commit"} /\ call[c].outcome # "attach" =>
       /\ <<"transaction", call[c].key>> \in call[c].held
       /\ call[c].decision = call[c].key
       /\ \A x \in decisions : x.key # call[c].key
  /\ call[c].stage \in {"transaction", "commit"} /\ call[c].outcome = "attach" =>
       call[c].decision \in {RawKey(d), call[c].key}

\* A credit is for a transaction of a known application and an owner whose account
\* is active and stays so.
CreditFacts(c) ==
  LET u == call[c].delivery.owner IN
  /\ call[c].stage = "owner" => Creditable(c) /\ call[c].key # RawKey(call[c].delivery)
  /\ call[c].stage = "commit" /\ call[c].outcome = "credit" =>
       /\ Creditable(c)
       /\ call[c].key # RawKey(call[c].delivery)
       /\ <<"profile", u>> \in call[c].held
       /\ profile[u] = "active"

\* In sandbox mode the provider was asked about all that could be credited.
Confirmed(c) ==
  LET d == call[c].delivery IN
  [txn |-> d.txn, app |-> d.app, application |-> TheApplication(call[c].registry, d),
   product |-> d.product, owner |-> d.owner] \in Facts
VerifiedFacts(c) ==
  LET d == call[c].delivery IN
  /\ call[c].stage # "idle" => store[d.txn] # "none"
  /\ call[c].stage \notin {"idle", "page", "lookup"} /\
     NeedsLookup(call[c].registry, d) => Confirmed(c)

CallFacts == \A c \in Calls :
  KeyFacts(c) /\ TransactionFacts(c) /\ CreditFacts(c) /\ VerifiedFacts(c)

\* An app and an application are bound to each other alone; what speaks for a
\* transaction has the name the app gave it, or that of the app's application; only
\* the latter is credited; and nothing is decided twice.
Records ==
  /\ \A a, b \in bindings : a.app = b.app <=> a.application = b.application
  /\ \A e \in events :
       /\ e.decision.txn = e.delivery.txn
       /\ \/ e.decision.scope = e.delivery.app
          \/ [app |-> e.delivery.app, application |-> e.decision.scope] \in bindings
  /\ \A x \in Credited : x.key.scope \in Applications
  /\ \A x, y \in decisions : x.key = y.key => x = y

IInv == TypeOK /\ LocksDisjoint /\ CallFacts /\ Records /\ CreditsAreVerified

-----------------------------------------------------------------------------
(* Types. *)

LEMMA RunningCall ==
  ASSUME TypeOK, NEW c \in Calls
  PROVE  /\ call[c].stage = "idle" <=> call[c] = Idle
         /\ call[c].stage # "idle" => call[c] \in Running
<1>1. \A x \in Running : x.stage # "idle"
  BY DEF Running
<1>2. Idle.stage = "idle"
  BY DEF Idle
<1> QED BY <1>1, <1>2 DEF TypeOK

\* The record of a running call.
LEMMA RunningFields ==
  ASSUME NEW x \in Running
  PROVE  /\ x.delivery \in Delivery /\ x.registry \in Registries
         /\ x.key \in Key /\ x.decision \in Key
         /\ x.held \in SUBSET Names
BY DEF Running

LEMMA DeliveryFields ==
  ASSUME NEW d \in Delivery
  PROVE  /\ d.id \in EventIds /\ d.app \in Apps /\ d.txn \in Transactions
         /\ d.product \in Products /\ d.owner \in Users /\ d.kind \in Kinds /\ d.sound \in BOOLEAN
         /\ RawKey(d) \in Key /\ RawKey(d).scope = d.app /\ RawKey(d).txn = d.txn
BY DEF Delivery, RawKey, Key

\* The registry's application of an app that it lists.
LEMMA ListedApplication ==
  ASSUME NEW g \in Registries, NEW d, Listed(g, d.app) # {}
  PROVE  /\ TheApplication(g, d) \in Applications
         /\ \A p \in Listed(g, d.app) : p.application = TheApplication(g, d)
<1>1. PICK q \in Listed(g, d.app) : q = CHOOSE p \in Listed(g, d.app) : TRUE
  OBVIOUS
<1>2. TheApplication(g, d) = q.application
  BY <1>1 DEF TheApplication
<1>3. g \subseteq Row
  BY RegistriesAssumption
<1>4. q \in g /\ q.app = d.app /\ \A p \in Listed(g, d.app) : p \in g /\ p.app = d.app
  BY <1>1 DEF Listed
<1>5. \A p \in Listed(g, d.app) : p.application = q.application
  BY <1>4, RegistriesAssumption
<1>6. q.application \in Applications
  BY <1>3, <1>4 DEF Row
<1> QED BY <1>2, <1>5, <1>6

LEMMA NameTypes ==
  /\ \A a \in Apps, i \in EventIds : <<"event", a, i>> \in Names
  /\ \A n \in Apps \cup Applications : <<"application", n>> \in Names
  /\ \A k \in Key : <<"transaction", k>> \in Names
  /\ \A u \in Users : <<"profile", u>> \in Names
BY DEF Names

-----------------------------------------------------------------------------
(* Steps of one call that change no record. *)

LEMMA CallUpdated ==
  ASSUME TypeOK, NEW c \in Calls, NEW x \in Running \cup {Idle}, call' = [call EXCEPT ![c] = x]
  PROVE  /\ call' \in [Calls -> Running \cup {Idle}]
         /\ call'[c] = x
         /\ \A o \in Calls \ {c} : call'[o] = call[o]
BY DEF TypeOK

\* The facts about a call stay while its record and what they speak of do.
LEMMA FactsStay ==
  ASSUME NEW c \in Calls, call'[c] = call[c], UNCHANGED <<database, store>>,
         KeyFacts(c), TransactionFacts(c), CreditFacts(c), VerifiedFacts(c)
  PROVE  KeyFacts(c)' /\ TransactionFacts(c)' /\ CreditFacts(c)' /\ VerifiedFacts(c)'
BY DEF database, KeyFacts, TransactionFacts, CreditFacts, VerifiedFacts, Creditable, NeedsLookup,
       Confirmed

LEMMA RecordsStay ==
  ASSUME IInv, UNCHANGED <<bindings, decisions, events, store>>
  PROVE  Records' /\ CreditsAreVerified'
BY DEF IInv, Records, CreditsAreVerified, Credited

LEMMA CallStep ==
  ASSUME IInv, NEW c \in Calls, NEW x \in Running \cup {Idle}, call' = [call EXCEPT ![c] = x],
         UNCHANGED <<database, store>>,
         \A o \in Calls \ {c} : x.held \cap call[o].held = {},
         KeyFacts(c)', TransactionFacts(c)', CreditFacts(c)', VerifiedFacts(c)'
  PROVE  IInv'
<1>1. TypeOK
  BY DEF IInv
<1>2. /\ call' \in [Calls -> Running \cup {Idle}] /\ call'[c] = x
      /\ \A o \in Calls \ {c} : call'[o] = call[o]
  BY <1>1, CallUpdated
<1>3. TypeOK'
  BY <1>1, <1>2 DEF TypeOK, database
<1>4. LocksDisjoint'
  BY <1>2 DEF IInv, LocksDisjoint
<1>5. CallFacts'
  BY <1>2, FactsStay DEF IInv, CallFacts
<1> QED BY <1>3, <1>4, <1>5, RecordsStay DEF IInv, database

LEMMA EndStep ==
  ASSUME IInv, NEW c \in Calls, End(c), UNCHANGED <<database, store>>
  PROVE  IInv'
<1>1. call' = [call EXCEPT ![c] = Idle] /\ Idle.held = {} /\ Idle.stage = "idle"
  BY DEF End, Idle
<1>2. call'[c] = Idle
  BY DEF IInv, TypeOK, End
<1>3. KeyFacts(c)' /\ TransactionFacts(c)' /\ CreditFacts(c)' /\ VerifiedFacts(c)'
  BY <1>1, <1>2 DEF KeyFacts, TransactionFacts, CreditFacts, VerifiedFacts
<1> QED BY <1>1, <1>3, CallStep

-----------------------------------------------------------------------------
(* Every step keeps the invariant. *)

LEMMA InitInvariant == Init => IInv
<1> SUFFICES ASSUME Init PROVE IInv
  OBVIOUS
<1>1. \A c \in Calls : call[c] = Idle
  BY DEF Init
<1>2. Idle.stage = "idle" /\ Idle.held = {}
  BY DEF Idle
<1>3. TypeOK
  BY DEF Init, TypeOK
<1>4. LocksDisjoint
  BY <1>1, <1>2 DEF LocksDisjoint
<1>5. CallFacts
  BY <1>1, <1>2 DEF CallFacts, KeyFacts, TransactionFacts, CreditFacts, VerifiedFacts
<1>6. Records /\ CreditsAreVerified
  BY DEF Init, Records, CreditsAreVerified, Credited
<1> QED BY <1>3, <1>4, <1>5, <1>6 DEF IInv

LEMMA StartStep ==
  ASSUME IInv, NEW c \in Calls, NEW d \in Delivery, NEW g \in Registries,
         NEW s \in {"page", "lookup", "event"}, Start(c, d, g, s),
         store[d.txn] # "none", s = "event" => ~NeedsLookup(g, d),
         UNCHANGED <<database, store>>
  PROVE  IInv'
<1> DEFINE x == [stage |-> s, held |-> {}, delivery |-> d, registry |-> g, conflict |-> FALSE,
                 key |-> RawKey(d), decision |-> RawKey(d), outcome |-> "quarantine"]
<1>1. x \in Running
  BY DeliveryFields DEF Running
<1>2. call' = [call EXCEPT ![c] = x]
  BY DEF Start
<1>3. call'[c] = x
  BY <1>1, <1>2, CallUpdated DEF IInv
<1>4. KeyFacts(c)' /\ TransactionFacts(c)' /\ CreditFacts(c)'
  BY <1>3 DEF KeyFacts, TransactionFacts, CreditFacts
<1>5. VerifiedFacts(c)'
  BY <1>3 DEF VerifiedFacts, NeedsLookup, database
<1>6. \A o \in Calls \ {c} : x.held \cap call[o].held = {}
  OBVIOUS
<1> HIDE DEF x
<1> QED BY <1>1, <1>2, <1>4, <1>5, <1>6, CallStep

LEMMA AskingIsDelivery == \A f \in Facts : Asking(f) \in Delivery /\ Asking(f).txn = f.txn
<1> SUFFICES ASSUME NEW f \in Facts PROVE Asking(f) \in Delivery /\ Asking(f).txn = f.txn
  OBVIOUS
<1>1. f \in Fact
  BY ProviderAssumption
<1>2. <<"sync", f.txn, "purchase">> \in EventIds
  BY <1>1 DEF EventIds, Kinds, Fact
<1> QED BY <1>1, <1>2 DEF Asking, Delivery, Fact, Kinds

LEMMA StartSteps ==
  ASSUME IInv, NEW c \in Calls, Receive(c) \/ SynchronizePurchase(c) \/ RecoverPurchase(c)
  PROVE  IInv'
<1>1. CASE Receive(c)
  BY <1>1, StartStep, ProviderAssumption DEF Receive
<1>2. CASE SynchronizePurchase(c)
  BY <1>2, StartStep, AskingIsDelivery DEF SynchronizePurchase
<1>3. CASE RecoverPurchase(c)
  BY <1>3, StartStep, AskingIsDelivery DEF RecoverPurchase
<1> QED BY <1>1, <1>2, <1>3

LEMMA RecoverTransactionStep ==
  ASSUME IInv, NEW c \in Calls, RecoverTransaction(c)
  PROVE  IInv'
<1> DEFINE x == [call[c] EXCEPT !.stage = "lookup"]
<1>1. call[c].stage = "page" /\ call[c] \in Running
  BY RunningCall DEF RecoverTransaction, IInv
<1>2. x \in Running
  BY <1>1 DEF Running
<1>3. call' = [call EXCEPT ![c] = x] /\ UNCHANGED <<database, store>>
  BY DEF RecoverTransaction
<1>4. call'[c] = x
  BY <1>2, <1>3, CallUpdated DEF IInv
<1>5. /\ x.stage = "lookup" /\ x.held = call[c].held /\ x.delivery = call[c].delivery
      /\ x.registry = call[c].registry /\ x.key = call[c].key /\ x.outcome = call[c].outcome
  BY <1>1 DEF Running
<1>6. KeyFacts(c) /\ TransactionFacts(c) /\ VerifiedFacts(c)
  BY DEF IInv, CallFacts
<1> HIDE DEF x
<1>7. KeyFacts(c)' /\ TransactionFacts(c)' /\ CreditFacts(c)'
  BY <1>1, <1>4, <1>5, <1>6 DEF KeyFacts, TransactionFacts, CreditFacts
<1>8. VerifiedFacts(c)'
  BY <1>1, <1>3, <1>4, <1>5, <1>6 DEF VerifiedFacts
<1>9. \A o \in Calls \ {c} : x.held \cap call[o].held = {}
  BY <1>5 DEF IInv, LocksDisjoint
<1> QED BY <1>2, <1>3, <1>7, <1>8, <1>9, CallStep

LEMMA LookUpStep ==
  ASSUME IInv, NEW c \in Calls, LookUp(c)
  PROVE  IInv'
<1> DEFINE d == call[c].delivery
           refunded == store[d.txn] = "refunded"
           e == [d EXCEPT !.kind = IF refunded THEN "refund" ELSE "purchase",
                          !.id = IF refunded /\ d.id[1] = "sync"
                                 THEN <<"sync", d.txn, "refund">> ELSE d.id]
           x == [call[c] EXCEPT !.stage = "event", !.delivery = e]
<1>1. call[c].stage = "lookup" /\ call[c] \in Running
  BY RunningCall DEF LookUp, IInv
<1>2. d \in Delivery
  BY <1>1, RunningFields
<1>3. <<"sync", d.txn, "refund">> \in EventIds
  BY <1>2, DeliveryFields DEF EventIds, Kinds
<1>4. /\ e \in Delivery /\ e.app = d.app /\ e.txn = d.txn /\ e.product = d.product
      /\ e.owner = d.owner
  BY <1>2, <1>3, DeliveryFields DEF Delivery, Kinds
<1>5. call' = [call EXCEPT ![c] = x] /\ UNCHANGED <<database, store>>
  BY DEF LookUp
<1>6. [txn |-> d.txn, app |-> d.app, application |-> TheApplication(call[c].registry, d),
       product |-> d.product, owner |-> d.owner] \in Facts
  BY DEF LookUp
<1> HIDE DEF e
<1>7. x \in Running
  BY <1>1, <1>4 DEF Running
<1>8. /\ x.stage = "event" /\ x.held = call[c].held /\ x.delivery = e
      /\ x.registry = call[c].registry /\ x.key = call[c].key /\ x.outcome = call[c].outcome
  BY <1>1 DEF Running
<1>9. call'[c] = x
  BY <1>5, <1>7, CallUpdated DEF IInv
<1>10. KeyFacts(c) /\ TransactionFacts(c) /\ VerifiedFacts(c)
  BY DEF IInv, CallFacts
<1> HIDE DEF x
<1>11. KeyFacts(c)' /\ TransactionFacts(c)' /\ CreditFacts(c)'
  BY <1>1, <1>4, <1>8, <1>9, <1>10 DEF KeyFacts, TransactionFacts, CreditFacts, RawKey
<1>12. TheApplication(call[c].registry, e) = TheApplication(call[c].registry, d)
  BY <1>4 DEF TheApplication, Listed
<1>13. VerifiedFacts(c)'
  BY <1>1, <1>4, <1>5, <1>6, <1>8, <1>9, <1>10, <1>12 DEF VerifiedFacts, Confirmed
<1>14. \A o \in Calls \ {c} : x.held \cap call[o].held = {}
  BY <1>8 DEF IInv, LocksDisjoint
<1> QED BY <1>5, <1>7, <1>11, <1>13, <1>14, CallStep

LEMMA LockEventStep ==
  ASSUME IInv, NEW c \in Calls, LockEvent(c)
  PROVE  IInv'
<1> DEFINE d == call[c].delivery
           name == <<"event", d.app, d.id>>
           x == [call[c] EXCEPT
                   !.stage = IF Listed(call[c].registry, d.app) = {}
                             THEN "raw" ELSE "app",
                   !.held = @ \cup {name},
                   !.conflict = \E e \in events : SameEvent(e.delivery, d)]
<1>1. CASE End(c)
  BY <1>1, EndStep DEF LockEvent
<1>2. CASE ~End(c)
  <2>1. call[c].stage = "event" /\ call[c] \in Running
    BY RunningCall DEF LockEvent, IInv
  <2>2. name \in Names
    BY <2>1, RunningFields, DeliveryFields, NameTypes
  <2>3. call' = [call EXCEPT ![c] = x] /\ UNCHANGED <<database, store>>
    BY <1>2 DEF LockEvent
  <2>4. \A o \in Calls \ {c} : name \notin call[o].held
    BY DEF LockEvent, Free
  <2> HIDE DEF name
  <2>5. x \in Running
    BY <2>1, <2>2 DEF Running
  <2>6. /\ x.stage = IF Listed(call[c].registry, d.app) = {} THEN "raw" ELSE "app"
        /\ x.held = call[c].held \cup {name} /\ x.delivery = d
        /\ x.registry = call[c].registry /\ x.key = call[c].key /\ x.outcome = call[c].outcome
    BY <2>1 DEF Running
  <2>7. call'[c] = x
    BY <2>3, <2>5, CallUpdated DEF IInv
  <2>8. KeyFacts(c) /\ TransactionFacts(c) /\ VerifiedFacts(c)
    BY DEF IInv, CallFacts
  <2> HIDE DEF x
  <2>9. KeyFacts(c)' /\ TransactionFacts(c)' /\ CreditFacts(c)'
    BY <2>1, <2>6, <2>7, <2>8 DEF KeyFacts, TransactionFacts, CreditFacts
  <2>10. VerifiedFacts(c)'
    BY <2>1, <2>3, <2>6, <2>7, <2>8 DEF VerifiedFacts, NeedsLookup, Confirmed, database
  <2>11. \A o \in Calls \ {c} : x.held \cap call[o].held = {}
    BY <2>4, <2>6 DEF IInv, LocksDisjoint
  <2> QED BY <2>3, <2>5, <2>9, <2>10, <2>11, CallStep
<1> QED BY <1>1, <1>2

LEMMA LockAppStep ==
  ASSUME IInv, NEW c \in Calls, LockApp(c)
  PROVE  IInv'
<1> DEFINE d == call[c].delivery
           name == <<"application", d.app>>
           x == [call[c] EXCEPT !.stage = "application", !.held = @ \cup {name}]
<1>1. call[c].stage = "app" /\ call[c] \in Running
  BY RunningCall DEF LockApp, IInv
<1>2. name \in Names
  BY <1>1, RunningFields, DeliveryFields, NameTypes
<1>3. KeyFacts(c) /\ TransactionFacts(c) /\ VerifiedFacts(c)
  BY DEF IInv, CallFacts
<1>4. call' = [call EXCEPT ![c] = x] /\ UNCHANGED <<database, store>>
  BY DEF LockApp
<1>5. \A o \in Calls \ {c} : name \notin call[o].held
  BY DEF LockApp, Free
<1>6. x \in Running
  <2> HIDE DEF name
  <2> QED BY <1>1, <1>2 DEF Running
<1>7. /\ x.stage = "application" /\ x.held = call[c].held \cup {name} /\ x.delivery = d
      /\ x.registry = call[c].registry /\ x.key = call[c].key /\ x.outcome = call[c].outcome
  BY <1>1 DEF Running
<1>8. call'[c] = x
  BY <1>4, <1>6, CallUpdated DEF IInv
<1> HIDE DEF x
<1>9. KeyFacts(c)' /\ TransactionFacts(c)' /\ CreditFacts(c)'
  BY <1>1, <1>3, <1>7, <1>8 DEF KeyFacts, TransactionFacts, CreditFacts
<1>10. VerifiedFacts(c)'
  BY <1>1, <1>3, <1>4, <1>7, <1>8 DEF VerifiedFacts, NeedsLookup, Confirmed, database
<1>11. \A o \in Calls \ {c} : x.held \cap call[o].held = {}
  BY <1>5, <1>7 DEF IInv, LocksDisjoint
<1> QED BY <1>4, <1>6, <1>9, <1>10, <1>11, CallStep

LEMMA LockApplicationStep ==
  ASSUME IInv, NEW c \in Calls, LockApplication(c)
  PROVE  IInv'
<1> DEFINE d == call[c].delivery
           g == call[c].registry
           n == TheApplication(g, d)
           name == <<"application", n>>
           k == ResolvedKey(g, d)
           x == [call[c] EXCEPT !.stage = "raw", !.held = @ \cup {name}, !.key = k]
<1>1. call[c].stage = "application" /\ call[c] \in Running
  BY RunningCall DEF LockApplication, IInv
<1>2. d \in Delivery /\ g \in Registries
  BY <1>1, RunningFields
<1>3. KeyFacts(c) /\ TransactionFacts(c) /\ VerifiedFacts(c)
  BY DEF IInv, CallFacts
<1>4. Listed(g, d.app) # {} /\ <<"application", d.app>> \in call[c].held
  BY <1>1, <1>3 DEF KeyFacts
<1>5. n \in Applications /\ \A p \in Listed(g, d.app) : p.application = n
  BY <1>2, <1>4, ListedApplication
<1>6. k \in Key /\ \/ k = RawKey(d)
                   \/ /\ k = [scope |-> n, txn |-> d.txn]
                      /\ \A b \in bindings : b.app = d.app <=> b.application = n
  BY <1>2, <1>5, DeliveryFields DEF ResolvedKey, Resolves, Key
<1>7. name \in Names
  BY <1>5, NameTypes
<1>8. call' = [call EXCEPT ![c] = x] /\ UNCHANGED <<database, store>>
  BY DEF LockApplication
<1>9. \A o \in Calls \ {c} : name \notin call[o].held
  BY DEF LockApplication, Free
<1> HIDE DEF k
<1>10. x \in Running
  <2> HIDE DEF name
  <2> QED BY <1>1, <1>6, <1>7 DEF Running
<1>11. /\ x.stage = "raw" /\ x.held = call[c].held \cup {name} /\ x.delivery = d
       /\ x.registry = g /\ x.key = k /\ x.outcome = call[c].outcome
  BY <1>1 DEF Running
<1>12. call'[c] = x
  BY <1>8, <1>10, CallUpdated DEF IInv
<1> HIDE DEF x
<1>13. KeyFacts(c)'
  BY <1>4, <1>6, <1>8, <1>11, <1>12 DEF KeyFacts, database
<1>14. TransactionFacts(c)' /\ CreditFacts(c)'
  BY <1>1, <1>3, <1>11, <1>12 DEF TransactionFacts, CreditFacts
<1>15. VerifiedFacts(c)'
  BY <1>1, <1>3, <1>8, <1>11, <1>12 DEF VerifiedFacts, NeedsLookup, Confirmed, database
<1>16. \A o \in Calls \ {c} : x.held \cap call[o].held = {}
  BY <1>9, <1>11 DEF IInv, LocksDisjoint
<1> QED BY <1>8, <1>10, <1>13, <1>14, <1>15, <1>16, CallStep

LEMMA LockRawStep ==
  ASSUME IInv, NEW c \in Calls, LockRaw(c)
  PROVE  IInv'
<1> DEFINE d == call[c].delivery
           name == <<"transaction", RawKey(d)>>
           found == IF Barred(d) THEN "attach" ELSE "quarantine"
           x == [call[c] EXCEPT !.stage = "transaction", !.held = @ \cup {name},
                                !.decision = RawKey(d), !.outcome = found]
<1>1. call[c].stage = "raw" /\ call[c] \in Running
  BY RunningCall DEF LockRaw, IInv
<1>2. name \in Names /\ RawKey(d) \in Key
  BY <1>1, RunningFields, DeliveryFields, NameTypes
<1>3. KeyFacts(c) /\ VerifiedFacts(c)
  BY DEF IInv, CallFacts
<1>4. call' = [call EXCEPT ![c] = x] /\ UNCHANGED <<database, store>>
  BY DEF LockRaw
<1>5. \A o \in Calls \ {c} : name \notin call[o].held
  BY DEF LockRaw, Free
<1>6. /\ found \in {"attach", "quarantine"}
      /\ found # "attach" => \A y \in decisions : y.key # RawKey(d)
  BY DEF Barred
<1> HIDE DEF found
<1>7. x \in Running
  <2> HIDE DEF name
  <2> QED BY <1>1, <1>2, <1>6 DEF Running
<1>8. /\ x.stage = "transaction" /\ x.held = call[c].held \cup {name} /\ x.delivery = d
      /\ x.registry = call[c].registry /\ x.key = call[c].key /\ x.outcome = found
      /\ x.decision = RawKey(d)
  BY <1>1 DEF Running
<1>9. call'[c] = x
  BY <1>4, <1>7, CallUpdated DEF IInv
<1> HIDE DEF x
<1>10. KeyFacts(c)'
  BY <1>1, <1>3, <1>4, <1>8, <1>9 DEF KeyFacts, database
<1>11. TransactionFacts(c)' /\ CreditFacts(c)'
  BY <1>4, <1>6, <1>8, <1>9 DEF TransactionFacts, CreditFacts, database
<1>12. VerifiedFacts(c)'
  BY <1>1, <1>3, <1>4, <1>8, <1>9 DEF VerifiedFacts, NeedsLookup, Confirmed, database
<1>13. \A o \in Calls \ {c} : x.held \cap call[o].held = {}
  BY <1>5, <1>8 DEF IInv, LocksDisjoint
<1> QED BY <1>4, <1>7, <1>10, <1>11, <1>12, <1>13, CallStep

LEMMA LockTransactionStep ==
  ASSUME IInv, NEW c \in Calls, LockTransaction(c)
  PROVE  IInv'
<1> DEFINE d == call[c].delivery
           k == call[c].key
           name == <<"transaction", k>>
           decided == \E y \in decisions : y.key = k
           found == call[c].outcome = "attach"
           stage == IF ~found /\ ~decided /\ k # RawKey(d) /\ Creditable(c)
                    THEN "owner" ELSE "commit"
           decision == IF found THEN call[c].decision ELSE k
           outcome == IF found \/ decided THEN "attach" ELSE "quarantine"
           x == [call[c] EXCEPT !.stage = stage, !.held = @ \cup {name},
                                !.decision = decision, !.outcome = outcome]
<1>1. call[c].stage = "transaction" /\ call[c] \in Running
  BY RunningCall DEF LockTransaction, IInv
<1>2. name \in Names /\ call[c].decision \in Key /\ k \in Key
  BY <1>1, RunningFields, NameTypes DEF Running
<1>3. KeyFacts(c) /\ TransactionFacts(c) /\ VerifiedFacts(c)
  BY DEF IInv, CallFacts
<1>4. call' = [call EXCEPT ![c] = x] /\ UNCHANGED <<database, store>>
  BY DEF LockTransaction
<1>5. \A o \in Calls \ {c} : name \notin call[o].held
  BY DEF LockTransaction, Free
<1>6. /\ stage \in {"owner", "commit"} /\ outcome \in {"attach", "quarantine"}
      /\ decision \in Key
      /\ stage = "owner" => outcome = "quarantine" /\ k # RawKey(d) /\ Creditable(c)
  BY <1>2
<1>7. outcome = "attach" => decision \in {RawKey(d), k}
  BY <1>1, <1>3 DEF TransactionFacts
<1>8. outcome # "attach" => /\ <<"transaction", RawKey(d)>> \in call[c].held
                            /\ \A y \in decisions : y.key # RawKey(d) /\ y.key # k
                            /\ decision = k
  BY <1>1, <1>3 DEF TransactionFacts
<1> HIDE DEF stage, decision, outcome
<1>9. x \in Running
  <2> HIDE DEF name
  <2> QED BY <1>1, <1>2, <1>6 DEF Running
<1>10. /\ x.stage = stage /\ x.held = call[c].held \cup {name} /\ x.delivery = d
       /\ x.registry = call[c].registry /\ x.key = k /\ x.outcome = outcome
       /\ x.decision = decision /\ x.conflict = call[c].conflict
  BY <1>1 DEF Running
<1>11. call'[c] = x
  BY <1>4, <1>9, CallUpdated DEF IInv
<1> HIDE DEF x
<1>12. KeyFacts(c)'
  BY <1>1, <1>3, <1>4, <1>6, <1>10, <1>11 DEF KeyFacts, database
<1>13. TransactionFacts(c)'
  BY <1>4, <1>6, <1>7, <1>8, <1>10, <1>11 DEF TransactionFacts, database
<1>14. CreditFacts(c)'
  BY <1>4, <1>6, <1>10, <1>11 DEF CreditFacts, Creditable, database
<1>15. VerifiedFacts(c)'
  BY <1>1, <1>3, <1>4, <1>6, <1>10, <1>11
     DEF VerifiedFacts, NeedsLookup, Confirmed, database
<1>16. \A o \in Calls \ {c} : x.held \cap call[o].held = {}
  BY <1>5, <1>10 DEF IInv, LocksDisjoint
<1> QED BY <1>4, <1>9, <1>12, <1>13, <1>14, <1>15, <1>16, CallStep

LEMMA LockOwnerStep ==
  ASSUME IInv, NEW c \in Calls, LockOwner(c)
  PROVE  IInv'
<1> DEFINE d == call[c].delivery
           u == d.owner
           name == <<"profile", u>>
           answer == IF profile[u] = "active" THEN "credit" ELSE "quarantine"
           x == [call[c] EXCEPT !.stage = "commit", !.held = @ \cup {name}, !.outcome = answer]
<1>1. call[c].stage = "owner" /\ call[c] \in Running
  BY RunningCall DEF LockOwner, IInv
<1>2. name \in Names
  BY <1>1, RunningFields, DeliveryFields, NameTypes
<1>3. KeyFacts(c) /\ TransactionFacts(c) /\ CreditFacts(c) /\ VerifiedFacts(c)
  BY DEF IInv, CallFacts
<1>4. call' = [call EXCEPT ![c] = x] /\ UNCHANGED <<database, store>>
  BY DEF LockOwner
<1>5. \A o \in Calls \ {c} : name \notin call[o].held
  BY DEF LockOwner, Free
<1>6. /\ answer \in {"credit", "quarantine"}
      /\ answer = "credit" => profile[u] = "active"
  OBVIOUS
<1> HIDE DEF name, answer
<1>7. x \in Running
  BY <1>1, <1>2, <1>6 DEF Running
<1>8. /\ x.stage = "commit" /\ x.held = call[c].held \cup {name} /\ x.delivery = d
      /\ x.registry = call[c].registry /\ x.key = call[c].key /\ x.outcome = answer
      /\ x.decision = call[c].decision /\ x.conflict = call[c].conflict
  BY <1>1 DEF Running
<1>9. call'[c] = x
  BY <1>4, <1>7, CallUpdated DEF IInv
<1> HIDE DEF x
<1>10. KeyFacts(c)'
  BY <1>1, <1>3, <1>4, <1>8, <1>9 DEF KeyFacts, database
<1>11. call[c].outcome = "quarantine"
  BY <1>1, <1>3 DEF TransactionFacts
<1>12. TransactionFacts(c)'
  BY <1>1, <1>3, <1>4, <1>6, <1>8, <1>9, <1>11 DEF TransactionFacts, database
<1>13. CreditFacts(c)'
  BY <1>1, <1>3, <1>4, <1>6, <1>8, <1>9 DEF CreditFacts, Creditable, database, name
<1>14. VerifiedFacts(c)'
  BY <1>1, <1>3, <1>4, <1>8, <1>9 DEF VerifiedFacts, NeedsLookup, Confirmed, database
<1>15. \A o \in Calls \ {c} : x.held \cap call[o].held = {}
  BY <1>5, <1>8 DEF IInv, LocksDisjoint
<1> QED BY <1>4, <1>7, <1>10, <1>12, <1>13, <1>14, <1>15, CallStep

\* What a commit writes: for a claim decided now, one decision under the call's key,
\* under whose two names there was none; for the event, a receipt under either name.
LEMMA CommitWrites ==
  ASSUME IInv, NEW c \in Calls, Commit(c)
  PROVE
    LET d == call[c].delivery
        k == call[c].key
        n == TheApplication(call[c].registry, d)
        v == NewDecision(c) IN
    /\ call[c] \in Running /\ d \in Delivery /\ k \in Key
    /\ bindings' = IF k = RawKey(d) THEN bindings
                   ELSE bindings \cup {[app |-> d.app, application |-> k.scope]}
    /\ k # RawKey(d) => /\ k = [scope |-> n, txn |-> d.txn] /\ n \in Applications
                        /\ <<"application", d.app>> \in call[c].held
                        /\ <<"application", n>> \in call[c].held
                        /\ \A b \in bindings : b.app = d.app <=> b.application = n
    /\ \/ call[c].outcome = "attach" /\ decisions' = decisions
       \/ /\ call[c].outcome # "attach" /\ decisions' = decisions \cup {v}
          /\ v.key = k /\ v.claim = ClaimOf(d, k) /\ v.coins \in Nat
          /\ v \in [key: Key, claim: Claim, status: {"credited", "quarantined"}, coins: Nat]
          /\ v.status = "credited" => call[c].outcome = "credit"
          /\ <<"transaction", k>> \in call[c].held
          /\ \A x \in decisions : x.key # RawKey(d) /\ x.key # k
    /\ \E y \in decisions' :
         /\ y.key = RawKey(d) \/ y.key = k
         /\ events' = events \cup
              {[delivery |-> d, decision |-> y.key,
                status |-> EventStatus(d, k, call[c].conflict, y)]}
         /\ purchased' = IF call[c].outcome = "credit"
                         THEN [purchased EXCEPT ![d.owner] = @ + y.coins] ELSE purchased
    /\ call[c].outcome = "credit" =>
         Creditable(c) /\ k # RawKey(d) /\ profile[d.owner] = "active"
<1> DEFINE d == call[c].delivery
           k == call[c].key
           g == call[c].registry
           n == TheApplication(g, d)
           v == NewDecision(c)
           Decision == [key: Key, claim: Claim, status: {"credited", "quarantined"}, coins: Nat]
<1>1. call[c].stage = "commit" /\ call[c] \in Running
  BY RunningCall DEF Commit, IInv
<1>2. d \in Delivery /\ k \in Key /\ g \in Registries
  BY <1>1, RunningFields
<1>3. KeyFacts(c) /\ TransactionFacts(c) /\ CreditFacts(c)
  BY DEF IInv, CallFacts
<1>4. k # RawKey(d) => /\ Listed(g, d.app) # {} /\ k = [scope |-> n, txn |-> d.txn]
                       /\ <<"application", d.app>> \in call[c].held
                       /\ <<"application", n>> \in call[c].held
                       /\ \A b \in bindings : b.app = d.app <=> b.application = n
  BY <1>1, <1>3 DEF KeyFacts
<1>5. k # RawKey(d) => n \in Applications
  BY <1>2, <1>4, ListedApplication
<1>6. call[c].outcome = "credit" =>
        Creditable(c) /\ k # RawKey(d) /\ profile[d.owner] = "active"
  BY <1>1, <1>3 DEF CreditFacts
<1>7. ClaimOf(d, k) \in Claim
  BY <1>2, DeliveryFields DEF ClaimOf, Claim
<1>8. ASSUME call[c].outcome = "credit"
      PROVE  (CHOOSE p \in Offered(g, d) : TRUE).coins \in Nat
  <2>1. PICK q \in Offered(g, d) : q = CHOOSE p \in Offered(g, d) : TRUE
    BY <1>6, <1>8 DEF Creditable
  <2>2. q \in Row
    BY <1>2, <2>1, RegistriesAssumption DEF Offered, Listed
  <2> QED BY <2>1, <2>2 DEF Row
<1>9. /\ v \in Decision /\ v.key = k /\ v.claim = ClaimOf(d, k)
      /\ v.status = "credited" => call[c].outcome = "credit"
  <2>1. v = [key |-> k, claim |-> ClaimOf(d, k),
             status |-> IF call[c].outcome = "credit" THEN "credited" ELSE "quarantined",
             coins |-> IF call[c].outcome = "credit"
                       THEN (CHOOSE p \in Offered(g, d) : TRUE).coins ELSE 0]
    BY DEF NewDecision
  <2>2. v.coins \in Nat
    BY <1>8, <2>1
  <2> QED BY <1>2, <1>7, <2>1, <2>2
<1>10. call[c].outcome # "attach" =>
         /\ <<"transaction", k>> \in call[c].held
         /\ \A x \in decisions : x.key # RawKey(d) /\ x.key # k
  BY <1>1, <1>3 DEF TransactionFacts
<1>11. call[c].outcome = "attach" => call[c].decision \in {RawKey(d), k}
  BY <1>1, <1>3 DEF TransactionFacts
<1> DEFINE found == {x \in decisions : x.key = call[c].decision}
           made == IF call[c].outcome = "attach" THEN {} ELSE {v}
<1>12. /\ bindings' = IF k = RawKey(d) THEN bindings
                      ELSE bindings \cup {[app |-> d.app, application |-> k.scope]}
       /\ decisions' = decisions \cup made
       /\ \E y \in IF made = {} THEN found ELSE made :
            /\ events' = events \cup
                 {[delivery |-> d, decision |-> y.key,
                   status |-> EventStatus(d, k, call[c].conflict, y)]}
            /\ purchased' = IF call[c].outcome = "credit"
                            THEN [purchased EXCEPT ![d.owner] = @ + y.coins] ELSE purchased
  BY DEF Commit
<1> HIDE DEF v
<1>13. \A y \in IF made = {} THEN found ELSE made :
         y \in decisions' /\ (y.key = RawKey(d) \/ y.key = k)
  BY <1>9, <1>11, <1>12
<1>14. \/ call[c].outcome = "attach" /\ decisions' = decisions
       \/ call[c].outcome # "attach" /\ decisions' = decisions \cup {v}
  BY <1>12
<1>15. \E y \in decisions' :
         /\ y.key = RawKey(d) \/ y.key = k
         /\ events' = events \cup
              {[delivery |-> d, decision |-> y.key,
                status |-> EventStatus(d, k, call[c].conflict, y)]}
         /\ purchased' = IF call[c].outcome = "credit"
                         THEN [purchased EXCEPT ![d.owner] = @ + y.coins] ELSE purchased
  BY <1>12, <1>13
<1>16. v.coins \in Nat
  BY <1>9
<1> HIDE DEF made, found
<1> QED BY <1>1, <1>2, <1>4, <1>5, <1>6, <1>9, <1>10, <1>12, <1>14, <1>15, <1>16 DEF v

LEMMA CommitStep ==
  ASSUME IInv, NEW c \in Calls, Commit(c)
  PROVE  IInv'
<1> DEFINE d == call[c].delivery
           k == call[c].key
           n == TheApplication(call[c].registry, d)
           v == NewDecision(c)
           b1 == [app |-> d.app, application |-> n]
<1>1. TypeOK /\ Records
  BY DEF IInv
<1>2. PICK y \in decisions' :
         /\ y.key = RawKey(d) \/ y.key = k
         /\ events' = events \cup
              {[delivery |-> d, decision |-> y.key,
                status |-> EventStatus(d, k, call[c].conflict, y)]}
         /\ purchased' = IF call[c].outcome = "credit"
                         THEN [purchased EXCEPT ![d.owner] = @ + y.coins] ELSE purchased
  BY CommitWrites
<1>3. d \in Delivery /\ k \in Key /\ RawKey(d) \in Key /\ call[c] \in Running
  BY CommitWrites, DeliveryFields
<1>4. k # RawKey(d) => /\ k = [scope |-> n, txn |-> d.txn] /\ n \in Applications
                       /\ <<"application", d.app>> \in call[c].held
                       /\ <<"application", n>> \in call[c].held
                       /\ \A b \in bindings : b.app = d.app <=> b.application = n
  BY CommitWrites
<1>5. bindings' = IF k = RawKey(d) THEN bindings ELSE bindings \cup {b1}
  <2>1. bindings' = IF k = RawKey(d) THEN bindings
                    ELSE bindings \cup {[app |-> d.app, application |-> k.scope]}
    BY CommitWrites
  <2>2. k # RawKey(d) => k.scope = n
    BY <1>4
  <2> QED BY <2>1, <2>2
<1>6. \/ call[c].outcome = "attach" /\ decisions' = decisions
      \/ /\ call[c].outcome # "attach" /\ decisions' = decisions \cup {v}
         /\ v.key = k /\ v.claim = ClaimOf(d, k)
         /\ v \in [key: Key, claim: Claim, status: {"credited", "quarantined"}, coins: Nat]
         /\ v.status = "credited" => call[c].outcome = "credit"
         /\ <<"transaction", k>> \in call[c].held
         /\ \A x \in decisions : x.key # RawKey(d) /\ x.key # k
  BY CommitWrites
<1>7. call[c].outcome = "credit" =>
        Creditable(c) /\ k # RawKey(d) /\ profile[d.owner] = "active"
  BY CommitWrites
<1>8. UNCHANGED <<profile, identities, store>> /\ call' = [call EXCEPT ![c] = Idle]
      /\ call[c].stage = "commit"
  BY DEF Commit, End
<1>9. /\ call' \in [Calls -> Running \cup {Idle}] /\ call'[c] = Idle
      /\ \A o \in Calls \ {c} : call'[o] = call[o]
  BY <1>1, <1>8, CallUpdated
<1>10. Idle.stage = "idle" /\ Idle.held = {}
  BY DEF Idle
<1> HIDE DEF v
<1>11. TypeOK'
  <2>1. bindings' \subseteq [app: Apps, application: Applications]
    BY <1>1, <1>3, <1>4, <1>5, DeliveryFields DEF TypeOK
  <2>2. decisions' \subseteq [key: Key, claim: Claim, status: {"credited", "quarantined"}, coins: Nat]
    BY <1>1, <1>6 DEF TypeOK
  <2>3. EventStatus(d, k, call[c].conflict, y) \in {"credited", "quarantined"}
    BY DEF EventStatus
  <2>4. events' \subseteq [delivery: Delivery, decision: Key, status: {"credited", "quarantined"}]
    BY <1>1, <1>2, <1>3, <2>3 DEF TypeOK
  <2>5. y.coins \in Nat
    BY <2>2
  <2>6. purchased' \in [Users -> Nat]
    BY <1>1, <1>2, <1>3, <2>5, DeliveryFields DEF TypeOK
  <2> QED BY <1>1, <1>8, <1>9, <2>1, <2>2, <2>4, <2>6 DEF TypeOK
<1>12. LocksDisjoint'
  BY <1>9, <1>10 DEF IInv, LocksDisjoint
<1>13. Records'
  <2>1. \A a, b \in bindings' : a.app = b.app <=> a.application = b.application
    BY <1>1, <1>4, <1>5 DEF Records
  <2>2. y.key.txn = d.txn /\ (y.key.scope = d.app \/ (y.key.scope = n /\ b1 \in bindings'))
    BY <1>2, <1>3, <1>4, <1>5, DeliveryFields
  <2>3. bindings \subseteq bindings'
    BY <1>5
  <2>4. \A e \in events' :
          /\ e.decision.txn = e.delivery.txn
          /\ \/ e.decision.scope = e.delivery.app
             \/ [app |-> e.delivery.app, application |-> e.decision.scope] \in bindings'
    <3>1. SUFFICES ASSUME NEW e \in events'
                   PROVE  /\ e.decision.txn = e.delivery.txn
                          /\ \/ e.decision.scope = e.delivery.app
                             \/ [app |-> e.delivery.app, application |-> e.decision.scope]
                                  \in bindings'
      OBVIOUS
    <3>2. CASE e \in events
      BY <1>1, <2>3, <3>2 DEF Records
    <3>3. CASE e \notin events
      <4>1. e.delivery = d /\ e.decision = y.key
        BY <1>2, <3>3
      <4>2. CASE y.key.scope = d.app
        BY <2>2, <4>1, <4>2
      <4>3. CASE y.key.scope = n /\ b1 \in bindings'
        <5>1. [app |-> e.delivery.app, application |-> e.decision.scope] = b1
          BY <4>1, <4>3
        <5> QED BY <2>2, <4>1, <4>3, <5>1
      <4> QED BY <2>2, <4>2, <4>3
    <3> QED BY <3>2, <3>3
  <2>5. \A x \in Credited' : x.key.scope \in Applications
    BY <1>1, <1>4, <1>6, <1>7 DEF Records, Credited
  <2>6. \A x, z \in decisions' : x.key = z.key => x = z
    BY <1>1, <1>6 DEF Records
  <2> QED BY <2>1, <2>4, <2>5, <2>6 DEF Records
<1>14. CreditsAreVerified'
  <2>1. CreditsAreVerified
    BY DEF IInv
  <2>2. SUFFICES ASSUME ReconciliationEnabled, v \in decisions', v \notin decisions,
                        v.status = "credited"
                 PROVE  \E f \in Facts : /\ store[f.txn] # "none"
                                         /\ v.key = [scope |-> f.application, txn |-> f.txn]
                                         /\ v.claim.product = f.product
                                         /\ v.claim.owner = f.owner
    <3>1. \A x \in Credited' : x \in Credited \/ (x = v /\ x \notin decisions)
      BY <1>6 DEF Credited
    <3>2. v \in Credited' => v \in decisions' /\ v.status = "credited"
      BY DEF Credited
    <3> QED BY <1>8, <2>1, <3>1, <3>2 DEF CreditsAreVerified, ReconciliationEnabled
  <2>3. Creditable(c) /\ k # RawKey(d) /\ profile[d.owner] = "active"
    BY <1>6, <1>7, <2>2
  <2>4. NeedsLookup(call[c].registry, d)
    BY <2>2, <2>3 DEF Creditable, NeedsLookup
  <2>5. Confirmed(c) /\ store[d.txn] # "none"
    BY <1>8, <2>4 DEF IInv, CallFacts, VerifiedFacts
  <2>6. v.key = [scope |-> n, txn |-> d.txn] /\ v.claim = ClaimOf(d, k)
    BY <1>4, <1>6, <2>2, <2>3
  <2>7. v.claim.product = d.product /\ v.claim.owner = d.owner
    BY <2>6 DEF ClaimOf
  <2> DEFINE f == [txn |-> d.txn, app |-> d.app, application |-> n,
                   product |-> d.product, owner |-> d.owner]
  <2>8. f \in Facts
    BY <2>5 DEF Confirmed
  <2> QED BY <2>5, <2>6, <2>7, <2>8
<1>15. CallFacts'
  <2>1. KeyFacts(c)' /\ TransactionFacts(c)' /\ CreditFacts(c)' /\ VerifiedFacts(c)'
    BY <1>9, <1>10 DEF KeyFacts, TransactionFacts, CreditFacts, VerifiedFacts
  <2>2. ASSUME NEW o \in Calls \ {c}
        PROVE  KeyFacts(o)' /\ TransactionFacts(o)' /\ CreditFacts(o)' /\ VerifiedFacts(o)'
    <3>1. KeyFacts(o) /\ TransactionFacts(o) /\ CreditFacts(o) /\ VerifiedFacts(o)
      BY DEF IInv, CallFacts
    <3>2. call'[o] = call[o] /\ call[o].held \cap call[c].held = {}
      BY <1>9 DEF IInv, LocksDisjoint
    <3>3. KeyFacts(o)'
      BY <1>4, <1>5, <3>1, <3>2 DEF KeyFacts
    <3>4. TransactionFacts(o)'
      BY <1>6, <3>1, <3>2 DEF TransactionFacts
    <3>5. CreditFacts(o)'
      BY <1>8, <3>1, <3>2 DEF CreditFacts, Creditable
    <3>6. VerifiedFacts(o)'
      BY <1>8, <3>1, <3>2 DEF VerifiedFacts, NeedsLookup, Confirmed
    <3> QED BY <3>3, <3>4, <3>5, <3>6
  <2> QED BY <2>1, <2>2 DEF CallFacts
<1> QED BY <1>11, <1>12, <1>13, <1>14, <1>15 DEF IInv

\* An identity nobody has named yet is nobody's in flight.
LEMMA ObtainIdentityStep ==
  ASSUME IInv, NEW u \in Users, ObtainIdentity(u)
  PROVE  IInv'
<1>1. /\ identities' = identities \cup {u} /\ ~Named(u)
      /\ UNCHANGED <<profile, store, bindings, decisions, events, purchased, call>>
  BY DEF ObtainIdentity
<1>2. TypeOK' /\ LocksDisjoint'
  BY <1>1 DEF IInv, TypeOK, LocksDisjoint
<1>3. ASSUME NEW c \in Calls
      PROVE  KeyFacts(c)' /\ TransactionFacts(c)' /\ CreditFacts(c)' /\ VerifiedFacts(c)'
  <2>1. KeyFacts(c) /\ TransactionFacts(c) /\ CreditFacts(c) /\ VerifiedFacts(c)
    BY DEF IInv, CallFacts
  <2>2. call[c].stage # "idle" => call[c].delivery.owner # u
    BY <1>1, RunningCall DEF IInv, Named
  <2>3. KeyFacts(c)' /\ TransactionFacts(c)'
    BY <1>1, <2>1 DEF KeyFacts, TransactionFacts
  <2>4. CreditFacts(c)'
    BY <1>1, <2>1 DEF CreditFacts, Creditable
  <2>5. VerifiedFacts(c)'
    BY <1>1, <2>1, <2>2 DEF VerifiedFacts, NeedsLookup, Confirmed
  <2> QED BY <2>3, <2>4, <2>5
<1> QED BY <1>1, <1>2, <1>3, RecordsStay DEF IInv, CallFacts

LEMMA StoreStep ==
  ASSUME IInv, NEW t \in Transactions, Sell(t) \/ Refund(t)
  PROVE  IInv'
<1>1. PICK s \in {"owned", "refunded"} : store' = [store EXCEPT ![t] = s]
  BY DEF Sell, Refund
<1>2. UNCHANGED <<profile, identities, bindings, decisions, events, purchased, call>>
  BY DEF Sell, Refund, database
<1>3. TypeOK' /\ LocksDisjoint'
  BY <1>1, <1>2 DEF IInv, TypeOK, LocksDisjoint
<1>4. \A x \in Transactions : store[x] # "none" => store'[x] # "none"
  BY <1>1 DEF IInv, TypeOK
<1>5. ASSUME NEW c \in Calls
      PROVE  KeyFacts(c)' /\ TransactionFacts(c)' /\ CreditFacts(c)' /\ VerifiedFacts(c)'
  <2>1. KeyFacts(c) /\ TransactionFacts(c) /\ CreditFacts(c) /\ VerifiedFacts(c)
    BY DEF IInv, CallFacts
  <2>2. KeyFacts(c)' /\ TransactionFacts(c)' /\ CreditFacts(c)'
    BY <1>2, <2>1 DEF KeyFacts, TransactionFacts, CreditFacts, Creditable
  <2>3. call[c].stage # "idle" => call[c].delivery.txn \in Transactions
    BY RunningCall, RunningFields, DeliveryFields DEF IInv
  <2>4. VerifiedFacts(c)'
    BY <1>2, <1>4, <2>1, <2>3 DEF VerifiedFacts, NeedsLookup, Confirmed
  <2> QED BY <2>2, <2>4
<1>6. Records'
  BY <1>2 DEF IInv, Records, Credited
<1>7. \A f \in Facts : f.txn \in Transactions
  BY ProviderAssumption DEF Fact
<1>8. CreditsAreVerified'
  BY <1>2, <1>4, <1>7 DEF IInv, CreditsAreVerified, Credited, ReconciliationEnabled
<1> QED BY <1>3, <1>5, <1>6, <1>8 DEF IInv, CallFacts

\* The owner of a credit in flight is locked.
LEMMA DeleteAccountStep ==
  ASSUME IInv, NEW u \in Users, DeleteAccount(u)
  PROVE  IInv'
<1>1. /\ profile' = [profile EXCEPT ![u] = "deleted"] /\ Unheld(<<"profile", u>>)
      /\ UNCHANGED <<identities, store, bindings, decisions, events, purchased, call>>
  BY DEF DeleteAccount
<1>2. TypeOK' /\ LocksDisjoint'
  BY <1>1 DEF IInv, TypeOK, LocksDisjoint
<1>3. ASSUME NEW c \in Calls
      PROVE  KeyFacts(c)' /\ TransactionFacts(c)' /\ CreditFacts(c)' /\ VerifiedFacts(c)'
  <2>1. KeyFacts(c) /\ TransactionFacts(c) /\ CreditFacts(c) /\ VerifiedFacts(c)
    BY DEF IInv, CallFacts
  <2>2. <<"profile", call[c].delivery.owner>> \in call[c].held =>
          profile'[call[c].delivery.owner] = profile[call[c].delivery.owner]
    BY <1>1 DEF Unheld, IInv, TypeOK
  <2>3. call[c].stage # "idle" => call[c].delivery.owner \in Users
    BY RunningCall, RunningFields, DeliveryFields DEF IInv
  <2>4. \A w \in Users : profile'[w] = "active" => profile[w] = "active"
    BY <1>1 DEF IInv, TypeOK
  <2>5. KeyFacts(c)' /\ TransactionFacts(c)'
    BY <1>1, <2>1 DEF KeyFacts, TransactionFacts
  <2>6. CreditFacts(c)'
    BY <1>1, <2>1, <2>2 DEF CreditFacts, Creditable
  <2>7. VerifiedFacts(c)'
    BY <1>1, <2>1, <2>3, <2>4 DEF VerifiedFacts, NeedsLookup, Confirmed
  <2> QED BY <2>5, <2>6, <2>7
<1> QED BY <1>1, <1>2, <1>3, RecordsStay DEF IInv, CallFacts

\* Only a commit decides anything or adds coins.
LEMMA OnlyCommits ==
  ASSUME [Next]_vars, ~UNCHANGED <<decisions, purchased>>
  PROVE  \E c \in Calls : Commit(c)
<1>1. ASSUME NEW c \in Calls,
             \/ Receive(c) \/ SynchronizePurchase(c) \/ RecoverPurchase(c)
             \/ RecoverTransaction(c) \/ LookUp(c) \/ LookUpFails(c) \/ Crash(c)
      PROVE  FALSE
  BY <1>1 DEF database, Receive, SynchronizePurchase, RecoverPurchase, RecoverTransaction,
     LookUp, LookUpFails, Crash
<1>2. ASSUME NEW c \in Calls,
             \/ LockEvent(c) \/ LockApp(c) \/ LockApplication(c)
             \/ LockRaw(c) \/ LockTransaction(c) \/ LockOwner(c)
      PROVE  FALSE
  BY <1>2 DEF database, LockEvent, LockApp, LockApplication, LockRaw, LockTransaction, LockOwner
<1>3. ASSUME \/ \E u \in Users : ObtainIdentity(u) \/ DeleteAccount(u)
             \/ \E t \in Transactions : Sell(t) \/ Refund(t)
             \/ UNCHANGED vars
      PROVE  FALSE
  BY <1>3 DEF database, vars, ObtainIdentity, DeleteAccount, Sell, Refund
<1> QED BY <1>1, <1>2, <1>3 DEF Next, Advance

LEMMA StepInvariant == IInv /\ [Next]_vars => IInv'
<1> SUFFICES ASSUME IInv, [Next]_vars PROVE IInv'
  OBVIOUS
<1>1. ASSUME NEW c \in Calls, Receive(c) \/ SynchronizePurchase(c) \/ RecoverPurchase(c)
      PROVE  IInv'
  BY <1>1, StartSteps
<1>2. ASSUME NEW c \in Calls, Advance(c)
      PROVE  IInv'
  <2>1. CASE RecoverTransaction(c)
    BY <2>1, RecoverTransactionStep
  <2>2. CASE LookUp(c)
    BY <2>2, LookUpStep
  <2>3. CASE LookUpFails(c)
    BY <2>3, EndStep DEF LookUpFails
  <2>4. CASE LockEvent(c)
    BY <2>4, LockEventStep
  <2>5. CASE LockApp(c) \/ LockApplication(c)
    BY <2>5, LockAppStep, LockApplicationStep
  <2>6. CASE LockRaw(c) \/ LockTransaction(c)
    BY <2>6, LockRawStep, LockTransactionStep
  <2>7. CASE LockOwner(c)
    BY <2>7, LockOwnerStep
  <2>8. CASE Commit(c)
    BY <2>8, CommitStep
  <2> QED BY <1>2, <2>1, <2>2, <2>3, <2>4, <2>5, <2>6, <2>7, <2>8 DEF Advance
<1>3. ASSUME NEW c \in Calls, Crash(c)
      PROVE  IInv'
  BY <1>3, EndStep DEF Crash
<1>4. ASSUME NEW u \in Users, ObtainIdentity(u) \/ DeleteAccount(u)
      PROVE  IInv'
  BY <1>4, ObtainIdentityStep, DeleteAccountStep
<1>5. ASSUME NEW t \in Transactions, Sell(t) \/ Refund(t)
      PROVE  IInv'
  BY <1>5, StoreStep
<1>6. CASE UNCHANGED vars
  <2>1. call' = call /\ UNCHANGED <<database, store>>
    BY <1>6 DEF vars
  <2>2. TypeOK' /\ LocksDisjoint'
    BY <2>1 DEF IInv, TypeOK, LocksDisjoint, database
  <2>3. CallFacts'
    BY <2>1, FactsStay DEF IInv, CallFacts
  <2> QED BY <2>1, <2>2, <2>3, RecordsStay DEF IInv, database
<1> QED BY <1>1, <1>2, <1>3, <1>4, <1>5, <1>6 DEF Next

\* The strengthened invariant holds in every state.
THEOREM Invariant == Spec => []IInv
<1>1. Init => IInv
  BY InitInvariant
<1>2. IInv /\ [Next]_vars => IInv'
  BY StepInvariant
<1> QED BY <1>1, <1>2, PTL DEF Spec

\* Every row, lock and record of a call is of its kind in every state.
THEOREM TypeCorrect == Spec => []TypeOK
<1>1. IInv => TypeOK
  BY DEF IInv
<1> QED BY <1>1, Invariant, PTL

\* In sandbox mode coins come only from a purchase the provider confirmed, for the
\* wallet that made it (CreditsAreVerified).
THEOREM CreditsVerified == Spec => []CreditsAreVerified
<1>1. IInv => CreditsAreVerified
  BY DEF IInv
<1> QED BY <1>1, Invariant, PTL

-----------------------------------------------------------------------------
(* One credit. *)

LEMMA KeyByFields ==
  ASSUME NEW p \in Key, NEW q \in Key, p.scope = q.scope, p.txn = q.txn
  PROVE  p = q
BY DEF Key

\* What speaks for a transaction of an app has one of at most two names.
LEMMA AboutNames ==
  ASSUME IInv, NEW a \in Apps, NEW t \in Transactions, NEW y \in About(a, t)
  PROVE  /\ y \in decisions
         /\ y.key.txn = t
         /\ y.key.scope = a \/ [app |-> a, application |-> y.key.scope] \in bindings
<1>1. PICK e \in events : e.delivery.app = a /\ e.delivery.txn = t /\ e.decision = y.key
  BY DEF About
<1> QED BY <1>1 DEF IInv, Records, About

LEMMA AtMostOne ==
  ASSUME NEW S, \A x, y \in S : x = y
  PROVE  Cardinality(S) <= 1
<1>1. CASE S = {}
  <2>1. Cardinality({}) = 0
    BY FS_EmptySet
  <2> QED BY <1>1, <2>1
<1>2. CASE S # {}
  <2>1. PICK x \in S : S = {x}
    BY <1>2
  <2>2. Cardinality({x}) = 1
    BY FS_Singleton
  <2> QED BY <2>1, <2>2
<1> QED BY <1>1, <1>2

LEMMA CreditedAlone == IInv => CreditedOnce
<1> SUFFICES ASSUME IInv PROVE CreditedOnce
  OBVIOUS
<1>1. \A x, y \in Credited : x.key = y.key => x = y
  BY DEF IInv, Records, Credited
<1>2. ASSUME NEW a \in Apps, NEW t \in Transactions
      PROVE  Cardinality(About(a, t) \cap Credited) <= 1
  <2> DEFINE S == About(a, t) \cap Credited
  <2>1. ASSUME NEW x \in S
        PROVE  /\ x.key \in Key /\ x.key.txn = t
               /\ [app |-> a, application |-> x.key.scope] \in bindings
    <3>1. x.key.scope \in Applications /\ x.key.scope # a
      BY ProviderAssumption DEF IInv, Records
    <3>2. x.key \in Key
      BY DEF IInv, TypeOK, Credited
    <3> QED BY <3>1, <3>2, AboutNames
  <2>2. ASSUME NEW x \in S, NEW y \in S
        PROVE  x = y
    <3> DEFINE b(z) == [app |-> a, application |-> z.key.scope]
    <3>1. b(x) \in bindings /\ b(y) \in bindings /\ b(x).app = b(y).app
      BY <2>1
    <3>2. x.key.scope = y.key.scope
      BY <3>1 DEF IInv, Records
    <3>3. x.key = y.key
      BY <2>1, <3>2, KeyByFields
    <3> QED BY <1>1, <3>3
  <2> HIDE DEF S
  <2>3. Cardinality(S) <= 1
    BY <2>2, AtMostOne
  <2> QED BY <2>3 DEF S
<1> QED BY <1>1, <1>2 DEF CreditedOnce

\* A store transaction is credited at most once under the names by which a provider
\* app's webhooks, an application's synchronizations, and processes with different
\* registries know it (CreditedOnce).
THEOREM OneCredit == Spec => []CreditedOnce
BY CreditedAlone, Invariant, PTL

\* Whatever was recorded about a transaction keeps it from being credited later:
\* a credit is the first thing recorded under either name (BarrierKept).
THEOREM Barrier == Spec => BarrierKept
<1> DEFINE A == \A x \in Credited' \ Credited, e \in events' \ events :
                  e.decision = x.key => About(e.delivery.app, e.delivery.txn) = {}
<1>1. ASSUME IInv, [Next]_vars
      PROVE  A
  <2> SUFFICES ASSUME NEW x \in Credited' \ Credited, NEW e \in events' \ events,
                      NEW y \in About(e.delivery.app, e.delivery.txn)
               PROVE  FALSE
    OBVIOUS
  <2>1. decisions' # decisions
    BY DEF Credited
  <2>2. PICK c \in Calls : Commit(c)
    BY <1>1, <2>1, OnlyCommits
  <2> DEFINE d == call[c].delivery
             k == call[c].key
             n == TheApplication(call[c].registry, d)
             v == NewDecision(c)
  <2>3. e.delivery = d
    <3>1. PICK z \in decisions' :
            events' = events \cup
              {[delivery |-> d, decision |-> z.key,
                status |-> EventStatus(d, k, call[c].conflict, z)]}
      BY <1>1, <2>2, CommitWrites
    <3> QED BY <3>1
  <2>4. /\ v.status = "credited" => call[c].outcome = "credit"
        /\ decisions' = decisions \cup {v}
        /\ \A z \in decisions : z.key # RawKey(d) /\ z.key # k
    BY <1>1, <2>1, <2>2, CommitWrites
  <2>5. call[c].outcome = "credit"
    BY <2>4 DEF Credited
  <2>6. k # RawKey(d) /\ d \in Delivery
    BY <1>1, <2>2, <2>5, CommitWrites
  <2>7. k = [scope |-> n, txn |-> d.txn] /\ \A b \in bindings : b.app = d.app <=> b.application = n
    BY <1>1, <2>2, <2>6, CommitWrites
  <2>8. d.app \in Apps /\ d.txn \in Transactions
    BY <2>6, DeliveryFields
  <2>9. /\ y \in decisions /\ y.key.txn = d.txn
        /\ y.key.scope = d.app \/ [app |-> d.app, application |-> y.key.scope] \in bindings
    BY <1>1, <2>3, <2>8, AboutNames
  <2>10. y.key \in Key
    BY <1>1, <2>9 DEF IInv, TypeOK
  <2>11. CASE y.key.scope = d.app
    <3>1. y.key = RawKey(d)
      BY <2>9, <2>10, <2>11 DEF Key, RawKey
    <3> QED BY <2>4, <2>9, <3>1
  <2>12. CASE [app |-> d.app, application |-> y.key.scope] \in bindings
    <3>1. y.key.scope = n
      BY <2>7, <2>12
    <3>2. y.key = k
      BY <2>7, <2>9, <2>10, <3>1 DEF Key
    <3> QED BY <2>4, <2>9, <3>2
  <2> QED BY <2>9, <2>11, <2>12
<1>2. Spec => [][A]_vars
  BY <1>1, Invariant, PTL DEF Spec
<1> QED BY <1>2 DEF BarrierKept

\* No coins reach the wallet of a deleted account (FrozenAfterDeletion).
THEOREM Frozen == Spec => FrozenAfterDeletion
<1> DEFINE A == \A u \in Users : purchased'[u] # purchased[u] => profile'[u] = "active"
<1>1. ASSUME IInv, [Next]_vars
      PROVE  A
  <2> SUFFICES ASSUME NEW u \in Users, purchased'[u] # purchased[u]
               PROVE  profile'[u] = "active"
    OBVIOUS
  <2>1. PICK c \in Calls : Commit(c)
    BY <1>1, OnlyCommits
  <2> DEFINE d == call[c].delivery
  <2>2. call[c].outcome = "credit" /\ u = d.owner
    <3>1. PICK m : purchased' = IF call[c].outcome = "credit"
                                THEN [purchased EXCEPT ![d.owner] = m] ELSE purchased
      BY <1>1, <2>1, CommitWrites
    <3> QED BY <1>1, <3>1 DEF IInv, TypeOK
  <2>3. profile[d.owner] = "active"
    BY <1>1, <2>1, <2>2, CommitWrites
  <2> QED BY <2>1, <2>2, <2>3 DEF Commit
<1>2. Spec => [][A]_vars
  BY <1>1, Invariant, PTL DEF Spec
<1> QED BY <1>2 DEF FrozenAfterDeletion

-----------------------------------------------------------------------------
(* Refunds show as long as the processes list the same apps. *)

\* Registries may differ in products and prices, but an app that one of them lists is
\* listed by every other, with the same application.  The run of AppRemoved shows why
\* this is needed.
SameApps ==
  \A g, h \in Registries : \A p \in g : \E q \in h :
    q.app = p.app /\ q.application = p.application

\* A call that goes by the provider's name for a transaction cannot know its application.
Nameless(c) ==
  LET d == call[c].delivery
      g == call[c].registry IN
  call[c].stage \in {"raw", "transaction", "owner", "commit"} /\ call[c].key = RawKey(d) =>
    Listed(g, d.app) = {} \/ ~Resolves(g, d)

BindingsAreListed ==
  \A b \in bindings, g \in Registries : \E p \in g : p.app = b.app /\ p.application = b.application
CreditsAreBound == \A y \in Credited : \E b \in bindings : b.application = y.key.scope
EventsAreDecided ==
  \A e \in events : /\ \E x \in decisions : x.key = e.decision
                    /\ e.delivery.kind = "refund" => e.status = "quarantined"
\* A credited transaction has no second decision under the name its app gave it.
OneName ==
  \A b \in bindings, x \in decisions, y \in Credited :
    x.key.scope = b.app /\ y.key.scope = b.application => x.key.txn # y.key.txn

NamesInv ==
  /\ \A c \in Calls : Nameless(c)
  /\ BindingsAreListed /\ CreditsAreBound /\ EventsAreDecided /\ OneName

LEMMA NamesInit == Init => NamesInv
<1> SUFFICES ASSUME Init PROVE NamesInv
  OBVIOUS
<1>1. \A c \in Calls : Nameless(c)
  BY DEF Init, Idle, Nameless
<1>2. bindings = {} /\ decisions = {} /\ events = {} /\ Credited = {}
  BY DEF Init, Credited
<1> QED
  BY <1>1, <1>2 DEF NamesInv, BindingsAreListed, CreditsAreBound, EventsAreDecided, OneName

\* An app that is bound has no nameless calls.
LEMMA BoundHasName ==
  ASSUME IInv, NamesInv, NEW c \in Calls, NEW b \in bindings,
         call[c].stage \in {"raw", "transaction", "owner", "commit"},
         b.app = call[c].delivery.app
  PROVE  call[c].key # RawKey(call[c].delivery)
<1> DEFINE d == call[c].delivery
           g == call[c].registry
<1> SUFFICES ASSUME call[c].key = RawKey(d) PROVE FALSE
  OBVIOUS
<1>1. g \in Registries
  BY RunningCall, RunningFields DEF IInv
<1>2. PICK p \in g : p.app = b.app /\ p.application = b.application
  BY <1>1 DEF NamesInv, BindingsAreListed
<1>3. p \in Listed(g, d.app)
  BY <1>2 DEF Listed
<1>4. \A a \in bindings : a.app = d.app <=> a.application = p.application
  BY <1>2 DEF IInv, Records
<1> QED
  BY <1>3, <1>4 DEF NamesInv, Nameless, Resolves

\* Steps that write no record.
LEMMA NamesStay ==
  ASSUME NamesInv, UNCHANGED <<bindings, decisions, events>>, \A c \in Calls : Nameless(c)'
  PROVE  NamesInv'
BY DEF NamesInv, BindingsAreListed, CreditsAreBound, EventsAreDecided, OneName, Credited

LEMMA NamelessStays ==
  ASSUME NEW c \in Calls, Nameless(c), call'[c] = call[c], bindings \subseteq bindings'
  PROVE  Nameless(c)'
BY DEF Nameless, Resolves

LEMMA NamesCallStep ==
  ASSUME IInv, NamesInv, NEW c \in Calls, Nameless(c)',
         \A o \in Calls \ {c} : call'[o] = call[o], UNCHANGED <<bindings, decisions, events>>
  PROVE  NamesInv'
<1>1. \A o \in Calls : Nameless(o)'
  BY NamelessStays DEF NamesInv
<1> QED
  BY <1>1, NamesStay

\* A call that ends, starts or looks up has no name yet.
LEMMA EarlyStep ==
  ASSUME IInv, NamesInv, NEW c \in Calls,
         call'[c].stage \notin {"raw", "transaction", "owner", "commit"},
         \A o \in Calls \ {c} : call'[o] = call[o], UNCHANGED <<bindings, decisions, events>>
  PROVE  NamesInv'
BY NamesCallStep DEF Nameless

LEMMA EarlySteps ==
  ASSUME IInv, NamesInv, NEW c \in Calls,
         \/ Receive(c) \/ SynchronizePurchase(c) \/ RecoverPurchase(c)
         \/ RecoverTransaction(c) \/ LookUp(c) \/ LookUpFails(c) \/ Crash(c)
  PROVE  NamesInv'
<1>1. call \in [Calls -> Running \cup {Idle}]
  BY DEF IInv, TypeOK
<1>2. UNCHANGED <<bindings, decisions, events>>
  BY DEF database, Receive, SynchronizePurchase, RecoverPurchase, RecoverTransaction, LookUp,
     LookUpFails, Crash
<1>3. ASSUME NEW d, NEW g, NEW s \in {"page", "lookup", "event"}, Start(c, d, g, s)
      PROVE  NamesInv'
  <2>1. call'[c].stage = s /\ \A o \in Calls \ {c} : call'[o] = call[o]
    BY <1>1, <1>3 DEF Start
  <2> QED
    BY <1>2, <2>1, EarlyStep
<1>4. ASSUME Receive(c) \/ SynchronizePurchase(c) \/ RecoverPurchase(c)
      PROVE  NamesInv'
  BY <1>3, <1>4 DEF Receive, SynchronizePurchase, RecoverPurchase
<1>5. ASSUME LookUpFails(c) \/ Crash(c)
      PROVE  NamesInv'
  <2>1. call'[c].stage = "idle" /\ \A o \in Calls \ {c} : call'[o] = call[o]
    BY <1>1, <1>5 DEF LookUpFails, Crash, End, Idle
  <2> QED
    BY <1>2, <2>1, EarlyStep
<1>6. ASSUME RecoverTransaction(c) \/ LookUp(c)
      PROVE  NamesInv'
  <2>1. call[c] \in Running
    BY <1>6, RunningCall DEF IInv, RecoverTransaction, LookUp
  <2>2. call'[c].stage \in {"lookup", "event"} /\ \A o \in Calls \ {c} : call'[o] = call[o]
    <3>1. CASE RecoverTransaction(c)
      <4>1. call' = [call EXCEPT ![c] = [call[c] EXCEPT !.stage = "lookup"]]
        BY <3>1 DEF RecoverTransaction
      <4> QED
        BY <1>1, <2>1, <4>1 DEF Running
    <3>2. CASE LookUp(c)
      <4>1. \A d : [call[c] EXCEPT !.stage = "event", !.delivery = d].stage = "event"
        BY <2>1 DEF Running
      <4>2. \E x : call' = [call EXCEPT ![c] = x] /\ x.stage = "event"
        BY <3>2, <4>1 DEF LookUp
      <4> QED
        BY <1>1, <4>2
    <3> QED
      BY <1>6, <3>1, <3>2
  <2> QED
    BY <1>2, <2>2, EarlyStep
<1> QED
  BY <1>4, <1>5, <1>6

\* An app that the registry lists is asked for its application; if the bindings
\* disagree they do for ever.
LEMMA LockEventNames ==
  ASSUME IInv, NamesInv, NEW c \in Calls, LockEvent(c)
  PROVE  NamesInv'
<1>1. call \in [Calls -> Running \cup {Idle}] /\ call[c] \in Running
  BY RunningCall DEF IInv, TypeOK, LockEvent
<1>2. UNCHANGED <<bindings, decisions, events>>
  BY DEF LockEvent, database
<1>3. CASE End(c)
  <2>1. call'[c].stage = "idle" /\ \A o \in Calls \ {c} : call'[o] = call[o]
    BY <1>1, <1>3 DEF End, Idle
  <2> QED
    BY <1>2, <2>1, EarlyStep
<1>4. CASE ~End(c)
  <2>1. /\ call'[c].registry = call[c].registry /\ call'[c].delivery = call[c].delivery
        /\ call'[c].stage = IF Listed(call[c].registry, call[c].delivery.app) = {}
                            THEN "raw" ELSE "app"
        /\ \A o \in Calls \ {c} : call'[o] = call[o]
    <3> DEFINE x(h, b) == [call[c] EXCEPT
                  !.stage = IF Listed(call[c].registry, call[c].delivery.app) = {}
                            THEN "raw" ELSE "app", !.held = h, !.conflict = b]
    <3>1. PICK h, b : call' = [call EXCEPT ![c] = x(h, b)]
      <4>1. call' = [call EXCEPT ![c] = x(
              call[c].held \cup {<<"event", call[c].delivery.app, call[c].delivery.id>>},
              \E e \in events : SameEvent(e.delivery, call[c].delivery))]
        BY <1>4 DEF LockEvent
      <4> HIDE DEF x
      <4> QED
        BY <4>1
    <3>2. /\ x(h, b).registry = call[c].registry /\ x(h, b).delivery = call[c].delivery
          /\ x(h, b).stage = IF Listed(call[c].registry, call[c].delivery.app) = {}
                             THEN "raw" ELSE "app"
      BY <1>1 DEF Running
    <3> HIDE DEF x
    <3> QED
      BY <1>1, <3>1, <3>2
  <2>2. Nameless(c)'
    BY <2>1 DEF Nameless, Listed
  <2> QED
    BY <1>2, <2>1, <2>2, NamesCallStep
<1> QED
  BY <1>3, <1>4

LEMMA LockAppNames ==
  ASSUME IInv, NamesInv, NEW c \in Calls, LockApp(c)
  PROVE  NamesInv'
<1>1. call \in [Calls -> Running \cup {Idle}] /\ call[c] \in Running
  BY RunningCall DEF IInv, TypeOK, LockApp
<1>2. call'[c].stage = "application" /\ \A o \in Calls \ {c} : call'[o] = call[o]
  BY <1>1 DEF LockApp, Running
<1>3. UNCHANGED <<bindings, decisions, events>>
  BY DEF LockApp, database
<1> QED
  BY <1>2, <1>3, EarlyStep

LEMMA LockApplicationNames ==
  ASSUME IInv, NamesInv, NEW c \in Calls, LockApplication(c)
  PROVE  NamesInv'
<1> DEFINE d == call[c].delivery
           g == call[c].registry
<1>1. call \in [Calls -> Running \cup {Idle}] /\ call[c] \in Running
  BY RunningCall DEF IInv, TypeOK, LockApplication
<1>2. UNCHANGED <<bindings, decisions, events>>
  BY DEF LockApplication, database
<1>3. /\ call'[c].registry = g /\ call'[c].delivery = d /\ call'[c].key = ResolvedKey(g, d)
      /\ \A o \in Calls \ {c} : call'[o] = call[o]
  BY <1>1 DEF LockApplication, Running
<1>4. d \in Delivery /\ g \in Registries /\ Listed(g, d.app) # {}
  BY <1>1, RunningFields DEF IInv, CallFacts, KeyFacts, LockApplication
<1>5. TheApplication(g, d) # d.app
  BY <1>4, ListedApplication, DeliveryFields, ProviderAssumption
<1>6. ResolvedKey(g, d) = RawKey(d) => ~Resolves(g, d)
  BY <1>5 DEF ResolvedKey, RawKey
<1>7. Nameless(c)'
  BY <1>2, <1>3, <1>6 DEF Nameless, Resolves, Listed
<1> QED
  BY <1>2, <1>3, <1>7, NamesCallStep

LEMMA LockNames ==
  ASSUME IInv, NamesInv, NEW c \in Calls, LockRaw(c) \/ LockTransaction(c) \/ LockOwner(c)
  PROVE  NamesInv'
<1> DEFINE x(t, h, k, r) == [call[c] EXCEPT !.stage = t, !.held = h, !.decision = k, !.outcome = r]
<1>1. call \in [Calls -> Running \cup {Idle}] /\ call[c] \in Running
  BY RunningCall DEF IInv, TypeOK, LockRaw, LockTransaction, LockOwner
<1>2. UNCHANGED <<bindings, decisions, events>>
  BY DEF LockRaw, LockTransaction, LockOwner, database
<1>3. \A t, h, k, r : /\ x(t, h, k, r).registry = call[c].registry
                      /\ x(t, h, k, r).delivery = call[c].delivery
                      /\ x(t, h, k, r).key = call[c].key
  BY <1>1 DEF Running
<1>4. PICK t, h, k, r : call' = [call EXCEPT ![c] = x(t, h, k, r)]
  <2>1. CASE LockRaw(c)
    <3>1. call' = [call EXCEPT ![c] =
            x("transaction", call[c].held \cup {<<"transaction", RawKey(call[c].delivery)>>},
              RawKey(call[c].delivery),
              IF Barred(call[c].delivery) THEN "attach" ELSE "quarantine")]
      BY <2>1 DEF LockRaw
    <3> HIDE DEF x
    <3> QED
      BY <3>1
  <2>2. CASE LockTransaction(c)
    <3> DEFINE found == call[c].outcome = "attach"
               decided == \E y \in decisions : y.key = call[c].key
    <3>1. call' = [call EXCEPT ![c] =
            x(IF ~found /\ ~decided /\ call[c].key # RawKey(call[c].delivery) /\ Creditable(c)
              THEN "owner" ELSE "commit",
              call[c].held \cup {<<"transaction", call[c].key>>},
              IF found THEN call[c].decision ELSE call[c].key,
              IF found \/ decided THEN "attach" ELSE "quarantine")]
      BY <2>2 DEF LockTransaction
    <3> HIDE DEF x, found, decided
    <3> QED
      BY <3>1
  <2>3. CASE LockOwner(c)
    <3> DEFINE u == call[c].delivery.owner
               answer == IF profile[u] = "active" THEN "credit" ELSE "quarantine"
               held == call[c].held \cup {<<"profile", u>>}
    <3>1. call' = [call EXCEPT ![c] = [call[c] EXCEPT
                     !.stage = "commit", !.held = held, !.outcome = answer]]
      BY <2>3 DEF LockOwner
    <3> HIDE DEF held, answer
    <3>2. [call[c] EXCEPT !.stage = "commit", !.held = held, !.outcome = answer]
            = x("commit", held, call[c].decision, answer)
      BY <1>1 DEF Running
    <3>3. call' = [call EXCEPT ![c] = x("commit", held, call[c].decision, answer)]
      BY <3>1, <3>2
    <3> HIDE DEF x
    <3> QED
      BY <3>3
  <2> QED
    BY <2>1, <2>2, <2>3
<1> HIDE DEF x
<1>5. /\ call'[c].registry = call[c].registry /\ call'[c].delivery = call[c].delivery
      /\ call'[c].key = call[c].key
      /\ \A o \in Calls \ {c} : call'[o] = call[o]
  BY <1>1, <1>3, <1>4
<1>6. call[c].stage \in {"raw", "transaction", "owner"} /\ Nameless(c)
  BY DEF LockRaw, LockTransaction, LockOwner, NamesInv
<1>7. Nameless(c)'
  BY <1>2, <1>5, <1>6 DEF Nameless, Resolves, Listed
<1> QED
  BY <1>2, <1>5, <1>7, NamesCallStep

\* The commit that binds an app is the first to name its transactions by the application;
\* one that cannot name them finds its app unbound.
LEMMA CommitNames ==
  ASSUME SameApps, IInv, NamesInv, NEW c \in Calls, Commit(c)
  PROVE  NamesInv'
<1> DEFINE d == call[c].delivery
           k == call[c].key
           g == call[c].registry
           n == TheApplication(g, d)
           v == NewDecision(c)
<1>1. /\ call[c] \in Running /\ d \in Delivery /\ k \in Key
      /\ bindings' = IF k = RawKey(d) THEN bindings
                     ELSE bindings \cup {[app |-> d.app, application |-> k.scope]}
      /\ k # RawKey(d) => /\ k = [scope |-> n, txn |-> d.txn] /\ n \in Applications
                          /\ \A b \in bindings : b.app = d.app <=> b.application = n
      /\ \/ decisions' = decisions
         \/ /\ decisions' = decisions \cup {v}
            /\ v.key = k
            /\ v.status = "credited" => call[c].outcome = "credit"
            /\ \A x \in decisions : x.key # RawKey(d) /\ x.key # k
      /\ call[c].outcome = "credit" => k # RawKey(d)
  BY CommitWrites
<1>2. PICK z \in decisions' :
        events' = events \cup {[delivery |-> d, decision |-> z.key,
                                status |-> EventStatus(d, k, call[c].conflict, z)]}
  BY CommitWrites
<1>3. /\ call[c].stage = "commit" /\ call' = [call EXCEPT ![c] = Idle]
      /\ call \in [Calls -> Running \cup {Idle}]
  BY DEF Commit, End, IInv, TypeOK
<1>4. TypeOK' /\ Records'
  BY CommitStep DEF IInv
<1>5. g \in Registries /\ RawKey(d) = [scope |-> d.app, txn |-> d.txn] /\ d.app \in Apps
  BY <1>1, RunningFields, DeliveryFields DEF RawKey
<1> HIDE DEF v
<1>6. \A b \in bindings' : b \notin bindings =>
        k # RawKey(d) /\ b = [app |-> d.app, application |-> n]
  <2> HIDE DEF d, k, n
  <2>1. k # RawKey(d) => k.scope = n
    BY <1>1
  <2> QED
    BY <1>1, <2>1
<1>7. \A y \in Credited' : y \notin Credited =>
        y = v /\ y.key = k /\ k # RawKey(d) /\ \A x \in decisions : x.key # RawKey(d) /\ x.key # k
  <2> HIDE DEF d, k
  <2>1. CASE decisions' = decisions
    BY <2>1 DEF Credited
  <2>2. CASE decisions' # decisions
    BY <1>1, <2>2 DEF Credited
  <2> QED
    BY <2>1, <2>2
<1>8. ASSUME NEW o \in Calls
      PROVE  Nameless(o)'
  <2>1. CASE o = c
    BY <1>3, <2>1 DEF Nameless, Idle
  <2>2. CASE o # c
    <3>1. call'[o] = call[o] /\ Nameless(o) /\ bindings \subseteq bindings'
      BY <1>1, <1>3, <2>2 DEF NamesInv
    <3> QED
      BY <3>1, NamelessStays
  <2> QED
    BY <2>1, <2>2
<1>9. BindingsAreListed'
  <2>1. ASSUME NEW h \in Registries, k # RawKey(d)
        PROVE  \E p \in h : p.app = d.app /\ p.application = n
    <3>1. Listed(g, d.app) # {}
      BY <1>3, <2>1 DEF IInv, CallFacts, KeyFacts
    <3>2. PICK q \in g : q.app = d.app /\ q.application = n
      BY <1>5, <3>1, ListedApplication DEF Listed
    <3> QED
      BY <1>5, <3>2 DEF SameApps
  <2> QED
    BY <1>6, <2>1 DEF NamesInv, BindingsAreListed
<1>10. CreditsAreBound'
  <2> SUFFICES ASSUME NEW y \in Credited'
               PROVE  \E b \in bindings' : b.application = y.key.scope
    BY DEF CreditsAreBound
  <2> HIDE DEF d, k
  <2>1. CASE y \in Credited
    BY <1>1, <2>1 DEF NamesInv, CreditsAreBound
  <2>2. CASE y \notin Credited
    <3>1. y.key = k /\ [app |-> d.app, application |-> k.scope] \in bindings'
      BY <1>1, <1>7, <2>2
    <3> QED
      BY <3>1
  <2> QED
    BY <2>1, <2>2
<1>11. EventsAreDecided'
  <2>1. d.kind = "refund" => EventStatus(d, k, call[c].conflict, z) = "quarantined"
    BY DEF EventStatus
  <2> QED
    BY <1>1, <1>2, <2>1 DEF NamesInv, EventsAreDecided
<1>12. OneName'
  <2> SUFFICES ASSUME NEW b \in bindings', NEW x \in decisions', NEW y \in Credited',
                      x.key.scope = b.app, y.key.scope = b.application, x.key.txn = y.key.txn
               PROVE  FALSE
    BY DEF OneName
  <2>1. /\ b \in [app: Apps, application: Applications] /\ x.key \in Key /\ y.key \in Key
        /\ x \notin decisions => x = v /\ v.key = k
    <3>1. x \notin decisions => x = v /\ v.key = k
      <4> HIDE DEF k
      <4> QED
        BY <1>1
    <3>2. y \in decisions'
      BY DEF Credited
    <3> QED
      BY <1>4, <3>1, <3>2 DEF TypeOK
  \* A new credit finds no decision under the name its app gave it.
  <2>2. CASE y \notin Credited
    <3>1. y.key = [scope |-> n, txn |-> d.txn] /\ n \in Applications /\ b.app = d.app
      BY <1>1, <1>6, <1>7, <2>2
    <3>2. x.key = RawKey(d)
      BY <1>5, <2>1, <3>1 DEF Key
    <3>3. x \in decisions
      BY <1>1, <1>7, <2>1, <2>2, <3>2
    <3> QED
      BY <1>7, <2>2, <3>2, <3>3
  <2>3. CASE y \in Credited /\ b \in bindings
    <3>1. x \notin decisions
      BY <2>3 DEF NamesInv, OneName
    <3>2. k.scope = d.app /\ b.app = d.app
      BY <1>1, <1>5, <2>1, <3>1, ProviderAssumption
    <3>3. k = RawKey(d)
      BY <1>1, <1>5, <3>2, ProviderAssumption
    <3> QED
      BY <1>3, <2>3, <3>2, <3>3, BoundHasName
  \* A new binding is of an application that nothing was credited under.
  <2>4. CASE y \in Credited /\ b \notin bindings
    <3>1. k # RawKey(d) /\ b = [app |-> d.app, application |-> n]
      BY <1>6, <2>4
    <3>2. PICK a \in bindings : a.application = n
      BY <2>4, <3>1 DEF NamesInv, CreditsAreBound
    <3>3. a.app = d.app /\ a \in [app: Apps, application: Applications]
      BY <1>1, <3>1, <3>2 DEF IInv, TypeOK
    <3>4. a = b
      BY <3>1, <3>2, <3>3
    <3> QED
      BY <2>4, <3>4
  <2> QED
    BY <2>2, <2>3, <2>4
<1> QED
  BY <1>8, <1>9, <1>10, <1>11, <1>12 DEF NamesInv

LEMMA NamesStep ==
  ASSUME SameApps, IInv, NamesInv, [Next]_vars
  PROVE  NamesInv'
<1>1. ASSUME NEW c \in Calls, Advance(c)
      PROVE  NamesInv'
  BY <1>1, EarlySteps, LockEventNames, LockAppNames, LockApplicationNames, LockNames, CommitNames
     DEF Advance
<1>2. CASE UNCHANGED <<bindings, decisions, events, call>>
  BY <1>2, NamelessStays, NamesStay DEF NamesInv
<1>3. ASSUME \/ \E u \in Users : ObtainIdentity(u) \/ DeleteAccount(u)
             \/ \E t \in Transactions : Sell(t) \/ Refund(t)
             \/ UNCHANGED vars
      PROVE  UNCHANGED <<bindings, decisions, events, call>>
  BY <1>3 DEF ObtainIdentity, DeleteAccount, Sell, Refund, vars, database
<1> QED
  BY <1>1, <1>2, <1>3, EarlySteps DEF Next

\* While all processes list the same apps, a refund that has been recorded shows: what
\* its transaction was credited for is not reported as settled (RefundsFlagged,
\* commerce/services.py:176).
THEOREM RefundsShow ==
  ASSUME SameApps
  PROVE  Spec => []RefundsFlagged
<1>1. Init => NamesInv
  BY NamesInit
<1>2. IInv /\ NamesInv /\ [Next]_vars => NamesInv'
  BY NamesStep
<1>3. IInv /\ NamesInv => RefundsFlagged
  <2> SUFFICES ASSUME IInv, NamesInv, NEW e \in events, e.delivery.kind = "refund",
                      NEW b \in bindings, b.app = e.delivery.app,
                      NEW y \in Credited, y.key = [scope |-> b.application, txn |-> e.delivery.txn]
               PROVE  Shown(y) # "credited"
    BY DEF RefundsFlagged, PurchaseStatus
  <2>1. PICK x \in decisions : x.key = e.decision
    BY DEF NamesInv, EventsAreDecided
  <2>2. /\ e.status = "quarantined" /\ e.decision.txn = e.delivery.txn
        /\ \/ e.decision.scope = e.delivery.app
           \/ [app |-> e.delivery.app, application |-> e.decision.scope] \in bindings
    BY DEF IInv, Records, NamesInv, EventsAreDecided
  <2>3. e.decision.scope # b.app
    BY <2>1, <2>2 DEF NamesInv, OneName
  <2>4. e.decision.scope = b.application
    BY <2>2, <2>3 DEF IInv, Records
  <2>5. e.decision \in Key /\ y.key \in Key
    BY DEF IInv, TypeOK, Credited
  <2>6. e.decision = y.key
    BY <2>2, <2>4, <2>5, KeyByFields
  <2> QED
    BY <2>2, <2>6 DEF Shown
<1> QED
  BY <1>1, <1>2, <1>3, Invariant, PTL DEF Spec

-----------------------------------------------------------------------------
(* Sums of coins.  Induction over a finite set is an argument about the smallest of *)
(* its subsets that would be wrong.                                                 *)

\* A set of subsets of a finite set has a smallest member.
LEMMA SmallestSubset ==
  ASSUME NEW S, IsFiniteSet(S), NEW C \in SUBSET (SUBSET S), C # {}
  PROVE  \E T \in C : \A U \in C : U \subseteq T => U = T
<1>1. IsWellFoundedOn(StrictSubsetOrdering(S), SUBSET S)
  BY FS_StrictSubsetOrderingWellFounded, FS_FiniteSubsetsOfFinite
<1>2. PICK T \in C : \A U \in C : <<U, T>> \notin StrictSubsetOrdering(S)
  BY <1>1, WFMin
<1>3. ASSUME NEW U \in C, U \subseteq T, U # T
      PROVE  FALSE
  <2>1. <<U, T>> \in StrictSubsetOrdering(S)
    BY <1>3 DEF StrictSubsetOrdering
  <2> QED
    BY <1>2, <2>1
<1> QED
  BY <1>3

\* The function that the fold adds coins up with.
First(s) == CHOOSE x \in s : TRUE
Rest(s) == s \ {First(s)}
Sums(f, S) == f = [s \in SUBSET S |-> IF s = {} THEN 0 ELSE First(s).coins + f[Rest(s)]]
SumsOf(S) == CHOOSE f : Sums(f, S)

LEMMA CoinsBySums == \A S : CoinsOf(S) = SumsOf(S)[S]
BY DEF CoinsOf, MapThenSumSet, MapThenFoldSet, Sums, SumsOf, First, Rest

LEMMA RestIsSmaller == \A s : s # {} => First(s) \in s /\ Rest(s) \subseteq s /\ Rest(s) # s
BY DEF First, Rest

LEMMA SumsAt ==
  ASSUME NEW S, NEW f, Sums(f, S), NEW s \in SUBSET S
  PROVE  f[s] = IF s = {} THEN 0 ELSE First(s).coins + f[Rest(s)]
BY DEF Sums

LEMMA SumsAgree ==
  ASSUME NEW S, NEW f, Sums(f, S), NEW T, NEW g, Sums(g, T),
         NEW s \in SUBSET S, s \in SUBSET T, IsFiniteSet(s)
  PROVE  f[s] = g[s]
<1> DEFINE C == {t \in SUBSET s : f[t] # g[t]}
<1> SUFFICES ASSUME C # {} PROVE FALSE
  OBVIOUS
<1>1. PICK t \in C : \A u \in C : u \subseteq t => u = t
  <2>1. C \in SUBSET (SUBSET s)
    OBVIOUS
  <2> HIDE DEF C
  <2> QED
    BY <2>1, SmallestSubset
<1>2. f[t] # g[t] /\ t \in SUBSET S /\ t \in SUBSET T
  BY <1>1
<1>3. t # {}
  BY <1>2, SumsAt
<1>4. Rest(t) \notin C /\ Rest(t) \subseteq s
  BY <1>1, <1>3, RestIsSmaller
<1>5. f[Rest(t)] = g[Rest(t)]
  BY <1>4
<1> HIDE DEF C
<1> QED
  BY <1>2, <1>3, <1>5, SumsAt

LEMMA SumsExist ==
  ASSUME NEW S, IsFiniteSet(S)
  PROVE  Sums(SumsOf(S), S)
<1> DEFINE C == {t \in SUBSET S : ~Sums(SumsOf(t), t)}
<1> SUFFICES ASSUME C # {} PROVE FALSE
  BY S \in SUBSET S
<1>1. PICK t \in C : \A u \in C : u \subseteq t => u = t
  <2>1. C \in SUBSET (SUBSET S)
    OBVIOUS
  <2> HIDE DEF C
  <2> QED
    BY <2>1, SmallestSubset
<1>2. t \subseteq S /\ ~Sums(SumsOf(t), t)
  BY <1>1
<1>3. \A u \in SUBSET t : u # t => Sums(SumsOf(u), u) /\ IsFiniteSet(u)
  <2>1. \A u \in SUBSET t : u # t => Sums(SumsOf(u), u)
    BY <1>1
  <2> QED
    BY <1>2, <2>1, FS_Subset
<1> HIDE DEF C
<1> DEFINE below(s) == IF s = {} THEN 0 ELSE First(s).coins + SumsOf(Rest(s))[Rest(s)]
           f == [s \in SUBSET t |-> below(s)]
<1>4. ASSUME NEW s \in SUBSET t, s # {}
      PROVE  f[Rest(s)] = SumsOf(Rest(s))[Rest(s)]
  <2>1. Rest(s) \in SUBSET t /\ Rest(s) # t
    BY <1>4, RestIsSmaller
  <2> DEFINE r == Rest(s)
  <2>2. Sums(SumsOf(r), r) /\ f[r] = below(r)
    BY <1>3, <2>1
  <2>3. CASE r = {}
    BY <2>2, <2>3, SumsAt, r \in SUBSET r
  <2>4. CASE r # {}
    <3> DEFINE q == Rest(r)
    <3> HIDE DEF r
    <3>1. q \in SUBSET r /\ q # r
      BY <2>4, RestIsSmaller
    <3>2. q \in SUBSET t /\ q # t
      BY <2>1, <3>1 DEF r
    <3>3. Sums(SumsOf(q), q) /\ IsFiniteSet(q)
      BY <1>3, <3>2
    <3>4. SumsOf(r)[q] = SumsOf(q)[q]
      BY <2>2, <3>1, <3>3, SumsAgree, q \in SUBSET q
    <3>5. SumsOf(r)[r] = First(r).coins + SumsOf(r)[q]
      BY <2>2, <2>4, SumsAt, r \in SUBSET r
    <3>6. SumsOf(r)[r] = f[r]
      BY <2>2, <2>4, <3>4, <3>5
    <3> QED
      BY <3>6 DEF r
  <2> QED
    BY <2>3, <2>4
<1>5. f = [s \in SUBSET t |-> IF s = {} THEN 0 ELSE First(s).coins + f[Rest(s)]]
  BY <1>4
<1>6. \E h : Sums(h, t)
  <2> HIDE DEF f
  <2> QED
    BY <1>5 DEF Sums
<1> QED
  BY <1>2, <1>6 DEF SumsOf

LEMMA CoinsOfNone == CoinsOf({}) = 0
BY CoinsBySums, SumsExist, SumsAt, FS_EmptySet

LEMMA CoinsOfFirst ==
  ASSUME NEW S, IsFiniteSet(S), S # {}
  PROVE  CoinsOf(S) = First(S).coins + CoinsOf(Rest(S))
<1>1. Rest(S) \in SUBSET S /\ IsFiniteSet(Rest(S))
  BY RestIsSmaller, FS_Subset
<1>2. Sums(SumsOf(S), S) /\ Sums(SumsOf(Rest(S)), Rest(S))
  BY <1>1, SumsExist
<1>3. SumsOf(S)[Rest(S)] = SumsOf(Rest(S))[Rest(S)]
  BY <1>1, <1>2, SumsAgree, Rest(S) \in SUBSET Rest(S)
<1>4. SumsOf(S)[S] = First(S).coins + SumsOf(S)[Rest(S)]
  BY <1>2, SumsAt, S \in SUBSET S
<1> QED
  BY <1>3, <1>4, CoinsBySums

LEMMA CoinsType ==
  ASSUME NEW S, IsFiniteSet(S), \A x \in S : x.coins \in Nat
  PROVE  CoinsOf(S) \in Nat
<1> DEFINE C == {t \in SUBSET S : CoinsOf(t) \notin Nat}
<1> SUFFICES ASSUME C # {} PROVE FALSE
  BY S \in SUBSET S
<1>1. PICK t \in C : \A u \in C : u \subseteq t => u = t
  <2>1. C \in SUBSET (SUBSET S)
    OBVIOUS
  <2> HIDE DEF C
  <2> QED
    BY <2>1, SmallestSubset
<1>2. t \subseteq S /\ CoinsOf(t) \notin Nat
  BY <1>1
<1>3. t # {} /\ IsFiniteSet(t)
  <2>1. CoinsOf({}) \in Nat
    BY CoinsOfNone
  <2> QED
    BY <1>2, <2>1, FS_Subset
<1>4. First(t) \in t /\ Rest(t) \in SUBSET S /\ Rest(t) \notin C
  BY <1>1, <1>2, <1>3, RestIsSmaller
<1>5. CoinsOf(Rest(t)) \in Nat /\ First(t).coins \in Nat
  BY <1>2, <1>4
<1> QED
  BY <1>2, <1>3, <1>5, CoinsOfFirst

\* Coins may be added up in any order.
LEMMA CoinsOfAny ==
  ASSUME NEW S, IsFiniteSet(S), \A x \in S : x.coins \in Nat, NEW y \in S
  PROVE  CoinsOf(S) = y.coins + CoinsOf(S \ {y})
<1> DEFINE Fails(t) == \E x \in t : CoinsOf(t) # x.coins + CoinsOf(t \ {x})
           C == {t \in SUBSET S : Fails(t)}
<1> SUFFICES ASSUME C # {} PROVE FALSE
  BY S \in SUBSET S
<1>1. PICK t \in C : \A u \in C : u \subseteq t => u = t
  <2>1. C \in SUBSET (SUBSET S)
    OBVIOUS
  <2> HIDE DEF C
  <2> QED
    BY <2>1, SmallestSubset
<1>2. PICK x \in t : CoinsOf(t) # x.coins + CoinsOf(t \ {x})
  BY <1>1
<1>3. t \subseteq S /\ IsFiniteSet(t)
  BY <1>1, FS_Subset
<1>4. \A u \in SUBSET t : u # t => ~Fails(u)
  BY <1>1, <1>3
<1> HIDE DEF C
<1> DEFINE f == First(t)
           r == Rest(t)
<1>5. f \in t /\ r = t \ {f} /\ CoinsOf(t) = f.coins + CoinsOf(r)
  BY <1>3, CoinsOfFirst, RestIsSmaller DEF Rest
<1> HIDE DEF f, r
<1>6. f # x
  BY <1>2, <1>5
<1>7. x \in r /\ f \in t \ {x}
  BY <1>5, <1>6
<1>8. CoinsOf(r) = x.coins + CoinsOf(r \ {x})
  BY <1>4, <1>5, <1>7
<1>9. CoinsOf(t \ {x}) = f.coins + CoinsOf((t \ {x}) \ {f})
  BY <1>2, <1>4, <1>7
<1>10. r \ {x} = (t \ {x}) \ {f}
  BY <1>5
<1>11. CoinsOf(r \ {x}) \in Nat
  BY <1>3, <1>5, CoinsType, FS_Subset
<1>12. x.coins \in Nat /\ f.coins \in Nat
  BY <1>2, <1>3, <1>5
<1>13. CoinsOf(t) = f.coins + (x.coins + CoinsOf(r \ {x}))
  BY <1>5, <1>8
<1>14. x.coins + CoinsOf(t \ {x}) = x.coins + (f.coins + CoinsOf(r \ {x}))
  BY <1>9, <1>10
<1>15. \A i, j, k \in Nat : i + (j + k) = j + (i + k)
  OBVIOUS
<1> QED
  BY <1>2, <1>11, <1>12, <1>13, <1>14, <1>15

\* ... and under other names.
LEMMA CoinsRenamed ==
  ASSUME NEW S, IsFiniteSet(S), NEW h, \A x \in S : h[x].coins = x.coins /\ x.coins \in Nat,
         \A x, y \in S : h[x] = h[y] => x = y
  PROVE  CoinsOf({h[x] : x \in S}) = CoinsOf(S)
<1> DEFINE I(t) == {h[x] : x \in t}
           C == {t \in SUBSET S : CoinsOf(I(t)) # CoinsOf(t)}
<1> SUFFICES ASSUME C # {} PROVE FALSE
  BY S \in SUBSET S
<1>1. PICK t \in C : \A u \in C : u \subseteq t => u = t
  <2>1. C \in SUBSET (SUBSET S)
    OBVIOUS
  <2> HIDE DEF C
  <2> QED
    BY <2>1, SmallestSubset
<1>2. t \subseteq S /\ IsFiniteSet(t) /\ CoinsOf(I(t)) # CoinsOf(t)
  BY <1>1, FS_Subset
<1>3. I(t) # {} /\ t # {}
  <2>1. t = {} => I(t) = {}
    OBVIOUS
  <2> QED
    BY <1>2, <2>1
<1>4. PICK x \in t : TRUE
  BY <1>3
<1>5. CoinsOf(I(t \ {x})) = CoinsOf(t \ {x})
  BY <1>1, <1>2, <1>4
<1>6. I(t \ {x}) = I(t) \ {h[x]} /\ h[x] \in I(t)
  BY <1>2, <1>4
<1>7. IsFiniteSet(I(t))
  <2> DEFINE g == [y \in t |-> h[y]]
  <2>1. g \in Surjection(t, I(t))
    BY DEF Surjection
  <2> QED
    BY <1>2, <2>1, FS_Surjection
<1>8. \A y \in I(t) : y.coins \in Nat
  BY <1>2
<1>9. CoinsOf(I(t)) = h[x].coins + CoinsOf(I(t) \ {h[x]})
  <2> HIDE DEF I
  <2> QED
    BY <1>6, <1>7, <1>8, CoinsOfAny
<1>10. CoinsOf(t) = x.coins + CoinsOf(t \ {x})
  BY <1>2, <1>4, CoinsOfAny
<1> QED
  BY <1>2, <1>4, <1>5, <1>6, <1>9, <1>10

-----------------------------------------------------------------------------
(* Every coin has its line. *)

CreditsOf(u) == {y \in Credited : y.claim.owner = u}
CoinsInv == IsFiniteSet(decisions) /\ \A u \in Users : purchased[u] = CoinsOf(CreditsOf(u))

LEMMA CoinsInit == Init => CoinsInv
<1> SUFFICES ASSUME Init PROVE CoinsInv
  OBVIOUS
<1>1. decisions = {} /\ \A u \in Users : CreditsOf(u) = {} /\ purchased[u] = 0
  BY DEF Init, CreditsOf, Credited
<1> QED
  BY <1>1, CoinsOfNone, FS_EmptySet DEF CoinsInv

LEMMA CoinsStay ==
  ASSUME CoinsInv, UNCHANGED <<decisions, purchased>>
  PROVE  CoinsInv'
<1>1. \A u \in Users : CreditsOf(u)' = CreditsOf(u)
  BY DEF CreditsOf, Credited
<1> QED
  BY <1>1 DEF CoinsInv

LEMMA CoinsCommit ==
  ASSUME IInv, CoinsInv, NEW c \in Calls, Commit(c)
  PROVE  CoinsInv'
<1> DEFINE d == call[c].delivery
           k == call[c].key
           v == NewDecision(c)
<1>1. PICK z \in decisions' :
        /\ z.key = RawKey(d) \/ z.key = k
        /\ purchased' = IF call[c].outcome = "credit"
                        THEN [purchased EXCEPT ![d.owner] = @ + z.coins] ELSE purchased
  BY CommitWrites
<1>2. /\ d \in Delivery /\ d.owner \in Users
      /\ \/ call[c].outcome = "attach" /\ decisions' = decisions
         \/ /\ decisions' = decisions \cup {v}
            /\ v.key = k /\ v.claim = ClaimOf(d, k) /\ v.coins \in Nat
            /\ v.status = "credited" => call[c].outcome = "credit"
            /\ \A x \in decisions : x.key # RawKey(d) /\ x.key # k
  BY CommitWrites, DeliveryFields
<1>3. call[c].outcome = "credit" => v.status = "credited"
  BY DEF NewDecision
<1>4. IsFiniteSet(decisions')
  <2> HIDE DEF d, k, v
  <2> QED
    BY <1>2, FS_AddElement DEF CoinsInv
<1>5. /\ purchased \in [Users -> Nat] /\ \A u \in Users : IsFiniteSet(CreditsOf(u))
      /\ \A y \in decisions : y.coins \in Nat
  <2>1. \A u \in Users : CreditsOf(u) \subseteq decisions
    BY DEF CreditsOf, Credited
  <2> QED
    BY <2>1, FS_Subset DEF CoinsInv, IInv, TypeOK
<1>6. CASE call[c].outcome # "credit"
  <2>1. purchased' = purchased
    BY <1>1, <1>6
  <2>2. Credited' = Credited
    <3> HIDE DEF d, k, v
    <3> QED
      BY <1>2, <1>6 DEF Credited
  <2>3. \A u \in Users : CreditsOf(u)' = CreditsOf(u)
    BY <2>2 DEF CreditsOf
  <2> QED
    BY <1>4, <2>1, <2>3 DEF CoinsInv
<1>7. CASE call[c].outcome = "credit"
  <2> HIDE DEF k, v
  <2>1. /\ z = v /\ v \notin decisions /\ decisions' = decisions \cup {v}
        /\ v.claim.owner = d.owner /\ v.status = "credited"
    BY <1>1, <1>2, <1>3, <1>7 DEF ClaimOf
  <2>2. Credited' = Credited \cup {v}
    <3> HIDE DEF d
    <3> QED
      BY <2>1 DEF Credited
  <2>3. v \notin Credited
    BY <2>1 DEF Credited
  <2>4. ASSUME NEW u \in Users, u # d.owner
        PROVE  purchased'[u] = CoinsOf(CreditsOf(u)')
    <3>1. CreditsOf(u)' = CreditsOf(u)
      BY <2>1, <2>2, <2>4 DEF CreditsOf
    <3>2. purchased'[u] = purchased[u]
      BY <1>1, <1>5, <2>4
    <3> QED
      BY <3>1, <3>2 DEF CoinsInv
  <2>5. ASSUME NEW u \in Users, u = d.owner
        PROVE  purchased'[u] = CoinsOf(CreditsOf(u)')
    <3> DEFINE new == CreditsOf(u)'
    <3>2. new = CreditsOf(u) \cup {v} /\ v \notin CreditsOf(u)
      BY <2>1, <2>2, <2>3, <2>5 DEF CreditsOf
    <3>3. \A y \in CreditsOf(u) : y.coins \in Nat
      BY <1>5 DEF CreditsOf, Credited
    <3> HIDE DEF new
    <3>5. IsFiniteSet(new) /\ \A y \in new : y.coins \in Nat
      BY <1>2, <1>5, <1>7, <3>2, <3>3, FS_AddElement
    <3>6. CoinsOf(new) = v.coins + CoinsOf(CreditsOf(u))
      <4>1. v \in new /\ new \ {v} = CreditsOf(u)
        BY <3>2
      <4> QED
        BY <3>5, <4>1, CoinsOfAny
    <3>7. purchased'[u] = purchased[u] + v.coins
      BY <1>1, <1>5, <1>7, <2>1, <2>5
    <3>8. purchased[u] = CoinsOf(CreditsOf(u)) /\ purchased[u] \in Nat /\ v.coins \in Nat
      BY <1>2, <1>5, <1>7 DEF CoinsInv
    <3> QED
      BY <3>6, <3>7, <3>8 DEF new
  <2> QED
    BY <1>4, <2>4, <2>5 DEF CoinsInv
<1> QED
  BY <1>6, <1>7

\* A line of the history has the coins of its decision, and no other decision's name.
LEMMA HistoryAddsUp ==
  ASSUME IInv, CoinsInv, NEW u \in Users
  PROVE  CoinsOf(PurchaseHistory(u)) = CoinsOf(CreditsOf(u))
<1> DEFINE S == CreditsOf(u)
           h == [x \in S |-> [reference |-> x.key, coins |-> x.coins, status |-> Shown(x)]]
<1>1. S \subseteq decisions
  BY DEF CreditsOf, Credited
<1>2. IsFiniteSet(S)
  BY <1>1, FS_Subset DEF CoinsInv
<1>3. \A x \in S : h[x].coins = x.coins /\ x.coins \in Nat
  BY <1>1 DEF IInv, TypeOK
<1>4. \A x, y \in S : h[x] = h[y] => x = y
  <2> SUFFICES ASSUME NEW x \in S, NEW y \in S, h[x] = h[y] PROVE x = y
    OBVIOUS
  <2>1. h[x].reference = x.key /\ h[y].reference = y.key
    OBVIOUS
  <2>2. x.key = y.key
    BY <2>1
  <2> QED
    BY <1>1, <2>2 DEF IInv, Records
<1>5. PurchaseHistory(u) = {h[x] : x \in S}
  BY DEF PurchaseHistory, CreditsOf
<1> HIDE DEF h, S
<1> QED
  BY <1>2, <1>3, <1>4, <1>5, CoinsRenamed DEF S

\* A wallet has the coins of the lines that its owner's history shows, for any number of
\* purchases (LedgerIsReceipted, commerce/services.py:147).
THEOREM CoinsAreReceipted == Spec => []LedgerIsReceipted
<1>1. Init => CoinsInv
  BY CoinsInit
<1>2. IInv /\ CoinsInv /\ [Next]_vars => CoinsInv'
  <2> SUFFICES ASSUME IInv, CoinsInv, [Next]_vars PROVE CoinsInv'
    OBVIOUS
  <2>1. CASE UNCHANGED <<decisions, purchased>>
    BY <2>1, CoinsStay
  <2>2. CASE ~UNCHANGED <<decisions, purchased>>
    <3>1. PICK c \in Calls : Commit(c)
      BY <2>2, OnlyCommits
    <3> QED
      BY <3>1, CoinsCommit
  <2> QED
    BY <2>1, <2>2
<1>3. IInv /\ CoinsInv => LedgerIsReceipted
  BY HistoryAddsUp DEF CoinsInv, LedgerIsReceipted
<1> QED
  BY <1>1, <1>2, <1>3, Invariant, PTL DEF Spec
===============================================================================
