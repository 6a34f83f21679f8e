------------------------- MODULE RewardGrants_proofs -------------------------
(***************************************************************************)
(* One ad opens one episode, for a viewer who may still have it, and what  *)
(* the app was told stays true: for every number of viewers, episodes,     *)
(* requests, callbacks and calls, and every length of the times involved.  *)
(***************************************************************************)
EXTENDS RewardGrants, TLAPS

CallType == Creation \cup Granting \cup {Idle}

LocksDisjoint == \A c, o \in Calls : c # o => call[c].held \cap call[o].held = {}

\* The viewer's lock is taken before anything is decided, the episode's with it.
HeldFacts(c) ==
  /\ call[c].stage \in {"episode", "commit"} =>
       /\ <<"profile", call[c].key[1]>> \in call[c].held
       /\ profile[call[c].key[1]] = "active"
  /\ call[c].stage = "commit" => <<"episode", EpisodeOf(c)>> \in call[c].held
  /\ call[c].stage # "idle" /\ call[c].kind = "create" => call[c].write.grant = NoGrant
  /\ call[c].stage # "idle" /\ call[c].kind = "grant" =>
       call[c].key = <<call[c].callback.custom[1], call[c].callback.custom[2]>>

\* What a grant was decided on is still so when it commits, but for the time.
GrantFacts(c) ==
  call[c].stage = "commit" /\ call[c].kind = "grant" =>
    LET k == call[c].key
        d == call[c].callback
        e == d.custom[3] IN
    /\ ~Granted(k) /\ Made(k) /\ intents[k].episode = e
    /\ call[c].write = [intents[k] EXCEPT !.grant = <<d.txn, d.stamp>>]
    /\ d.ssv = d.custom /\ d.unit = intents[k].unit
    /\ k[1] \in consent
    /\ terms[e] = intents[k].terms /\ terms[e] \in Offering
    /\ access[<<k[1], e>>] = "none"
    /\ told[k] # "expired"

CallFacts == \A c \in Calls : HeldFacts(c) /\ GrantFacts(c)

\* An answer is about an intent that exists and, once expired, is over; a granted
\* episode is the viewer's until staff take it away.
Records ==
  /\ \A k \in Key : told[k] # "nothing" => Made(k)
  /\ \A k \in Key : told[k] = "expired" => ~Granted(k) /\ Expires(intents[k]) <= now
  /\ \A k \in Key : told[k] = "granted" => Granted(k)
  /\ \A k \in Key : Granted(k) => \/ access[<<k[1], intents[k].episode>>] # "none"
                                  \/ <<k[1], intents[k].episode>> \in revoked

\* A cached key was on the network's list when the list was fetched.
KeyFacts ==
  /\ cache.at <= now
  /\ \A k \in cache.keys : k \in published \/ withdrawn[k] >= cache.at

IInv == TypeOK /\ LocksDisjoint /\ CallFacts /\ Records /\ GrantedOnce /\ KeyFacts

-----------------------------------------------------------------------------
(* Types. *)

LEMMA RunningCall ==
  ASSUME TypeOK, NEW c \in Calls
  PROVE  /\ call[c].stage = "idle" <=> call[c] = Idle
         /\ call[c].stage # "idle" => call[c] \in Creation \cup Granting
<1>1. \A x \in Creation \cup Granting : x.stage # "idle"
  BY DEF Creation, Granting
<1>2. Idle.stage = "idle"
  BY DEF Idle
<1> QED BY <1>1, <1>2 DEF TypeOK

LEMMA CreationFields ==
  ASSUME NEW x \in Creation
  PROVE  /\ x.stage \in {"episode", "commit"} /\ x.kind = "create" /\ x.key \in Key
         /\ x.held \subseteq Locks /\ x.write \in Intent
BY DEF Creation

LEMMA GrantingFields ==
  ASSUME NEW x \in Granting
  PROVE  /\ x.stage \in {"profile", "episode", "commit"} /\ x.kind = "grant" /\ x.key \in Key
         /\ x.held \subseteq Locks /\ x.callback \in Callbacks
         /\ x.write \in Intent \cup {NoIntent}
BY DEF Granting

LEMMA CallbackFields ==
  ASSUME NEW d \in Callbacks
  PROVE  /\ d.custom \in Custom /\ d.txn \in Txns /\ d.stamp \in Stamps
         /\ d.custom[1] \in Users /\ d.custom[2] \in Requests /\ d.custom[3] \in Episodes
         /\ <<d.custom[1], d.custom[2]>> \in Key
BY RewardsAssumption DEF Callback, Custom, Key

LEMMA KeyFields ==
  ASSUME NEW k \in Key
  PROVE  k[1] \in Users /\ k[2] \in Requests /\ k = <<k[1], k[2]>>
BY DEF Key

LEMMA MadeIntent ==
  ASSUME TypeOK, NEW k \in Key, Made(k)
  PROVE  intents[k] \in Intent
BY DEF TypeOK, Made

LEMMA LockTypes ==
  /\ \A x \in Txns : <<"transaction", x>> \in Locks
  /\ \A u \in Users : <<"profile", u>> \in Locks
  /\ \A e \in Episodes : <<"episode", e>> \in Locks
BY DEF Locks

-----------------------------------------------------------------------------
(* Steps of one call that write no row. *)

LEMMA CallUpdated ==
  ASSUME TypeOK, NEW c \in Calls, NEW x \in CallType, call' = [call EXCEPT ![c] = x]
  PROVE  /\ call' \in [Calls -> CallType]
         /\ call'[c] = x
         /\ \A o \in Calls \ {c} : call'[o] = call[o]
BY DEF TypeOK, CallType

\* The facts about a call stay while its record and what they speak of do.
LEMMA FactsStay ==
  ASSUME NEW c \in Calls, call'[c] = call[c], UNCHANGED <<settings, intents, told>>,
         HeldFacts(c), GrantFacts(c)
  PROVE  HeldFacts(c)' /\ GrantFacts(c)'
<1>1. UNCHANGED <<profile, consent, terms, access>>
  BY DEF settings
<1>2. HeldFacts(c)'
  BY <1>1 DEF HeldFacts, EpisodeOf
<1>3. GrantFacts(c)'
  BY <1>1 DEF GrantFacts, Granted, Made
<1> QED BY <1>2, <1>3

LEMMA RecordsStay ==
  ASSUME Records, GrantedOnce, UNCHANGED <<now, settings, intents, told>>
  PROVE  Records' /\ GrantedOnce'
BY DEF Records, GrantedOnce, Granted, Made, Expires, settings

LEMMA CallStep ==
  ASSUME IInv, NEW c \in Calls, NEW x \in CallType, call' = [call EXCEPT ![c] = x],
         UNCHANGED <<now, published, withdrawn, settings, intents, told>>,
         cache' \in [keys: SUBSET SigningKeys, at: Times], KeyFacts',
         \A o \in Calls \ {c} : x.held \cap call[o].held = {},
         HeldFacts(c)', GrantFacts(c)'
  PROVE  IInv'
<1>1. /\ call' \in [Calls -> CallType] /\ call'[c] = x
      /\ \A o \in Calls \ {c} : call'[o] = call[o]
  BY CallUpdated DEF IInv
<1>2. TypeOK'
  BY <1>1 DEF IInv, TypeOK, settings, CallType
<1>3. LocksDisjoint'
  BY <1>1 DEF IInv, LocksDisjoint
<1>4. CallFacts'
  BY <1>1, FactsStay DEF IInv, CallFacts
<1> QED BY <1>2, <1>3, <1>4, RecordsStay DEF IInv

\* A step of a call that asks for no verifier keys.
LEMMA LockStep ==
  ASSUME IInv, NEW c \in Calls, NEW x \in CallType, call' = [call EXCEPT ![c] = x],
         UNCHANGED <<now, keys, settings, intents, told>>,
         \A o \in Calls \ {c} : x.held \cap call[o].held = {},
         HeldFacts(c)', GrantFacts(c)'
  PROVE  IInv'
<1>1. UNCHANGED <<now, published, withdrawn, settings, intents, told>>
  BY DEF keys
<1>2. cache' \in [keys: SUBSET SigningKeys, at: Times] /\ KeyFacts'
  BY DEF IInv, TypeOK, KeyFacts, keys
<1> QED BY <1>1, <1>2, CallStep

LEMMA EndStep ==
  ASSUME IInv, NEW c \in Calls, End(c), UNCHANGED <<now, keys, settings, intents, told>>
  PROVE  IInv'
<1>1. call' = [call EXCEPT ![c] = Idle] /\ Idle.held = {} /\ Idle.stage = "idle"
  BY DEF End, Idle
<1>2. Idle \in CallType
  BY DEF CallType
<1>3. call'[c] = Idle
  BY <1>1, <1>2, CallUpdated DEF IInv
<1>4. HeldFacts(c)' /\ GrantFacts(c)'
  BY <1>1, <1>3 DEF HeldFacts, GrantFacts
<1>5. \A o \in Calls \ {c} : Idle.held \cap call[o].held = {}
  BY <1>1
<1> QED BY <1>1, <1>2, <1>4, <1>5, LockStep

-----------------------------------------------------------------------------
(* Every step keeps the invariant. *)

LEMMA InitInvariant == Init => IInv
<1> SUFFICES ASSUME Init PROVE IInv
  OBVIOUS
<1>1. (\A c \in Calls : call[c] = Idle) /\ Idle.stage = "idle" /\ Idle.held = {}
  BY DEF Init, Idle
<1>2. 0 \in Times
  BY RewardsAssumption DEF Times
<1>3. TypeOK
  BY <1>2, RewardsAssumption DEF Init, TypeOK, Sources
<1>4. LocksDisjoint /\ CallFacts
  BY <1>1 DEF LocksDisjoint, CallFacts, HeldFacts, GrantFacts
<1>5. Records /\ GrantedOnce
  BY DEF Init, Records, GrantedOnce, Granted, Made
<1>6. KeyFacts
  BY <1>2 DEF Init, KeyFacts, Times
<1> QED BY <1>3, <1>4, <1>5, <1>6 DEF IInv

LEMMA AcceptStep ==
  ASSUME IInv, NEW c \in Calls, NEW k \in Key, NEW e \in Episodes, NEW a \in Units,
         Accept(c, k, e, a)
  PROVE  IInv'
<1> DEFINE i == [episode |-> e, unit |-> a, terms |-> terms[e], created |-> now,
                 grant |-> NoGrant]
           x == [stage |-> "episode", held |-> {<<"profile", k[1]>>}, kind |-> "create",
                 key |-> k, write |-> i]
<1>1. i \in Intent
  BY DEF IInv, TypeOK, Accept, Intent
<1>2. <<"profile", k[1]>> \in Locks
  BY KeyFields, LockTypes
<1>3. x \in CallType
  BY <1>1, <1>2 DEF CallType, Creation
<1>4. call' = [call EXCEPT ![c] = x] /\ UNCHANGED <<now, keys, settings, intents, told>>
  BY DEF Accept
<1>5. call'[c] = x
  BY <1>3, <1>4, CallUpdated DEF IInv
<1>6. profile[k[1]] = "active"
  BY DEF Accept
<1>7. HeldFacts(c)' /\ GrantFacts(c)'
  BY <1>4, <1>5, <1>6 DEF HeldFacts, GrantFacts, settings
<1>8. \A o \in Calls \ {c} : x.held \cap call[o].held = {}
  BY DEF Accept, Free
<1> HIDE DEF x
<1> QED BY <1>3, <1>4, <1>7, <1>8, LockStep

LEMMA DecideCreationStep ==
  ASSUME IInv, NEW c \in Calls, DecideCreation(c)
  PROVE  IInv'
<1> DEFINE e == EpisodeOf(c)
           name == <<"episode", e>>
           w == [call[c].write EXCEPT !.terms = terms[e], !.created = now]
           x == [call[c] EXCEPT !.stage = "commit", !.held = @ \cup {name}, !.write = w]
<1>1. CASE End(c)
  BY <1>1, EndStep DEF DecideCreation
<1>2. CASE ~End(c)
  <2>1. call[c].stage = "episode" /\ call[c].kind = "create" /\ call[c] \in Creation
    BY RunningCall, GrantingFields DEF DecideCreation, IInv
  <2>2. call[c].write \in Intent /\ e = call[c].write.episode /\ e \in Episodes
    BY <2>1, CreationFields DEF EpisodeOf, Intent
  <2>3. call' = [call EXCEPT ![c] = x] /\ UNCHANGED <<now, keys, settings, intents, told>>
    BY <1>2 DEF DecideCreation
  <2>4. terms[e] \in Terms /\ now \in Times
    BY <1>2, <2>2, RewardsAssumption DEF DecideCreation, OfferAvailable, IInv, TypeOK
  <2>5. w \in Intent /\ w.episode = e /\ w.grant = call[c].write.grant
    BY <2>2, <2>4 DEF Intent
  <2>6. name \in Locks /\ \A o \in Calls \ {c} : name \notin call[o].held
    BY <2>2, LockTypes DEF DecideCreation, Free
  <2> HIDE DEF w, name
  <2>7. x \in Creation /\ x.stage = "commit" /\ x.kind = "create" /\ x.key = call[c].key
        /\ x.held = call[c].held \cup {name} /\ x.write = w
    BY <2>1, <2>5, <2>6 DEF Creation
  <2>8. call'[c] = x
    BY <2>3, <2>7, CallUpdated DEF IInv, CallType
  <2>9. HeldFacts(c)
    BY DEF IInv, CallFacts
  <2> HIDE DEF x
  <2>10. EpisodeOf(c)' = e
    BY <2>5, <2>7, <2>8 DEF EpisodeOf
  <2>11. HeldFacts(c)' /\ GrantFacts(c)'
    BY <2>1, <2>3, <2>5, <2>7, <2>8, <2>9, <2>10 DEF HeldFacts, GrantFacts, settings, name
  <2>12. \A o \in Calls \ {c} : x.held \cap call[o].held = {}
    BY <2>6, <2>7 DEF IInv, LocksDisjoint
  <2> QED BY <2>3, <2>7, <2>11, <2>12, LockStep DEF CallType
<1> QED BY <1>1, <1>2

\* The list replaces the cache; a key taken off it later is withdrawn later.
LEMMA FreshKeys ==
  ASSUME IInv, NEW k \in SigningKeys, NEW fresh \in KeyCaches(k)
  PROVE  /\ fresh \in [keys: SUBSET SigningKeys, at: Times] /\ fresh.at <= now
         /\ \A j \in fresh.keys : j \in published \/ withdrawn[j] >= fresh.at
<1>1. CASE fresh = cache
  BY <1>1 DEF IInv, TypeOK, KeyFacts
<1>2. CASE fresh = [keys |-> published, at |-> now]
  BY <1>2, RewardsAssumption DEF IInv, TypeOK, Times
<1> QED BY <1>1, <1>2 DEF KeyCaches, Fetched

LEMMA ReceiveStep ==
  ASSUME IInv, NEW c \in Calls, NEW d \in Callbacks, NEW k \in SigningKeys, NEW a \in Units,
         Receive(c, d, k, a)
  PROVE  IInv'
<1>1. PICK fresh \in KeyCaches(k) :
        /\ cache' = fresh
        /\ \/ /\ Free(c, <<"transaction", d.txn>>)
              /\ Start(c, d, k, a, {<<"transaction", d.txn>>})
           \/ UNCHANGED call
  BY DEF Receive
<1>2. UNCHANGED <<now, published, withdrawn, settings, intents, told>>
  BY DEF Receive
<1>3. cache' \in [keys: SUBSET SigningKeys, at: Times] /\ KeyFacts'
  BY <1>1, <1>2, FreshKeys DEF KeyFacts
<1>4. CASE UNCHANGED call
  <2>1. TypeOK' /\ LocksDisjoint'
    BY <1>2, <1>3, <1>4 DEF IInv, TypeOK, LocksDisjoint, settings
  <2>2. CallFacts'
    BY <1>2, <1>4, FactsStay DEF IInv, CallFacts
  <2> QED BY <1>2, <1>3, <2>1, <2>2, RecordsStay DEF IInv
<1>5. CASE ~UNCHANGED call
  <2> DEFINE name == <<"transaction", d.txn>>
             x == [stage |-> "profile", held |-> {name}, kind |-> "grant",
                   key |-> <<d.custom[1], d.custom[2]>>, unit |-> a, callback |-> d,
                   signer |-> k, write |-> NoIntent]
  <2>1. name \in Locks
    BY CallbackFields, LockTypes
  <2>2. x \in Granting
    BY <2>1, CallbackFields DEF Granting
  <2>3. call' = [call EXCEPT ![c] = x]
    BY <1>1, <1>5 DEF Start
  <2>4. call'[c] = x
    BY <2>2, <2>3, CallUpdated DEF IInv, CallType
  <2>5. HeldFacts(c)' /\ GrantFacts(c)'
    BY <2>4 DEF HeldFacts, GrantFacts
  <2>6. \A o \in Calls \ {c} : x.held \cap call[o].held = {}
    BY <1>1, <1>5 DEF Free
  <2> HIDE DEF x
  <2> QED BY <1>2, <1>3, <2>2, <2>3, <2>5, <2>6, CallStep DEF CallType
<1> QED BY <1>4, <1>5

LEMMA LockViewerStep ==
  ASSUME IInv, NEW c \in Calls, LockViewer(c)
  PROVE  IInv'
<1> DEFINE u == call[c].key[1]
           name == <<"profile", u>>
           x == [call[c] EXCEPT !.stage = "episode", !.held = @ \cup {name}]
<1>1. CASE End(c)
  BY <1>1, EndStep DEF LockViewer
<1>2. CASE ~End(c)
  <2>1. call[c].stage = "profile" /\ call[c] \in Granting
    BY RunningCall, CreationFields DEF LockViewer, IInv
  <2>2. u \in Users
    BY <2>1, GrantingFields, KeyFields
  <2>3. /\ call' = [call EXCEPT ![c] = x] /\ UNCHANGED <<now, keys, settings, intents, told>>
        /\ profile[u] # "deleted"
    BY <1>2 DEF LockViewer, Take
  <2>4. profile[u] = "active"
    BY <2>2, <2>3 DEF IInv, TypeOK
  <2>5. name \in Locks /\ \A o \in Calls \ {c} : name \notin call[o].held
    BY <2>2, LockTypes DEF LockViewer, Free
  <2> HIDE DEF name
  <2>6. /\ x \in Granting /\ x.stage = "episode" /\ x.kind = call[c].kind /\ x.key = call[c].key
        /\ x.held = call[c].held \cup {name} /\ x.callback = call[c].callback
    BY <2>1, <2>5 DEF Granting
  <2>7. call'[c] = x
    BY <2>3, <2>6, CallUpdated DEF IInv, CallType
  <2>8. HeldFacts(c) /\ call[c].kind = "grant"
    BY <2>1, GrantingFields DEF IInv, CallFacts
  <2> HIDE DEF x
  <2>9. HeldFacts(c)' /\ GrantFacts(c)'
    BY <2>1, <2>3, <2>4, <2>6, <2>7, <2>8 DEF HeldFacts, GrantFacts, settings, name
  <2>10. \A o \in Calls \ {c} : x.held \cap call[o].held = {}
    BY <2>5, <2>6 DEF IInv, LocksDisjoint
  <2> QED BY <2>3, <2>6, <2>9, <2>10, LockStep DEF CallType
<1> QED BY <1>1, <1>2

LEMMA DecideGrantStep ==
  ASSUME IInv, NEW c \in Calls, DecideGrant(c)
  PROVE  IInv'
<1> DEFINE e == EpisodeOf(c)
           name == <<"episode", e>>
           k == call[c].key
           d == call[c].callback
           i == intents[k]
           w == [i EXCEPT !.grant = <<d.txn, d.stamp>>]
           x == [call[c] EXCEPT !.stage = "commit", !.held = @ \cup {name}, !.write = w]
<1>1. CASE End(c)
  BY <1>1, EndStep DEF DecideGrant
<1>2. CASE ~End(c)
  <2>1. call[c].stage = "episode" /\ call[c].kind = "grant" /\ call[c] \in Granting
    BY RunningCall, CreationFields DEF DecideGrant, IInv
  <2>2. d \in Callbacks /\ k \in Key /\ e = d.custom[3] /\ e \in Episodes
    BY <2>1, GrantingFields, CallbackFields DEF EpisodeOf
  <2>3. HeldFacts(c)
    BY DEF IInv, CallFacts
  <2>4. k = <<d.custom[1], d.custom[2]>>
    BY <2>1, <2>3 DEF HeldFacts
  <2>5. /\ call' = [call EXCEPT ![c] = x] /\ UNCHANGED <<now, keys, settings, intents, told>>
        /\ Found(d) /\ Earned(c, i)
    BY <1>2 DEF DecideGrant
  <2>6. Made(k) /\ i.episode = e
    BY <2>2, <2>4, <2>5 DEF Found
  <2>7. i \in Intent
    BY <2>2, <2>6, MadeIntent DEF IInv
  <2>8. /\ d.ssv = d.custom /\ d.unit = i.unit /\ i.grant = NoGrant
        /\ i.terms = terms[e] /\ k[1] \in consent /\ terms[e] \in Offering
        /\ access[<<k[1], e>>] = "none" /\ now < Expires(i)
    BY <2>5, <2>6 DEF Earned, OfferAvailable, Timely
  <2>9. told[k] # "expired"
    <3>1. Expires(i) \in Int /\ now \in Int
      BY <2>7, RewardsAssumption DEF IInv, TypeOK, Expires, Intent, Times
    <3> QED BY <2>2, <2>8, <3>1 DEF IInv, Records
  <2>10. w \in Intent
    BY <2>2, <2>7, CallbackFields DEF Intent
  <2>11. name \in Locks /\ \A o \in Calls \ {c} : name \notin call[o].held
    BY <2>2, LockTypes DEF DecideGrant, Free
  <2> HIDE DEF w, name
  <2>12. /\ x \in Granting /\ x.stage = "commit" /\ x.kind = "grant" /\ x.key = k
         /\ x.held = call[c].held \cup {name} /\ x.callback = d /\ x.write = w
    BY <2>1, <2>10, <2>11 DEF Granting
  <2>13. call'[c] = x
    BY <2>5, <2>12, CallUpdated DEF IInv, CallType
  <2> HIDE DEF x
  <2>14. EpisodeOf(c)' = e
    BY <2>2, <2>12, <2>13 DEF EpisodeOf
  <2>15. HeldFacts(c)'
    BY <2>1, <2>3, <2>4, <2>5, <2>12, <2>13, <2>14 DEF HeldFacts, settings, name
  <2>16. GrantFacts(c)'
    BY <2>2, <2>5, <2>6, <2>8, <2>9, <2>12, <2>13
    DEF GrantFacts, Granted, Made, settings, w
  <2>17. \A o \in Calls \ {c} : x.held \cap call[o].held = {}
    BY <2>11, <2>12 DEF IInv, LocksDisjoint
  <2> QED BY <2>5, <2>12, <2>15, <2>16, <2>17, LockStep DEF CallType
<1> QED BY <1>1, <1>2

\* What a commit writes: a new intent, or the grant of one that is still fair.
LEMMA CommitWrites ==
  ASSUME IInv, NEW c \in Calls, Commit(c)
  PROVE  LET k == call[c].key
             w == call[c].write
             e == EpisodeOf(c) IN
         /\ k \in Key /\ w \in Intent
         /\ intents' = [intents EXCEPT ![k] = w]
         /\ <<"profile", k[1]>> \in call[c].held /\ profile[k[1]] = "active"
         /\ <<"episode", e>> \in call[c].held
         /\ \/ /\ call[c].kind = "create" /\ w.grant = NoGrant /\ ~Made(k) /\ access' = access
            \/ /\ call[c].kind = "grant" /\ GrantFacts(c)
               /\ e = call[c].callback.custom[3] /\ call[c].callback \in Callbacks
               /\ k = <<call[c].callback.custom[1], call[c].callback.custom[2]>>
               /\ w.episode = e /\ w.grant = <<call[c].callback.txn, call[c].callback.stamp>>
               /\ access' = [access EXCEPT ![<<k[1], e>>] = "rewarded_ad"]
               /\ \A l \in Key : Granted(l) => intents[l].grant[1] # call[c].callback.txn
<1> DEFINE k == call[c].key
           w == call[c].write
           d == call[c].callback
           e == EpisodeOf(c)
<1>1. call[c].stage = "commit" /\ call[c] \in Creation \cup Granting
  BY RunningCall DEF Commit, IInv
<1>2. HeldFacts(c) /\ GrantFacts(c)
  BY DEF IInv, CallFacts
<1>3. k \in Key
  BY <1>1, CreationFields, GrantingFields
<1>4. /\ <<"profile", k[1]>> \in call[c].held /\ profile[k[1]] = "active"
      /\ <<"episode", e>> \in call[c].held
  BY <1>1, <1>2 DEF HeldFacts
<1>5. intents' = [intents EXCEPT ![k] = w]
  BY DEF Commit
<1>6. CASE call[c] \in Creation
  <2>1. call[c].kind = "create" /\ w \in Intent
    BY <1>6, CreationFields
  <2>2. w.grant = NoGrant /\ ~Made(k) /\ access' = access
    BY <1>1, <1>2, <2>1 DEF HeldFacts, Commit, DatabaseAccepts
  <2> QED BY <1>3, <1>4, <1>5, <2>1, <2>2
<1>7. CASE call[c] \in Granting
  <2>1. call[c].kind = "grant" /\ d \in Callbacks
    BY <1>7, GrantingFields
  <2>2. /\ Made(k) /\ intents[k].episode = d.custom[3]
        /\ w = [intents[k] EXCEPT !.grant = <<d.txn, d.stamp>>]
    BY <1>1, <1>2, <2>1 DEF GrantFacts
  <2>3. intents[k] \in Intent
    BY <1>3, <2>2, MadeIntent DEF IInv
  <2>4. w \in Intent /\ w.episode = d.custom[3] /\ w.grant = <<d.txn, d.stamp>>
    <3>1. PICK i \in Intent : i = intents[k]
      BY <2>3
    <3>2. <<d.txn, d.stamp>> \in Txns \X Stamps
      BY <2>1, CallbackFields
    <3>3. w = [i EXCEPT !.grant = <<d.txn, d.stamp>>] /\ i.episode = d.custom[3]
      BY <2>2, <3>1
    <3> HIDE DEF w
    <3> QED BY <3>2, <3>3 DEF Intent
  <2>5. e = d.custom[3]
    BY <2>1 DEF EpisodeOf
  <2>6. k = <<d.custom[1], d.custom[2]>>
    BY <1>1, <1>2, <2>1 DEF HeldFacts
  <2>7. /\ access' = [access EXCEPT ![<<k[1], e>>] = "rewarded_ad"]
        /\ \A l \in Key : Granted(l) => intents[l].grant[1] # d.txn
    BY <2>1 DEF Commit, DatabaseAccepts
  <2> QED BY <1>2, <1>3, <1>4, <1>5, <2>1, <2>4, <2>5, <2>6, <2>7
<1> QED BY <1>1, <1>6, <1>7

LEMMA CommitStep ==
  ASSUME IInv, NEW c \in Calls, Commit(c)
  PROVE  IInv'
<1>0. PICK k \in Key : k = call[c].key
  BY CommitWrites
<1> DEFINE w == call[c].write
           d == call[c].callback
           e == EpisodeOf(c)
<1>1. /\ k \in Key /\ w \in Intent /\ intents' = [intents EXCEPT ![k] = w]
      /\ <<"profile", k[1]>> \in call[c].held /\ profile[k[1]] = "active"
      /\ <<"episode", e>> \in call[c].held
  BY <1>0, CommitWrites
<1>2. \/ /\ call[c].kind = "create" /\ w.grant = NoGrant /\ ~Made(k) /\ access' = access
      \/ /\ call[c].kind = "grant" /\ GrantFacts(c)
         /\ e = d.custom[3] /\ d \in Callbacks
         /\ w.episode = e /\ w.grant = <<d.txn, d.stamp>>
         /\ access' = [access EXCEPT ![<<k[1], e>>] = "rewarded_ad"]
         /\ \A l \in Key : Granted(l) => intents[l].grant[1] # d.txn
  BY <1>0, CommitWrites
<1>3. /\ UNCHANGED <<now, keys, profile, consent, terms, playable, revoked, told>>
      /\ call' = [call EXCEPT ![c] = Idle] /\ call[c].stage = "commit"
  BY DEF Commit, End
<1>4. Idle.stage = "idle" /\ Idle.held = {} /\ Idle \in CallType
  BY DEF Idle, CallType
<1>5. /\ call' \in [Calls -> CallType] /\ call'[c] = Idle
      /\ \A o \in Calls \ {c} : call'[o] = call[o]
  BY <1>3, <1>4, CallUpdated DEF IInv
<1>6. TypeOK /\ Records /\ GrantedOnce
  BY DEF IInv
<1>7. intents' \in [Key -> Intent \cup {NoIntent}] /\ intents'[k] = w
      /\ \A l \in Key \ {k} : intents'[l] = intents[l]
  BY <1>1, <1>6 DEF TypeOK
<1>8. access' \in [Users \X Episodes -> Sources]
      /\ \A q \in Users \X Episodes : access'[q] = access[q] \/ access'[q] = "rewarded_ad"
  <2>1. access \in [Users \X Episodes -> Sources] /\ "rewarded_ad" \in Sources
    BY <1>6 DEF TypeOK, Sources
  <2>2. \/ access' = access
        \/ access' = [access EXCEPT ![<<k[1], e>>] = "rewarded_ad"]
    BY <1>2
  <2> QED BY <2>1, <2>2
<1>9. w # NoIntent
  <2>1. w.grant = NoGrant \/ w.grant = <<d.txn, d.stamp>>
    BY <1>2
  <2>2. "unit" \in DOMAIN w /\ "unit" \notin DOMAIN NoIntent
    BY <1>1 DEF Intent, NoIntent
  <2> QED BY <2>2
<1>10. TypeOK'
  BY <1>3, <1>5, <1>6, <1>7, <1>8 DEF TypeOK, CallType, keys
<1>11. LocksDisjoint'
  BY <1>4, <1>5 DEF IInv, LocksDisjoint
<1>12. \A l \in Key \ {k} : (Granted(l)' <=> Granted(l)) /\ (Made(l)' <=> Made(l))
  BY <1>7 DEF Granted, Made
<1>13. Made(k)' /\ (Granted(k)' <=> call[c].kind = "grant")
  <2>1. Made(k)' /\ (Granted(k)' <=> w.grant # NoGrant)
    BY <1>7, <1>9 DEF Granted, Made
  <2>2. <<d.txn, d.stamp>> # NoGrant
    BY DEF NoGrant
  <2> QED BY <1>2, <2>1, <2>2
<1>14. call[c].kind = "grant" => ~Granted(k) /\ told[k] # "expired" /\ w.episode = e
                                 /\ access[<<k[1], e>>] = "none" /\ e \in Episodes
  BY <1>0, <1>2, <1>3, CallbackFields DEF GrantFacts
<1>15. call[c].kind = "create" => told[k] = "nothing"
  BY <1>1, <1>2, <1>6 DEF Records
<1>16. k[1] \in Users /\ \A l \in Key : Made(l) => <<l[1], intents[l].episode>> \in Users \X Episodes
  BY <1>1, <1>6, KeyFields, MadeIntent DEF Intent
<1>17. Records'
  <2>1. \A l \in Key : told'[l] # "nothing" => Made(l)'
    BY <1>3, <1>6, <1>12, <1>13 DEF Records
  <2>2. \A l \in Key : told'[l] = "expired" => ~Granted(l)' /\ Expires(intents'[l]) <= now'
    <3> SUFFICES ASSUME NEW l \in Key, told'[l] = "expired"
                 PROVE  ~Granted(l)' /\ Expires(intents'[l]) <= now'
      OBVIOUS
    <3>1. l # k
      BY <1>2, <1>3, <1>14, <1>15
    <3>2. ~Granted(l) /\ Expires(intents[l]) <= now
      BY <1>3, <1>6 DEF Records
    <3> QED BY <1>3, <1>7, <1>12, <3>1, <3>2
  <2>3. \A l \in Key : told'[l] = "granted" => Granted(l)'
    BY <1>2, <1>3, <1>6, <1>12, <1>13, <1>15 DEF Records
  <2>4. \A l \in Key : Granted(l)' => \/ access'[<<l[1], intents'[l].episode>>] # "none"
                                      \/ <<l[1], intents'[l].episode>> \in revoked'
    <3> SUFFICES ASSUME NEW l \in Key, Granted(l)'
                 PROVE  \/ access'[<<l[1], intents'[l].episode>>] # "none"
                        \/ <<l[1], intents'[l].episode>> \in revoked'
      OBVIOUS
    <3>1. CASE l = k
      <4>1. call[c].kind = "grant" /\ w.episode = e /\ e \in Episodes
        BY <1>13, <1>14, <3>1
      <4>2. access'[<<k[1], e>>] = "rewarded_ad"
        BY <1>2, <1>6, <1>16, <4>1 DEF TypeOK
      <4> QED BY <1>7, <3>1, <4>1, <4>2
    <3>2. CASE l # k
      <4>1. Granted(l) /\ Made(l) /\ intents'[l] = intents[l]
        BY <1>7, <1>12, <3>2 DEF Granted
      <4>2. \/ access[<<l[1], intents[l].episode>>] # "none"
            \/ <<l[1], intents[l].episode>> \in revoked
        BY <1>6, <4>1 DEF Records
      <4> QED BY <1>3, <1>8, <1>16, <4>1, <4>2
    <3> QED BY <3>1, <3>2
  <2> QED BY <2>1, <2>2, <2>3, <2>4 DEF Records
<1>18. GrantedOnce'
  <2>1. ASSUME NEW l \in Key \ {k}, Granted(k)', Granted(l)'
        PROVE  /\ intents'[k].grant[1] # intents'[l].grant[1]
               /\ k[1] = l[1] /\ intents'[k].episode = intents'[l].episode =>
                    <<k[1], intents'[k].episode>> \in revoked'
    <3>1. call[c].kind = "grant" /\ Granted(l) /\ intents'[l] = intents[l] /\ intents'[k] = w
      BY <1>7, <1>12, <1>13, <2>1
    <3>2. w.grant = <<d.txn, d.stamp>> /\ intents[l].grant[1] # d.txn
      BY <1>2, <3>1
    <3>3. w.episode = e /\ access[<<k[1], e>>] = "none"
      BY <1>14, <3>1
    <3>4. \/ access[<<l[1], intents[l].episode>>] # "none"
          \/ <<l[1], intents[l].episode>> \in revoked
      BY <1>6, <3>1 DEF Records
    <3> QED BY <1>3, <3>1, <3>2, <3>3, <3>4
  <2>2. ASSUME NEW l \in Key \ {k}, NEW m \in Key \ {k}, l # m, Granted(l)', Granted(m)'
        PROVE  /\ intents'[l].grant[1] # intents'[m].grant[1]
               /\ l[1] = m[1] /\ intents'[l].episode = intents'[m].episode =>
                    <<l[1], intents'[l].episode>> \in revoked'
    BY <1>3, <1>6, <1>7, <1>12, <2>2 DEF GrantedOnce
  <2> QED BY <2>1, <2>2 DEF GrantedOnce
<1>19. CallFacts'
  <2>1. HeldFacts(c)' /\ GrantFacts(c)'
    BY <1>4, <1>5 DEF HeldFacts, GrantFacts
  <2>2. ASSUME NEW o \in Calls \ {c}
        PROVE  HeldFacts(o)' /\ GrantFacts(o)'
    <3>1. HeldFacts(o) /\ GrantFacts(o)
      BY DEF IInv, CallFacts
    <3>2. call'[o] = call[o] /\ call[o].held \cap call[c].held = {}
      BY <1>5 DEF IInv, LocksDisjoint
    <3>3. HeldFacts(o)'
      BY <1>3, <3>1, <3>2 DEF HeldFacts, EpisodeOf
    <3>4. SUFFICES ASSUME call[o].stage = "commit", call[o].kind = "grant"
                   PROVE  GrantFacts(o)'
      BY <3>2, <3>3 DEF GrantFacts
    <3>5. call[o].key[1] # k[1]
      BY <1>1, <3>1, <3>2, <3>4 DEF HeldFacts
    <3>6. call[o].key \in Key /\ call[o].callback.custom[3] \in Episodes
      BY <3>4, RunningCall, CreationFields, GrantingFields, CallbackFields DEF IInv
    <3>7. call[o].key # k /\ intents'[call[o].key] = intents[call[o].key]
      BY <1>7, <3>5, <3>6
    <3>8. access'[<<call[o].key[1], call[o].callback.custom[3]>>]
            = access[<<call[o].key[1], call[o].callback.custom[3]>>]
      <4>1. <<call[o].key[1], call[o].callback.custom[3]>> \in Users \X Episodes
        BY <3>6, KeyFields
      <4> QED BY <1>2, <1>6, <3>5, <4>1 DEF TypeOK
    <3> QED BY <1>3, <3>1, <3>2, <3>4, <3>7, <3>8 DEF GrantFacts, Granted, Made
  <2> QED BY <2>1, <2>2 DEF CallFacts
<1>20. KeyFacts'
  BY <1>3 DEF IInv, KeyFacts, keys
<1> QED BY <1>10, <1>11, <1>17, <1>18, <1>19, <1>20 DEF IInv

\* A grant that is about to commit holds its viewer and its episode.
LEMMA GrantHolds ==
  ASSUME IInv, NEW c \in Calls, call[c].stage = "commit", call[c].kind = "grant"
  PROVE  /\ call[c].key \in Key /\ call[c].key[1] \in Users
         /\ call[c].callback.custom[3] \in Episodes
         /\ <<"profile", call[c].key[1]>> \in call[c].held
         /\ <<"episode", call[c].callback.custom[3]>> \in call[c].held
<1>1. HeldFacts(c)
  BY DEF IInv, CallFacts
<1>2. call[c] \in Granting
  BY RunningCall, CreationFields DEF IInv
<1>3. call[c].key \in Key /\ call[c].callback \in Callbacks
  BY <1>2, GrantingFields
<1> QED BY <1>1, <1>3, KeyFields, CallbackFields DEF HeldFacts, EpisodeOf

\* A step around the calls: what they rely on is what they hold.
LEMMA AroundStep ==
  ASSUME IInv, TypeOK', UNCHANGED call, Records', GrantedOnce', KeyFacts',
         \A u \in Users : profile[u] = "active" => \/ profile'[u] = "active"
                                                  \/ Unheld(<<"profile", u>>),
         \A c \in Calls : call[c].stage = "commit" /\ call[c].kind = "grant" =>
           LET k == call[c].key
               e == call[c].callback.custom[3] IN
           /\ intents'[k] = intents[k]
           /\ k[1] \in consent => k[1] \in consent'
           /\ terms'[e] = terms[e]
           /\ access'[<<k[1], e>>] = access[<<k[1], e>>]
           /\ told'[k] = "expired" => told[k] = "expired"
  PROVE  IInv'
<1>1. LocksDisjoint'
  BY DEF IInv, LocksDisjoint
<1>2. ASSUME NEW c \in Calls
      PROVE  HeldFacts(c)' /\ GrantFacts(c)'
  <2>1. HeldFacts(c) /\ GrantFacts(c)
    BY DEF IInv, CallFacts
  <2>2. call[c].stage \in {"episode", "commit"} => call[c].key[1] \in Users
    BY RunningCall, CreationFields, GrantingFields, KeyFields DEF IInv
  <2>3. HeldFacts(c)'
    BY <2>1, <2>2 DEF HeldFacts, EpisodeOf, Unheld
  <2>4. GrantFacts(c)'
    BY <2>1 DEF GrantFacts, Granted, Made
  <2> QED BY <2>3, <2>4
<1> QED BY <1>1, <1>2 DEF IInv, CallFacts

LEMMA StatusStep ==
  ASSUME IInv, NEW k \in Key, Status(k)
  PROVE  IInv'
<1>1. /\ Made(k) /\ Unheld(<<"profile", k[1]>>)
      /\ UNCHANGED <<now, keys, settings, intents, call>>
  BY DEF Status
<1>2. PICK answer \in {"granted", "expired", told[k]} :
        /\ told' = [told EXCEPT ![k] = answer]
        /\ answer = "granted" => Granted(k) \/ answer = told[k]
        /\ answer = "expired" => \/ answer = told[k]
                                 \/ ~Granted(k) /\ Expires(intents[k]) <= now
  BY DEF Status
<1>3. TypeOK /\ Records /\ GrantedOnce /\ KeyFacts
  BY DEF IInv
<1>4. told'[k] = answer /\ (\A l \in Key \ {k} : told'[l] = told[l])
      /\ told' \in [Key -> {"nothing", "granted", "expired"}]
  BY <1>2, <1>3 DEF TypeOK
<1>5. TypeOK' /\ GrantedOnce' /\ KeyFacts'
  BY <1>1, <1>3, <1>4 DEF TypeOK, GrantedOnce, Granted, Made, KeyFacts, keys, settings
<1>6. Records'
  <2>1. \A l \in Key : (Made(l)' <=> Made(l)) /\ (Granted(l)' <=> Granted(l))
    BY <1>1 DEF Made, Granted
  <2>2. \A l \in Key : told'[l] # "nothing" => Made(l)'
    BY <1>1, <1>3, <1>4, <2>1 DEF Records
  <2>3. \A l \in Key : told'[l] = "expired" => ~Granted(l)' /\ Expires(intents[l])' <= now'
    BY <1>1, <1>2, <1>3, <1>4, <2>1 DEF Records, Expires
  <2>4. \A l \in Key : told'[l] = "granted" => Granted(l)'
    BY <1>2, <1>3, <1>4, <2>1 DEF Records
  <2>5. \A l \in Key : Granted(l)' => \/ access'[<<l[1], intents'[l].episode>>] # "none"
                                      \/ <<l[1], intents'[l].episode>> \in revoked'
    BY <1>1, <1>3, <2>1 DEF Records, settings
  <2> QED BY <2>2, <2>3, <2>4, <2>5 DEF Records
<1>7. \A c \in Calls : call[c].stage = "commit" /\ call[c].kind = "grant" =>
        call[c].key \in Key /\ call[c].key # k
  BY <1>1, GrantHolds DEF Unheld
<1> QED BY <1>1, <1>4, <1>5, <1>6, <1>7, AroundStep DEF settings

LEMMA ClockStep ==
  ASSUME IInv, Tick
  PROVE  IInv'
<1>1. /\ now' = now + 1 /\ now < Horizon
      /\ UNCHANGED <<keys, settings, intents, told, call>>
  BY DEF Tick
<1>2. now \in Nat /\ now' \in Times
  BY <1>1, RewardsAssumption DEF IInv, TypeOK, Times
<1>3. TypeOK'
  BY <1>1, <1>2 DEF IInv, TypeOK, keys, settings
<1>4. GrantedOnce'
  BY <1>1 DEF IInv, GrantedOnce, Granted, Made, settings
<1>5. KeyFacts'
  <2>1. cache.at \in Nat
    BY DEF IInv, TypeOK, Times
  <2> QED BY <1>1, <1>2, <2>1 DEF IInv, KeyFacts, keys
<1>6. Records'
  <2>1. \A k \in Key : told[k] = "expired" => Expires(intents[k]) \in Int
    BY MadeIntent, RewardsAssumption DEF IInv, Records, Expires, Intent, Times
  <2>2. \A k \in Key : told'[k] = "expired" => ~Granted(k)' /\ Expires(intents[k])' <= now'
    BY <1>1, <1>2, <2>1 DEF IInv, Records, Granted, Made, Expires
  <2>3. \A k \in Key : told'[k] # "nothing" => Made(k)'
    BY <1>1 DEF IInv, Records, Made
  <2>4. \A k \in Key : told'[k] = "granted" => Granted(k)'
    BY <1>1 DEF IInv, Records, Granted, Made
  <2>5. \A k \in Key : Granted(k)' => \/ access'[<<k[1], intents'[k].episode>>] # "none"
                                      \/ <<k[1], intents'[k].episode>> \in revoked'
    BY <1>1 DEF IInv, Records, Granted, Made, settings
  <2> QED BY <2>2, <2>3, <2>4, <2>5 DEF Records
<1> QED BY <1>1, <1>3, <1>4, <1>5, <1>6, AroundStep DEF settings

LEMMA RotateStep ==
  ASSUME IInv, NEW k \in SigningKeys, Rotate(k)
  PROVE  IInv'
<1>1. UNCHANGED <<now, cache, settings, intents, told, call>>
  BY DEF Rotate
<1>2. TypeOK'
  BY <1>1 DEF IInv, TypeOK, Rotate, settings
<1>3. cache.keys \subseteq SigningKeys /\ cache.at \in Int
  BY DEF IInv, TypeOK, Times
<1>4. KeyFacts'
  BY <1>1, <1>3 DEF IInv, TypeOK, KeyFacts, Rotate
<1> QED BY <1>1, <1>2, <1>4, RecordsStay, AroundStep DEF settings, IInv

\* Consent, terms and availability: nobody's access changes.
LEMMA SettingsStep ==
  ASSUME IInv, \/ \E u \in Users : SetConsent(u)
               \/ \E e \in Episodes, t \in Terms : EditTerms(e, t)
               \/ \E e \in Episodes : ChangeAvailability(e)
  PROVE  IInv'
<1>1. UNCHANGED <<now, keys, profile, access, revoked, intents, told, call>>
  BY DEF SetConsent, EditTerms, ChangeAvailability
<1>2. TypeOK'
  <2>1. CASE \E u \in Users : SetConsent(u)
    BY <1>1, <2>1 DEF IInv, TypeOK, SetConsent, keys
  <2>2. CASE \E e \in Episodes, t \in Terms : EditTerms(e, t)
    BY <1>1, <2>2 DEF IInv, TypeOK, EditTerms, keys
  <2>3. CASE \E e \in Episodes : ChangeAvailability(e)
    BY <1>1, <2>3 DEF IInv, TypeOK, ChangeAvailability, keys
  <2> QED BY <2>1, <2>2, <2>3
<1>3. Records' /\ GrantedOnce'
  BY <1>1 DEF IInv, Records, GrantedOnce, Granted, Made, Expires
<1>4. KeyFacts'
  BY <1>1 DEF IInv, KeyFacts, keys
<1>5. ASSUME NEW c \in Calls, call[c].stage = "commit", call[c].kind = "grant"
      PROVE  /\ call[c].key[1] \in consent => call[c].key[1] \in consent'
             /\ terms'[call[c].callback.custom[3]] = terms[call[c].callback.custom[3]]
  <2>1. /\ <<"profile", call[c].key[1]>> \in call[c].held
        /\ <<"episode", call[c].callback.custom[3]>> \in call[c].held
    BY <1>5, GrantHolds
  <2>2. CASE \E u \in Users : SetConsent(u)
    BY <2>1, <2>2 DEF SetConsent, Unheld
  <2>3. CASE \E e \in Episodes, t \in Terms : EditTerms(e, t)
    BY <2>1, <2>3 DEF EditTerms, Unheld, IInv, TypeOK
  <2>4. CASE \E e \in Episodes : ChangeAvailability(e)
    BY <2>4 DEF ChangeAvailability
  <2> QED BY <2>2, <2>3, <2>4
<1> QED BY <1>1, <1>2, <1>3, <1>4, <1>5, AroundStep

LEMMA ChangeAccessStep ==
  ASSUME IInv, NEW u \in Users, NEW e \in Episodes, NEW s \in Sources, ChangeAccess(u, e, s)
  PROVE  IInv'
<1>1. /\ UNCHANGED <<now, keys, profile, consent, terms, playable, intents, told, call>>
      /\ access' = [access EXCEPT ![<<u, e>>] = s] /\ Unheld(<<"profile", u>>)
      /\ \/ s # "none" /\ revoked' = revoked
         \/ s = "none" /\ revoked' = revoked \cup {<<u, e>>}
  BY DEF ChangeAccess
<1>2. TypeOK /\ Records /\ GrantedOnce
  BY DEF IInv
<1>3. /\ access' \in [Users \X Episodes -> Sources] /\ access'[<<u, e>>] = s
      /\ \A q \in Users \X Episodes : q # <<u, e>> => access'[q] = access[q]
  BY <1>1, <1>2 DEF TypeOK
<1>4. TypeOK'
  BY <1>1, <1>2, <1>3 DEF TypeOK, keys
<1>5. revoked \subseteq revoked'
  BY <1>1
<1>6. GrantedOnce'
  BY <1>1, <1>2, <1>5 DEF GrantedOnce, Granted, Made
<1>7. KeyFacts'
  BY <1>1 DEF IInv, KeyFacts, keys
<1>8. ASSUME NEW k \in Key, Granted(k)'
      PROVE  \/ access'[<<k[1], intents'[k].episode>>] # "none"
             \/ <<k[1], intents'[k].episode>> \in revoked'
  <2>1. Granted(k) /\ intents'[k] = intents[k]
    BY <1>1, <1>8 DEF Granted, Made
  <2>2. <<k[1], intents[k].episode>> \in Users \X Episodes
    BY <1>2, <2>1, MadeIntent, KeyFields DEF Granted, Intent
  <2>3. \/ access[<<k[1], intents[k].episode>>] # "none"
        \/ <<k[1], intents[k].episode>> \in revoked
    BY <1>2, <2>1 DEF Records
  <2>4. CASE <<k[1], intents[k].episode>> = <<u, e>>
    BY <1>1, <1>3, <2>1, <2>4
  <2>5. CASE <<k[1], intents[k].episode>> # <<u, e>>
    BY <1>3, <1>5, <2>1, <2>2, <2>3, <2>5
  <2> QED BY <2>4, <2>5
<1>9. Records'
  BY <1>1, <1>2, <1>8 DEF Records, Granted, Made, Expires
<1>10. \A c \in Calls : call[c].stage = "commit" /\ call[c].kind = "grant" =>
         access'[<<call[c].key[1], call[c].callback.custom[3]>>]
           = access[<<call[c].key[1], call[c].callback.custom[3]>>]
  BY <1>1, <1>3, GrantHolds DEF Unheld
<1> QED BY <1>1, <1>4, <1>6, <1>7, <1>9, <1>10, AroundStep

\* A deletion takes the intents, answers and entitlements of nobody who is locked.
LEMMA DeleteStep ==
  ASSUME IInv, \/ \E u \in Users : DeleteAccount(u)
               \/ \E e \in Episodes : DeleteEpisode(e)
  PROVE  IInv'
<1>1. PICK U \in SUBSET Users, E \in SUBSET Episodes :
        /\ profile' = [v \in Users |-> IF v \in U THEN "deleted" ELSE profile[v]]
        /\ terms' = [f \in Episodes |-> IF f \in E THEN "deleted" ELSE terms[f]]
        /\ playable' \subseteq playable
        /\ \A v \in U : Unheld(<<"profile", v>>)
        /\ \A f \in E : Unheld(<<"episode", f>>)
        /\ intents' = [k \in Key |-> IF Made(k) /\ (k[1] \in U \/ intents[k].episode \in E)
                                     THEN NoIntent ELSE intents[k]]
        /\ told' = [k \in Key |-> IF Made(k) /\ (k[1] \in U \/ intents[k].episode \in E)
                                  THEN "nothing" ELSE told[k]]
        /\ access' = [q \in Users \X Episodes |-> IF q[1] \in U \/ q[2] \in E
                                                 THEN "none" ELSE access[q]]
        /\ UNCHANGED <<now, keys, consent, revoked, call>>
  <2>1. ASSUME NEW u \in Users, DeleteAccount(u)
        PROVE  /\ profile' = [v \in Users |-> IF v \in {u} THEN "deleted" ELSE profile[v]]
               /\ terms' = [f \in Episodes |-> IF f \in {} THEN "deleted" ELSE terms[f]]
               /\ playable' \subseteq playable
               /\ \A v \in {u} : Unheld(<<"profile", v>>)
               /\ intents' = [k \in Key |-> IF Made(k) /\ (k[1] \in {u} \/ intents[k].episode \in {})
                                            THEN NoIntent ELSE intents[k]]
               /\ told' = [k \in Key |-> IF Made(k) /\ (k[1] \in {u} \/ intents[k].episode \in {})
                                         THEN "nothing" ELSE told[k]]
               /\ access' = [q \in Users \X Episodes |-> IF q[1] \in {u} \/ q[2] \in {}
                                                        THEN "none" ELSE access[q]]
               /\ UNCHANGED <<now, keys, consent, revoked, call>>
    BY <2>1 DEF DeleteAccount, Cascade, IInv, TypeOK
  <2>2. ASSUME NEW e \in Episodes, DeleteEpisode(e)
        PROVE  /\ profile' = [v \in Users |-> IF v \in {} THEN "deleted" ELSE profile[v]]
               /\ terms' = [f \in Episodes |-> IF f \in {e} THEN "deleted" ELSE terms[f]]
               /\ playable' \subseteq playable
               /\ \A f \in {e} : Unheld(<<"episode", f>>)
               /\ intents' = [k \in Key |-> IF Made(k) /\ (k[1] \in {} \/ intents[k].episode \in {e})
                                            THEN NoIntent ELSE intents[k]]
               /\ told' = [k \in Key |-> IF Made(k) /\ (k[1] \in {} \/ intents[k].episode \in {e})
                                         THEN "nothing" ELSE told[k]]
               /\ access' = [q \in Users \X Episodes |-> IF q[1] \in {} \/ q[2] \in {e}
                                                        THEN "none" ELSE access[q]]
               /\ UNCHANGED <<now, keys, consent, revoked, call>>
    BY <2>2 DEF DeleteEpisode, Cascade, IInv, TypeOK
  <2>3. CASE \E u \in Users : DeleteAccount(u)
    <3>1. PICK u \in Users : DeleteAccount(u)
      BY <2>3
    <3>2. {u} \in SUBSET Users /\ {} \in SUBSET Episodes
      OBVIOUS
    <3> QED BY <2>1, <3>1, <3>2
  <2>4. CASE \E e \in Episodes : DeleteEpisode(e)
    <3>1. PICK e \in Episodes : DeleteEpisode(e)
      BY <2>4
    <3>2. {} \in SUBSET Users /\ {e} \in SUBSET Episodes
      OBVIOUS
    <3> QED BY <2>2, <3>1, <3>2
  <2> QED BY <2>3, <2>4
<1>2. TypeOK /\ Records /\ GrantedOnce
  BY DEF IInv
<1>3. TypeOK'
  <2>1. profile' \in [Users -> {"active", "deleted"}] /\ terms' \in [Episodes -> Terms \cup {"deleted"}]
    BY <1>1, <1>2 DEF TypeOK
  <2>2. intents' \in [Key -> Intent \cup {NoIntent}] /\ told' \in [Key -> {"nothing", "granted", "expired"}]
    BY <1>1, <1>2 DEF TypeOK
  <2>3. access' \in [Users \X Episodes -> Sources]
    BY <1>1, <1>2 DEF TypeOK, Sources
  <2>4. playable' \subseteq Episodes
    BY <1>1, <1>2 DEF TypeOK
  <2> QED BY <1>1, <1>2, <2>1, <2>2, <2>3, <2>4 DEF TypeOK, keys
<1>4. ASSUME NEW k \in Key, Made(k)'
      PROVE  /\ intents'[k] = intents[k] /\ Made(k) /\ (Granted(k)' <=> Granted(k))
             /\ told'[k] = told[k] /\ k[1] \notin U /\ intents[k].episode \notin E
  BY <1>1, <1>4 DEF Made, Granted
<1>5. \A k \in Key : ~Made(k)' => told'[k] = "nothing"
  BY <1>1, <1>2 DEF Made, Records
<1>6. Records'
  <2>1. \A k \in Key : told'[k] # "nothing" => Made(k)'
    BY <1>5
  <2>2. \A k \in Key : told'[k] = "expired" => ~Granted(k)' /\ Expires(intents'[k]) <= now'
    BY <1>1, <1>2, <1>4, <2>1 DEF Records
  <2>3. \A k \in Key : told'[k] = "granted" => Granted(k)'
    BY <1>2, <1>4, <2>1 DEF Records
  <2>4. ASSUME NEW k \in Key, Granted(k)'
        PROVE  \/ access'[<<k[1], intents'[k].episode>>] # "none"
               \/ <<k[1], intents'[k].episode>> \in revoked'
    <3>1. Made(k)' /\ Granted(k)
      BY <1>4, <2>4 DEF Granted
    <3>2. intents'[k] = intents[k] /\ k[1] \notin U /\ intents[k].episode \notin E
      BY <1>4, <3>1
    <3>3. <<k[1], intents[k].episode>> \in Users \X Episodes
      BY <1>2, <3>1, MadeIntent, KeyFields DEF Granted, Intent
    <3>4. access'[<<k[1], intents[k].episode>>] = access[<<k[1], intents[k].episode>>]
      BY <1>1, <3>2, <3>3
    <3> QED BY <1>1, <1>2, <3>1, <3>2, <3>4 DEF Records
  <2> QED BY <2>1, <2>2, <2>3, <2>4 DEF Records, Expires
<1>7. GrantedOnce'
  BY <1>1, <1>2, <1>4 DEF GrantedOnce, Granted
<1>8. KeyFacts'
  BY <1>1 DEF IInv, KeyFacts, keys
<1>9. \A v \in Users : profile[v] = "active" => profile'[v] = "active" \/ Unheld(<<"profile", v>>)
  BY <1>1
<1>10. ASSUME NEW c \in Calls, call[c].stage = "commit", call[c].kind = "grant"
       PROVE  LET k == call[c].key
                  e == call[c].callback.custom[3] IN
              /\ intents'[k] = intents[k]
              /\ k[1] \in consent => k[1] \in consent'
              /\ terms'[e] = terms[e]
              /\ access'[<<k[1], e>>] = access[<<k[1], e>>]
              /\ told'[k] = "expired" => told[k] = "expired"
  <2> DEFINE k == call[c].key
             e == call[c].callback.custom[3]
  <2>1. /\ k \in Key /\ k[1] \in Users /\ e \in Episodes /\ k[1] \notin U /\ e \notin E
    BY <1>1, <1>10, GrantHolds DEF Unheld
  <2>2. intents[k].episode = e
    BY <1>10 DEF IInv, CallFacts, GrantFacts
  <2> HIDE DEF k, e
  <2>3. access'[<<k[1], e>>] = access[<<k[1], e>>]
    BY <1>1, <2>1
  <2>4. intents'[k] = intents[k] /\ told'[k] = told[k] /\ terms'[e] = terms[e]
    BY <1>1, <2>1, <2>2
  <2> QED BY <1>1, <2>3, <2>4 DEF k, e
<1> QED BY <1>1, <1>3, <1>6, <1>7, <1>8, <1>9, <1>10, AroundStep

LEMMA StepInvariant == IInv /\ [Next]_vars => IInv'
<1> SUFFICES ASSUME IInv, [Next]_vars PROVE IInv'
  OBVIOUS
<1>1. ASSUME NEW c \in Calls, NEW k \in Key, NEW e \in Episodes, NEW a \in Units,
             Accept(c, k, e, a)
      PROVE  IInv'
  BY <1>1, AcceptStep
<1>2. ASSUME NEW c \in Calls, NEW d \in Callbacks, NEW k \in SigningKeys, NEW a \in Units,
             Receive(c, d, k, a)
      PROVE  IInv'
  BY <1>2, ReceiveStep
<1>3. ASSUME NEW c \in Calls,
             DecideCreation(c) \/ LockViewer(c) \/ DecideGrant(c) \/ Commit(c) \/ Crash(c)
      PROVE  IInv'
  <2>1. CASE Crash(c)
    BY <2>1, EndStep DEF Crash
  <2> QED BY <1>3, <2>1, DecideCreationStep, LockViewerStep, DecideGrantStep, CommitStep
<1>4. CASE (\E k \in Key : Status(k)) \/ Tick \/ \E k \in SigningKeys : Rotate(k)
  BY <1>4, StatusStep, ClockStep, RotateStep
<1>5. CASE \/ \E u \in Users : SetConsent(u)
           \/ \E e \in Episodes, t \in Terms : EditTerms(e, t)
           \/ \E e \in Episodes : ChangeAvailability(e)
  BY <1>5, SettingsStep
<1>6. CASE \/ \E u \in Users : DeleteAccount(u)
           \/ \E e \in Episodes : DeleteEpisode(e)
  BY <1>6, DeleteStep
<1>7. CASE \E u \in Users, e \in Episodes, s \in Sources : ChangeAccess(u, e, s)
  BY <1>7, ChangeAccessStep
<1>8. CASE UNCHANGED vars
  <2>1. /\ UNCHANGED <<now, published, withdrawn, cache, settings, intents, told, call>>
        /\ UNCHANGED <<profile, consent, terms, playable, access, revoked>>
    BY <1>8 DEF vars, keys, settings
  <2>2. TypeOK' /\ KeyFacts'
    BY <2>1 DEF IInv, TypeOK, KeyFacts
  <2> QED BY <2>1, <2>2, RecordsStay, AroundStep DEF IInv
<1> QED BY <1>1, <1>2, <1>3, <1>4, <1>5, <1>6, <1>7, <1>8 DEF Next

\* The strengthened invariant holds in every state.
THEOREM Invariant == Spec => []IInv
<1>1. Init => IInv
  BY InitInvariant
<1>2. IInv /\ [Next]_vars => IInv'
  BY StepInvariant
<1> QED BY <1>1, <1>2, PTL DEF Spec

\* Every row, setting and record of a call is of its kind in every state (TypeOK).
THEOREM TypeCorrect == Spec => []TypeOK
<1>1. IInv => TypeOK
  BY DEF IInv
<1> QED BY <1>1, Invariant, PTL

\* One ad opens one episode, and an episode is opened again only after staff took it
\* away (GrantedOnce).
THEOREM OneGrant == Spec => []GrantedOnce
<1>1. IInv => GrantedOnce
  BY DEF IInv
<1> QED BY <1>1, Invariant, PTL

\* An intent that the app was told is expired is never granted, and one it was told is
\* granted stays so (AnswersStand).
THEOREM AnswersAreFinal == Spec => []AnswersStand
<1>1. IInv => AnswersStand
  BY DEF IInv, Records, AnswersStand
<1> QED BY <1>1, Invariant, PTL

\* Only a commit makes an intent or changes one.
LEMMA CommitAlone ==
  ASSUME IInv, [Next]_vars, NEW k \in Key, intents'[k] # intents[k], intents'[k] # NoIntent
  PROVE  \E c \in Calls : Commit(c) /\ call[c].key = k
<1>1. ASSUME NEW u \in Users
      PROVE  ~DeleteAccount(u)
  BY DEF DeleteAccount, Cascade
<1>2. ASSUME NEW e \in Episodes
      PROVE  ~DeleteEpisode(e)
  BY DEF DeleteEpisode, Cascade
<1>3. PICK c \in Calls : Commit(c)
  BY <1>1, <1>2 DEF Next, vars, Accept, Receive, DecideCreation, LockViewer, DecideGrant, Crash,
     Status, Tick, Rotate, SetConsent, EditTerms, ChangeAvailability, ChangeAccess
<1>4. call[c].key = k
  BY <1>3 DEF Commit, IInv, TypeOK
<1> QED BY <1>3, <1>4

\* A reward is granted to a viewer who is live, allows ads and had no access, under
\* the accepted terms, for the intent's own ad (GrantsAreFair).
THEOREM FairGrants == Spec => GrantsAreFair
<1> DEFINE Fair(k) ==
      LET e == intents[k].episode IN
      /\ profile[k[1]] = "active"
      /\ k[1] \in consent
      /\ terms[e] = intents[k].terms
      /\ terms[e] \in Offering
      /\ access[<<k[1], e>>] = "none"
      /\ \E d \in Callbacks : /\ d.custom = <<k[1], k[2], e>>
                              /\ d.ssv = d.custom
                              /\ d.unit = intents[k].unit
                              /\ intents'[k].grant = <<d.txn, d.stamp>>
<1>1. ASSUME IInv, [Next]_vars, NEW k \in Key, Granted(k)', ~Granted(k)
      PROVE  Fair(k)
  <2>1. intents'[k] # intents[k] /\ intents'[k] # NoIntent /\ intents'[k].grant # NoGrant
    BY <1>1 DEF Granted, Made
  <2>2. PICK c \in Calls : Commit(c) /\ call[c].key = k
    BY <1>1, <2>1, CommitAlone
  <2> DEFINE w == call[c].write
             d == call[c].callback
             e == EpisodeOf(c)
  <2>3. intents' = [intents EXCEPT ![k] = w] /\ profile[k[1]] = "active"
    BY <1>1, <2>2, CommitWrites
  <2>4. intents'[k] = w
    BY <1>1, <2>3 DEF IInv, TypeOK
  <2>5. /\ call[c].kind = "grant" /\ GrantFacts(c) /\ e = d.custom[3] /\ d \in Callbacks
        /\ k = <<d.custom[1], d.custom[2]>> /\ w.grant = <<d.txn, d.stamp>>
    BY <1>1, <2>1, <2>2, <2>4, CommitWrites
  <2>6. call[c].stage = "commit"
    BY <2>2 DEF Commit
  <2>7. /\ intents[k].episode = e /\ d.ssv = d.custom /\ d.unit = intents[k].unit
        /\ k[1] \in consent /\ terms[e] = intents[k].terms /\ terms[e] \in Offering
        /\ access[<<k[1], e>>] = "none"
    BY <2>2, <2>5, <2>6 DEF GrantFacts
  <2>8. d.custom = <<k[1], k[2], e>>
    BY <2>5, RewardsAssumption DEF Callback, Custom
  <2> QED BY <2>3, <2>4, <2>5, <2>7, <2>8
<1>2. IInv /\ [Next]_vars => \A k \in Key : Granted(k)' /\ ~Granted(k) => Fair(k)
  BY <1>1
<1>3. Spec => [][\A k \in Key : Granted(k)' /\ ~Granted(k) => Fair(k)]_vars
  BY <1>2, Invariant, PTL DEF Spec
<1> QED BY <1>3 DEF GrantsAreFair

\* A key that the network withdrew is believed for less than a cache's lifetime
\* (KeysAreFresh).
THEOREM FreshlySigned == Spec => KeysAreFresh
<1> DEFINE A == \A c \in Calls : call[c] = Idle /\ call'[c] # Idle /\ call'[c].kind = "grant" =>
                  LET k == call'[c].signer IN k \in published \/ now - withdrawn[k] < MaxAge
<1>1. ASSUME IInv, [Next]_vars, NEW c \in Calls,
             call[c] = Idle, call'[c] # Idle, call'[c].kind = "grant"
      PROVE  LET k == call'[c].signer IN k \in published \/ now - withdrawn[k] < MaxAge
  <2>1. call[c].stage = "idle" /\ call' # call
    BY <1>1 DEF Idle
  <2>2. ASSUME NEW o \in Calls, NEW k \in Key, NEW e \in Episodes, NEW a \in Units,
               Accept(o, k, e, a)
        PROVE  FALSE
    <3>1. call'[o].kind = "create" /\ \A j \in Calls \ {o} : call'[j] = call[j]
      BY <1>1, <2>2 DEF Accept, IInv, TypeOK
    <3> QED BY <1>1, <3>1
  <2>3. ASSUME NEW o \in Calls,
               DecideCreation(o) \/ LockViewer(o) \/ DecideGrant(o) \/ Commit(o) \/ Crash(o)
        PROVE  FALSE
    <3>1. call[o] # Idle
      BY <2>3 DEF DecideCreation, LockViewer, DecideGrant, Commit, Crash, Idle
    <3>2. PICK x : call' = [call EXCEPT ![o] = x]
      BY <2>3 DEF DecideCreation, LockViewer, DecideGrant, Commit, Crash, End, Take
    <3> QED BY <1>1, <3>1, <3>2 DEF IInv, TypeOK
  <2>4. PICK o \in Calls, d \in Callbacks, k \in SigningKeys, a \in Units : Receive(o, d, k, a)
    BY <1>1, <2>1, <2>2, <2>3 DEF Next, vars, Status, Tick, Rotate, SetConsent, EditTerms,
       ChangeAvailability, ChangeAccess, DeleteAccount, DeleteEpisode, Cascade
  <2>5. PICK fresh \in KeyCaches(k) :
          k \in fresh.keys /\ Start(o, d, k, a, {<<"transaction", d.txn>>})
    BY <2>1, <2>4 DEF Receive
  <2>6. o = c /\ call'[c].signer = k
    BY <1>1, <2>5 DEF Start, IInv, TypeOK
  <2>7. k \in published \/ now - withdrawn[k] < MaxAge
    <3>1. k \in published \/ withdrawn[k] >= fresh.at
      BY <1>1, <2>5, FreshKeys
    <3>2. CASE fresh = [keys |-> published, at |-> now]
      BY <2>5, <3>2
    <3>3. CASE fresh = cache /\ now - cache.at < MaxAge
      <4>1. cache.at \in Int /\ withdrawn[k] \in Int /\ now \in Int /\ MaxAge \in Int
        BY <1>1, RewardsAssumption DEF IInv, TypeOK, Times
      <4> QED BY <3>1, <3>3, <4>1
    <3>4. fresh = [keys |-> published, at |-> now] \/ (fresh = cache /\ now - cache.at < MaxAge)
      <4>1. now - cache.at \in Int /\ MaxAge \in Int
        BY <1>1, RewardsAssumption DEF IInv, TypeOK, Times
      <4> QED BY <2>5, <4>1 DEF KeyCaches, Fetched
    <3> QED BY <3>2, <3>3, <3>4
  <2> QED BY <2>6, <2>7
<1>2. IInv /\ [Next]_vars => A
  BY <1>1
<1>3. Spec => [][A]_vars
  BY <1>2, Invariant, PTL DEF Spec
<1> QED BY <1>3 DEF KeysAreFresh
=============================================================================
