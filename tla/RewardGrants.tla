---------------------------- MODULE RewardGrants ----------------------------
(***************************************************************************)
(* Rewarded ads: backend/apps/advertising.  A viewer accepts an offer and  *)
(* gets an intent for one episode; the ad network reports the watched ad   *)
(* in a signed callback, late, repeated or with somebody else's data; the  *)
(* callback grants the episode for ever.  The app polls its intent.        *)
(*                                                                         *)
(* A creation and a callback are transactions that take locks one after    *)
(* the other; a status is read under all of its locks and is one step.     *)
(* Rights expire by the clock and need no lock.                            *)
(***************************************************************************)
EXTENDS Integers

CONSTANTS
  Users, Episodes, Requests,
  Units,      \* ad units the deployed processes are configured with
  Txns,       \* transaction ids of the ad network
  Terms,      \* policy versions, which are hashes of an episode's terms
  Offering,   \* the terms under which an ad opens the episode
  Initially,  \* the terms of every episode at first
  SigningKeys,\* the ad network's verifier keys
  Callbacks,  \* the callbacks the ad network may sign
  Wishes,     \* the intents that viewers may ask for
  Calls,
  Lifetime,   \* of an intent: 15 minutes
  Early,      \* an ad may precede its intent by this: 1 second
  Ahead,      \* the network's clock may be ahead by this: 60 seconds
  MaxAge,     \* of the cached keys: 23 hours
  Pause,      \* before an unknown key is looked up again: 60 seconds
  Horizon     \* bound of the clock

Times == 0 .. Horizon
Stamps == 0 .. Horizon + Ahead + 1
Key == Users \X Requests
Custom == Users \X Requests \X Episodes \* custom_data, one per intent ever made
NoGrant == <<>>
Intent == [episode: Episodes, unit: Units, terms: Terms, created: Times,
           grant: {NoGrant} \cup Txns \X Stamps]
NoIntent == [episode |-> "none"]
Callback == [custom: Custom, ssv: Custom, unit: Units, txn: Txns, stamp: Stamps]

ASSUME RewardsAssumption ==
  /\ {Lifetime, MaxAge, Pause} \subseteq Nat \ {0}
  /\ {Early, Ahead, Horizon} \subseteq Nat
  /\ Offering \subseteq Terms
  /\ Initially \in Terms
  /\ Callbacks \subseteq Callback
  /\ Wishes \subseteq Custom

VARIABLES
  now,
  published,  \* the keys on the network's list
  withdrawn,  \* when a key was last taken off the list
  cache,      \* a process's verifier keys and when they were fetched
  profile,    \* active or deleted
  consent,    \* users who allow ads
  terms,      \* the terms of an episode, or deleted
  playable,   \* episodes with rights, publication and media
  access,     \* the source of a user's entitlement to an episode
  revoked,    \* entitlements that staff have taken away
  intents,
  told,       \* the final answer a polling app was given
  call

settings == <<profile, consent, terms, playable, access, revoked>>
keys == <<published, withdrawn, cache>>
vars == <<now, keys, settings, intents, told, call>>

Sources == {"none", "rewarded_ad", "staff", "coin"}
Idle == [stage |-> "idle", held |-> {}]
Locks == {"transaction"} \X Txns \cup {"profile"} \X Users \cup {"episode"} \X Episodes
\* write is the row the transaction is about to write, from the start or once it is decided.
Creation == [stage: {"episode", "commit"}, held: SUBSET Locks,
             kind: {"create"}, key: Key, write: Intent]
Granting == [stage: {"profile", "episode", "commit"}, held: SUBSET Locks,
             kind: {"grant"}, key: Key, unit: Units, callback: Callbacks,
             signer: SigningKeys, write: Intent \cup {NoIntent}]

TypeOK ==
  /\ now \in Times
  /\ published \subseteq SigningKeys
  /\ withdrawn \in [SigningKeys -> Times]
  /\ cache \in [keys: SUBSET SigningKeys, at: Times]
  /\ profile \in [Users -> {"active", "deleted"}]
  /\ consent \subseteq Users
  /\ terms \in [Episodes -> Terms \cup {"deleted"}]
  /\ playable \subseteq Episodes
  /\ access \in [Users \X Episodes -> Sources]
  /\ revoked \subseteq Users \X Episodes
  /\ intents \in [Key -> Intent \cup {NoIntent}]
  /\ told \in [Key -> {"nothing", "granted", "expired"}]
  /\ call \in [Calls -> Creation \cup Granting \cup {Idle}]

Init ==
  /\ now = 0
  /\ published = SigningKeys
  /\ withdrawn = [k \in SigningKeys |-> 0]
  /\ cache = [keys |-> {}, at |-> 0]
  /\ profile = [u \in Users |-> "active"]
  /\ consent = Users
  /\ terms = [e \in Episodes |-> Initially]
  /\ playable = Episodes
  /\ access = [p \in Users \X Episodes |-> "none"]
  /\ revoked = {}
  /\ intents = [k \in Key |-> NoIntent]
  /\ told = [k \in Key |-> "nothing"]
  /\ call = [c \in Calls |-> Idle]

-----------------------------------------------------------------------------
Made(k) == intents[k] # NoIntent
Granted(k) == Made(k) /\ intents[k].grant # NoGrant
Expires(i) == i.created + Lifetime
EpisodeOf(c) == IF call[c].kind = "create" THEN call[c].write.episode
                ELSE call[c].callback.custom[3]

\* pg_advisory_xact_lock and SELECT ... FOR UPDATE: nobody else holds the name.
Free(c, name) == \A o \in Calls \ {c} : name \notin call[o].held
Unheld(name) == \A c \in Calls : name \notin call[c].held

End(c) == call' = [call EXCEPT ![c] = Idle]
Take(c, name, stage) == call' = [call EXCEPT ![c].stage = stage, ![c].held = @ \cup {name}]

\* Mutant of OfferAvailable: an ad is offered for what the viewer already has.
OfferToOwners(u, e) == u \in consent /\ e \in playable /\ terms[e] \in Offering

\* offer_available: ads are allowed, the episode can be watched, an ad opens it
\* and nothing has yet.
OfferAvailable(u, e) ==
  /\ u \in consent
  /\ e \in playable
  /\ terms[e] \in Offering
  /\ access[<<u, e>>] = "none"

-----------------------------------------------------------------------------
(* POST /v1/rewards: create_reward_intent. *)

\* A viewer accepts an offer.  Their profile is locked; a repeated request then
\* gets its intent back, or 409 if it names another episode.
Accept(c, k, e, a) ==
  /\ call[c] = Idle
  /\ <<k[1], k[2], e>> \in Wishes
  /\ Free(c, <<"profile", k[1]>>)
  /\ profile[k[1]] = "active"
  /\ ~Made(k)
  /\ terms[e] # "deleted"
  /\ call' = [call EXCEPT ![c] =
       [stage |-> "episode", held |-> {<<"profile", k[1]>>}, kind |-> "create", key |-> k,
        write |-> [episode |-> e, unit |-> a, terms |-> terms[e], created |-> now,
                   grant |-> NoGrant]]]
  /\ UNCHANGED <<now, keys, settings, intents, told>>

\* The intent is for the terms on sale now; a request that names other terms than
\* these is refused.
DecideCreation(c) ==
  LET e == EpisodeOf(c)
      u == call[c].key[1] IN
  /\ call[c].stage = "episode"
  /\ call[c].kind = "create"
  /\ Free(c, <<"episode", e>>)
  /\ \E agreed \in BOOLEAN :
       IF OfferAvailable(u, e) /\ agreed
       THEN call' = [call EXCEPT ![c].stage = "commit", ![c].held = @ \cup {<<"episode", e>>},
              ![c].write = [@ EXCEPT !.terms = terms[e], !.created = now]]
       ELSE End(c)
  /\ UNCHANGED <<now, keys, settings, intents, told>>

-----------------------------------------------------------------------------
(* GET /v1/rewards/admob/ssv: verify_callback and grant_verified_reward. *)

\* Mutant of Fetched: a list that could not be fetched counts as fetched.
FetchedOrKept == {[keys |-> published, at |-> now], [cache EXCEPT !.at = now]}

\* fetch_key_document: the list replaces the cache whole, and an empty list is
\* refused.
Fetched == IF published = {} THEN {} ELSE {[keys |-> published, at |-> now]}

\* _public_key, under the process's lock.  When the list cannot be had the
\* callback is answered 503 and the cache stays as it is.
KeyCaches(k) ==
  IF \/ cache.keys = {}
     \/ now - cache.at >= MaxAge
     \/ k \notin cache.keys /\ now - cache.at >= Pause
  THEN Fetched ELSE {cache}

\* custom_data finds its intent, read before it is locked.
Found(d) == LET k == <<d.custom[1], d.custom[2]>> IN
            Made(k) /\ intents[k].episode = d.custom[3]

Start(c, d, k, a, held) ==
  call' = [call EXCEPT ![c] =
    [stage |-> "profile", held |-> held, kind |-> "grant",
     key |-> <<d.custom[1], d.custom[2]>>, unit |-> a, callback |-> d,
     signer |-> k, write |-> NoIntent]]

\* A callback with a good signature starts a transaction; one ad's callbacks wait
\* for each other, whoever they are for.  A callback with an unknown key (even if
\* that is for the pause) or an unknown intent is refused.
Receive(c, d, k, a) ==
  /\ call[c] = Idle
  /\ d.stamp <= now + Ahead + 1
  /\ \E fresh \in KeyCaches(k) :
       /\ cache' = fresh
       /\ \/ /\ k \in fresh.keys
             /\ Free(c, <<"transaction", d.txn>>)
             /\ Found(d)
             /\ Start(c, d, k, a, {<<"transaction", d.txn>>})
          \/ UNCHANGED call
  /\ UNCHANGED <<now, published, withdrawn, settings, intents, told>>

\* Mutant of LockViewer: the profile is read without its lock.
ReadViewer(c) ==
  /\ call[c].stage = "profile"
  /\ IF profile[call[c].key[1]] = "deleted"
     THEN End(c)
     ELSE call' = [call EXCEPT ![c].stage = "episode"]
  /\ UNCHANGED <<now, keys, settings, intents, told>>

LockViewer(c) ==
  LET u == call[c].key[1] IN
  /\ call[c].stage = "profile"
  /\ Free(c, <<"profile", u>>)
  /\ IF profile[u] = "deleted" THEN End(c) ELSE Take(c, <<"profile", u>>, "episode")
  /\ UNCHANGED <<now, keys, settings, intents, told>>

\* Mutant of Timely: the callback may arrive at any time.
TimelyAd(i, stamp) == i.created - Early <= stamp /\ stamp < Expires(i) /\ stamp <= now + Ahead

\* The ad was watched while the intent was open, and it still is.
Timely(i, stamp) ==
  /\ i.created - Early <= stamp
  /\ stamp < Expires(i)
  /\ now < Expires(i)
  /\ stamp <= now + Ahead

\* Everything grant_verified_reward asks of an intent that is not granted yet.
Earned(c, i) ==
  LET d == call[c].callback IN
  /\ d.ssv = d.custom
  /\ d.unit = i.unit
  /\ i.unit = call[c].unit
  /\ i.grant = NoGrant
  /\ Timely(i, d.stamp)
  /\ \A k \in Key : Granted(k) => intents[k].grant[1] # d.txn
  /\ i.terms = terms[i.episode]
  /\ OfferAvailable(call[c].key[1], i.episode)

\* The intent's row is locked with the episode's: only holders of its viewer's
\* lock take it.  A repeated callback is acknowledged and changes nothing.
DecideGrant(c) ==
  LET e == EpisodeOf(c)
      k == call[c].key IN
  /\ call[c].stage = "episode"
  /\ call[c].kind = "grant"
  /\ Free(c, <<"episode", e>>)
  /\ IF Found(call[c].callback) /\ Earned(c, intents[k])
     THEN call' = [call EXCEPT ![c].stage = "commit", ![c].held = @ \cup {<<"episode", e>>},
            ![c].write = [intents[k] EXCEPT !.grant =
                            <<call[c].callback.txn, call[c].callback.stamp>>]]
     ELSE End(c)
  /\ UNCHANGED <<now, keys, settings, intents, told>>

\* The unique constraints on the request of a profile and on the ad's id.
DatabaseAccepts(c) ==
  /\ call[c].kind = "create" => ~Made(call[c].key)
  /\ call[c].kind = "grant" =>
       \A k \in Key : Granted(k) => intents[k].grant[1] # call[c].callback.txn

\* Entitlement and intent are one transaction.
Commit(c) ==
  /\ call[c].stage = "commit"
  /\ DatabaseAccepts(c)
  /\ intents' = [intents EXCEPT ![call[c].key] = call[c].write]
  /\ access' = IF call[c].kind = "grant"
               THEN [access EXCEPT ![<<call[c].key[1], EpisodeOf(c)>>] = "rewarded_ad"]
               ELSE access
  /\ End(c)
  /\ UNCHANGED <<now, keys, profile, consent, terms, playable, revoked, told>>

\* The worker dies: everything is rolled back.
Crash(c) ==
  /\ call[c] # Idle
  /\ End(c)
  /\ UNCHANGED <<now, keys, settings, intents, told>>

-----------------------------------------------------------------------------
(* GET /v1/rewards/{id}: reward_status, under the same locks. *)

\* Mutant of Status: every answer ends the app's polling.
StatusFinal(k) ==
  /\ Made(k)
  /\ profile[k[1]] = "active"
  /\ Unheld(<<"profile", k[1]>>)
  /\ Unheld(<<"episode", intents[k].episode>>)
  /\ told' = [told EXCEPT ![k] = IF Granted(k) THEN "granted" ELSE "pending"]
  /\ UNCHANGED <<now, keys, settings, intents, call>>

Status(k) ==
  /\ Made(k)
  /\ profile[k[1]] = "active"
  /\ Unheld(<<"profile", k[1]>>)
  /\ Unheld(<<"episode", intents[k].episode>>)
  /\ told' = [told EXCEPT ![k] =
       IF Granted(k) THEN "granted"
       ELSE IF Expires(intents[k]) <= now THEN "expired" ELSE @]
  /\ UNCHANGED <<now, keys, settings, intents, call>>

-----------------------------------------------------------------------------
(* Around it. *)

Tick ==
  /\ now < Horizon
  /\ now' = now + 1
  /\ UNCHANGED <<keys, settings, intents, told, call>>

\* The ad network rotates its keys.
Rotate(k) ==
  /\ \/ /\ k \in published
        /\ published' = published \ {k}
        /\ withdrawn' = [withdrawn EXCEPT ![k] = now]
     \/ /\ k \notin published
        /\ published' = published \cup {k}
        /\ UNCHANGED withdrawn
  /\ UNCHANGED <<now, cache, settings, intents, told, call>>

\* PATCH /v1/me updates the profile's row.
SetConsent(u) ==
  /\ profile[u] = "active"
  /\ Unheld(<<"profile", u>>)
  /\ consent' = IF u \in consent THEN consent \ {u} ELSE consent \cup {u}
  /\ UNCHANGED <<now, keys, profile, terms, playable, access, revoked, intents, told, call>>

EditTerms(e, t) ==
  /\ terms[e] \notin {t, "deleted"}
  /\ Unheld(<<"episode", e>>)
  /\ terms' = [terms EXCEPT ![e] = t]
  /\ UNCHANGED <<now, keys, profile, consent, playable, access, revoked, intents, told, call>>

ChangeAvailability(e) ==
  /\ terms[e] # "deleted"
  /\ playable' = IF e \in playable THEN playable \ {e} ELSE playable \cup {e}
  /\ UNCHANGED <<now, keys, profile, consent, terms, access, revoked, intents, told, call>>

\* Staff give or take, the wallet sells; a sale is not taken back.
ChangeAccess(u, e, source) ==
  /\ profile[u] = "active"
  /\ terms[e] # "deleted"
  /\ Unheld(<<"profile", u>>)
  /\ Unheld(<<"episode", e>>)
  /\ \/ access[<<u, e>>] = "none" /\ source \in {"staff", "coin"} /\ UNCHANGED revoked
     \/ /\ access[<<u, e>>] \notin {"none", "coin"}
        /\ source = "none"
        /\ revoked' = revoked \cup {<<u, e>>}
  /\ access' = [access EXCEPT ![<<u, e>>] = source]
  /\ UNCHANGED <<now, keys, profile, consent, terms, playable, intents, told, call>>

\* Rows of a deleted profile or episode go with it.
Cascade(users, episodes) ==
  /\ intents' = [k \in Key |-> IF Made(k) /\ (k[1] \in users \/ intents[k].episode \in episodes)
                               THEN NoIntent ELSE intents[k]]
  /\ told' = [k \in Key |-> IF Made(k) /\ (k[1] \in users \/ intents[k].episode \in episodes)
                            THEN "nothing" ELSE told[k]]
  /\ access' = [p \in Users \X Episodes |-> IF p[1] \in users \/ p[2] \in episodes
                                             THEN "none" ELSE access[p]]
  /\ UNCHANGED <<now, keys, consent, revoked, call>>

DeleteAccount(u) ==
  /\ profile[u] = "active"
  /\ Unheld(<<"profile", u>>)
  /\ profile' = [profile EXCEPT ![u] = "deleted"]
  /\ Cascade({u}, {})
  /\ UNCHANGED <<terms, playable>>

DeleteEpisode(e) ==
  /\ terms[e] # "deleted"
  /\ Unheld(<<"episode", e>>)
  /\ terms' = [terms EXCEPT ![e] = "deleted"]
  /\ playable' = playable \ {e}
  /\ Cascade({}, {e})
  /\ UNCHANGED profile

-----------------------------------------------------------------------------
Next ==
  \/ \E c \in Calls :
       \/ \E k \in Key, e \in Episodes, a \in Units : Accept(c, k, e, a)
       \/ \E d \in Callbacks, k \in SigningKeys, a \in Units : Receive(c, d, k, a)
       \/ DecideCreation(c) \/ LockViewer(c) \/ DecideGrant(c)
       \/ Commit(c) \/ Crash(c)
  \/ \E k \in Key : Status(k)
  \/ Tick
  \/ \E k \in SigningKeys : Rotate(k)
  \/ \E u \in Users : SetConsent(u) \/ DeleteAccount(u)
  \/ \E e \in Episodes : \/ \E t \in Terms : EditTerms(e, t)
                         \/ ChangeAvailability(e) \/ DeleteEpisode(e)
  \/ \E u \in Users, e \in Episodes, s \in Sources : ChangeAccess(u, e, s)

Spec == Init /\ [][Next]_vars

-----------------------------------------------------------------------------
(* Properties. *)

\* When a reward is granted its viewer is live, allows ads and had no access,
\* the terms are still the ones that were accepted, and the ad was the intent's
\* own: whatever changed since the callback was received.
GrantsAreFair ==
  [][\A k \in Key : Granted(k)' /\ ~Granted(k) =>
       LET e == intents[k].episode IN
       /\ profile[k[1]] = "active"
       /\ k[1] \in consent
       /\ terms[e] = intents[k].terms
       /\ terms[e] \in Offering
       /\ access[<<k[1], e>>] = "none"
       /\ \E d \in Callbacks : /\ d.custom = <<k[1], k[2], e>>
                               /\ d.ssv = d.custom
                               /\ d.unit = intents[k].unit
                               /\ intents'[k].grant = <<d.txn, d.stamp>>]_vars

\* One ad opens one episode, and an episode is opened again only after staff took
\* it away.
GrantedOnce ==
  \A k, l \in Key : k # l /\ Granted(k) /\ Granted(l) =>
    /\ intents[k].grant[1] # intents[l].grant[1]
    /\ k[1] = l[1] /\ intents[k].episode = intents[l].episode =>
         <<k[1], intents[k].episode>> \in revoked

\* What a polling app was told stays true: no late callback grants an intent that
\* was reported expired, and no granted one is lost.
AnswersStand ==
  \A k \in Key : /\ told[k] = "expired" => ~Granted(k)
                 /\ told[k] = "granted" => Granted(k)

\* A key that the network withdrew is believed for less than a cache's lifetime,
\* however often its list cannot be fetched.
KeysAreFresh ==
  [][\A c \in Calls : call[c] = Idle /\ call'[c] # Idle /\ call'[c].kind = "grant" =>
       LET k == call'[c].signer IN k \in published \/ now - withdrawn[k] < MaxAge]_vars
=============================================================================
