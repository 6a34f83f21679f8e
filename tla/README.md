# A TLA+ model of Stovio's money, access and media

Stovio streams short series. A viewer watches an episode that is free, that a
rewarded ad unlocked, or that coins paid for; coins are bought through Google
Play and RevenueCat; staff upload masters to Bunny Stream through the Django
Admin. The backend (`src/backend`, Django on PostgreSQL) keeps all the state
that matters and is called by several gunicorn workers with several threads
each, by provider webhooks that repeat and reorder, and by a mobile app
(`src/mobile`) that retries. This directory models the parts where an
interleaving, a retry or a lost answer could cost somebody money or access.

## 1. Inventory

| Component (source) | State | Operations | Talks to | What is hard | What makes it correct |
|---|---|---|---|---|---|
| Coin wallet (`apps/wallet`) | wallets, append-only ledger, unlock receipts, cancellations | `unlock_episode`, `resolve_unlock`, balance, activity | accounts, catalog, entitlements under one lock order; database triggers | racing calls, retries with the same id, price edits, expiring rights, deletion | one outcome per request; no unfair or double charge |
| Entitlements and policy (`apps/entitlements`) | permanent entitlements, policy inputs | decide access, offer methods, staff grant and revoke | wallet, rewards, catalog | staff and payments write the same row | paid access is never lost or relabelled |
| Catalog (`apps/catalog`) | series, seasons, episodes, rights, translations, policy revisions | editorial saves, publication, deletion, eligibility | everyone who locks a series | one answer is made of several queries; rights expire by the clock, without a lock | nothing is shown or sold that was not on offer |
| Purchases (`apps/commerce`) | application bindings, purchase identities, decisions, event receipts | webhook, synchronize, recover, `fulfill`, history, status | RevenueCat, wallet, accounts | late, repeated, contradicting deliveries; processes with different registries; lookups outside transactions | credited once, to the buyer, only if verified; refunds show |
| Coin packs (`apps/commerce/packs.py`) | packs with live windows | offers, credited coins | purchases | a pack ends or is turned off between page, payment and callback | never fewer coins than were shown |
| Media ingest (`apps/playback`) | one row per upload with a state machine; videos at the provider | add form, signed upload, complete, submit, reconcile, takedown, cascade | Bunny Stream, object storage | minutes of provider I/O outside or inside transactions | removed stays removed; ready can be played; no video is forgotten |
| Playback authorization (`apps/playback/views.py`) | none | authorize, sign a URL | catalog, entitlements, media | the video is looked up after the decision | what is played was licensed |
| Rewarded ads (`apps/advertising`) | reward intents, each process's verifier keys | create, status, verified callback | AdMob, entitlements | late, repeated and mixed-up callbacks, expiry, policy edits, key rotation | one grant per verified ad |
| Accounts (`apps/accounts`) | profiles, deletion receipts | sign-in, PATCH, deletion, retries | Firebase, every owner of a profile | deletion races everything; clean-up is outside the database | a deleted account never returns |
| Authentication, App Check, request boundaries (`apps/accounts`, `backend/config`) | whether Firebase Admin started | verify a token, a device, an app, a body | Firebase | a failed start is remembered | only the app reaches the views |
| Progress (`apps/progress`) | one row per viewer and episode | upsert, retention, continue watching | accounts | concurrent first writes | one row; completed is sticky |
| Callback bridges, health, settings (`backend/config`) | none | forward, check | providers | lost and repeated forwards | stateless |
| Mobile coin unlock (`features/wallet`, `autoUnlock.ts`) | a journal in SecureStore | unlock, resolve, auto-unlock | wallet API | the app dies between marker, call and clean-up; sign-out in between | never two debits for one intention |
| Mobile checkout (`features/purchases`) | a pending attempt, the completed purchase | load, purchase, sync | store SDK, purchase API | payment completes, the answer is lost | a paid purchase is never forgotten or repeated |
| Mobile rewards (`features/rewards`) | one pending attempt | request, show, poll | ad SDK, reward API | one slot for all episodes | an earned reward can be resumed |
| Mobile session, consent, analytics | tokens, consent, queue | refresh, sign out, track | Firebase | refresh races sign-out | nothing is sent for a previous owner |
| API client, infrastructure, scripts, UI | | | | generated, deployment, presentation | not modelled |

The hazards of this code, each with its line and the properties aimed at it, are
the `hazards` of `PROJECT.json`; one without a property says why.

## 2. Modules

`X` is a component, `MCX` its instance for TLC, `X_proofs` its theorems.

| Module | Component | How it is used |
|---|---|---|
| `CoinWallet`, `CoinAccount` | coin wallet | `CoinWallet` implements `CoinAccount` |
| `WalletActivity` | activity page | operators, instantiated by `MCCoinWallet` |
| `Purchases` | verified purchases | |
| `CoinPacks` | offers and credited coins | decides the coins that `Purchases` credits |
| `RewardGrants` | rewarded ads | |
| `Catalog` | catalog, access policy, playback | |
| `BunnyStream`, `MediaIngest` | provider adapter, media | `MediaIngest` extends `BunnyStream` |
| `Authentication`, `Accounts` | request checks; accounts, deletion, progress | `Accounts` extends `Authentication` |
| `ContinueWatching` | resume list | operators, instantiated by `MCAccounts` |
| `Phone` | the session of the app | extended by the next two |
| `MobileUnlock` | unlock screen, auto-unlock, their journal | extended by `MCShop` |
| `MobileCheckout` | purchase checkout and its marker | extended by `MCShop`, beside `CoinPacks`; `Phone_proofs` has the theorems of both |

The modules of the backend follow one convention. A transaction is a record in `call` (or
`post`, `edit`) with the stage it is at, what it has read and the locks it
holds. A step takes the next lock, reads what the code reads under it and
decides; the commit writes everything at once. A transaction that takes all its
locks before it reads and shows nothing in between is one step. `Crash` is the
death of a worker: what its transaction wrote is rolled back, what a provider
did stays.

### CoinWallet and CoinAccount

| Action | Code |
|---|---|
| `Begin` | a request arrives with a request id and the terms the viewer confirmed |
| `LockAccount` | `lock_current_profile`: advisory lock, profile row, refusal after deletion; early refusals of `unlock_episode` |
| `LockCatalog` | `lock_episode_for_access` and eligibility |
| `LockWallet` | the wallet row, then every decision of lines 81-104 |
| `CommitUnlock`, `CommitCancellation` | the inserts, under the triggers and constraints of the migrations |
| `Answer` | every refusal, and the receipt a retry finds |
| `Crash` | the worker dies, or the client's answer is lost before the commit: rollback |
| `CreditPurchase`, `GrantAccess`, `RevokeAccess`, `EditPolicy`, `DeleteEpisode`, `ChangeAvailability`, `DeleteAccount` | every other transaction that writes what a call reads, one atomic step each, enabled only when the locks it takes are free |

A policy version is a SHA-256 of an episode's editorial inputs; the model uses
the inputs. Two inputs with one hash are not modelled. The ledger is the two sums that
`wallet_balance` adds up. `call[c].legacy` is a writer of the previous release,
which the migrations' triggers are there for: it does not look for
cancellations. Corrections to the ledger exist as a kind of entry but no code
creates one. The wallet row, made on first use by `get_or_create` under the
account lock, exists from the start. Rights that expire, publication and the
state of the media change without the lock of the series; `ChangeAvailability`
is therefore never blocked.

`CoinAccount` is the promise without locks or calls: a request ends once, coins
leave only for an episode the account does not have and can pay for, a closed
account does not change. `CoinWallet` instantiates it with a refinement mapping
(`Account`) and the run checks `ImplementsAccount`.

`WalletActivity` is the page of the latest entries as a function of the ledger:
the order of the query, the running balance, the episodes that are named and the
`ValueError` of a balance out of range.

### Purchases

`Purchases` models a delivery: a webhook (`Receive`), a synchronization that
the app asks for (`SynchronizePurchase`), or a recovery by fingerprint
(`RecoverPurchase`, then `RecoverTransaction` once the provider's page has
exactly one match). `LookUp` asks the provider outside any transaction. Then
`fulfill` is taken lock by lock, each advisory lock in a step of its own
(`LockEvent`, `LockApp`, `LockApplication`, `LockRaw`, `LockTransaction`,
`LockOwner`), up to `Commit`, which writes the binding, the
decision, the credit and the event receipt together. The store (`Sell`,
`Refund`), `ObtainIdentity` and `DeleteAccount` surround it.
`PurchaseHistory` and `PurchaseStatus` are what the owner is told.

- A digest is the tuple it digests; a hash collision, which would only make two
  deliveries wait for each other (locks) or be taken for one (keys), is left out.
- Each process has a registry of products, an element of `Registries`, fixed
  when the process starts: during a deployment, processes of several run
  side by side.
- `Settings` are the deployment's; which requests are answered and whether the
  provider is asked follow from them (`ReconciliationEnabled`, `TestMode`,
  `CallbacksTaken`). In test mode the code does no lookup and takes deliveries
  at their word.
- A purchase identity is a random UUID that nobody can name before it exists
  (`Named`). This matters: the existence of the owner is read
  without a lock in `process_notification` and decides whether a claim is looked
  up. A claim for an identity that comes into being between this read and
  `fulfill` would be credited without a lookup; it cannot be made, because the
  identity is unguessable.
- `Facts` are the purchases the provider can confirm, `Deliveries` the webhooks
  it may send, right or wrong. A webhook's digest, quantity and identity checks are
  one flag, `sound`.
- `LockRaw` looks for history under the provider's own name (`Barred`), which goes
  before anything under the application's name that `LockTransaction` finds.
- `Crash` also stands for an insert refused by the ledger trigger (balance limit).

### CoinPacks

Staff add packs (`Add` checks the form with no lock, `Insert` saves) and turn
them off (`Open`, `Switch` with the stamp of `CoinPack.save`, `Commit` under the
trigger). The form looks at the floor only where the process can read the registry
of products (`FormIsClean`), so a pack may be below it. A buyer loads the offers (`Ask`, `Show`, `ShowFloor`: the time is
taken before the query, and the floor is offered only after a second one), pays
(`Pay`, stamped by the store's clock) and is credited by a callback at any later
time (`Credit`). `Saving` bounds the time from the stamp of a save to its
commit; a pack retired by a stamp that the page did not see yet is why
the promise needs a margin of it. A pack without a start starts at 0, one
without an end ends at `Never`.

### RewardGrants

`Accept` and `DecideCreation` are `create_reward_intent`, `Receive`,
`LockViewer` and `DecideGrant` a callback, `Commit` either's writes, `Status` the
app's poll. A callback is in turn refused for its signature (`KeyCaches`: the process's
keys are refetched on age and, at most once a minute, for an unknown key; the
list replaces the cache whole), or finds its intent without a lock, waits for
viewer and episode, and is then checked against everything as it is. `Timely`
has the four bounds of its times: at most `Early` before the intent, before the
end of the intent by both clocks, at most `Ahead` of the server's. Around it the
clock, the network's keys, consent, terms, rights, staff, the wallet and
deletions change. A policy version is a member of `Terms`.

### Catalog

One series with its episodes, rights, media, translations and segments. A post
of staff is one transaction with several forms, an element of `Posts`: a row of its
own page, or the page of the series followed by its segments (`save_m2m`) and its
inlines (`save_formset`). `Begin` takes the lock of the series and validates all forms
together, as Django does; `SaveForm` checks the next form again, against the tables
as the transaction sees them (`View`), and saves it, a policy with its revision; `Refuse`
rolls back, `Commit` writes and cascades. What was saved before is not checked
again when the rest of the page is, as in the code.

A viewer's request for a page, offers or playback is `Load`, `TakeTime`,
`QuerySeries`, `QuerySegment`, `QueryRights`, `QueryEpisode`, `Decide` and `Mint`: no
lock, and each query sees its own moment. The gate is there twice, as in the code:
`EligibleSeries` is the SQL, `SeriesIsAdmitted` the Python, in two queries. A scope is
a set of codes; `Normalized` is the spelling a right is saved with. `seen` records
what was true at some moment of a request, for the properties only.

The media are those of `MediaIngest` in short. `Ingest` accepts a master for an
admitted series; `StartPoll` looks at the admission with the captions the row says
it has, and `FinishPoll`, after the provider's answer and without the lock of the
series, writes whether there are captions and with them the state. A video can thus
become ready with captions whose language nobody looked up.

### MediaIngest and BunnyStream

`MediaIngest` models the rows of one episode, the provider's videos, and the three
requests that read a row before they lock it. The Admin's add form runs in the transaction of
Django's `changeform_view`, its rows invisible until it ends: `Add`, `Insert`
or `Expire` and `Clear`, `Read`, `Submit`, `Save`. A form error raised as a
message commits what the transaction wrote (`Settle`); an error that names a
model field the form does not have is a `ValueError` and rolls it back.
`complete_staff_upload` claims its row in a transaction of its own and then
reads, submits and saves in autocommit. The page of a row shows only read-only
fields, but its Save button makes Django read the instance, without a lock, and
write every column of it back in the same request (`LoadPage`, `SavePage`).
`Reconcile`, `Takedown`, `BeginUpload`
and `DeleteEpisode` hold their row's lock from the read to the commit and are one
step each. `DeleteEpisode` deletes the videos one by one (`signals.py:12`): if the
provider refuses one the rows stay, and those deleted before are gone. The Admin's views and selections are the actions that wrap them.
`Index` is the unique index over in-flight rows, on which concurrent writers
wait. `staff` is a variable of the model, not of the code, chosen once: staff
who work alone wait for each request, which separates what the code guarantees
in sequence from what concurrency breaks; `Kinds` says which of the three
requests staff make, so that each finding is shown by the request that causes it.

`BunnyStream` computes what can come of a submission, a poll and a deletion from
the replies to the adapter's HTTP requests; `Submit`, `Encode` and `Takedown` draw from
`Submissions`, `Readings` and `Deletions`.

### Accounts, Authentication, ContinueWatching

`Accounts` has profiles, deletion receipts, the provider's users and the
progress rows. `SignIn` verifies a header with `Authentication` and makes the
profile unless the identity is deleted. `StartPut`, `LookUp`, `Create`, `Get`,
`Save` are the upsert with Django's `get_or_create`, its conflict and its
deferred foreign key (`ResolveCompleted` also says no for an episode without a
duration); `StartDeletion`, `RequestDeletion`, `CommitDeletion`,
`LockReceipt`, `DeleteFirebaseUser` and `Complete` a deletion, whose middle
(`ProviderFails`) may fail; `Retry`, `LockExpired`, `DeleteExpired` the
operators' commands. `old` is the twelve months of the retention. Receipts are in
the order of their commits, where the code orders them by a time taken just before;
one user in the run has only one of them.

`Authentication` has what the middleware and the authentication classes ask of
a request: body, App Check token, Firebase token, device id. A header is the
way it is written and the credential in it. The settings refuse to start a server
whose mode is neither `mock` nor `admin`, so `ImproperlyConfigured` has no branch. `ContinueWatching` is the resume
list as a function of the rows.

### MobileUnlock and MobileCheckout

One phone (`Phone`), whose session `MobileUnlock` and `MobileCheckout` share. What is
stored stays when the app dies (`AppDies`, `CheckoutDies`); tasks and screens do
not. Such a death, a write the storage refuses, a sign-out and another sign-in
(`ViewerSignsOut`, `ViewerSignsIn`, `OwnerSignsOut`, `OwnerSignsIn`) may come
between any two steps. Sign-out takes the right to write from the screens that
are open; whatever they had started goes on.

`MobileUnlock` has the two records of an attempt, the profile's journal and the
episode's marker. `storageOperation` runs one operation on them at a time:
`queue` is the task between its two writes, `WriteJournal` then `WriteMarker`, or
`ClearMarker` then `ClearJournal`; the checks before the first write are part of
it, as nothing can come between. `OpenScreen` is `load`, `Read` what it reads,
`Spend`, `Check`, `Unanswers` and `Receive` the buttons and their answers;
`AutoUnlock` is `tryUnlock` of the player up to its first write. The debit is
sent with the marker (the end of `WriteMarker`), for the account that is signed in
then. The server is what `CoinAccount` says of a request: open, then completed or
cancelled for good; `debits` and `checks` are requests on their way, however
late. `Legacy` are markers of a release before the journal.

`MobileCheckout` is the coordinator of a screen of packs: `Load`, `Purchase` with
`Write`, `AskStore`, `Result`, `RecordFingerprint`, `Verify` and `Clear`, and `Sync`
for an attempt of before. `Operating` is the flag of the process. A payment is
`asked` until the store ends it, at any time (`StoreEnds`), and `paid` until the
server credits it (`CreditPayment`) or flags it (`Review`).

## 3. Runs

| Run | Instance | What it shows |
|---|---|---|
| `coin_wallet` | 1 user, 1 episode, 2 request ids, 2 calls, 3 policies, pack of 2, maximum 3 | the safety of the wallet and the refinement |
| `coin_wallet_live` | 2 users, 1 series, 2 calls, nothing to spend | every call ends |
| `purchases` | sandbox mode, 2 users, 1 transaction, 4 webhooks (repeated, reused id, refund, wrong owner), synchronization and recovery, 2 calls | credits are verified, receipted and frozen after deletion; refunds show |
| `purchases_registries` | test mode, 3 apps, 3 applications, 4 registries, 3 webhooks (purchase, refund, the purchase under another app), 2 calls | one credit per transaction under any name; every earlier record is a barrier; every delivery ends |
| `purchases_removal` | the app is removed from the registry | **violation**: a refund is not shown |
| `media` | staff together: 2 rows, 1 checksum; alone: 3 rows, 2 checksums; 2 videos, 2 requests of any kind | together: ready was encoded, takedown fails closed; alone: legal transitions, nothing is forgotten |
| `media_removed` | 1 row, 1 video | **violation**: removed media comes back |
| `media_ready` | 1 row, 2 videos | **violation**: ready without a video |
| `rewards` | 2 viewers, 2 episodes, 3 intents, 4 callbacks, 2 calls, one signing key, a clock of 2 | one fair grant per ad; answers stand; keys are fresh |
| `accounts` | a user and a guest, 2 calls, an operator, reports below the start and at 95 %; one user, so the order and the `Limit` of the retry command decide nothing | deletion is final and completes; progress is one sticky row |
| `catalog` | 1 episode, 1 right, 2 staff, 11 posts of up to two forms, 3 requests, captions in 2 languages, a clock of 1 | publication, trail, answers, refusals and playback |
| `shop` | packs: 2, 2 staff, a buyer, a window and a clock of 3; phone: 2 accounts, one with auto-unlock, 2 episodes, 3 request ids (one of the release before), a screen and a player; 2 attempts to pay, 2 screens of packs | what was shown is credited; an unlock that may be charged or went unheard is recoverable and alone; a payment under way is marked |

Bounds. Two calls are enough for each race listed among the hazards: every one is
between a call and one other actor, and the other actors (staff, store,
deletion) are separate actions. Two request ids are what it takes to pay twice
or to cancel one and complete the other. The price change needs a free, a cheap and a
dearer policy; a pack of 2 and a maximum of 3 allow a purchase to be refused by
the limit and a balance to fall below either price. One store transaction is
enough for purchases: two transactions share only the owner's locks, which
`coin_wallet_live` contends. Four registries are before, with, application
moved, and app moved; a registry is never empty (`load_products`), so "before" lists
another app. `purchases_registries` is in test mode, where no lookup
is made: what the provider's late answers may do is left to `purchases` and to the
proofs, which are for every mode. The third row of staff who work alone lets a failed upload be
repeated after a takedown. Two intents of one viewer for one episode, with two
ads, are what a second grant needs, and the ad of another viewer with the first
one's transaction what a shared ad needs; `FewChanges` lets one thing happen
around the first viewer. In `catalog` the right is there, ends, or loses its captions
while the series changes hands or is taken down, and one page publishes the series
and deletes the right it rests on, another publishes it with an episode. `FewChanges`: an
answer ends a behaviour, as the next request starts afresh, and captions in the
other language come only with a video that replaces one during a request. `PostsAlone`:
while a post is pending no request moves, as a post shows nothing before its commit;
what a request sees is decided by where the commits fall between its queries. A window of 3 with a saving of 1 separates
`<` from `<=` at both of its ends; a buyer pays once. The three packs staff may add are
two that overlap and one below the floor. `MCShop` is a sum: its
three parts share no variable but the session, which only the two of the phone
use, so a behaviour is one of one of them (`part`). A screen and a player are what two
unlocks of one account need, two episodes what a second marker needs, a fresh id
for each and a second account what a change of session needs; the last id is kept for the
account with auto-unlock (`FewRequests`). `MCX` modules hold these
bounds as definitions with a comment each. Symmetry is used for interchangeable
calls, requests, staff, videos and checksums in runs without liveness.

Deadlock is checked in `accounts`, `catalog` and `shop`. The other
instances may stop: when the account is deleted, every transaction decided and
every row used there is nothing to do. That no call waits for ever is what
`CallsEnd` shows, in two runs.

Pure functions are checked by assumptions that TLC evaluates in those runs, over
every small input: in `MCCoinWallet` that the activity page shows what the wallet
held (`ActivityIsHistory`) and when it does not (`SkewRefuses`), in
`MCAccounts` that the resume list is right (`ResumesAreRight`, against a
definition that says what the list should be and not how it is found), that only
the app reaches a view (`OnlyTheAppReachesViews`, `CallbacksNeedNoApp`) and
that the verifier's first start is final (`VerifierIsLatched`). The pages
of 20 entries and the list of 8 items are shortened to 2.

Fairness.

- `CoinWallet` and `Purchases` (`FairSpec`): strong fairness of each call's own
  next step and nothing of crashes, staff, clients or providers. PostgreSQL
  grants heavyweight and advisory locks from first-come queues, no
  `lock_timeout` is configured, and the transactions that hold a lock finish
  because each of their steps is a local query; so a waiting step that is enabled
  again and again is granted. A worker that runs is scheduled (2 workers with 4 threads each,
  `backend/docker-entrypoint.sh`). A lookup has a bounded time-out and ends as
  `LookUp` or `LookUpFails`. The other transactions that lock (staff, rewards,
  deletion) are one step each here, so `CallsEnd` is about the order of the calls
  themselves and of each advisory lock, not about a wrong order inside those. The
  gunicorn timeout that kills a worker is `Crash`, which
  also ends the call.
- `Accounts` (`FairSpec`): a running step is taken, the operators' command is run
  again and again (`docs/runbooks/account-lifecycle.md`), a receipt's lock is
  got, and the provider does not fail one user for ever. A command of `Limit`
  receipts takes the oldest first: without the last assumption a receipt that always fails
  keeps those behind it waiting, which the code does not rule out.

Each property of a passing run has a mutant, a plausible bug in a mapped
definition under which the same run fails on that property: a decision made
with no lock, a dropped guard, a trigger without its check, a record keyed by
the wrong thing, a provider call that fails open.

## 4. What is found

1. **A refund can be recorded apart from its credit**
   (`purchases_removal`, `commerce/services.py:160`). `fulfill` looks under the
   provider app's key and under the key of the application the registry of this
   process names. A process that no longer lists the app finds only the first.
   The refund gets a quarantined decision of its own, and the credit goes on as
   `credited`, where `docs/runbooks/revenuecat-sandbox.md` and
   `synthetic-purchases.md` say `review_required`.
2. **Removed media comes back** (`media_removed`, `playback/ingest.py:357`). The
   row is read, the provider is called for as long as it takes, and the
   instance is saved whole. A takedown in between is lost.
3. **Ready without a video** (`media_ready`, `playback/ingest.py:163`). The add form
   reuses a failed row it read without a lock; a reconciliation makes the row
   ready; the form deletes the video and blanks the id; a refusal of the title
   commits that.

Observations that contradict no written promise, seen while modelling:

- A post of the page of a media row reads the row and writes it back without a lock.
  If a completion commits in between, the post restores `pending_upload`, and a
  second completion submits the master again (`playback/admin.py:309`,
  `ingest.py:280`).
- A page of a series that publishes it and by its inlines deletes its only right, or
  by its form its segment, commits a published series that is not listed
  (`catalog/admin.py:48`): the series is checked when it is saved and not again. Viewers
  are refused it; `PublishedIsListed` leaves out such posts.
- A master accepted without captions whose video has captions at the provider becomes
  ready with a language that no right was looked up for (`ingest.py:371` checks
  with the row's old `has_captions`, `ingest.py:420` overwrites it). The queries of a
  viewer look the language up, so such a video is refused; only if it replaces
  another between the last query and `Mint` is it played, which
  `PlayedWasLicensed` excuses by name ("replaced").
- Rights that expire after an unlock was decided and before it commits are charged:
  the clock is not read again. The episode is paid for and cannot be watched.
- The cascade of an episode's deletion that the provider refuses half-way leaves rows,
  perhaps `ready`, whose videos are gone (`playback/signals.py:12`).
- The provider's "not found" during a submission escapes the handler at
  `ingest.py:346`; the row stays `uploaded` until it is reconciled or taken down.
- The activity page adds entries up in the order of their timestamps
  (`wallet/activity.py:44`). If the clock of the server that sold coins is ahead
  of the one that spent them, or both times are equal, the page can show a
  negative balance first and then fails for this wallet from then on.
- Two members of staff can add overlapping packs, as the form looks for others
  without a lock; the best is shown and all are honoured. A pack turned off
  before its start is still honoured for a day from then. The retirement stamp
  precedes its commit, so the window is short by the time of a save.
- A store clock behind the server's breaks the promise for a pack that was
  created just before the payment; the model lets it be ahead only.
- A stale page of a series can undo a takedown that another member of staff
  made since; the trail still says so. `PlayedWasLicensed` speaks of rights, not of windows:
  a request combines rows of different moments. `seed_catalog` writes no
  revision.
- A process whose Firebase Admin failed to start once answers 401 to every token
  until it restarts (`accounts/verification.py:120`), while App Check tries again.
- `tryUnlock` (`autoUnlock.ts:33`) does not look at the session between `getMe`
  and the unlock. If the viewer signs out and another signs in during these
  awaits, the unlock is sent with the new viewer's credential, who perhaps never
  turned auto-unlock on (its comment, line 18, speaks of "the signed-in viewer"),
  and is journaled under the first. The properties of `MobileUnlock` are about
  debits of the attempt's own account.
- An auto-unlock with any answer but ok, an ordinary refusal included, leaves its
  journal entry, and every other episode of the profile refuses to unlock until
  the screen of that episode is opened.
- A marker whose payment the app heard nothing more of (the app died before the
  store was asked, the payment was slow and then declined, the session changed
  under the sheet) has no fingerprint, so nothing on the phone can verify or clear
  it, and it blocks the owner's later purchases; `PaidIsMarked` is the safe half
  of that trade.

## 5. Proofs

Eight modules prove theorems for every value of the constants that satisfies the
named assumptions of their component, infinite sets of actors included. Every
property of a passing run is proved but the two of liveness (`RefundsFlagged`
under a hypothesis, see below). Hardly any of them is inductive; each proof
strengthens them to an invariant (`IInv` in most modules) that TLC checked on the
run's instance first, has one lemma per action, and derives action properties
and the refinement from that invariant and `[Next]_vars`.

- `CoinWallet_proofs`: `TypeCorrect`, `OneOutcome`, `PaidAccess`, `ChargedOnce`,
  `DecisionsCommit`, `ChargesAreFair`, `HistoryGrows`, `WalletImplementsAccount`.

      IInv == TypeOK /\ LocksMatchCalls /\ HoldersKnow /\ Records

  `LocksMatchCalls`: a call past a stage holds the locks of that stage, and who
  holds a lock is at such a stage. Two calls of one account can
  therefore not both be past `LockAccount`, nor can a staff step happen there.
  `HoldersKnow`: what a call found under its locks is still true while it holds
  them, except what the clock decides. `Records`: what receipts, cancellations
  and entitlements say together; it carries the safety properties from one commit
  to the next. `CommitUnlock` maps to `CompletePaid` or `CompleteFree`,
  `CommitCancellation` to `Cancel`; lock steps, refusals and crashes stutter.
- `Purchases_proofs`: `TypeCorrect`, `CreditsVerified`, `OneCredit`, `Barrier`,
  `Frozen`, `RefundsShow`, `CoinsAreReceipted`.

      IInv == TypeOK /\ LocksDisjoint /\ CallFacts /\ Records /\ CreditsAreVerified

  Each lock has a lemma of its own. A call that resolved its transaction's application
  holds the locks of app and application, taken in two steps, under which no binding can come to disagree (`KeyFacts`); what it
  found under both transaction locks is still so (`TransactionFacts`); its
  owner is active and locked (`CreditFacts`); and in sandbox mode whatever could be
  credited was confirmed (`VerifiedFacts`), which needs that an identity cannot be
  named before it exists. `Records`: app and application are bound to each
  other alone and only resolved names are credited. `OneCredit` is the
  consequence that two names of one transaction cannot both be credited.

  `RefundsShow` assumes `SameApps`: an app that one process lists is listed by
  every other with the same application, while products and prices may differ.
  Without it the property is false (finding 1). Under it a call that goes by the
  provider's name has found bindings that disagree for good (`Nameless`), so no
  second decision can be made beside a credit (`OneName`), and a refund attaches
  to what it refunds.

  `CoinsAreReceipted` needs sums over sets. The fold of the community modules is a
  recursive function; that it exists, adds up in any order (`CoinsOfAny`) and
  does not care for names (`CoinsRenamed`) is proved without an induction theorem,
  from the smallest subset that would be wrong (`SmallestSubset`).
- `RewardGrants_proofs`: `TypeCorrect`, `OneGrant`, `AnswersAreFinal`,
  `FairGrants`, `FreshlySigned`.

      IInv == TypeOK /\ LocksDisjoint /\ CallFacts /\ Records /\ GrantedOnce /\ KeyFacts

  A grant that was decided is still right when it commits (`GrantFacts`),
  because everything it asked of viewer, terms and access is behind a lock it holds, and
  a status, which takes the same locks, cannot have called the intent expired in
  between. A cached key was on the list when the list was fetched (`KeyFacts`).
- `CoinPacks_proofs`: `TypeCorrect`, `BuyersGetWhatTheySaw`.

      IInv == TypeOK /\ FormsChecked /\ (\A s \in Staff : PageIsFaithful(s)) /\
              PacksArePast /\ (\A b \in Buyers : BuyerIsInformed(b)) /\ ShownIsHonored

  There are no locks: `PageIsFaithful` says that an open page and the row differ
  only as the trigger allows, and `BuyerIsInformed` that the pack a buyer was shown
  is still there, at its price, and was not retired longer than a save before
  the page was loaded. That the largest of a finite set of coins exists is proved
  from the well-foundedness of strict inclusion.

- `Phone_proofs`, of `MobileCheckout`: `CheckoutTypeCorrect`, `PaymentsAreMarked`.
  An operation that runs is alone in the process and its attempt is the owner's
  marker from the write on, unless the payment was never asked for; only a
  refused or credited payment reaches `Clear`. Assumes that `None` is no account or
  attempt (`NoneIsNothing`).
- `Phone_proofs`, of `MobileUnlock`: `UnlockTypeCorrect`, `UnlocksAreRecoverable`,
  `OneUnlock`.

      UnlockInv == UnlockTypeOK /\ (\A t \in Tasks : TaskFacts(t)) /\ WritersAlone /\
                   StoresAreOwn /\ RequestsAreOwn /\ Kept

  `Kept` is the promise: an unanswered attempt is in its marker and, unless it is
  of the release before, in its journal. It is kept because a task writes and
  clears only when both records hold its own attempt or none (`TaskFacts`),
  nobody else has an attempt that is being written (`WritersAlone`), and what a
  task clears can be charged no more (`Done`): the answer it got was about its
  own request, which is used once and decided once (`RequestsAreOwn`). Assumes
  that the markers of before are well formed, one for an episode
  (`LegacyIsOld`).
- `MediaIngest_proofs`: `TypeCorrect`, `ReadyMediaWasEncoded`, `RemovedMediaIsGone`,
  `NothingIsForgotten`, `TransitionsAreLegal`.

      IInv == TypeOK /\ (\A c \in Calls : Busy(c) => StageFacts(c)) /\
              (\A x \in Copies : Sound(x)) /\ Apart

  The rows are written back whole from copies read long before, so the invariant
  is about all copies and not only the rows: what an old copy says of its video is
  still true (`Sound`), because the provider never takes back that a video was
  encoded or deleted. `Apart`: a video that was just made is known to its request
  alone. The two properties of staff who work alone rest on a second invariant
  (`AloneInv`), in which the copy a request works on is the row itself.
- `Accounts_proofs`: `TypeCorrect`, `DeletedForGood`, `LosersFindTheRow`,
  `CompletedForGood`.

      IInv == TypeOK /\ Apart /\ (\A c \in Running : Facts(call[c])) /\ DeletedStaysDeleted

  `Apart`: rows have one holder. `Facts`: a report that will be saved holds its row
  and its answer is not behind it (`SavesItsRow`), an insert is alone with its key, and
  a report that lost the insert lost it to a row newer than itself, which the
  retention job does not take (`LosesToNewRow`); whatever is deleted at the
  provider was recorded before (`DeletesRecorded`).
- `Catalog_proofs`: `TypeCorrect`, `TrailsAreTrue`, `AnswersAreAvailable`,
  `RefusalsHaveReasons`, `PlayedIsLicensed`, `PublishedStaysListed`.

      IInv == TablesInv /\ TrailInv /\ PostInv /\ CallInv

  `TablesInv`: the tables are sound, and stay so with the forms that a post has saved.
  `PostInv`: one post has the series; what each form found when it was saved is
  what the tables and the forms before it say (`Sees`), so that a post that leaves
  the rights and the segments alone commits what it checked. `TrailInv`: the last
  revision of each object is its row. `CallInv`: by
  the stage a request is at, what it has seen happen (`CallFacts`), from which
  what its answer claims follows (`AnswerFacts`). The request itself holds no
  lock; what it may claim is only that there was a moment.

Assumptions of the components beyond the ranges of their constants, and what
justifies them: a registry is not empty and lists an app, an application and a
product once, as `load_products` demands (`RegistriesAssumption`); app ids and
package names are different things (`ProviderAssumption`); headers fail as
`verify_firebase_token` lets them fail, and receipts are finitely many, being rows
(`Accounts`); the forms of staff have the columns of their tables, and normalizing
a scope gives a scope (`CatalogAssumption`); no row or video is the value that
stands for none.

Only model-checked: `CallsEnd` and `DeletionsComplete`, which are liveness under
fairness and out of the provers' reach, the findings, and the pure functions
(`ActivityIsHistory`, `ResumesAreRight` and the others evaluated as assumptions),
which are about small inputs only.

## 6. Plan

Done: every component in section 2, model-checked and proved.

What would come next:

1. `MobileReward` with its one slot; the refresh of a token against sign-out;
   consent and the analytics queue.
2. The row locks inside the cascades of an account and of an episode, which
   take the same entitlements, intents and progress rows in different orders.
3. Abstract specifications, with their refinement proved, for a purchase (a
   transaction is refused or credited once, then perhaps under review) and for a
   reward intent, as `CoinAccount` is for the wallet; the pure functions of
   `WalletActivity` and `ContinueWatching` for pages of any length.

## 7. Not modelled

Of the mobile app, all but its unlocks and its checkout: what the rest sends, in
any order and any number of times, is already a request that the backend's
modules allow. Its slot for a pending reward is a hint to poll again; its session
is one value, without the refresh of tokens; the synthetic checkout of
development builds is left out. Presentation, localization, the generated API client, infrastructure and
scripts; serializers and error formatting; signing of URLs, verification of
tokens and of callback signatures, which are good or not; lists of the
catalog (home, series), which are the same queries as the page of an episode;
seasons but one; seed and maintenance commands; the 20 rows of a purchase
history; object storage beyond the precondition that the uploaded object exists
and has its checksum; health checks and the parsing of the environment. Row locks inside
cascades are below the locks the models know. The callback bridges are
stateless forwarders for local development: a lost or repeated forward is what
`Receive` already allows.
