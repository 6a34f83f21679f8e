-------------------------------- MODULE Catalog --------------------------------
(***************************************************************************)
(* The catalog of backend/apps/catalog, with the access decisions of       *)
(* apps/entitlements and the playback answer of apps/playback: one series, *)
(* its episodes, rights and media, edited in Django Admin while viewers    *)
(* ask what they may watch.                                                *)
(*                                                                         *)
(* A post of staff is one transaction: it locks the series, checks its     *)
(* forms, and then checks and saves one after the other.  A request of a   *)
(* viewer takes no lock: it loads the rows, takes the time                 *)
(* and makes one query after the other, each of which sees the rows of its *)
(* own moment.  The media of an episode change as in MediaIngest.          *)
(***************************************************************************)
EXTENDS Integers, Sequences

CONSTANTS
  Episodes, Rights, Staff, Calls,
  Forms,      \* a row of a page: a table, the id of the row, and the row or NoRow
  Posts,      \* what staff post: the row of a page, then its segments and inlines
  Requests,   \* what viewers ask: a kind of request, who asks and an episode
  Valid,      \* the known codes of each dimension of a scope
  Normal,     \* the spelling a right is saved with, of each code
  Deployed,   \* the setting CATALOG_LAUNCH_CONTEXT
  StoreOf,    \* the storefront of each platform
  English,    \* the language of the rows' own title and synopsis
  Captions,   \* the languages that the captions of masters are said to have
  AdsMode,    \* the setting REWARDED_ADS_MODE
  CoinsOn,    \* coin_spending_enabled()
  Horizon     \* bound of the clock

Dimensions == {"territory", "platform", "storefront", "language"}
NoRow == [status |-> "no row"]
NoContext == [enabled |-> FALSE]
NoMedia == [state |-> "none", language |-> "none", captioned |-> FALSE]
Never == Horizon + 1  \* a window without an end
Times == 0 .. Horizon
Modes == {"inherit", "free", "rewarded_ad", "coin", "both"}
Objects == {"series"} \cup Episodes
Tables == [series |-> {"series"}, related |-> Objects, right |-> Rights, episode |-> Episodes]

\* The rows of the tables, of the columns that decide; codes as they may be typed.
Spellings == DOMAIN Normal
Status == {"draft", "published"}
SeriesRow ==
  [status: Status, takedown: BOOLEAN, owned: BOOLEAN, provenance: BOOLEAN, promotional: BOOLEAN,
   original: Spellings, titled: BOOLEAN, free: Nat, ads: BOOLEAN,
   scope: [Dimensions -> SUBSET Spellings]]
\* permitted is all five permissions, referenced and shared that the references to the
\* contract and the revenue share are there.
RightRow ==
  [takedown: BOOLEAN, drm: BOOLEAN, permitted: BOOLEAN, referenced: BOOLEAN, shared: BOOLEAN,
   starts: Times, ends: Times \cup {Never}, allow: SUBSET Spellings, deny: SUBSET Spellings,
   platforms: SUBSET Spellings, storefronts: SUBSET Spellings, languages: SUBSET Spellings,
   originals: SUBSET Spellings, subtitles: SUBSET Spellings]
EpisodeRow ==
  [status: Status, opens: Times, closes: Times \cup {Never}, titled: BOOLEAN, order: Nat,
   mode: Modes, price: Nat, duration: Nat]

ASSUME CatalogAssumption ==
  /\ Horizon \in Nat
  /\ DOMAIN Valid = Dimensions
  /\ "none" \notin Valid.language /\ "series" \notin Episodes
  /\ CoinsOn \in BOOLEAN
  /\ \A c \in Spellings : Normal[c] \in Spellings
  /\ Captions \cap {"listed", "open", "unavailable", "edited", "replaced"} = {}
  /\ \A f \in Forms :
       /\ f.table \in DOMAIN Tables /\ f.id \in Tables[f.table]
       /\ f.table = "series" => f.row \in SeriesRow
       /\ f.table = "right" => f.row \in RightRow \cup {NoRow}
       /\ f.table = "episode" => f.row \in EpisodeRow \cup {NoRow}
  /\ Posts \subseteq Seq(Forms) \ {<<>>}
  /\ \A ps \in Posts : \A i, j \in DOMAIN ps :
       /\ ps[i].table = ps[j].table /\ ps[i].id = ps[j].id => i = j
       /\ ps[i].table = "series" => i = 1
  /\ Requests \subseteq [kind: {"detail", "offers", "play"},
                         viewer: {"anonymous", "signed in"}, episode: Episodes]

VARIABLES
  now,
  series,     \* the row
  related,    \* of the series and of each episode: segments, complete translations
  rights,
  episodes,
  media,      \* an episode's asset in use
  access,     \* episodes that the signed-in viewer has an entitlement for
  trail,      \* of each object, what the last policy revision says of it
  post,       \* of a member of staff
  call,       \* of a viewer
  seen        \* what was true at some moment of the call

rows == <<series, related, rights, episodes, trail>>
vars == <<now, rows, media, access, post, call, seen>>

Idle == [stage |-> "idle"]

\* The tables as they are stored: what a query sees that is not of a post.
Stored == [series |-> series, related |-> related, rights |-> rights, episodes |-> episodes,
           media |-> media]

-----------------------------------------------------------------------------
(* catalog/context.py, catalog/metadata.py *)

\* resolve_launch_context: an incomplete or inconsistent setting is no context.
Launch ==
  IF /\ Deployed.enabled
     /\ Deployed.territory \in Valid.territory
     /\ Deployed.language \in Valid.language
     /\ Deployed.platform \in DOMAIN StoreOf
     /\ Deployed.storefront = StoreOf[Deployed.platform]
  THEN Deployed ELSE NoContext

\* catalog_metadata: the row has a title and a synopsis in the language of the launch.
Titled(d, row, x) ==
  /\ Launch # NoContext
  /\ IF Launch.language = English THEN row.titled ELSE Launch.language \in d.related[x]

InSegment(d) == Launch.segment = "none" \/ Launch.segment \in d.related["series"]

-----------------------------------------------------------------------------
(* catalog/eligibility.py *)

ValidScopes(r) ==
  /\ r.allow \cup r.deny \subseteq Valid.territory
  /\ r.platforms \subseteq Valid.platform
  /\ r.storefronts \subseteq Valid.storefront
  /\ r.languages \cup r.originals \cup r.subtitles \subseteq Valid.language

\* matching_licensed_rights_q and _matching_rights: one right covers the launch,
\* the language of the source and that of the viewer, at time t.
Matching(r, t, source) ==
  /\ r # NoRow
  /\ ~r.takedown /\ ~r.drm
  /\ r.permitted /\ r.referenced /\ r.shared
  /\ r.starts <= t /\ t < r.ends
  /\ Launch.territory \in r.allow \ r.deny
  /\ Launch.platform \in r.platforms
  /\ Launch.storefront \in r.storefronts
  /\ {Launch.language, source} \subseteq r.languages
  /\ source \in r.originals
  /\ Launch.language \in r.originals \cup r.subtitles
  /\ ValidScopes(r)

Covers(r, captions) == captions = "none" \/ captions \in r.subtitles \cap r.languages

Licensed(d, s, t, captions) ==
  \E r \in Rights : Matching(d.rights[r], t, s.original) /\ Covers(d.rights[r], captions)

InScope(s) ==
  /\ \A d \in Dimensions : s.scope[d] \subseteq Valid[d] /\ Launch[d] \in s.scope[d]
  /\ s.original \in Valid.language

\* The half of series_is_admitted before the queries of the rights.
InLaunch(d, s, captions) ==
  /\ Launch # NoContext
  /\ ~s.takedown
  /\ InScope(s)
  /\ captions \in Valid.language \cup {"none"}
  /\ InSegment(d)

HasRights(d, s, t, captions) ==
  IF s.owned THEN s.provenance /\ s.promotional ELSE Licensed(d, s, t, captions)

\* series_is_admitted: the gate in Python, for drafts too.
SeriesIsAdmitted(d, s, t, captions) == InLaunch(d, s, captions) /\ HasRights(d, s, t, captions)

\* eligible_series_queryset: the gate in SQL, of the series as it is stored.
EligibleSeries(t) ==
  /\ Launch # NoContext
  /\ series.status = "published"
  /\ ~series.takedown
  /\ InScope(series)
  /\ \/ series.owned /\ series.promotional /\ series.provenance
     \/ ~series.owned /\ Licensed(Stored, series, t, "none")
  /\ InSegment(Stored)
  /\ Titled(Stored, series, "series")

\* Mutant of AdmittedAsset: an asset in the making counts.
AdmittedUnready(d, e, s, t) ==
  /\ d.media[e] # NoMedia
  /\ Launch.language # s.original => d.media[e].captioned /\ d.media[e].language = Launch.language
  /\ ~s.owned /\ d.media[e].captioned => Licensed(d, s, t, d.media[e].language)

\* Mutant of AdmittedAsset: the language of the captions is not looked up.
AdmittedUnread(d, e, s, t) ==
  /\ d.media[e].state = "ready"
  /\ Launch.language # s.original => d.media[e].captioned /\ d.media[e].language = Launch.language
  /\ ~s.owned => Licensed(d, s, t, "none")

\* admitted_media_assets, after its series_is_admitted(s).
AdmittedAsset(d, e, s, t) ==
  /\ d.media[e].state = "ready"
  /\ Launch.language # s.original => d.media[e].captioned /\ d.media[e].language = Launch.language
  /\ ~s.owned /\ d.media[e].captioned => Licensed(d, s, t, d.media[e].language)

\* The query of eligible_episodes_for_series, with what it found of the series before.
EligibleEpisode(e, s, t) ==
  /\ episodes[e].status = "published"
  /\ episodes[e].opens <= t /\ t < episodes[e].closes
  /\ Titled(Stored, episodes[e], e)
  /\ AdmittedAsset(Stored, e, s, t)

\* What episode_is_eligible would say if nothing changed while it asked.
Available(e, t) ==
  /\ EligibleSeries(t)
  /\ SeriesIsAdmitted(Stored, series, t, "none")
  /\ EligibleEpisode(e, series, t)

-----------------------------------------------------------------------------
(* entitlements/policy.py *)

\* resolve_episode_policy, of the rows a request has loaded.
Mode(row, s) ==
  IF row.mode # "inherit" THEN row.mode
  ELSE IF row.order \in 1 .. s.free THEN "free" ELSE "rewarded_ad"

AdAvailable(row, s) ==
  Mode(row, s) \in {"rewarded_ad", "both"} /\ s.ads /\ AdsMode \in {"test", "production"}

\* evaluate_episode_offers: what would open a locked episode to the viewer.
Methods(row, s, viewer) ==
  {m \in {"rewarded_ad", "coin"} :
     /\ viewer # "anonymous"
     /\ m = "rewarded_ad" => AdAvailable(row, s)
     /\ m = "coin" => CoinsOn /\ Mode(row, s) \in {"coin", "both"} /\ row.price > 0}

-----------------------------------------------------------------------------
(* The rows as the models check them, full_clean, by the tables d and the time t. *)

\* Series.clean
CleanSeries(d, s, t) ==
  /\ \A x \in Dimensions : s.scope[x] # {} /\ s.scope[x] \subseteq Valid[x]
  /\ s.original \in Valid.language
  /\ s.status = "published" =>
       /\ Titled(d, s, "series")
       /\ ~s.takedown
       /\ s.owned => s.provenance /\ s.promotional
       /\ SeriesIsAdmitted(d, s, t, "none")

\* Series.is_publishable
Publishable(d, t) ==
  Titled(d, d.series, "series") /\ SeriesIsAdmitted(d, d.series, t, "none")

\* ContentRight.clean and the constraints of its table; save normalises the codes.
CleanRight(r) ==
  /\ ValidScopes(r)
  /\ r.referenced
  /\ {} \notin {r.allow, r.platforms, r.languages}
  /\ r.starts < r.ends

Normalized(r) ==
  LET spelt(codes) == {Normal[c] : c \in codes}
  IN [r EXCEPT !.allow = spelt(@), !.deny = spelt(@), !.platforms = spelt(@),
               !.storefronts = spelt(@), !.languages = spelt(@),
               !.originals = spelt(@), !.subtitles = spelt(@)]

\* Episode.clean and the constraints of its table.  Windows are checked by the table only.
CleanEpisode(d, e, row, t) ==
  /\ row.mode \in Modes
  /\ row.mode \in {"coin", "both"} <=> row.price > 0
  /\ row.opens < row.closes
  /\ \A o \in Episodes \ {e} : d.episodes[o] # NoRow => d.episodes[o].order # row.order
  /\ row.status = "published" =>
       /\ row.duration >= 1
       /\ Titled(d, row, e)
       /\ Publishable(d, t)
       /\ d.episodes[e] # NoRow /\ AdmittedAsset(d, e, d.series, t)

Deletes(f) == f.table \in {"right", "episode"} /\ f.row = NoRow

\* A deletion is checked by nothing.
Clean(d, f, t) ==
  /\ f.table = "series" => CleanSeries(d, f.row, t)
  /\ f.table = "right" /\ ~Deletes(f) => CleanRight(Normalized(f.row))
  /\ f.table = "episode" /\ ~Deletes(f) => CleanEpisode(d, f.id, f.row, t)

\* policy_snapshot
Snapshot(row) ==
  IF row = NoRow THEN <<>>
  ELSE IF "free" \in DOMAIN row THEN <<row.free, row.ads>>
  ELSE <<row.mode, row.price, row.order>>

-----------------------------------------------------------------------------
RowsOf(table) == {f.row : f \in {g \in Forms : g.table = table}}
Answers == {"none", "missing", "shown", "granted", "locked", "unavailable"}
Facts == {"listed", "open", "unavailable", "edited", "replaced"} \cup Captions
\* Any video that is ready has captions, in the language that its master was said to have.
Media == {m \in [state: {"unready", "polled", "ready"}, language: Captions, captioned: BOOLEAN] :
            m.state = "ready" => m.captioned}
           \cup {NoMedia}

TypeOK ==
  /\ now \in Times
  /\ series \in SeriesRow /\ CleanSeries(Stored, [series EXCEPT !.status = "draft"], now)
  /\ related \in [Objects -> SUBSET UNION (RowsOf("related") \cup {{}})]
  /\ \A r \in Rights : rights[r] # NoRow => rights[r] \in RightRow /\ CleanRight(rights[r])
  /\ \A e \in Episodes : episodes[e] # NoRow =>
       /\ episodes[e] \in EpisodeRow
       /\ CleanEpisode(Stored, e, [episodes[e] EXCEPT !.status = "draft"], now)
  /\ media \in [Episodes -> Media]
  /\ access \subseteq {e \in Episodes : episodes[e] # NoRow}
  /\ \A p \in Staff : post[p] # Idle =>
       post[p].forms \in Posts /\ post[p].at \in Seq(Times) /\ post[p].revised \subseteq Objects
  /\ \A c \in Calls : call[c] # Idle =>
       /\ call[c].request \in Requests /\ call[c].at \in Times /\ call[c].answer \in Answers
       /\ call[c].played \in Captions \cup {"none"}
  /\ seen \in [Calls -> SUBSET Facts]

\* A new series: a draft without rights or episodes.
Init ==
  /\ now = 0
  /\ \E s \in RowsOf("series") : series = s /\ s.status = "draft" /\ CleanSeries(Stored, s, now)
  /\ related = [x \in Objects |-> {}]
  /\ rights = [r \in Rights |-> NoRow]
  /\ episodes = [e \in Episodes |-> NoRow]
  /\ media = [e \in Episodes |-> NoMedia]
  /\ access = {}
  /\ trail = [x \in Objects |-> IF x = "series" THEN Snapshot(series) ELSE <<>>]
  /\ post = [p \in Staff |-> Idle]
  /\ call = [c \in Calls |-> Idle]
  /\ seen = [c \in Calls |-> {}]

-----------------------------------------------------------------------------
(* Django Admin: CatalogAccessAdmin.  A post is one transaction. *)

Unlocked == \A p \in Staff : post[p] = Idle

\* Mutant of SavedRow: the codes are saved as they were typed.
SavedTyped(f) == f.row

SavedRow(f) == IF f.table = "right" /\ ~Deletes(f) THEN Normalized(f.row) ELSE f.row

\* A row of a table after forms were saved, each of another row.
RowAfter(saved, table, id, stored) ==
  LET own == {f \in saved : f.table = table /\ f.id = id}
  IN IF own = {} THEN stored ELSE SavedRow(CHOOSE f \in own : TRUE)

\* The tables d after forms were saved.  The deletion of an episode cascades.
Written(d, saved) ==
  LET gone == {e \in Episodes : RowAfter(saved, "episode", e, d.episodes[e]) = NoRow}
  IN [series |-> RowAfter(saved, "series", "series", d.series),
      related |-> [x \in Objects |-> IF x \in gone THEN {}
                                     ELSE RowAfter(saved, "related", x, d.related[x])],
      rights |-> [r \in Rights |-> RowAfter(saved, "right", r, d.rights[r])],
      episodes |-> [e \in Episodes |-> RowAfter(saved, "episode", e, d.episodes[e])],
      media |-> [e \in Episodes |-> IF e \in gone THEN NoMedia ELSE d.media[e]]]

\* The forms that a post has saved and not committed, and the tables as it sees them.
Saved(p) == {post[p].forms[i] : i \in DOMAIN post[p].at}
View(p) == Written(Stored, Saved(p))

\* The row of an object with a policy.
Policy(d, x) == IF x = "series" THEN d.series ELSE d.episodes[x]

Exists(d, f) ==
  /\ f.table = "right" /\ Deletes(f) => d.rights[f.id] # NoRow
  /\ f.table = "episode" /\ Deletes(f) => d.episodes[f.id] # NoRow
  /\ f.table = "related" /\ f.id # "series" => d.episodes[f.id] # NoRow

\* Django validates the page and its inlines together, with the series as it was posted.
Validated(ps) ==
  LET posted == [Stored EXCEPT !.series = IF ps[1].table = "series" THEN ps[1].row ELSE @]
  IN \A i \in DOMAIN ps : Clean(posted, ps[i], now)

\* Mutant of Begin: the series is not locked.
BeginUnlocked(p, ps) ==
  /\ post[p] = Idle
  /\ Validated(ps)
  /\ post' = [post EXCEPT ![p] = [stage |-> "saving", forms |-> ps, at |-> <<>>, revised |-> {}]]
  /\ UNCHANGED <<now, rows, media, access, call>>

\* lock_series_for_access; a page that is not valid changes nothing.  (That a page of a
\* new row is locked at its first save only makes no difference: the row is checked again.)
Begin(p, ps) ==
  /\ Unlocked
  /\ Validated(ps)
  /\ post' = [post EXCEPT ![p] = [stage |-> "saving", forms |-> ps, at |-> <<>>, revised |-> {}]]
  /\ UNCHANGED <<now, rows, media, access, call>>

\* record_policy_revision: a change of the policy is written down.
Revised(d, f) ==
  IF f.table \in {"series", "episode"} /\ Snapshot(Policy(d, f.id)) # Snapshot(f.row)
  THEN {f.id} ELSE {}

Todo(p) == post[p] # Idle /\ Len(post[p].at) < Len(post[p].forms)
Form(p) == post[p].forms[Len(post[p].at) + 1]

\* _save_access_object, save_m2m and save_formset: the next form is checked by the tables
\* as the transaction sees them, and saved; what was saved before is not checked again.
\* A deletion waits for a poll of the video.
SaveForm(p) ==
  /\ Todo(p)
  /\ Clean(View(p), Form(p), now) /\ Exists(View(p), Form(p))
  /\ Form(p).table = "episode" /\ Deletes(Form(p)) => media[Form(p).id].state # "polled"
  /\ post' = [post EXCEPT ![p].at = Append(@, now),
                          ![p].revised = @ \cup Revised(View(p), Form(p))]
  /\ UNCHANGED <<now, rows, media, access, call>>

\* A form that is refused by now rolls all of them back.
Refuse(p) ==
  /\ Todo(p)
  /\ ~(Clean(View(p), Form(p), now) /\ Exists(View(p), Form(p)))
  /\ post' = [post EXCEPT ![p] = Idle]
  /\ UNCHANGED <<now, rows, media, access, call>>

\* What the post saw is stored, and the entitlements of deleted episodes go with them.
Commit(p) ==
  /\ post[p] # Idle /\ ~Todo(p)
  /\ LET d == View(p)
     IN /\ series' = d.series
        /\ related' = d.related
        /\ rights' = d.rights
        /\ episodes' = d.episodes
        /\ media' = d.media
        /\ access' = {e \in access : d.episodes[e] # NoRow}
        /\ trail' = [x \in Objects |-> IF x \in post[p].revised THEN Snapshot(Policy(d, x))
                                       ELSE trail[x]]
  /\ post' = [post EXCEPT ![p] = Idle]
  /\ UNCHANGED <<now, call>>

-----------------------------------------------------------------------------
(* Media, entitlements and time. *)

\* Other transactions wait for one that deletes the episode.
Deleting(e) == \E p \in Staff : post[p] # Idle /\ View(p).episodes[e] = NoRow

\* A master is accepted if the episode has none and its series is admitted.
Ingest(e, language, captioned) ==
  /\ episodes[e] # NoRow /\ ~Deleting(e)
  /\ media[e] = NoMedia
  /\ SeriesIsAdmitted(Stored, series, now, IF captioned THEN language ELSE "none")
  /\ media' = [media EXCEPT ![e] =
       [state |-> "unready", language |-> language, captioned |-> captioned]]
  /\ UNCHANGED <<now, rows, access, post, call>>

\* reconcile locks the row of a video that is in the making or has failed, and goes on if
\* the series is still admitted, with captions if the row says that there are some.
StartPoll(e) ==
  /\ media[e].state = "unready" /\ ~Deleting(e)
  /\ SeriesIsAdmitted(Stored, series, now, IF media[e].captioned THEN media[e].language ELSE "none")
  /\ media' = [media EXCEPT ![e].state = "polled"]
  /\ UNCHANGED <<now, rows, access, post, call>>

\* _poll_and_apply: the row says what the provider says.  The series is not looked at again,
\* not even when the provider has captions that the row did not know of.
FinishPoll(e, encoded, captioned) ==
  /\ media[e].state = "polled"
  /\ media' = [media EXCEPT ![e].state = IF encoded /\ captioned THEN "ready" ELSE "unready",
                            ![e].captioned = captioned]
  /\ UNCHANGED <<now, rows, access, post, call>>

\* It is taken down or expires, or is not retried.
RemoveMedia(e) ==
  /\ media[e].state \in {"unready", "ready"} /\ ~Deleting(e)
  /\ media' = [media EXCEPT ![e] = NoMedia]
  /\ UNCHANGED <<now, rows, access, post, call>>

\* The signed-in viewer gets an entitlement or staff revoke it.
ChangeAccess(e) ==
  /\ episodes[e] # NoRow /\ ~Deleting(e)
  /\ access' = IF e \in access THEN access \ {e} ELSE access \cup {e}
  /\ UNCHANGED <<now, rows, media, post, call>>

Tick ==
  /\ now < Horizon
  /\ now' = now + 1
  /\ UNCHANGED <<rows, media, access, post, call>>

-----------------------------------------------------------------------------
(* A request of a viewer: the page of an episode (catalog/views.py), its offers *)
(* (entitlements/views.py) or its playback (playback/views.py).               *)

Advance(c, stage) == call' = [call EXCEPT ![c].stage = stage]
Answer(c, answer) == call' = [call EXCEPT ![c].stage = "answered", ![c].answer = answer]
Looks == UNCHANGED <<now, rows, media, access, post>>

\* The view loads the episode with its series; the answer to the request before is done.
Load(c, r) ==
  /\ call[c].stage \in {"idle", "answered"}
  /\ episodes[r.episode] # NoRow
  /\ call' = [call EXCEPT ![c] =
       [stage |-> "loaded", request |-> r, row |-> episodes[r.episode], series |-> series,
        at |-> now, answer |-> "none", played |-> "none", methods |-> {}]]
  /\ Looks

\* episode_is_eligible: the loaded rows are published, and the time is taken.
TakeTime(c) ==
  /\ call[c].stage = "loaded"
  /\ IF {call[c].row.status, call[c].series.status} = {"published"}
     THEN call' = [call EXCEPT ![c].stage = "series", ![c].at = now]
     ELSE Answer(c, "missing")
  /\ Looks

QuerySeries(c) ==
  /\ call[c].stage = "series"
  /\ IF EligibleSeries(call[c].at) THEN Advance(c, "segment") ELSE Answer(c, "missing")
  /\ Looks

\* series_is_admitted of the loaded series: a query of the segments, and one of the rights.
QuerySegment(c) ==
  /\ call[c].stage = "segment"
  /\ IF InLaunch(Stored, call[c].series, "none") THEN Advance(c, "rights") ELSE Answer(c, "missing")
  /\ Looks

\* Mutant of QueryRights: the time is taken again.
QueryRightsLater(c) ==
  /\ call[c].stage = "rights"
  /\ IF HasRights(Stored, call[c].series, now, "none")
     THEN Advance(c, "episode") ELSE Answer(c, "missing")
  /\ Looks

QueryRights(c) ==
  /\ call[c].stage = "rights"
  /\ IF HasRights(Stored, call[c].series, call[c].at, "none")
     THEN Advance(c, "episode") ELSE Answer(c, "missing")
  /\ Looks

QueryEpisode(c) ==
  /\ call[c].stage = "episode"
  /\ IF ~EligibleEpisode(call[c].request.episode, call[c].series, call[c].at)
     THEN Answer(c, "missing")
     ELSE IF call[c].request.kind = "detail" THEN Answer(c, "shown")
     ELSE Advance(c, "access")
  /\ Looks

\* evaluate_authorize_access, once the episode is eligible: an entitlement, then the
\* free window, then a lock.
Decide(c) ==
  /\ call[c].stage = "access"
  /\ LET owned == call[c].request.viewer # "anonymous" /\ call[c].request.episode \in access
         free == Mode(call[c].row, call[c].series) = "free"
         grant == IF call[c].request.kind = "play" THEN Advance(c, "mint") ELSE Answer(c, "granted")
     IN IF owned \/ free THEN grant
        ELSE call' = [call EXCEPT ![c].stage = "answered", ![c].answer = "locked",
                        ![c].methods = IF call[c].request.kind = "play" THEN {}
                                       ELSE Methods(call[c].row, call[c].series, call[c].request.viewer)]
  /\ Looks

\* _mint_granted_response: the episode's asset as it is now.
Mint(c) ==
  /\ call[c].stage = "mint"
  /\ IF media[call[c].request.episode].state # "ready" THEN Answer(c, "missing")
     ELSE call' = [call EXCEPT ![c].stage = "answered", ![c].answer = "granted",
                     ![c].played = media[call[c].request.episode].language]
  /\ Looks

\* The provider is unset, fails, or has lost the asset, which is a 404 as well.
ProviderRefuses(c) ==
  /\ call[c].stage = "mint"
  /\ media[call[c].request.episode].state = "ready"
  /\ Answer(c, "unavailable")
  /\ Looks

-----------------------------------------------------------------------------
(* What an observer of all tables sees during a call. *)

Open(e, t) ==
  /\ episodes[e].status = "published"
  /\ episodes[e].opens <= t /\ t < episodes[e].closes
  /\ media[e].state = "ready"

TrueFor(i) ==
  IF i = Idle THEN {}
  ELSE {f \in Facts :
    CASE f = "listed" -> EligibleSeries(i.at)
      [] f = "open" -> Open(i.request.episode, i.at)
      [] f = "unavailable" -> ~Available(i.request.episode, i.at)
      [] f = "edited" -> series # i.series
      [] f = "replaced" ->
           i.stage \in {"access", "mint"} /\ media[i.request.episode].state # "ready"
      [] OTHER -> series.owned \/ Licensed(Stored, series, i.at, f)}

Observe == seen' = [c \in Calls |->
  (IF call'[c].stage = "loaded" /\ call[c] # call'[c] THEN {} ELSE seen[c]) \cup TrueFor(call[c])']

Next ==
  /\ \/ \E p \in Staff :
          \/ \E ps \in Posts : Begin(p, ps)
          \/ SaveForm(p) \/ Refuse(p) \/ Commit(p)
     \/ \E e \in Episodes :
          \/ \E captioned \in BOOLEAN :
               \/ \E language \in Captions : Ingest(e, language, captioned)
               \/ \E encoded \in BOOLEAN : FinishPoll(e, encoded, captioned)
          \/ StartPoll(e) \/ RemoveMedia(e) \/ ChangeAccess(e)
     \/ \E c \in Calls :
          \/ \E r \in Requests : Load(c, r)
          \/ TakeTime(c) \/ QuerySeries(c) \/ QuerySegment(c) \/ QueryRights(c) \/ QueryEpisode(c)
          \/ Decide(c) \/ Mint(c) \/ ProviderRefuses(c)
     \/ Tick
  /\ Observe

Spec == Init /\ [][Next]_vars

-----------------------------------------------------------------------------
(* Correctness. *)

Settled(ps) ==
  \A i \in DOMAIN ps : ps[i].table # "right" /\ (ps[i].table = "related" => ps[i].id # "series")
Publishes(f) == f.table \in {"series", "episode"} /\ ~Deletes(f) /\ f.row.status = "published"

\* What staff publish is listed, or for an episode its series may be, by the rows as
\* they are when the post commits and at the time it was checked
\* (catalog/admin.py:48, catalog/locking.py:1): no other edit slips in between.  A post that
\* itself goes on to the rights or the segments of the series is left out: the series is
\* not checked again after them, and the post may take away what it rests on.
PublishedIsListed ==
  [][\A p \in Staff :
       post[p] # Idle /\ ~Todo(p) /\ post'[p] = Idle /\ Settled(post[p].forms) =>
         \A i \in DOMAIN post[p].forms, t \in Times :
           Publishes(post[p].forms[i]) /\ t = post[p].at[i] =>
             IF post[p].forms[i].table = "series" THEN EligibleSeries(t)'
             ELSE Publishable(Stored, t)'
    ]_vars

\* The last revision of each object says what its policy is (catalog/audit.py:1):
\* no change is missed and none is recorded with a wrong result.
TrailIsTrue ==
  \A x \in Objects : trail[x] = Snapshot(IF x = "series" THEN series ELSE episodes[x])

\* A viewer is shown, offered or granted an episode only if, during the request, the
\* series was listed, and the episode published, open and with ready media
\* (entitlements/policy.py:33), although no query sees both.
AnswersWereAvailable ==
  \A c \in Calls : call[c] # Idle /\ call[c].answer \in {"shown", "granted", "locked"} =>
    {"listed", "open"} \subseteq seen[c]

\* An episode that could be watched all along is not refused
\* (eligibility.py:207), unless its series was edited meanwhile.
RefusalsAreReal ==
  \A c \in Calls : call[c] # Idle /\ call[c].answer = "missing" =>
    seen[c] \cap {"unavailable", "edited"} # {}

\* The video that is played is of a series that is the company's own, or one right covered
\* the language of its captions and the launch at the time of the request, although the
\* video is looked up again after the rights were (playback/views.py:112, ingest.py:470) and
\* may have become ready without that (ingest.py:420); unless the series was edited, or the
\* video taken away, meanwhile.
PlayedWasLicensed ==
  \A c \in Calls : call[c] # Idle /\ call[c].answer = "granted" /\ call[c].request.kind = "play" =>
    call[c].played \in seen[c] \/ seen[c] \cap {"edited", "replaced"} # {}

=============================================================================
