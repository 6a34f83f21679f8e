---------------------------- MODULE Catalog_proofs ----------------------------
(***************************************************************************)
(* What Catalog promises, for any episodes, rights, staff, viewers, posts  *)
(* and settings: what staff publish is listed, the trail of policies is    *)
(* true, and no answer to a viewer contradicts what was so during the      *)
(* request, although its queries see different moments.                    *)
(***************************************************************************)
EXTENDS Catalog, SequenceTheorems, TLAPS

-----------------------------------------------------------------------------
(* The tables. *)

\* What a form checks of a row whatever its status: it does not depend on other rows,
\* but for the places of the other episodes.
SoundSeries(s) ==
  /\ \A x \in Dimensions : s.scope[x] # {} /\ s.scope[x] \subseteq Valid[x]
  /\ s.original \in Valid.language
SoundEpisode(d, e, row) ==
  /\ row.mode \in Modes
  /\ row.mode \in {"coin", "both"} <=> row.price > 0
  /\ row.opens < row.closes
  /\ \A o \in Episodes \ {e} : d.episodes[o] # NoRow => d.episodes[o].order # row.order

Tags == SUBSET UNION (RowsOf("related") \cup {{}})

TypedTables(d) ==
  /\ d.series \in SeriesRow
  /\ d.related \in [Objects -> Tags]
  /\ d.rights \in [Rights -> RightRow \cup {NoRow}]
  /\ d.episodes \in [Episodes -> EpisodeRow \cup {NoRow}]
  /\ d.media \in [Episodes -> Media]

SoundTables(d) ==
  /\ TypedTables(d)
  /\ SoundSeries(d.series)
  /\ \A r \in Rights : d.rights[r] # NoRow => CleanRight(d.rights[r])
  /\ \A e \in Episodes : d.episodes[e] # NoRow => SoundEpisode(d, e, d.episodes[e])

TablesInv ==
  /\ now \in Times
  /\ SoundTables(Stored)
  /\ access \subseteq {e \in Episodes : episodes[e] # NoRow}

TrailInv == trail = [x \in Objects |-> Snapshot(Policy(Stored, x))]

-----------------------------------------------------------------------------
(* The posts. *)

\* The tables d that a post sees: they are sound; the policies it has not revised are those
\* of the trail; and what it published is still so, if it saves nothing that this rests on.
Sees(d, ps, at, revised, told) ==
  /\ SoundTables(d)
  /\ \A x \in Objects \ revised : told[x] = Snapshot(Policy(d, x))
  /\ \A i \in DOMAIN at : Settled(ps) /\ Publishes(ps[i]) =>
       /\ Publishable(d, at[i])
       /\ ps[i].table = "series" => d.series = ps[i].row

PostFacts(p) ==
  /\ \A q \in Staff : post[q] # Idle => q = p
  /\ post[p] = [stage |-> "saving", forms |-> post[p].forms, at |-> post[p].at,
                revised |-> post[p].revised]
  /\ post[p].forms \in Posts
  /\ post[p].at \in Seq(Times) /\ Len(post[p].at) <= Len(post[p].forms)
  /\ post[p].revised \subseteq Objects
  /\ Sees(View(p), post[p].forms, post[p].at, post[p].revised, trail)

PostInv ==
  /\ post = [p \in Staff |-> post[p]]
  /\ \A p \in Staff : post[p] # Idle => PostFacts(p)

-----------------------------------------------------------------------------
(* The requests. *)

Stages == {"loaded", "series", "segment", "rights", "episode", "access", "mint", "answered"}
Call == [stage: Stages, request: Requests, row: EpisodeRow, series: SeriesRow, at: Times,
         answer: Answers, played: Captions \cup {"none"}, methods: SUBSET {"rewarded_ad", "coin"}]

\* What was seen by the time a request is at its stage.
Contradicted(c) == seen[c] \cap {"unavailable", "edited"} # {}
Excused(c) == seen[c] \cap {"edited", "replaced"} # {}
CallFacts(c) ==
  LET i == call[c]
      video == media[i.request.episode]
  IN
  /\ i.answer # "none" => i.stage = "answered"
  /\ i.stage = "loaded" => {i.row.status, i.series.status} = {"published"} \/ Contradicted(c)
  /\ i.stage \in {"segment", "rights", "episode", "access", "mint"} => "listed" \in seen[c]
  /\ i.stage \in {"access", "mint"} =>
       /\ "open" \in seen[c]
       /\ Excused(c) \/ (video.state = "ready" /\ video.language \in seen[c])

\* What an answer says was so during the request.
AnswerFacts(c) ==
  LET i == call[c] IN
  /\ i.answer \in {"shown", "granted", "locked"} => {"listed", "open"} \subseteq seen[c]
  /\ i.answer = "missing" => Contradicted(c)
  /\ i.answer = "granted" /\ i.request.kind = "play" => i.played \in seen[c] \/ Excused(c)

CallInv ==
  /\ call \in [Calls -> {Idle} \cup Call]
  /\ seen \in [Calls -> SUBSET Facts]
  /\ \A c \in Calls : call[c] # Idle => CallFacts(c) /\ AnswerFacts(c)

IInv == TablesInv /\ TrailInv /\ PostInv /\ CallInv

-----------------------------------------------------------------------------
(* What the definitions say. *)

\* A draft is clean when its row is sound.
LEMMA CleanDrafts ==
  ASSUME NEW d, NEW t
  PROVE  /\ \A s \in SeriesRow : CleanSeries(d, [s EXCEPT !.status = "draft"], t) <=> SoundSeries(s)
         /\ \A e \in Episodes, row \in EpisodeRow :
              CleanEpisode(d, e, [row EXCEPT !.status = "draft"], t) <=> SoundEpisode(d, e, row)
<1>1. ASSUME NEW s \in SeriesRow
      PROVE  CleanSeries(d, [s EXCEPT !.status = "draft"], t) <=> SoundSeries(s)
  <2>1. PICK x : x = [s EXCEPT !.status = "draft"]
    OBVIOUS
  <2>2. x.status = "draft" /\ x.scope = s.scope /\ x.original = s.original
    BY <2>1 DEF SeriesRow
  <2>3. CleanSeries(d, x, t) <=> SoundSeries(s)
    BY <2>2 DEF CleanSeries, SoundSeries
  <2> QED
    BY <2>1, <2>3
<1>2. ASSUME NEW e \in Episodes, NEW row \in EpisodeRow
      PROVE  CleanEpisode(d, e, [row EXCEPT !.status = "draft"], t) <=> SoundEpisode(d, e, row)
  <2>1. PICK x : x = [row EXCEPT !.status = "draft"]
    OBVIOUS
  <2>2. /\ x.status = "draft" /\ x.mode = row.mode /\ x.price = row.price
        /\ x.opens = row.opens /\ x.closes = row.closes /\ x.order = row.order
    BY <2>1 DEF EpisodeRow
  <2>3. CleanEpisode(d, e, x, t) <=> SoundEpisode(d, e, row)
    BY <2>2 DEF CleanEpisode, SoundEpisode
  <2> QED
    BY <2>1, <2>3
<1> QED
  BY <1>1, <1>2

LEMMA Different ==
  /\ Idle \notin Call
  /\ \A i \in Call : i.stage # "idle"
  /\ NoRow \notin EpisodeRow
  /\ "series" \notin Episodes
  /\ Captions \cap {"listed", "open", "unavailable", "edited", "replaced"} = {}
  /\ Captions \cup {"listed", "open", "unavailable", "edited", "replaced"} \subseteq Facts
<1>1. \A i \in Call : i.stage # "idle"
  BY DEF Call, Stages
<1>2. \A row \in EpisodeRow : row.status # "no row"
  BY DEF EpisodeRow, Status
<1> QED
  BY <1>1, <1>2, CatalogAssumption DEF Idle, NoRow, Facts

LEMMA EpisodesOfRequests == \A r \in Requests : r.episode \in Episodes
<1>1. Requests \subseteq [kind: {"detail", "offers", "play"},
                        viewer: {"anonymous", "signed in"}, episode: Episodes]
  BY CatalogAssumption
<1> QED
  BY <1>1

LEMMA TypesFollow == IInv => TypeOK
<1> SUFFICES ASSUME IInv PROVE TypeOK
  OBVIOUS
<1>1. PICK d : d = Stored
  OBVIOUS
<1>2. /\ d.series = series /\ d.related = related /\ d.rights = rights
      /\ d.episodes = episodes /\ d.media = media
  BY <1>1 DEF Stored
<1>3. SoundTables(d)
  BY <1>1 DEF IInv, TablesInv
<1>4. \A p \in Staff : post[p] # Idle =>
        post[p].forms \in Posts /\ post[p].at \in Seq(Times) /\ post[p].revised \subseteq Objects
  BY DEF IInv, PostInv, PostFacts
<1>5. \A c \in Calls : call[c] # Idle =>
        /\ call[c].request \in Requests /\ call[c].at \in Times /\ call[c].answer \in Answers
        /\ call[c].played \in Captions \cup {"none"}
  BY DEF IInv, CallInv, Call
<1>6. CleanSeries(d, [series EXCEPT !.status = "draft"], now)
  BY <1>2, <1>3, CleanDrafts DEF SoundTables, TypedTables
<1>7. \A e \in Episodes : episodes[e] # NoRow =>
        /\ episodes[e] \in EpisodeRow
        /\ CleanEpisode(d, e, [episodes[e] EXCEPT !.status = "draft"], now)
  BY <1>2, <1>3, CleanDrafts DEF SoundTables, TypedTables
<1>8. \A r \in Rights : rights[r] # NoRow => rights[r] \in RightRow /\ CleanRight(rights[r])
  BY <1>2, <1>3 DEF SoundTables, TypedTables
<1>9. /\ series \in SeriesRow /\ media \in [Episodes -> Media]
      /\ related \in [Objects -> SUBSET UNION (RowsOf("related") \cup {{}})]
  BY <1>2, <1>3 DEF SoundTables, TypedTables, Tags
<1>10. now \in Times /\ access \subseteq {e \in Episodes : episodes[e] # NoRow}
       /\ seen \in [Calls -> SUBSET Facts]
  BY DEF IInv, TablesInv, CallInv
<1> QED
  BY <1>1, <1>4, <1>5, <1>6, <1>7, <1>8, <1>9, <1>10 DEF TypeOK

\* A form is of one table, and its row has the columns of it.
LEMMA FormsOfTables ==
  ASSUME NEW f \in Forms
  PROVE  /\ f.table \in {"series", "related", "right", "episode"}
         /\ f.table = "series" => f.id = "series" /\ f.row \in SeriesRow
         /\ f.table = "related" => f.id \in Objects /\ f.row \in Tags
         /\ f.table = "right" => f.id \in Rights /\ f.row \in RightRow \cup {NoRow}
         /\ f.table = "episode" => f.id \in Episodes /\ f.row \in EpisodeRow \cup {NoRow}
<1>1. /\ f.table \in DOMAIN Tables /\ f.id \in Tables[f.table]
      /\ f.table = "series" => f.row \in SeriesRow
      /\ f.table = "right" => f.row \in RightRow \cup {NoRow}
      /\ f.table = "episode" => f.row \in EpisodeRow \cup {NoRow}
  BY CatalogAssumption
<1>2. /\ f.table \in {"series", "related", "right", "episode"}
      /\ f.table = "series" => f.id \in {"series"}
      /\ f.table = "related" => f.id \in Objects
      /\ f.table = "right" => f.id \in Rights
      /\ f.table = "episode" => f.id \in Episodes
  BY <1>1 DEF Tables
<1>3. f.table = "related" => f.row \in RowsOf("related")
  BY DEF RowsOf
<1> QED
  BY <1>1, <1>2, <1>3 DEF Tags

\* Saving spells the codes of a right as they are known.
LEMMA NormalizedRight ==
  ASSUME NEW r \in RightRow
  PROVE  Normalized(r) \in RightRow
<1> DEFINE spelt(codes) == {Normal[c] : c \in codes}
<1>1. \A codes \in SUBSET Spellings : spelt(codes) \in SUBSET Spellings
  <2>1. \A c \in Spellings : Normal[c] \in Spellings
    BY CatalogAssumption
  <2> QED
    BY <2>1
<1>2. /\ spelt(r.allow) \in SUBSET Spellings /\ spelt(r.deny) \in SUBSET Spellings
      /\ spelt(r.platforms) \in SUBSET Spellings /\ spelt(r.storefronts) \in SUBSET Spellings
      /\ spelt(r.languages) \in SUBSET Spellings /\ spelt(r.originals) \in SUBSET Spellings
      /\ spelt(r.subtitles) \in SUBSET Spellings
  BY <1>1 DEF RightRow
<1>3. Normalized(r) =
        [r EXCEPT !.allow = spelt(@), !.deny = spelt(@), !.platforms = spelt(@),
                  !.storefronts = spelt(@), !.languages = spelt(@),
                  !.originals = spelt(@), !.subtitles = spelt(@)]
  BY DEF Normalized
<1> HIDE DEF spelt
<1> QED
  BY <1>2, <1>3 DEF RightRow

\* A saved row is of its table.
LEMMA SavedRows ==
  ASSUME NEW f \in Forms
  PROVE  /\ f.table # "right" => SavedRow(f) = f.row
         /\ f.table = "right" => SavedRow(f) \in RightRow \cup {NoRow}
<1>1. CASE f.table = "right" /\ f.row # NoRow
  <2>1. f.row \in RightRow
    BY <1>1, FormsOfTables
  <2> QED
    BY <1>1, <2>1, NormalizedRight DEF SavedRow, Deletes
<1>2. CASE f.table # "right" \/ f.row = NoRow
  BY <1>2 DEF SavedRow, Deletes
<1> QED
  BY <1>1, <1>2

-----------------------------------------------------------------------------
(* The tables after forms were saved. *)

\* A row is what it was, or what one of the forms says.
LEMMA RowIsOf ==
  ASSUME NEW saved \in SUBSET Forms, NEW table, NEW id, NEW stored
  PROVE  \/ RowAfter(saved, table, id, stored) = stored
         \/ \E f \in saved : /\ f.table = table /\ f.id = id
                             /\ RowAfter(saved, table, id, stored) = SavedRow(f)
<1> DEFINE own == {f \in saved : f.table = table /\ f.id = id}
<1>1. CASE own = {}
  BY <1>1 DEF RowAfter
<1>2. CASE own # {}
  <2>1. PICK f : f = CHOOSE x \in own : TRUE
    OBVIOUS
  <2>2. f \in own
    BY <1>2, <2>1
  <2>3. RowAfter(saved, table, id, stored) = SavedRow(f)
    BY <1>2, <2>1 DEF RowAfter
  <2> QED
    BY <2>2, <2>3
<1> QED
  BY <1>1, <1>2

\* A form more, of a row that no other is of, writes that row only.
LEMMA RowWith ==
  ASSUME NEW saved, NEW f, \A g \in saved : ~(g.table = f.table /\ g.id = f.id),
         NEW table, NEW id, NEW stored
  PROVE  RowAfter(saved \cup {f}, table, id, stored) =
           IF f.table = table /\ f.id = id THEN SavedRow(f)
           ELSE RowAfter(saved, table, id, stored)
<1> DEFINE own(forms) == {g \in forms : g.table = table /\ g.id = id}
           row(forms) == IF forms = {} THEN stored ELSE SavedRow(CHOOSE g \in forms : TRUE)
<1>1. \A forms : RowAfter(forms, table, id, stored) = row(own(forms))
  BY DEF RowAfter
<1>2. CASE f.table = table /\ f.id = id
  <2>1. own(saved \cup {f}) = {f}
    BY <1>2
  <2>2. (CHOOSE g \in {f} : TRUE) = f /\ {f} # {}
    OBVIOUS
  <2>3. row({f}) = SavedRow(f)
    BY <2>2
  <2> HIDE DEF own, row
  <2> QED
    BY <1>1, <1>2, <2>1, <2>3
<1>3. CASE ~(f.table = table /\ f.id = id)
  <2>1. own(saved \cup {f}) = own(saved)
    BY <1>3
  <2> HIDE DEF own, row
  <2> QED
    BY <1>1, <1>3, <2>1
<1> QED
  BY <1>2, <1>3

LEMMA WrittenTypes ==
  ASSUME NEW d, TypedTables(d), NEW saved \in SUBSET Forms
  PROVE  TypedTables(Written(d, saved))
<1> DEFINE gone == {e \in Episodes : RowAfter(saved, "episode", e, d.episodes[e]) = NoRow}
<1>1. PICK w : w = Written(d, saved)
  OBVIOUS
<1>2. /\ w.series = RowAfter(saved, "series", "series", d.series)
      /\ w.related = [x \in Objects |-> IF x \in gone THEN {}
                                        ELSE RowAfter(saved, "related", x, d.related[x])]
      /\ w.rights = [r \in Rights |-> RowAfter(saved, "right", r, d.rights[r])]
      /\ w.episodes = [e \in Episodes |-> RowAfter(saved, "episode", e, d.episodes[e])]
      /\ w.media = [e \in Episodes |-> IF e \in gone THEN NoMedia ELSE d.media[e]]
  BY <1>1 DEF Written
<1>3. RowAfter(saved, "series", "series", d.series) \in SeriesRow
  BY RowIsOf, FormsOfTables, SavedRows DEF TypedTables
<1>4. \A x \in Objects : RowAfter(saved, "related", x, d.related[x]) \in Tags
  BY RowIsOf, FormsOfTables, SavedRows DEF TypedTables
<1>5. \A r \in Rights : RowAfter(saved, "right", r, d.rights[r]) \in RightRow \cup {NoRow}
  BY RowIsOf, FormsOfTables, SavedRows DEF TypedTables
<1>6. \A e \in Episodes : RowAfter(saved, "episode", e, d.episodes[e]) \in EpisodeRow \cup {NoRow}
  BY RowIsOf, FormsOfTables, SavedRows DEF TypedTables
<1>7. {} \in Tags
  BY DEF Tags
<1>8. NoMedia \in Media /\ d.media \in [Episodes -> Media]
  BY DEF TypedTables, Media
<1> HIDE DEF gone
<1>9. w.series \in SeriesRow /\ w.related \in [Objects -> Tags]
  BY <1>2, <1>3, <1>4, <1>7
<1>10. w.rights \in [Rights -> RightRow \cup {NoRow}]
  BY <1>2, <1>5
<1>11. w.episodes \in [Episodes -> EpisodeRow \cup {NoRow}]
  BY <1>2, <1>6
<1>12. w.media \in [Episodes -> Media]
  BY <1>2, <1>8
<1> QED
  BY <1>1, <1>9, <1>10, <1>11, <1>12 DEF TypedTables

\* What a saved form leaves of the tables that it was checked by.
Saves(old, f, new) ==
  /\ new.series = IF f.table = "series" /\ f.id = "series" THEN SavedRow(f) ELSE old.series
  /\ \A r \in Rights :
       new.rights[r] = IF f.table = "right" /\ f.id = r THEN SavedRow(f) ELSE old.rights[r]
  /\ \A e \in Episodes :
       new.episodes[e] = IF f.table = "episode" /\ f.id = e THEN SavedRow(f) ELSE old.episodes[e]
  /\ ~(f.table = "related" /\ f.id = "series") => new.related["series"] = old.related["series"]

\* One form more, of a row that no other is of.
LEMMA WrittenWith ==
  ASSUME NEW d, NEW saved, NEW f, \A g \in saved : ~(g.table = f.table /\ g.id = f.id),
         NEW old, old = Written(d, saved), NEW new, new = Written(d, saved \cup {f})
  PROVE  Saves(old, f, new)
<1> DEFINE more == saved \cup {f}
<1>1. \A forms : /\ Written(d, forms).series = RowAfter(forms, "series", "series", d.series)
                 /\ \A r \in Rights :
                      Written(d, forms).rights[r] = RowAfter(forms, "right", r, d.rights[r])
                 /\ \A e \in Episodes :
                      Written(d, forms).episodes[e] = RowAfter(forms, "episode", e, d.episodes[e])
  BY DEF Written
<1>2. \A forms : Written(d, forms).related["series"]
                   = RowAfter(forms, "related", "series", d.related["series"])
  BY Different DEF Written, Objects
<1>3. \A table, id, stored : RowAfter(more, table, id, stored) =
        IF f.table = table /\ f.id = id THEN SavedRow(f) ELSE RowAfter(saved, table, id, stored)
  BY RowWith
<1> HIDE DEF more
<1>4. new = Written(d, more)
  BY DEF more
<1>5. new.series = IF f.table = "series" /\ f.id = "series" THEN SavedRow(f) ELSE old.series
  BY <1>1, <1>3, <1>4
<1>6. \A r \in Rights :
        new.rights[r] = IF f.table = "right" /\ f.id = r THEN SavedRow(f) ELSE old.rights[r]
  BY <1>1, <1>3, <1>4
<1>7. \A e \in Episodes :
        new.episodes[e] = IF f.table = "episode" /\ f.id = e THEN SavedRow(f) ELSE old.episodes[e]
  BY <1>1, <1>3, <1>4
<1>8. ~(f.table = "related" /\ f.id = "series") => new.related["series"] = old.related["series"]
  BY <1>2, <1>3, <1>4
<1> QED
  BY <1>5, <1>6, <1>7, <1>8 DEF Saves

LEMMA WrittenNone ==
  ASSUME NEW d, TypedTables(d), NEW w, w = Written(d, {})
  PROVE  w.series = d.series /\ w.rights = d.rights /\ w.episodes = d.episodes
<1>1. \A table, id, stored : RowAfter({}, table, id, stored) = stored
  BY DEF RowAfter
<1>2. /\ w.series = RowAfter({}, "series", "series", d.series)
      /\ w.rights = [r \in Rights |-> RowAfter({}, "right", r, d.rights[r])]
      /\ w.episodes = [e \in Episodes |-> RowAfter({}, "episode", e, d.episodes[e])]
  BY DEF Written
<1> QED
  BY <1>1, <1>2 DEF TypedTables

\* What is published rests on the series, its rights and its segments and translations.
LEMMA RestsOn ==
  ASSUME NEW d, NEW w, \A r \in Rights : w.rights[r] = d.rights[r],
         w.related["series"] = d.related["series"], NEW s, NEW t, NEW captions
  PROVE  /\ Titled(w, s, "series") <=> Titled(d, s, "series")
         /\ SeriesIsAdmitted(w, s, t, captions) <=> SeriesIsAdmitted(d, s, t, captions)
         /\ w.series = d.series => (Publishable(w, t) <=> Publishable(d, t))
<1>1. \A x : Titled(w, x, "series") <=> Titled(d, x, "series")
  BY DEF Titled
<1>2. \A x, y : Licensed(w, x, t, y) <=> Licensed(d, x, t, y)
  BY DEF Licensed
<1>3. \A x, y : SeriesIsAdmitted(w, x, t, y) <=> SeriesIsAdmitted(d, x, t, y)
  BY <1>2 DEF SeriesIsAdmitted, InLaunch, HasRights, InSegment
<1> QED
  BY <1>1, <1>3 DEF Publishable

-----------------------------------------------------------------------------
(* A form is saved. *)

LEMMA FormsOfPosts ==
  ASSUME NEW ps \in Posts
  PROVE  /\ ps \in Seq(Forms)
         /\ \A i \in DOMAIN ps : ps[i] \in Forms /\ (ps[i].table = "series" => i = 1)
         /\ \A i, j \in DOMAIN ps : ps[i].table = ps[j].table /\ ps[i].id = ps[j].id => i = j
<1>1. /\ Posts \subseteq Seq(Forms) \ {<<>>}
      /\ \A i, j \in DOMAIN ps :
           /\ ps[i].table = ps[j].table /\ ps[i].id = ps[j].id => i = j
           /\ ps[i].table = "series" => i = 1
  BY CatalogAssumption
<1>2. ps \in Seq(Forms)
  BY <1>1
<1>3. \A i \in DOMAIN ps : ps[i] \in Forms
  BY <1>2
<1> QED
  BY <1>1, <1>2, <1>3

\* The tables stay sound, because a form is checked by the tables that it is written to.
LEMMA SavingIsSound ==
  ASSUME NEW f \in Forms, NEW old, SoundTables(old), NEW t, Clean(old, f, t),
         NEW new, TypedTables(new), Saves(old, f, new)
  PROVE  SoundTables(new)
<1>1. SoundSeries(new.series)
  <2>1. CASE f.table = "series"
    <3>1. SoundSeries(f.row)
      BY <2>1 DEF Clean, CleanSeries, SoundSeries
    <3> QED
      BY <2>1, <3>1, FormsOfTables, SavedRows DEF Saves
  <2>2. CASE f.table # "series"
    BY <2>2 DEF SoundTables, Saves
  <2> QED
    BY <2>1, <2>2
<1>2. ASSUME NEW r \in Rights, new.rights[r] # NoRow
      PROVE  CleanRight(new.rights[r])
  <2>1. CASE f.table = "right" /\ f.id = r
    <3>1. ~Deletes(f)
      BY <1>2, <2>1 DEF SavedRow, Deletes, Saves
    <3>2. SavedRow(f) = Normalized(f.row) /\ CleanRight(Normalized(f.row))
      BY <2>1, <3>1 DEF SavedRow, Clean
    <3> QED
      BY <2>1, <3>2 DEF Saves
  <2>2. CASE ~(f.table = "right" /\ f.id = r)
    <3>1. new.rights[r] = old.rights[r]
      BY <2>2 DEF Saves
    <3> QED
      BY <1>2, <3>1 DEF SoundTables
  <2> QED
    BY <2>1, <2>2
<1>3. ASSUME NEW e \in Episodes, new.episodes[e] # NoRow
      PROVE  SoundEpisode(new, e, new.episodes[e])
  <2>1. CASE f.table = "episode"
    <3>1. f.id \in Episodes /\ SavedRow(f) = f.row
      BY <2>1, FormsOfTables, SavedRows
    <3>2. \A o \in Episodes : new.episodes[o] = IF o = f.id THEN f.row ELSE old.episodes[o]
      BY <2>1, <3>1 DEF Saves
    <3>3. f.row # NoRow => SoundEpisode(old, f.id, f.row)
      BY <2>1 DEF Clean, CleanEpisode, SoundEpisode, Deletes
    <3>4. CASE e = f.id
      BY <1>3, <3>2, <3>3, <3>4 DEF SoundEpisode
    <3>5. CASE e # f.id
      <4>1. new.episodes[e] = old.episodes[e] /\ SoundEpisode(old, e, old.episodes[e])
        BY <1>3, <3>2, <3>5 DEF SoundTables
      <4>2. f.row # NoRow => old.episodes[e].order # f.row.order
        BY <1>3, <3>1, <3>3, <3>5, <4>1 DEF SoundEpisode
      <4> QED
        BY <3>2, <3>5, <4>1, <4>2 DEF SoundEpisode
    <3> QED
      BY <3>4, <3>5
  <2>2. CASE f.table # "episode"
    <3>1. \A o \in Episodes : new.episodes[o] = old.episodes[o]
      BY <2>2 DEF Saves
    <3>2. SoundEpisode(old, e, old.episodes[e])
      BY <1>3, <3>1 DEF SoundTables
    <3> QED
      BY <3>1, <3>2 DEF SoundEpisode
  <2> QED
    BY <2>1, <2>2
<1> QED
  BY <1>1, <1>2, <1>3 DEF SoundTables

\* What is published by a form is publishable in the tables it was checked by and saved in.
LEMMA PublishedIsPublishable ==
  ASSUME NEW f \in Forms, NEW old, NEW t, Clean(old, f, t), Publishes(f),
         NEW new, Saves(old, f, new)
  PROVE  Publishable(new, t) /\ (f.table = "series" => new.series = f.row)
<1> USE DEF Publishes
<1>1. /\ f.table \in {"series", "episode"} /\ \A r \in Rights : new.rights[r] = old.rights[r]
      /\ new.related["series"] = old.related["series"]
  BY DEF Saves
<1>2. CASE f.table = "series"
  <2>1. new.series = f.row
    BY <1>2, FormsOfTables, SavedRows DEF Saves
  <2>2. Titled(old, f.row, "series") /\ SeriesIsAdmitted(old, f.row, t, "none")
    BY <1>2 DEF Clean, CleanSeries
  <2>3. Titled(new, f.row, "series") /\ SeriesIsAdmitted(new, f.row, t, "none")
    BY <1>1, <2>2, RestsOn
  <2> QED
    BY <2>1, <2>3 DEF Publishable
<1>3. CASE f.table = "episode"
  <2>1. Publishable(old, t)
    BY <1>3 DEF Clean, CleanEpisode
  <2>2. new.series = old.series
    BY <1>3 DEF Saves
  <2> QED
    BY <1>1, <1>3, <2>1, <2>2, RestsOn
<1> QED
  BY <1>1, <1>2, <1>3

LEMMA SavingSees ==
  ASSUME NEW d, TypedTables(d), NEW ps \in Posts, NEW at \in Seq(Times), Len(at) < Len(ps),
         NEW f, f = ps[Len(at) + 1], NEW saved, saved = {ps[i] : i \in DOMAIN at},
         NEW old, old = Written(d, saved), NEW new, new = Written(d, saved \cup {f}),
         NEW revised, NEW told, Sees(old, ps, at, revised, told), NEW t \in Times, Clean(old, f, t)
  PROVE  Sees(new, ps, Append(at, t), revised \cup Revised(old, f), told)
<1> DEFINE n == Len(at) + 1
<1>1. /\ Len(at) \in Nat /\ n \in DOMAIN ps /\ DOMAIN at \subseteq DOMAIN ps /\ n \notin DOMAIN at
      /\ DOMAIN Append(at, t) = DOMAIN at \cup {n} /\ Append(at, t)[n] = t
      /\ \A i \in DOMAIN at : Append(at, t)[i] = at[i]
  BY FormsOfPosts
<1>2. f \in Forms /\ saved \subseteq Forms
  BY <1>1, FormsOfPosts
<1>3. \A g \in saved : ~(g.table = f.table /\ g.id = f.id)
  BY <1>1, FormsOfPosts
<1>4. Saves(old, f, new)
  BY <1>3, WrittenWith
<1>5. TypedTables(new)
  BY <1>2, WrittenTypes
<1>6. SoundTables(new)
  <2>1. SoundTables(old)
    BY DEF Sees
  <2> QED
    BY <1>2, <1>4, <1>5, <2>1, SavingIsSound
<1>7. ASSUME NEW x \in Objects, x \notin revised, x \notin Revised(old, f)
      PROVE  told[x] = Snapshot(Policy(new, x))
  <2>1. told[x] = Snapshot(Policy(old, x))
    BY <1>7 DEF Sees
  <2>2. CASE f.table \in {"series", "episode"} /\ f.id = x
    <3>1. Snapshot(Policy(old, x)) = Snapshot(f.row)
      BY <1>7, <2>2 DEF Revised
    <3>2. Policy(new, x) = f.row
      <4>1. SavedRow(f) = f.row
        BY <1>2, <2>2, SavedRows
      <4>2. f.table = "series" => x = "series"
        BY <1>2, <2>2, FormsOfTables
      <4>3. f.table = "episode" => x # "series" /\ x \in Episodes
        BY <1>2, <2>2, FormsOfTables, Different
      <4> QED
        BY <1>4, <2>2, <4>1, <4>2, <4>3 DEF Policy, Saves
    <3> QED
      BY <2>1, <3>1, <3>2
  <2>3. CASE ~(f.table \in {"series", "episode"} /\ f.id = x)
    <3>1. Policy(new, x) = Policy(old, x)
      BY <1>2, <1>4, <2>3, FormsOfTables DEF Policy, Objects, Saves
    <3> QED
      BY <2>1, <3>1
  <2> QED
    BY <2>2, <2>3
<1>8. ASSUME Settled(ps)
      PROVE  /\ f.table # "right"
             /\ ~(f.table = "related" /\ f.id = "series")
             /\ \A r \in Rights : new.rights[r] = old.rights[r]
             /\ new.related["series"] = old.related["series"]
  BY <1>1, <1>4, <1>8 DEF Settled, Saves
<1>9. ASSUME NEW i \in DOMAIN at, Settled(ps), Publishes(ps[i])
      PROVE  /\ Publishable(new, Append(at, t)[i])
             /\ ps[i].table = "series" => new.series = ps[i].row
  <2>1. Publishable(old, at[i]) /\ (ps[i].table = "series" => old.series = ps[i].row)
    BY <1>9 DEF Sees
  <2>2. new.series = old.series
    <3>1. f.table = "series" => n = 1
      BY <1>1, FormsOfPosts
    <3>2. i \in 1 .. Len(at)
      OBVIOUS
    <3> QED
      BY <1>1, <1>4, <3>1, <3>2 DEF Saves
  <2>3. PICK u : u = at[i] /\ Append(at, t)[i] = u
    BY <1>1
  <2>4. Publishable(new, u)
    BY <1>8, <1>9, <2>1, <2>2, <2>3, RestsOn
  <2> QED
    BY <2>1, <2>2, <2>3, <2>4
<1>10. ASSUME Settled(ps), Publishes(f)
       PROVE  Publishable(new, t) /\ (f.table = "series" => new.series = f.row)
  BY <1>2, <1>4, <1>10, PublishedIsPublishable
<1>11. ASSUME NEW i \in DOMAIN Append(at, t), Settled(ps), Publishes(ps[i])
       PROVE  /\ Publishable(new, Append(at, t)[i])
              /\ ps[i].table = "series" => new.series = ps[i].row
  <2>1. CASE i = n
    BY <1>1, <1>10, <1>11, <2>1
  <2>2. CASE i \in DOMAIN at
    BY <1>9, <1>11, <2>2
  <2> QED
    BY <1>1, <2>1, <2>2
<1> QED
  BY <1>6, <1>7, <1>11 DEF Sees

-----------------------------------------------------------------------------
(* Steps that leave the rows alone. *)

SameRows(d, w) ==
  w.series = d.series /\ w.related = d.related /\ w.rights = d.rights /\ w.episodes = d.episodes

LEMMA SoundAgain ==
  ASSUME NEW d, SoundTables(d), NEW w, SameRows(d, w), w.media \in [Episodes -> Media]
  PROVE  SoundTables(w)
BY DEF SoundTables, TypedTables, SameRows, SoundEpisode

\* What a post sees does not depend on media.
LEMMA SeesAgain ==
  ASSUME NEW d, NEW w, TypedTables(w), SameRows(d, w), NEW saved \in SUBSET Forms,
         NEW ps, NEW at, NEW revised, NEW told, Sees(Written(d, saved), ps, at, revised, told)
  PROVE  Sees(Written(w, saved), ps, at, revised, told)
<1>1. PICK old, new : old = Written(d, saved) /\ new = Written(w, saved)
  OBVIOUS
<1>2. SameRows(old, new)
  BY <1>1 DEF SameRows, Written
<1>3. SoundTables(old)
  BY <1>1 DEF Sees
<1>4. TypedTables(new)
  BY <1>1, WrittenTypes
<1>5. SoundTables(new)
  BY <1>2, <1>3, <1>4, SoundAgain DEF TypedTables
<1>6. \A x \in Objects : Policy(new, x) = Policy(old, x)
  BY <1>2 DEF Policy, SameRows
<1>7. \A t : Publishable(old, t) => Publishable(new, t)
  BY <1>2, RestsOn DEF SameRows
<1>8. \A x \in Objects \ revised : told[x] = Snapshot(Policy(new, x))
  BY <1>1, <1>6 DEF Sees
<1>9. \A i \in DOMAIN at : Settled(ps) /\ Publishes(ps[i]) =>
        Publishable(new, at[i]) /\ (ps[i].table = "series" => new.series = ps[i].row)
  BY <1>1, <1>2, <1>7 DEF Sees, SameRows
<1> QED
  BY <1>1, <1>5, <1>8, <1>9 DEF Sees

LEMMA StoredRows ==
  /\ Stored.series = series /\ Stored.related = related /\ Stored.rights = rights
  /\ Stored.episodes = episodes /\ Stored.media = media
BY DEF Stored

LEMMA TablesAgain ==
  ASSUME IInv, UNCHANGED rows, media' \in [Episodes -> Media], NEW w, w = Stored'
  PROVE  SameRows(Stored, w) /\ SoundTables(w)
<1>1. PICK d : d = Stored
  OBVIOUS
<1>2. SameRows(d, w) /\ w.media = media'
  BY <1>1 DEF Stored, SameRows, rows
<1>3. SoundTables(d)
  BY <1>1 DEF IInv, TablesInv
<1> QED
  BY <1>1, <1>2, <1>3, SoundAgain

LEMMA RowsKeep ==
  ASSUME IInv, UNCHANGED rows, now' \in Times, media' \in [Episodes -> Media],
         access' \subseteq {e \in Episodes : episodes[e] # NoRow}
  PROVE  TablesInv' /\ TrailInv'
<1>1. PICK w : w = Stored'
  OBVIOUS
<1>2. SameRows(Stored, w) /\ SoundTables(w)
  BY <1>1, TablesAgain
<1>3. TablesInv'
  BY <1>1, <1>2 DEF TablesInv, rows
<1>4. TrailInv'
  <2>1. \A x \in Objects : Policy(w, x) = Policy(Stored, x)
    BY <1>2 DEF Policy, SameRows
  <2>2. trail' = [x \in Objects |-> Snapshot(Policy(w, x))]
    BY <2>1 DEF IInv, TrailInv, rows
  <2> QED
    BY <1>1, <2>2 DEF TrailInv
<1> QED
  BY <1>3, <1>4

LEMMA SavedForms ==
  ASSUME IInv, NEW p \in Staff, post[p] # Idle
  PROVE  Saved(p) \in SUBSET Forms
<1>1. PICK ps, at : ps = post[p].forms /\ at = post[p].at
  OBVIOUS
<1>2. ps \in Posts /\ at \in Seq(Times) /\ Len(at) <= Len(ps)
  BY <1>1 DEF IInv, PostInv, PostFacts
<1>3. ps \in Seq(Forms)
  BY <1>2, FormsOfPosts
<1>4. DOMAIN at \subseteq DOMAIN ps
  BY <1>2, <1>3
<1>5. \A i \in DOMAIN at : ps[i] \in Forms
  BY <1>2, <1>4, FormsOfPosts
<1> QED
  BY <1>1, <1>5 DEF Saved

LEMMA PostsKeep ==
  ASSUME IInv, UNCHANGED rows, UNCHANGED post, media' \in [Episodes -> Media]
  PROVE  PostInv'
<1> SUFFICES ASSUME NEW p \in Staff, post'[p] # Idle PROVE PostFacts(p)'
  BY DEF IInv, PostInv
<1>1. PostFacts(p)
  BY DEF IInv, PostInv
<1>2. PICK saved, d, w : saved = Saved(p) /\ d = Stored /\ w = Stored'
  OBVIOUS
<1>3. SameRows(d, w) /\ SoundTables(w) /\ saved \in SUBSET Forms
  BY <1>2, TablesAgain, SavedForms
<1>4. PICK ps, at, revised, told :
        ps = post[p].forms /\ at = post[p].at /\ revised = post[p].revised /\ told = trail
  OBVIOUS
<1>5. Sees(Written(d, saved), ps, at, revised, told)
  BY <1>1, <1>2, <1>4 DEF PostFacts, View
<1>6. Sees(Written(w, saved), ps, at, revised, told)
  BY <1>3, <1>5, SeesAgain DEF SoundTables
<1>7. View(p)' = Written(w, saved)
  BY <1>2 DEF View, Saved
<1>8. Sees(View(p), post[p].forms, post[p].at, post[p].revised, trail)'
  BY <1>4, <1>6, <1>7 DEF rows
<1> QED
  BY <1>1, <1>8 DEF PostFacts

-----------------------------------------------------------------------------
(* Staff. *)

LEMMA BeginKeeps ==
  ASSUME IInv, NEW p \in Staff, NEW ps \in Posts, Begin(p, ps)
  PROVE  TablesInv' /\ TrailInv' /\ PostInv'
<1>1. UNCHANGED rows /\ now' \in Times /\ media' \in [Episodes -> Media]
      /\ access' \subseteq {e \in Episodes : episodes[e] # NoRow}
  BY StoredRows DEF Begin, IInv, TablesInv, SoundTables, TypedTables
<1>2. TablesInv' /\ TrailInv'
  BY <1>1, RowsKeep
<1>3. PICK x : x = [stage |-> "saving", forms |-> ps, at |-> <<>>, revised |-> {}]
  OBVIOUS
<1>4. post' = [q \in Staff |-> IF q = p THEN x ELSE Idle]
  BY <1>3 DEF Begin, Unlocked, IInv, PostInv
<1>5. x.forms = ps /\ x.at = <<>> /\ x.revised = {}
      /\ x = [stage |-> "saving", forms |-> x.forms, at |-> x.at, revised |-> x.revised]
  BY <1>3
<1>6. PICK d, w : d = Stored' /\ w = Written(d, {})
  OBVIOUS
<1>7. SoundTables(d)
  BY <1>2, <1>6 DEF TablesInv
<1>8. w.series = d.series /\ w.rights = d.rights /\ w.episodes = d.episodes
  BY <1>6, <1>7, WrittenNone DEF SoundTables
<1>9. SoundTables(w)
  <2>1. TypedTables(w)
    BY <1>6, <1>7, WrittenTypes DEF SoundTables
  <2> QED
    BY <1>7, <1>8, <2>1 DEF SoundTables, SoundEpisode
<1>10. Sees(w, ps, <<>>, {}, trail')
  <2>1. \A x1 \in Objects : Policy(w, x1) = Policy(d, x1)
    BY <1>8 DEF Policy
  <2>2. \A x1 \in Objects : trail'[x1] = Snapshot(Policy(d, x1))
    BY <1>2, <1>6 DEF TrailInv
  <2> QED
    BY <1>9, <2>1, <2>2 DEF Sees
<1>11. View(p)' = w
  <2>1. post'[p] = x /\ DOMAIN x.at = {}
    BY <1>4, <1>5
  <2>2. Saved(p)' = {}
    BY <2>1 DEF Saved
  <2> QED
    BY <1>6, <2>2 DEF View
<1>12. PostFacts(p)'
  <2>1. Sees(View(p), post[p].forms, post[p].at, post[p].revised, trail)'
    BY <1>4, <1>5, <1>10, <1>11
  <2>2. ps \in Seq(Forms) /\ <<>> \in Seq(Times) /\ Len(<<>>) = 0 /\ {} \subseteq Objects
    BY FormsOfPosts
  <2>3. Len(<<>>) <= Len(ps)
    BY <2>2
  <2>4. post'[p] = x
    BY <1>4
  <2> QED
    BY <1>4, <1>5, <2>1, <2>2, <2>3, <2>4 DEF PostFacts
<1> QED
  BY <1>2, <1>4, <1>12 DEF PostInv

LEMMA SaveFormKeeps ==
  ASSUME IInv, NEW p \in Staff, SaveForm(p)
  PROVE  TablesInv' /\ TrailInv' /\ PostInv'
<1>1. UNCHANGED rows /\ now' \in Times /\ now \in Times /\ media' \in [Episodes -> Media]
      /\ access' \subseteq {e \in Episodes : episodes[e] # NoRow}
  BY StoredRows DEF SaveForm, IInv, TablesInv, SoundTables, TypedTables
<1>2. TablesInv' /\ TrailInv'
  BY <1>1, RowsKeep
<1>3. PostFacts(p) /\ post[p] # Idle
  BY DEF SaveForm, Todo, IInv, PostInv
<1>4. PICK ps, at, revised, told, f, saved, d, old, new, t :
        /\ ps = post[p].forms /\ at = post[p].at /\ revised = post[p].revised /\ told = trail
        /\ f = Form(p) /\ saved = Saved(p) /\ d = Stored /\ t = now
        /\ old = Written(d, saved) /\ new = Written(d, saved \cup {f})
  OBVIOUS
<1>5. /\ ps \in Posts /\ at \in Seq(Times) /\ Len(at) < Len(ps) /\ t \in Times
      /\ f = ps[Len(at) + 1] /\ saved = {ps[i] : i \in DOMAIN at}
      /\ revised \subseteq Objects
  BY <1>1, <1>3, <1>4 DEF PostFacts, SaveForm, Todo, Form, Saved
<1>6. TypedTables(d) /\ old = View(p) /\ Sees(old, ps, at, revised, told)
  BY <1>3, <1>4 DEF IInv, TablesInv, SoundTables, PostFacts, View
<1>7. Clean(old, f, t)
  BY <1>4, <1>6 DEF SaveForm
<1>8. Sees(new, ps, Append(at, t), revised \cup Revised(old, f), told)
  <2>1. old = Written(d, saved) /\ new = Written(d, saved \cup {f})
    BY <1>4
  <2> QED
    BY <1>5, <1>6, <1>7, <2>1, SavingSees
<1>9. PICK x : x = [stage |-> "saving", forms |-> ps, at |-> Append(at, t),
                    revised |-> revised \cup Revised(old, f)]
  OBVIOUS
<1>10. x.forms = ps /\ x.at = Append(at, t) /\ x.revised = revised \cup Revised(old, f)
       /\ x = [stage |-> "saving", forms |-> x.forms, at |-> x.at, revised |-> x.revised]
  BY <1>9
<1>11. post' = [q \in Staff |-> IF q = p THEN x ELSE Idle]
  <2>1. \A q \in Staff \ {p} : post[q] = Idle
    BY <1>3 DEF PostFacts
  <2>2. post[p] = [stage |-> "saving", forms |-> ps, at |-> at, revised |-> revised]
    BY <1>3, <1>4 DEF PostFacts
  <2>3. post' = [post EXCEPT ![p] = [[post[p] EXCEPT !.at = Append(at, t)]
                               EXCEPT !.revised = revised \cup Revised(old, f)]]
    BY <1>4, <1>6 DEF SaveForm
  <2>4. [[post[p] EXCEPT !.at = Append(at, t)] EXCEPT !.revised = revised \cup Revised(old, f)] = x
    <3>1. PICK y : y = [stage |-> "saving", forms |-> ps, at |-> at, revised |-> revised]
      OBVIOUS
    <3>2. \A a, b : [[y EXCEPT !.at = a] EXCEPT !.revised = b]
                      = [stage |-> "saving", forms |-> ps, at |-> a, revised |-> b]
      <4>1. ASSUME NEW a, NEW b
            PROVE  [[y EXCEPT !.at = a] EXCEPT !.revised = b]
                     = [stage |-> "saving", forms |-> ps, at |-> a, revised |-> b]
        <5>1. PICK z : z = [y EXCEPT !.at = a]
          OBVIOUS
        <5>2. z = [stage |-> "saving", forms |-> ps, at |-> a, revised |-> revised]
          BY <3>1, <5>1
        <5>3. [z EXCEPT !.revised = b] = [stage |-> "saving", forms |-> ps, at |-> a, revised |-> b]
          BY <5>2
        <5> QED
          BY <5>1, <5>3
      <4> QED
        BY <4>1
    <3> QED
      BY <1>9, <2>2, <3>1, <3>2
  <2> QED
    BY <2>1, <2>3, <2>4 DEF IInv, PostInv
<1>12. Stored' = d /\ trail' = told
  BY <1>4 DEF SaveForm, Stored, rows
<1>13. saved \cup {f} = {ps[i] : i \in DOMAIN Append(at, t)}
  <2>1. ps \in Seq(Forms)
    BY <1>5, FormsOfPosts
  <2>2. DOMAIN Append(at, t) = DOMAIN at \cup {Len(at) + 1}
    BY <1>5
  <2> QED
    BY <1>5, <2>2
<1>14. View(p)' = new
  <2>1. post'[p] = x
    BY <1>11
  <2>2. Saved(p)' = saved \cup {f}
    BY <1>10, <1>13, <2>1 DEF Saved
  <2> QED
    BY <1>4, <1>12, <2>2 DEF View
<1>15. PostFacts(p)'
  <2>1. post'[p] = x
    BY <1>11
  <2>2. Sees(View(p), post[p].forms, post[p].at, post[p].revised, trail)'
    BY <1>8, <1>10, <1>12, <1>14, <2>1
  <2>3. Append(at, t) \in Seq(Times) /\ Len(Append(at, t)) <= Len(ps)
    <3>1. ps \in Seq(Forms)
      BY <1>5, FormsOfPosts
    <3> QED
      BY <1>5, <3>1
  <2>4. revised \cup Revised(old, f) \subseteq Objects
    <3>1. f \in Forms
      <4>1. Len(at) + 1 \in DOMAIN ps
        BY <1>5, FormsOfPosts
      <4> QED
        BY <1>5, <4>1, FormsOfPosts
    <3> QED
      BY <1>5, <3>1, FormsOfTables DEF Revised, Objects
  <2> QED
    BY <1>5, <1>10, <1>11, <2>1, <2>2, <2>3, <2>4 DEF PostFacts
<1> QED
  BY <1>2, <1>11, <1>15 DEF PostInv

\* When a post ends, nobody else's waits.
LEMMA PostEnds ==
  ASSUME IInv, NEW p \in Staff, post[p] # Idle, post' = [post EXCEPT ![p] = Idle]
  PROVE  PostInv' /\ post' = [q \in Staff |-> Idle]
<1>1. \A q \in Staff \ {p} : post[q] = Idle
  BY DEF IInv, PostInv, PostFacts
<1>2. post' = [q \in Staff |-> Idle]
  BY <1>1 DEF IInv, PostInv
<1> QED
  BY <1>2 DEF PostInv

LEMMA RefuseKeeps ==
  ASSUME IInv, NEW p \in Staff, Refuse(p)
  PROVE  TablesInv' /\ TrailInv' /\ PostInv'
<1>1. UNCHANGED rows /\ now' \in Times /\ media' \in [Episodes -> Media]
      /\ access' \subseteq {e \in Episodes : episodes[e] # NoRow}
  BY StoredRows DEF Refuse, IInv, TablesInv, SoundTables, TypedTables
<1> QED
  BY <1>1, RowsKeep, PostEnds DEF Refuse, Todo

\* What is stored is what the post saw.
LEMMA CommitStores ==
  ASSUME NEW p \in Staff, Commit(p)
  PROVE  Stored' = View(p)
<1>1. View(p) = [series |-> View(p).series, related |-> View(p).related,
                 rights |-> View(p).rights, episodes |-> View(p).episodes, media |-> View(p).media]
  BY DEF View, Written
<1> QED
  BY <1>1 DEF Commit, Stored

LEMMA CommitKeeps ==
  ASSUME IInv, NEW p \in Staff, Commit(p)
  PROVE  TablesInv' /\ TrailInv' /\ PostInv'
<1>1. PostFacts(p) /\ post[p] # Idle
  BY DEF Commit, IInv, PostInv
<1>2. PICK d, revised, told :
        d = View(p) /\ revised = post[p].revised /\ told = trail
  OBVIOUS
<1>3. Stored' = d
  BY <1>2, CommitStores
<1>4. SoundTables(d) /\ \A x \in Objects \ revised : told[x] = Snapshot(Policy(d, x))
  BY <1>1, <1>2 DEF PostFacts, Sees
<1>5. TablesInv'
  <2>1. now' \in Times
    BY DEF Commit, IInv, TablesInv
  <2>2. episodes' = d.episodes /\ access' = {e \in access : d.episodes[e] # NoRow}
    BY <1>2 DEF Commit
  <2>3. access \subseteq Episodes
    BY DEF IInv, TablesInv
  <2> QED
    BY <1>3, <1>4, <2>1, <2>2, <2>3 DEF TablesInv
<1>6. TrailInv'
  <2>1. trail' = [x \in Objects |-> IF x \in revised THEN Snapshot(Policy(d, x)) ELSE told[x]]
    BY <1>2 DEF Commit
  <2>2. trail' = [x \in Objects |-> Snapshot(Policy(d, x))]
    BY <1>4, <2>1
  <2> QED
    BY <1>3, <2>2 DEF TrailInv
<1>7. PostInv'
  BY <1>1, PostEnds DEF Commit
<1> QED
  BY <1>5, <1>6, <1>7

-----------------------------------------------------------------------------
(* What is seen. *)

\* What is true after a step is seen, and what was seen is not forgotten until the next
\* request.
LEMMA Observed ==
  ASSUME IInv, Observe, NEW c \in Calls
  PROVE  /\ call'[c].stage # "loaded" \/ call'[c] = call[c] => seen[c] \subseteq seen'[c]
         /\ TrueFor(call[c])' \subseteq seen'[c]
         /\ seen' \in [Calls -> SUBSET Facts]
<1>1. seen \in [Calls -> SUBSET Facts]
  BY DEF IInv, CallInv
<1>2. \A d \in Calls : TrueFor(call[d])' \subseteq Facts
  BY DEF TrueFor
<1>3. seen' = [d \in Calls |->
        (IF call'[d].stage = "loaded" /\ call[d] # call'[d] THEN {} ELSE seen[d])
          \cup TrueFor(call[d])']
  BY DEF Observe
<1>4. seen' \in [Calls -> SUBSET Facts]
  BY <1>1, <1>2, <1>3
<1> QED
  BY <1>3, <1>4

\* A request sees the tables as they are after each step.
LEMMA SeesStored ==
  ASSUME IInv, Observe, NEW c \in Calls, call'[c] # Idle,
         NEW i, i = call'[c], NEW e, e = i.request.episode, NEW d, d = Stored'
  PROVE  /\ EligibleSeries(i.at)' => "listed" \in seen'[c]
         /\ Open(e, i.at)' => "open" \in seen'[c]
         /\ ~Available(e, i.at)' => "unavailable" \in seen'[c]
         /\ series' # i.series => "edited" \in seen'[c]
         /\ i.stage \in {"access", "mint"} /\ media'[e].state # "ready" => "replaced" \in seen'[c]
         /\ \A f \in Captions : series'.owned \/ Licensed(d, series', i.at, f) => f \in seen'[c]
<1>1. TrueFor(call[c])' \subseteq seen'[c]
  BY Observed
<1>2. {"listed", "open", "unavailable", "edited", "replaced"} \subseteq Facts
      /\ Captions \subseteq Facts
  BY Different
<1>3. \A f \in Captions : f \notin {"listed", "open", "unavailable", "edited", "replaced"}
  BY Different
<1>4. EligibleSeries(i.at)' => "listed" \in TrueFor(call[c])'
  BY <1>2 DEF TrueFor, EligibleSeries
<1>5. Open(e, i.at)' => "open" \in TrueFor(call[c])'
  BY <1>2 DEF TrueFor, Open
<1>6. ~Available(e, i.at)' => "unavailable" \in TrueFor(call[c])'
  BY <1>2 DEF TrueFor, Available
<1>7. series' # i.series => "edited" \in TrueFor(call[c])'
  BY <1>2 DEF TrueFor
<1>8. i.stage \in {"access", "mint"} /\ media'[e].state # "ready" =>
        "replaced" \in TrueFor(call[c])'
  BY <1>2 DEF TrueFor
<1>9. \A f \in Captions : series'.owned \/ Licensed(d, series', i.at, f) =>
        f \in TrueFor(call[c])'
  BY <1>2, <1>3 DEF TrueFor
<1> QED
  BY <1>1, <1>4, <1>5, <1>6, <1>7, <1>8, <1>9

\* No query says another thing while nothing changes.
LEMMA QueriesKeep ==
  ASSUME UNCHANGED <<rows, media>>, NEW e, NEW s, NEW t
  PROVE  /\ EligibleSeries(t)' <=> EligibleSeries(t)
         /\ EligibleEpisode(e, s, t)' <=> EligibleEpisode(e, s, t)
         /\ Open(e, t)' <=> Open(e, t)
         /\ Available(e, t)' <=> Available(e, t)
<1>1. UNCHANGED <<series, related, rights, episodes, media>>
  BY DEF rows
<1>2. Stored' = Stored
  BY <1>1 DEF Stored
<1>3. EligibleSeries(t)' <=> EligibleSeries(t)
  BY <1>1, <1>2 DEF EligibleSeries
<1>4. \A x : EligibleEpisode(e, x, t)' <=> EligibleEpisode(e, x, t)
  BY <1>1, <1>2 DEF EligibleEpisode
<1>5. Open(e, t)' <=> Open(e, t)
  BY <1>1 DEF Open
<1>6. Available(e, t)' <=> Available(e, t)
  BY <1>1, <1>2, <1>3, <1>4 DEF Available, EligibleEpisode
<1> QED
  BY <1>3, <1>4, <1>5, <1>6

\* A request that looks sees the rows as they were when it looked.
LEMMA LookSees ==
  ASSUME IInv, Observe, Looks, NEW c \in Calls, call'[c] # Idle,
         NEW t, t = call'[c].at, NEW e, e = call'[c].request.episode,
         NEW s, s = call'[c].series
  PROVE  /\ EligibleSeries(t) => "listed" \in seen'[c]
         /\ Open(e, t) => "open" \in seen'[c]
         /\ ~Available(e, t) => "unavailable" \in seen'[c]
         /\ series # s => "edited" \in seen'[c]
         /\ \A f \in Captions : series.owned \/ Licensed(Stored, series, t, f) => f \in seen'[c]
<1>1. UNCHANGED <<rows, media>> /\ series' = series
  BY DEF Looks, rows
<1>2. Stored' = Stored
  BY <1>1 DEF Stored, rows
<1>3. /\ EligibleSeries(t)' <=> EligibleSeries(t)
      /\ Open(e, t)' <=> Open(e, t)
      /\ Available(e, t)' <=> Available(e, t)
  BY <1>1, QueriesKeep
<1>4. PICK i, d : i = call'[c] /\ d = Stored'
  OBVIOUS
<1>5. /\ EligibleSeries(i.at)' => "listed" \in seen'[c]
      /\ Open(e, i.at)' => "open" \in seen'[c]
      /\ ~Available(e, i.at)' => "unavailable" \in seen'[c]
      /\ series' # i.series => "edited" \in seen'[c]
      /\ \A f \in Captions : series'.owned \/ Licensed(d, series', i.at, f) => f \in seen'[c]
  BY <1>4, SeesStored
<1>6. i.at = t /\ i.series = s
  BY <1>4
<1> QED
  BY <1>1, <1>2, <1>3, <1>4, <1>5, <1>6

-----------------------------------------------------------------------------
(* Requests. *)

\* A video that is ready changes only by being taken away.
ReadyStays ==
  \A e \in Episodes :
    media[e].state = "ready" /\ media'[e].state = "ready" => media'[e] = media[e]

\* A request that does not move knows what it knew.
LEMMA UnmovedKnows ==
  ASSUME IInv, Observe, NEW c \in Calls, call'[c] = call[c], call[c] # Idle, ReadyStays
  PROVE  CallFacts(c)' /\ AnswerFacts(c)'
<1>1. call[c] \in Call /\ CallFacts(c) /\ AnswerFacts(c)
  BY DEF IInv, CallInv
<1>2. PICK i \in Call : i = call[c]
  BY <1>1
<1>3. PICK e \in Episodes : e = i.request.episode
  BY <1>2, EpisodesOfRequests DEF Call
<1>4. seen[c] \subseteq seen'[c]
  BY Observed
<1>5. i.stage \in {"access", "mint"} =>
        Excused(c)' \/ (media'[e].state = "ready" /\ media'[e].language \in seen'[c])
  <2> SUFFICES ASSUME i.stage \in {"access", "mint"}
               PROVE  Excused(c)' \/ (media'[e].state = "ready" /\ media'[e].language \in seen'[c])
    OBVIOUS
  <2>1. CASE media'[e].state # "ready"
    <3>1. "replaced" \in seen'[c]
      BY <1>2, <1>3, <2>1, SeesStored
    <3> QED
      BY <3>1 DEF Excused
  <2>2. CASE media'[e].state = "ready"
    <3>1. Excused(c) \/ (media[e].state = "ready" /\ media[e].language \in seen[c])
      BY <1>1, <1>2, <1>3 DEF CallFacts
    <3>2. media[e].state = "ready" => media'[e] = media[e]
      BY <2>2 DEF ReadyStays
    <3> QED
      BY <1>4, <2>2, <3>1, <3>2 DEF Excused
  <2> QED
    BY <2>1, <2>2
<1>6. CallFacts(c)'
  BY <1>1, <1>2, <1>3, <1>4, <1>5 DEF CallFacts, Contradicted
<1>7. AnswerFacts(c)'
  BY <1>1, <1>4 DEF AnswerFacts, Excused, Contradicted
<1> QED
  BY <1>6, <1>7

LEMMA CallsKeep ==
  ASSUME IInv, Observe, UNCHANGED call, ReadyStays
  PROVE  CallInv'
<1>1. \A c \in Calls : call'[c] # Idle => CallFacts(c)' /\ AnswerFacts(c)'
  BY UnmovedKnows
<1>2. ASSUME NEW c \in Calls
      PROVE  seen' \in [Calls -> SUBSET Facts]
  BY Observed
<1>3. seen' \in [Calls -> SUBSET Facts]
  BY <1>2 DEF Observe
<1> QED
  BY <1>1, <1>3 DEF CallInv, IInv

\* One request moves; the others know what they knew.
LEMMA MoveKeeps ==
  ASSUME IInv, Observe, Looks, NEW c \in Calls, NEW x \in Call,
         call' = [call EXCEPT ![c] = x], CallFacts(c)' /\ AnswerFacts(c)'
  PROVE  TablesInv' /\ TrailInv' /\ PostInv' /\ CallInv'
<1>1. UNCHANGED <<now, rows, media, access, post>>
  BY DEF Looks
<1>2. TablesInv' /\ TrailInv' /\ PostInv'
  <2>1. /\ now' \in Times /\ access' \subseteq {e \in Episodes : episodes[e] # NoRow}
        /\ media' \in [Episodes -> Media]
    BY <1>1, StoredRows DEF IInv, TablesInv, SoundTables, TypedTables
  <2> QED
    BY <1>1, <2>1, RowsKeep, PostsKeep
<1>3. call \in [Calls -> {Idle} \cup Call] /\ call' \in [Calls -> {Idle} \cup Call]
  BY DEF IInv, CallInv
<1>4. ReadyStays
  BY <1>1 DEF ReadyStays
<1>5. ASSUME NEW d \in Calls, call'[d] # Idle
      PROVE  CallFacts(d)' /\ AnswerFacts(d)'
  <2>1. CASE d = c
    BY <2>1
  <2>2. CASE d # c
    <3>1. call'[d] = call[d]
      BY <1>3, <2>2
    <3> QED
      BY <1>4, <1>5, <3>1, UnmovedKnows
  <2> QED
    BY <2>1, <2>2
<1>6. seen' \in [Calls -> SUBSET Facts]
  BY Observed
<1> QED
  BY <1>2, <1>3, <1>5, <1>6 DEF CallInv

LEMMA RequestKnows ==
  ASSUME IInv, NEW c \in Calls, call[c].stage # "idle"
  PROVE  call[c] \in Call /\ call[c] # Idle /\ CallFacts(c) /\ AnswerFacts(c)
BY DEF IInv, CallInv, Idle

\* A request begins with rows that are published, or has seen that they are not.
LEMMA LoadKeeps ==
  ASSUME IInv, Observe, NEW c \in Calls, NEW r \in Requests, Load(c, r)
  PROVE  TablesInv' /\ TrailInv' /\ PostInv' /\ CallInv'
<1>1. PICK e \in Episodes : e = r.episode
  BY EpisodesOfRequests
<1>2. PICK row \in EpisodeRow : row = episodes[e]
  BY <1>1, StoredRows DEF Load, IInv, TablesInv, SoundTables, TypedTables
<1>3. PICK s \in SeriesRow, t \in Times : s = series /\ t = now
  BY StoredRows DEF IInv, TablesInv, SoundTables, TypedTables
<1>4. PICK x : x = [stage |-> "loaded", request |-> r, row |-> row, series |-> s, at |-> t,
                    answer |-> "none", played |-> "none", methods |-> {}]
  OBVIOUS
<1>5. /\ x.stage = "loaded" /\ x.request = r /\ x.row = row /\ x.series = s /\ x.at = t
      /\ x.answer = "none" /\ x \in Call
  BY <1>4 DEF Call, Stages, Answers
<1>6. call' = [call EXCEPT ![c] = x]
  BY <1>1, <1>2, <1>3, <1>4 DEF Load
<1>7. call'[c] = x /\ call'[c] # Idle
  BY <1>5, <1>6, Different DEF IInv, CallInv
<1>8. ~Available(e, t) => "unavailable" \in seen'[c]
  BY <1>1, <1>5, <1>7, LookSees DEF Load
<1>9. {row.status, s.status} = {"published"} \/ ~Available(e, t)
  BY <1>1, <1>2, <1>3 DEF Available, EligibleSeries, EligibleEpisode
<1>10. CallFacts(c)' /\ AnswerFacts(c)'
  BY <1>5, <1>7, <1>8, <1>9 DEF CallFacts, AnswerFacts, Contradicted
<1> QED
  BY <1>5, <1>6, <1>10, MoveKeeps DEF Load

\* A refusal that the request has seen a reason for.
LEMMA DenyKeeps ==
  ASSUME IInv, Observe, Looks, NEW c \in Calls, call[c].stage # "idle",
         Answer(c, "missing"), Contradicted(c)'
  PROVE  TablesInv' /\ TrailInv' /\ PostInv' /\ CallInv'
<1>1. PICK i \in Call : i = call[c]
  BY RequestKnows
<1>2. PICK x : x = [i EXCEPT !.stage = "answered", !.answer = "missing"]
  OBVIOUS
<1>3. x.stage = "answered" /\ x.answer = "missing" /\ x \in Call
  BY <1>2 DEF Call, Stages, Answers
<1>4. call' = [call EXCEPT ![c] = x]
  BY <1>1, <1>2 DEF Answer, IInv, CallInv
<1>5. call'[c] = x
  BY <1>4 DEF IInv, CallInv
<1>6. CallFacts(c)' /\ AnswerFacts(c)'
  BY <1>3, <1>5 DEF CallFacts, AnswerFacts
<1> QED
  BY <1>3, <1>4, <1>6, MoveKeeps

\* A request that goes on, or is answered, after what it has seen.
LEMMA GoKeeps ==
  ASSUME IInv, Observe, Looks, NEW c \in Calls, call[c].stage # "idle",
         NEW x \in Call, call' = [call EXCEPT ![c] = x],
         x.stage # "loaded", x.answer # "none" => x.stage = "answered",
         x.answer # "missing",
         x.stage \in {"segment", "rights", "episode", "access", "mint"}
           \/ x.answer \in {"shown", "granted", "locked"} => "listed" \in seen'[c],
         x.stage \in {"access", "mint"} \/ x.answer \in {"shown", "granted", "locked"}
           => "open" \in seen'[c],
         x.stage \in {"access", "mint"} =>
           \/ Excused(c)'
           \/ /\ media[x.request.episode].state = "ready"
              /\ media[x.request.episode].language \in seen'[c],
         x.answer = "granted" /\ x.request.kind = "play" => x.played \in seen'[c] \/ Excused(c)'
  PROVE  TablesInv' /\ TrailInv' /\ PostInv' /\ CallInv'
<1>1. call'[c] = x
  BY DEF IInv, CallInv
<1>2. media' = media
  BY DEF Looks
<1>3. CallFacts(c)'
  BY <1>1, <1>2 DEF CallFacts
<1>4. AnswerFacts(c)'
  BY <1>1 DEF AnswerFacts
<1> QED
  BY <1>3, <1>4, MoveKeeps

LEMMA TakeTimeKeeps ==
  ASSUME IInv, Observe, NEW c \in Calls, TakeTime(c)
  PROVE  TablesInv' /\ TrailInv' /\ PostInv' /\ CallInv'
<1>1. PICK i \in Call : i = call[c] /\ CallFacts(c) /\ AnswerFacts(c)
  BY RequestKnows DEF TakeTime
<1>2. CASE {i.row.status, i.series.status} = {"published"}
  <2>1. PICK t \in Times : t = now
    BY DEF IInv, TablesInv
  <2>2. PICK x : x = [i EXCEPT !.stage = "series", !.at = t]
    OBVIOUS
  <2>3. x.stage = "series" /\ x.answer = i.answer /\ x \in Call
    BY <2>2 DEF Call, Stages
  <2>4. i.answer = "none"
    BY <1>1 DEF CallFacts, TakeTime
  <2>5. call' = [call EXCEPT ![c] = x]
    BY <1>1, <1>2, <2>1, <2>2 DEF TakeTime, IInv, CallInv
  <2> QED
    BY <1>1, <2>3, <2>4, <2>5, GoKeeps DEF TakeTime
<1>3. CASE {i.row.status, i.series.status} # {"published"}
  <2>1. Answer(c, "missing")
    BY <1>1, <1>3 DEF TakeTime
  <2>2. call'[c].stage = "answered"
    BY <2>1, <1>1 DEF Answer, IInv, CallInv, Call
  <2>3. seen[c] \subseteq seen'[c]
    BY <2>2, Observed
  <2>4. Contradicted(c)'
    BY <1>1, <1>3, <2>3 DEF CallFacts, TakeTime, Contradicted
  <2> QED
    BY <2>1, <2>4, DenyKeeps DEF TakeTime
<1> QED
  BY <1>2, <1>3

\* What a request that refuses sees of the rows it refused for.
LEMMA RefusalSees ==
  ASSUME IInv, Observe, Looks, NEW c \in Calls, call[c].stage # "idle", Answer(c, "missing"),
         NEW i \in Call, i = call[c],
         \/ ~Available(i.request.episode, i.at)
         \/ series # i.series
  PROVE  TablesInv' /\ TrailInv' /\ PostInv' /\ CallInv'
<1>1. call'[c] = [i EXCEPT !.stage = "answered", !.answer = "missing"]
  BY DEF Answer, IInv, CallInv
<1>2. /\ call'[c].at = i.at /\ call'[c].request = i.request /\ call'[c].series = i.series
      /\ call'[c] \in Call
  BY <1>1 DEF Call, Stages, Answers
<1>3. call'[c] # Idle
  BY <1>2, Different
<1>4. Contradicted(c)'
  BY <1>2, <1>3, LookSees DEF Contradicted
<1> QED
  BY <1>4, DenyKeeps

LEMMA QuerySeriesKeeps ==
  ASSUME IInv, Observe, NEW c \in Calls, QuerySeries(c)
  PROVE  TablesInv' /\ TrailInv' /\ PostInv' /\ CallInv'
<1>1. PICK i \in Call : i = call[c] /\ CallFacts(c) /\ AnswerFacts(c)
  BY RequestKnows DEF QuerySeries
<1>2. CASE EligibleSeries(i.at)
  <2>1. PICK x : x = [i EXCEPT !.stage = "segment"]
    OBVIOUS
  <2>2. /\ x.stage = "segment" /\ x.at = i.at /\ x.request = i.request /\ x.answer = i.answer
        /\ x.series = i.series /\ x \in Call
    BY <2>1 DEF Call, Stages
  <2>3. call' = [call EXCEPT ![c] = x]
    BY <1>1, <1>2, <2>1 DEF QuerySeries, Advance, IInv, CallInv
  <2>4. call'[c] = x /\ x # Idle
    BY <2>2, <2>3, Different DEF IInv, CallInv
  <2>5. "listed" \in seen'[c]
    BY <1>2, <2>2, <2>4, LookSees DEF QuerySeries
  <2>6. i.answer = "none"
    BY <1>1 DEF CallFacts, QuerySeries
  <2> QED
    BY <1>1, <2>2, <2>3, <2>5, <2>6, GoKeeps DEF QuerySeries
<1>3. CASE ~EligibleSeries(i.at)
  <2>1. ~Available(i.request.episode, i.at)
    BY <1>3 DEF Available
  <2> QED
    BY <1>1, <1>3, <2>1, RefusalSees DEF QuerySeries
<1> QED
  BY <1>2, <1>3

\* The two queries of the loaded series: the first of the segments, the second of the rights.
LEMMA QuerySegmentKeeps ==
  ASSUME IInv, Observe, NEW c \in Calls, QuerySegment(c)
  PROVE  TablesInv' /\ TrailInv' /\ PostInv' /\ CallInv'
<1>1. PICK i \in Call : i = call[c] /\ CallFacts(c) /\ AnswerFacts(c)
  BY RequestKnows DEF QuerySegment
<1>2. CASE InLaunch(Stored, i.series, "none")
  <2>1. PICK x : x = [i EXCEPT !.stage = "rights"]
    OBVIOUS
  <2>2. x.stage = "rights" /\ x.answer = i.answer /\ x \in Call
    BY <2>1 DEF Call, Stages
  <2>3. call' = [call EXCEPT ![c] = x]
    BY <1>1, <1>2, <2>1 DEF QuerySegment, Advance, IInv, CallInv
  <2>4. call'[c] = x
    BY <2>3 DEF IInv, CallInv
  <2>5. "listed" \in seen'[c] /\ i.answer = "none"
    BY <1>1, <2>2, <2>4, Observed DEF CallFacts, QuerySegment
  <2> QED
    BY <1>1, <2>2, <2>3, <2>5, GoKeeps DEF QuerySegment
<1>3. CASE ~InLaunch(Stored, i.series, "none")
  <2>1. series # i.series \/ ~Available(i.request.episode, i.at)
    BY <1>3 DEF Available, SeriesIsAdmitted
  <2> QED
    BY <1>1, <1>3, <2>1, RefusalSees DEF QuerySegment
<1> QED
  BY <1>2, <1>3

LEMMA QueryRightsKeeps ==
  ASSUME IInv, Observe, NEW c \in Calls, QueryRights(c)
  PROVE  TablesInv' /\ TrailInv' /\ PostInv' /\ CallInv'
<1>1. PICK i \in Call : i = call[c] /\ CallFacts(c) /\ AnswerFacts(c)
  BY RequestKnows DEF QueryRights
<1>2. CASE HasRights(Stored, i.series, i.at, "none")
  <2>1. PICK x : x = [i EXCEPT !.stage = "episode"]
    OBVIOUS
  <2>2. x.stage = "episode" /\ x.answer = i.answer /\ x \in Call
    BY <2>1 DEF Call, Stages
  <2>3. call' = [call EXCEPT ![c] = x]
    BY <1>1, <1>2, <2>1 DEF QueryRights, Advance, IInv, CallInv
  <2>4. call'[c] = x
    BY <2>3 DEF IInv, CallInv
  <2>5. "listed" \in seen'[c] /\ i.answer = "none"
    BY <1>1, <2>2, <2>4, Observed DEF CallFacts, QueryRights
  <2> QED
    BY <1>1, <2>2, <2>3, <2>5, GoKeeps DEF QueryRights
<1>3. CASE ~HasRights(Stored, i.series, i.at, "none")
  <2>1. series # i.series \/ ~Available(i.request.episode, i.at)
    BY <1>3 DEF Available, SeriesIsAdmitted
  <2> QED
    BY <1>1, <1>3, <2>1, RefusalSees DEF QueryRights
<1> QED
  BY <1>2, <1>3

\* The query of the episode sees it open, and the rights to the captions that it has.
LEMMA QueryEpisodeKeeps ==
  ASSUME IInv, Observe, NEW c \in Calls, QueryEpisode(c)
  PROVE  TablesInv' /\ TrailInv' /\ PostInv' /\ CallInv'
<1>1. PICK i \in Call : i = call[c] /\ CallFacts(c) /\ AnswerFacts(c)
  BY RequestKnows DEF QueryEpisode
<1>2. PICK e \in Episodes : e = i.request.episode
  BY EpisodesOfRequests DEF Call
<1>3. CASE EligibleEpisode(e, i.series, i.at)
  <2>1. PICK x : x = IF i.request.kind = "detail"
                     THEN [i EXCEPT !.stage = "answered", !.answer = "shown"]
                     ELSE [i EXCEPT !.stage = "access"]
    OBVIOUS
  <2>2. i.answer = "none"
    BY <1>1 DEF CallFacts, QueryEpisode
  <2>3. /\ x.stage \in {"answered", "access"} /\ x.at = i.at /\ x.request = i.request
        /\ x.stage = "answered" => x.answer = "shown"
        /\ x.stage = "access" => x.answer = "none"
        /\ x.series = i.series /\ x \in Call
    BY <2>1, <2>2 DEF Call, Stages, Answers
  <2>4. call' = [call EXCEPT ![c] = x]
    BY <1>1, <1>2, <1>3, <2>1 DEF QueryEpisode, Advance, Answer, IInv, CallInv
  <2>5. call'[c] = x /\ x # Idle
    BY <2>3, <2>4, Different DEF IInv, CallInv
  <2>6. "listed" \in seen'[c]
    BY <1>1, <2>3, <2>5, Observed DEF CallFacts, QueryEpisode
  <2>7. media[e].state = "ready" /\ Open(e, i.at) /\ AdmittedAsset(Stored, e, i.series, i.at)
    BY <1>3, StoredRows DEF EligibleEpisode, AdmittedAsset, Open
  <2>8. "open" \in seen'[c]
    BY <1>2, <2>3, <2>5, <2>7, LookSees DEF QueryEpisode
  <2>9. PICK f : f = media[e].language
    OBVIOUS
  <2>10. f \in Captions /\ media[e].captioned
    <3>1. media[e] \in Media
      BY StoredRows DEF IInv, TablesInv, SoundTables, TypedTables
    <3>2. media[e].state = "ready"
      BY <2>7
    <3> QED
      BY <2>9, <3>1, <3>2 DEF Media, NoMedia
  <2>11. i.series.owned \/ Licensed(Stored, i.series, i.at, f)
    BY <2>7, <2>9, <2>10, StoredRows DEF AdmittedAsset
  <2>12. f \in seen'[c] \/ Excused(c)'
    <3>1. CASE series = i.series
      BY <2>3, <2>5, <2>10, <2>11, <3>1, LookSees DEF QueryEpisode
    <3>2. CASE series # i.series
      BY <2>3, <2>5, <3>2, LookSees DEF QueryEpisode, Excused
    <3> QED
      BY <3>1, <3>2
  <2> QED
    BY <1>1, <1>2, <2>3, <2>4, <2>6, <2>7, <2>8, <2>9, <2>12, GoKeeps DEF QueryEpisode
<1>4. CASE ~EligibleEpisode(e, i.series, i.at)
  <2>1. series # i.series \/ ~Available(i.request.episode, i.at)
    BY <1>2, <1>4 DEF Available
  <2> QED
    BY <1>1, <1>2, <1>4, <2>1, RefusalSees DEF QueryEpisode
<1> QED
  BY <1>3, <1>4

\* A granted or locked answer follows what the queries have seen; playback goes on.
LEMMA DecideKeeps ==
  ASSUME IInv, Observe, NEW c \in Calls, Decide(c)
  PROVE  TablesInv' /\ TrailInv' /\ PostInv' /\ CallInv'
<1>1. PICK i \in Call : i = call[c] /\ CallFacts(c) /\ AnswerFacts(c)
  BY RequestKnows DEF Decide
<1>2. i.answer = "none"
  BY <1>1 DEF CallFacts, Decide
<1>3. PICK methods \in SUBSET {"rewarded_ad", "coin"} :
        methods = IF i.request.kind = "play" THEN {}
                  ELSE Methods(i.row, i.series, i.request.viewer)
  BY DEF Methods
<1>4. PICK x :
        /\ \/ x = [i EXCEPT !.stage = "mint"]
           \/ x = [i EXCEPT !.stage = "answered", !.answer = "granted"] /\ i.request.kind # "play"
           \/ x = [i EXCEPT !.stage = "answered", !.answer = "locked", !.methods = methods]
        /\ call' = [call EXCEPT ![c] = x]
  <2>1. CASE Advance(c, "mint")
    BY <1>1, <2>1 DEF Advance, IInv, CallInv
  <2>2. CASE i.request.kind # "play" /\ Answer(c, "granted")
    BY <1>1, <2>2 DEF Answer, IInv, CallInv
  <2>3. CASE call' = [call EXCEPT ![c].stage = "answered", ![c].answer = "locked",
                        ![c].methods = methods]
    BY <1>1, <2>3 DEF IInv, CallInv
  <2> QED
    BY <1>1, <1>3, <2>1, <2>2, <2>3 DEF Decide
<1>5. /\ x.stage \in {"answered", "mint"} /\ x.request = i.request
      /\ x.stage = "mint" => x.answer = "none"
      /\ x.stage = "answered" => x.answer \in {"granted", "locked"}
      /\ x.answer = "granted" => i.request.kind # "play"
      /\ x \in Call
  BY <1>2, <1>3, <1>4 DEF Call, Stages, Answers
<1>6. call'[c] = x
  BY <1>4 DEF IInv, CallInv
<1>7. seen[c] \subseteq seen'[c]
  BY <1>5, <1>6, Observed
<1>8. "listed" \in seen'[c] /\ "open" \in seen'[c]
  BY <1>1, <1>7 DEF CallFacts, Decide
<1>9. \/ Excused(c)'
      \/ /\ media[x.request.episode].state = "ready"
         /\ media[x.request.episode].language \in seen'[c]
  BY <1>1, <1>5, <1>7 DEF CallFacts, Decide, Excused
<1> QED
  BY <1>1, <1>4, <1>5, <1>8, <1>9, GoKeeps DEF Decide

\* The video that is played is the one there is now, and its licence was seen.
LEMMA MintKeeps ==
  ASSUME IInv, Observe, NEW c \in Calls, Mint(c) \/ ProviderRefuses(c)
  PROVE  TablesInv' /\ TrailInv' /\ PostInv' /\ CallInv'
<1>1. PICK i \in Call : i = call[c] /\ CallFacts(c) /\ AnswerFacts(c)
  BY RequestKnows DEF Mint, ProviderRefuses
<1>2. i.stage = "mint" /\ Looks
  BY <1>1 DEF Mint, ProviderRefuses
<1>3. PICK e \in Episodes : e = i.request.episode
  BY EpisodesOfRequests DEF Call
<1>4. CASE media[e].state # "ready"
  <2>1. ~Available(i.request.episode, i.at)
    BY <1>3, <1>4, StoredRows DEF Available, EligibleEpisode, AdmittedAsset
  <2>2. Answer(c, "missing")
    BY <1>1, <1>3, <1>4 DEF Mint, ProviderRefuses
  <2> QED
    BY <1>1, <1>2, <2>1, <2>2, RefusalSees
<1>5. CASE media[e].state = "ready"
  <2>1. PICK f \in Captions : f = media[e].language
    <3>1. media[e] \in Media
      BY StoredRows DEF IInv, TablesInv, SoundTables, TypedTables
    <3> QED
      BY <1>5, <3>1 DEF Media, NoMedia
  <2>2. PICK x :
          /\ \/ x = [i EXCEPT !.stage = "answered", !.answer = "granted", !.played = f]
             \/ x = [i EXCEPT !.stage = "answered", !.answer = "unavailable"]
          /\ call' = [call EXCEPT ![c] = x]
    BY <1>1, <1>3, <1>5, <2>1 DEF Mint, ProviderRefuses, Answer, IInv, CallInv
  <2>3. /\ x.stage = "answered" /\ x \in Call
        /\ x.answer \in {"granted", "unavailable"}
        /\ x.answer = "granted" => x.played = f
    BY <2>1, <2>2 DEF Call, Stages, Answers
  <2>4. call'[c] = x
    BY <2>2 DEF IInv, CallInv
  <2>5. seen[c] \subseteq seen'[c]
    BY <2>3, <2>4, Observed
  <2>6. "listed" \in seen'[c] /\ "open" \in seen'[c]
    BY <1>1, <1>2, <2>5 DEF CallFacts
  <2>7. f \in seen'[c] \/ Excused(c)'
    BY <1>1, <1>2, <1>3, <2>1, <2>5 DEF CallFacts, Excused
  <2> QED
    BY <1>1, <1>2, <2>2, <2>3, <2>6, <2>7, GoKeeps
<1> QED
  BY <1>4, <1>5

-----------------------------------------------------------------------------
(* Media, entitlements and time. *)

\* A step that changes neither rows nor posts nor requests keeps what is known.
LEMMA OutsideKeeps ==
  ASSUME IInv, Observe, UNCHANGED <<rows, post, call>>, now' \in Times,
         media' \in [Episodes -> Media], ReadyStays,
         access' \subseteq {e \in Episodes : episodes[e] # NoRow}
  PROVE  TablesInv' /\ TrailInv' /\ PostInv' /\ CallInv'
BY RowsKeep, PostsKeep, CallsKeep

\* One video changes, and does so by leaving the ready ones or joining them.
LEMMA VideoKeeps ==
  ASSUME IInv, Observe, UNCHANGED <<now, rows, access, post, call>>,
         NEW e \in Episodes, NEW m \in Media, media' = [media EXCEPT ![e] = m],
         media[e].state # "ready" \/ m.state # "ready"
  PROVE  TablesInv' /\ TrailInv' /\ PostInv' /\ CallInv'
<1>1. media \in [Episodes -> Media] /\ now \in Times
      /\ access \subseteq {x \in Episodes : episodes[x] # NoRow}
  BY StoredRows DEF IInv, TablesInv, SoundTables, TypedTables
<1>2. media' \in [Episodes -> Media]
  BY <1>1
<1>3. ReadyStays
  BY <1>1 DEF ReadyStays
<1> QED
  BY <1>1, <1>2, <1>3, OutsideKeeps

LEMMA MediaKeeps ==
  ASSUME IInv, Observe, NEW e \in Episodes,
         \/ \E language \in Captions, captioned \in BOOLEAN : Ingest(e, language, captioned)
         \/ StartPoll(e)
         \/ \E encoded \in BOOLEAN, captioned \in BOOLEAN : FinishPoll(e, encoded, captioned)
         \/ RemoveMedia(e)
  PROVE  TablesInv' /\ TrailInv' /\ PostInv' /\ CallInv'
<1>1. PICK was \in Media : was = media[e]
  BY StoredRows DEF IInv, TablesInv, SoundTables, TypedTables
<1>2. UNCHANGED <<now, rows, access, post, call>>
  BY DEF Ingest, StartPoll, FinishPoll, RemoveMedia
<1>3. NoMedia.state = "none" /\ NoMedia \in Media
  BY DEF NoMedia, Media
<1>4. \E m \in Media : /\ media' = [media EXCEPT ![e] = m]
                       /\ was.state # "ready" \/ m.state # "ready"
  <2>1. ASSUME NEW language \in Captions, NEW captioned \in BOOLEAN, Ingest(e, language, captioned)
        PROVE  \E m \in Media : /\ media' = [media EXCEPT ![e] = m]
                                /\ was.state # "ready" \/ m.state # "ready"
    <3>1. PICK m : m = [state |-> "unready", language |-> language, captioned |-> captioned]
      OBVIOUS
    <3>2. m \in Media /\ m.state = "unready"
      BY <3>1 DEF Media
    <3>3. media' = [media EXCEPT ![e] = m]
      BY <2>1, <3>1 DEF Ingest
    <3> QED
      BY <3>2, <3>3
  <2>2. CASE StartPoll(e)
    <3>1. was.state = "unready"
      BY <1>1, <2>2 DEF StartPoll
    <3>2. PICK m : m = [was EXCEPT !.state = "polled"]
      OBVIOUS
    <3>3. m \in Media /\ m.state = "polled"
      BY <1>3, <3>1, <3>2 DEF Media
    <3>4. media' = [media EXCEPT ![e] = m]
      BY <1>1, <2>2, <3>2 DEF StartPoll
    <3> QED
      BY <3>3, <3>4
  <2>3. ASSUME NEW encoded \in BOOLEAN, NEW captioned \in BOOLEAN, FinishPoll(e, encoded, captioned)
        PROVE  \E m \in Media : /\ media' = [media EXCEPT ![e] = m]
                                /\ was.state # "ready" \/ m.state # "ready"
    <3>1. was.state = "polled"
      BY <1>1, <2>3 DEF FinishPoll
    <3>2. PICK state : state = IF encoded /\ captioned THEN "ready" ELSE "unready"
      OBVIOUS
    <3>3. PICK m : m = [state |-> state, language |-> was.language, captioned |-> captioned]
      OBVIOUS
    <3>4. /\ was \in [state: {"unready", "polled", "ready"}, language: Captions,
                      captioned: BOOLEAN]
          /\ m \in Media
      BY <1>3, <3>1, <3>2, <3>3 DEF Media
    <3>5. media' = [media EXCEPT ![e] = m]
      <4>1. media' = [media EXCEPT ![e] = [[was EXCEPT !.state = state] EXCEPT !.captioned = captioned]]
        BY <1>1, <2>3, <3>2 DEF FinishPoll
      <4>2. PICK x : x = [was EXCEPT !.state = state]
        OBVIOUS
      <4>3. x = [state |-> state, language |-> was.language, captioned |-> was.captioned]
        BY <3>4, <4>2
      <4>4. [x EXCEPT !.captioned = captioned] = m
        BY <3>3, <4>3
      <4> QED
        BY <4>1, <4>2, <4>4
    <3> QED
      BY <3>1, <3>4, <3>5
  <2>4. CASE RemoveMedia(e)
    <3>1. media' = [media EXCEPT ![e] = NoMedia]
      BY <2>4 DEF RemoveMedia
    <3> QED
      BY <1>3, <3>1
  <2> QED
    BY <2>1, <2>2, <2>3, <2>4
<1> QED
  BY <1>1, <1>2, <1>4, VideoKeeps

LEMMA ChangeAccessKeeps ==
  ASSUME IInv, Observe, NEW e \in Episodes, ChangeAccess(e)
  PROVE  TablesInv' /\ TrailInv' /\ PostInv' /\ CallInv'
<1>1. now' \in Times /\ media' \in [Episodes -> Media] /\ UNCHANGED <<rows, post, call>>
  BY StoredRows DEF ChangeAccess, IInv, TablesInv, SoundTables, TypedTables
<1>2. access' \subseteq {x \in Episodes : episodes[x] # NoRow}
  BY DEF ChangeAccess, IInv, TablesInv
<1>3. ReadyStays
  BY DEF ChangeAccess, ReadyStays
<1> QED
  BY <1>1, <1>2, <1>3, OutsideKeeps

LEMMA TickKeeps ==
  ASSUME IInv, Observe, Tick
  PROVE  TablesInv' /\ TrailInv' /\ PostInv' /\ CallInv'
<1>1. now \in Times /\ Horizon \in Nat
  BY CatalogAssumption DEF IInv, TablesInv
<1>2. now' \in Times
  BY <1>1 DEF Tick, Times
<1>3. UNCHANGED <<rows, post, call>> /\ media' \in [Episodes -> Media]
      /\ access' \subseteq {e \in Episodes : episodes[e] # NoRow}
  BY StoredRows DEF Tick, IInv, TablesInv, SoundTables, TypedTables
<1>4. ReadyStays
  BY DEF Tick, ReadyStays
<1> QED
  BY <1>2, <1>3, <1>4, OutsideKeeps

\* Staff change no request; their deletions take media away.
LEMMA StaffKeeps ==
  ASSUME IInv, Observe, NEW p \in Staff,
         (\E ps \in Posts : Begin(p, ps)) \/ SaveForm(p) \/ Refuse(p) \/ Commit(p)
  PROVE  TablesInv' /\ TrailInv' /\ PostInv' /\ CallInv'
<1>1. TablesInv' /\ TrailInv' /\ PostInv'
  BY BeginKeeps, SaveFormKeeps, RefuseKeeps, CommitKeeps
<1>2. UNCHANGED call
  BY DEF Begin, SaveForm, Refuse, Commit
<1>3. ReadyStays
  <2> SUFFICES ASSUME NEW e \in Episodes, media'[e].state = "ready" PROVE media'[e] = media[e]
    BY DEF ReadyStays
  <2>1. CASE UNCHANGED media
    BY <2>1
  <2>2. CASE Commit(p)
    <3>1. media'[e] \in {NoMedia, media[e]}
      BY <2>2 DEF Commit, View, Written, Stored
    <3> QED
      BY <3>1 DEF NoMedia
  <2> QED
    BY <2>1, <2>2 DEF Begin, SaveForm, Refuse
<1> QED
  BY <1>1, <1>2, <1>3, CallsKeep

-----------------------------------------------------------------------------
(* The invariant. *)

LEMMA Initially == Init => IInv
<1> SUFFICES ASSUME Init PROVE IInv
  OBVIOUS
<1>1. series \in SeriesRow /\ SoundSeries(series)
  <2>1. PICK s \in RowsOf("series") : CleanSeries(Stored, s, now) /\ series = s
    BY DEF Init
  <2>2. PICK f \in Forms : f.table = "series" /\ s = f.row
    BY <2>1 DEF RowsOf
  <2> QED
    BY <2>1, <2>2, FormsOfTables DEF CleanSeries, SoundSeries
<1>2. now \in Times
  <2>1. Horizon \in Nat
    BY CatalogAssumption
  <2> QED
    BY <2>1 DEF Init, Times
<1>3. PICK d : d = Stored
  OBVIOUS
<1>4. /\ d.series = series /\ d.related = related /\ d.rights = rights
      /\ d.episodes = episodes /\ d.media = media
  BY <1>3 DEF Stored
<1>5. {} \in Tags /\ NoMedia \in Media
  BY DEF Tags, Media
<1>6. TypedTables(d)
  <2>1. related \in [Objects -> Tags]
    BY <1>5 DEF Init
  <2> QED
    BY <1>1, <1>4, <1>5, <2>1 DEF Init, TypedTables
<1>7. SoundTables(d)
  BY <1>1, <1>4, <1>6 DEF Init, SoundTables
<1>8. TablesInv
  BY <1>2, <1>3, <1>7 DEF Init, TablesInv
<1>9. TrailInv
  <2>1. \A e \in Episodes : e # "series" /\ Snapshot(episodes[e]) = <<>>
    BY Different DEF Init, Snapshot
  <2>2. \A x \in Objects : Snapshot(Policy(d, x)) = IF x = "series" THEN Snapshot(series) ELSE <<>>
    BY <1>4, <2>1 DEF Policy, Objects
  <2> QED
    BY <1>3, <2>2 DEF Init, TrailInv
<1>10. PostInv /\ CallInv
  BY DEF Init, PostInv, CallInv
<1> QED
  BY <1>8, <1>9, <1>10 DEF IInv

LEMMA NextKeeps == IInv /\ [Next]_vars => IInv'
<1> SUFFICES ASSUME IInv, [Next]_vars PROVE TablesInv' /\ TrailInv' /\ PostInv' /\ CallInv'
  BY DEF IInv
<1>1. CASE UNCHANGED vars
  <2>1. UNCHANGED <<now, rows, media, access, post, call, seen>>
    BY <1>1 DEF vars
  <2>2. /\ now' \in Times /\ media' \in [Episodes -> Media]
        /\ access' \subseteq {e \in Episodes : episodes[e] # NoRow}
    BY <2>1, StoredRows DEF IInv, TablesInv, SoundTables, TypedTables
  <2>3. TablesInv' /\ TrailInv' /\ PostInv'
    BY <2>1, <2>2, RowsKeep, PostsKeep
  <2>4. CallInv'
    BY <2>1 DEF IInv, CallInv, CallFacts, AnswerFacts, Excused, Contradicted
  <2> QED
    BY <2>3, <2>4
<1>2. CASE Next
  <2>1. Observe
    BY <1>2 DEF Next
  <2>2. ASSUME NEW p \in Staff,
               (\E ps \in Posts : Begin(p, ps)) \/ SaveForm(p) \/ Refuse(p) \/ Commit(p)
        PROVE  TablesInv' /\ TrailInv' /\ PostInv' /\ CallInv'
    BY <2>1, <2>2, StaffKeeps
  <2>3. ASSUME NEW e \in Episodes,
               \/ \E language \in Captions, captioned \in BOOLEAN : Ingest(e, language, captioned)
               \/ StartPoll(e)
               \/ \E encoded \in BOOLEAN, captioned \in BOOLEAN : FinishPoll(e, encoded, captioned)
               \/ RemoveMedia(e)
        PROVE  TablesInv' /\ TrailInv' /\ PostInv' /\ CallInv'
    BY <2>1, <2>3, MediaKeeps
  <2>4. ASSUME NEW e \in Episodes, ChangeAccess(e)
        PROVE  TablesInv' /\ TrailInv' /\ PostInv' /\ CallInv'
    BY <2>1, <2>4, ChangeAccessKeeps
  <2>5. ASSUME NEW c \in Calls, NEW r \in Requests, Load(c, r)
        PROVE  TablesInv' /\ TrailInv' /\ PostInv' /\ CallInv'
    BY <2>1, <2>5, LoadKeeps
  <2>6. ASSUME NEW c \in Calls,
               \/ TakeTime(c) \/ QuerySeries(c) \/ QuerySegment(c) \/ QueryRights(c)
               \/ QueryEpisode(c) \/ Decide(c) \/ Mint(c) \/ ProviderRefuses(c)
        PROVE  TablesInv' /\ TrailInv' /\ PostInv' /\ CallInv'
    BY <2>1, <2>6, TakeTimeKeeps, QuerySeriesKeeps, QuerySegmentKeeps, QueryRightsKeeps,
       QueryEpisodeKeeps, DecideKeeps, MintKeeps
  <2> QED
    BY <1>2, <2>1, <2>2, <2>3, <2>4, <2>5, <2>6, TickKeeps DEF Next
<1> QED
  BY <1>1, <1>2

\* In every reachable state the post that has the series still sees what it checked, the
\* trail says what the policies are, and each request has seen what its stage stands for.
THEOREM Invariance == Spec => []IInv
BY Initially, NextKeeps, PTL DEF Spec

\* Rows are of their columns and clean, requests and posts of theirs.
THEOREM TypeCorrect == Spec => []TypeOK
BY Invariance, TypesFollow, PTL

\* The last policy revision of an object says what its policy is, whoever edited it, in a
\* post of however many forms (catalog/audit.py).
THEOREM TrailsAreTrue == Spec => []TrailIsTrue
<1>1. IInv => TrailIsTrue
  BY StoredRows DEF IInv, TrailInv, TrailIsTrue, Policy
<1> QED
  BY Invariance, <1>1, PTL

\* What a viewer is shown, offered or granted was listed and open during the request
\* (catalog/eligibility.py).
THEOREM AnswersAreAvailable == Spec => []AnswersWereAvailable
<1>1. IInv => AnswersWereAvailable
  BY DEF IInv, CallInv, AnswerFacts, AnswersWereAvailable
<1> QED
  BY Invariance, <1>1, PTL

\* A refusal was true at some moment of the request, or the series was edited meanwhile.
THEOREM RefusalsHaveReasons == Spec => []RefusalsAreReal
<1>1. IInv => RefusalsAreReal
  BY DEF IInv, CallInv, AnswerFacts, Contradicted, RefusalsAreReal
<1> QED
  BY Invariance, <1>1, PTL

\* The video that is played was licensed with the captions it has, although they may have
\* come from the provider after its series was admitted without them (playback/ingest.py),
\* unless the series was edited or the video taken away between the queries.
THEOREM PlayedIsLicensed == Spec => []PlayedWasLicensed
<1>1. IInv => PlayedWasLicensed
  BY DEF IInv, CallInv, AnswerFacts, Excused, PlayedWasLicensed
<1> QED
  BY Invariance, <1>1, PTL

\* A post with nothing left to save ends by being committed.
LEMMA PostsAreCommitted ==
  ASSUME IInv, [Next]_vars, NEW p \in Staff, post[p] # Idle, ~Todo(p), post'[p] = Idle
  PROVE  Commit(p)
<1>1. post = [q \in Staff |-> post[q]]
  BY DEF IInv, PostInv
<1>2. ASSUME NEW q \in Staff, q # p, Begin(q, post'[q].forms) \/ SaveForm(q) \/ Refuse(q) \/ Commit(q)
      PROVE  FALSE
  <2>1. post'[p] = post[p]
    BY <1>1, <1>2 DEF Begin, SaveForm, Refuse, Commit
  <2> QED
    BY <2>1
<1>3. ASSUME NEW q \in Staff, NEW ps \in Posts, Begin(q, ps)
      PROVE  FALSE
  BY <1>3 DEF Begin, Unlocked
<1>4. ASSUME NEW q \in Staff, SaveForm(q) \/ Refuse(q) \/ Commit(q)
      PROVE  Commit(p)
  <2>1. q = p
    BY <1>2, <1>4
  <2> QED
    BY <1>4, <2>1 DEF SaveForm, Refuse
<1>5. UNCHANGED post => FALSE
  OBVIOUS
<1>6. CASE UNCHANGED vars
  BY <1>5, <1>6 DEF vars
<1>7. CASE Next
  BY <1>3, <1>4, <1>5, <1>7 DEF Next, Ingest, StartPoll, FinishPoll, RemoveMedia, ChangeAccess,
     Load, TakeTime, QuerySeries, QuerySegment, QueryRights, QueryEpisode, Decide, Mint,
     ProviderRefuses, Looks, Tick
<1> QED
  BY <1>6, <1>7

\* No other edit slips in between the check of what staff publish and its commit, nor does
\* the rest of the post undo it: it is listed, or its series may be, when it is stored, if
\* the post leaves the rights and the segments alone (catalog/locking.py).
THEOREM PublishedStaysListed == Spec => PublishedIsListed
<1> DEFINE Listed ==
      \A p \in Staff :
        post[p] # Idle /\ ~Todo(p) /\ post'[p] = Idle /\ Settled(post[p].forms) =>
          \A i \in DOMAIN post[p].forms, t \in Times :
            Publishes(post[p].forms[i]) /\ t = post[p].at[i] =>
              IF post[p].forms[i].table = "series" THEN EligibleSeries(t)'
              ELSE Publishable(Stored, t)'
<1>1. IInv /\ [Next]_vars => [Listed]_vars
  <2> SUFFICES ASSUME IInv, [Next]_vars PROVE Listed
    OBVIOUS
  <2> SUFFICES ASSUME NEW p \in Staff, post[p] # Idle, ~Todo(p), post'[p] = Idle,
                      Settled(post[p].forms),
                      NEW i \in DOMAIN post[p].forms, NEW t \in Times,
                      Publishes(post[p].forms[i]), t = post[p].at[i]
               PROVE  IF post[p].forms[i].table = "series" THEN EligibleSeries(t)'
                      ELSE Publishable(Stored, t)'
    OBVIOUS
  <2>1. Commit(p)
    BY PostsAreCommitted
  <2>2. PICK ps, at, d : ps = post[p].forms /\ at = post[p].at /\ d = Stored'
    OBVIOUS
  <2>3. d = View(p)
    BY <2>1, <2>2, CommitStores
  <2>4. PostFacts(p)
    BY DEF IInv, PostInv
  <2>5. i \in DOMAIN at
    <3>1. ps \in Seq(Forms) /\ at \in Seq(Times) /\ Len(at) <= Len(ps)
      BY <2>2, <2>4, FormsOfPosts DEF PostFacts
    <3>2. ~(Len(at) < Len(ps))
      BY <2>2 DEF Todo
    <3> QED
      BY <2>2, <3>1, <3>2
  <2>6. Publishable(d, t) /\ (ps[i].table = "series" => d.series = ps[i].row)
    BY <2>2, <2>3, <2>4, <2>5 DEF PostFacts, Sees
  <2>7. Publishable(Stored, t)'
    BY <2>2, <2>6
  <2>8. ps[i].table = "series" => EligibleSeries(t)'
    <3> SUFFICES ASSUME ps[i].table = "series" PROVE EligibleSeries(t)'
      OBVIOUS
    <3>1. d.series = series'
      BY <2>2 DEF Stored
    <3>2. series' = ps[i].row /\ series'.status = "published"
      BY <2>2, <2>6, <3>1 DEF Publishes
    <3>3. series' \in SeriesRow
      BY <2>3, <2>4, <3>1 DEF PostFacts, Sees, SoundTables, TypedTables
    <3>4. Titled(d, series', "series") /\ SeriesIsAdmitted(d, series', t, "none")
      BY <2>6, <3>1 DEF Publishable
    <3>5. series'.owned \in BOOLEAN
      BY <3>3 DEF SeriesRow
    <3> QED
      BY <2>2, <3>2, <3>4, <3>5 DEF EligibleSeries, SeriesIsAdmitted, InLaunch, HasRights
  <2> QED
    BY <2>2, <2>7, <2>8
<1> QED
  BY Invariance, <1>1, PTL DEF Spec, PublishedIsListed

=============================================================================
