------------------------------- MODULE MCCatalog -------------------------------
(* Instances of Catalog for TLC. *)
EXTENDS Catalog, TLC

LOCAL INSTANCE Functions

CONSTANTS e1, r1

Codes == [territory |-> {"FR"}, platform |-> {"android"}, storefront |-> {"google_play"},
          language |-> {"en", "de"}]
Context == [enabled |-> TRUE, territory |-> "FR", platform |-> "android",
            storefront |-> "google_play", language |-> "en", segment |-> "drama"]
Stores == [android |-> "google_play"]
Spelling == [c \in {"fr", "FR", "android", "google_play", "en", "de"} |->
               IF c = "fr" THEN "FR" ELSE c]

Licence == [status |-> "draft", takedown |-> FALSE, owned |-> FALSE, provenance |-> FALSE,
            promotional |-> FALSE, original |-> "en", titled |-> TRUE, free |-> 0, ads |-> TRUE,
            scope |-> [territory |-> {"FR"}, platform |-> {"android"},
                       storefront |-> {"google_play"}, language |-> {"en"}]]
Own == [Licence EXCEPT !.status = "published", !.owned = TRUE, !.provenance = TRUE,
                       !.promotional = TRUE, !.original = "de", !.free = 1]
\* Until time 1 with the right to captions, or for ever without them.
Right == [takedown |-> FALSE, drm |-> FALSE, permitted |-> TRUE, referenced |-> TRUE,
          shared |-> TRUE, starts |-> 0, ends |-> 1, allow |-> {"fr"}, deny |-> {},
          platforms |-> {"android"}, storefronts |-> {"google_play"}, languages |-> {"en"},
          originals |-> {"en"}, subtitles |-> {"en"}]
Chapter == [status |-> "published", opens |-> 0, closes |-> Never, titled |-> TRUE, order |-> 1,
            mode |-> "inherit", price |-> 0, duration |-> 1]

On(table, id, row) == [table |-> table, id |-> id, row |-> row]
OfSeries(row) == On("series", "series", row)
OfRight(row) == On("right", r1, row)
OfEpisode(row) == On("episode", e1, row)
Published == [Licence EXCEPT !.status = "published"]
Draft == [Chapter EXCEPT !.status = "draft", !.mode = "both", !.price = 1]
Uncaptioned == [Right EXCEPT !.ends = Never, !.subtitles = {}]

\* A row of its own page, or the page of the series with its segments, episodes and rights.
SomePosts ==
  {<<OfSeries([Licence EXCEPT !.takedown = TRUE])>>, <<OfSeries(Published)>>, <<OfSeries(Own)>>,
   <<OfSeries(Licence), On("related", "series", {"drama"})>>,
   <<OfSeries(Published), OfRight(NoRow)>>,
   <<OfSeries(Published), OfEpisode(Chapter)>>,
   <<OfRight(Right)>>, <<OfRight(Uncaptioned)>>,
   <<OfEpisode(NoRow)>>, <<OfEpisode(Draft)>>, <<OfEpisode(Chapter)>>}
SomeForms == UNION {Range(ps) : ps \in SomePosts}

Ask(kind, viewer) == [kind |-> kind, viewer |-> viewer, episode |-> e1]
SomeRequests == {Ask("detail", "anonymous"), Ask("offers", "signed in"), Ask("play", "signed in")}

\* Bounds of the instance.  An answer ends a behaviour, since the next request starts
\* afresh.  Captions in another language come only with a video that replaces another during
\* a request, when nobody posts.  No post is pending while the rows are loaded, nor after an
\* edit of the series, and the segment stays during a request.  The viewer has access only when
\* it is looked at, or when there is no request.
FewChanges ==
  /\ media[e1].language = "de" =>
       /\ \E c \in Calls : call[c].stage \in {"access", "mint", "answered"}
       /\ \A p \in Staff : post[p] = Idle
  /\ \A c \in Calls : call[c] # Idle =>
      /\ call[c].stage # "answered"
      /\ related["series"] # {}
      /\ call[c].stage \in {"access", "mint", "answered"} \/ access = {}
      /\ call[c].stage = "loaded" \/ "edited" \in seen[c] => \A p \in Staff : post[p] = Idle

\* A post shows nothing before its commit: while one is pending no request moves, and the
\* media and the access change only if there is no request.
PostsAlone ==
  (\E p \in Staff : post[p] # Idle) =>
    /\ UNCHANGED call
    /\ (\E c \in Calls : call[c] # Idle) => \/ \E p \in Staff : post'[p] # post[p]
                                            \/ now' # now

Colleagues == Permutations(Staff)
=============================================================================
