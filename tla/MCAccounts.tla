----------------------------- MODULE MCAccounts -----------------------------
(* An instance of Accounts for TLC, and inputs of ContinueWatching and Authentication. *)
EXTENDS Accounts

\* Tokens that a user signed in for now and long ago, that are not the user's any
\* more or nobody's, and no token.
Bearer(says, uid, authTime) ==
  [scheme |-> "bearer", form |-> "word", says |-> says, uid |-> uid, fits |-> TRUE,
   authTime |-> authTime]
SomeHeaders ==
  {Bearer("valid", u, t) : u \in Uids \cup {"stranger"}, t \in {Never, -2, 5}}
    \cup {Bearer(says, u, 5) : says \in {"expired", "revoked"}, u \in Uids}
    \cup {[scheme |-> "missing"], [scheme |-> "basic"]}
SomeDeviceIds == {[form |-> "uuid", id |-> d] : d \in Devices} \cup {[form |-> "blank"]}

Resume == INSTANCE ContinueWatching

\* Below the beginning, and just past the 95 % that complete an episode.
SomeReports == {<<-1, FALSE>>, <<95, FALSE>>}

\* Three episodes of one series and one of another; what the viewer watched of them
\* and when it was saved, twice at the same time if at all; and what is eligible.
SeriesOf == <<1, 1, 1, 2>>
Watchings == [1..4 -> {"no", "part", "all"}]
Saves == [1..4 -> 1..2]
Progress(w, s) ==
  {[pk |-> 5 - e, viewer |-> 1, episode |-> e, position |-> 10 * e,
    completed |-> w[e] = "all", saved |-> s[e]] : e \in {x \in 1..4 : w[x] # "no"}}
\* Another viewer has finished everything, since.
Roommate == {[pk |-> 5 + e, viewer |-> 2, episode |-> e, position |-> 90, completed |-> TRUE,
             saved |-> 3] : e \in 1..4}
Eligible(x) == <<SelectSeq(<<1, 2, 3>>, LAMBDA e : e \in x), SelectSeq(<<4>>, LAMBDA e : e \in x)>>

Later(r, q) == r.saved > q.saved \/ (r.saved = q.saved /\ r.pk > q.pk)
Right(w, s, x, most) ==
  LET history == Progress(w, s)
      of(v) == {r \in history : SeriesOf[r.episode] = v}
      last(v) == CHOOSE r \in of(v) : \A q \in of(v) : q = r \/ Later(r, q)
      left(v) == {e \in x : /\ SeriesOf[e] = v
                            /\ w[e] # "all"
                            /\ last(v).episode \in x => last(v).episode <= e}
      items == Resume!ListContinueWatching(history \cup Roommate, 1, SeriesOf, Eligible(x), most)
      offered == {SeriesOf[i.episode] : i \in ToSet(items)}
  IN /\ Len(items) = Cardinality(offered) /\ Len(items) <= most
     /\ \A i \in DOMAIN items :
          LET v == SeriesOf[items[i].episode] IN
          /\ of(v) # {}
          /\ items[i].episode \in left(v)
          /\ \A e \in left(v) : items[i].episode <= e
          /\ items[i].position = IF w[items[i].episode] = "no" THEN 0 ELSE 10 * items[i].episode
          /\ i > 1 => Later(last(SeriesOf[items[i - 1].episode]), last(v))
     /\ \A v \in {1, 2} \ offered : of(v) # {} =>
          left(v) = {} \/ (Len(items) = most /\ \A u \in offered : Later(last(u), last(v)))
WrongResumes == {<<w, s, x, most>> \in Watchings \X Saves \X (SUBSET (1..4)) \X (1..2) :
                   ~Right(w, s, x, most)}

\* A viewer is offered to continue at most one episode of a series, never one that is
\* not eligible or that is finished, at the position it was left, the series watched
\* last first; it is the episode watched last unless that is finished or gone, and
\* then nothing unfinished lies between the two; and a series is missing only when
\* nothing is left of it or the list is full (progress/continue_watching.py:32).
ASSUME ResumesAreRight == WrongResumes = {}

-----------------------------------------------------------------------------
Tokens == [form: {"word", "long"}, mocks: BOOLEAN, appId: {"android", "other"}]
SomeRequests ==
  [api: {TRUE}, path: {"me", "admob callback", "purchase callback"},
   method: {"GET", "POST", "PUT"}, length: {-1, 0, 1, 3}, chunked: BOOLEAN,
   media: {"json", "empty form", "form"}, token: Tokens]
Servers ==
  [enforced: BOOLEAN, appCheck: {"mock", "admin"}, appId: {"android", "none"}, maxBody: {2},
   project: BOOLEAN, installed: {TRUE}, initialized: BOOLEAN, initializes: BOOLEAN]

\* Where App Check is enforced with Firebase Admin a view of the API runs for the
\* configured app only, and only once Firebase Admin runs; the stores' callbacks run
\* without it and no body that is too long or of another kind gets to any view.
ASSUME OnlyTheAppReachesViews ==
  \A q \in SomeRequests, s \in Servers : Admitted(q, s) =>
    /\ (q.method # "GET" /\ q.length > 0) => (q.length <= 2 /\ q.media # "form")
    /\ (s.enforced /\ s.appCheck = "admin" /\ (q.path = "me" \/ (q.path # "admob callback" /\ q.method = "GET")))
         => (q.token = [form |-> "word", mocks |-> q.token.mocks, appId |-> "android"] /\ s.project)
ASSUME CallbacksNeedNoApp ==
  \A q \in SomeRequests, s \in Servers :
    (q.path # "me" /\ q.method = "POST" /\ q.length = 1 /\ q.media = "json") => Admitted(q, s)

\* What the first request of a process found of Firebase is what its requests find
\* until it restarts, though it was the network that failed
\* (accounts/verification.py:120).
ASSUME VerifierIsLatched ==
  \A starts \in [1..3 -> BOOLEAN] :
    FoldLeft(EnsureApp, "new", starts) = IF starts[1] THEN "ready" ELSE "failed"
=============================================================================
