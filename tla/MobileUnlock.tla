----------------------------- MODULE MobileUnlock -----------------------------
(***************************************************************************)
(* Coin unlocks on one phone: the pending journal of                       *)
(* mobile/src/features/wallet/pendingCoinUnlock.ts, the unlock screen and  *)
(* the auto-unlock of the player, with an app that dies, viewers that sign *)
(* in and out, a storage that fails and calls that are lost or late.       *)
(*                                                                         *)
(* What a screen was told of prices and balances only decides whether it   *)
(* offers the unlock; a server that disagrees refuses the request.  Of the *)
(* server only the end of a request is seen, as CoinAccount has it.  A     *)
(* session and the profile the server knows it by are one.                 *)
(***************************************************************************)
EXTENDS Phone, Integers, FiniteSets

CONSTANTS
  Episodes, Requests,
  Screens,   \* unlock screens, until they close or the app dies
  Players,   \* players that unlock the next episode, likewise
  AutoOn,    \* profiles with auto_unlock_next
  Legacy     \* attempts that a release before the journal left in their markers

VARIABLES
  journal,  \* SecureStore: the unresolved attempt of a profile
  marker,   \* SecureStore: the attempt of a profile and an episode
  queue,    \* storageOperation: the task that is between two writes, or None
  task,     \* what a screen or a player does
  made,     \* attempts with their request ids
  told,     \* attempts whose completion this phone was told
  debits,   \* unlocks on their way to the server: the account charged and the attempt
  checks,   \* resolutions on their way, likewise
  outcome   \* the server: how each account's requests ended

store == <<journal, marker>>
server == <<debits, checks, outcome>>
unlockVars == <<session, store, queue, task, made, told, server>>

Tasks == Screens \cup Players

UnlockAttempt == [profile: Viewers, episode: Episodes, request: Requests]
Message == [account: Viewers, attempt: UnlockAttempt]
Running == [profile: Viewers, episode: Episodes, attempt: UnlockAttempt \cup {None}, current: BOOLEAN,
            stage: {"read", "show", "pending", "write", "mark", "unlock", "resolve", "clear", "clean"}]
NoTask == [stage |-> "idle"]

UnlockTypeOK ==
  /\ session \in Viewers \cup {None}
  /\ journal \in [Viewers -> UnlockAttempt \cup {None}]
  /\ marker \in [Viewers -> [Episodes -> UnlockAttempt \cup {None}]]
  /\ queue \in Tasks \cup {None}
  /\ task \in [Tasks -> Running \cup {NoTask}]
  /\ made \subseteq UnlockAttempt
  /\ told \subseteq made
  /\ debits \subseteq Message
  /\ checks \subseteq Message
  /\ outcome \in [Viewers -> [Requests -> {"open", "completed", "cancelled"}]]

\* A marker of the release before, whose debit was perhaps never sent or is still on its way.
UnlockInit ==
  /\ session = None
  /\ journal = [p \in Viewers |-> None]
  /\ marker = [p \in Viewers |-> [e \in Episodes |->
       IF \E a \in Legacy : a.profile = p /\ a.episode = e
       THEN CHOOSE a \in Legacy : a.profile = p /\ a.episode = e ELSE None]]
  /\ queue = None
  /\ task = [t \in Tasks |-> NoTask]
  /\ made = Legacy
  /\ told = {}
  /\ debits \in SUBSET {[account |-> a.profile, attempt |-> a] : a \in Legacy}
  /\ checks = {}
  /\ outcome = [p \in Viewers |-> [r \in Requests |-> "open"]]

-----------------------------------------------------------------------------
(* pendingCoinUnlock.ts: every operation waits for the one before (serialized). *)

JournalOf(t) == journal[task[t].profile]
MarkerOf(t) == marker[task[t].profile][task[t].episode]

\* isCurrent: a screen that is left, or whose session changed, writes nothing more;
\* a player does not ask.
MayProceed(t) == t \in Screens => task[t].current

\* What a task ends with, a screen loads again when it is opened again.
End(t) == task' = [task EXCEPT ![t] = NoTask]
Goto(t, stage) == task' = [task EXCEPT ![t].stage = stage]

\* Mutant of NoOther: only the record of the episode is compared.
NoOtherHere(t) == MarkerOf(t) \in {None, task[t].attempt}

\* Neither record holds an attempt other than the task's.
NoOther(t) == {JournalOf(t), MarkerOf(t)} \subseteq {None, task[t].attempt}

\* readPendingCoinUnlock: the journal, or else a marker of the release before, which
\* is written to the journal if that works.
Recovered(t) == IF JournalOf(t) # None THEN JournalOf(t) ELSE MarkerOf(t)
Conflicting(t) ==
  /\ JournalOf(t) # None
  /\ JournalOf(t).episode # task[t].episode \/ MarkerOf(t) \notin {None, JournalOf(t)}

Read(t) ==
  /\ task[t].stage = "read"
  /\ queue = None
  /\ \/ /\ ~Conflicting(t) /\ task[t].current
        /\ task' = [task EXCEPT ![t].attempt = Recovered(t),
                                ![t].stage = IF Recovered(t) = None THEN "show" ELSE "pending"]
        /\ \/ journal' = [journal EXCEPT ![task[t].profile] = Recovered(t)]
           \/ JournalOf(t) = None /\ Recovered(t) # None /\ UNCHANGED journal
     \/ End(t) /\ UNCHANGED journal \* an error, or nothing to unlock
  /\ UNCHANGED <<session, marker, queue, made, told, server>>

\* writePendingCoinUnlock: the journal first.
WriteJournal(t) ==
  /\ task[t].stage = "write"
  /\ queue = None
  /\ \/ /\ NoOther(t) /\ MayProceed(t)
        /\ journal' = [journal EXCEPT ![task[t].profile] = task[t].attempt]
        /\ queue' = t
        /\ Goto(t, "mark")
     \/ End(t) /\ UNCHANGED <<journal, queue>>
  /\ UNCHANGED <<session, marker, made, told, server>>

\* The marker, and only then the debit, with the credential of the moment: without one
\* nothing is sent.
WriteMarker(t) ==
  /\ task[t].stage = "mark"
  /\ queue' = None
  /\ \/ /\ MayProceed(t)
        /\ marker' = [marker EXCEPT ![task[t].profile][task[t].episode] = task[t].attempt]
        /\ \/ /\ session # None
              /\ debits' = debits \cup {[account |-> session, attempt |-> task[t].attempt]}
              /\ Goto(t, "unlock")
           \/ session = None /\ End(t) /\ UNCHANGED debits
     \/ End(t) /\ UNCHANGED <<marker, debits>>
  /\ UNCHANGED <<session, journal, made, told, checks, outcome>>

\* clearPendingCoinUnlock: the marker first, then the journal.
ClearMarker(t) ==
  /\ task[t].stage = "clear"
  /\ queue = None
  /\ \/ /\ NoOther(t) /\ MayProceed(t)
        /\ marker' = [marker EXCEPT ![task[t].profile][task[t].episode] = None]
        /\ queue' = t
        /\ Goto(t, "clean")
     \/ End(t) /\ UNCHANGED <<marker, queue>>
  /\ UNCHANGED <<session, journal, made, told, server>>

ClearJournal(t) ==
  /\ task[t].stage = "clean"
  /\ queue' = None
  /\ \/ MayProceed(t) /\ journal' = [journal EXCEPT ![task[t].profile] = None]
     \/ UNCHANGED journal
  /\ End(t)
  /\ UNCHANGED <<session, marker, made, told, server>>

-----------------------------------------------------------------------------
(* EpisodeUnlockScreen.tsx and autoUnlock.ts. *)

Fresh == Requests \ {a.request : a \in made}

Started(e, attempt, stage) ==
  [profile |-> session, episode |-> e, attempt |-> attempt, current |-> TRUE, stage |-> stage]

\* load of the screen, on opening it, by its button or on return to the app.
OpenScreen(t, e) ==
  /\ t \in Screens /\ task[t] = NoTask
  /\ session # None
  /\ task' = [task EXCEPT ![t] = Started(e, None, "read")]
  /\ UNCHANGED <<session, store, queue, made, told, server>>

\* spend: the viewer confirms; the attempt gets a request id of its own.
Spend(t, r) ==
  /\ task[t].stage = "show" /\ task[t].current
  /\ r \in Fresh
  /\ LET a == [profile |-> task[t].profile, episode |-> task[t].episode, request |-> r]
     IN /\ task' = [task EXCEPT ![t].attempt = a, ![t].stage = "write"]
        /\ made' = made \cup {a}
  /\ UNCHANGED <<session, store, queue, told, server>>

\* tryUnlock, up to its first write: the profile is the one that getMe answered for.
AutoUnlock(t, e, r) ==
  /\ t \in Players /\ task[t] = NoTask
  /\ session \in AutoOn
  /\ r \in Fresh
  /\ LET a == [profile |-> session, episode |-> e, request |-> r]
     IN /\ task' = [task EXCEPT ![t] = Started(e, a, "write")]
        /\ made' = made \cup {a}
  /\ UNCHANGED <<session, store, queue, told, server>>

\* resolvePending: the button of a pending attempt.  An end that is stored is not
\* asked for again but answered at once.
Check(t) ==
  /\ t \in Screens
  /\ task[t].stage = "pending" /\ task[t].current
  /\ Goto(t, "resolve")
  /\ checks' = checks \cup (IF outcome[session][task[t].attempt.request] = "open"
                            THEN {[account |-> session, attempt |-> task[t].attempt]} ELSE {})
  /\ UNCHANGED <<session, store, queue, made, told, debits, outcome>>

\* No answer in time, or one that proves nothing: the attempt stays where it is stored,
\* whatever becomes of the request.
Unanswers(t) ==
  /\ task[t].stage \in {"unlock", "resolve"}
  /\ IF t \in Screens /\ task[t].current THEN Goto(t, "pending") ELSE End(t)
  /\ UNCHANGED <<session, store, queue, made, told, server>>

OnItsWay(t) == \E m \in debits : m.attempt = task[t].attempt

\* The end of the request that the task hears of: whoever paid answers an unlock, the
\* viewer's own account a resolution.
Ended(t, end) ==
  \E p \in Viewers :
    /\ task[t].stage = "resolve" => p = task[t].profile
    /\ outcome[p][task[t].attempt.request] = end

\* Mutant of Proves: a call that got no answer counts as refused.
ProvesByFailure(t) ==
  \/ Ended(t, "completed")
  \/ task[t].stage = "resolve" /\ Ended(t, "cancelled")
  \/ task[t].stage = "unlock" /\ t \in Screens

\* Answers that end an attempt: a receipt, a terminal record, or, on the screen, the
\* refusal of the first send (400, 404, 409).
Proves(t) ==
  \/ Ended(t, "completed")
  \/ task[t].stage = "resolve" /\ Ended(t, "cancelled")
  \/ task[t].stage = "unlock" /\ t \in Screens /\ ~OnItsWay(t)

Receive(t) ==
  /\ task[t].stage \in {"unlock", "resolve"}
  /\ MayProceed(t) /\ Proves(t)
  /\ Goto(t, "clear")
  /\ told' = IF Ended(t, "completed") THEN told \cup {task[t].attempt} ELSE told
  /\ UNCHANGED <<session, store, queue, made, server>>

-----------------------------------------------------------------------------
(* The phone: sessions, navigation, the death of the app. *)

\* A screen that waits for its viewer ends at once, another at its next step.
Left(ts) ==
  [t \in Tasks |->
     IF t \notin ts \/ task[t] = NoTask THEN task[t]
     ELSE IF task[t].stage \in {"show", "pending"} THEN NoTask
     ELSE [task[t] EXCEPT !.current = FALSE]]

ViewerSignsIn(p) ==
  /\ session = None
  /\ session' = p
  /\ UNCHANGED <<store, queue, task, made, told, server>>

ViewerSignsOut ==
  /\ session # None
  /\ session' = None
  /\ task' = Left(Screens)
  /\ UNCHANGED <<store, queue, made, told, server>>

\* A screen is left; what it started goes on.
Leave(t) ==
  /\ t \in Screens
  /\ task[t] # NoTask /\ task[t].current
  /\ task' = Left({t})
  /\ UNCHANGED <<session, store, queue, made, told, server>>

\* The app dies or is killed; the session of Firebase and the storage stay.
AppDies ==
  /\ \E t \in Tasks : task[t] # NoTask
  /\ task' = [t \in Tasks |-> NoTask]
  /\ queue' = None
  /\ UNCHANGED <<session, store, made, told, server>>

-----------------------------------------------------------------------------
(* The server. *)

\* Requests that can decide nothing any more are dropped.
Decide(m, end) ==
  /\ outcome[m.account][m.attempt.request] = "open"
  /\ outcome' = [outcome EXCEPT ![m.account][m.attempt.request] = end]
  /\ debits' = debits \ {m}
  /\ checks' = checks \ {m}
  /\ UNCHANGED <<session, store, queue, task, made, told>>

\* unlock_episode, or its refusal; a request that is lost stays on its way.
ServeUnlock(m) == m \in debits /\ Decide(m, "completed")

RefuseUnlock(m) ==
  /\ m \in debits
  /\ debits' = debits \ {m}
  /\ UNCHANGED <<session, store, queue, task, made, told, checks, outcome>>

\* resolve_unlock: an open request is cancelled for good.
ServeResolve(m) == m \in checks /\ Decide(m, "cancelled")

UnlockNext ==
  \/ \E t \in Tasks :
       \/ Read(t) \/ WriteJournal(t) \/ WriteMarker(t) \/ ClearMarker(t) \/ ClearJournal(t)
       \/ Check(t) \/ Unanswers(t) \/ Receive(t) \/ Leave(t)
       \/ \E e \in Episodes : OpenScreen(t, e)
       \/ \E r \in Requests : Spend(t, r)
       \/ \E e \in Episodes, r \in Requests : AutoUnlock(t, e, r)
  \/ \E p \in Viewers : ViewerSignsIn(p)
  \/ ViewerSignsOut
  \/ AppDies
  \/ \E m \in debits \cup checks : ServeUnlock(m) \/ RefuseUnlock(m) \/ ServeResolve(m)

UnlockSpec == UnlockInit /\ [][UnlockNext]_unlockVars

-----------------------------------------------------------------------------
(* Correctness. *)

Stored(a) == a \in {journal[a.profile], marker[a.profile][a.episode]}

\* A debit of its own account that may still happen, or happened and was not answered.
Unanswered ==
  {a \in made :
     \/ [account |-> a.profile, attempt |-> a] \in debits
     \/ a \notin told /\ outcome[a.profile][a.request] = "completed"}

\* The phone never loses an attempt whose debit may still arrive or was not answered:
\* not when the app dies between two writes, when the storage fails, when a screen is
\* left or when the answer is late.  What the journal has is never in conflict with
\* the marker of its episode, so the screen of that episode can read and check it
\* (pendingCoinUnlock.ts:55, EpisodeUnlockScreen.tsx:409).
UnansweredIsRecoverable ==
  \A a \in Unanswered :
    /\ Stored(a)
    /\ journal[a.profile] = a => marker[a.profile][a.episode] \in {None, a}

\* An account has at most one such debit on a phone, however many screens and
\* players it started for however many episodes, beside the markers of the
\* release before (pendingCoinUnlock.ts:158).
OneUnanswered == \A a, b \in Unanswered \ Legacy : a.profile = b.profile => a = b
=============================================================================
