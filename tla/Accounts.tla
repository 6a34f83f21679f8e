------------------------------ MODULE Accounts ------------------------------
(***************************************************************************)
(* Accounts and what is deleted with them: backend/apps/accounts and       *)
(* backend/apps/progress.  A request signs in, saves watch progress, edits *)
(* preferences or deletes its account; operators retry deletions that the  *)
(* identity provider did not finish and expire the progress of guests.     *)
(*                                                                         *)
(* A transaction is a sequence of steps between the locks it waits for:    *)
(* held is the rows it has locked or written, which nobody else sees until *)
(* it commits.  Foreign keys are checked when a transaction commits.       *)
(***************************************************************************)
EXTENDS Authentication, Integers, FiniteSets, SequencesExt

CONSTANTS
  Uids,      \* users of the identity provider
  Earlier,   \* users whose deletion is pending from the start
  Devices,   \* guests
  Active,    \* the users and guests who still send requests
  Headers,   \* the Authorization headers that requests bring
  DeviceIds, \* and their X-Device-Id headers
  Episodes,
  Duration,  \* of an episode, in seconds
  Reports,   \* positions that players send, and whether they claim completion
  Calls,     \* requests
  Workers,   \* operators' commands
  Limit      \* deletions retried, or rows expired, by one command

Key == Active \X Episodes
Row == [position: 0 .. Duration, completed: BOOLEAN, old: BOOLEAN]
NoRow == [position |-> -1]

ASSUME AccountsAssumption ==
  /\ Uids \cap Devices = {}
  /\ Duration \in Nat
  /\ Earlier \subseteq Uids /\ IsFiniteSet(Earlier)
  /\ Active \subseteq Uids \cup Devices
  /\ Reports \subseteq Int \X BOOLEAN
  /\ Limit \in Nat \ {0}
  \* Firebase Admin answers with claims, or raises one of the errors it has.
  /\ \A h \in Headers : h.scheme = "bearer" => h.says \in {"valid"} \cup DOMAIN FailureOf

VARIABLES
  firebase,  \* the provider's users
  profile,   \* users with a profile
  requested, \* the deletions, oldest commit first
  completed, \* users whose deletion is completed and whose uid is erased
  rows,      \* watch progress; old is last saved twelve months ago
  call

vars == <<firebase, profile, requested, completed, rows, call>>
Deleted == ToSet(requested)
Pending == Deleted \ completed

Idle == [stage |-> "idle", held |-> {}]
Patch == [stage: {"patch"}, held: {{}}, uid: Uids]
Put == [stage: {"look up", "create", "get", "save", "insert"}, held: SUBSET Key,
        key: Key, position: 0 .. Duration, finished: BOOLEAN]
\* left is what the command has still to retry.
Deletion == [stage: {"request", "delete", "process", "provider", "complete"},
             held: SUBSET Key, uid: Uids, left: Seq(Uids)]
Expiry == [stage: {"expire"}, held: SUBSET Key]

TypeOK ==
  /\ firebase \subseteq Uids
  /\ profile \subseteq Uids
  /\ requested \in Seq(Uids) /\ IsInjective(requested)
  /\ completed \subseteq Deleted
  /\ rows \in [Key -> Row \cup {NoRow}]
  /\ call \in [Calls \cup Workers -> {Idle} \cup Patch \cup Put \cup Deletion \cup Expiry]

Init ==
  /\ firebase = Uids
  /\ profile = {}
  /\ requested = SetToSeq(Earlier)
  /\ completed = {}
  /\ rows = [k \in Key |-> NoRow]
  /\ call = [c \in Calls \cup Workers |-> Idle]

-----------------------------------------------------------------------------
Exists(k) == rows[k] # NoRow
End(c) == call' = [call EXCEPT ![c] = Idle]
Others(c) == (Calls \cup Workers) \ {c}

\* SELECT ... FOR UPDATE of a row, and an insert next to an uncommitted one, wait.
Unlocked(c, k) == \A o \in Others(c) : k \notin call[o].held

\* pg_advisory_xact_lock of an identity, taken by a transaction that deletes it;
\* the other takers are a single step.
IdentityFree(u) ==
  \A o \in Calls : call[o].stage = "delete" => call[o].uid # u

\* SELECT ... FOR UPDATE of a deletion's receipt.
ReceiptFree(u) ==
  \A o \in Calls \cup Workers : call[o].stage \in {"provider", "complete"} => call[o].uid # u

-----------------------------------------------------------------------------
(* Signing in. *)

\* The backend in production, its verifier started.
Server == [mode |-> "admin", app |-> "ready", users |-> firebase, now |-> 5]
Verifies(h, u) ==
  LET verified == VerifyFirebaseToken(h, Server) IN
  verified.failure = "none" /\ verified.uid = u

\* A token is verified, then get_or_create_profile: no profile for a deleted identity.
SignIn(u) ==
  /\ \E h \in Headers : Verifies(h, u)
  /\ IdentityFree(u)
  /\ u \notin Deleted
  /\ profile' = profile \cup {u}

StartPatch(c, u) ==
  /\ call[c] = Idle
  /\ SignIn(u)
  /\ call' = [call EXCEPT ![c] = [stage |-> "patch", held |-> {}, uid |-> u]]
  /\ UNCHANGED <<firebase, requested, completed, rows>>

\* Mutant of PatchMe: the profile that was read is saved.
PatchMeSaves(c) ==
  /\ call[c].stage = "patch"
  /\ profile' = profile \cup {call[c].uid}
  /\ End(c)
  /\ UNCHANGED <<firebase, requested, completed, rows>>

\* PATCH /v1/me updates the row if it is still there.
PatchMe(c) ==
  /\ call[c].stage = "patch"
  /\ End(c)
  /\ UNCHANGED <<firebase, profile, requested, completed, rows>>

-----------------------------------------------------------------------------
(* PUT /v1/progress/{episode}: upsert_watch_progress. *)

\* Mutant of Clamped: only positions past the end are corrected.
ClampedAbove(report) == IF report > Duration THEN Duration ELSE report

\* clamp_position_seconds.
Clamped(report) == IF report < 0 THEN 0 ELSE IF report > Duration THEN Duration ELSE report

\* resolve_completed; an update adds what the row says already.
ResolveCompleted(position, claimed) ==
  claimed \/ (Duration > 0 /\ position * 100 >= Duration * 95)

\* An optional sign-in; a guest brings a device id.
StartPut(c, s, e, r) ==
  /\ call[c] = Idle
  /\ \/ SignIn(s)
     \/ /\ \E h \in Headers : OptionalToken(h, Server).failure = "anonymous"
        /\ \E d \in DeviceIds : IsDeviceId(d) /\ d.id = s
        /\ UNCHANGED profile
  /\ call' = [call EXCEPT ![c] =
       [stage |-> "look up", held |-> {}, key |-> <<s, e>>,
        position |-> Clamped(r[1]),
        finished |-> ResolveCompleted(Clamped(r[1]), r[2])]]
  /\ UNCHANGED <<firebase, requested, completed, rows>>

\* The row is locked until the transaction ends, and what it says is read.
LockRow(c) ==
  LET k == call[c].key IN
  /\ Unlocked(c, k)
  /\ call' = [call EXCEPT ![c].stage = "save", ![c].held = {k},
                          ![c].finished = @ \/ rows[k].completed]

LookUp(c) ==
  /\ call[c].stage = "look up"
  /\ IF Exists(call[c].key) THEN LockRow(c) ELSE call' = [call EXCEPT ![c].stage = "create"]
  /\ UNCHANGED <<firebase, profile, requested, completed, rows>>

\* Mutant of Create: a conflict with an insert that is not committed fails at once.
CreateFails(c) ==
  LET k == call[c].key IN
  /\ call[c].stage = "create"
  /\ IF Exists(k) \/ ~Unlocked(c, k)
     THEN call' = [call EXCEPT ![c].stage = "get"]
     ELSE call' = [call EXCEPT ![c].stage = "insert", ![c].held = {k}]
  /\ UNCHANGED <<firebase, profile, requested, completed, rows>>

\* An insert waits for one that is not committed and fails if that commits.
Create(c) ==
  LET k == call[c].key IN
  /\ call[c].stage = "create"
  /\ Unlocked(c, k)
  /\ IF Exists(k)
     THEN call' = [call EXCEPT ![c].stage = "get"]
     ELSE call' = [call EXCEPT ![c].stage = "insert", ![c].held = {k}]
  /\ UNCHANGED <<firebase, profile, requested, completed, rows>>

\* Mutant of Get: the row that won is read without its lock.
GetUnlocked(c) ==
  LET k == call[c].key IN
  /\ call[c].stage = "get"
  /\ IF Exists(k)
     THEN call' = [call EXCEPT ![c].stage = "save", ![c].finished = @ \/ rows[k].completed]
     ELSE End(c)
  /\ UNCHANGED <<firebase, profile, requested, completed, rows>>

\* After the conflict the row is read again; DoesNotExist is a 500.
Get(c) ==
  /\ call[c].stage = "get"
  /\ IF Exists(call[c].key) THEN LockRow(c) ELSE End(c)
  /\ UNCHANGED <<firebase, profile, requested, completed, rows>>

\* The deferred foreign key of an inserted row.
Commits(c) == call[c].key[1] \in Uids => call[c].key[1] \in profile

\* The row is written and the transaction commits.
Save(c) ==
  LET k == call[c].key IN
  /\ \/ call[c].stage = "save"
     \/ call[c].stage = "insert" /\ Commits(c)
  /\ rows' = [rows EXCEPT ![k] =
       [position |-> call[c].position, completed |-> call[c].finished,
        old |-> FALSE]]
  /\ End(c)
  /\ UNCHANGED <<firebase, profile, requested, completed>>

InsertFails(c) ==
  /\ call[c].stage = "insert"
  /\ ~Commits(c)
  /\ End(c)
  /\ UNCHANGED <<firebase, profile, requested, completed, rows>>

-----------------------------------------------------------------------------
(* DELETE of an account: request_account_deletion, then process_account_deletion. *)

\* No profile is made, so a retry does not bring it back.
StartDeletion(c, u) ==
  /\ call[c] = Idle
  /\ \E h \in Headers : /\ Verifies(h, u)
                        /\ RecentlySignedIn(VerifyFirebaseToken(h, Server), Server)
  /\ call' = [call EXCEPT ![c] =
       [stage |-> "request", held |-> {}, uid |-> u, left |-> <<>>]]
  /\ UNCHANGED <<firebase, profile, requested, completed, rows>>

\* The identity is locked, the receipt got or made, and the rows that can be seen
\* are deleted, each when nobody else holds it.
RequestDeletion(c) ==
  LET u == call[c].uid
      seen == {k \in Key : k[1] = u /\ Exists(k)} IN
  /\ call[c].stage = "request"
  /\ IdentityFree(u)
  /\ \A k \in seen : Unlocked(c, k)
  /\ call' = [call EXCEPT ![c].stage = "delete", ![c].held = seen]
  /\ UNCHANGED <<firebase, profile, requested, completed, rows>>

\* A row that was committed since makes the foreign key fail: nothing is deleted
\* and the request is answered 500.
CommitDeletion(c) ==
  LET u == call[c].uid IN
  /\ call[c].stage = "delete"
  /\ IF \E k \in Key : k[1] = u /\ Exists(k) /\ k \notin call[c].held
     THEN End(c) /\ UNCHANGED <<profile, requested, rows>>
     ELSE /\ profile' = profile \ {u}
          /\ requested' = IF u \in Deleted THEN requested ELSE Append(requested, u)
          /\ rows' = [k \in Key |-> IF k \in call[c].held THEN NoRow ELSE rows[k]]
          /\ call' = [call EXCEPT ![c].stage = "process", ![c].held = {}]
  /\ UNCHANGED <<firebase, completed>>

\* The next receipt of the command, if there is one.
Continue(c) ==
  IF call[c].left = <<>> THEN End(c)
  ELSE call' = [call EXCEPT ![c].stage = "process",
                            ![c].uid = Head(call[c].left), ![c].left = Tail(@)]

\* The receipt stays locked while the provider is asked.
LockReceipt(c) ==
  /\ call[c].stage = "process"
  /\ ReceiptFree(call[c].uid)
  /\ IF call[c].uid \in completed
     THEN Continue(c)
     ELSE call' = [call EXCEPT ![c].stage = "provider"]
  /\ UNCHANGED <<firebase, profile, requested, completed, rows>>

\* Mutant of DeleteFirebaseUser: a user who is not found is a failure.
DeleteFoundUser(c) ==
  /\ call[c].stage = "provider"
  /\ call[c].uid \in firebase
  /\ firebase' = firebase \ {call[c].uid}
  /\ call' = [call EXCEPT ![c].stage = "complete"]
  /\ UNCHANGED <<profile, requested, completed, rows>>

\* delete_firebase_user: a user who is not found is deleted.
DeleteFirebaseUser(c) ==
  /\ call[c].stage = "provider"
  /\ firebase' = firebase \ {call[c].uid}
  /\ call' = [call EXCEPT ![c].stage = "complete"]
  /\ UNCHANGED <<profile, requested, completed, rows>>

\* The attempt is counted and the receipt stays pending.
ProviderFails(c) ==
  /\ call[c].stage = "provider"
  /\ Continue(c)
  /\ UNCHANGED <<firebase, profile, requested, completed, rows>>

\* The receipt is completed and forgets the uid.
Complete(c) ==
  /\ call[c].stage = "complete"
  /\ completed' = completed \cup {call[c].uid}
  /\ Continue(c)
  /\ UNCHANGED <<firebase, profile, requested, rows>>

-----------------------------------------------------------------------------
(* The operators' commands, and time. *)

\* order_by("requested_at"): the oldest of the pending receipts, in their order.
Place(u) == CHOOSE i \in DOMAIN requested : requested[i] = u
OldestPending(batch) ==
  /\ \A i, j \in DOMAIN batch : i < j => Place(batch[i]) < Place(batch[j])
  /\ \A u \in Pending \ ToSet(batch), v \in ToSet(batch) : Place(v) < Place(u)

\* retry_account_deletions: as many of them as the command may take.
Retry(w) ==
  LET pending == Cardinality(Pending)
      taken == IF pending < Limit THEN pending ELSE Limit IN
  /\ call[w] = Idle
  /\ \E batch \in [1 .. taken -> Pending] :
       /\ batch # <<>>
       /\ OldestPending(batch)
       /\ call' = [call EXCEPT ![w] = [stage |-> "process", held |-> {},
                                       uid |-> Head(batch), left |-> Tail(batch)]]
  /\ UNCHANGED <<firebase, profile, requested, completed, rows>>

\* expire_guest_progress looks for the rows of guests only.
Expirable(k) == Exists(k) /\ rows[k].old /\ k[1] \in Devices

\* A batch of them is locked; rows that somebody holds are skipped.
LockExpired(w) ==
  /\ call[w] = Idle
  /\ \E batch \in SUBSET {k \in Key : Expirable(k) /\ Unlocked(w, k)} :
       /\ batch # {}
       /\ Cardinality(batch) <= Limit
       /\ call' = [call EXCEPT ![w] = [stage |-> "expire", held |-> batch]]
  /\ UNCHANGED <<firebase, profile, requested, completed, rows>>

DeleteExpired(w) ==
  /\ call[w].stage = "expire"
  /\ rows' = [k \in Key |-> IF k \in call[w].held /\ Expirable(k) THEN NoRow ELSE rows[k]]
  /\ End(w)
  /\ UNCHANGED <<firebase, profile, requested, completed>>

\* The worker dies: its transaction is rolled back, what the provider did stays.
\* (A command that waits for a receipt has nothing to lose.)
Crash(c) ==
  /\ call[c] # Idle
  /\ call[c].stage = "process" => c \in Calls
  /\ End(c)
  /\ UNCHANGED <<firebase, profile, requested, completed, rows>>

\* Twelve months pass, which no request lasts.
Age ==
  /\ \A c \in Calls \cup Workers : call[c] = Idle
  /\ rows' = [k \in Key |-> IF Exists(k) THEN [rows[k] EXCEPT !.old = TRUE] ELSE NoRow]
  /\ UNCHANGED <<firebase, profile, requested, completed, call>>

-----------------------------------------------------------------------------
\* One step of a running call.
Step(c) ==
  \/ PatchMe(c) \/ LookUp(c) \/ Create(c) \/ Get(c) \/ Save(c) \/ InsertFails(c)
  \/ RequestDeletion(c) \/ CommitDeletion(c) \/ LockReceipt(c)
  \/ DeleteFirebaseUser(c) \/ ProviderFails(c) \/ Complete(c) \/ DeleteExpired(c)

Next ==
  \/ \E c \in Calls :
       \/ \E u \in Uids \cap Active : StartPatch(c, u) \/ StartDeletion(c, u)
       \/ \E s \in Active, e \in Episodes, r \in Reports : StartPut(c, s, e, r)
  \/ \E w \in Workers : Retry(w) \/ LockExpired(w)
  \/ \E c \in Calls \cup Workers : Step(c) \/ Crash(c)
  \/ Age

Spec == Init /\ [][Next]_vars

\* Operators run the retry again and again (docs/runbooks/account-lifecycle.md), a
\* lock that is freed again and again is got, and a retry that is tried again and
\* again for a user is not failed by the provider, nor killed, for ever.
FairSpec ==
  /\ Spec
  /\ \A c \in Calls \cup Workers : WF_vars(Step(c))
  /\ \A w \in Workers :
       /\ SF_vars(Retry(w))
       /\ SF_vars(LockReceipt(w))
       /\ \A u \in Uids : /\ SF_vars(DeleteFirebaseUser(w) /\ call[w].uid = u)
                          /\ SF_vars(Complete(w) /\ call[w].uid = u)

-----------------------------------------------------------------------------
(* Properties. *)

\* Once a deletion is recorded the account never comes back: not by a request
\* that signed in before, not by a retry, and no progress of it is left.
DeletedStaysDeleted ==
  /\ Deleted \cap profile = {}
  /\ \A k \in Key : k[1] \in Deleted => ~Exists(k)

\* Progress that says completed says so until it is deleted, whichever of two
\* concurrent reports is saved last.
CompletedIsSticky ==
  [][\A k \in Key : Exists(k) /\ rows[k].completed /\ Exists(k)' => rows'[k].completed]_vars

\* A report that lost the race to insert finds the row that won, unless the
\* account is gone: no live viewer is answered 500.
LoserFindsRow ==
  \A c \in Calls : call[c].stage = "get" => Exists(call[c].key) \/ call[c].key[1] \in Deleted

\* Every recorded deletion is completed in the end, whatever was interrupted.
DeletionsComplete == Pending # {} ~> Pending = {}
=============================================================================
