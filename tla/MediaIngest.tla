----------------------------- MODULE MediaIngest -----------------------------
(***************************************************************************)
(* The media of one episode: backend/apps/playback/ingest.py and its Admin.*)
(* Staff upload a master, through the Admin form or to a signed URL that   *)
(* they complete later; the master is submitted to the video provider;     *)
(* reconciling polls the encoding; a takedown deletes it.                  *)
(*                                                                         *)
(* Three requests read a row before they lock it and are split into steps. *)
(* The Admin's add form (ingest_master) is one transaction, whose rows     *)
(* nobody sees before it ends.  complete_staff_upload claims its row,      *)
(* commits, and then talks to the provider with no transaction and no lock.*)
(* A post of the read-only page of a row reads the instance and saves it.  *)
(* Everything else locks its row from the read to the commit and is one    *)
(* step; an Admin action on a selection is one step for each of its rows.  *)
(***************************************************************************)
EXTENDS FiniteSets, BunnyStream

CONSTANTS
  Assets,     \* primary keys of MediaAsset rows, in the order they are given out
  Checksums,
  Objects,    \* the ids the provider gives to submitted videos
  NoObject,   \* the empty provider_asset_id
  Calls,      \* requests that upload, complete or save a page
  Absent,     \* no row
  Kinds,      \* of those requests, the ones staff make: add, complete, page
  Staffing    \* staff work together, or alone: they start nothing while a request runs

States == {"pending_upload", "uploaded", "processing", "ready", "failed", "removed"}
InFlight == {"pending_upload", "uploaded", "processing", "ready"}
Allowed == [s \in States |->
  CASE s = "pending_upload" -> {"pending_upload", "uploaded", "failed", "removed"}
    [] s = "uploaded"       -> {"uploaded", "processing", "failed", "removed"}
    [] s = "processing"     -> {"processing", "ready", "failed", "removed"}
    [] s = "ready"          -> {"ready", "removed"}
    [] s = "failed"         -> {"failed", "processing", "removed"}
    [] s = "removed"        -> {"removed"}]

Row == [state: States, checksum: Checksums, object: Objects \cup {NoObject}]

ASSUME AssetsAssumption ==
  /\ Assets \subseteq Nat \ {0}
  /\ IsFiniteSet(Assets)
  /\ Absent \notin Row \cup Assets
  /\ NoObject \notin Objects
  /\ Kinds \subseteq {"add", "complete", "page"}
  /\ Staffing \subseteq {"alone", "together"}

\* A video at the provider.  "bare" is encoded without captions or thumbnail;
\* "abandoned" was left behind by a request that did not survive.
RemoteStates == {"none", "processing", "ready", "bare", "failed", "deleted", "abandoned"}

\* Row locks have the names of their rows, the unique index on an episode's
\* in-flight rows, where an uncommitted entry makes other writers wait, this one.
Index == 0

VARIABLES
  asset,   \* committed MediaAsset rows of the episode
  remote,  \* the provider's videos
  episode, \* whether the episode exists
  call,    \* requests that are running
  staff    \* an element of Staffing, for the whole behaviour

vars == <<asset, remote, episode, call, staff>>

Idle == [stage |-> "idle", held |-> {}]
Running == [stage: {"insert", "reuse", "clear", "read", "submit", "save", "fail", "page"},
            kind: Kinds,
            row: Assets \cup {Absent},
            checksum: Checksums,
            seen: Row \cup {Absent}, \* the instance the request works on
            mine: Row \cup {Absent}, \* what its transaction has written
            object: Objects \cup {NoObject},
            held: SUBSET (Assets \cup {Index})]

TypeOK ==
  /\ asset \in [Assets -> Row \cup {Absent}]
  /\ remote \in [Objects -> RemoteStates]
  /\ episode \in BOOLEAN
  /\ call \in [Calls -> Running \cup {Idle}]
  /\ staff \in Staffing

Init ==
  /\ asset = [r \in Assets |-> Absent]
  /\ remote = [o \in Objects |-> "none"]
  /\ episode = TRUE
  /\ call = [c \in Calls |-> Idle]
  /\ staff \in Staffing

-----------------------------------------------------------------------------
Rows == {r \in Assets : asset[r] # Absent}
Active == {r \in Rows : asset[r].state \in InFlight}
NextRow(r) == r \notin Rows /\ \A q \in Assets : q < r => q \in Rows

\* Nobody else holds a lock, nobody does.
Free(c, names) == \A o \in Calls \ {c} : call[o].held \cap names = {}
Unheld(names) == \A c \in Calls : call[c].held \cap names = {}

MayStart == staff = "alone" => \A c \in Calls : call[c] = Idle
MayRequest(kind) == kind \in Kinds /\ MayStart

Expired(o) == [remote EXCEPT ![o] = "deleted"]

End(c) == call' = [call EXCEPT ![c] = Idle]

\* The request is refused by the form, and its transaction commits what it wrote.
Settle(c) ==
  /\ asset' = IF call[c].mine = Absent THEN asset
              ELSE [asset EXCEPT ![call[c].row] = call[c].mine]
  /\ End(c)

\* The whole row is written, unless it is gone or would be a second in-flight one.
Write(c, row) ==
  LET r == call[c].row IN
  /\ Free(c, {r})
  /\ row.state \in InFlight => Free(c, {Index})
  /\ asset' = IF \/ row.state \in InFlight /\ Active \ {r} # {}
                 \/ r \notin Rows /\ call[c].mine = Absent
              THEN asset
              ELSE [asset EXCEPT ![r] = row]
  /\ End(c)

Start(c, kind, stage, r, k) ==
  call' = [call EXCEPT ![c] =
    [stage |-> stage, kind |-> kind, row |-> r, checksum |-> k,
     seen |-> IF r = Absent THEN Absent ELSE asset[r],
     mine |-> Absent, object |-> NoObject, held |-> {}]]

-----------------------------------------------------------------------------
(* The Admin's add form: ingest_master. *)

\* With in-flight media the upload is refused, or reconciles the same master,
\* which is Reconcile.
Add(c, k) ==
  LET siblings == {r \in Rows : asset[r].checksum = k /\ asset[r].state = "failed"} IN
  /\ call[c] = Idle
  /\ MayRequest("add")
  /\ episode
  /\ Active = {}
  /\ IF siblings = {}
     THEN Start(c, "add", "insert", Absent, k)
     ELSE Start(c, "add", "reuse", CHOOSE r \in siblings : \A q \in siblings : q <= r, k)
  /\ UNCHANGED <<asset, remote, episode>>

\* The new row, unless someone's became active first.
Insert(c) ==
  /\ call[c].stage = "insert"
  /\ Free(c, {Index})
  /\ \/ /\ Active # {} \/ ~episode
        /\ End(c)
     \/ /\ Active = {}
        /\ episode
        /\ \E r \in Assets :
             /\ NextRow(r)
             /\ call' = [call EXCEPT
                  ![c].stage = "read", ![c].row = r, ![c].held = {Index, r},
                  ![c].mine = [state |-> "uploaded", checksum |-> call[c].checksum,
                               object |-> NoObject]]
  /\ UNCHANGED <<asset, remote, episode>>

\* Mutant of Expire: the failed video stays at the provider.
ExpireNothing(c) ==
  /\ call[c].stage = "reuse"
  /\ call' = [call EXCEPT ![c].stage = "clear"]
  /\ UNCHANGED <<asset, remote, episode>>

\* A failed row is used again; its video is deleted first, or nothing happens.
Expire(c) ==
  /\ call[c].stage = "reuse"
  /\ \/ /\ call[c].seen.object = NoObject
        /\ call' = [call EXCEPT ![c].stage = "clear"]
        /\ UNCHANGED remote
     \/ /\ call[c].seen.object # NoObject
        /\ \E gone \in Deletions :
             IF gone
             THEN /\ remote' = Expired(call[c].seen.object)
                  /\ call' = [call EXCEPT ![c].stage = "clear"]
             ELSE /\ remote' \in {remote, Expired(call[c].seen.object)}
                  /\ End(c)
  /\ UNCHANGED <<asset, episode>>

\* Only the provider id is written, whatever the row has become meanwhile.
Clear(c) ==
  LET r == call[c].row IN
  /\ call[c].stage = "clear"
  /\ Free(c, {r})
  /\ IF r \notin Rows THEN End(c)
     ELSE call' = [call EXCEPT ![c].stage = "read", ![c].held = {r},
                               ![c].mine = [asset[r] EXCEPT !.object = NoObject]]
  /\ UNCHANGED <<asset, remote, episode>>

-----------------------------------------------------------------------------
(* The signed upload. *)

\* begin_staff_upload: a row to complete, or the one already pending.
BeginUpload(k) ==
  /\ episode
  /\ Unheld({Index})
  /\ Active = {}
  /\ \E r \in Assets :
       /\ NextRow(r)
       /\ asset' = [asset EXCEPT ![r] =
            [state |-> "pending_upload", checksum |-> k, object |-> NoObject]]
  /\ UNCHANGED <<remote, episode, call>>

\* complete_staff_upload claims the row of an object that was put and verified.
Complete(c, r) ==
  /\ Unheld({r})
  /\ asset[r].state = "pending_upload"
  /\ asset' = [asset EXCEPT ![r].state = "uploaded"]
  /\ Start(c, "complete", "read", r, asset[r].checksum)
  /\ UNCHANGED <<remote, episode>>

-----------------------------------------------------------------------------
(* _submit_to_provider, in either request. *)

\* The instance is read again, or the title is no longer admitted.
Read(c) ==
  LET r == call[c].row
      row == IF call[c].mine # Absent THEN call[c].mine ELSE asset[r] IN
  /\ call[c].stage = "read"
  /\ \/ /\ row # Absent
        /\ call' = [call EXCEPT ![c].stage = "submit", ![c].seen = row]
        /\ UNCHANGED asset
     \/ Settle(c)
  /\ UNCHANGED <<remote, episode>>

\* The provider takes the master, refuses it, or keeps a video whose id is lost.
\* Its "not found" is not among the errors that mark the row failed: it ends the
\* request, and with it the transaction of an add form.
Submit(c) ==
  /\ call[c].stage = "submit"
  /\ \E sent \in Submissions :
       /\ CASE sent.answer = "missing" -> End(c)
            [] sent.answer = "error" -> call' = [call EXCEPT ![c].stage = "fail"]
            [] sent.answer = "id" -> \E o \in Objects :
                 call' = [call EXCEPT ![c].stage = "save", ![c].object = o]
       /\ IF ~sent.made THEN UNCHANGED remote
          ELSE \E o \in Objects :
            /\ remote[o] = "none"
            /\ sent.answer = "id" => call'[c].object = o
            /\ remote' = [remote EXCEPT ![o] =
                 IF sent.answer = "id" THEN "processing" ELSE "abandoned"]
  /\ UNCHANGED <<asset, episode>>

\* The whole instance is saved as it was read before the provider was called.
Saved(c) ==
  IF call[c].stage = "save"
  THEN [call[c].seen EXCEPT !.state = "processing", !.object = call[c].object]
  ELSE [call[c].seen EXCEPT !.state = "failed"]

\* Transitions are checked on that instance, constraints by the database.  An
\* error in either names no field of the form and rolls the request back.
Save(c) ==
  /\ call[c].stage \in {"save", "fail"}
  /\ \/ /\ Saved(c).state \notin Allowed[call[c].seen.state]
        /\ End(c)
        /\ UNCHANGED asset
     \/ /\ Saved(c).state \in Allowed[call[c].seen.state]
        /\ Write(c, Saved(c))
  /\ UNCHANGED <<remote, episode>>

\* The worker dies: an add form is rolled back, the provider keeps its video.
Crash(c) ==
  /\ call[c] # Idle
  /\ remote' = IF call[c].stage = "save"
               THEN [remote EXCEPT ![call[c].object] = "abandoned"] ELSE remote
  /\ End(c)
  /\ UNCHANGED <<asset, episode>>

-----------------------------------------------------------------------------
(* The page of a row: nothing on it can be edited, and it can be posted. *)

\* The post reads the instance, without a lock.
LoadPage(c, r) ==
  /\ call[c] = Idle
  /\ MayRequest("page")
  /\ r \in Rows
  /\ Start(c, "page", "page", r, asset[r].checksum)
  /\ UNCHANGED <<asset, remote, episode>>

\* save_model writes back what was read, if it is consistent.
SavePage(c) ==
  /\ call[c].stage = "page"
  /\ \/ /\ call[c].seen.state = "ready"
        /\ call[c].seen.object = NoObject
        /\ End(c)
        /\ UNCHANGED asset
     \/ /\ call[c].seen.state = "ready" => call[c].seen.object # NoObject
        /\ Write(c, call[c].seen)
  /\ UNCHANGED <<remote, episode>>

-----------------------------------------------------------------------------
(* reconcile, takedown_asset, and the deletion of the episode. *)

\* Mutant of Polled: the provider's word is taken over.
PolledVerbatim(row) ==
  IF row.object = NoObject THEN {[row EXCEPT !.state = "failed"]}
  ELSE {[row EXCEPT !.state = remote[row.object]]}

\* Mutant of Polled: an encoded video is ready without captions and thumbnail.
PolledBare(row) ==
  IF row.object # NoObject /\ remote[row.object] \in {"ready", "bare"}
  THEN {[row EXCEPT !.state = "ready"]}
  ELSE {[row EXCEPT !.state = "failed"]}

\* _poll_and_apply: what may become of a row.  A failing status check fails it.
Polled(row) ==
  {[row EXCEPT !.state = "failed"]}
  \cup IF row.object = NoObject THEN {}
       ELSE CASE remote[row.object] = "processing" -> {row}
              [] remote[row.object] = "ready" /\ "ready" \in Allowed[row.state]
                   -> {[row EXCEPT !.state = "ready"]}
              [] OTHER -> {}

\* Mutant of Reconcile: removed media is polled like failed media.
ReconcileRemoved(r) ==
  /\ Unheld({r})
  /\ asset[r].state \in {"processing", "removed"}
  /\ \E row \in Polled(asset[r]) : asset' = [asset EXCEPT ![r] = row]
  /\ UNCHANGED <<remote, episode, call>>

Reconcile(r) ==
  /\ Unheld({r})
  /\ \/ /\ asset[r].state \in {"pending_upload", "uploaded", "processing"}
        /\ \E row \in Polled(asset[r]) : asset' = [asset EXCEPT ![r] = row]
     \/ /\ asset[r].state = "failed"
        /\ Active = {}
        /\ Unheld({Index})
        /\ \E row \in Polled([asset[r] EXCEPT !.state = "processing"]) :
             asset' = [asset EXCEPT ![r] = row]
  /\ UNCHANGED <<remote, episode, call>>

\* Mutant of Takedown: the row is removed even if the provider refuses.
TakedownFailsOpen(r) ==
  /\ Unheld({r})
  /\ remote' \in {remote} \cup
       {Expired(o) : o \in {asset[r].object} \ {NoObject}}
  /\ asset' = [asset EXCEPT ![r].state = "removed"]
  /\ UNCHANGED <<episode, call>>

\* The video is deleted and then the row removed; any error leaves the row, and the
\* video as well unless only the answer was lost.
Takedown(r) ==
  /\ Unheld({r})
  /\ IF asset[r].object = NoObject
     THEN /\ asset' = [asset EXCEPT ![r].state = "removed"]
          /\ UNCHANGED remote
     ELSE \E gone \in Deletions :
          /\ remote' \in {remote, Expired(asset[r].object)}
          /\ gone => remote' = Expired(asset[r].object)
          /\ asset' = IF gone THEN [asset EXCEPT ![r].state = "removed"] ELSE asset
  /\ UNCHANGED <<episode, call>>

\* The cascade expires the videos of the episode one by one.  An error refuses the deletion,
\* and the videos expired before it, or by it when only the answer was lost, stay so.
DeleteEpisode ==
  LET named == {asset[r].object : r \in Rows} \ {NoObject} IN
  /\ MayStart
  /\ episode
  /\ Unheld(Assets \cup {Index})
  /\ \E gone \in SUBSET named :
       /\ remote' = [o \in Objects |-> IF o \in gone THEN "deleted" ELSE remote[o]]
       /\ \/ /\ gone = named
             /\ asset' = [r \in Assets |-> Absent]
             /\ episode' = FALSE
          \/ /\ named # {}
             /\ UNCHANGED <<asset, episode>>
  /\ UNCHANGED call

\* The provider finishes a video.
Encode(o) ==
  /\ remote[o] = "processing"
  /\ \E s \in Readings \ {"processing"} : remote' = [remote EXCEPT ![o] = s]
  /\ UNCHANGED <<asset, episode, call>>

-----------------------------------------------------------------------------
(* What staff do in the Admin. *)

SignedUploadView(k) == MayStart /\ BeginUpload(k)

\* The row is looked up first, without a lock.
CompleteUploadView(c, r) ==
  /\ call[c] = Idle
  /\ MayRequest("complete")
  /\ r \in Rows
  /\ Complete(c, r)

RetrySelected(r) == MayStart /\ r \in Rows /\ Reconcile(r)
TakedownSelected(r) == MayStart /\ r \in Rows /\ Takedown(r)

-----------------------------------------------------------------------------
Next ==
  /\ UNCHANGED staff
  /\ \/ \E c \in Calls : \/ \E k \in Checksums : Add(c, k)
                         \/ \E r \in Assets : CompleteUploadView(c, r) \/ LoadPage(c, r)
                         \/ Insert(c) \/ Expire(c) \/ Clear(c)
                         \/ Read(c) \/ Submit(c) \/ Save(c) \/ SavePage(c) \/ Crash(c)
     \/ \E k \in Checksums : SignedUploadView(k)
     \/ \E r \in Assets : RetrySelected(r) \/ TakedownSelected(r)
     \/ DeleteEpisode
     \/ \E o \in Objects : Encode(o)

Spec == Init /\ [][Next]_vars

-----------------------------------------------------------------------------
(* Properties. *)

\* No row ever makes a step that ALLOWED_TRANSITIONS forbids; in particular what
\* was removed stays removed and what is ready stays until its takedown.  One
\* transaction makes at most two transitions.
LegalTransitions ==
  [][\A r \in Rows : r \in Rows' =>
       asset'[r].state \in UNION {Allowed[s] : s \in Allowed[asset[r].state]}]_vars

\* The same while staff work one request at a time.
LegalTransitionsAlone ==
  [][staff = "alone" => \A r \in Rows : r \in Rows' =>
       asset'[r].state \in UNION {Allowed[s] : s \in Allowed[asset[r].state]}]_vars

\* A ready row can be played: it names a video.
ReadyHasObject == \A r \in Rows : asset[r].state = "ready" => asset[r].object # NoObject

\* While staff work one request at a time, a video that the provider still holds
\* is named by a row, so that a takedown or the deletion of the episode can find
\* it, or is about to be.
NothingForgotten == staff = "alone" =>
  \A o \in Objects : remote[o] \in {"processing", "ready", "bare", "failed"} =>
    \/ \E r \in Rows : asset[r].object = o
    \/ \E c \in Calls : call[c].stage = "save" /\ call[c].object = o

\* Only media that the provider finished, with captions and thumbnail, is ever
\* ready, whichever request wrote the row last.
ReadyWasEncoded ==
  \A r \in Rows : asset[r].state = "ready" /\ asset[r].object # NoObject =>
    remote[asset[r].object] \in {"ready", "deleted"}

\* The takedown of a video fails closed: a removed row names no video that can
\* still be served.
RemovedIsGone ==
  \A r \in Rows : asset[r].state = "removed" /\ asset[r].object # NoObject =>
    remote[asset[r].object] = "deleted"
=============================================================================
