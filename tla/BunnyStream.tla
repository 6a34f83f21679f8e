----------------------------- MODULE BunnyStream -----------------------------
(***************************************************************************)
(* What the Bunny Stream adapter makes of the provider's HTTP replies:     *)
(* backend/apps/playback/providers/bunny.py.  A reply is its status code,  *)
(* 0 when none arrives; of a body, what the callers tell apart.            *)
(***************************************************************************)
EXTENDS Integers

Replies == {0, 200, 404, 500}

\* _stdlib_transport and _request: a missing resource is told apart from every
\* other failure, the network's included.
Transport(reply) == IF reply = 0 THEN "error" ELSE "answered"
Request(reply) ==
  CASE Transport(reply) = "error" -> "error"
    [] reply = 404 -> "missing"
    [] reply # 404 /\ reply >= 400 -> "error"
    [] OTHER -> "done"

\* submit_master: the video is made, its bytes are put, its captions posted, and
\* the first request that does not succeed ends it.  The id is returned only
\* after the last, so that a video may be made and its id lost with the error;
\* so may it be when the first answer has no id or never arrives.
SubmitMaster(made, guid, replies) ==
  LET created == IF Request(replies[1]) = "done" /\ ~guid THEN "error" ELSE Request(replies[1])
      ends == <<created, Request(replies[2]), Request(replies[3])>>
      failed == {i \in 1..3 : ends[i] # "done"} IN
  [made |-> made \/ Request(replies[1]) = "done",
   answer |-> IF failed = {} THEN "id"
              ELSE ends[CHOOSE i \in failed : \A j \in failed : i <= j]]

\* Everything that can come of it, with captions or, for the third, without.
Submissions ==
  {SubmitMaster(made, guid, replies) :
     made \in BOOLEAN, guid \in BOOLEAN, replies \in [1..3 -> Replies]}

\* A video as get_asset reads it: a status the adapter does not know is a video
\* that is still being encoded.
Video == [status: 0..8, captions: BOOLEAN, thumbnails: 0..1, renditions: BOOLEAN]
GetAsset(v) ==
  CASE v.status \in {5, 6} -> "failed"
    [] v.status = 4 -> "ready"
    [] OTHER -> "processing"

\* What the provider's video has to have before it can be shown.
ReadyRequirementsMet(v) == v.captions /\ v.renditions /\ v.thumbnails > 0

Reading(v) ==
  IF GetAsset(v) = "ready" /\ ~ReadyRequirementsMet(v) THEN "bare" ELSE GetAsset(v)
Readings == {Reading(v) : v \in Video}

\* takedown: what is not found is gone.
Gone(reply) == Request(reply) \in {"done", "missing"}
Deletions == {Gone(reply) : reply \in Replies}
=============================================================================
