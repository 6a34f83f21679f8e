---------------------------- MODULE MCRewardGrants ----------------------------
(* Instances of RewardGrants for TLC. *)
EXTENDS RewardGrants, TLC

CONSTANTS u1, u2, e1, e2, r1, r2, a1, x1, x2

Mine == <<u1, r1, e1>>
Theirs == <<u2, r1, e2>>
Ad(i, x, t) == [custom |-> i, ssv |-> i, unit |-> a1, txn |-> x, stamp |-> t]
\* An ad of each viewer, the second with the transaction of the first as well, an
\* early ad, and one with mixed-up ids.
SomeCallbacks ==
  {Ad(Mine, x1, 1), Ad(Theirs, x1, 0), Ad(<<u1, r2, e1>>, x2, 1),
   [Ad(Mine, x1, 1) EXCEPT !.ssv = Theirs]}

SomeWishes == {Mine, Theirs, <<u1, r2, e1>>}

One(happened) == IF happened THEN 1 ELSE 0

\* Bounds of the instance: one thing happens around the first viewer and episode,
\* and none around the others.
FewChanges ==
  /\ u2 \in consent /\ profile[u2] = "active"
  /\ terms[e2] = Initially /\ e2 \in playable
  /\ \A p \in (Users \X Episodes) \ {<<u1, e1>>} :
       access[p] \notin {"staff", "coin"} /\ p \notin revoked
  /\ \A k \in Key : k[1] = u2 /\ Made(k) => told[k] = "nothing" /\ intents[k].created = 0
  /\ One(profile[u1] = "deleted") + One(u1 \notin consent)
     + One(terms[e1] # Initially) + One(terms[e1] # "deleted" /\ e1 \notin playable)
     + One(access[u1, e1] \in {"staff", "coin"}) + One(<<u1, e1>> \in revoked)
     + One(published # SigningKeys \/ \E k \in SigningKeys : withdrawn[k] # 0) <= 1

Interchangeable == Permutations(Calls)
=============================================================================
