---------------------------- MODULE MCMediaIngest ----------------------------
(* Instances of MediaIngest for TLC. *)
EXTENDS MediaIngest, TLC

\* Bound of the instance: staff who work together share two rows and one master;
\* alone they have three rows and two masters.
TwoRowsTogether == staff = "together" =>
  /\ \A r \in Rows : r <= 2 /\ \A q \in Rows : asset[q].checksum = asset[r].checksum
  /\ \A c \in Calls, r \in Rows : call[c] # Idle => call[c].checksum = asset[r].checksum
  /\ \A c, d \in Calls : Idle \notin {call[c], call[d]} => call[c].checksum = call[d].checksum

Interchangeable == Permutations(Calls) \cup Permutations(Objects) \cup Permutations(Checksums)
=============================================================================
