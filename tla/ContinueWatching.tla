--------------------------- MODULE ContinueWatching ---------------------------
(***************************************************************************)
(* What a viewer is offered to continue, one episode for each series:      *)
(* backend/apps/progress/continue_watching.py.  A progress row has a key,  *)
(* its viewer (a profile or a device), episode, position and the time of   *)
(* its last save.  What is eligible is given, in the order of the catalog. *)
(***************************************************************************)
EXTENDS Integers, SequencesExt

NoItem == [episode |-> 0, position |-> 0]

\* _subject_progress: the rows of one viewer, the last saved first.
SubjectProgress(rows, viewer) ==
  SetToSortSeq({r \in rows : r.viewer = viewer},
               LAMBDA r, q : r.saved > q.saved \/ (r.saved = q.saved /\ r.pk < q.pk))

\* The order of two rows of one series, and of the series of two rows.
After(r, q) == r.saved > q.saved \/ (r.saved = q.saved /\ r.pk > q.pk)

\* The loop over the rows: the latest of each series, in a sequence of them.
LatestBySeries(rows, seriesOf) ==
  LET See(latest, row) ==
        LET same == {i \in DOMAIN latest : seriesOf[latest[i].episode] = seriesOf[row.episode]} IN
        IF same = {} THEN Append(latest, row)
        ELSE [i \in DOMAIN latest |-> IF i \in same /\ After(row, latest[i]) THEN row ELSE latest[i]]
  IN FoldLeft(See, <<>>, rows)

\* _resume_item: the latest episode if it is eligible and not finished; otherwise the
\* first after it, or of all when it is not eligible, that the viewer did not finish.
ResumeItem(latest, rows, episodes) ==
  LET Row(e) == {r \in ToSet(rows) : r.episode = e}
      next == IF Contains(episodes, latest.episode)
              THEN SelectLastInSeq(episodes, LAMBDA e : e = latest.episode) + 1 ELSE 1
      Try(item, e) ==
        IF item # NoItem \/ \E r \in Row(e) : r.completed THEN item
        ELSE [episode |-> e,
              position |-> IF Row(e) = {} THEN 0 ELSE (CHOOSE r \in Row(e) : TRUE).position]
  IN IF Contains(episodes, latest.episode) /\ ~latest.completed
     THEN [episode |-> latest.episode, position |-> latest.position]
     ELSE FoldLeft(Try, NoItem, SubSeq(episodes, next, Len(episodes)))

\* list_continue_watching: the series with the latest activity first, those that have
\* something to continue, up to a number.
ListContinueWatching(rows, viewer, seriesOf, eligible, most) ==
  LET mine == SubjectProgress(rows, viewer)
      latest == SortSeq(LatestBySeries(mine, seriesOf), After)
      items == [i \in DOMAIN latest |->
                  ResumeItem(latest[i], mine, eligible[seriesOf[latest[i].episode]])]
      found == SelectSeq(items, LAMBDA item : item # NoItem) IN
  SubSeq(found, 1, IF Len(found) < most THEN Len(found) ELSE most)
=============================================================================
