---------------------------- MODULE WalletActivity ----------------------------
(***************************************************************************)
(* The page of a wallet's latest entries: backend/apps/wallet/activity.py. *)
(* An entry has its amount, the time that a server's clock showed when it  *)
(* was made, its random id, and the episode of the receipt it belongs to.  *)
(***************************************************************************)
EXTENDS Integers, SequencesExt

CONSTANTS
  PublicBalance, \* 9007199254740991, the integers that a client can read
  MaxEntry,      \* MAX_ENTRY_COINS
  PageSize,      \* MAX_ACTIVITY_ENTRIES
  NoEpisode      \* of an entry that is no unlock's, or whose episode is not named

Refused == [entries |-> <<>>, hasMore |-> FALSE, refused |-> TRUE]

\* The order of the query: by the clock, then by id.
Chronological(entries) ==
  SetToSortSeq(entries, LAMBDA x, y : x.at < y.at \/ (x.at = y.at /\ x.id < y.id))

\* The balance after each line.
RunningBalance(lines) ==
  [i \in DOMAIN lines |-> FoldLeft(LAMBDA sum, x : sum + x.amount, 0, SubSeq(lines, 1, i))]

\* A ValueError, which is a 500.
OutsideRange(lines) ==
  \E i \in DOMAIN lines : \/ RunningBalance(lines)[i] \notin 0 .. PublicBalance
                          \/ lines[i].amount \notin -MaxEntry .. MaxEntry

\* _entry: an episode is named while it can be watched.
Entry(line, balance, eligible) ==
  [id |-> line.id, amount |-> line.amount, balance_after |-> balance,
   episode |-> IF line.episode \in eligible THEN line.episode ELSE NoEpisode]

\* list_wallet_activity, the newest line first.
ListWalletActivity(entries, eligible) ==
  LET lines == Chronological(entries)
      annotated == [i \in DOMAIN lines |-> Entry(lines[i], RunningBalance(lines)[i], eligible)]
      first == IF Len(lines) > PageSize THEN Len(lines) - PageSize + 1 ELSE 1 IN
  IF OutsideRange(lines) THEN Refused
  ELSE [entries |-> Reverse(SubSeq(annotated, first, Len(lines))),
        hasMore |-> Len(lines) > PageSize, refused |-> FALSE]
=============================================================================
