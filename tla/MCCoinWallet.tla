---------------------------- MODULE MCCoinWallet ----------------------------
(* Instances of CoinWallet for TLC, and inputs of WalletActivity. *)
EXTENDS CoinWallet, SequencesExt

CONSTANTS e1, e2, s1

OneSeries == [e \in Episodes |-> s1]
FreeOffer == [mode |-> "free", coin_price |-> 0]
Coin1 == [mode |-> "coin", coin_price |-> 1]
Both2 == [mode |-> "both", coin_price |-> 2]
RepricedPolicies == {FreeOffer, Coin1, Both2}
OnePolicy == {Coin1}

Agreed(e, p) == [episode |-> e, version |-> p, price |-> p.coin_price]
RepricedTerms == {Agreed(e1, Coin1), Agreed(e1, Both2)}
SaleTerms == {Agreed(e, Coin1) : e \in Episodes}

Interchangeable == Permutations(Calls) \cup Permutations(Requests)

-----------------------------------------------------------------------------
Activity == INSTANCE WalletActivity
  WITH PublicBalance <- 3, MaxEntry <- 2, PageSize <- 2, NoEpisode <- "none"

\* Ledgers of three entries that the database accepted one after the other, unlocks
\* of an episode that is eligible and one that is not; when the clock showed each,
\* its random id, and what the wallet held after it.
Amounts == {a \in [1..3 -> -2..2] :
              \A i \in 1..3 : a[i] # 0 /\ FoldLeft(+, 0, SubSeq(a, 1, i)) \in 0..3}
Ids == {f \in [1..3 -> 1..3] : IsInjective(f)}
Of(i) == IF i = 2 THEN "gone" ELSE "e"
Made(a, at, id) ==
  {[id |-> id[i], amount |-> a[i], at |-> at[i],
    episode |-> IF a[i] < 0 THEN Of(i) ELSE "none"] : i \in 1..3}
After(a, i) == FoldLeft(+, 0, SubSeq(a, 1, i))
Shown(a, at, id) == Activity!ListWalletActivity(Made(a, at, id), {"e"})

\* With one clock, which moves between two entries of a wallet, the page shows the
\* last entries, the newest first, each with what the wallet held after it, and names
\* only what can be watched (wallet/activity.py:26).
ASSUME ActivityIsHistory ==
  \A a \in Amounts, id \in Ids :
    LET page == Shown(a, <<1, 2, 3>>, id) IN
    /\ ~page.refused /\ page.hasMore
    /\ page.entries = [i \in 1..2 |->
         [id |-> id[4 - i], amount |-> a[4 - i], balance_after |-> After(a, 4 - i),
          episode |-> IF a[4 - i] < 0 /\ Of(4 - i) # "gone" THEN "e" ELSE "none"]]

\* When the clock of one server is behind, or two entries have the same time, the page
\* may show balances that the wallet never had, or fail from then on: coins bought
\* and spent are added up as spent first (wallet/activity.py:44).
ASSUME SkewRefuses ==
  /\ \E a \in Amounts, id \in Ids : Shown(a, <<2, 1, 3>>, id).refused
  /\ \E a \in Amounts, id \in Ids : Shown(a, <<1, 1, 2>>, id).refused
  /\ \E a \in Amounts, id \in Ids :
       LET page == Shown(a, <<1, 3, 2>>, id) IN
       ~page.refused /\ \E i \in 1..2 : \A j \in 1..3 : page.entries[i].balance_after # After(a, j)
=============================================================================
