--------------------------- MODULE CoinPacks_proofs ---------------------------
(***************************************************************************)
(* What was shown to a buyer is honoured, for every number of packs,       *)
(* members of staff and buyers, every window and every bound of the clock. *)
(***************************************************************************)
EXTENDS CoinPacks, FiniteSetTheorems, WellFoundedInduction, TLAPS

\* A form that was checked makes a pack that has some time.
FormsChecked ==
  \A s \in Staff : edit[s].stage = "checked" => edit[s].form.starts < edit[s].form.ends

\* The page of a pack has the pack's amounts and dates; where it is retired and the
\* pack is too they agree, unless it was retired on this page, just now.
PageIsFaithful(s) ==
  edit[s].stage \in {"open", "saving"} =>
    LET row == edit[s].row
        old == packs[edit[s].pack] IN
    /\ old # NoPack
    /\ row.coins = old.coins /\ row.created = old.created
    /\ row.starts = old.starts /\ row.ends = old.ends
    /\ row.active <=> row.retired = Never
    /\ row.retired # Never =>
         row.retired = old.retired \/ (edit[s].stage = "saving" /\ row.retired = edit[s].stamp)
    /\ edit[s].stage = "saving" => edit[s].stamp <= now /\ now <= edit[s].stamp + Saving

PacksArePast == \A p \in Packs : packs[p] # NoPack => packs[p].created <= now

\* The pack that was shown, at its price, not retired long before the page was loaded.
Backs(p, b) ==
  /\ packs[p] # NoPack
  /\ packs[p].coins = buyer[b].coins
  /\ packs[p].starts <= buyer[b].at
  /\ buyer[b].at < packs[p].ends
  /\ buyer[b].at - Saving <= packs[p].retired
  /\ buyer[b].stage \in {"paid", "credited"} => packs[p].created <= buyer[b].paid

BuyerIsInformed(b) ==
  buyer[b] # Idle =>
    /\ buyer[b].at <= now
    /\ buyer[b].stage \in {"paid", "credited"} => buyer[b].at <= buyer[b].paid
    /\ buyer[b].stage \in {"shown", "paid", "credited"} =>
         buyer[b].coins = Floor \/ \E p \in Packs : Backs(p, b)

IInv ==
  /\ TypeOK
  /\ FormsChecked
  /\ \A s \in Staff : PageIsFaithful(s)
  /\ PacksArePast
  /\ \A b \in Buyers : BuyerIsInformed(b)
  /\ ShownIsHonored

-----------------------------------------------------------------------------
(* The largest of a finite set of numbers. *)

\* Without a maximum the set has subsets without one, and none of them is minimal.
LEMMA MaximumExists ==
  ASSUME NEW S \in SUBSET Nat, IsFiniteSet(S), S # {}
  PROVE  \E x \in S : \A y \in S : x >= y
<1> DEFINE Unbounded == {T \in SUBSET S : T # {} /\ \A x \in T : \E y \in T : ~(x >= y)}
<1> SUFFICES ASSUME S \in Unbounded PROVE FALSE
  OBVIOUS
<1>1. IsWellFoundedOn(StrictSubsetOrdering(S), FiniteSubsetsOf(S))
  BY FS_StrictSubsetOrderingWellFounded
<1>2. Unbounded \subseteq FiniteSubsetsOf(S)
  BY FS_FiniteSubsetsOfFinite
<1>3. PICK T \in Unbounded : \A U \in Unbounded : <<U, T>> \notin StrictSubsetOrdering(S)
  <2> HIDE DEF Unbounded
  <2> QED BY <1>1, <1>2, WFMin
<1>4. PICK x \in T : TRUE
  BY <1>3
<1>5. PICK y \in T : ~(x >= y)
  BY <1>3
<1> DEFINE U == T \ {x}
<1>6. U # {} /\ U \in SUBSET S
  BY <1>3, <1>4, <1>5
<1>7. <<U, T>> \in StrictSubsetOrdering(S)
  BY <1>3, <1>4, <1>6 DEF StrictSubsetOrdering
<1>8. U \notin Unbounded
  BY <1>3, <1>7
<1>9. PICK m \in U : \A z \in U : m >= z
  BY <1>6, <1>8
<1>10. m \in Nat /\ x \in Nat /\ y \in Nat /\ y \in U
  BY <1>3, <1>4, <1>5, <1>6, <1>9
<1>11. m >= y /\ m >= x
  BY <1>5, <1>9, <1>10
<1>12. \A z \in T : m >= z
  BY <1>9, <1>11
<1> QED BY <1>3, <1>9, <1>12

LEMMA MaxIsLargest ==
  ASSUME NEW S \in SUBSET Nat, IsFiniteSet(S), S # {}
  PROVE  Max(S) \in S /\ \A y \in S : Max(S) >= y
BY MaximumExists DEF Max

\* The coins of some of the packs.
LEMMA CoinsAreFinite ==
  ASSUME TypeOK, NEW S \in SUBSET Saved
  PROVE  /\ {packs[p].coins : p \in S} \in SUBSET Nat
         /\ IsFiniteSet({packs[p].coins : p \in S})
<1> DEFINE coins == {packs[p].coins : p \in S}
           f == [p \in S |-> packs[p].coins]
<1>1. \A p \in S : p \in Packs /\ packs[p] \in Pack
  BY DEF TypeOK, Saved
<1>2. coins \in SUBSET Nat
  BY <1>1 DEF Pack
<1>3. IsFiniteSet(S)
  BY FS_Subset, PacksAssumption, <1>1, S \in SUBSET Packs
<1>4. f \in Surjection(S, coins)
  BY DEF Surjection
<1>5. IsFiniteSet(coins)
  BY <1>3, <1>4, FS_Surjection
<1> QED BY <1>2, <1>5

LEMMA PackCoinsType ==
  ASSUME NEW base \in Nat \ {0}, NEW bonus \in 0 .. 200
  PROVE  PackCoins(base, bonus) \in Nat
<1>1. base * bonus \in Nat
  OBVIOUS
<1>2. \A n \in Nat : n \div 100 \in Nat
  OBVIOUS
<1> QED BY <1>1, <1>2 DEF PackCoins

\* A payment is worth the floor, and every pack that is honoured.
LEMMA CreditIsLargest ==
  ASSUME TypeOK, NEW stamp \in Nat
  PROVE  LET paid == IF stamp < now THEN stamp ELSE now IN
         /\ CreditedCoins(stamp) \in Nat
         /\ CreditedCoins(stamp) >= Floor
         /\ \A p \in Honored(paid) : CreditedCoins(stamp) >= packs[p].coins
<1> DEFINE paid == IF stamp < now THEN stamp ELSE now
           coins == {packs[p].coins : p \in Honored(paid)}
           all == {Floor} \cup coins
<1>1. Honored(paid) \in SUBSET Saved
  BY DEF Honored
<1>2. coins \in SUBSET Nat /\ IsFiniteSet(coins)
  BY <1>1, CoinsAreFinite
<1>3. Floor \in Nat
  BY PacksAssumption
<1>4. all \in SUBSET Nat /\ all # {} /\ IsFiniteSet(all)
  BY <1>2, <1>3, FS_Singleton, FS_Union
<1>5. Max(all) \in all /\ \A y \in all : Max(all) >= y
  BY <1>4, MaxIsLargest
<1>6. CreditedCoins(stamp) = Max(all)
  BY DEF CreditedCoins
<1> QED BY <1>4, <1>5, <1>6

-----------------------------------------------------------------------------
(* Types. *)

\* What the stage of an edit and of a buyer says of their records.
LEMMA Stages ==
  ASSUME TypeOK
  PROVE  /\ \A s \in Staff : edit[s].stage = "checked" => edit[s] \in Checked
         /\ \A s \in Staff : edit[s].stage \in {"open", "saving"} => edit[s] \in Page
         /\ \A b \in Buyers : buyer[b] # Idle => buyer[b] \in Buyer
<1>1. /\ \A x \in Checked : x.stage = "checked"
      /\ \A x \in Page : x.stage \in {"open", "saving"}
      /\ Idle.stage = "idle"
  BY DEF Checked, Page, Idle
<1> QED BY <1>1 DEF TypeOK

LEMMA EditUpdated ==
  ASSUME TypeOK, NEW s \in Staff, NEW e \in Checked \cup Page \cup {Idle},
         edit' = [edit EXCEPT ![s] = e]
  PROVE  /\ edit' \in [Staff -> Checked \cup Page \cup {Idle}]
         /\ edit'[s] = e
         /\ \A t \in Staff \ {s} : edit'[t] = edit[t]
BY DEF TypeOK

LEMMA BuyerUpdated ==
  ASSUME TypeOK, NEW b \in Buyers, NEW x \in Buyer, buyer' = [buyer EXCEPT ![b] = x]
  PROVE  /\ buyer' \in [Buyers -> Buyer \cup {Idle}]
         /\ buyer'[b] = x
         /\ \A a \in Buyers \ {b} : buyer'[a] = buyer[a]
BY DEF TypeOK

LEMMA Constants ==
  /\ Times \subseteq Ends /\ Times \subseteq Nat /\ Ends \subseteq Nat
  /\ Never \in Ends /\ Never \notin Times /\ \A t \in Times : t < Never
  /\ Floor \in Nat /\ Honor \in Nat /\ Saving \in Nat /\ Ahead \in Nat /\ Horizon \in Nat
BY PacksAssumption DEF Times, Ends, Never

LEMMA FormType ==
  ASSUME NEW f \in Forms
  PROVE  /\ f.starts \in Ends /\ f.ends \in Ends /\ f.active \in BOOLEAN
         /\ PackCoins(f.base, f.bonus) \in Nat
<1>1. f \in Form
  BY PacksAssumption
<1> QED BY <1>1, PackCoinsType DEF Form

LEMMA InitInvariant == Init => IInv
<1> SUFFICES ASSUME Init PROVE IInv
  OBVIOUS
<1>1. TypeOK
  BY Constants DEF Init, TypeOK, Times, Idle, NoPack
<1>2. FormsChecked /\ \A s \in Staff : PageIsFaithful(s)
  BY DEF Init, FormsChecked, PageIsFaithful, Idle
<1>3. PacksArePast /\ \A b \in Buyers : BuyerIsInformed(b)
  BY DEF Init, PacksArePast, BuyerIsInformed
<1>4. ShownIsHonored
  BY DEF Init, ShownIsHonored
<1> QED BY <1>1, <1>2, <1>3, <1>4 DEF IInv

-----------------------------------------------------------------------------
(* Staff. *)

\* A step that leaves the packs, the clock and the buyers alone.
LEMMA BuyersStay ==
  ASSUME IInv, UNCHANGED <<now, packs, buyer>>
  PROVE  PacksArePast' /\ (\A b \in Buyers : BuyerIsInformed(b)') /\ ShownIsHonored'
BY DEF IInv, PacksArePast, BuyerIsInformed, Backs, ShownIsHonored

LEMMA AddStep ==
  ASSUME IInv, NEW s \in Staff, NEW f \in Forms, Add(s, f)
  PROVE  IInv'
<1> DEFINE e == [stage |-> "checked", form |-> f]
<1>1. e \in Checked /\ e.stage = "checked" /\ e.form = f
  BY DEF Checked
<1>2. TypeOK /\ now \in Times
  BY DEF IInv, TypeOK
<1> HIDE DEF e
<1>3. /\ edit' \in [Staff -> Checked \cup Page \cup {Idle}]
      /\ edit'[s] = e /\ \A t \in Staff \ {s} : edit'[t] = edit[t]
  BY <1>1, <1>2, EditUpdated DEF Add, e
<1>4. TypeOK'
  BY <1>2, <1>3 DEF TypeOK, Add
<1>5. f.starts < f.ends
  <2>1. f.starts \in Nat /\ f.ends \in Nat /\ now \in Nat
    BY <1>2, FormType, Constants
  <2>2. f.ends > IF f.starts = 0 THEN now ELSE f.starts
    BY DEF Add, FormIsClean
  <2> QED BY <2>1, <2>2
<1>6. FormsChecked'
  BY <1>1, <1>3, <1>5 DEF IInv, FormsChecked
<1>7. \A t \in Staff : PageIsFaithful(t)'
  BY <1>1, <1>3 DEF IInv, PageIsFaithful, Add
<1> QED BY <1>4, <1>6, <1>7, BuyersStay DEF IInv, Add

LEMMA OpenStep ==
  ASSUME IInv, NEW s \in Staff, NEW p \in Packs, Open(s, p)
  PROVE  IInv'
<1> DEFINE e == [stage |-> "open", pack |-> p, row |-> packs[p], stamp |-> 0]
<1>1. packs[p] \in Pack /\ packs[p] # NoPack /\ (packs[p].active <=> packs[p].retired = Never)
  BY DEF IInv, TypeOK, Open, Saved
<1>2. e \in Page /\ e.stage = "open" /\ e.pack = p /\ e.row = packs[p]
  BY <1>1, Constants DEF Page, Times
<1>3. TypeOK
  BY DEF IInv
<1> HIDE DEF e
<1>4. /\ edit' \in [Staff -> Checked \cup Page \cup {Idle}]
      /\ edit'[s] = e /\ \A t \in Staff \ {s} : edit'[t] = edit[t]
  BY <1>2, <1>3, EditUpdated DEF Open, e
<1>5. TypeOK'
  BY <1>3, <1>4 DEF TypeOK, Open
<1>6. FormsChecked'
  BY <1>2, <1>4 DEF IInv, FormsChecked
<1>7. PageIsFaithful(s)'
  BY <1>1, <1>2, <1>4 DEF PageIsFaithful, Open
<1>8. \A t \in Staff \ {s} : PageIsFaithful(t)'
  BY <1>4 DEF IInv, PageIsFaithful, Open
<1> QED BY <1>5, <1>6, <1>7, <1>8, BuyersStay DEF IInv, Open

LEMMA SwitchStep ==
  ASSUME IInv, NEW s \in Staff, NEW active \in BOOLEAN, Switch(s, active)
  PROVE  IInv'
<1> DEFINE e == edit[s]
           off == ~active /\ e.row.retired = Never
           row == [e.row EXCEPT !.active = active,
                                !.retired = IF off THEN now ELSE @]
           new == [stage |-> "saving", pack |-> e.pack, row |-> row, stamp |-> now]
<1>1. e \in Page /\ e.stage = "open" /\ e.row \in Pack /\ now \in Times /\ TypeOK
  BY Stages DEF IInv, TypeOK, Switch, Page
<1>2. /\ row \in Pack
      /\ row.coins = e.row.coins /\ row.created = e.row.created
      /\ row.starts = e.row.starts /\ row.ends = e.row.ends
      /\ row.active = active
      /\ row.retired = IF off THEN now ELSE e.row.retired
  BY <1>1, Constants DEF Pack
<1>3. edit' = [edit EXCEPT ![s] = new]
  BY DEF Switch
<1>5. new \in Page /\ new.stage = "saving" /\ new.pack = e.pack /\ new.row = row /\ new.stamp = now
  BY <1>1, <1>2 DEF Page
<1> HIDE DEF new
<1>6. /\ edit' \in [Staff -> Checked \cup Page \cup {Idle}]
      /\ edit'[s] = new /\ \A t \in Staff \ {s} : edit'[t] = edit[t]
  BY <1>1, <1>3, <1>5, EditUpdated
<1>7. TypeOK'
  BY <1>1, <1>6 DEF TypeOK, Switch
<1>8. FormsChecked'
  BY <1>5, <1>6 DEF IInv, FormsChecked
<1>9. PageIsFaithful(s)'
  <2>1. /\ edit'[s].stage = "saving" /\ edit'[s].pack = e.pack
        /\ edit'[s].row = row /\ edit'[s].stamp = now
    BY <1>5, <1>6
  <2>2. PageIsFaithful(s) /\ (active => e.row.retired = Never)
    BY DEF IInv, Switch
  <2>3. /\ packs[e.pack] # NoPack
        /\ e.row.coins = packs[e.pack].coins /\ e.row.created = packs[e.pack].created
        /\ e.row.starts = packs[e.pack].starts /\ e.row.ends = packs[e.pack].ends
        /\ e.row.retired # Never => e.row.retired = packs[e.pack].retired
    BY <1>1, <2>2 DEF PageIsFaithful
  <2>4. row.active <=> row.retired = Never
    BY <1>1, <1>2, <2>2, Constants
  <2>5. now <= now + Saving
    BY <1>1, Constants
  <2>6. packs' = packs /\ now' = now
    BY DEF Switch
  <2>7. now \in Nat /\ (row.retired = now \/ row.retired = e.row.retired)
    BY <1>1, <1>2, Constants
  <2> HIDE DEF row, e
  <2> QED BY <1>2, <2>1, <2>3, <2>4, <2>5, <2>6, <2>7 DEF PageIsFaithful
<1>10. \A t \in Staff \ {s} : PageIsFaithful(t)'
  BY <1>6 DEF IInv, PageIsFaithful, Switch
<1> QED BY <1>7, <1>8, <1>9, <1>10, BuyersStay DEF IInv, Switch

-----------------------------------------------------------------------------
(* Steps that change the packs. *)

\* New packs aside, a pack is what it was, or it was active and is retired, a moment
\* ago at most.
Kept(p) ==
  \/ packs'[p] = packs[p]
  \/ /\ packs'[p] # NoPack
     /\ packs'[p].coins = packs[p].coins /\ packs'[p].created = packs[p].created
     /\ packs'[p].starts = packs[p].starts /\ packs'[p].ends = packs[p].ends
     /\ packs[p].retired = Never
     /\ packs'[p].retired \in Times /\ now <= packs'[p].retired + Saving

\* It still backs the buyers it did, and pages that were opened are faithful to it.
LEMMA KeptBacks ==
  ASSUME IInv, NEW b \in Buyers, NEW p \in Packs, packs[p] # NoPack, Kept(p),
         UNCHANGED <<now, buyer>>, buyer[b] # Idle, Backs(p, b)
  PROVE  Backs(p, b)'
<1>1. buyer[b].at \in Times /\ now \in Times /\ buyer[b].at <= now
  BY Stages DEF IInv, TypeOK, BuyerIsInformed, Buyer
<1>2. CASE packs'[p] = packs[p]
  BY <1>2 DEF Backs
<1>3. CASE packs'[p] # packs[p]
  <2>1. packs'[p].retired \in Times /\ now <= packs'[p].retired + Saving
    BY <1>3 DEF Kept
  <2>2. buyer[b].at - Saving <= packs'[p].retired
    BY <1>1, <2>1, Constants
  <2> QED BY <1>3, <2>2 DEF Kept, Backs
<1> QED BY <1>2, <1>3

LEMMA BuyersStayInformed ==
  ASSUME IInv, \A p \in Packs : packs[p] # NoPack => Kept(p), UNCHANGED <<now, buyer>>
  PROVE  (\A b \in Buyers : BuyerIsInformed(b)') /\ ShownIsHonored'
<1>1. ASSUME NEW b \in Buyers, buyer[b] # Idle PROVE BuyerIsInformed(b)'
  <2>1. BuyerIsInformed(b)
    BY DEF IInv
  <2>2. \A p \in Packs : Backs(p, b) => Backs(p, b)'
    BY <1>1, KeptBacks DEF Backs
  <2> QED BY <1>1, <2>1, <2>2 DEF BuyerIsInformed
<1>2. \A b \in Buyers : BuyerIsInformed(b)'
  BY <1>1 DEF BuyerIsInformed
<1> QED BY <1>2 DEF IInv, ShownIsHonored

LEMMA PageStaysFaithful ==
  ASSUME IInv, NEW s \in Staff, edit'[s] = edit[s], now' = now,
         edit[s].stage \in {"open", "saving"} =>
           packs[edit[s].pack] # NoPack /\ Kept(edit[s].pack)
  PROVE  PageIsFaithful(s)'
<1> SUFFICES ASSUME edit[s].stage \in {"open", "saving"} PROVE PageIsFaithful(s)'
  BY DEF PageIsFaithful
<1>1. PageIsFaithful(s)
  BY DEF IInv
<1>2. CASE packs'[edit[s].pack] = packs[edit[s].pack]
  BY <1>1, <1>2 DEF PageIsFaithful
<1>3. CASE packs'[edit[s].pack] # packs[edit[s].pack]
  BY <1>1, <1>3, Constants DEF PageIsFaithful, Kept
<1> QED BY <1>2, <1>3

LEMMA InsertStep ==
  ASSUME IInv, NEW s \in Staff, NEW p \in Packs, Insert(s, p)
  PROVE  IInv'
<1> DEFINE f == edit[s].form
           new == [coins |-> PackCoins(f.base, f.bonus), starts |-> f.starts, ends |-> f.ends,
                   created |-> now, active |-> f.active,
                   retired |-> IF f.active THEN Never ELSE now]
<1>1. TypeOK /\ edit[s].stage = "checked" /\ edit[s] \in Checked /\ now \in Times
  BY Stages DEF IInv, TypeOK, Insert
<1>2. f \in Forms
  BY <1>1 DEF Checked
<1>3. /\ f.starts \in Ends /\ f.ends \in Ends /\ f.active \in BOOLEAN
      /\ PackCoins(f.base, f.bonus) \in Nat
  BY <1>2, FormType
<1>4. f.starts < f.ends
  BY <1>1 DEF IInv, FormsChecked
<1> HIDE DEF f
<1>5. new \in Pack /\ new # NoPack
  BY <1>1, <1>3, Constants DEF Pack, NoPack
<1>6. new.starts < new.ends /\ new.created = now
  BY <1>4
<1>7. new.active <=> new.retired = Never
  BY <1>1, <1>3, Constants
<1>8. packs' = [packs EXCEPT ![p] = new] /\ edit' = [edit EXCEPT ![s] = Idle]
  BY DEF Insert, f
<1> HIDE DEF new
<1>9. packs'[p] = new /\ \A q \in Packs \ {p} : packs'[q] = packs[q]
  BY <1>1, <1>8 DEF TypeOK
<1>10. /\ edit' \in [Staff -> Checked \cup Page \cup {Idle}]
       /\ edit'[s] = Idle /\ \A t \in Staff \ {s} : edit'[t] = edit[t]
  BY <1>1, <1>8, EditUpdated
<1>11. packs[p] = NoPack
  BY DEF Insert
<1>12. \A q \in Packs : packs[q] # NoPack => packs'[q] = packs[q]
  BY <1>9, <1>11
<1>13. TypeOK'
  <2>1. packs' \in [Packs -> Pack \cup {NoPack}]
    BY <1>1, <1>5, <1>8 DEF TypeOK
  <2>2. \A q \in Packs : packs'[q] # NoPack =>
          /\ packs'[q].starts < packs'[q].ends
          /\ packs'[q].active <=> packs'[q].retired = Never
    BY <1>1, <1>6, <1>7, <1>9 DEF TypeOK
  <2> QED BY <1>1, <1>10, <2>1, <2>2 DEF TypeOK, Insert
<1>14. FormsChecked'
  BY <1>10 DEF IInv, FormsChecked, Idle
<1>15. \A t \in Staff : PageIsFaithful(t)'
  <2>1. ASSUME NEW t \in Staff \ {s} PROVE PageIsFaithful(t)'
    <3>1. edit[t].stage \in {"open", "saving"} => edit[t].pack \in Packs
      BY <1>1, Stages DEF Page
    <3>2. edit[t].stage \in {"open", "saving"} =>
            packs[edit[t].pack] # NoPack /\ Kept(edit[t].pack)
      BY <1>12, <3>1 DEF IInv, PageIsFaithful, Kept
    <3> QED BY <1>10, <3>2, PageStaysFaithful DEF Insert
  <2>2. PageIsFaithful(s)'
    BY <1>10 DEF PageIsFaithful, Idle
  <2> QED BY <2>1, <2>2
<1>16. PacksArePast'
  BY <1>1, <1>6, <1>9, Constants DEF IInv, PacksArePast, Insert
<1>17. (\A b \in Buyers : BuyerIsInformed(b)') /\ ShownIsHonored'
  BY <1>12, BuyersStayInformed DEF Kept, Insert
<1> QED BY <1>13, <1>14, <1>15, <1>16, <1>17 DEF IInv

LEMMA PackEqual ==
  ASSUME NEW x \in Pack, NEW y \in Pack, x.coins = y.coins, x.starts = y.starts,
         x.ends = y.ends, x.created = y.created, x.active = y.active, x.retired = y.retired
  PROVE  x = y
BY DEF Pack

\* A save that the trigger lets through changes nothing but an active pack's switch.
LEMMA CommitKeeps ==
  ASSUME IInv, NEW s \in Staff, Commit(s)
  PROVE  /\ packs' \in [Packs -> Pack \cup {NoPack}]
         /\ \A p \in Packs : packs[p] = NoPack => packs'[p] = NoPack
         /\ \A p \in Packs : packs[p] # NoPack =>
              /\ Kept(p)
              /\ packs'[p].active <=> packs'[p].retired = Never
              /\ packs[p].retired # Never => packs'[p] = packs[p]
<1> DEFINE p == edit[s].pack
           row == edit[s].row
           old == packs[p]
<1>1. /\ TypeOK /\ PageIsFaithful(s) /\ edit[s].stage = "saving" /\ edit[s] \in Page
  BY Stages DEF IInv, Commit
<1>2. p \in Packs /\ row \in Pack /\ edit[s].stamp \in Times
  BY <1>1 DEF Page
<1>3. old \in Pack /\ old # NoPack /\ (old.active <=> old.retired = Never)
  BY <1>1, <1>2 DEF TypeOK, PageIsFaithful
<1>4. /\ row.coins = old.coins /\ row.created = old.created
      /\ row.starts = old.starts /\ row.ends = old.ends
      /\ row.active <=> row.retired = Never
      /\ row.retired # Never => row.retired = old.retired \/ row.retired = edit[s].stamp
      /\ now <= edit[s].stamp + Saving
  BY <1>1 DEF PageIsFaithful
<1>5. row.active \in BOOLEAN /\ old.active \in BOOLEAN
  BY <1>2, <1>3 DEF Pack
<1>6. CASE ~Guarded(old, row)
  <2>1. packs' = packs
    BY <1>6 DEF Commit
  <2> QED BY <1>1, <2>1 DEF TypeOK, Kept
<1>7. CASE Guarded(old, row)
  <2>1. packs' = [packs EXCEPT ![p] = row]
    BY <1>7 DEF Commit
  <2>2. packs'[p] = row /\ \A q \in Packs \ {p} : packs'[q] = packs[q]
    BY <1>1, <1>2, <2>1 DEF TypeOK
  <2>3. packs' \in [Packs -> Pack \cup {NoPack}]
    BY <1>1, <1>2, <2>1 DEF TypeOK
  <2>4. old.retired # Never => row.retired = old.retired /\ row.active = old.active
    BY <1>3, <1>5, <1>7 DEF Guarded
  <2>5. old.retired # Never => row = old
    BY <1>2, <1>3, <1>4, <2>4, PackEqual
  <2>6. row.retired = Never => row = old
    BY <1>2, <1>3, <1>4, <1>5, <2>4, PackEqual
  <2>7. row # NoPack
    BY <1>2 DEF Pack, NoPack
  <2> HIDE DEF p, row, old
  <2>8. Kept(p)
    BY <1>2, <1>4, <2>2, <2>5, <2>6, <2>7 DEF Kept, old
  <2>9. \A q \in Packs \ {p} : Kept(q)
    BY <2>2 DEF Kept
  <2> QED BY <1>1, <1>3, <1>4, <2>2, <2>3, <2>5, <2>8, <2>9 DEF TypeOK, old
<1> QED BY <1>6, <1>7

LEMMA CommitStep ==
  ASSUME IInv, NEW s \in Staff, Commit(s)
  PROVE  IInv'
<1>1. TypeOK /\ now' = now /\ UNCHANGED buyer
  BY DEF IInv, Commit
<1>2. /\ edit' \in [Staff -> Checked \cup Page \cup {Idle}]
      /\ edit'[s] = Idle /\ \A t \in Staff \ {s} : edit'[t] = edit[t]
  BY <1>1, EditUpdated DEF Commit
<1>3. \A p \in Packs : /\ packs[p] = NoPack => packs'[p] = NoPack
                       /\ packs[p] # NoPack => Kept(p)
  BY CommitKeeps
<1>4. TypeOK'
  <2>1. \A p \in Packs : packs'[p] # NoPack =>
          /\ packs'[p].starts < packs'[p].ends
          /\ packs'[p].active <=> packs'[p].retired = Never
    BY <1>1, <1>3, CommitKeeps DEF TypeOK, Kept
  <2> QED BY <1>1, <1>2, <2>1, CommitKeeps DEF TypeOK
<1>5. FormsChecked'
  BY <1>2 DEF IInv, FormsChecked, Idle
<1>6. \A t \in Staff : PageIsFaithful(t)'
  <2>1. ASSUME NEW t \in Staff \ {s} PROVE PageIsFaithful(t)'
    <3>1. edit[t].stage \in {"open", "saving"} => edit[t].pack \in Packs
      BY <1>1, Stages DEF Page
    <3>2. edit[t].stage \in {"open", "saving"} =>
            packs[edit[t].pack] # NoPack /\ Kept(edit[t].pack)
      BY <1>3, <3>1 DEF IInv, PageIsFaithful
    <3> QED BY <1>1, <1>2, <3>2, PageStaysFaithful
  <2>2. PageIsFaithful(s)'
    BY <1>2 DEF PageIsFaithful, Idle
  <2> QED BY <2>1, <2>2
<1>7. PacksArePast'
  BY <1>1, <1>3 DEF IInv, PacksArePast, Kept
<1>8. (\A b \in Buyers : BuyerIsInformed(b)') /\ ShownIsHonored'
  BY <1>1, <1>3, BuyersStayInformed
<1> QED BY <1>4, <1>5, <1>6, <1>7, <1>8 DEF IInv

-----------------------------------------------------------------------------
(* Buyers, and time. *)

\* A step of one buyer, who is informed after it.
LEMMA BuyerStep ==
  ASSUME IInv, UNCHANGED <<now, packs, edit>>, NEW b \in Buyers, NEW x \in Buyer,
         buyer' = [buyer EXCEPT ![b] = x], BuyerIsInformed(b)',
         x.stage = "credited" /\ x.paid < x.at + Honor - Saving => x.credited >= x.coins
  PROVE  IInv'
<1>1. TypeOK
  BY DEF IInv
<1>2. /\ buyer' \in [Buyers -> Buyer \cup {Idle}]
      /\ buyer'[b] = x /\ \A a \in Buyers \ {b} : buyer'[a] = buyer[a]
  BY <1>1, BuyerUpdated
<1>3. TypeOK'
  BY <1>1, <1>2 DEF TypeOK
<1>4. FormsChecked' /\ (\A s \in Staff : PageIsFaithful(s)') /\ PacksArePast'
  BY DEF IInv, FormsChecked, PageIsFaithful, PacksArePast
<1>5. \A a \in Buyers : BuyerIsInformed(a)'
  BY <1>2 DEF IInv, BuyerIsInformed, Backs
<1>6. ShownIsHonored'
  BY <1>2 DEF IInv, ShownIsHonored
<1> QED BY <1>3, <1>4, <1>5, <1>6 DEF IInv

LEMMA AskStep ==
  ASSUME IInv, NEW b \in Buyers, Ask(b)
  PROVE  IInv'
<1> DEFINE x == [stage |-> "asked", at |-> now, coins |-> 0, paid |-> 0, credited |-> 0]
<1>1. TypeOK /\ now \in Times /\ now \in Nat
  BY Constants DEF IInv, TypeOK
<1>2. x \in Buyer /\ x.stage = "asked" /\ x.at = now
  BY <1>1, Constants DEF Buyer
<1>3. buyer' = [buyer EXCEPT ![b] = x] /\ UNCHANGED <<now, packs, edit>>
  BY DEF Ask
<1> HIDE DEF x
<1>4. buyer'[b] = x
  BY <1>1, <1>2, <1>3, BuyerUpdated
<1>5. BuyerIsInformed(b)'
  BY <1>1, <1>2, <1>3, <1>4 DEF BuyerIsInformed
<1> QED BY <1>2, <1>3, <1>5, BuyerStep

\* What a buyer's record says, and how a change of its stage leaves the rest.
LEMMA BuyerRecord ==
  ASSUME IInv, NEW b \in Buyers, buyer[b] # Idle
  PROVE  /\ buyer[b] \in Buyer /\ now \in Times
         /\ buyer[b].at \in Times /\ buyer[b].coins \in Nat
         /\ buyer[b].paid \in 0 .. Horizon + Ahead
         /\ buyer[b].at <= now
         /\ BuyerIsInformed(b)
BY Stages DEF IInv, TypeOK, BuyerIsInformed, Buyer

LEMMA ShowStep ==
  ASSUME IInv, NEW b \in Buyers, Show(b)
  PROVE  IInv'
<1> DEFINE coins == {packs[p].coins : p \in Live(buyer[b].at)}
<1>1. TypeOK /\ buyer[b].stage = "asked" /\ buyer[b] # Idle
  <2>1. buyer[b].stage = "asked"
    BY DEF Show
  <2>2. buyer[b] # Idle
    BY <2>1 DEF Idle
  <2> QED BY <2>1, <2>2 DEF IInv
<1>2. buyer[b] \in Buyer /\ BuyerIsInformed(b)
  BY <1>1, BuyerRecord
<1>3. CASE coins = {}
  <2> DEFINE x == [buyer[b] EXCEPT !.stage = "empty"]
  <2>1. x \in Buyer /\ x.stage = "empty" /\ x.at = buyer[b].at
    BY <1>2 DEF Buyer
  <2>2. buyer' = [buyer EXCEPT ![b] = x] /\ UNCHANGED <<now, packs, edit>>
    BY <1>3 DEF Show
  <2> HIDE DEF x
  <2>3. BuyerIsInformed(b)'
    BY <1>1, <1>2, <2>1, <2>2, BuyerUpdated DEF BuyerIsInformed
  <2> QED BY <2>1, <2>2, <2>3, BuyerStep
<1>4. CASE coins # {}
  <2>1. Live(buyer[b].at) \in SUBSET Saved
    BY DEF Live
  <2>2. coins \in SUBSET Nat /\ IsFiniteSet(coins)
    BY <1>1, <2>1, CoinsAreFinite
  <2>3. Max(coins) \in coins /\ Max(coins) \in Nat
    BY <1>4, <2>2, MaxIsLargest
  <2>4. PICK p \in Live(buyer[b].at) : packs[p].coins = Max(coins)
    BY <2>3
  <2> DEFINE x == [buyer[b] EXCEPT !.stage = "shown", !.coins = Max(coins)]
  <2>5. x \in Buyer /\ x.stage = "shown" /\ x.at = buyer[b].at /\ x.coins = Max(coins)
    BY <1>2, <2>3 DEF Buyer
  <2>6. buyer' = [buyer EXCEPT ![b] = x] /\ UNCHANGED <<now, packs, edit>>
    BY <1>4 DEF Show
  <2> HIDE DEF x, coins
  <2>7. buyer'[b] = x
    BY <1>1, <2>5, <2>6, BuyerUpdated
  <2>8. /\ p \in Packs /\ packs[p] # NoPack /\ packs[p].retired = Never
        /\ packs[p].starts <= buyer[b].at /\ buyer[b].at < packs[p].ends
    BY <1>1, <2>4 DEF Live, Saved, TypeOK
  <2>9. buyer[b].at - Saving <= Never
    <3>1. buyer[b].at \in Nat /\ buyer[b].at < Never /\ Never \in Nat
      BY <1>1, BuyerRecord, Constants
    <3> QED BY <3>1, Constants
  <2>10. Backs(p, b)'
    BY <2>4, <2>5, <2>6, <2>7, <2>8, <2>9 DEF Backs
  <2>11. BuyerIsInformed(b)'
    BY <1>1, <1>2, <2>5, <2>6, <2>7, <2>8, <2>10 DEF BuyerIsInformed
  <2> QED BY <2>5, <2>6, <2>11, BuyerStep
<1> QED BY <1>3, <1>4

LEMMA ShowFloorStep ==
  ASSUME IInv, NEW b \in Buyers, ShowFloor(b)
  PROVE  IInv'
<1>1. TypeOK /\ buyer[b].stage = "empty" /\ buyer[b] # Idle
  <2>1. buyer[b].stage = "empty"
    BY DEF ShowFloor
  <2>2. buyer[b] # Idle
    BY <2>1 DEF Idle
  <2> QED BY <2>1, <2>2 DEF IInv
<1>2. buyer[b] \in Buyer /\ BuyerIsInformed(b)
  BY <1>1, BuyerRecord
<1>3. CASE Saved # {}
  <2> DEFINE x == [buyer[b] EXCEPT !.stage = "hidden"]
  <2>1. x \in Buyer /\ x.stage = "hidden" /\ x.at = buyer[b].at
    BY <1>2 DEF Buyer
  <2>2. buyer' = [buyer EXCEPT ![b] = x] /\ UNCHANGED <<now, packs, edit>>
    BY <1>3 DEF ShowFloor
  <2> HIDE DEF x
  <2>3. BuyerIsInformed(b)'
    BY <1>1, <1>2, <2>1, <2>2, BuyerUpdated DEF BuyerIsInformed
  <2> QED BY <2>1, <2>2, <2>3, BuyerStep
<1>4. CASE Saved = {}
  <2> DEFINE x == [buyer[b] EXCEPT !.stage = "shown", !.coins = Floor]
  <2>1. x \in Buyer /\ x.stage = "shown" /\ x.at = buyer[b].at /\ x.coins = Floor
    BY <1>2, Constants DEF Buyer
  <2>2. buyer' = [buyer EXCEPT ![b] = x] /\ UNCHANGED <<now, packs, edit>>
    BY <1>4 DEF ShowFloor
  <2> HIDE DEF x
  <2>3. BuyerIsInformed(b)'
    BY <1>1, <1>2, <2>1, <2>2, BuyerUpdated DEF BuyerIsInformed
  <2> QED BY <2>1, <2>2, <2>3, BuyerStep
<1> QED BY <1>3, <1>4

LEMMA PayStep ==
  ASSUME IInv, NEW b \in Buyers, NEW stamp \in 0 .. Horizon + Ahead, Pay(b, stamp)
  PROVE  IInv'
<1> DEFINE x == [buyer[b] EXCEPT !.stage = "paid", !.paid = stamp]
<1>1. TypeOK /\ buyer[b].stage = "shown" /\ buyer[b] # Idle
  BY DEF IInv, Pay, Idle
<1>2. buyer[b] \in Buyer /\ BuyerIsInformed(b) /\ now \in Nat /\ buyer[b].at \in Nat
  BY <1>1, BuyerRecord, Constants
<1>3. /\ x \in Buyer /\ x.stage = "paid" /\ x.paid = stamp
      /\ x.at = buyer[b].at /\ x.coins = buyer[b].coins
  BY <1>2 DEF Buyer
<1>4. buyer' = [buyer EXCEPT ![b] = x] /\ UNCHANGED <<now, packs, edit>>
  BY DEF Pay
<1> HIDE DEF x
<1>5. buyer'[b] = x
  BY <1>1, <1>3, <1>4, BuyerUpdated
<1>6. now <= stamp /\ stamp \in Nat
  BY <1>2, Constants DEF Pay
<1>7. buyer[b].at <= stamp
  BY <1>1, <1>2, <1>6 DEF BuyerIsInformed
<1>8. ASSUME NEW p \in Packs, Backs(p, b) PROVE Backs(p, b)'
  <2>1. packs[p] \in Pack /\ packs[p].created <= now
    BY <1>1, <1>8 DEF IInv, TypeOK, PacksArePast, Backs
  <2>2. packs[p].created \in Nat
    BY <2>1, Constants DEF Pack
  <2>3. packs[p].created <= stamp
    BY <1>2, <1>6, <2>1, <2>2
  <2> QED BY <1>3, <1>4, <1>5, <1>8, <2>3 DEF Backs
<1>9. BuyerIsInformed(b)'
  BY <1>1, <1>2, <1>3, <1>4, <1>5, <1>7, <1>8 DEF BuyerIsInformed
<1> QED BY <1>3, <1>4, <1>9, BuyerStep

\* The pack that backs the buyer is still honoured, whatever staff did since.
LEMMA CreditStep ==
  ASSUME IInv, NEW b \in Buyers, Credit(b)
  PROVE  IInv'
<1> DEFINE stamp == buyer[b].paid
           paid == IF stamp < now THEN stamp ELSE now
           x == [buyer[b] EXCEPT !.stage = "credited", !.credited = CreditedCoins(stamp)]
<1>1. TypeOK /\ buyer[b].stage = "paid" /\ buyer[b] # Idle
  BY DEF IInv, Credit, Idle
<1>2. /\ buyer[b] \in Buyer /\ BuyerIsInformed(b) /\ now \in Nat /\ buyer[b].at \in Nat
      /\ stamp \in Nat /\ buyer[b].coins \in Nat /\ buyer[b].at <= now
  <2>1. /\ buyer[b] \in Buyer /\ BuyerIsInformed(b) /\ now \in Times /\ buyer[b].at \in Times
        /\ stamp \in 0 .. Horizon + Ahead /\ buyer[b].coins \in Nat /\ buyer[b].at <= now
    BY <1>1, BuyerRecord
  <2>2. now \in Nat /\ buyer[b].at \in Nat
    BY <2>1, Constants
  <2>3. stamp \in Nat
    BY <2>1, Constants
  <2> QED BY <2>1, <2>2, <2>3
<1>3. /\ CreditedCoins(stamp) \in Nat /\ CreditedCoins(stamp) >= Floor
      /\ \A p \in Honored(paid) : CreditedCoins(stamp) >= packs[p].coins
  BY <1>1, <1>2, CreditIsLargest
<1>4. /\ x \in Buyer /\ x.stage = "credited" /\ x.paid = stamp
      /\ x.at = buyer[b].at /\ x.coins = buyer[b].coins /\ x.credited = CreditedCoins(stamp)
  BY <1>2, <1>3 DEF Buyer
<1>5. buyer' = [buyer EXCEPT ![b] = x] /\ UNCHANGED <<now, packs, edit>>
  BY DEF Credit
<1>6. stamp >= buyer[b].at
  BY <1>1, <1>2 DEF BuyerIsInformed
<1>7. ASSUME stamp < buyer[b].at + Honor - Saving
      PROVE  CreditedCoins(stamp) >= buyer[b].coins
  <2>1. CASE buyer[b].coins = Floor
    BY <1>3, <2>1
  <2>2. ASSUME NEW p \in Packs, Backs(p, b) PROVE p \in Honored(paid)
    <3>1. packs[p] \in Pack /\ packs[p].created <= now
      BY <1>1, <2>2 DEF IInv, TypeOK, PacksArePast, Backs
    <3>2. /\ packs[p].created \in Nat /\ packs[p].starts \in Nat
          /\ packs[p].ends \in Nat /\ packs[p].retired \in Nat
      BY <3>1, Constants DEF Pack
    <3>3. /\ packs[p].starts <= buyer[b].at /\ buyer[b].at < packs[p].ends
          /\ buyer[b].at - Saving <= packs[p].retired /\ packs[p].created <= stamp
      BY <1>1, <2>2 DEF Backs
    <3>4. paid \in Nat /\ paid <= stamp /\ paid >= buyer[b].at /\ packs[p].created <= paid
      BY <1>2, <1>6, <3>1, <3>2, <3>3
    <3> HIDE DEF paid, stamp
    <3>5. /\ packs[p].starts <= paid /\ packs[p].created <= paid
          /\ packs[p].ends > paid - Honor /\ packs[p].retired > paid - Honor
      BY <1>2, <1>6, <1>7, <3>2, <3>3, <3>4, Constants
    <3> QED BY <2>2, <3>5 DEF Honored, Saved, Backs
  <2>3. buyer[b].coins = Floor \/ \E p \in Packs : Backs(p, b)
    BY <1>1, <1>2 DEF BuyerIsInformed
  <2> HIDE DEF paid
  <2> QED BY <1>3, <2>1, <2>2, <2>3 DEF Backs
<1> HIDE DEF x
<1>8. BuyerIsInformed(b)'
  <2>1. buyer'[b] = x
    BY <1>1, <1>4, <1>5, BuyerUpdated
  <2>2. \A p \in Packs : Backs(p, b) => Backs(p, b)'
    BY <1>1, <1>4, <1>5, <2>1 DEF Backs
  <2> QED BY <1>1, <1>2, <1>4, <1>5, <1>6, <2>1, <2>2 DEF BuyerIsInformed
<1> QED BY <1>4, <1>5, <1>7, <1>8, BuyerStep

LEMMA TickStep ==
  ASSUME IInv, Tick
  PROVE  IInv'
<1>1. TypeOK /\ now \in Times /\ now \in Nat /\ now' = now + 1 /\ now' \in Times
  BY Constants DEF IInv, TypeOK, Tick, Times
<1>2. UNCHANGED <<packs, edit, buyer>>
  BY DEF Tick
<1>3. TypeOK'
  BY <1>1, <1>2 DEF TypeOK
<1>4. FormsChecked' /\ ShownIsHonored'
  BY <1>2 DEF IInv, FormsChecked, ShownIsHonored
<1>5. ASSUME NEW s \in Staff PROVE PageIsFaithful(s)'
  <2>1. edit[s].stage = "saving" =>
          /\ edit[s].stamp \in Nat /\ edit[s].stamp <= now /\ now < edit[s].stamp + Saving
    BY <1>1, Stages, Constants DEF IInv, PageIsFaithful, Page, Tick
  <2>2. edit[s].stage = "saving" => edit[s].stamp <= now' /\ now' <= edit[s].stamp + Saving
    BY <1>1, <2>1, Constants
  <2> QED BY <1>2, <2>2 DEF IInv, PageIsFaithful
<1>6. PacksArePast'
  <2>1. \A p \in Packs : packs[p] # NoPack => packs[p].created \in Nat /\ packs[p].created <= now
    BY <1>1, Constants DEF IInv, TypeOK, PacksArePast, Pack
  <2> QED BY <1>1, <1>2, <2>1 DEF PacksArePast
<1>7. ASSUME NEW b \in Buyers, buyer[b] # Idle PROVE BuyerIsInformed(b)'
  <2>1. buyer[b].at \in Nat /\ buyer[b].at <= now /\ BuyerIsInformed(b)
    BY <1>7, BuyerRecord, Constants
  <2>2. buyer[b].at <= now'
    BY <1>1, <2>1
  <2> QED BY <1>2, <1>7, <2>1, <2>2 DEF BuyerIsInformed, Backs
<1>8. \A b \in Buyers : BuyerIsInformed(b)'
  BY <1>2, <1>7 DEF BuyerIsInformed
<1> QED BY <1>3, <1>4, <1>5, <1>6, <1>8 DEF IInv

-----------------------------------------------------------------------------
(* Theorems. *)

LEMMA InvariantStep == IInv /\ [Next]_vars => IInv'
<1> SUFFICES ASSUME IInv, [Next]_vars PROVE IInv'
  OBVIOUS
<1>1. CASE UNCHANGED vars
  BY <1>1 DEF vars, IInv, TypeOK, FormsChecked, PageIsFaithful, PacksArePast, BuyerIsInformed,
              Backs, ShownIsHonored
<1>2. ASSUME NEW s \in Staff, NEW f \in Forms, Add(s, f) PROVE IInv'
  BY <1>2, AddStep
<1>3. ASSUME NEW s \in Staff, NEW p \in Packs, Insert(s, p) \/ Open(s, p) PROVE IInv'
  BY <1>3, InsertStep, OpenStep
<1>4. ASSUME NEW s \in Staff, NEW active \in BOOLEAN, Switch(s, active) PROVE IInv'
  BY <1>4, SwitchStep
<1>5. ASSUME NEW s \in Staff, Commit(s) PROVE IInv'
  BY <1>5, CommitStep
<1>6. ASSUME NEW b \in Buyers, Ask(b) \/ Show(b) \/ ShowFloor(b) \/ Credit(b) PROVE IInv'
  BY <1>6, AskStep, ShowStep, ShowFloorStep, CreditStep
<1>7. ASSUME NEW b \in Buyers, NEW stamp \in 0 .. Horizon + Ahead, Pay(b, stamp) PROVE IInv'
  BY <1>7, PayStep
<1>8. CASE Tick
  BY <1>8, TickStep
<1> QED BY <1>1, <1>2, <1>3, <1>4, <1>5, <1>6, <1>7, <1>8 DEF Next

THEOREM Invariant == Spec => []IInv
BY InitInvariant, InvariantStep, PTL DEF Spec

\* Types, and what the database keeps of every pack: it has some time, and is active until
\* the time it was retired.
THEOREM TypeCorrect == Spec => []TypeOK
<1>1. IInv => TypeOK
  BY DEF IInv
<1> QED BY <1>1, Invariant, PTL

\* Whatever staff do with however many packs between the page and the callback, a
\* buyer who pays in time is credited at least what the page showed.
THEOREM BuyersGetWhatTheySaw == Spec => []ShownIsHonored
<1>1. IInv => ShownIsHonored
  BY DEF IInv
<1> QED BY <1>1, Invariant, PTL
=============================================================================
