------------------------------- MODULE CoinPacks -------------------------------
(***************************************************************************)
(* Coin packs: backend/apps/commerce, the offers for one store product and *)
(* the coins that a payment for it is worth.  Staff add packs and turn     *)
(* them off in Django Admin, without a lock; a buyer loads the offers,     *)
(* pays in the store a while later, and the credit is decided when the     *)
(* callback of the store arrives.  The credit itself is in Purchases.      *)
(***************************************************************************)
EXTENDS Integers, FiniteSets, FiniteSetsExt

CONSTANTS
  Packs, Staff, Buyers,
  Forms,      \* the packs that staff may add
  Floor,      \* coins of the product in the registry
  Honor,      \* HONOR_WINDOW: 24 hours
  Saving,     \* bound on the time from the stamp of a save to its commit
  Ahead,      \* the clock of the store may be ahead by this
  Horizon     \* bound of the clock

Times == 0 .. Horizon
Never == Horizon + Honor + Ahead + 1
Ends == Times \cup {Never}
\* A pack without a start starts at 0, one without an end at Never; bonus in percent.
Form == [base: Nat \ {0}, bonus: 0 .. 200, starts: Ends, ends: Ends,
         limited: BOOLEAN, active: BOOLEAN]
NoPack == [coins |-> 0]

ASSUME PacksAssumption ==
  /\ IsFiniteSet(Packs)
  /\ {Floor, Honor} \subseteq Nat \ {0}
  /\ {Saving, Ahead, Horizon} \subseteq Nat
  /\ Forms \subseteq Form

VARIABLES
  now,
  packs,      \* the table
  edit,       \* what a member of staff does
  buyer       \* the page a buyer has loaded, the payment and its coins

vars == <<now, packs, edit, buyer>>

Idle == [stage |-> "idle"]
\* retired is Never while the pack is active.
Pack == [coins: Nat, starts: Ends, ends: Ends, created: Times, active: BOOLEAN, retired: Ends]
\* A form that was checked, the page of a pack, and a buyer with the offers.
Checked == [stage: {"checked"}, form: Forms]
Page == [stage: {"open", "saving"}, pack: Packs, row: Pack, stamp: Times]
Buyer == [stage: {"asked", "empty", "hidden", "shown", "paid", "credited"},
          at: Times, coins: Nat, paid: 0 .. Horizon + Ahead, credited: Nat]

TypeOK ==
  /\ now \in Times
  /\ packs \in [Packs -> Pack \cup {NoPack}]
  /\ \A p \in Packs : packs[p] # NoPack =>
       /\ packs[p].starts < packs[p].ends
       /\ packs[p].active <=> packs[p].retired = Never
  /\ edit \in [Staff -> Checked \cup Page \cup {Idle}]
  /\ buyer \in [Buyers -> Buyer \cup {Idle}]

Init ==
  /\ now = 0
  /\ packs = [p \in Packs |-> NoPack]
  /\ edit = [s \in Staff |-> Idle]
  /\ buyer = [b \in Buyers |-> Idle]

-----------------------------------------------------------------------------
Saved == {p \in Packs : packs[p] # NoPack}

\* pack_coins: the coins of the bonus are rounded down.
PackCoins(base, bonus) == base + (base * bonus) \div 100

\* _live: the packs on offer at time t.
Live(t) == {p \in Saved : packs[p].active /\ packs[p].starts <= t /\ t < packs[p].ends}

\* Mutant of Honored: packs that are on offer when the payment is made.
LiveAtPayment(paid) ==
  {p \in Live(paid) : packs[p].created <= paid}

\* credited_coins: the floor, or the best pack that was not over a day before payment.
Honored(paid) ==
  {p \in Saved :
     /\ packs[p].starts <= paid
     /\ packs[p].created <= paid
     /\ packs[p].ends > paid - Honor
     /\ packs[p].retired > paid - Honor}

CreditedCoins(stamp) ==
  LET paid == IF stamp < now THEN stamp ELSE now
  IN Max({Floor} \cup {packs[p].coins : p \in Honored(paid)})

-----------------------------------------------------------------------------
(* Django Admin: CoinPackForm and CoinPack.save. *)

\* CoinPackForm.clean of a new pack.  No lock is held while it looks for another pack,
\* and the floor is looked up only where the registry can be read.
FormIsClean(f, registry) ==
  LET from == IF f.starts = 0 THEN now ELSE f.starts
  IN /\ f.limited => f.ends # Never
     /\ f.ends > from
     /\ registry => PackCoins(f.base, f.bonus) >= Floor
     /\ \A p \in Saved :
          packs[p].active => packs[p].starts >= f.ends \/ packs[p].ends <= from

Add(s, f) ==
  /\ edit[s] = Idle
  /\ Cardinality({t \in Staff : edit[t].stage = "checked"}) < Cardinality(Packs \ Saved) \* bound
  /\ \E registry \in BOOLEAN : FormIsClean(f, registry)
  /\ edit' = [edit EXCEPT ![s] = [stage |-> "checked", form |-> f]]
  /\ UNCHANGED <<now, packs, buyer>>

\* The new pack is saved; one that is off from the start retires at once.
Insert(s, p) ==
  /\ edit[s].stage = "checked"
  /\ packs[p] = NoPack
  /\ LET f == edit[s].form
     IN packs' = [packs EXCEPT ![p] =
          [coins |-> PackCoins(f.base, f.bonus), starts |-> f.starts, ends |-> f.ends,
           created |-> now, active |-> f.active, retired |-> IF f.active THEN Never ELSE now]]
  /\ edit' = [edit EXCEPT ![s] = Idle]
  /\ UNCHANGED <<now, buyer>>

\* The page of a pack is posted: its row is loaded.
Open(s, p) ==
  /\ edit[s] = Idle
  /\ p \in Saved
  /\ edit' = [edit EXCEPT ![s] =
       [stage |-> "open", pack |-> p, row |-> packs[p], stamp |-> 0]]
  /\ UNCHANGED <<now, packs, buyer>>

\* CoinPack.save: turned off, it is stamped with the time.  A retired pack's switch is disabled.
Switch(s, active) ==
  /\ edit[s].stage = "open"
  /\ active => edit[s].row.retired = Never
  /\ LET row == edit[s].row
         off == ~active /\ row.retired = Never
     IN edit' = [edit EXCEPT ![s] =
          [stage |-> "saving", pack |-> edit[s].pack, stamp |-> now,
           row |-> [row EXCEPT !.active = active, !.retired = IF off THEN now ELSE @]]]
  /\ UNCHANGED <<now, packs, buyer>>

\* commerce_guard_coin_pack: amounts and dates are fixed and a retired pack stays as it is.
Guarded(old, new) ==
  /\ [new EXCEPT !.active = old.active, !.retired = old.retired] = old
  /\ old.retired # Never => ~new.active /\ new.retired = old.retired

\* The whole row is written and committed, or the trigger refuses it.
Commit(s) ==
  /\ edit[s].stage = "saving"
  /\ LET p == edit[s].pack
     IN IF Guarded(packs[p], edit[s].row)
        THEN packs' = [packs EXCEPT ![p] = edit[s].row]
        ELSE UNCHANGED packs
  /\ edit' = [edit EXCEPT ![s] = Idle]
  /\ UNCHANGED <<now, buyer>>

-----------------------------------------------------------------------------
(* POST /v1/purchases/catalog: catalog_offers; then the payment. *)

\* The time of the offers is taken.
Ask(b) ==
  /\ buyer[b] = Idle
  /\ buyer' = [buyer EXCEPT ![b] =
       [stage |-> "asked", at |-> now, coins |-> 0, paid |-> 0, credited |-> 0]]
  /\ UNCHANGED <<now, packs, edit>>

\* The best of the live packs is shown.
Show(b) ==
  /\ buyer[b].stage = "asked"
  /\ LET coins == {packs[p].coins : p \in Live(buyer[b].at)}
     IN buyer' = IF coins = {} THEN [buyer EXCEPT ![b].stage = "empty"]
                 ELSE [buyer EXCEPT ![b].stage = "shown", ![b].coins = Max(coins)]
  /\ UNCHANGED <<now, packs, edit>>

\* Without packs the product is offered as the registry has it; with others it is hidden.
ShowFloor(b) ==
  /\ buyer[b].stage = "empty"
  /\ buyer' = IF Saved # {} THEN [buyer EXCEPT ![b].stage = "hidden"]
              ELSE [buyer EXCEPT ![b].stage = "shown", ![b].coins = Floor]
  /\ UNCHANGED <<now, packs, edit>>

\* The buyer pays in the store, whose clock stamps the payment.
Pay(b, stamp) ==
  /\ buyer[b].stage = "shown"
  /\ stamp \in now .. now + Ahead
  /\ buyer' = [buyer EXCEPT ![b].stage = "paid", ![b].paid = stamp]
  /\ UNCHANGED <<now, packs, edit>>

\* _decide: the coins of a verified payment, whenever its callback arrives.
Credit(b) ==
  /\ buyer[b].stage = "paid"
  /\ buyer' = [buyer EXCEPT ![b].stage = "credited", ![b].credited = CreditedCoins(buyer[b].paid)]
  /\ UNCHANGED <<now, packs, edit>>

Tick ==
  /\ now < Horizon
  /\ \A s \in Staff : edit[s].stage = "saving" => now < edit[s].stamp + Saving
  /\ now' = now + 1
  /\ UNCHANGED <<packs, edit, buyer>>

Next ==
  \/ \E s \in Staff :
       \/ \E f \in Forms : Add(s, f)
       \/ \E p \in Packs : Insert(s, p) \/ Open(s, p)
       \/ \E active \in BOOLEAN : Switch(s, active)
       \/ Commit(s)
  \/ \E b \in Buyers :
       \/ Ask(b) \/ Show(b) \/ ShowFloor(b) \/ Credit(b)
       \/ \E stamp \in 0 .. Horizon + Ahead : Pay(b, stamp)
  \/ Tick

Spec == Init /\ [][Next]_vars

-----------------------------------------------------------------------------
(* Correctness. *)

\* A buyer is never credited less than the pack they were shown (models.py:81) if they
\* paid within the window (packs.py:13) less the time a save may take: the pack may
\* have ended or been turned off since, before or after the payment, and better or worse
\* packs added.
ShownIsHonored ==
  \A b \in Buyers :
    buyer[b] # Idle /\ buyer[b].stage = "credited" /\ buyer[b].paid < buyer[b].at + Honor - Saving =>
      buyer[b].credited >= buyer[b].coins
=============================================================================
