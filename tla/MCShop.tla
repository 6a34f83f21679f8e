-------------------------------- MODULE MCShop --------------------------------
(* Instances for TLC of the shop, CoinPacks, and of what a viewer's phone does in it,     *)
(* MobileCheckout and MobileUnlock.  The three meet in no variable but the session: a     *)
(* behaviour is one of one of them, and the others wait.                                  *)
EXTENDS CoinPacks, MobileCheckout, MobileUnlock, TLC

CONSTANT oldRequest

\* One viewer comes from the release before with a marker.
OldMarkers ==
  {[profile |-> v, episode |-> CHOOSE e \in Episodes : TRUE, request |-> oldRequest] : v \in AutoOn}

VARIABLE part  \* which of the three

checkout == <<screen, pending, payment>>
unlocks == <<store, queue, task, made, told, server>>

ShopInit ==
  /\ part \in {"packs", "checkout", "unlock"}
  /\ Init /\ CheckoutInit /\ UnlockInit
  /\ part # "unlock" => debits = {}

ShopNext ==
  \/ part = "packs" /\ Next /\ UNCHANGED <<part, session, checkout, unlocks>>
  \/ part = "checkout" /\ CheckoutNext /\ UNCHANGED <<part, vars, unlocks>>
  \/ part = "unlock" /\ UnlockNext /\ UNCHANGED <<part, vars, checkout>>

ShopSpec == ShopInit /\ [][ShopNext]_<<part, session, vars, checkout, unlocks>>

\* A pack without dates, a limited one, and one for later that staff leave off, worth less than
\* the floor: a process that cannot read the registry accepts it.
Plain == [base |-> 2, bonus |-> 50, starts |-> 0, ends |-> Never, limited |-> FALSE, active |-> TRUE]
SomeForms ==
  {Plain,
   [Plain EXCEPT !.base = 4, !.ends = 2, !.limited = TRUE],
   [Plain EXCEPT !.base = 1, !.starts = 2, !.active = FALSE]}

\* A behaviour ends with the credit: what staff do afterwards is as before it.
UntilCredited == \A b \in Buyers : buyer[b] # Idle => buyer[b].stage \notin {"hidden", "credited"}

\* The last request id is for viewers with auto-unlock, while no other was there.
FewRequests ==
  Fresh = {} => \A v \in Viewers \ AutoOn : session # v /\ \A a \in made : a.profile # v

Interchangeable == Permutations(Staff) \cup Permutations(Packs)
=============================================================================
