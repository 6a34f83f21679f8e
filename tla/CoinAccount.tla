---------------------------- MODULE CoinAccount -----------------------------
(***************************************************************************)
(* What the coin wallet promises a viewer, with no locks, no offers and no *)
(* calls: every unlock request ends at most once, completed or cancelled;  *)
(* coins leave an account only when such a completion gives it an episode  *)
(* it does not have and can pay for; a closed account changes no more.     *)
(***************************************************************************)
EXTENDS Integers

CONSTANTS Users, Requests, Episodes,
  Packs \* coins one purchase can add

VARIABLES
  standing, \* whether the account is active or deleted
  funds,    \* its spendable coins
  outcome,  \* how each request of the account ended
  access    \* the source of its permanent access to each episode

vars == <<standing, funds, outcome, access>>

Init ==
  /\ standing = [u \in Users |-> "active"]
  /\ funds = [u \in Users |-> 0]
  /\ outcome = [u \in Users |-> [r \in Requests |-> "open"]]
  /\ access = [u \in Users |-> [e \in Episodes |-> "none"]]

\* An unlock of something the viewer can already watch costs nothing.
CompleteFree(u, r) ==
  /\ standing[u] = "active"
  /\ outcome[u][r] = "open"
  /\ outcome' = [outcome EXCEPT ![u][r] = "completed"]
  /\ UNCHANGED <<standing, funds, access>>

CompletePaid(u, r, e, n) ==
  /\ standing[u] = "active"
  /\ outcome[u][r] = "open"
  /\ access[u][e] = "none"
  /\ n \in 1..funds[u]
  /\ outcome' = [outcome EXCEPT ![u][r] = "completed"]
  /\ funds' = [funds EXCEPT ![u] = @ - n]
  /\ access' = [access EXCEPT ![u][e] = "coin"]
  /\ UNCHANGED standing

Cancel(u, r) ==
  /\ standing[u] = "active"
  /\ outcome[u][r] = "open"
  /\ outcome' = [outcome EXCEPT ![u][r] = "cancelled"]
  /\ UNCHANGED <<standing, funds, access>>

Fund(u, n) ==
  /\ standing[u] = "active"
  /\ n \in Packs
  /\ funds' = [funds EXCEPT ![u] = @ + n]
  /\ UNCHANGED <<standing, outcome, access>>

\* Access that cost no coins comes and goes; bought access stays.
Regrant(u, e, s) ==
  /\ standing[u] = "active"
  /\ access[u][e] # "coin"
  /\ s \in {"none", "staff", "rewarded_ad"}
  /\ access' = [access EXCEPT ![u][e] = s]
  /\ UNCHANGED <<standing, funds, outcome>>

\* Only the removal of the episode itself ends bought access.
Withdraw(e) ==
  /\ access' = [u \in Users |-> [access[u] EXCEPT ![e] = "none"]]
  /\ UNCHANGED <<standing, funds, outcome>>

Close(u) ==
  /\ standing[u] = "active"
  /\ standing' = [standing EXCEPT ![u] = "deleted"]
  /\ access' = [access EXCEPT ![u] = [e \in Episodes |-> "none"]]
  /\ UNCHANGED <<funds, outcome>>

Next ==
  \/ \E u \in Users :
       \/ \E r \in Requests :
            \/ CompleteFree(u, r)
            \/ Cancel(u, r)
            \/ \E e \in Episodes : \E n \in 1..funds[u] : CompletePaid(u, r, e, n)
       \/ \E n \in Packs : Fund(u, n)
       \/ \E e \in Episodes, s \in {"none", "staff", "rewarded_ad"} : Regrant(u, e, s)
       \/ Close(u)
  \/ \E e \in Episodes : Withdraw(e)

Spec == Init /\ [][Next]_vars
=============================================================================
