---------------------------- MODULE MobileCheckout ----------------------------
(***************************************************************************)
(* Buying coins on one phone: mobile/src/features/purchases with its       *)
(* checkoutCoordinator.ts, the marker of pendingPurchaseAttempt.ts and the *)
(* results of revenueCatProvider.ts, in the sandbox mode, with an app that *)
(* dies, viewers that sign in and out, a storage that fails and payments   *)
(* that end late.                                                          *)
(*                                                                         *)
(* Packs and prices only decide whether a payment is offered (CoinPacks);  *)
(* of the server only what it answers of a transaction is seen.            *)
(***************************************************************************)
EXTENDS Phone, Integers, FiniteSets

CONSTANTS
  Attempts,      \* attempt ids, and the store's transaction of each
  Coordinators   \* one per screen of coin packs, until it is closed

VARIABLES
  screen,   \* the coordinator of a screen
  pending,   \* SecureStore: the unresolved attempt of an owner
  payment   \* the store and the server: who pays an attempt and how far it is

checkoutVars == <<session, screen, pending, payment>>

\* print: the marker has the fingerprint of the transaction.
PurchaseAttempt == [id: Attempts, print: BOOLEAN]
Coordinator == [owner: Viewers, current: BOOLEAN, offers: BOOLEAN, completed: PurchaseAttempt \cup {None},
         stage: {"ready", "write", "ask", "pay", "print", "verify", "clear"},
         attempt: PurchaseAttempt \cup {None}]
Closed == [stage |-> "closed"]

CheckoutTypeOK ==
  /\ session \in Viewers \cup {None}
  /\ screen \in [Coordinators -> Coordinator \cup {Closed}]
  /\ pending \in [Viewers -> PurchaseAttempt \cup {None}]
  /\ payment \in [Attempts ->
       [owner: Viewers \cup {None},
        state: {"new", "made", "asked", "declined", "paid", "credited", "reviewed"}]]

CheckoutInit ==
  /\ session = None
  /\ screen = [c \in Coordinators |-> Closed]
  /\ pending = [o \in Viewers |-> None]
  /\ payment = [i \in Attempts |-> [owner |-> None, state |-> "new"]]

-----------------------------------------------------------------------------
(* checkoutCoordinator.ts. *)

\* operating: one operation at a time in the whole process.
Operating == \E c \in Coordinators : screen[c].stage \notin {"closed", "ready"}

OpenPacks(c) ==
  /\ screen[c] = Closed /\ session # None
  /\ screen' = [screen EXCEPT ![c] =
       [owner |-> session, current |-> TRUE, offers |-> FALSE, completed |-> None,
        stage |-> "ready", attempt |-> None]]
  /\ UNCHANGED <<session, pending, payment>>

\* The screen goes; an operation that runs goes on.
ClosePacks(c) ==
  /\ screen[c].stage = "ready"
  /\ screen' = [screen EXCEPT ![c] = Closed]
  /\ UNCHANGED <<session, pending, payment>>

\* run: the operation is over, whatever it answers; after a change of session the
\* coordinator forgets what it had and does nothing more.
Over(c, s) ==
  screen' = [screen EXCEPT ![c] =
    IF s.current THEN [s EXCEPT !.stage = "ready", !.attempt = None] ELSE Closed]

GoesTo(c, stage) == screen' = [screen EXCEPT ![c].stage = stage]

\* No operation runs and the coordinator may start one.
Starts(c) == screen[c].stage = "ready" /\ screen[c].current /\ ~Operating

\* load: packs are offered to an owner without an unresolved attempt.
Load(c) ==
  /\ Starts(c)
  /\ \E ok \in {pending[screen[c].owner] = None, FALSE} :
       screen' = [screen EXCEPT ![c].offers = ok]
  /\ UNCHANGED <<session, pending, payment>>

\* purchase, up to the marker: fresh offers agree with those the viewer saw, or they are
\* what is offered now, if there are any.
Purchase(c, i) ==
  /\ Starts(c) /\ screen[c].offers
  /\ pending[screen[c].owner] = None
  /\ \/ /\ payment[i].state = "new"
        /\ payment' = [payment EXCEPT ![i] = [owner |-> screen[c].owner, state |-> "made"]]
        /\ screen' = [screen EXCEPT ![c].stage = "write",
                                    ![c].attempt = [id |-> i, print |-> FALSE]]
     \/ /\ \E fresh \in BOOLEAN : screen' = [screen EXCEPT ![c].offers = fresh]
        /\ UNCHANGED payment
  /\ UNCHANGED <<session, pending>>

\* storage.write, never over another attempt.
Write(c) ==
  /\ screen[c].stage = "write"
  /\ \/ /\ screen[c].current /\ pending[screen[c].owner] = None
        /\ pending' = [pending EXCEPT ![screen[c].owner] = screen[c].attempt]
        /\ GoesTo(c, "ask")
     \/ Over(c, screen[c]) /\ UNCHANGED pending
  /\ UNCHANGED <<session, payment>>

\* provider.purchase, which may refuse before it opens the sheet of the store.
AskStore(c) ==
  /\ screen[c].stage = "ask"
  /\ \/ /\ screen[c].current
        /\ payment' = [payment EXCEPT ![screen[c].attempt.id].state = "asked"]
        /\ GoesTo(c, "pay")
     \/ Over(c, screen[c]) /\ UNCHANGED payment
  /\ UNCHANGED <<session, pending>>

StateOf(c) == payment[screen[c].attempt.id].state
Settled == {"credited", "reviewed"}
Bought == {"paid"} \cup Settled

\* Mutant of Definite: any answer but a transaction is taken for a refusal.
DefiniteUnlessPaid(c) == StateOf(c) \in {"asked", "declined"}

\* definitePurchaseFailure: only a refusal of the store says that nothing is paid.
Definite(c) == StateOf(c) = "declined"

\* What the sheet ended with; a payment that is slow, or whose result is lost or was
\* seen after a change of session, leaves its marker.
Result(c) ==
  /\ screen[c].stage = "pay"
  /\ \/ screen[c].current /\ Definite(c) /\ GoesTo(c, "clear")
     \/ /\ screen[c].current /\ StateOf(c) \in Bought
        /\ screen' = [screen EXCEPT ![c].completed = screen[c].attempt, ![c].stage = "print"]
     \/ Over(c, screen[c])
  /\ UNCHANGED <<session, pending, payment>>

Printed(a) == [a EXCEPT !.print = TRUE]

\* storage.recordFingerprint; an error may hide a write that happened.
RecordFingerprint(c) ==
  /\ screen[c].stage = "print"
  /\ LET s == screen[c]
         kept == s.current /\ pending[s.owner] = s.attempt
         printed == [pending EXCEPT ![s.owner] = Printed(s.attempt)]
     IN \/ /\ kept /\ pending' = printed
           /\ screen' = [screen EXCEPT ![c].completed = Printed(s.attempt),
                                       ![c].attempt = Printed(s.attempt), ![c].stage = "verify"]
        \/ /\ Over(c, s)
           /\ IF kept THEN pending' \in {pending, printed} ELSE UNCHANGED pending
  /\ UNCHANGED <<session, payment>>

\* sync: the button of an unresolved attempt.
Sync(c) ==
  /\ Starts(c)
  /\ pending[screen[c].owner] # None
  /\ screen' = [screen EXCEPT ![c].attempt = pending[screen[c].owner], ![c].stage = "verify"]
  /\ UNCHANGED <<session, pending, payment>>

\* verify, of a transaction the coordinator knows or whose fingerprint is stored; the
\* server may credit it now or have credited it.
Verify(c) ==
  /\ screen[c].stage = "verify"
  /\ \/ /\ screen[c].current
        /\ screen[c].attempt.print \/ screen[c].completed = screen[c].attempt
        /\ StateOf(c) = "credited"
        /\ GoesTo(c, "clear")
     \/ Over(c, screen[c])
  /\ UNCHANGED <<session, pending, payment>>

\* storage.clear, of this attempt only.
Clear(c) ==
  /\ screen[c].stage = "clear"
  /\ LET s == screen[c]
     IN /\ \/ /\ s.current /\ pending[s.owner] = s.attempt
              /\ pending' = [pending EXCEPT ![s.owner] = None]
           \/ UNCHANGED pending
        /\ \E done \in {s.completed, None} : Over(c, [s EXCEPT !.completed = done])
  /\ UNCHANGED <<session, payment>>

-----------------------------------------------------------------------------
(* Sessions, the death of the app, the store and the server. *)

OwnerSignsIn(o) ==
  /\ session = None
  /\ session' = o
  /\ UNCHANGED <<screen, pending, payment>>

OwnerSignsOut ==
  /\ session # None
  /\ session' = None
  /\ screen' = [c \in Coordinators |->
       IF screen[c].stage \in {"closed", "ready"} THEN Closed
       ELSE [screen[c] EXCEPT !.current = FALSE]]
  /\ UNCHANGED <<pending, payment>>

\* The session of Firebase, the storage and the store's payments stay.
CheckoutDies ==
  /\ \E c \in Coordinators : screen[c] # Closed
  /\ screen' = [c \in Coordinators |-> Closed]
  /\ UNCHANGED <<session, pending, payment>>

Moves(i, from, to) ==
  /\ payment[i].state \in from
  /\ \E state \in to : payment' = [payment EXCEPT ![i].state = state]
  /\ UNCHANGED <<session, screen, pending>>

\* The store ends a payment, perhaps long after the sheet closed.
StoreEnds(i) == Moves(i, {"asked"}, {"paid", "declined"})

\* A webhook, or the synchronization of this or another phone; refunds and conflicts.
CreditPayment(i) == Moves(i, {"paid"}, Settled)
Review(i) == Moves(i, {"credited"}, {"reviewed"})

CheckoutNext ==
  \/ \E c \in Coordinators :
       \/ OpenPacks(c) \/ ClosePacks(c) \/ Load(c) \/ Sync(c)
       \/ \E i \in Attempts : Purchase(c, i)
       \/ Write(c) \/ AskStore(c) \/ Result(c) \/ RecordFingerprint(c) \/ Verify(c) \/ Clear(c)
  \/ \E o \in Viewers : OwnerSignsIn(o)
  \/ OwnerSignsOut
  \/ CheckoutDies
  \/ \E i \in Attempts : StoreEnds(i) \/ CreditPayment(i) \/ Review(i)

CheckoutSpec == CheckoutInit /\ [][CheckoutNext]_checkoutVars

-----------------------------------------------------------------------------
(* Correctness. *)

\* A payment that was asked for and may still happen, or happened and is not credited
\* or under review yet, keeps its owner's marker, and so no second payment starts: not
\* when the app dies, the storage fails, the session changes under the store's sheet
\* or the payment ends after it (checkoutCoordinator.ts:278).
PaidIsMarked ==
  \A i \in Attempts :
    payment[i].state \in {"asked", "paid"} =>
      pending[payment[i].owner] # None /\ pending[payment[i].owner].id = i
=============================================================================
