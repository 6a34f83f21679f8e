------------------------------ MODULE Phone_proofs ------------------------------
(***************************************************************************)
(* What the two money paths of a phone promise, each by an invariant of    *)
(* its own.                                                                *)
(*                                                                         *)
(* MobileCheckout, for every number of owners, attempts and screens: a     *)
(* payment that may still happen, or happened and is not settled, has its  *)
(* owner's marker.  One operation runs in the process, so that between its *)
(* reading and its writing of a marker no other writes one, and it removes *)
(* a marker only with the proof that its own attempt is over.              *)
(*                                                                         *)
(* MobileUnlock, for every number of accounts, episodes, requests, screens *)
(* and players: an unlock that may still be charged, or was and went       *)
(* unanswered, is stored, and an account has one at a time.                *)
(***************************************************************************)
EXTENDS MobileCheckout, MobileUnlock, TLAPS

-----------------------------------------------------------------------------
(* Purchase checkout. *)

Engaged(c) == screen[c].stage \notin {"closed", "ready"}

\* At most one operation runs.
OneRuns == \A c, d \in Coordinators : Engaged(c) /\ Engaged(d) => c = d

\* What is true of the attempt of the operation that runs.
KnowsAttempt(c) ==
  LET s == screen[c]
      p == payment[s.attempt.id]
  IN /\ s.attempt # None
     /\ p.owner = s.owner
     /\ s.stage \in {"write", "ask"} => p.state = "made"
     /\ s.stage \in {"ask", "pay", "print"} => pending[s.owner] = s.attempt
     /\ s.stage \in {"pay", "print"} => p.state \notin {"new", "made"}
     /\ s.stage = "clear" => p.state \in {"declined", "credited", "reviewed"}

\* An attempt that was made has an owner, and a marker is of an attempt its owner made.
MarkersAreOwn ==
  /\ \A i \in Attempts : payment[i].state # "new" => payment[i].owner \in Viewers
  /\ \A o \in Viewers :
       pending[o] # None => payment[pending[o].id].owner = o /\ payment[pending[o].id].state # "new"

CheckoutInv ==
  /\ CheckoutTypeOK
  /\ PaidIsMarked
  /\ OneRuns
  /\ \A c \in Coordinators : Engaged(c) => KnowsAttempt(c)
  /\ MarkersAreOwn

\* No model value is an attempt or an owner.
NoneIsNothing == None \notin PurchaseAttempt /\ None \notin Viewers

\* Every state the program starts in.
LEMMA CheckoutInitially ==
  ASSUME NoneIsNothing, CheckoutInit
  PROVE  CheckoutInv
<1> USE DEF CheckoutInit, NoneIsNothing
<1>1. CheckoutTypeOK
  BY DEF CheckoutTypeOK
<1>2. PaidIsMarked /\ MarkersAreOwn
  BY DEF PaidIsMarked, MarkersAreOwn
<1>3. \A c \in Coordinators : ~Engaged(c)
  BY DEF Engaged, Closed
<1> QED
  BY <1>1, <1>2, <1>3 DEF CheckoutInv, OneRuns

\* A screen that shows anything has the fields of a coordinator.
LEMMA ShownIsOpen ==
  ASSUME CheckoutTypeOK, NEW c \in Coordinators, screen[c].stage # "closed"
  PROVE  screen[c] \in Coordinator
BY DEF CheckoutTypeOK, Coordinator, Closed

\* A step of the one operation that runs: what it says of its own attempt, and of the
\* markers and the payments, is all there is to show.
LEMMA RunStep ==
  ASSUME CheckoutInv, NEW c \in Coordinators, Engaged(c) \/ ~Operating,
         session' = session,
         screen' = [screen EXCEPT ![c] = screen'[c]],
         screen'[c] \in Coordinator \cup {Closed},
         pending' \in [Viewers -> PurchaseAttempt \cup {None}],
         payment' \in [Attempts ->
           [owner: Viewers \cup {None},
            state: {"new", "made", "asked", "declined", "paid", "credited", "reviewed"}]],
         Engaged(c)' => KnowsAttempt(c)',
         PaidIsMarked', MarkersAreOwn'
  PROVE  CheckoutInv'
<1>1. \A d \in Coordinators \ {c} : screen'[d] = screen[d] /\ ~Engaged(d)
  BY DEF CheckoutInv, CheckoutTypeOK, OneRuns, Engaged, Operating
<1>2. CheckoutTypeOK'
  BY DEF CheckoutInv, CheckoutTypeOK
<1>3. OneRuns'
  BY <1>1 DEF OneRuns, Engaged
<1>4. \A d \in Coordinators : Engaged(d)' => KnowsAttempt(d)'
  BY <1>1 DEF Engaged
<1> QED
  BY <1>2, <1>3, <1>4 DEF CheckoutInv

\* An operation that is over leaves a screen that runs nothing.
LEMMA OverRests ==
  ASSUME CheckoutTypeOK, NEW c \in Coordinators, NEW s \in Coordinator, Over(c, s)
  PROVE  /\ screen' = [screen EXCEPT ![c] = screen'[c]]
         /\ screen'[c] \in Coordinator \cup {Closed}
         /\ ~Engaged(c)'
<1>1. CASE s.current
  <2>1. screen' = [screen EXCEPT ![c] = [s EXCEPT !.stage = "ready", !.attempt = None]]
    BY <1>1 DEF Over
  <2>2. [s EXCEPT !.stage = "ready", !.attempt = None] \in Coordinator
    BY DEF Coordinator
  <2>3. screen'[c] = [s EXCEPT !.stage = "ready", !.attempt = None]
    BY <2>1 DEF CheckoutTypeOK
  <2> QED
    BY <2>1, <2>2, <2>3 DEF Engaged, Coordinator
<1>2. CASE ~s.current
  BY <1>2 DEF Over, CheckoutTypeOK, Engaged, Closed
<1> QED
  BY <1>1, <1>2

\* An operation that is over before it wrote or asked for anything.
LEMMA OverStep ==
  ASSUME CheckoutInv, NEW c \in Coordinators, Engaged(c), NEW s \in Coordinator, Over(c, s),
         UNCHANGED <<session, pending, payment>>
  PROVE  CheckoutInv'
<1>1. PaidIsMarked' /\ MarkersAreOwn'
  BY DEF CheckoutInv, PaidIsMarked, MarkersAreOwn
<1>2. CheckoutTypeOK
  BY DEF CheckoutInv
<1> QED
  BY <1>1, <1>2, OverRests, RunStep DEF CheckoutTypeOK

\* A new screen runs nothing.
LEMMA CheckoutOpenScreenStep ==
  ASSUME NoneIsNothing, CheckoutInv, NEW c \in Coordinators, OpenPacks(c)
  PROVE  CheckoutInv'
<1> USE NoneIsNothing DEF NoneIsNothing, CheckoutInv
<1>1. CheckoutTypeOK'
  BY DEF CheckoutTypeOK, OpenPacks, Coordinator, Closed, PurchaseAttempt
<1>2. OneRuns'
  BY DEF CheckoutTypeOK, OneRuns, Engaged, OpenPacks, Coordinator, Closed
<1>3. ASSUME NEW d \in Coordinators, Engaged(d)' PROVE KnowsAttempt(d)'
  BY <1>3 DEF CheckoutTypeOK, OneRuns, Engaged, KnowsAttempt, MarkersAreOwn, OpenPacks, Coordinator, Closed, PurchaseAttempt
<1>4. PaidIsMarked'
  BY DEF CheckoutTypeOK, PaidIsMarked, OpenPacks, Coordinator, Closed, PurchaseAttempt
<1>5. MarkersAreOwn'
  BY DEF CheckoutTypeOK, MarkersAreOwn, OpenPacks, Coordinator, Closed, PurchaseAttempt
<1> QED
  BY <1>1, <1>2, <1>3, <1>4, <1>5

\* A screen that runs nothing closes.
LEMMA CloseScreenStep ==
  ASSUME NoneIsNothing, CheckoutInv, NEW c \in Coordinators, ClosePacks(c)
  PROVE  CheckoutInv'
<1> USE NoneIsNothing DEF NoneIsNothing, CheckoutInv
<1>1. CheckoutTypeOK'
  BY DEF CheckoutTypeOK, ClosePacks, Coordinator, Closed, PurchaseAttempt
<1>2. OneRuns'
  BY DEF CheckoutTypeOK, OneRuns, Engaged, ClosePacks, Coordinator, Closed
<1>3. ASSUME NEW d \in Coordinators, Engaged(d)' PROVE KnowsAttempt(d)'
  BY <1>3 DEF CheckoutTypeOK, OneRuns, Engaged, KnowsAttempt, MarkersAreOwn, ClosePacks, Coordinator, Closed, PurchaseAttempt
<1>4. PaidIsMarked'
  BY DEF CheckoutTypeOK, PaidIsMarked, ClosePacks, Coordinator, Closed, PurchaseAttempt
<1>5. MarkersAreOwn'
  BY DEF CheckoutTypeOK, MarkersAreOwn, ClosePacks, Coordinator, Closed, PurchaseAttempt
<1> QED
  BY <1>1, <1>2, <1>3, <1>4, <1>5

\* Loading offers runs no payment.
LEMMA LoadStep ==
  ASSUME NoneIsNothing, CheckoutInv, NEW c \in Coordinators, Load(c)
  PROVE  CheckoutInv'
<1> USE NoneIsNothing DEF NoneIsNothing
<1>1. /\ screen[c] \in Coordinator
      /\ CheckoutTypeOK /\ PaidIsMarked /\ MarkersAreOwn
      /\ Engaged(c) \/ ~Operating
      /\ Engaged(c) => KnowsAttempt(c)
  BY ShownIsOpen DEF CheckoutInv, Engaged, Load, Starts
<1>2. CASE screen[c].stage = "ready" /\ screen' = [screen EXCEPT ![c].offers = TRUE] /\ UNCHANGED <<session, pending, payment>>
  <2> DEFINE n == [screen[c] EXCEPT !.offers = TRUE]
  <2>1. n \in Coordinator
    BY <1>1, <1>2 DEF CheckoutTypeOK, Coordinator, PurchaseAttempt
  <2>2. screen' = [screen EXCEPT ![c] = n] /\ screen'[c] = n
    BY <1>1, <1>2 DEF CheckoutTypeOK, Coordinator, GoesTo
  <2>3. session' = session
    BY <1>2
  <2>4. pending' \in [Viewers -> PurchaseAttempt \cup {None}]
    BY <1>1, <1>2 DEF CheckoutTypeOK, Coordinator, PurchaseAttempt
  <2>5. payment' \in [Attempts ->
        [owner: Viewers \cup {None},
         state: {"new", "made", "asked", "declined", "paid", "credited", "reviewed"}]]
    BY <1>1, <1>2 DEF CheckoutTypeOK, Coordinator, PurchaseAttempt
  <2>6. Engaged(c)' => KnowsAttempt(c)'
    BY <1>1, <2>1, <2>2, <1>2 DEF CheckoutTypeOK, Engaged, KnowsAttempt, MarkersAreOwn, Coordinator, PurchaseAttempt
  <2>7. PaidIsMarked' /\ MarkersAreOwn'
    BY <1>1, <1>2 DEF CheckoutTypeOK, Engaged, KnowsAttempt, PaidIsMarked, MarkersAreOwn, Coordinator, PurchaseAttempt
  <2> HIDE DEF n
  <2> QED
    BY <1>1, <2>1, <2>2, <2>3, <2>4, <2>5, <2>6, <2>7, RunStep
<1>3. CASE screen[c].stage = "ready" /\ screen' = [screen EXCEPT ![c].offers = FALSE] /\ UNCHANGED <<session, pending, payment>>
  <2> DEFINE n == [screen[c] EXCEPT !.offers = FALSE]
  <2>1. n \in Coordinator
    BY <1>1, <1>3 DEF CheckoutTypeOK, Coordinator, PurchaseAttempt
  <2>2. screen' = [screen EXCEPT ![c] = n] /\ screen'[c] = n
    BY <1>1, <1>3 DEF CheckoutTypeOK, Coordinator, GoesTo
  <2>3. session' = session
    BY <1>3
  <2>4. pending' \in [Viewers -> PurchaseAttempt \cup {None}]
    BY <1>1, <1>3 DEF CheckoutTypeOK, Coordinator, PurchaseAttempt
  <2>5. payment' \in [Attempts ->
        [owner: Viewers \cup {None},
         state: {"new", "made", "asked", "declined", "paid", "credited", "reviewed"}]]
    BY <1>1, <1>3 DEF CheckoutTypeOK, Coordinator, PurchaseAttempt
  <2>6. Engaged(c)' => KnowsAttempt(c)'
    BY <1>1, <2>1, <2>2, <1>3 DEF CheckoutTypeOK, Engaged, KnowsAttempt, MarkersAreOwn, Coordinator, PurchaseAttempt
  <2>7. PaidIsMarked' /\ MarkersAreOwn'
    BY <1>1, <1>3 DEF CheckoutTypeOK, Engaged, KnowsAttempt, PaidIsMarked, MarkersAreOwn, Coordinator, PurchaseAttempt
  <2> HIDE DEF n
  <2> QED
    BY <1>1, <2>1, <2>2, <2>3, <2>4, <2>5, <2>6, <2>7, RunStep
<1> QED
  BY <1>2, <1>3 DEF Load, Starts

\* A purchase starts with an attempt that no marker and no payment has.
LEMMA PurchaseStep ==
  ASSUME NoneIsNothing, CheckoutInv, NEW c \in Coordinators, NEW i \in Attempts, Purchase(c, i)
  PROVE  CheckoutInv'
<1> USE NoneIsNothing DEF NoneIsNothing
<1>1. /\ screen[c] \in Coordinator
      /\ CheckoutTypeOK /\ PaidIsMarked /\ MarkersAreOwn
      /\ Engaged(c) \/ ~Operating
      /\ Engaged(c) => KnowsAttempt(c)
  BY ShownIsOpen DEF CheckoutInv, Engaged, Purchase, Starts
<1>2. CASE /\ payment[i].state = "new"
            /\ payment' = [payment EXCEPT ![i] = [owner |-> screen[c].owner, state |-> "made"]]
            /\ screen' = [screen EXCEPT ![c].stage = "write",
                                        ![c].attempt = [id |-> i, print |-> FALSE]]
            /\ UNCHANGED <<session, pending>>
  <2> DEFINE n == [screen[c] EXCEPT !.stage = "write", !.attempt = [id |-> i, print |-> FALSE]]
  <2>1. n \in Coordinator
    BY <1>1, <1>2 DEF CheckoutTypeOK, Coordinator, PurchaseAttempt
  <2>2. screen' = [screen EXCEPT ![c] = n] /\ screen'[c] = n
    BY <1>1, <1>2 DEF CheckoutTypeOK, Coordinator, GoesTo
  <2>3. session' = session
    BY <1>2
  <2>4. pending' \in [Viewers -> PurchaseAttempt \cup {None}]
    BY <1>1, <1>2 DEF CheckoutTypeOK, Coordinator, PurchaseAttempt
  <2>5. payment' \in [Attempts ->
        [owner: Viewers \cup {None},
         state: {"new", "made", "asked", "declined", "paid", "credited", "reviewed"}]]
    BY <1>1, <1>2 DEF CheckoutTypeOK, Coordinator, PurchaseAttempt
  <2>6. Engaged(c)' => KnowsAttempt(c)'
    <3>1. [id |-> i, print |-> FALSE] \in PurchaseAttempt
      BY DEF PurchaseAttempt
    <3>2. /\ n.attempt = [id |-> i, print |-> FALSE] /\ n.attempt.id = i
          /\ n.owner = screen[c].owner /\ n.stage = "write"
      BY <1>1 DEF Coordinator
    <3>3. payment'[i] = [owner |-> screen[c].owner, state |-> "made"]
      BY <1>1, <1>2 DEF CheckoutTypeOK
    <3> HIDE DEF n
    <3> QED
      BY <2>2, <3>1, <3>2, <3>3 DEF KnowsAttempt
  <2>7. PaidIsMarked' /\ MarkersAreOwn'
    BY <1>1, <1>2 DEF CheckoutTypeOK, Engaged, KnowsAttempt, PaidIsMarked, MarkersAreOwn, Coordinator, PurchaseAttempt
  <2> HIDE DEF n
  <2> QED
    BY <1>1, <2>1, <2>2, <2>3, <2>4, <2>5, <2>6, <2>7, RunStep
<1>3. ASSUME NEW fresh \in BOOLEAN,
             screen' = [screen EXCEPT ![c].offers = fresh], UNCHANGED <<session, pending, payment>>
      PROVE  CheckoutInv'
<2> DEFINE n == [screen[c] EXCEPT !.offers = fresh]
  <2>1. n \in Coordinator
    BY <1>1, <1>3 DEF CheckoutTypeOK, Coordinator, PurchaseAttempt
  <2>2. screen' = [screen EXCEPT ![c] = n] /\ screen'[c] = n
    BY <1>1, <1>3 DEF CheckoutTypeOK, Coordinator, GoesTo
  <2>3. session' = session
    BY <1>3
  <2>4. pending' \in [Viewers -> PurchaseAttempt \cup {None}]
    BY <1>1, <1>3 DEF CheckoutTypeOK, Coordinator, PurchaseAttempt
  <2>5. payment' \in [Attempts ->
        [owner: Viewers \cup {None},
         state: {"new", "made", "asked", "declined", "paid", "credited", "reviewed"}]]
    BY <1>1, <1>3 DEF CheckoutTypeOK, Coordinator, PurchaseAttempt
  <2>6. Engaged(c)' => KnowsAttempt(c)'
    BY <1>1, <2>1, <2>2, <1>3 DEF CheckoutTypeOK, Engaged, KnowsAttempt, MarkersAreOwn, Coordinator, PurchaseAttempt
  <2>7. PaidIsMarked' /\ MarkersAreOwn'
    BY <1>1, <1>3 DEF CheckoutTypeOK, Engaged, KnowsAttempt, PaidIsMarked, MarkersAreOwn, Coordinator, PurchaseAttempt
  <2> HIDE DEF n
  <2> QED
    BY <1>1, <2>1, <2>2, <2>3, <2>4, <2>5, <2>6, <2>7, RunStep
<1> QED
  BY <1>2, <1>3 DEF Purchase, Starts

\* A marker is written where there is none: no payment of its owner is open.
LEMMA WriteStep ==
  ASSUME NoneIsNothing, CheckoutInv, NEW c \in Coordinators, Write(c)
  PROVE  CheckoutInv'
<1> USE NoneIsNothing DEF NoneIsNothing
<1>1. /\ screen[c] \in Coordinator
      /\ CheckoutTypeOK /\ PaidIsMarked /\ MarkersAreOwn
      /\ Engaged(c) \/ ~Operating
      /\ Engaged(c) => KnowsAttempt(c)
  BY ShownIsOpen DEF CheckoutInv, Engaged, Write
<1>2. CASE /\ screen[c].stage = "write"
            /\ pending[screen[c].owner] = None
            /\ pending' = [pending EXCEPT ![screen[c].owner] = screen[c].attempt]
            /\ GoesTo(c, "ask")
            /\ UNCHANGED <<session, payment>>
  <2> DEFINE n == [screen[c] EXCEPT !.stage = "ask"]
  <2>1. n \in Coordinator
    BY <1>1, <1>2 DEF Engaged, KnowsAttempt, CheckoutTypeOK, Coordinator, PurchaseAttempt
  <2>2. screen' = [screen EXCEPT ![c] = n] /\ screen'[c] = n
    BY <1>1, <1>2 DEF Engaged, KnowsAttempt, CheckoutTypeOK, Coordinator, GoesTo
  <2>3. session' = session
    BY <1>2
  <2>4. pending' \in [Viewers -> PurchaseAttempt \cup {None}]
    BY <1>1, <1>2 DEF Engaged, KnowsAttempt, CheckoutTypeOK, Coordinator, PurchaseAttempt
  <2>5. payment' \in [Attempts ->
        [owner: Viewers \cup {None},
         state: {"new", "made", "asked", "declined", "paid", "credited", "reviewed"}]]
    BY <1>1, <1>2 DEF Engaged, KnowsAttempt, CheckoutTypeOK, Coordinator, PurchaseAttempt
  <2>6. Engaged(c)' => KnowsAttempt(c)'
    BY <1>1, <2>1, <2>2, <1>2 DEF CheckoutTypeOK, Engaged, KnowsAttempt, MarkersAreOwn, Coordinator, PurchaseAttempt
  <2>7. PaidIsMarked' /\ MarkersAreOwn'
    BY <1>1, <1>2 DEF CheckoutTypeOK, Engaged, KnowsAttempt, PaidIsMarked, MarkersAreOwn, Coordinator, PurchaseAttempt
  <2> HIDE DEF n
  <2> QED
    BY <1>1, <2>1, <2>2, <2>3, <2>4, <2>5, <2>6, <2>7, RunStep
<1>3. CASE Engaged(c) /\ Over(c, screen[c]) /\ UNCHANGED <<session, pending, payment>>
  BY <1>1, <1>3, OverStep DEF Engaged, Engaged, Write
<1> QED
  BY <1>2, <1>3 DEF Engaged, Write

\* The store is asked with the marker written.
LEMMA AskStep ==
  ASSUME NoneIsNothing, CheckoutInv, NEW c \in Coordinators, AskStore(c)
  PROVE  CheckoutInv'
<1> USE NoneIsNothing DEF NoneIsNothing
<1>1. /\ screen[c] \in Coordinator
      /\ CheckoutTypeOK /\ PaidIsMarked /\ MarkersAreOwn
      /\ Engaged(c) \/ ~Operating
      /\ Engaged(c) => KnowsAttempt(c)
  BY ShownIsOpen DEF CheckoutInv, Engaged, AskStore
<1>2. CASE /\ screen[c].stage = "ask"
            /\ payment' = [payment EXCEPT ![screen[c].attempt.id].state = "asked"]
            /\ GoesTo(c, "pay")
            /\ UNCHANGED <<session, pending>>
  <2> DEFINE n == [screen[c] EXCEPT !.stage = "pay"]
  <2>1. n \in Coordinator
    BY <1>1, <1>2 DEF Engaged, KnowsAttempt, CheckoutTypeOK, Coordinator, PurchaseAttempt
  <2>2. screen' = [screen EXCEPT ![c] = n] /\ screen'[c] = n
    BY <1>1, <1>2 DEF Engaged, KnowsAttempt, CheckoutTypeOK, Coordinator, GoesTo
  <2>3. session' = session
    BY <1>2
  <2>4. pending' \in [Viewers -> PurchaseAttempt \cup {None}]
    BY <1>1, <1>2 DEF Engaged, KnowsAttempt, CheckoutTypeOK, Coordinator, PurchaseAttempt
  <2>5. payment' \in [Attempts ->
        [owner: Viewers \cup {None},
         state: {"new", "made", "asked", "declined", "paid", "credited", "reviewed"}]]
    BY <1>1, <1>2 DEF Engaged, KnowsAttempt, CheckoutTypeOK, Coordinator, PurchaseAttempt
  <2>6. Engaged(c)' => KnowsAttempt(c)'
    BY <1>1, <2>1, <2>2, <1>2 DEF CheckoutTypeOK, Engaged, KnowsAttempt, MarkersAreOwn, Coordinator, PurchaseAttempt
  <2>7. PaidIsMarked' /\ MarkersAreOwn'
    <3> DEFINE a == screen[c].attempt
    <3>1. a \in PurchaseAttempt /\ a.id \in Attempts /\ screen[c].owner \in Viewers
      BY <1>1, <1>2 DEF Engaged, KnowsAttempt, Coordinator, PurchaseAttempt
    <3>2. pending[screen[c].owner] = a /\ payment[a.id].owner = screen[c].owner
      BY <1>1, <1>2 DEF Engaged, KnowsAttempt
    <3>3. payment' = [payment EXCEPT ![a.id].state = "asked"] /\ pending' = pending
      BY <1>2
    <3>4. \A j \in Attempts : payment'[j].owner = payment[j].owner
      BY <1>1, <3>1, <3>3 DEF CheckoutTypeOK
    <3>5. \A j \in Attempts : payment'[j].state = IF j = a.id THEN "asked" ELSE payment[j].state
      BY <1>1, <3>1, <3>3 DEF CheckoutTypeOK
    <3> HIDE DEF a
    <3>6. PaidIsMarked'
      BY <1>1, <3>1, <3>2, <3>3, <3>4, <3>5 DEF PaidIsMarked
    <3>7. MarkersAreOwn'
      <4>1. \A o \in Viewers : pending[o] # None => pending[o].id \in Attempts
        BY <1>1 DEF CheckoutTypeOK, PurchaseAttempt
      <4> QED
        BY <1>1, <3>1, <3>2, <3>3, <3>4, <3>5, <4>1 DEF MarkersAreOwn
    <3> QED
      BY <3>6, <3>7
  <2> HIDE DEF n
  <2> QED
    BY <1>1, <2>1, <2>2, <2>3, <2>4, <2>5, <2>6, <2>7, RunStep
<1>3. CASE Engaged(c) /\ Over(c, screen[c]) /\ UNCHANGED <<session, pending, payment>>
  BY <1>1, <1>3, OverStep DEF Engaged, Engaged, AskStore
<1> QED
  BY <1>2, <1>3 DEF Engaged, AskStore

\* Only a refusal leads to the removal of the marker.
LEMMA ResultStep ==
  ASSUME NoneIsNothing, CheckoutInv, NEW c \in Coordinators, Result(c)
  PROVE  CheckoutInv'
<1> USE NoneIsNothing DEF NoneIsNothing
<1>1. /\ screen[c] \in Coordinator
      /\ CheckoutTypeOK /\ PaidIsMarked /\ MarkersAreOwn
      /\ Engaged(c) \/ ~Operating
      /\ Engaged(c) => KnowsAttempt(c)
  BY ShownIsOpen DEF CheckoutInv, Engaged, Result
<1>2. CASE /\ screen[c].stage = "pay" /\ Definite(c)
            /\ GoesTo(c, "clear")
            /\ UNCHANGED <<session, pending, payment>>
  <2> DEFINE n == [screen[c] EXCEPT !.stage = "clear"]
  <2>1. n \in Coordinator
    BY <1>1, <1>2 DEF Engaged, KnowsAttempt, Definite, StateOf, CheckoutTypeOK, Coordinator, PurchaseAttempt
  <2>2. screen' = [screen EXCEPT ![c] = n] /\ screen'[c] = n
    BY <1>1, <1>2 DEF Engaged, KnowsAttempt, Definite, StateOf, CheckoutTypeOK, Coordinator, GoesTo
  <2>3. session' = session
    BY <1>2
  <2>4. pending' \in [Viewers -> PurchaseAttempt \cup {None}]
    BY <1>1, <1>2 DEF Engaged, KnowsAttempt, Definite, StateOf, CheckoutTypeOK, Coordinator, PurchaseAttempt
  <2>5. payment' \in [Attempts ->
        [owner: Viewers \cup {None},
         state: {"new", "made", "asked", "declined", "paid", "credited", "reviewed"}]]
    BY <1>1, <1>2 DEF Engaged, KnowsAttempt, Definite, StateOf, CheckoutTypeOK, Coordinator, PurchaseAttempt
  <2>6. Engaged(c)' => KnowsAttempt(c)'
    BY <1>1, <2>1, <2>2, <1>2 DEF Definite, StateOf, CheckoutTypeOK, Engaged, KnowsAttempt, MarkersAreOwn, Coordinator, PurchaseAttempt
  <2>7. PaidIsMarked' /\ MarkersAreOwn'
    BY <1>1, <1>2 DEF Definite, StateOf, CheckoutTypeOK, Engaged, KnowsAttempt, PaidIsMarked, MarkersAreOwn, Coordinator, PurchaseAttempt
  <2> HIDE DEF n
  <2> QED
    BY <1>1, <2>1, <2>2, <2>3, <2>4, <2>5, <2>6, <2>7, RunStep
<1>3. CASE /\ screen[c].stage = "pay"
            /\ screen' = [screen EXCEPT ![c].completed = screen[c].attempt, ![c].stage = "print"]
            /\ UNCHANGED <<session, pending, payment>>
  <2> DEFINE n == [screen[c] EXCEPT !.completed = screen[c].attempt, !.stage = "print"]
  <2>1. n \in Coordinator
    BY <1>1, <1>3 DEF Engaged, KnowsAttempt, CheckoutTypeOK, Coordinator, PurchaseAttempt
  <2>2. screen' = [screen EXCEPT ![c] = n] /\ screen'[c] = n
    BY <1>1, <1>3 DEF Engaged, KnowsAttempt, CheckoutTypeOK, Coordinator, GoesTo
  <2>3. session' = session
    BY <1>3
  <2>4. pending' \in [Viewers -> PurchaseAttempt \cup {None}]
    BY <1>1, <1>3 DEF Engaged, KnowsAttempt, CheckoutTypeOK, Coordinator, PurchaseAttempt
  <2>5. payment' \in [Attempts ->
        [owner: Viewers \cup {None},
         state: {"new", "made", "asked", "declined", "paid", "credited", "reviewed"}]]
    BY <1>1, <1>3 DEF Engaged, KnowsAttempt, CheckoutTypeOK, Coordinator, PurchaseAttempt
  <2>6. Engaged(c)' => KnowsAttempt(c)'
    BY <1>1, <2>1, <2>2, <1>3 DEF CheckoutTypeOK, Engaged, KnowsAttempt, MarkersAreOwn, Coordinator, PurchaseAttempt
  <2>7. PaidIsMarked' /\ MarkersAreOwn'
    BY <1>1, <1>3 DEF CheckoutTypeOK, Engaged, KnowsAttempt, PaidIsMarked, MarkersAreOwn, Coordinator, PurchaseAttempt
  <2> HIDE DEF n
  <2> QED
    BY <1>1, <2>1, <2>2, <2>3, <2>4, <2>5, <2>6, <2>7, RunStep
<1>4. CASE Engaged(c) /\ Over(c, screen[c]) /\ UNCHANGED <<session, pending, payment>>
  BY <1>1, <1>4, OverStep DEF Engaged, Engaged, Result
<1> QED
  BY <1>2, <1>3, <1>4 DEF Engaged, Result

\* A fingerprint changes no attempt for another.
LEMMA RecordFingerprintStep ==
  ASSUME NoneIsNothing, CheckoutInv, NEW c \in Coordinators, RecordFingerprint(c)
  PROVE  CheckoutInv'
<1> USE NoneIsNothing DEF NoneIsNothing
<1>1. /\ screen[c] \in Coordinator
      /\ CheckoutTypeOK /\ PaidIsMarked /\ MarkersAreOwn
      /\ Engaged(c) \/ ~Operating
      /\ Engaged(c) => KnowsAttempt(c)
  BY ShownIsOpen DEF CheckoutInv, Engaged, RecordFingerprint
<1>2. CASE /\ screen[c].stage = "print"
            /\ pending[screen[c].owner] = screen[c].attempt
            /\ pending' = [pending EXCEPT ![screen[c].owner] = Printed(screen[c].attempt)]
            /\ screen' = [screen EXCEPT ![c].completed = Printed(screen[c].attempt),
                                        ![c].attempt = Printed(screen[c].attempt), ![c].stage = "verify"]
            /\ UNCHANGED <<session, payment>>
  <2> DEFINE n == [screen[c] EXCEPT !.completed = Printed(screen[c].attempt), !.attempt = Printed(screen[c].attempt), !.stage = "verify"]
  <2>1. n \in Coordinator
    BY <1>1, <1>2 DEF Engaged, KnowsAttempt, Printed, CheckoutTypeOK, Coordinator, PurchaseAttempt
  <2>2. screen' = [screen EXCEPT ![c] = n] /\ screen'[c] = n
    BY <1>1, <1>2 DEF Engaged, KnowsAttempt, Printed, CheckoutTypeOK, Coordinator, GoesTo
  <2>3. session' = session
    BY <1>2
  <2>4. pending' \in [Viewers -> PurchaseAttempt \cup {None}]
    BY <1>1, <1>2 DEF Engaged, KnowsAttempt, Printed, CheckoutTypeOK, Coordinator, PurchaseAttempt
  <2>5. payment' \in [Attempts ->
        [owner: Viewers \cup {None},
         state: {"new", "made", "asked", "declined", "paid", "credited", "reviewed"}]]
    BY <1>1, <1>2 DEF Engaged, KnowsAttempt, Printed, CheckoutTypeOK, Coordinator, PurchaseAttempt
  <2>6. Engaged(c)' => KnowsAttempt(c)'
    BY <1>1, <2>1, <2>2, <1>2 DEF Printed, CheckoutTypeOK, Engaged, KnowsAttempt, MarkersAreOwn, Coordinator, PurchaseAttempt
  <2>7. PaidIsMarked' /\ MarkersAreOwn'
    BY <1>1, <1>2 DEF Printed, CheckoutTypeOK, Engaged, KnowsAttempt, PaidIsMarked, MarkersAreOwn, Coordinator, PurchaseAttempt
  <2> HIDE DEF n
  <2> QED
    BY <1>1, <2>1, <2>2, <2>3, <2>4, <2>5, <2>6, <2>7, RunStep
<1>3. CASE Engaged(c) /\ Over(c, screen[c]) /\ UNCHANGED <<session, pending, payment>>
  BY <1>1, <1>3, OverStep DEF Engaged, Engaged, RecordFingerprint
<1>4. CASE /\ Engaged(c) /\ screen[c].stage = "print"
            /\ Over(c, screen[c])
            /\ pending[screen[c].owner] = screen[c].attempt
            /\ pending' = [pending EXCEPT ![screen[c].owner] = Printed(screen[c].attempt)]
            /\ UNCHANGED <<session, payment>>
  <2>1. pending' \in [Viewers -> PurchaseAttempt \cup {None}]
    BY <1>1, <1>4 DEF Printed, KnowsAttempt, CheckoutTypeOK, Coordinator, PurchaseAttempt
  <2>2. PaidIsMarked' /\ MarkersAreOwn'
    <3> DEFINE a == screen[c].attempt
    <3>1. a \in PurchaseAttempt /\ a.id \in Attempts /\ screen[c].owner \in Viewers /\ pending[screen[c].owner] = a
      BY <1>1, <1>4 DEF Engaged, KnowsAttempt, Coordinator, PurchaseAttempt
    <3>2. Printed(a) \in PurchaseAttempt /\ Printed(a).id = a.id
      BY <3>1 DEF Printed, PurchaseAttempt
    <3>3. payment' = payment /\ pending' = [pending EXCEPT ![screen[c].owner] = Printed(a)]
      BY <1>4
    <3>4. \A o \in Viewers :
            /\ pending'[o] # None <=> pending[o] # None
            /\ pending[o] # None => pending'[o].id = pending[o].id
      BY <1>1, <3>1, <3>2, <3>3 DEF CheckoutTypeOK
    <3> HIDE DEF a
    <3>5. \A j \in Attempts : payment[j].state \in {"asked", "paid"} => payment[j].owner \in Viewers
      BY <1>1 DEF MarkersAreOwn
    <3>6. payment' = payment
      BY <1>4
    <3> QED
      <4>1. PaidIsMarked'
        BY <1>1, <3>4, <3>5, <3>6 DEF PaidIsMarked
      <4>2. MarkersAreOwn'
        BY <1>1, <3>4, <3>6 DEF MarkersAreOwn
      <4> QED
        BY <4>1, <4>2
  <2> QED
    BY <1>1, <1>4, <2>1, <2>2, OverRests, RunStep DEF CheckoutTypeOK
<1> QED
  BY <1>2, <1>3, <1>4 DEF Engaged, RecordFingerprint

\* A synchronization takes the attempt that its owner's marker has.
LEMMA SyncStep ==
  ASSUME NoneIsNothing, CheckoutInv, NEW c \in Coordinators, Sync(c)
  PROVE  CheckoutInv'
<1> USE NoneIsNothing DEF NoneIsNothing
<1>1. /\ screen[c] \in Coordinator
      /\ CheckoutTypeOK /\ PaidIsMarked /\ MarkersAreOwn
      /\ Engaged(c) \/ ~Operating
      /\ Engaged(c) => KnowsAttempt(c)
  BY ShownIsOpen DEF CheckoutInv, Engaged, Sync, Starts
<1>2. CASE /\ screen[c].stage = "ready" /\ pending[screen[c].owner] # None
            /\ screen' = [screen EXCEPT ![c].attempt = pending[screen[c].owner], ![c].stage = "verify"]
            /\ UNCHANGED <<session, pending, payment>>
  <2> DEFINE n == [screen[c] EXCEPT !.attempt = pending[screen[c].owner], !.stage = "verify"]
  <2>1. n \in Coordinator
    BY <1>1, <1>2 DEF CheckoutTypeOK, Coordinator, PurchaseAttempt
  <2>2. screen' = [screen EXCEPT ![c] = n] /\ screen'[c] = n
    BY <1>1, <1>2 DEF CheckoutTypeOK, Coordinator, GoesTo
  <2>3. session' = session
    BY <1>2
  <2>4. pending' \in [Viewers -> PurchaseAttempt \cup {None}]
    BY <1>1, <1>2 DEF CheckoutTypeOK, Coordinator, PurchaseAttempt
  <2>5. payment' \in [Attempts ->
        [owner: Viewers \cup {None},
         state: {"new", "made", "asked", "declined", "paid", "credited", "reviewed"}]]
    BY <1>1, <1>2 DEF CheckoutTypeOK, Coordinator, PurchaseAttempt
  <2>6. Engaged(c)' => KnowsAttempt(c)'
    BY <1>1, <2>1, <2>2, <1>2 DEF CheckoutTypeOK, Engaged, KnowsAttempt, MarkersAreOwn, Coordinator, PurchaseAttempt
  <2>7. PaidIsMarked' /\ MarkersAreOwn'
    BY <1>1, <1>2 DEF CheckoutTypeOK, Engaged, KnowsAttempt, PaidIsMarked, MarkersAreOwn, Coordinator, PurchaseAttempt
  <2> HIDE DEF n
  <2> QED
    BY <1>1, <2>1, <2>2, <2>3, <2>4, <2>5, <2>6, <2>7, RunStep
<1> QED
  BY <1>2 DEF Sync, Starts

\* Only a credit leads to the removal of the marker.
LEMMA VerifyStep ==
  ASSUME NoneIsNothing, CheckoutInv, NEW c \in Coordinators, Verify(c)
  PROVE  CheckoutInv'
<1> USE NoneIsNothing DEF NoneIsNothing
<1>1. /\ screen[c] \in Coordinator
      /\ CheckoutTypeOK /\ PaidIsMarked /\ MarkersAreOwn
      /\ Engaged(c) \/ ~Operating
      /\ Engaged(c) => KnowsAttempt(c)
  BY ShownIsOpen DEF CheckoutInv, Engaged, Verify
<1>2. CASE /\ screen[c].stage = "verify" /\ StateOf(c) = "credited"
            /\ GoesTo(c, "clear")
            /\ UNCHANGED <<session, pending, payment>>
  <2> DEFINE n == [screen[c] EXCEPT !.stage = "clear"]
  <2>1. n \in Coordinator
    BY <1>1, <1>2 DEF Engaged, KnowsAttempt, StateOf, CheckoutTypeOK, Coordinator, PurchaseAttempt
  <2>2. screen' = [screen EXCEPT ![c] = n] /\ screen'[c] = n
    BY <1>1, <1>2 DEF Engaged, KnowsAttempt, StateOf, CheckoutTypeOK, Coordinator, GoesTo
  <2>3. session' = session
    BY <1>2
  <2>4. pending' \in [Viewers -> PurchaseAttempt \cup {None}]
    BY <1>1, <1>2 DEF Engaged, KnowsAttempt, StateOf, CheckoutTypeOK, Coordinator, PurchaseAttempt
  <2>5. payment' \in [Attempts ->
        [owner: Viewers \cup {None},
         state: {"new", "made", "asked", "declined", "paid", "credited", "reviewed"}]]
    BY <1>1, <1>2 DEF Engaged, KnowsAttempt, StateOf, CheckoutTypeOK, Coordinator, PurchaseAttempt
  <2>6. Engaged(c)' => KnowsAttempt(c)'
    BY <1>1, <2>1, <2>2, <1>2 DEF StateOf, CheckoutTypeOK, Engaged, KnowsAttempt, MarkersAreOwn, Coordinator, PurchaseAttempt
  <2>7. PaidIsMarked' /\ MarkersAreOwn'
    BY <1>1, <1>2 DEF StateOf, CheckoutTypeOK, Engaged, KnowsAttempt, PaidIsMarked, MarkersAreOwn, Coordinator, PurchaseAttempt
  <2> HIDE DEF n
  <2> QED
    BY <1>1, <2>1, <2>2, <2>3, <2>4, <2>5, <2>6, <2>7, RunStep
<1>3. CASE Engaged(c) /\ Over(c, screen[c]) /\ UNCHANGED <<session, pending, payment>>
  BY <1>1, <1>3, OverStep DEF Engaged, Engaged, Verify
<1> QED
  BY <1>2, <1>3 DEF Engaged, Verify

\* The marker that is removed is of an attempt that is over.
LEMMA ClearStep ==
  ASSUME NoneIsNothing, CheckoutInv, NEW c \in Coordinators, Clear(c)
  PROVE  CheckoutInv'
<1> USE NoneIsNothing DEF NoneIsNothing
<1>1. /\ screen[c] \in Coordinator
      /\ CheckoutTypeOK /\ PaidIsMarked /\ MarkersAreOwn
      /\ Engaged(c) \/ ~Operating
      /\ Engaged(c) => KnowsAttempt(c)
  BY ShownIsOpen DEF CheckoutInv, Engaged, Clear
<1>2. PICK done \in {screen[c].completed, None} :
        Over(c, [screen[c] EXCEPT !.completed = done])
  BY DEF Clear
<1> DEFINE s == [screen[c] EXCEPT !.completed = done]
<1>3. s \in Coordinator /\ Over(c, s) /\ Engaged(c) /\ UNCHANGED <<session, payment>>
  BY <1>1, <1>2 DEF Coordinator, Engaged, Clear
<1> HIDE DEF s
<1>4. CASE /\ screen[c].stage = "clear"
            /\ pending[screen[c].owner] = screen[c].attempt
            /\ pending' = [pending EXCEPT ![screen[c].owner] = None]
  <2>1. pending' \in [Viewers -> PurchaseAttempt \cup {None}]
    BY <1>1, <1>3, <1>4 DEF CheckoutTypeOK, Coordinator, PurchaseAttempt
  <2>2. PaidIsMarked' /\ MarkersAreOwn'
    BY <1>1, <1>3, <1>4 DEF CheckoutTypeOK, Engaged, KnowsAttempt, PaidIsMarked, MarkersAreOwn, Coordinator, PurchaseAttempt
  <2> QED
    BY <1>1, <1>3, <1>4, <2>1, <2>2, OverRests, RunStep DEF CheckoutTypeOK
<1>5. CASE UNCHANGED pending
  BY <1>3, <1>5, OverStep
<1> QED
  BY <1>4, <1>5 DEF Clear

\* A session starts nothing.
LEMMA CheckoutSignInStep ==
  ASSUME NoneIsNothing, CheckoutInv, NEW o \in Viewers, OwnerSignsIn(o)
  PROVE  CheckoutInv'
<1> USE NoneIsNothing DEF NoneIsNothing, CheckoutInv
<1>1. CheckoutTypeOK'
  BY DEF CheckoutTypeOK, OwnerSignsIn, Coordinator, Closed, PurchaseAttempt
<1>2. OneRuns'
  BY DEF CheckoutTypeOK, OneRuns, Engaged, OwnerSignsIn, Coordinator, Closed
<1>3. ASSUME NEW d \in Coordinators, Engaged(d)' PROVE KnowsAttempt(d)'
  BY <1>3 DEF CheckoutTypeOK, OneRuns, Engaged, KnowsAttempt, MarkersAreOwn, OwnerSignsIn, Coordinator, Closed, PurchaseAttempt
<1>4. PaidIsMarked'
  BY DEF CheckoutTypeOK, PaidIsMarked, OwnerSignsIn, Coordinator, Closed, PurchaseAttempt
<1>5. MarkersAreOwn'
  BY DEF CheckoutTypeOK, MarkersAreOwn, OwnerSignsIn, Coordinator, Closed, PurchaseAttempt
<1> QED
  BY <1>1, <1>2, <1>3, <1>4, <1>5

\* A sign-out ends every screen that runs nothing.
LEMMA CheckoutSignOutStep ==
  ASSUME NoneIsNothing, CheckoutInv, OwnerSignsOut
  PROVE  CheckoutInv'
<1> USE NoneIsNothing DEF NoneIsNothing, CheckoutInv
<1>1. CheckoutTypeOK'
  BY DEF CheckoutTypeOK, OwnerSignsOut, Coordinator, Closed, PurchaseAttempt
<1>2. OneRuns'
  BY DEF CheckoutTypeOK, OneRuns, Engaged, OwnerSignsOut, Coordinator, Closed
<1>3. ASSUME NEW d \in Coordinators, Engaged(d)' PROVE KnowsAttempt(d)'
  BY <1>3 DEF CheckoutTypeOK, OneRuns, Engaged, KnowsAttempt, MarkersAreOwn, OwnerSignsOut, Coordinator, Closed, PurchaseAttempt
<1>4. PaidIsMarked'
  BY DEF CheckoutTypeOK, PaidIsMarked, OwnerSignsOut, Coordinator, Closed, PurchaseAttempt
<1>5. MarkersAreOwn'
  BY DEF CheckoutTypeOK, MarkersAreOwn, OwnerSignsOut, Coordinator, Closed, PurchaseAttempt
<1> QED
  BY <1>1, <1>2, <1>3, <1>4, <1>5

\* With the app every operation ends.
LEMMA CheckoutDieStep ==
  ASSUME NoneIsNothing, CheckoutInv, CheckoutDies
  PROVE  CheckoutInv'
<1> USE NoneIsNothing DEF NoneIsNothing, CheckoutInv
<1>1. CheckoutTypeOK'
  BY DEF CheckoutTypeOK, CheckoutDies, Coordinator, Closed, PurchaseAttempt
<1>2. OneRuns'
  BY DEF CheckoutTypeOK, OneRuns, Engaged, CheckoutDies, Coordinator, Closed
<1>3. ASSUME NEW d \in Coordinators, Engaged(d)' PROVE KnowsAttempt(d)'
  BY <1>3 DEF CheckoutTypeOK, OneRuns, Engaged, KnowsAttempt, MarkersAreOwn, CheckoutDies, Coordinator, Closed, PurchaseAttempt
<1>4. PaidIsMarked'
  BY DEF CheckoutTypeOK, PaidIsMarked, CheckoutDies, Coordinator, Closed, PurchaseAttempt
<1>5. MarkersAreOwn'
  BY DEF CheckoutTypeOK, MarkersAreOwn, CheckoutDies, Coordinator, Closed, PurchaseAttempt
<1> QED
  BY <1>1, <1>2, <1>3, <1>4, <1>5

\* What the store and the server decide leaves what is asked for or paid in its marker.
LEMMA MoveStep ==
  ASSUME NoneIsNothing, CheckoutInv, NEW i \in Attempts, StoreEnds(i) \/ CreditPayment(i) \/ Review(i)
  PROVE  CheckoutInv'
<1> USE NoneIsNothing DEF NoneIsNothing, CheckoutInv
<1>1. CheckoutTypeOK'
  BY DEF CheckoutTypeOK, StoreEnds, CreditPayment, Review, Moves, Settled, Coordinator, Closed, PurchaseAttempt
<1>2. OneRuns'
  BY DEF CheckoutTypeOK, OneRuns, Engaged, StoreEnds, CreditPayment, Review, Moves, Settled, Coordinator, Closed
<1>3. ASSUME NEW d \in Coordinators, Engaged(d)' PROVE KnowsAttempt(d)'
  BY <1>3 DEF CheckoutTypeOK, OneRuns, Engaged, KnowsAttempt, MarkersAreOwn, StoreEnds, CreditPayment, Review, Moves, Settled, Coordinator, Closed, PurchaseAttempt
<1>4. PaidIsMarked'
  BY DEF CheckoutTypeOK, PaidIsMarked, StoreEnds, CreditPayment, Review, Moves, Settled, Coordinator, Closed, PurchaseAttempt
<1>5. MarkersAreOwn'
  BY DEF CheckoutTypeOK, MarkersAreOwn, StoreEnds, CreditPayment, Review, Moves, Settled, Coordinator, Closed, PurchaseAttempt
<1> QED
  BY <1>1, <1>2, <1>3, <1>4, <1>5

\* Every step keeps the invariant.
LEMMA CheckoutNextKeeps ==
  ASSUME NoneIsNothing, CheckoutInv, [CheckoutNext]_checkoutVars
  PROVE  CheckoutInv'
<1>1. CASE UNCHANGED checkoutVars
  BY <1>1 DEF checkoutVars, CheckoutInv, CheckoutTypeOK, PaidIsMarked, OneRuns, Engaged, KnowsAttempt, MarkersAreOwn
<1>2. CASE CheckoutNext
  BY <1>2, CheckoutOpenScreenStep, CloseScreenStep, LoadStep, PurchaseStep, WriteStep, AskStep, ResultStep,
     RecordFingerprintStep, SyncStep, VerifyStep, ClearStep, CheckoutSignInStep, CheckoutSignOutStep, CheckoutDieStep,
     MoveStep
  DEF CheckoutNext
<1> QED
  BY <1>1, <1>2

\* The variables keep their types.
THEOREM CheckoutTypeCorrect ==
  ASSUME NoneIsNothing
  PROVE  CheckoutSpec => []CheckoutTypeOK
<1>1. CheckoutInit => CheckoutInv
  BY CheckoutInitially
<1>2. CheckoutInv /\ [CheckoutNext]_checkoutVars => CheckoutInv'
  BY CheckoutNextKeeps
<1>3. CheckoutInv => CheckoutTypeOK
  BY DEF CheckoutInv
<1> QED
  BY <1>1, <1>2, <1>3, PTL DEF CheckoutSpec

\* A payment that is neither refused nor settled has its owner's marker, whatever fails
\* and whenever (checkoutCoordinator.ts:278).
THEOREM PaymentsAreMarked ==
  ASSUME NoneIsNothing
  PROVE  CheckoutSpec => []PaidIsMarked
<1>1. CheckoutInit => CheckoutInv
  BY CheckoutInitially
<1>2. CheckoutInv /\ [CheckoutNext]_checkoutVars => CheckoutInv'
  BY CheckoutNextKeeps
<1>3. CheckoutInv => PaidIsMarked
  BY DEF CheckoutInv
<1> QED
  BY <1>1, <1>2, <1>3, PTL DEF CheckoutSpec

-----------------------------------------------------------------------------
(* Coin unlock. *)

\* What a release before left: markers of attempts with ids of their own, one for an
\* episode; and nothing else is None.
LegacyIsOld ==
  /\ Legacy \subseteq UnlockAttempt
  /\ \A a, b \in Legacy : a.request = b.request \/ (a.profile = b.profile /\ a.episode = b.episode) => a = b
  /\ None \notin UnlockAttempt /\ None \notin Viewers /\ None \notin Tasks
  /\ AutoOn \subseteq Viewers

Own(a) == [account |-> a.profile, attempt |-> a]
Completed(p, a) == outcome[p][a.request] = "completed"

Holding == {"pending", "write", "mark", "unlock", "resolve", "clear", "clean"}
Writing == {"write", "mark"}

\* Nothing of the attempt was sent, whoever would pay it.
Unsent(a) ==
  /\ \A m \in debits \cup checks : m.attempt # a
  /\ \A p \in Viewers : outcome[p][a.request] = "open"

\* Its debit can happen no more, and if it did this phone was told.
Done(a) == Own(a) \notin debits /\ (Completed(a.profile, a) => a \in told)

\* What a task knows of its attempt at each stage.
TaskFacts(t) ==
  LET s == task[t]
      a == s.attempt
  IN /\ s.stage \in Holding => a \in made /\ a.profile = s.profile /\ a.episode = s.episode
     /\ s.stage \in Writing => Unsent(a)
     /\ s.stage = "write" => ~Stored(a)
     /\ s.stage \in {"mark", "clean"} => queue = t
     /\ s.stage = "mark" => journal[s.profile] = a /\ marker[s.profile][s.episode] \in {None, a}
     /\ s.stage \in {"clear", "clean"} => Done(a)
     /\ s.stage = "clean" => journal[s.profile] \in {None, a}
     /\ t \in Screens /\ s # NoTask /\ s.current => session = s.profile

\* An attempt that is being written is in no other task's hands.
WritersAlone ==
  \A t, u \in Tasks :
    /\ task[t].stage \in Writing /\ task[u].stage \in Holding
    /\ task[t].attempt = task[u].attempt
    => t = u

\* The records of the phone are of attempts it made, under the key of each.
StoresAreOwn ==
  /\ \A p \in Viewers : journal[p] # None => journal[p] \in made /\ journal[p].profile = p
  /\ \A p \in Viewers, e \in Episodes :
       marker[p][e] # None =>
         marker[p][e] \in made /\ marker[p][e].profile = p /\ marker[p][e].episode = e

\* Request ids are used once, and an attempt is charged once.
RequestsAreOwn ==
  /\ \A a, b \in made : a.request = b.request => a = b
  /\ \A m \in debits \cup checks : m.attempt \in made
  /\ \A m, n \in debits : m.attempt = n.attempt => m = n
  /\ \A m \in debits :
       /\ outcome[m.account][m.attempt.request] = "open"
       /\ \A p \in Viewers : ~Completed(p, m.attempt)
  /\ \A p \in Viewers, r \in Fresh : outcome[p][r] = "open"

\* An unanswered attempt is in the marker of its episode and, unless it is of the release
\* before, in the journal.
Kept ==
  \A a \in Unanswered :
    /\ marker[a.profile][a.episode] = a
    /\ a \notin Legacy => journal[a.profile] = a

UnlockInv ==
  /\ UnlockTypeOK
  /\ \A t \in Tasks : TaskFacts(t)
  /\ WritersAlone
  /\ StoresAreOwn
  /\ RequestsAreOwn
  /\ Kept

\* Every state the phone starts in.
LEMMA UnlockInitially ==
  ASSUME LegacyIsOld, UnlockInit
  PROVE  UnlockInv
<1> USE DEF LegacyIsOld
<1>1. \A p \in Viewers, e \in Episodes :
        IF \E a \in Legacy : a.profile = p /\ a.episode = e
        THEN marker[p][e] \in Legacy /\ marker[p][e].profile = p /\ marker[p][e].episode = e
        ELSE marker[p][e] = None
  BY DEF UnlockInit
<1>2. \A a \in Legacy : a.profile \in Viewers /\ a.episode \in Episodes /\ a.request \in Requests
  BY DEF UnlockAttempt
<1>3. \A a \in Legacy : marker[a.profile][a.episode] = a
  BY <1>1, <1>2
<1>4. \A m \in debits : m.account \in Viewers /\ m.attempt \in Legacy /\ m = Own(m.attempt)
  BY <1>2 DEF UnlockInit, Own
<1>5. UnlockTypeOK
  <2>1. marker \in [Viewers -> [Episodes -> UnlockAttempt \cup {None}]]
    BY <1>1 DEF UnlockInit
  <2>2. debits \subseteq Message
    BY <1>2 DEF UnlockInit, Message
  <2> QED
    BY <2>1, <2>2 DEF UnlockInit, UnlockTypeOK
<1>6. (\A t \in Tasks : TaskFacts(t)) /\ WritersAlone
  BY DEF UnlockInit, TaskFacts, WritersAlone, Holding, Writing, NoTask
<1>7. StoresAreOwn
  BY <1>1 DEF UnlockInit, StoresAreOwn
<1>8. RequestsAreOwn
  BY <1>2, <1>4 DEF UnlockInit, RequestsAreOwn, Completed, Fresh, Own
<1>9. Kept
  <2>1. \A a \in Unanswered : a \in Legacy
    BY DEF UnlockInit, Unanswered
  <2> QED
    BY <1>3, <2>1 DEF Kept
<1> QED
  BY <1>5, <1>6, <1>7, <1>8, <1>9 DEF UnlockInv

-----------------------------------------------------------------------------
(* What several steps have in common. *)

\* A task that is at a stage has the fields of one that runs.
LEMMA StagedRuns ==
  ASSUME UnlockTypeOK, NEW t \in Tasks, task[t].stage # "idle"
  PROVE  task[t] \in Running
BY DEF UnlockTypeOK, NoTask

\* A step of the tasks alone: what is stored, sent and decided is as it was.
LEMMA TasksStep ==
  ASSUME UnlockInv, UnlockTypeOK', UNCHANGED <<store, made, told, server>>,
         \A u \in Tasks : TaskFacts(u)',
         WritersAlone'
  PROVE  UnlockInv'
<1>1. StoresAreOwn'
  BY DEF UnlockInv, StoresAreOwn, store
<1>2. RequestsAreOwn'
  BY DEF UnlockInv, RequestsAreOwn, server, Fresh, Completed
<1>3. Kept'
  BY DEF UnlockInv, Kept, Unanswered, store, server
<1> QED
  BY <1>1, <1>2, <1>3 DEF UnlockInv

\* The other tasks know what they knew when only one task goes on, and the queue is its own.
LEMMA OthersKnow ==
  ASSUME LegacyIsOld, UnlockInv, NEW t \in Tasks, NEW u \in Tasks \ {t},
         task'[u] = task[u],
         UNCHANGED <<session, store, made, told, server>>,
         queue' = queue \/ queue = None \/ queue = t
  PROVE  TaskFacts(u)'
<1>1. \A a : /\ Unsent(a)' <=> Unsent(a)
             /\ Stored(a)' <=> Stored(a)
             /\ Done(a)' <=> Done(a)
  BY DEF store, server, Unsent, Completed, Stored, Done, Own
<1>2. TaskFacts(u) /\ u # t /\ u # None
  BY DEF UnlockInv, LegacyIsOld
<1>3. session' = session /\ journal' = journal /\ marker' = marker /\ made' = made
  BY DEF store
<1> QED
  BY <1>1, <1>2, <1>3 DEF TaskFacts

\* A task ends, and leaves the queue if it held it.
LEMMA EndStep ==
  ASSUME LegacyIsOld, UnlockInv, NEW t \in Tasks, End(t),
         UNCHANGED <<session, store, made, told, server>>,
         queue' = queue \/ (queue' = None /\ (queue = None \/ queue = t))
  PROVE  UnlockInv'
<1>1. task' = [task EXCEPT ![t] = NoTask] /\ UnlockTypeOK
  BY DEF End, UnlockInv
<1>2. UnlockTypeOK'
  BY <1>1 DEF UnlockTypeOK, store, server
<1>3. \A u \in Tasks \ {t} : task'[u] = task[u]
  BY <1>1 DEF UnlockTypeOK
<1>4. task'[t] = NoTask
  BY <1>1 DEF UnlockTypeOK
<1>5. \A u \in Tasks \ {t} : TaskFacts(u)'
  BY <1>3, OthersKnow
<1>6. TaskFacts(t)'
  BY <1>4 DEF TaskFacts, NoTask, Holding, Writing
<1>7. WritersAlone'
  BY <1>3, <1>4 DEF UnlockInv, WritersAlone, NoTask, Holding, Writing
<1> QED
  BY <1>2, <1>5, <1>6, <1>7, TasksStep

\* A task goes on with its attempt to a stage where it writes nothing new.
LEMMA GotoStep ==
  ASSUME LegacyIsOld, UnlockInv, NEW t \in Tasks, task[t].stage \in Holding,
         NEW stage \in Holding \ Writing, Goto(t, stage),
         UNCHANGED <<session, store, made, told, server>>,
         queue' = queue \/ (queue' = None /\ (queue = None \/ queue = t)) \/ (queue' = t /\ queue = None),
         TaskFacts(t)'
  PROVE  UnlockInv'
<1>1. task' = [task EXCEPT ![t].stage = stage] /\ UnlockTypeOK /\ WritersAlone
  BY DEF Goto, UnlockInv
<1>2. task[t] \in Running
  BY <1>1, StagedRuns DEF Holding
<1>3. task'[t] = [task[t] EXCEPT !.stage = stage] /\ \A u \in Tasks \ {t} : task'[u] = task[u]
  BY <1>1 DEF UnlockTypeOK
<1>4. [task[t] EXCEPT !.stage = stage] \in Running
  BY <1>2 DEF Running, Holding
<1>5. task' \in [Tasks -> Running \cup {NoTask}]
  BY <1>1, <1>3, <1>4 DEF UnlockTypeOK
<1>6. UnlockTypeOK'
  BY <1>1, <1>5 DEF UnlockTypeOK, store, server
<1>7. \A u \in Tasks \ {t} : TaskFacts(u)'
  BY <1>3, OthersKnow
<1>8. task'[t].stage = stage /\ task'[t].attempt = task[t].attempt
  BY <1>2, <1>3 DEF Running
<1>9. WritersAlone'
  BY <1>1, <1>3, <1>8 DEF WritersAlone
<1> QED
  BY <1>6, <1>7, <1>9, TasksStep

\* Screens that are left, by their viewer or with the session.
LEMMA LeftStep ==
  ASSUME LegacyIsOld, UnlockInv, NEW ts \in SUBSET Screens, task' = Left(ts),
         UNCHANGED <<store, queue, made, told, server>>,
         session' \in Viewers \cup {None}, session' = session \/ ts = Screens
  PROVE  UnlockInv'
<1>1. UnlockTypeOK /\ \A t \in Tasks : TaskFacts(t)
  BY DEF UnlockInv
<1>2. ASSUME NEW t \in Tasks
      PROVE  task'[t] = task[t] \/ task'[t] = NoTask
             \/ (task[t] \in Running /\ task'[t] = [task[t] EXCEPT !.current = FALSE])
  BY <1>1 DEF Left, UnlockTypeOK
<1>3. ASSUME NEW t \in Tasks
      PROVE  task'[t] \in Running \cup {NoTask}
  <2>1. task[t] \in Running => [task[t] EXCEPT !.current = FALSE] \in Running
    BY DEF Running
  <2> QED
    BY <1>1, <1>2, <2>1 DEF UnlockTypeOK
<1>4. UnlockTypeOK'
  <2>1. task' \in [Tasks -> Running \cup {NoTask}]
    BY <1>3 DEF Left
  <2> QED
    BY <1>1, <2>1 DEF UnlockTypeOK, store, server
<1>5. ASSUME NEW t \in Tasks
      PROVE  /\ task'[t].stage = task[t].stage \/ task'[t] = NoTask
             /\ task'[t] # NoTask => /\ task'[t].attempt = task[t].attempt
                                     /\ task'[t].profile = task[t].profile
                                     /\ task'[t].episode = task[t].episode
  BY <1>2 DEF Running
<1>6. ASSUME NEW t \in Tasks
      PROVE  task'[t] # NoTask /\ t \in Screens /\ task'[t].current => session' = task'[t].profile
  <2>1. CASE t \in ts
    BY <2>1 DEF Left, NoTask, Running, UnlockTypeOK, UnlockInv
  <2>2. CASE t \notin ts
    BY <1>1, <2>2 DEF Left, TaskFacts
  <2> QED
    BY <2>1, <2>2
<1>7. \A a : /\ Unsent(a)' <=> Unsent(a)
             /\ Stored(a)' <=> Stored(a)
             /\ Done(a)' <=> Done(a)
  BY DEF store, server, Unsent, Completed, Stored, Done, Own
<1>8. queue' = queue /\ journal' = journal /\ marker' = marker /\ made' = made
  BY DEF store
<1>9. ASSUME NEW t \in Tasks PROVE TaskFacts(t)'
  <2>1. CASE task'[t] = NoTask
    BY <2>1 DEF TaskFacts, NoTask, Holding, Writing
  <2>2. CASE task'[t] # NoTask
    BY <1>1, <1>5, <1>6, <1>7, <1>8, <2>2 DEF TaskFacts
  <2> QED
    BY <2>1, <2>2
<1>10. WritersAlone'
  BY <1>5 DEF UnlockInv, WritersAlone, NoTask, Holding, Writing
<1> QED
  BY <1>4, <1>9, <1>10, TasksStep

-----------------------------------------------------------------------------
(* One lemma for each step. *)

\* A screen opens without an attempt.
LEMMA UnlockOpenScreenStep ==
  ASSUME LegacyIsOld, UnlockInv, NEW t \in Tasks, NEW e \in Episodes, OpenScreen(t, e)
  PROVE  UnlockInv'
<1> DEFINE s == Started(e, None, "read")
<1>1. UnlockTypeOK /\ session \in Viewers
  BY DEF OpenScreen, UnlockInv, UnlockTypeOK
<1>2. s \in Running /\ s.stage = "read" /\ s.profile = session
  BY <1>1 DEF Started, Running
<1>3. task' = [task EXCEPT ![t] = s]
  BY DEF OpenScreen
<1> HIDE DEF s
<1>4. task'[t] = s /\ \A u \in Tasks \ {t} : task'[u] = task[u]
  BY <1>1, <1>3 DEF UnlockTypeOK
<1>5. UnlockTypeOK'
  BY <1>1, <1>2, <1>3 DEF UnlockTypeOK, OpenScreen, store, server
<1>6. TaskFacts(t)'
  BY <1>2, <1>4 DEF TaskFacts, Holding, Writing, OpenScreen
<1>7. \A u \in Tasks \ {t} : TaskFacts(u)'
  BY <1>4, OthersKnow DEF OpenScreen
<1>8. WritersAlone'
  BY <1>2, <1>4 DEF UnlockInv, WritersAlone, Holding, Writing
<1> QED
  BY <1>5, <1>6, <1>7, <1>8, TasksStep DEF OpenScreen

\* Without an answer the attempt stays in hand or the task ends.
LEMMA UnanswersStep ==
  ASSUME LegacyIsOld, UnlockInv, NEW t \in Tasks, Unanswers(t)
  PROVE  UnlockInv'
<1>1. CASE End(t)
  BY <1>1, EndStep DEF Unanswers
<1>2. CASE Goto(t, "pending")
  <2>1. UnlockTypeOK /\ TaskFacts(t) /\ task[t].stage \in Holding
    BY DEF UnlockInv, Unanswers, Holding
  <2>2. task[t] \in Running
    BY <2>1, StagedRuns DEF Holding
  <2>3. task'[t] = [task[t] EXCEPT !.stage = "pending"]
    BY <1>2, <2>1 DEF Goto, UnlockTypeOK
  <2>5. /\ task'[t].stage = "pending" /\ task'[t] # NoTask /\ task[t] # NoTask
        /\ task'[t].attempt = task[t].attempt /\ task'[t].profile = task[t].profile
        /\ task'[t].episode = task[t].episode /\ task'[t].current = task[t].current
    BY <2>2, <2>3 DEF Running, NoTask
  <2>6. session' = session /\ made' = made
    BY DEF Unanswers
  <2>4. TaskFacts(t)'
    BY <2>1, <2>5, <2>6 DEF TaskFacts, Holding, Writing
  <2> QED
    BY <1>2, <2>1, <2>4, GotoStep DEF Unanswers, Holding, Writing
<1> QED
  BY <1>1, <1>2 DEF Unanswers

\* A viewer leaves, signs in or signs out.
LEMMA LeaveStep ==
  ASSUME LegacyIsOld, UnlockInv, NEW t \in Tasks, Leave(t)
  PROVE  UnlockInv'
BY LeftStep DEF Leave, UnlockInv, UnlockTypeOK

LEMMA UnlockSignOutStep ==
  ASSUME LegacyIsOld, UnlockInv, ViewerSignsOut
  PROVE  UnlockInv'
BY LeftStep DEF ViewerSignsOut

\* Nobody is signed in before, so no screen is current.
LEMMA UnlockSignInStep ==
  ASSUME LegacyIsOld, UnlockInv, NEW p \in Viewers, ViewerSignsIn(p)
  PROVE  UnlockInv'
<1>1. UnlockTypeOK /\ \A t \in Tasks : TaskFacts(t)
  BY DEF UnlockInv
<1>2. UnlockTypeOK'
  BY <1>1 DEF ViewerSignsIn, UnlockTypeOK, store, server
<1>3. ASSUME NEW t \in Tasks, t \in Screens, task[t] # NoTask PROVE ~task[t].current
  <2>1. task[t].profile \in Viewers
    BY <1>1, <1>3 DEF UnlockTypeOK, Running
  <2> QED
    BY <1>1, <1>3, <2>1 DEF TaskFacts, ViewerSignsIn, LegacyIsOld
<1>4. ASSUME NEW t \in Tasks PROVE TaskFacts(t)'
  <2>1. \A a : /\ Unsent(a)' <=> Unsent(a)
               /\ Stored(a)' <=> Stored(a)
               /\ Done(a)' <=> Done(a)
    BY DEF ViewerSignsIn, store, server, Unsent, Completed, Stored, Done, Own
  <2> QED
    BY <1>1, <1>3, <2>1 DEF TaskFacts, ViewerSignsIn, store
<1>5. WritersAlone'
  BY DEF UnlockInv, WritersAlone, ViewerSignsIn
<1> QED
  BY <1>2, <1>4, <1>5, TasksStep DEF ViewerSignsIn

\* With the app every task ends.
LEMMA UnlockDieStep ==
  ASSUME LegacyIsOld, UnlockInv, AppDies
  PROVE  UnlockInv'
<1>1. UnlockTypeOK'
  BY DEF UnlockInv, UnlockTypeOK, AppDies, store, server
<1>2. \A t \in Tasks : task'[t] = NoTask
  BY DEF AppDies
<1>3. \A t \in Tasks : TaskFacts(t)'
  BY <1>2 DEF TaskFacts, NoTask, Holding, Writing
<1>4. WritersAlone'
  BY <1>2 DEF WritersAlone, NoTask, Holding, Writing
<1> QED
  BY <1>1, <1>3, <1>4, TasksStep DEF AppDies

\* The screen takes what the records have; a marker of the release before is copied.
LEMMA ReadStep ==
  ASSUME LegacyIsOld, UnlockInv, NEW t \in Tasks, Read(t)
  PROVE  UnlockInv'
<1> DEFINE a == Recovered(t)
           s == [task[t] EXCEPT !.attempt = a, !.stage = IF a = None THEN "show" ELSE "pending"]
<1>1. UnlockTypeOK /\ TaskFacts(t) /\ task[t].stage = "read" /\ queue = None
  BY DEF UnlockInv, Read
<1>2. task[t] \in Running /\ task[t] # NoTask
  BY <1>1, StagedRuns DEF NoTask
<1>3. task[t].profile \in Viewers /\ task[t].episode \in Episodes
  BY <1>2 DEF Running
<1>4. CASE End(t) /\ UNCHANGED journal
  BY <1>4, EndStep DEF Read, store
<1>5. CASE /\ ~Conflicting(t)
           /\ task' = [task EXCEPT ![t].attempt = a,
                                   ![t].stage = IF a = None THEN "show" ELSE "pending"]
           /\ \/ journal' = [journal EXCEPT ![task[t].profile] = a]
              \/ UNCHANGED journal
  <2>1. a # None => a \in made /\ a.profile = task[t].profile /\ a.episode = task[t].episode /\ Stored(a)
    <3>1. CASE JournalOf(t) # None
      <4>1. a = journal[task[t].profile] /\ a # None /\ a.episode = task[t].episode
        BY <1>5, <3>1 DEF Recovered, JournalOf, Conflicting
      <4> HIDE DEF a
      <4> QED
        BY <1>3, <4>1 DEF UnlockInv, StoresAreOwn, Stored
    <3>2. CASE JournalOf(t) = None
      <4>1. a = marker[task[t].profile][task[t].episode]
        BY <3>2 DEF Recovered, MarkerOf
      <4> HIDE DEF a
      <4> QED
        BY <1>3, <4>1 DEF UnlockInv, StoresAreOwn, Stored
    <3> QED
      BY <3>1, <3>2
  <2>2. a \in UnlockAttempt \cup {None}
    BY <1>1, <1>3 DEF UnlockTypeOK, Recovered, JournalOf, MarkerOf
  <2>3. task'[t] = s /\ \A u \in Tasks \ {t} : task'[u] = task[u]
    BY <1>1, <1>5 DEF UnlockTypeOK
  <2>4. s \in Running
    BY <1>2, <2>2 DEF Running
  <2>5. /\ s.attempt = a /\ s.stage = (IF a = None THEN "show" ELSE "pending")
        /\ s.profile = task[t].profile /\ s.episode = task[t].episode /\ s.current = task[t].current
    BY <1>2 DEF Running
  <2>6. task' = [task EXCEPT ![t] = s]
    BY <1>1, <1>5, <2>3 DEF UnlockTypeOK
  <2>7. session' = session /\ marker' = marker /\ queue' = queue /\ made' = made /\ told' = told
        /\ debits' = debits /\ checks' = checks /\ outcome' = outcome
    BY DEF Read, server
  <2> HIDE DEF s
  <2>8. \A p \in Viewers : journal'[p] = journal[p] \/ (journal[p] = None /\ p = task[t].profile /\ journal'[p] = a)
    BY <1>1, <1>3, <1>5 DEF UnlockTypeOK, Recovered, JournalOf
  <2> HIDE DEF a
  <2>9. journal' \in [Viewers -> UnlockAttempt \cup {None}]
    BY <1>1, <1>3, <1>5, <2>2 DEF UnlockTypeOK
  <2>10. UnlockTypeOK'
    BY <1>1, <2>4, <2>6, <2>7, <2>9 DEF UnlockTypeOK
  <2>11. \A b \in made : Stored(b)' => Stored(b)
    BY <1>1, <2>1, <2>7, <2>8 DEF Stored, LegacyIsOld, UnlockTypeOK, UnlockAttempt
  <2>12. \A b : (Unsent(b) <=> Unsent(b)') /\ (Done(b) <=> Done(b)')
    BY <2>7 DEF Unsent, Done, Completed, Own
  <2>13. ASSUME NEW u \in Tasks, u # t PROVE TaskFacts(u)'
    <3>1. TaskFacts(u) /\ task[u].stage \notin {"mark", "clean"}
      BY <1>1 DEF UnlockInv, TaskFacts, LegacyIsOld
    <3> QED
      BY <2>3, <2>7, <2>11, <2>12, <2>13, <3>1 DEF TaskFacts, Holding, Writing
  <2>14. TaskFacts(t)'
    BY <1>1, <1>2, <2>1, <2>3, <2>5, <2>7 DEF TaskFacts, Holding, Writing, NoTask
  <2>15. WritersAlone'
    <3>1. ASSUME NEW u \in Tasks, u # t, task[u].stage \in Writing PROVE task[u].attempt # a \/ a = None
      BY <1>1, <2>1, <3>1 DEF UnlockInv, TaskFacts, Writing, LegacyIsOld
    <3> QED
      BY <2>3, <2>5, <3>1 DEF UnlockInv, WritersAlone, Writing, Holding
  <2>16. StoresAreOwn'
    BY <2>1, <2>7, <2>8 DEF UnlockInv, StoresAreOwn
  <2>17. RequestsAreOwn'
    BY <2>7 DEF UnlockInv, RequestsAreOwn, Fresh, Completed
  <2>18. Kept'
    <3>1. \A b \in Unanswered : b.profile \in Viewers /\ b # None
      BY <1>1 DEF UnlockTypeOK, Unanswered, UnlockAttempt, LegacyIsOld
    <3>2. Unanswered' = Unanswered
      BY <2>7 DEF Unanswered
    <3> QED
      BY <2>7, <2>8, <3>1, <3>2 DEF UnlockInv, Kept
  <2> QED
    BY <2>10, <2>13, <2>14, <2>15, <2>16, <2>17, <2>18 DEF UnlockInv
<1> QED
  BY <1>4, <1>5 DEF Read

\* The fields of a task that goes on; the others are as they were.
LEMMA GoneOn ==
  ASSUME UnlockInv, NEW t \in Tasks, task[t].stage \in Holding, NEW stage \in Holding, Goto(t, stage)
  PROVE  /\ task' \in [Tasks -> Running \cup {NoTask}]
         /\ task[t] \in Running /\ task'[t] \in Running
         /\ task[t] # NoTask /\ task'[t] # NoTask
         /\ task'[t].stage = stage /\ task'[t].attempt = task[t].attempt
         /\ task'[t].profile = task[t].profile /\ task'[t].episode = task[t].episode
         /\ task'[t].current = task[t].current
         /\ \A u \in Tasks \ {t} : task'[u] = task[u]
         /\ task[t].attempt \in made /\ task[t].attempt \in UnlockAttempt
         /\ LegacyIsOld => task[t].attempt # None
         /\ task[t].attempt.profile = task[t].profile /\ task[t].attempt.episode = task[t].episode
         /\ task[t].profile \in Viewers /\ task[t].episode \in Episodes
<1>1. UnlockTypeOK /\ TaskFacts(t)
  BY DEF UnlockInv
<1>2. task[t] \in Running /\ task[t] # NoTask
  BY <1>1, StagedRuns DEF Holding, NoTask
<1>3. task'[t] = [task[t] EXCEPT !.stage = stage] /\ \A u \in Tasks \ {t} : task'[u] = task[u]
  BY <1>1 DEF Goto, UnlockTypeOK
<1>4. task'[t] \in Running /\ task'[t] # NoTask
  BY <1>2, <1>3 DEF Running, Holding, NoTask
<1>5. task' \in [Tasks -> Running \cup {NoTask}]
  BY <1>1, <1>3, <1>4 DEF Goto, UnlockTypeOK
<1>6. /\ task'[t].stage = stage /\ task'[t].attempt = task[t].attempt
      /\ task'[t].profile = task[t].profile /\ task'[t].episode = task[t].episode
      /\ task'[t].current = task[t].current
      /\ task[t].profile \in Viewers /\ task[t].episode \in Episodes
  BY <1>2, <1>3 DEF Running
<1>7. /\ task[t].attempt \in made /\ task[t].attempt.profile = task[t].profile
      /\ task[t].attempt.episode = task[t].episode /\ made \subseteq UnlockAttempt
  BY <1>1 DEF TaskFacts, UnlockTypeOK
<1> QED
  BY <1>2, <1>3, <1>4, <1>5, <1>6, <1>7 DEF LegacyIsOld

\* The journal is written when it and the marker have no other attempt.
LEMMA WriteJournalStep ==
  ASSUME LegacyIsOld, UnlockInv, NEW t \in Tasks, WriteJournal(t)
  PROVE  UnlockInv'
<1> DEFINE a == task[t].attempt
           p == task[t].profile
           e == task[t].episode
<1>1. UnlockTypeOK /\ TaskFacts(t) /\ task[t].stage = "write" /\ queue = None /\ t # None
  BY DEF UnlockInv, WriteJournal, LegacyIsOld
<1>2. CASE End(t) /\ UNCHANGED <<journal, queue>>
  BY <1>1, <1>2, EndStep DEF WriteJournal, store
<1>3. CASE NoOther(t) /\ journal' = [journal EXCEPT ![p] = a] /\ queue' = t /\ Goto(t, "mark")
  <2>1. task[t].stage \in Holding /\ "mark" \in Holding
    BY <1>1 DEF Holding
  <2>2. /\ task' \in [Tasks -> Running \cup {NoTask}] /\ task'[t] # NoTask /\ task[t] # NoTask
        /\ task'[t].stage = "mark" /\ task'[t].attempt = a /\ task'[t].profile = p
        /\ task'[t].episode = e /\ task'[t].current = task[t].current
        /\ \A u \in Tasks \ {t} : task'[u] = task[u]
        /\ a \in made /\ a \in UnlockAttempt /\ a # None /\ a.profile = p /\ a.episode = e
        /\ p \in Viewers /\ e \in Episodes
    BY <1>3, <2>1, GoneOn
  <2>3. Unsent(a) /\ ~Stored(a)
    BY <1>1 DEF TaskFacts, Writing
  <2>4. journal[p] = None /\ marker[p][e] = None
    BY <1>3, <2>2, <2>3 DEF NoOther, JournalOf, MarkerOf, Stored
  <2> HIDE DEF a, p, e
  <2>5. session' = session /\ marker' = marker /\ made' = made /\ told' = told
        /\ debits' = debits /\ checks' = checks /\ outcome' = outcome
    BY DEF WriteJournal, server
  <2>6. /\ journal' \in [Viewers -> UnlockAttempt \cup {None}] /\ journal'[p] = a
        /\ \A q \in Viewers : q # p => journal'[q] = journal[q]
    BY <1>1, <1>3, <2>2 DEF UnlockTypeOK
  <2>7. UnlockTypeOK'
    BY <1>1, <1>3, <2>2, <2>5, <2>6 DEF UnlockTypeOK
  <2>8. \A b : (Unsent(b) <=> Unsent(b)') /\ (Done(b) <=> Done(b)')
    BY <2>5 DEF Unsent, Done, Completed, Own
  <2>9. \A b \in made : b # a /\ Stored(b)' => Stored(b)
    BY <1>1, <2>5, <2>6 DEF Stored, UnlockTypeOK, UnlockAttempt
  <2>10. ASSUME NEW u \in Tasks, u # t PROVE TaskFacts(u)'
    <3>1. TaskFacts(u) /\ task[u].stage \notin {"mark", "clean"}
      BY <1>1, <2>10 DEF UnlockInv, TaskFacts, LegacyIsOld
    <3>2. task[u].stage = "write" => task[u].attempt # a
      BY <1>1, <2>1, <2>10 DEF UnlockInv, WritersAlone, Writing, Holding, a
    <3> QED
      BY <2>2, <2>5, <2>8, <2>9, <2>10, <3>1, <3>2 DEF TaskFacts, Holding, Writing
  <2>11. TaskFacts(t)'
    BY <1>1, <1>3, <2>2, <2>3, <2>4, <2>5, <2>6, <2>8 DEF TaskFacts, Holding, Writing, p
  <2>12. WritersAlone'
    <3>1. ASSUME NEW u \in Tasks, u # t, task[u].stage \in Holding PROVE task[u].attempt # a
      BY <1>1, <3>1 DEF UnlockInv, WritersAlone, Writing, Holding, a
    <3> QED
      BY <2>2, <3>1 DEF UnlockInv, WritersAlone, Writing, Holding
  <2>13. StoresAreOwn'
    BY <2>2, <2>5, <2>6 DEF UnlockInv, StoresAreOwn
  <2>14. RequestsAreOwn'
    BY <2>5 DEF UnlockInv, RequestsAreOwn, Fresh, Completed
  <2>15. Kept'
    <3>1. Unanswered' = Unanswered /\ \A b \in Unanswered : b \in UnlockAttempt /\ b # None
      BY <1>1, <2>5 DEF Unanswered, UnlockTypeOK, LegacyIsOld
    <3>2. \A b \in Unanswered \ Legacy : b.profile # p
      BY <2>4, <3>1 DEF UnlockInv, Kept
    <3> QED
      BY <2>5, <2>6, <3>1, <3>2 DEF UnlockInv, Kept, UnlockAttempt
  <2> QED
    BY <2>7, <2>10, <2>11, <2>12, <2>13, <2>14, <2>15 DEF UnlockInv
<1> QED
  BY <1>2, <1>3 DEF WriteJournal

\* With the marker both records are written, and only then the debit is sent.
LEMMA WriteMarkerStep ==
  ASSUME LegacyIsOld, UnlockInv, NEW t \in Tasks, WriteMarker(t)
  PROVE  UnlockInv'
<1> DEFINE a == task[t].attempt
           p == task[t].profile
           e == task[t].episode
<1>1. UnlockTypeOK /\ TaskFacts(t) /\ task[t].stage = "mark" /\ queue = t /\ queue' = None
  BY DEF UnlockInv, WriteMarker, TaskFacts
<1>2. CASE End(t) /\ UNCHANGED <<marker, debits>>
  BY <1>1, <1>2, EndStep DEF WriteMarker, store, server
<1> DEFINE sent == [account |-> session, attempt |-> a]
<1>3. ASSUME marker' = [marker EXCEPT ![p][e] = a]
      PROVE  /\ task[t] \in Running /\ task[t] # NoTask
             /\ a \in made /\ a \in UnlockAttempt /\ a # None /\ a.profile = p /\ a.episode = e
             /\ p \in Viewers /\ e \in Episodes
             /\ Unsent(a) /\ journal[p] = a /\ marker[p][e] \in {None, a}
             /\ marker' \in [Viewers -> [Episodes -> UnlockAttempt \cup {None}]]
             /\ marker'[p][e] = a
             /\ \A q \in Viewers, f \in Episodes : q # p \/ f # e => marker'[q][f] = marker[q][f]
  <2>1. task[t] \in Running /\ task[t] # NoTask
    BY <1>1, StagedRuns DEF NoTask
  <2>2. p \in Viewers /\ e \in Episodes
    BY <2>1 DEF Running
  <2>3. /\ a \in made /\ a.profile = p /\ a.episode = e /\ Unsent(a)
        /\ journal[p] = a /\ marker[p][e] \in {None, a}
    BY <1>1 DEF TaskFacts, Holding, Writing
  <2>4. a \in UnlockAttempt /\ a # None
    BY <1>1, <2>3 DEF UnlockTypeOK, LegacyIsOld
  <2> HIDE DEF a, p, e
  <2> QED
    BY <1>1, <1>3, <2>1, <2>2, <2>3, <2>4 DEF UnlockTypeOK
<1>4. ASSUME marker' = [marker EXCEPT ![p][e] = a],
             \/ debits' = debits \cup {sent} /\ session \in Viewers
             \/ debits' = debits,
             NEW s \in Running \cup {NoTask}, task' = [task EXCEPT ![t] = s],
             s = NoTask \/ /\ s.stage = "unlock" /\ s.attempt = a /\ s.profile = p /\ s.episode = e
                           /\ s.current = task[t].current
      PROVE  UnlockInv'
  <2>1. /\ task[t] \in Running /\ task[t] # NoTask
        /\ a \in made /\ a \in UnlockAttempt /\ a # None /\ a.profile = p /\ a.episode = e
        /\ p \in Viewers /\ e \in Episodes
        /\ Unsent(a) /\ journal[p] = a /\ marker[p][e] \in {None, a}
        /\ marker' \in [Viewers -> [Episodes -> UnlockAttempt \cup {None}]]
        /\ marker'[p][e] = a
        /\ \A q \in Viewers, f \in Episodes : q # p \/ f # e => marker'[q][f] = marker[q][f]
    BY <1>3, <1>4
  <2>2. ASSUME NEW u \in Tasks, u # t, task[u].stage \in Holding
        PROVE  task[u].attempt # a
    BY <1>1, <2>2 DEF UnlockInv, WritersAlone, Writing
  <2> HIDE DEF a, p, e
  <2>3. session' = session /\ journal' = journal /\ made' = made /\ told' = told
        /\ checks' = checks /\ outcome' = outcome
    BY DEF WriteMarker
  <2>4. task'[t] = s /\ \A u \in Tasks \ {t} : task'[u] = task[u]
    BY <1>1, <1>4 DEF UnlockTypeOK
  <2>5. session \in Viewers => sent \in Message /\ sent.attempt = a /\ sent.account = session
    BY <2>1 DEF Message
  <2>6. \A m \in debits' : m \in debits \/ (m = sent /\ session \in Viewers /\ m.attempt = a)
    BY <1>4, <2>5
  <2> HIDE DEF sent
  <2>7. UnlockTypeOK'
    <3>1. task' \in [Tasks -> Running \cup {NoTask}]
      BY <1>1, <1>4 DEF UnlockTypeOK
    <3>2. debits' \subseteq Message
      BY <1>1, <2>5, <2>6 DEF UnlockTypeOK
    <3> QED
      BY <1>1, <2>1, <2>3, <3>1, <3>2 DEF UnlockTypeOK
  <2>8. \A b : b # a => /\ Unsent(b) => Unsent(b)'
                        /\ Done(b) => Done(b)'
    BY <2>3, <2>6 DEF Unsent, Done, Completed, Own
  <2>9. \A b \in made : b # a => (Stored(b)' => Stored(b))
    BY <1>1, <2>1, <2>3 DEF Stored, UnlockTypeOK, UnlockAttempt
  <2>10. ASSUME NEW u \in Tasks, u # t PROVE TaskFacts(u)'
    <3>1. TaskFacts(u) /\ task[u].stage \notin {"mark", "clean"}
      BY <1>1, <2>10 DEF UnlockInv, TaskFacts
    <3>2. task[u].stage \in Holding => task[u].attempt # a
      BY <2>2, <2>10
    <3> QED
      BY <2>3, <2>4, <2>8, <2>9, <2>10, <3>1, <3>2 DEF TaskFacts, Holding, Writing
  <2>11. TaskFacts(t)'
    <3>1. CASE s = NoTask
      BY <2>4, <3>1 DEF TaskFacts, NoTask, Holding, Writing
    <3>2. CASE s # NoTask
      BY <1>1, <1>4, <2>1, <2>3, <2>4, <3>2 DEF TaskFacts, Holding, Writing, p
    <3> QED
      BY <3>1, <3>2
  <2>12. WritersAlone'
    BY <1>4, <2>2, <2>4 DEF UnlockInv, WritersAlone, Writing, Holding, NoTask
  <2>13. StoresAreOwn'
    BY <2>1, <2>3 DEF UnlockInv, StoresAreOwn
  <2>14. RequestsAreOwn'
    <3>1. /\ \A b, c \in made' : b.request = c.request => b = c
          /\ \A m \in (debits \cup checks)' : m.attempt \in made'
          /\ \A q \in Viewers, r \in Fresh' : outcome'[q][r] = "open"
      BY <2>1, <2>3, <2>6 DEF UnlockInv, RequestsAreOwn, Fresh
    <3>2. \A m, n \in debits' : m.attempt = n.attempt => m = n
      BY <2>1, <2>6 DEF UnlockInv, RequestsAreOwn, Unsent
    <3>3. ASSUME NEW m \in debits'
          PROVE  /\ outcome'[m.account][m.attempt.request] = "open"
                 /\ \A q \in Viewers : ~Completed(q, m.attempt)'
      <4>1. CASE m \in debits
        BY <2>3, <4>1 DEF UnlockInv, RequestsAreOwn, Completed
      <4>2. CASE m = sent /\ session \in Viewers
        BY <2>1, <2>3, <2>5, <4>2 DEF Unsent, Completed
      <4> QED
        BY <2>6, <4>1, <4>2
    <3> QED
      BY <3>1, <3>2, <3>3 DEF RequestsAreOwn
  <2>15. Kept'
    <3>1. Unanswered' \subseteq Unanswered \cup {a}
      BY <2>3, <2>6 DEF Unanswered
    <3>2. \A b \in Unanswered : b \in UnlockAttempt /\ b # None
      BY <1>1 DEF Unanswered, UnlockTypeOK, LegacyIsOld
    <3>3. ASSUME NEW b \in Unanswered PROVE marker'[b.profile][b.episode] = b
      BY <2>1, <3>2 DEF UnlockInv, Kept, UnlockAttempt
    <3> QED
      BY <2>1, <2>3, <3>1, <3>3 DEF UnlockInv, Kept
  <2> QED
    BY <2>7, <2>10, <2>11, <2>12, <2>13, <2>14, <2>15 DEF UnlockInv
<1>5. CASE marker' = [marker EXCEPT ![p][e] = a] /\ session = None /\ End(t) /\ UNCHANGED debits
  BY <1>4, <1>5 DEF End
<1>6. CASE /\ marker' = [marker EXCEPT ![p][e] = a]
           /\ session # None /\ debits' = debits \cup {sent} /\ Goto(t, "unlock")
  <2> DEFINE s == [task[t] EXCEPT !.stage = "unlock"]
  <2>1. task[t] \in Running
    BY <1>3, <1>6
  <2>2. /\ s \in Running /\ s.stage = "unlock" /\ s.attempt = a /\ s.profile = p /\ s.episode = e
        /\ s.current = task[t].current
    BY <2>1 DEF Running
  <2>3. task' = [task EXCEPT ![t] = s]
    BY <1>1, <1>6 DEF Goto, UnlockTypeOK
  <2>4. session \in Viewers
    BY <1>1, <1>6 DEF UnlockTypeOK
  <2> HIDE DEF s, a, p, e, sent
  <2> QED
    BY <1>4, <1>6, <2>2, <2>3, <2>4
<1> QED
  BY <1>2, <1>5, <1>6 DEF WriteMarker

\* A marker is cleared for an attempt whose end is known.
LEMMA ClearMarkerStep ==
  ASSUME LegacyIsOld, UnlockInv, NEW t \in Tasks, ClearMarker(t)
  PROVE  UnlockInv'
<1> DEFINE a == task[t].attempt
           p == task[t].profile
           e == task[t].episode
<1>1. UnlockTypeOK /\ TaskFacts(t) /\ task[t].stage = "clear" /\ queue = None /\ t # None
  BY DEF UnlockInv, ClearMarker, LegacyIsOld
<1>2. CASE End(t) /\ UNCHANGED <<marker, queue>>
  BY <1>1, <1>2, EndStep DEF ClearMarker, store
<1>3. CASE NoOther(t) /\ marker' = [marker EXCEPT ![p][e] = None] /\ queue' = t /\ Goto(t, "clean")
  <2>1. task[t].stage \in Holding /\ "clean" \in Holding
    BY <1>1 DEF Holding
  <2>2. /\ task' \in [Tasks -> Running \cup {NoTask}] /\ task'[t] # NoTask /\ task[t] # NoTask
        /\ task'[t].stage = "clean" /\ task'[t].attempt = a /\ task'[t].profile = p
        /\ task'[t].episode = e /\ task'[t].current = task[t].current
        /\ \A u \in Tasks \ {t} : task'[u] = task[u]
        /\ a \in made /\ a \in UnlockAttempt /\ a # None /\ a.profile = p /\ a.episode = e
        /\ p \in Viewers /\ e \in Episodes
    BY <1>3, <2>1, GoneOn
  <2>3. Done(a) /\ journal[p] \in {None, a} /\ marker[p][e] \in {None, a}
    BY <1>1, <1>3 DEF TaskFacts, NoOther, JournalOf, MarkerOf
  <2>4. ASSUME NEW u \in Tasks, u # t, task[u].stage \in Writing PROVE task[u].attempt # a
    BY <1>1, <2>1, <2>4 DEF UnlockInv, WritersAlone
  <2> HIDE DEF a, p, e
  <2>5. session' = session /\ journal' = journal /\ made' = made /\ told' = told
        /\ debits' = debits /\ checks' = checks /\ outcome' = outcome
    BY DEF ClearMarker, server
  <2>6. /\ marker' \in [Viewers -> [Episodes -> UnlockAttempt \cup {None}]] /\ marker'[p][e] = None
        /\ \A q \in Viewers, f \in Episodes : q # p \/ f # e => marker'[q][f] = marker[q][f]
    BY <1>1, <1>3, <2>2 DEF UnlockTypeOK
  <2>7. UnlockTypeOK'
    BY <1>1, <1>3, <2>2, <2>5, <2>6 DEF UnlockTypeOK
  <2>8. \A b : (Unsent(b) <=> Unsent(b)') /\ (Done(b) <=> Done(b)')
    BY <2>5 DEF Unsent, Done, Completed, Own
  <2>9. \A b \in made : Stored(b)' => Stored(b)
    BY <1>1, <2>5, <2>6 DEF Stored, UnlockTypeOK, UnlockAttempt, LegacyIsOld
  <2>10. ASSUME NEW u \in Tasks, u # t PROVE TaskFacts(u)'
    <3>1. TaskFacts(u) /\ task[u].stage \notin {"mark", "clean"}
      BY <1>1, <2>10 DEF UnlockInv, TaskFacts, LegacyIsOld
    <3> QED
      BY <2>2, <2>5, <2>8, <2>9, <2>10, <3>1 DEF TaskFacts, Holding, Writing
  <2>11. TaskFacts(t)'
    BY <1>1, <1>3, <2>2, <2>3, <2>5, <2>8 DEF TaskFacts, Holding, Writing, p
  <2>12. WritersAlone'
    BY <2>1, <2>2 DEF UnlockInv, WritersAlone, Writing, a
  <2>13. StoresAreOwn'
    BY <2>5, <2>6 DEF UnlockInv, StoresAreOwn
  <2>14. RequestsAreOwn'
    BY <2>5 DEF UnlockInv, RequestsAreOwn, Fresh, Completed
  <2>15. Kept'
    <3>1. Unanswered' = Unanswered /\ a \notin Unanswered
      BY <2>2, <2>3, <2>5 DEF Unanswered, Done, Completed, Own
    <3>2. \A b \in Unanswered : b \in UnlockAttempt /\ b # None
      BY <1>1 DEF Unanswered, UnlockTypeOK, LegacyIsOld
    <3>3. \A b \in Unanswered : b.profile # p \/ b.episode # e
      BY <2>3, <3>1, <3>2 DEF UnlockInv, Kept
    <3> QED
      BY <2>5, <2>6, <3>1, <3>2, <3>3 DEF UnlockInv, Kept, UnlockAttempt
  <2> QED
    BY <2>7, <2>10, <2>11, <2>12, <2>13, <2>14, <2>15 DEF UnlockInv
<1> QED
  BY <1>2, <1>3 DEF ClearMarker

\* Then the journal, which had this attempt or none.
LEMMA ClearJournalStep ==
  ASSUME LegacyIsOld, UnlockInv, NEW t \in Tasks, ClearJournal(t)
  PROVE  UnlockInv'
<1> DEFINE a == task[t].attempt
           p == task[t].profile
<1>1. UnlockTypeOK /\ TaskFacts(t) /\ task[t].stage = "clean" /\ queue = t /\ queue' = None /\ End(t)
  BY DEF UnlockInv, ClearJournal, TaskFacts
<1>2. CASE UNCHANGED journal
  BY <1>1, <1>2, EndStep DEF ClearJournal, store
<1>3. CASE journal' = [journal EXCEPT ![p] = None]
  <2>1. Done(a) /\ journal[p] \in {None, a} /\ a \in made /\ a.profile = p
    BY <1>1 DEF TaskFacts, Holding
  <2>2. p \in Viewers
    BY <1>1, <2>1, StagedRuns DEF Running
  <2> HIDE DEF a, p
  <2>3. task'[t] = NoTask /\ \A u \in Tasks \ {t} : task'[u] = task[u]
    BY <1>1 DEF End, UnlockTypeOK
  <2>4. session' = session /\ marker' = marker /\ made' = made /\ told' = told
        /\ debits' = debits /\ checks' = checks /\ outcome' = outcome
    BY DEF ClearJournal, server
  <2>5. journal' \in [Viewers -> UnlockAttempt \cup {None}]
        /\ \A q \in Viewers : journal'[q] = None \/ (q # p /\ journal'[q] = journal[q])
    BY <1>1, <1>3 DEF UnlockTypeOK
  <2>6. UnlockTypeOK'
    BY <1>1, <2>4, <2>5 DEF UnlockTypeOK, End
  <2>7. \A b : (Unsent(b) <=> Unsent(b)') /\ (Done(b) <=> Done(b)')
    BY <2>4 DEF Unsent, Done, Completed, Own
  <2>8. ASSUME NEW b \in made, Stored(b)' PROVE Stored(b)
    <3>1. b \in UnlockAttempt /\ b.profile \in Viewers /\ b # None
      BY <1>1 DEF UnlockTypeOK, UnlockAttempt, LegacyIsOld
    <3>2. journal'[b.profile] = None \/ journal'[b.profile] = journal[b.profile]
      BY <2>5, <3>1
    <3> QED
      BY <2>4, <2>8, <3>1, <3>2 DEF Stored
  <2>9. ASSUME NEW u \in Tasks, u # t PROVE TaskFacts(u)'
    <3>1. TaskFacts(u) /\ task[u].stage \notin {"mark", "clean"}
      BY <1>1, <2>9 DEF UnlockInv, TaskFacts
    <3> QED
      BY <2>3, <2>4, <2>7, <2>8, <2>9, <3>1 DEF TaskFacts, Holding, Writing
  <2>10. TaskFacts(t)'
    BY <2>3 DEF TaskFacts, NoTask, Holding, Writing
  <2>11. WritersAlone'
    BY <2>3 DEF UnlockInv, WritersAlone, NoTask, Writing, Holding
  <2>12. StoresAreOwn'
    BY <2>4, <2>5 DEF UnlockInv, StoresAreOwn
  <2>13. RequestsAreOwn'
    BY <2>4 DEF UnlockInv, RequestsAreOwn, Fresh, Completed
  <2>14. Kept'
    <3>1. Unanswered' = Unanswered /\ a \notin Unanswered
      BY <2>1, <2>4 DEF Unanswered, Done, Completed, Own
    <3>2. \A b \in Unanswered : b \in UnlockAttempt /\ b # None
      BY <1>1 DEF Unanswered, UnlockTypeOK, LegacyIsOld
    <3>3. \A b \in Unanswered \ Legacy : b.profile # p
      BY <2>1, <3>1, <3>2 DEF UnlockInv, Kept
    <3>4. \A b \in Unanswered \ Legacy : journal'[b.profile] = b
      BY <1>1, <1>3, <3>2, <3>3 DEF UnlockInv, Kept, UnlockTypeOK, UnlockAttempt
    <3> QED
      BY <2>4, <3>1, <3>4 DEF UnlockInv, Kept
  <2> QED
    BY <2>6, <2>9, <2>10, <2>11, <2>12, <2>13, <2>14 DEF UnlockInv
<1> QED
  BY <1>2, <1>3 DEF ClearJournal

\* An attempt gets a request id that no attempt had.
LEMMA NewAttempt ==
  ASSUME LegacyIsOld, UnlockInv, NEW t \in Tasks, task[t].stage \notin Holding,
         NEW r \in Fresh, NEW s \in Running, s.stage = "write",
         s.attempt = [profile |-> s.profile, episode |-> s.episode, request |-> r],
         task' = [task EXCEPT ![t] = s],
         t \in Screens /\ s.current => session = s.profile,
         made' = made \cup {s.attempt},
         UNCHANGED <<session, store, queue, told, server>>
  PROVE  UnlockInv'
<1> DEFINE a == s.attempt
           p == s.profile
           e == s.episode
<1>1. UnlockTypeOK
  BY DEF UnlockInv
<1>2. r \in Requests /\ \A b \in made : b.request # r
  BY DEF Fresh
<1>3. a \in UnlockAttempt /\ a.profile = p /\ a.episode = e /\ a.request = r
  BY <1>2 DEF UnlockAttempt, Running
<1>4. s \in Running /\ s # NoTask
  BY DEF Running, NoTask
<1>5. s.stage = "write" /\ s.attempt = a /\ s.profile = p /\ s.episode = e
  OBVIOUS
<1>6. task' = [task EXCEPT ![t] = s] /\ made' = made \cup {a} /\ p \in Viewers /\ e \in Episodes
  BY DEF Running
<1> HIDE DEF a, p, e
<1>7. task'[t] = s /\ \A u \in Tasks \ {t} : task'[u] = task[u]
  BY <1>1, <1>6 DEF UnlockTypeOK
<1>8. session' = session /\ journal' = journal /\ marker' = marker /\ queue' = queue /\ told' = told
      /\ debits' = debits /\ checks' = checks /\ outcome' = outcome
  BY DEF store, server
<1>9. UnlockTypeOK'
  BY <1>1, <1>3, <1>4, <1>6, <1>8 DEF UnlockTypeOK
<1>10. a \notin made /\ Unsent(a) /\ ~Stored(a)
  <2>1. a \notin made /\ a # None
    BY <1>2, <1>3 DEF LegacyIsOld
  <2>2. Unsent(a)
    BY <1>3, <2>1 DEF UnlockInv, RequestsAreOwn, Unsent
  <2>3. ~Stored(a)
    BY <1>3, <1>6, <2>1 DEF UnlockInv, StoresAreOwn, Stored
  <2> QED
    BY <2>1, <2>2, <2>3
<1>11. \A b : /\ Unsent(b)' <=> Unsent(b)
              /\ Stored(b)' <=> Stored(b)
              /\ Done(b)' <=> Done(b)
  BY <1>8 DEF Unsent, Completed, Stored, Done, Own
<1>12. ASSUME NEW u \in Tasks, u # t PROVE TaskFacts(u)'
  <2>1. TaskFacts(u)
    BY DEF UnlockInv
  <2> QED
    BY <1>6, <1>7, <1>8, <1>11, <1>12, <2>1 DEF TaskFacts
<1>13. TaskFacts(t)'
  BY <1>3, <1>4, <1>5, <1>6, <1>7, <1>8, <1>10, <1>11 DEF TaskFacts, Holding, Writing
<1>14. WritersAlone'
  <2>1. ASSUME NEW u \in Tasks, u # t, task[u].stage \in Holding PROVE task[u].attempt # a
    BY <1>10, <2>1 DEF UnlockInv, TaskFacts
  <2> QED
    BY <1>5, <1>7, <2>1 DEF UnlockInv, WritersAlone, Writing, Holding
<1>15. StoresAreOwn'
  BY <1>6, <1>8 DEF UnlockInv, StoresAreOwn
<1>16. RequestsAreOwn'
  <2>1. Fresh' \subseteq Fresh
    BY <1>6 DEF Fresh
  <2> QED
    BY <1>2, <1>3, <1>6, <1>8, <2>1 DEF UnlockInv, RequestsAreOwn, Completed
<1>17. Kept'
  <2>1. Unanswered' \subseteq Unanswered
    BY <1>3, <1>6, <1>8, <1>10 DEF Unanswered, Unsent
  <2> QED
    BY <1>8, <2>1 DEF UnlockInv, Kept
<1> QED
  BY <1>9, <1>12, <1>13, <1>14, <1>15, <1>16, <1>17 DEF UnlockInv

LEMMA SpendStep ==
  ASSUME LegacyIsOld, UnlockInv, NEW t \in Tasks, NEW r \in Requests, Spend(t, r)
  PROVE  UnlockInv'
<1>1. UnlockTypeOK /\ TaskFacts(t) /\ task[t].stage = "show" /\ r \in Fresh
  BY DEF UnlockInv, Spend
<1>2. task[t] \in Running /\ task[t] # NoTask
  BY <1>1, StagedRuns DEF NoTask
<1> DEFINE a == [profile |-> task[t].profile, episode |-> task[t].episode, request |-> r]
           s == [task[t] EXCEPT !.attempt = a, !.stage = "write"]
<1>3. /\ s \in Running /\ s.stage = "write" /\ s.attempt = a /\ s.profile = task[t].profile
      /\ s.episode = task[t].episode /\ s.current = task[t].current
  BY <1>2 DEF Running, UnlockAttempt
<1>4. task' = [task EXCEPT ![t] = s]
  BY <1>1 DEF Spend, UnlockTypeOK
<1>5. made' = made \cup {a} /\ UNCHANGED <<session, store, queue, told, server>>
  BY DEF Spend
<1>6. t \in Screens /\ task[t].current => session = task[t].profile
  BY <1>1, <1>2 DEF TaskFacts
<1>7. s.attempt = [profile |-> s.profile, episode |-> s.episode, request |-> r]
  BY <1>3
<1>8. task[t].stage \notin Holding
  BY <1>1 DEF Holding
<1> HIDE DEF a, s
<1> QED
  BY <1>1, <1>3, <1>4, <1>5, <1>6, <1>7, <1>8, NewAttempt

LEMMA AutoUnlockStep ==
  ASSUME LegacyIsOld, UnlockInv, NEW t \in Tasks, NEW e \in Episodes, NEW r \in Requests, AutoUnlock(t, e, r)
  PROVE  UnlockInv'
<1> DEFINE a == [profile |-> session, episode |-> e, request |-> r]
           s == Started(e, a, "write")
<1>1. session \in Viewers /\ task[t] = NoTask /\ r \in Fresh
  BY DEF LegacyIsOld, AutoUnlock
<1>2. s \in Running /\ s.stage = "write" /\ s.attempt = a /\ s.profile = session /\ s.episode = e
  BY <1>1 DEF Started, Running, UnlockAttempt
<1>3. task' = [task EXCEPT ![t] = s] /\ made' = made \cup {a}
      /\ UNCHANGED <<session, store, queue, told, server>>
  BY DEF AutoUnlock
<1>4. s.attempt = [profile |-> s.profile, episode |-> s.episode, request |-> r]
  BY <1>2
<1>5. task[t].stage \notin Holding
  BY <1>1 DEF NoTask, Holding
<1> HIDE DEF a, s
<1> QED
  BY <1>1, <1>2, <1>3, <1>4, <1>5, NewAttempt

\* A resolution is on its way, of an attempt nobody is writing.
LEMMA CheckStep ==
  ASSUME LegacyIsOld, UnlockInv, NEW t \in Tasks, Check(t)
  PROVE  UnlockInv'
<1> DEFINE a == task[t].attempt
           m == [account |-> session, attempt |-> a]
<1>1. UnlockTypeOK /\ TaskFacts(t) /\ task[t].stage = "pending"
  BY DEF UnlockInv, Check
<1>2. task[t].stage \in Holding /\ "resolve" \in Holding /\ Goto(t, "resolve")
  BY <1>1 DEF Holding, Check
<1>3. /\ task' \in [Tasks -> Running \cup {NoTask}] /\ task'[t] # NoTask /\ task[t] # NoTask
      /\ task'[t].stage = "resolve" /\ task'[t].attempt = a
      /\ task'[t].profile = task[t].profile /\ task'[t].episode = task[t].episode
      /\ task'[t].current = task[t].current
      /\ \A u \in Tasks \ {t} : task'[u] = task[u]
      /\ a \in made /\ a \in UnlockAttempt
      /\ task[t].profile \in Viewers
  BY <1>2, GoneOn
<1>4. session' = session /\ journal' = journal /\ marker' = marker /\ queue' = queue /\ made' = made
      /\ told' = told /\ debits' = debits /\ outcome' = outcome
  BY DEF Check, store
<1>5. checks' \subseteq checks \cup {m}
  BY DEF Check
<1>6. checks' = checks \/ session \in Viewers
  <2>1. CASE session = None
    BY <1>1, <1>3, <2>1 DEF UnlockTypeOK, Check, TaskFacts, LegacyIsOld
  <2> QED
    BY <1>1, <2>1 DEF UnlockTypeOK
<1>7. m.attempt = a /\ (session \in Viewers => m \in Message)
  BY <1>3 DEF Message
<1>8. ASSUME NEW u \in Tasks, task[u].stage \in Writing PROVE task[u].attempt # a /\ u # t
  BY <1>1, <1>2, <1>8 DEF UnlockInv, WritersAlone, Writing
<1> HIDE DEF a, m
<1>9. UnlockTypeOK'
  BY <1>1, <1>3, <1>4, <1>5, <1>6, <1>7 DEF UnlockTypeOK
<1>10. \A b : b # a /\ Unsent(b) => Unsent(b)'
  BY <1>4, <1>5, <1>7 DEF Unsent
<1>11. \A b : (Done(b) <=> Done(b)') /\ (Stored(b) <=> Stored(b)')
  BY <1>4 DEF Done, Completed, Own, Stored
<1>12. ASSUME NEW u \in Tasks, u # t PROVE TaskFacts(u)'
  <2>1. TaskFacts(u)
    BY DEF UnlockInv
  <2> QED
    BY <1>3, <1>4, <1>8, <1>10, <1>11, <1>12, <2>1 DEF TaskFacts
<1>13. TaskFacts(t)'
  BY <1>1, <1>2, <1>3, <1>4 DEF TaskFacts, Writing, Holding, a
<1>14. WritersAlone'
  BY <1>2, <1>3, <1>8 DEF UnlockInv, WritersAlone, Writing, a
<1>15. StoresAreOwn'
  BY <1>4 DEF UnlockInv, StoresAreOwn
<1>16. RequestsAreOwn'
  BY <1>3, <1>4, <1>5, <1>7 DEF UnlockInv, RequestsAreOwn, Fresh, Completed
<1>17. Kept'
  BY <1>4 DEF UnlockInv, Kept, Unanswered
<1> QED
  BY <1>9, <1>12, <1>13, <1>14, <1>15, <1>16, <1>17 DEF UnlockInv

\* An answer that proves the end of the attempt: it will not be charged unheard.
LEMMA ReceiveStep ==
  ASSUME LegacyIsOld, UnlockInv, NEW t \in Tasks, Receive(t)
  PROVE  UnlockInv'
<1> DEFINE a == task[t].attempt
<1>1. UnlockTypeOK /\ TaskFacts(t) /\ task[t].stage \in {"unlock", "resolve"} /\ Proves(t)
  BY DEF UnlockInv, Receive
<1>2. task[t].stage \in Holding /\ "clear" \in Holding /\ Goto(t, "clear")
  BY <1>1 DEF Holding, Receive
<1>3. /\ task' \in [Tasks -> Running \cup {NoTask}] /\ task'[t] # NoTask /\ task[t] # NoTask
      /\ task'[t].stage = "clear" /\ task'[t].attempt = a
      /\ task'[t].profile = task[t].profile /\ task'[t].episode = task[t].episode
      /\ task'[t].current = task[t].current
      /\ \A u \in Tasks \ {t} : task'[u] = task[u]
      /\ a \in made /\ a \in UnlockAttempt /\ a.profile = task[t].profile
      /\ task[t].profile \in Viewers
  BY <1>2, GoneOn
<1>4. session' = session /\ journal' = journal /\ marker' = marker /\ queue' = queue /\ made' = made
      /\ debits' = debits /\ checks' = checks /\ outcome' = outcome
  BY DEF Receive, store, server
<1>5. told \subseteq told' /\ told' \subseteq told \cup {a} /\ (Ended(t, "completed") => a \in told')
  BY DEF Receive
<1>6. Completed(a.profile, a) => a \in told'
  <2>1. CASE Completed(a.profile, a)
    BY <1>3, <1>5, <2>1 DEF Ended, Completed
  <2> QED
    BY <2>1
<1>7. Own(a) \notin debits
  <2>1. SUFFICES ASSUME Own(a) \in debits PROVE FALSE
    OBVIOUS
  <2>2. Own(a).attempt = a /\ Own(a).account = a.profile
    BY DEF Own
  <2>3. /\ outcome[a.profile][a.request] = "open"
        /\ \A q \in Viewers : outcome[q][a.request] # "completed"
    BY <2>1, <2>2 DEF UnlockInv, RequestsAreOwn, Completed
  <2>4. ~Ended(t, "completed")
    BY <2>3 DEF Ended
  <2>5. ~(task[t].stage = "resolve" /\ Ended(t, "cancelled"))
    BY <1>3, <2>3 DEF Ended
  <2>6. OnItsWay(t)
    BY <2>1, <2>2 DEF OnItsWay
  <2> QED
    BY <1>1, <2>4, <2>5, <2>6 DEF Proves
<1> HIDE DEF a
<1>8. UnlockTypeOK'
  BY <1>1, <1>3, <1>4, <1>5 DEF UnlockTypeOK
<1>9. \A b : (Unsent(b) <=> Unsent(b)') /\ (Stored(b) <=> Stored(b)') /\ (Done(b) => Done(b)')
  BY <1>4, <1>5 DEF Unsent, Stored, Done, Completed, Own
<1>10. ASSUME NEW u \in Tasks, u # t PROVE TaskFacts(u)'
  <2>1. TaskFacts(u)
    BY DEF UnlockInv
  <2> QED
    BY <1>3, <1>4, <1>9, <1>10, <2>1 DEF TaskFacts
<1>11. TaskFacts(t)'
  <2>1. \A b : b = a => Done(b)'
    BY <1>4, <1>6, <1>7 DEF Done, Completed, Own
  <2> QED
    BY <1>1, <1>2, <1>3, <1>4, <2>1 DEF TaskFacts, Writing, Holding, a
<1>12. WritersAlone'
  BY <1>2, <1>3 DEF UnlockInv, WritersAlone, Writing, a
<1>13. StoresAreOwn'
  BY <1>4 DEF UnlockInv, StoresAreOwn
<1>14. RequestsAreOwn'
  BY <1>4 DEF UnlockInv, RequestsAreOwn, Fresh, Completed
<1>15. Kept'
  BY <1>4, <1>5 DEF UnlockInv, Kept, Unanswered
<1> QED
  BY <1>8, <1>10, <1>11, <1>12, <1>13, <1>14, <1>15 DEF UnlockInv

\* A step of the server: no attempt becomes unanswered that was not.
LEMMA ServerStep ==
  ASSUME UnlockInv, UnlockTypeOK', UNCHANGED <<session, store, queue, task, made, told>>,
         debits' \subseteq debits, checks' \subseteq checks,
         \A b \in made : Unsent(b) => Unsent(b)',
         \A b \in made : Done(b) => Done(b)',
         RequestsAreOwn', Unanswered' \subseteq Unanswered
  PROVE  UnlockInv'
<1>1. session' = session /\ journal' = journal /\ marker' = marker /\ queue' = queue /\ task' = task
      /\ made' = made /\ told' = told
  BY DEF store
<1>2. ASSUME NEW u \in Tasks PROVE TaskFacts(u)'
  <2>1. TaskFacts(u) /\ \A b : Stored(b)' <=> Stored(b)
    BY <1>1 DEF UnlockInv, Stored
  <2> QED
    BY <1>1, <2>1 DEF TaskFacts, Holding, Writing
<1>3. WritersAlone' /\ StoresAreOwn' /\ Kept'
  BY <1>1 DEF UnlockInv, WritersAlone, StoresAreOwn, Kept
<1> QED
  BY <1>2, <1>3 DEF UnlockInv

\* An end is decided once, and of a debit that is answered no more.
LEMMA DecideStep ==
  ASSUME LegacyIsOld, UnlockInv, NEW m \in debits \cup checks, NEW end \in {"completed", "cancelled"},
         end = "completed" => m \in debits, Decide(m, end)
  PROVE  UnlockInv'
<1> DEFINE q == m.account
           r == m.attempt.request
<1>1. UnlockTypeOK /\ RequestsAreOwn
  BY DEF UnlockInv
<1>2. m \in Message /\ q \in Viewers /\ r \in Requests /\ m.attempt \in made /\ outcome[q][r] = "open"
  BY <1>1 DEF UnlockTypeOK, Message, UnlockAttempt, RequestsAreOwn, Decide
<1>3. UNCHANGED <<session, store, queue, task, made, told>> /\ made' = made /\ told' = told
      /\ debits' = debits \ {m} /\ checks' = checks \ {m}
      /\ outcome' = [outcome EXCEPT ![q][r] = end]
  BY DEF Decide
<1> HIDE DEF q, r
<1>4. outcome' \in [Viewers -> [Requests -> {"open", "completed", "cancelled"}]]
  BY <1>1, <1>2, <1>3 DEF UnlockTypeOK
<1>5. UnlockTypeOK'
  BY <1>1, <1>3, <1>4 DEF UnlockTypeOK, store
<1>6. \A p \in Viewers, i \in Requests :
        outcome'[p][i] = IF p = q /\ i = r THEN end ELSE outcome[p][i]
  BY <1>1, <1>2, <1>3 DEF UnlockTypeOK
<1>7. \A b \in made : b \in UnlockAttempt /\ b.profile \in Viewers /\ b.request \in Requests
                      /\ (b.request = r => b = m.attempt)
  BY <1>1, <1>2 DEF UnlockTypeOK, UnlockAttempt, RequestsAreOwn, r
<1>8. ASSUME NEW b \in made, Unsent(b) PROVE Unsent(b)'
  <2>1. b.request # r
    BY <1>7, <1>8 DEF Unsent
  <2> QED
    BY <1>3, <1>6, <1>7, <1>8, <2>1 DEF Unsent
<1>9. ASSUME NEW b \in made, Completed(b.profile, b)'
      PROVE  Completed(b.profile, b) \/ (Own(b) = m /\ m \in debits)
  <2>1. CASE b.profile = q /\ b.request = r
    <3>1. end = "completed" /\ b = m.attempt
      BY <1>6, <1>7, <1>9, <2>1 DEF Completed
    <3>2. Own(b) = m
      BY <1>2, <2>1, <3>1 DEF Own, Message, q
    <3> QED
      BY <3>1, <3>2
  <2>2. CASE ~(b.profile = q /\ b.request = r)
    BY <1>6, <1>7, <1>9, <2>2 DEF Completed
  <2> QED
    BY <2>1, <2>2
<1>10. \A b \in made : Done(b) => Done(b)'
  BY <1>3, <1>9 DEF Done, Own
<1>11. Unanswered' \subseteq Unanswered
  BY <1>3, <1>9 DEF Unanswered, Completed, Own
<1>12. RequestsAreOwn'
  <2>1. ASSUME NEW n \in debits'
        PROVE  /\ outcome'[n.account][n.attempt.request] = "open"
               /\ \A p \in Viewers : ~Completed(p, n.attempt)'
    <3>1. n \in debits /\ n # m /\ n \in Message /\ n.attempt \in made /\ n.account \in Viewers
      BY <1>1, <1>3, <2>1 DEF UnlockTypeOK, RequestsAreOwn, Message
    <3>2. outcome[n.account][n.attempt.request] = "open" /\ \A p \in Viewers : ~Completed(p, n.attempt)
      BY <1>1, <3>1 DEF RequestsAreOwn
    <3>3. CASE n.attempt.request # r
      BY <1>6, <1>7, <3>1, <3>2, <3>3 DEF Completed
    <3>4. CASE n.attempt.request = r
      <4>1. n.attempt = m.attempt
        BY <1>7, <3>1, <3>4
      <4>2. n.account # q
        BY <1>2, <3>1, <4>1 DEF Message, q
      <4>3. end = "cancelled"
        BY <1>1, <3>1, <4>1 DEF RequestsAreOwn
      <4> QED
        BY <1>6, <1>7, <3>1, <3>2, <4>2, <4>3 DEF Completed
    <3> QED
      BY <3>3, <3>4
  <2>2. \A p \in Viewers, i \in Fresh' : outcome'[p][i] = "open"
    <3>1. Fresh' = Fresh /\ r \notin Fresh
      BY <1>2, <1>3 DEF Fresh, r
    <3> QED
      BY <1>1, <1>6, <3>1 DEF RequestsAreOwn, Fresh
  <2> QED
    BY <1>1, <1>3, <2>1, <2>2 DEF RequestsAreOwn
<1> QED
  BY <1>3, <1>5, <1>8, <1>10, <1>11, <1>12, ServerStep

LEMMA RefuseStep ==
  ASSUME LegacyIsOld, UnlockInv, NEW m \in debits \cup checks, RefuseUnlock(m)
  PROVE  UnlockInv'
<1>1. UnlockTypeOK /\ RequestsAreOwn
  BY DEF UnlockInv
<1>2. /\ session' = session /\ journal' = journal /\ marker' = marker /\ queue' = queue /\ task' = task
      /\ made' = made /\ told' = told /\ checks' = checks /\ outcome' = outcome
      /\ debits' = debits \ {m} /\ UNCHANGED <<session, store, queue, task, made, told>>
  BY DEF RefuseUnlock, store
<1>3. UnlockTypeOK'
  BY <1>1, <1>2 DEF UnlockTypeOK
<1>4. \A b : (Unsent(b) => Unsent(b)') /\ (Done(b) => Done(b)')
  BY <1>2 DEF Unsent, Done, Completed, Own
<1>5. RequestsAreOwn'
  BY <1>1, <1>2 DEF RequestsAreOwn, Fresh, Completed
<1>6. Unanswered' \subseteq Unanswered
  BY <1>2 DEF Unanswered
<1> QED
  BY <1>2, <1>3, <1>4, <1>5, <1>6, ServerStep

-----------------------------------------------------------------------------
(* The invariant, and what it gives. *)

\* Every step of the phone and of the server keeps the invariant.
LEMMA UnlockNextKeeps ==
  ASSUME LegacyIsOld, UnlockInv, [UnlockNext]_unlockVars
  PROVE  UnlockInv'
<1>1. ASSUME NEW t \in Tasks,
             \/ Read(t) \/ WriteJournal(t) \/ WriteMarker(t) \/ ClearMarker(t) \/ ClearJournal(t)
             \/ Check(t) \/ Unanswers(t) \/ Receive(t) \/ Leave(t)
             \/ \E e \in Episodes : OpenScreen(t, e)
             \/ \E r \in Requests : Spend(t, r)
             \/ \E e \in Episodes, r \in Requests : AutoUnlock(t, e, r)
      PROVE  UnlockInv'
  BY <1>1, ReadStep, WriteJournalStep, WriteMarkerStep, ClearMarkerStep, ClearJournalStep,
     CheckStep, UnanswersStep, ReceiveStep, LeaveStep, UnlockOpenScreenStep, SpendStep, AutoUnlockStep
<1>2. ASSUME NEW p \in Viewers, ViewerSignsIn(p) PROVE UnlockInv'
  BY <1>2, UnlockSignInStep
<1>3. CASE ViewerSignsOut
  BY <1>3, UnlockSignOutStep
<1>4. CASE AppDies
  BY <1>4, UnlockDieStep
<1>5. ASSUME NEW m \in debits \cup checks, ServeUnlock(m) \/ RefuseUnlock(m) \/ ServeResolve(m)
      PROVE  UnlockInv'
  BY <1>5, DecideStep, RefuseStep DEF ServeUnlock, ServeResolve
<1>6. CASE UNCHANGED unlockVars
  <2>1. UNCHANGED <<session, store, queue, task, made, told>> /\ debits' = debits /\ checks' = checks
        /\ outcome' = outcome /\ made' = made /\ told' = told
    BY <1>6 DEF unlockVars, server
  <2>2. UnlockTypeOK'
    BY <2>1 DEF UnlockInv, UnlockTypeOK, store
  <2>3. RequestsAreOwn' /\ Unanswered' = Unanswered
    BY <2>1 DEF UnlockInv, RequestsAreOwn, Fresh, Completed, Unanswered
  <2>4. \A b : (Unsent(b) => Unsent(b)') /\ (Done(b) => Done(b)')
    BY <2>1 DEF Unsent, Done, Completed, Own
  <2> QED
    BY <2>1, <2>2, <2>3, <2>4, ServerStep
<1> QED
  BY <1>1, <1>2, <1>3, <1>4, <1>5, <1>6 DEF UnlockNext

LEMMA UnlockInvariance ==
  ASSUME LegacyIsOld
  PROVE  UnlockSpec => []UnlockInv
<1>1. UnlockInit => UnlockInv
  BY UnlockInitially
<1>2. UnlockInv /\ [UnlockNext]_unlockVars => UnlockInv'
  BY UnlockNextKeeps
<1> QED
  BY <1>1, <1>2, PTL DEF UnlockSpec

\* The values of the phone's records, tasks and messages, for every size of the model.
THEOREM UnlockTypeCorrect ==
  ASSUME LegacyIsOld
  PROVE  UnlockSpec => []UnlockTypeOK
<1>1. UnlockInv => UnlockTypeOK
  BY DEF UnlockInv
<1> QED
  BY <1>1, UnlockInvariance, PTL

\* An unlock that may still be charged, or was charged unheard, stays in the phone's
\* records, where its screen can read it (pendingCoinUnlock.ts:55).
THEOREM UnlocksAreRecoverable ==
  ASSUME LegacyIsOld
  PROVE  UnlockSpec => []UnansweredIsRecoverable
<1>1. UnlockInv => UnansweredIsRecoverable
  BY DEF UnlockInv, Kept, UnansweredIsRecoverable, Stored
<1> QED
  BY <1>1, UnlockInvariance, PTL

\* An account has one such unlock at a time, beside those of the release before
\* (pendingCoinUnlock.ts:158).
THEOREM OneUnlock ==
  ASSUME LegacyIsOld
  PROVE  UnlockSpec => []OneUnanswered
<1>1. UnlockInv => OneUnanswered
  BY DEF UnlockInv, Kept, OneUnanswered
<1> QED
  BY <1>1, UnlockInvariance, PTL

=============================================================================
