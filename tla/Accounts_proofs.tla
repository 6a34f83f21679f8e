--------------------------- MODULE Accounts_proofs ---------------------------
(***************************************************************************)
(* What Accounts promises, for any users, guests, requests and operators:  *)
(* a deleted account stays deleted, progress that is completed stays       *)
(* completed, and a report that loses the race to insert finds the winner. *)
(***************************************************************************)
EXTENDS Accounts, FiniteSetTheorems, FunctionTheorems, SequenceTheorems, TLAPS

Running == Calls \cup Workers
Call == {Idle} \cup Patch \cup Put \cup Deletion \cup Expiry

\* A row has one owner at a time.
Apart == \A c \in Running : \A o \in Others(c) : call[c].held \cap call[o].held = {}

\* A report that will be saved knows the row that it locked.
SavesItsRow(x) ==
  x.stage = "save" =>
    /\ x.key \in x.held
    /\ Exists(x.key)
    /\ rows[x.key].completed => x.finished

\* A report that was inserted is alone with its key.
InsertsNewRow(x) ==
  x.stage = "insert" => x.key \in x.held /\ ~Exists(x.key)

\* A row that a report did not find at first is newer than the report: it is not
\* expired, and only a deletion takes it away.
LosesToNewRow(x) ==
  /\ x.stage \in {"create", "get"} /\ Exists(x.key) => ~rows[x.key].old
  /\ x.stage = "get" => Exists(x.key) \/ x.key[1] \in Deleted

\* A deletion holds rows of its user, and what is deleted at the provider was recorded.
DeletesRecorded(x) ==
  /\ x.stage \in {"request", "delete"} => x.left = <<>>
  /\ x.stage = "delete" => \A k \in x.held : k[1] = x.uid
  /\ x.stage \in {"process", "provider", "complete"} =>
       x.uid \in Deleted /\ x.left \in Seq(Deleted)

Facts(x) == SavesItsRow(x) /\ InsertsNewRow(x) /\ LosesToNewRow(x) /\ DeletesRecorded(x)

IInv ==
  /\ TypeOK
  /\ Apart
  /\ \A c \in Running : Facts(call[c])
  /\ DeletedStaysDeleted

-----------------------------------------------------------------------------
(* Calls by their stage. *)

\* A stage belongs to one kind of call.
LEMMA StagesOfKinds ==
  ASSUME NEW x \in Call
  PROVE  /\ x.held \in SUBSET Key
         /\ x.stage = "patch" => x \in Patch
         /\ x.stage \in {"look up", "create", "get", "save", "insert"} => x \in Put
         /\ x.stage \in {"request", "delete", "process", "provider", "complete"} => x \in Deletion
         /\ x.stage = "expire" => x \in Expiry
<1>1. CASE x = Idle
  BY <1>1 DEF Idle
<1>2. CASE x \in Patch
  BY <1>2 DEF Patch
<1>3. CASE x \in Put
  BY <1>3 DEF Put
<1>4. CASE x \in Deletion
  BY <1>4 DEF Deletion
<1>5. CASE x \in Expiry
  BY <1>5 DEF Expiry
<1> QED
  BY <1>1, <1>2, <1>3, <1>4, <1>5 DEF Call

LEMMA IdleFacts == Idle \in Call /\ Facts(Idle) /\ Idle.held = {}
BY DEF Call, Idle, Facts, SavesItsRow, InsertsNewRow, LosesToNewRow, DeletesRecorded

\* The deletions are finitely many.
LEMMA DeletedFinite ==
  ASSUME TypeOK
  PROVE  Deleted \in SUBSET Uids /\ IsFiniteSet(Deleted)
<1>1. requested \in [1 .. Len(requested) -> Uids] /\ Len(requested) \in Nat
  BY DEF TypeOK
<1>2. requested \in Surjection(1 .. Len(requested), Deleted)
  BY <1>1 DEF Surjection, Deleted, ToSet
<1>3. IsFiniteSet(1 .. Len(requested))
  BY <1>1, FS_Interval
<1>4. IsFiniteSet(Deleted)
  BY <1>2, <1>3, FS_Surjection DEF ExistsSurjection
<1> QED
  BY <1>1, <1>4 DEF Deleted, ToSet

\* Only a user that the provider has is verified.
LEMMA VerifiedIsUser ==
  ASSUME NEW h \in Headers, NEW u, Verifies(h, u)
  PROVE  u \in firebase
<1>1. h.scheme = "bearer" /\ Server.mode = "admin" /\ Server.app = "ready"
      /\ Server.users = firebase
  BY DEF Verifies, VerifyFirebaseToken, Failed, Server
<1>2. AdminVerifies(h, Server).failure = "none" /\ AdminVerifies(h, Server).uid = u
  BY <1>1 DEF Verifies, VerifyFirebaseToken, Failed
<1>3. h.says \in {"valid"} \cup DOMAIN FailureOf
  BY <1>1, AccountsAssumption
<1>4. AdminSays(h, Server) \in {"valid"} \cup DOMAIN FailureOf
  BY <1>3 DEF AdminSays, FailureOf
<1>5. \A s \in DOMAIN FailureOf : Failed(FailureOf[s]).failure # "none"
  BY DEF FailureOf, Failed
<1>6. AdminSays(h, Server) = "valid"
  BY <1>1, <1>2, <1>4, <1>5 DEF AdminVerifies
<1>7. h.uid \in firebase
  BY <1>1, <1>6 DEF AdminSays
<1> QED
  BY <1>1, <1>2, <1>6, <1>7 DEF AdminVerifies, Failed, Verified

LEMMA SignInKeeps ==
  ASSUME IInv, NEW u, SignIn(u)
  PROVE  profile' \in SUBSET (Uids \ Deleted)
BY VerifiedIsUser DEF SignIn, IInv, TypeOK, DeletedStaysDeleted

-----------------------------------------------------------------------------
(* Steps. *)

\* A step of one call that writes no row keeps the invariant when what the call
\* becomes agrees with the rows and holds none that another holds.
LEMMA CallStep ==
  ASSUME IInv, NEW c \in Running, NEW x \in Call, Facts(x),
         \A o \in Others(c) : x.held \cap call[o].held = {},
         call' = [call EXCEPT ![c] = x],
         firebase' \in SUBSET Uids, profile' \in SUBSET (Uids \ Deleted),
         completed' \in SUBSET Deleted,
         UNCHANGED <<requested, rows>>
  PROVE  IInv'
<1>1. call'[c] = x /\ \A o \in Others(c) : call'[o] = call[o]
  BY DEF IInv, TypeOK, Running, Others
<1>2. TypeOK'
  BY DEF IInv, TypeOK, Deleted, Running, Call
<1>3. Apart'
  BY <1>1 DEF IInv, Apart, Others, Running
<1>4. \A o \in Running : Facts(call[o])'
  <2> SUFFICES ASSUME NEW o \in Running PROVE Facts(call[o])'
    OBVIOUS
  <2>1. Facts(call'[o])
    BY <1>1 DEF IInv, Others, Running
  <2> QED
    BY <2>1 DEF Facts, SavesItsRow, InsertsNewRow, LosesToNewRow, DeletesRecorded, Exists, Deleted
<1>5. DeletedStaysDeleted'
  BY DEF IInv, DeletedStaysDeleted, Exists, Deleted
<1> QED
  BY <1>2, <1>3, <1>4, <1>5 DEF IInv

LEMMA EndStep ==
  ASSUME IInv, NEW c \in Running, End(c),
         UNCHANGED <<firebase, profile, requested, completed, rows>>
  PROVE  IInv'
<1>1. profile \in SUBSET (Uids \ Deleted) /\ firebase \in SUBSET Uids /\ completed \in SUBSET Deleted
  BY DEF IInv, TypeOK, DeletedStaysDeleted
<1> QED
  BY <1>1, IdleFacts, CallStep DEF End

\* A step of a call that writes the rows it holds and lets them go keeps the invariant
\* when what it leaves behind is right: nobody else knew anything about them, except
\* reports that lost to one and look for it.
LEMMA RowStep ==
  ASSUME IInv, NEW c \in Running, NEW x \in Call, Facts(x)', x.held = {},
         call' = [call EXCEPT ![c] = x],
         profile' \in SUBSET Uids, completed' \in SUBSET Deleted', firebase' = firebase,
         requested' \in Seq(Uids), IsInjective(requested)', Deleted \in SUBSET Deleted',
         rows' \in [Key -> Row \cup {NoRow}],
         \A k \in Key : rows'[k] # rows[k] => k \in call[c].held,
         \A k \in Key : rows'[k] # rows[k] /\ rows'[k] # NoRow => ~rows'[k].old,
         \A k \in Key : Exists(k) /\ rows'[k] = NoRow =>
           k[1] \in Deleted' \/ \A o \in Others(c) :
             call[o].stage = "get" => call[o].key # k,
         DeletedStaysDeleted'
  PROVE  IInv'
<1>1. call'[c] = x /\ \A o \in Others(c) : call'[o] = call[o] /\ call[o] \in Call
  BY DEF IInv, TypeOK, Running, Call, Others
<1>2. TypeOK'
  BY DEF IInv, TypeOK, Running, Call
<1>3. Apart'
  BY <1>1 DEF IInv, Apart, Others, Running
<1>4. ASSUME NEW o \in Others(c)
      PROVE  Facts(call[o])'
  <2>1. call'[o] = call[o] /\ call[o] \in Call /\ Facts(call[o]) /\ o \in Running
    BY <1>1 DEF IInv, Others, Running
  <2> DEFINE k == call[o].key
  <2>2. call[o].stage \in {"save", "insert", "create", "get"} => k \in Key
    BY <2>1, StagesOfKinds DEF Put
  <2>3. call[o].stage \in {"save", "insert"} => rows'[k] = rows[k]
    <3>1. call[o].held \cap call[c].held = {}
      BY DEF IInv, Apart, Others, Running
    <3> QED
      BY <2>1, <2>2, <3>1 DEF Facts, SavesItsRow, InsertsNewRow
  <2>4. SavesItsRow(call[o])' /\ InsertsNewRow(call[o])'
    BY <1>1, <2>1, <2>3 DEF Facts, SavesItsRow, InsertsNewRow, Exists
  <2>5. DeletesRecorded(call[o])'
    <3>1. Seq(Deleted) \subseteq Seq(Deleted')
      BY SeqMonotonic
    <3> QED
      BY <1>1, <2>1, <3>1 DEF Facts, DeletesRecorded
  <2>6. LosesToNewRow(call[o])'
    <3>1. call[o].stage \in {"create", "get"} /\ rows'[k] # NoRow => ~rows'[k].old
      BY <2>1, <2>2 DEF Facts, LosesToNewRow, Exists
    <3>2. call[o].stage = "get" => rows'[k] # NoRow \/ k[1] \in Deleted'
      BY <2>1, <2>2 DEF Facts, LosesToNewRow, Exists
    <3> QED
      BY <1>1, <2>1, <3>1, <3>2 DEF LosesToNewRow, Exists
  <2> QED
    BY <1>1, <2>1, <2>4, <2>5, <2>6 DEF Facts
<1>5. \A o \in Running : Facts(call[o])'
  <2> SUFFICES ASSUME NEW o \in Running PROVE Facts(call[o])'
    OBVIOUS
  <2>1. CASE o = c
    <3>1. \A y : y = x => Facts(y)'
      OBVIOUS
    <3> QED
      BY <1>1, <2>1, <3>1 DEF Facts, SavesItsRow, InsertsNewRow, LosesToNewRow, DeletesRecorded, Exists
  <2>2. CASE o # c
    BY <1>4, <2>2 DEF Others, Running
  <2> QED
    BY <2>1, <2>2
<1> QED
  BY <1>2, <1>3, <1>5 DEF IInv

-----------------------------------------------------------------------------
(* The initial state. *)

\* The deletions that are pending from the start are listed once each.
LEMMA EarlierListed ==
  LET list == SetToSeq(Earlier) IN
  /\ list \in Seq(Earlier) /\ IsInjective(list)
<1>1. IsFiniteSet(Earlier)
  BY AccountsAssumption
<1>2. PICK list \in Bijection(1 .. Cardinality(Earlier), Earlier) : TRUE
  BY <1>1, FS_CardinalityType DEF ExistsBijection
<1>3. list \in [1 .. Cardinality(Earlier) -> Earlier] /\ IsInjective(list)
  BY <1>2 DEF Bijection, Injection
<1>4. SetToSeq(Earlier) \in [1 .. Cardinality(Earlier) -> Earlier] /\ IsInjective(SetToSeq(Earlier))
  BY <1>3 DEF SetToSeq
<1>5. Cardinality(Earlier) \in Nat
  BY <1>1, FS_CardinalityType
<1> QED
  BY <1>4, <1>5, SeqDef

LEMMA Initially == Init => IInv
<1> SUFFICES ASSUME Init PROVE IInv
  OBVIOUS
<1>1. TypeOK
  <2>1. requested \in Seq(Earlier) /\ IsInjective(requested)
    BY EarlierListed DEF Init
  <2>2. Seq(Earlier) \subseteq Seq(Uids)
    BY AccountsAssumption, SeqMonotonic
  <2> QED
    BY <2>1, <2>2, IdleFacts DEF Init, TypeOK, Call
<1>2. \A c \in Running : call[c] = Idle
  BY DEF Init, Running
<1>3. Apart
  BY <1>2 DEF Apart, Others, Running, Idle
<1>4. \A c \in Running : Facts(call[c])
  BY <1>2, IdleFacts
<1>5. DeletedStaysDeleted
  BY DEF Init, DeletedStaysDeleted, Exists
<1> QED
  BY <1>1, <1>3, <1>4, <1>5 DEF IInv

-----------------------------------------------------------------------------
(* What stays as it is. *)

LEMMA Quiet ==
  ASSUME IInv, UNCHANGED <<firebase, profile, completed>>
  PROVE  /\ firebase' \in SUBSET Uids
         /\ profile' \in SUBSET (Uids \ Deleted)
         /\ completed' \in SUBSET Deleted
BY DEF IInv, TypeOK, DeletedStaysDeleted

\* What a running call holds and knows.
LEMMA CallKnows ==
  ASSUME IInv, NEW c \in Running
  PROVE  /\ call[c] \in Call
         /\ Facts(call[c])
         /\ \A o \in Others(c) : call[c].held \cap call[o].held = {}
BY DEF IInv, TypeOK, Running, Call, Apart

\* A command goes on with a receipt that was recorded.
LEMMA ContinueStep ==
  ASSUME IInv, NEW c \in Running, call[c].stage \in {"process", "provider", "complete"},
         Continue(c), firebase' \in SUBSET Uids,
         profile' = profile, completed' \in SUBSET Deleted, UNCHANGED <<requested, rows>>
  PROVE  IInv'
<1>1. call[c] \in Deletion /\ Facts(call[c])
  BY CallKnows, StagesOfKinds
<1>2. PICK left : left = call[c].left
  OBVIOUS
<1>3. left \in Seq(Deleted) /\ left \in Seq(Uids)
  BY <1>1, <1>2 DEF Facts, DeletesRecorded, Deletion
<1>4. profile' \in SUBSET (Uids \ Deleted)
  BY DEF IInv, TypeOK, DeletedStaysDeleted
<1>5. CASE left = <<>>
  BY <1>2, <1>4, <1>5, IdleFacts, CallStep DEF Continue, End
<1>6. CASE left # <<>>
  <2>1. PICK x : x = [call[c] EXCEPT !.stage = "process", !.uid = Head(left), !.left = Tail(left)]
    OBVIOUS
  <2>2. /\ Head(left) \in Deleted /\ Tail(left) \in Seq(Deleted)
        /\ Head(left) \in Uids /\ Tail(left) \in Seq(Uids)
    BY <1>3, <1>6, HeadTailProperties
  <2>3. x.stage = "process" /\ x.held = call[c].held /\ x.uid = Head(left) /\ x.left = Tail(left)
    BY <1>1, <2>1 DEF Deletion
  <2>4. x \in Call
    BY <1>1, <2>1, <2>2 DEF Call, Deletion
  <2>5. Facts(x)
    BY <2>2, <2>3 DEF Facts, SavesItsRow, InsertsNewRow, LosesToNewRow, DeletesRecorded
  <2>6. call' = [call EXCEPT ![c] = x]
    BY <1>2, <1>6, <2>1 DEF Continue, IInv, TypeOK, Running
  <2> QED
    BY <1>4, <2>3, <2>4, <2>5, <2>6, CallKnows, CallStep
<1> QED
  BY <1>5, <1>6

-----------------------------------------------------------------------------
(* Patches and reports. *)

LEMMA StartPatchKeeps ==
  ASSUME IInv, NEW c \in Running, NEW u \in Uids, StartPatch(c, u)
  PROVE  IInv'
<1>1. PICK x : x = [stage |-> "patch", held |-> {}, uid |-> u]
  OBVIOUS
<1>2. x \in Call /\ x.held = {} /\ x.stage = "patch"
  BY <1>1 DEF Call, Patch
<1>3. Facts(x)
  BY <1>2 DEF Facts, SavesItsRow, InsertsNewRow, LosesToNewRow, DeletesRecorded
<1>4. firebase' \in SUBSET Uids /\ completed' \in SUBSET Deleted
  BY DEF StartPatch, IInv, TypeOK
<1> QED
  BY <1>1, <1>2, <1>3, <1>4, SignInKeeps, CallStep DEF StartPatch

LEMMA ClampedInside ==
  ASSUME NEW report \in Int
  PROVE  Clamped(report) \in 0 .. Duration
BY AccountsAssumption DEF Clamped

LEMMA StartPutKeeps ==
  ASSUME IInv, NEW c \in Running, NEW s \in Active, NEW e \in Episodes, NEW r \in Reports,
         StartPut(c, s, e, r)
  PROVE  IInv'
<1>1. PICK x : x = [stage |-> "look up", held |-> {}, key |-> <<s, e>>,
                    position |-> Clamped(r[1]),
                    finished |-> ResolveCompleted(Clamped(r[1]), r[2])]
  OBVIOUS
<1>2. r[1] \in Int /\ r[2] \in BOOLEAN
  BY AccountsAssumption
<1>3. ResolveCompleted(Clamped(r[1]), r[2]) \in BOOLEAN
  BY <1>2 DEF ResolveCompleted
<1>4. x \in Put /\ x.held = {} /\ x.stage = "look up"
  BY <1>1, <1>2, <1>3, ClampedInside DEF Put, Key
<1>5. Facts(x)
  BY <1>4 DEF Facts, SavesItsRow, InsertsNewRow, LosesToNewRow, DeletesRecorded
<1>6. firebase' \in SUBSET Uids /\ completed' \in SUBSET Deleted
  BY DEF StartPut, IInv, TypeOK
<1>7. profile' \in SUBSET (Uids \ Deleted)
  BY SignInKeeps DEF StartPut, IInv, TypeOK, DeletedStaysDeleted
<1>8. x \in Call
  BY <1>4 DEF Call
<1> QED
  BY <1>1, <1>4, <1>5, <1>6, <1>7, <1>8, CallStep DEF StartPut

\* A row that is found is locked as it is.
LEMMA LockRowKeeps ==
  ASSUME IInv, NEW c \in Running, call[c].stage \in {"look up", "get"},
         Exists(call[c].key), LockRow(c),
         UNCHANGED <<firebase, profile, requested, completed, rows>>
  PROVE  IInv'
<1>1. call[c] \in Put
  BY CallKnows, StagesOfKinds
<1>2. PICK k : k = call[c].key
  OBVIOUS
<1>3. k \in Key /\ rows[k] \in Row
  BY <1>1, <1>2 DEF Put, IInv, TypeOK, Exists
<1>4. PICK x : x = [call[c] EXCEPT !.stage = "save", !.held = {k},
                                   !.finished = @ \/ rows[k].completed]
  OBVIOUS
<1>5. /\ x.stage = "save" /\ x.key = k /\ x.held = {k}
      /\ x.finished = (call[c].finished \/ rows[k].completed)
  BY <1>1, <1>2, <1>4 DEF Put
<1>6. x \in Put
  <2>1. (call[c].finished \/ rows[k].completed) \in BOOLEAN /\ {k} \in SUBSET Key
    BY <1>1, <1>3 DEF Put, Row
  <2> QED
    BY <1>1, <1>4, <2>1 DEF Put
<1>7. Facts(x)
  BY <1>2, <1>3, <1>5 DEF Facts, SavesItsRow, InsertsNewRow, LosesToNewRow, DeletesRecorded, Row
<1>8. \A o \in Others(c) : x.held \cap call[o].held = {}
  BY <1>2, <1>5 DEF LockRow, Unlocked
<1>9. call' = [call EXCEPT ![c] = x]
  BY <1>2, <1>4 DEF LockRow, IInv, TypeOK, Running
<1>10. x \in Call
  BY <1>6 DEF Call
<1> QED
  BY <1>7, <1>8, <1>9, <1>10, Quiet, CallStep

\* A report that has to insert, or to look again, changes its stage.
LEMMA StageKeeps ==
  ASSUME IInv, NEW c \in Running, NEW stage \in {"create", "get", "insert"},
         NEW held \in SUBSET Key,
         call[c] \in Put,
         call' = [call EXCEPT ![c].stage = stage, ![c].held = held],
         \A o \in Others(c) : held \cap call[o].held = {},
         stage = "insert" => call[c].key \in held /\ ~Exists(call[c].key),
         Exists(call[c].key) => ~rows[call[c].key].old,
         stage = "get" => Exists(call[c].key),
         UNCHANGED <<firebase, profile, requested, completed, rows>>
  PROVE  IInv'
<1>1. PICK x : x = [call[c] EXCEPT !.stage = stage, !.held = held]
  OBVIOUS
<1>2. x.stage = stage /\ x.key = call[c].key /\ x.held = held
  BY <1>1 DEF Put
<1>3. x \in Call
  BY <1>1 DEF Call, Put
<1>4. Facts(x)
  BY <1>2 DEF Facts, SavesItsRow, InsertsNewRow, LosesToNewRow, DeletesRecorded
<1>5. call' = [call EXCEPT ![c] = x]
  BY <1>1 DEF IInv, TypeOK, Running
<1> QED
  BY <1>2, <1>3, <1>4, <1>5, Quiet, CallStep

LEMMA LookUpKeeps ==
  ASSUME IInv, NEW c \in Running, LookUp(c)
  PROVE  IInv'
<1>1. call[c] \in Put
  BY CallKnows, StagesOfKinds DEF LookUp
<1>2. CASE Exists(call[c].key)
  BY <1>2, LockRowKeeps DEF LookUp
<1>3. CASE ~Exists(call[c].key)
  <2>1. PICK held : held = call[c].held
    OBVIOUS
  <2>2. call' = [call EXCEPT ![c].stage = "create", ![c].held = held]
    <3>1. [call[c] EXCEPT !.stage = "create"] = [call[c] EXCEPT !.stage = "create", !.held = held]
      BY <1>1, <2>1 DEF Put
    <3> QED
      BY <1>3, <3>1 DEF LookUp, IInv, TypeOK, Running
  <2>3. held \in SUBSET Key /\ \A o \in Others(c) : held \cap call[o].held = {}
    BY <1>1, <2>1, CallKnows DEF Put
  <2> QED
    BY <1>1, <1>3, <2>2, <2>3, StageKeeps DEF LookUp
<1> QED
  BY <1>2, <1>3

LEMMA CreateKeeps ==
  ASSUME IInv, NEW c \in Running, Create(c)
  PROVE  IInv'
<1>1. call[c] \in Put /\ Facts(call[c])
  BY CallKnows, StagesOfKinds DEF Create
<1>2. Exists(call[c].key) => ~rows[call[c].key].old
  BY <1>1 DEF Create, Facts, LosesToNewRow
<1>3. CASE Exists(call[c].key)
  <2>1. PICK held : held = call[c].held
    OBVIOUS
  <2>2. call' = [call EXCEPT ![c].stage = "get", ![c].held = held]
    <3>1. [call[c] EXCEPT !.stage = "get"] = [call[c] EXCEPT !.stage = "get", !.held = held]
      BY <1>1, <2>1 DEF Put
    <3> QED
      BY <1>3, <3>1 DEF Create, IInv, TypeOK, Running
  <2>3. held \in SUBSET Key /\ \A o \in Others(c) : held \cap call[o].held = {}
    BY <1>1, <2>1, CallKnows DEF Put
  <2> QED
    BY <1>1, <1>2, <1>3, <2>2, <2>3, StageKeeps DEF Create
<1>4. CASE ~Exists(call[c].key)
  <2>1. PICK held : held = {call[c].key}
    OBVIOUS
  <2>2. held \in SUBSET Key /\ \A o \in Others(c) : held \cap call[o].held = {}
    BY <1>1, <2>1 DEF Put, Create, Unlocked
  <2> QED
    BY <1>1, <1>4, <2>1, <2>2, StageKeeps DEF Create
<1> QED
  BY <1>3, <1>4

LEMMA GetKeeps ==
  ASSUME IInv, NEW c \in Running, Get(c)
  PROVE  IInv'
<1>1. CASE Exists(call[c].key)
  BY <1>1, LockRowKeeps DEF Get
<1>2. CASE ~Exists(call[c].key)
  BY <1>2, EndStep DEF Get
<1> QED
  BY <1>1, <1>2

\* A report is saved to the row it holds, and never for a deleted account.
LEMMA SaveKeeps ==
  ASSUME IInv, NEW c \in Running, Save(c)
  PROVE  IInv'
<1>1. call[c] \in Put /\ Facts(call[c])
  BY CallKnows, StagesOfKinds DEF Save
<1>2. PICK k : k = call[c].key
  OBVIOUS
<1>3. PICK row : row = [position |-> call[c].position, completed |-> call[c].finished, old |-> FALSE]
  OBVIOUS
<1>4. k \in Key /\ k \in call[c].held /\ row \in Row /\ ~row.old
  BY <1>1, <1>2, <1>3 DEF Save, Put, Row, Facts, SavesItsRow, InsertsNewRow
<1>5. rows' = [rows EXCEPT ![k] = row] /\ rows \in [Key -> Row \cup {NoRow}]
  BY <1>2, <1>3 DEF Save, IInv, TypeOK
<1>6. row # NoRow
  BY <1>4 DEF Row, NoRow
<1>7. k[1] \notin Deleted
  <2>1. CASE call[c].stage = "save"
    BY <1>1, <1>2, <1>4, <2>1 DEF Facts, SavesItsRow, IInv, DeletedStaysDeleted
  <2>2. CASE call[c].stage = "insert" /\ Commits(c)
    BY <1>2, <2>2 DEF Commits, IInv, TypeOK, DeletedStaysDeleted, Deleted, ToSet
  <2> QED
    BY <2>1, <2>2 DEF Save
<1>8. DeletedStaysDeleted'
  BY <1>5, <1>7 DEF Save, IInv, DeletedStaysDeleted, Deleted, Exists
<1>9. Facts(Idle)'
  BY DEF Facts, SavesItsRow, InsertsNewRow, LosesToNewRow, DeletesRecorded, Idle
<1>10. /\ profile' \in SUBSET Uids /\ completed' \in SUBSET Deleted' /\ firebase' = firebase
       /\ requested' \in Seq(Uids) /\ IsInjective(requested)' /\ Deleted \in SUBSET Deleted'
  BY DEF Save, IInv, TypeOK, Deleted, IsInjective
<1>11. rows' \in [Key -> Row \cup {NoRow}]
  BY <1>4, <1>5
<1>12. \A q \in Key : rows'[q] # rows[q] => q = k /\ rows'[q] = row
  BY <1>5
<1>13. \A q \in Key : rows'[q] = NoRow => rows[q] = NoRow
  BY <1>4, <1>5, <1>6
<1>14. call' = [call EXCEPT ![c] = Idle]
  BY DEF Save, End
<1> QED
  BY <1>4, <1>8, <1>9, <1>10, <1>11, <1>12, <1>13, <1>14, IdleFacts, RowStep DEF Exists

-----------------------------------------------------------------------------
(* Deletions. *)

LEMMA StartDeletionKeeps ==
  ASSUME IInv, NEW c \in Running, NEW u \in Uids, StartDeletion(c, u)
  PROVE  IInv'
<1>1. PICK x : x = [stage |-> "request", held |-> {}, uid |-> u, left |-> <<>>]
  OBVIOUS
<1>2. x \in Call /\ x.held = {} /\ x.stage = "request" /\ x.left = <<>>
  BY <1>1 DEF Call, Deletion
<1>3. Facts(x)
  BY <1>2 DEF Facts, SavesItsRow, InsertsNewRow, LosesToNewRow, DeletesRecorded
<1> QED
  BY <1>1, <1>2, <1>3, Quiet, CallStep DEF StartDeletion

LEMMA RequestDeletionKeeps ==
  ASSUME IInv, NEW c \in Running, RequestDeletion(c)
  PROVE  IInv'
<1>1. call[c] \in Deletion /\ Facts(call[c])
  BY CallKnows, StagesOfKinds DEF RequestDeletion
<1>2. PICK seen \in SUBSET Key : seen = {k \in Key : k[1] = call[c].uid /\ Exists(k)}
  OBVIOUS
<1>3. PICK x : x = [call[c] EXCEPT !.stage = "delete", !.held = seen]
  OBVIOUS
<1>4. x.stage = "delete" /\ x.held = seen /\ x.left = call[c].left /\ x.uid = call[c].uid /\ x \in Call
  BY <1>1, <1>3 DEF Deletion, Call
<1>5. Facts(x)
  BY <1>1, <1>2, <1>4 DEF RequestDeletion, Facts, SavesItsRow, InsertsNewRow, LosesToNewRow, DeletesRecorded
<1>6. \A o \in Others(c) : x.held \cap call[o].held = {}
  BY <1>2, <1>4 DEF RequestDeletion, Unlocked
<1>7. call' = [call EXCEPT ![c] = x]
  BY <1>2, <1>3 DEF RequestDeletion, IInv, TypeOK, Running
<1>8. UNCHANGED <<firebase, profile, requested, completed, rows>>
  BY DEF RequestDeletion
<1> QED
  BY <1>4, <1>5, <1>6, <1>7, <1>8, Quiet, CallStep

\* The deletion that commits takes the profile and every row of the user with it.
LEMMA CommitDeletionKeeps ==
  ASSUME IInv, NEW c \in Running, CommitDeletion(c)
  PROVE  IInv'
<1>1. call[c] \in Deletion /\ Facts(call[c])
  BY CallKnows, StagesOfKinds DEF CommitDeletion
<1>2. PICK u \in Uids : u = call[c].uid
  BY <1>1 DEF Deletion
<1>3. CASE \E k \in Key : k[1] = u /\ Exists(k) /\ k \notin call[c].held
  BY <1>2, <1>3, EndStep DEF CommitDeletion
<1>4. CASE ~\E k \in Key : k[1] = u /\ Exists(k) /\ k \notin call[c].held
  <2>1. /\ profile' = profile \ {u}
        /\ requested' = IF u \in Deleted THEN requested ELSE Append(requested, u)
        /\ rows' = [k \in Key |-> IF k \in call[c].held THEN NoRow ELSE rows[k]]
        /\ UNCHANGED <<firebase, completed>>
    BY <1>2, <1>4 DEF CommitDeletion
  <2>2. /\ requested' \in Seq(Uids) /\ IsInjective(requested)'
        /\ Deleted' = Deleted \cup {u}
    <3>1. requested \in Seq(Uids) /\ IsInjective(requested)
      BY DEF IInv, TypeOK
    <3>2. CASE u \in Deleted
      BY <2>1, <3>1, <3>2 DEF Deleted, IsInjective
    <3>3. CASE u \notin Deleted
      <4> DEFINE n == Len(requested)
      <4>1. /\ requested' = Append(requested, u)
            /\ requested' \in Seq(Uids) /\ DOMAIN requested' = 1 .. n + 1
            /\ \A i \in 1 .. n : requested'[i] = requested[i]
            /\ requested'[n + 1] = u
            /\ n \in Nat /\ DOMAIN requested = 1 .. n
        BY <2>1, <3>1, <3>3, AppendProperties, LenProperties
      <4>2. \A i \in 1 .. n : requested[i] # u
        BY <3>3, <4>1 DEF Deleted, ToSet
      <4>3. IsInjective(requested)'
        BY <3>1, <4>1, <4>2 DEF IsInjective
      <4>4. Deleted' = Deleted \cup {u}
        <5>1. \A v : v \in Deleted' <=> \E i \in 1 .. n + 1 : requested'[i] = v
          BY <4>1 DEF Deleted, ToSet
        <5>2. \A v : v \in Deleted <=> \E i \in 1 .. n : requested[i] = v
          BY <4>1 DEF Deleted, ToSet
        <5>3. \A i \in 1 .. n + 1 : i \in 1 .. n \/ i = n + 1
          BY <4>1
        <5>4. n + 1 \in 1 .. n + 1 /\ \A i \in 1 .. n : i \in 1 .. n + 1
          BY <4>1
        <5> QED
          BY <4>1, <5>1, <5>2, <5>3, <5>4
      <4> QED
        BY <4>1, <4>3, <4>4
    <3> QED
      BY <3>2, <3>3
  <2>3. PICK held \in SUBSET Key : held = {}
    OBVIOUS
  <2>4. PICK x : x = [call[c] EXCEPT !.stage = "process", !.held = held]
    OBVIOUS
  <2>5. x \in Call /\ x.stage = "process" /\ x.held = {} /\ x.uid = u /\ x.left = <<>>
    BY <1>1, <1>2, <2>3, <2>4 DEF CommitDeletion, Deletion, Call, Facts, DeletesRecorded
  <2>6. call' = [call EXCEPT ![c] = x]
    BY <1>2, <1>4, <2>3, <2>4 DEF CommitDeletion, IInv, TypeOK, Running
  <2>7. Facts(x)'
    BY <2>2, <2>5 DEF Facts, SavesItsRow, InsertsNewRow, LosesToNewRow, DeletesRecorded
  <2>8. rows \in [Key -> Row \cup {NoRow}]
    BY DEF IInv, TypeOK
  <2>9. rows' \in [Key -> Row \cup {NoRow}]
    BY <2>1, <2>8
  <2>10. \A k \in Key : rows'[k] # rows[k] =>
           k \in call[c].held /\ rows'[k] = NoRow /\ k[1] \in Deleted'
    BY <1>1, <1>2, <2>1, <2>2 DEF CommitDeletion, Facts, DeletesRecorded
  <2>11. DeletedStaysDeleted'
    <3>1. \A k \in Key : k[1] = u => rows'[k] = NoRow
      BY <1>4, <2>1 DEF Exists
    <3>2. \A k \in Key : k[1] \in Deleted => rows'[k] = NoRow
      BY <2>1 DEF IInv, DeletedStaysDeleted, Exists
    <3>3. Deleted' \cap profile' = {}
      BY <2>1, <2>2 DEF IInv, DeletedStaysDeleted
    <3> QED
      BY <2>2, <3>1, <3>2, <3>3 DEF DeletedStaysDeleted, Exists
  <2>12. profile' \in SUBSET Uids /\ completed' \in SUBSET Deleted'
    BY <2>1, <2>2 DEF IInv, TypeOK
  <2> QED
    BY <2>1, <2>2, <2>5, <2>6, <2>7, <2>9, <2>10, <2>11, <2>12, RowStep DEF Exists
<1> QED
  BY <1>3, <1>4

\* A receipt that is worked on goes from one stage to the next.
LEMMA ReceiptKeeps ==
  ASSUME IInv, NEW c \in Running, call[c].stage \in {"process", "provider"},
         NEW stage \in {"provider", "complete"}, firebase' \in SUBSET Uids,
         call' = [call EXCEPT ![c].stage = stage],
         UNCHANGED <<profile, requested, completed, rows>>
  PROVE  IInv'
<1>1. call[c] \in Deletion /\ Facts(call[c])
  BY CallKnows, StagesOfKinds
<1>2. PICK x : x = [call[c] EXCEPT !.stage = stage]
  OBVIOUS
<1>3. /\ x.stage = stage /\ x.held = call[c].held /\ x.uid = call[c].uid
      /\ x.left = call[c].left /\ x \in Call
  BY <1>1, <1>2 DEF Deletion, Call
<1>4. Facts(x)
  BY <1>1, <1>3 DEF Facts, SavesItsRow, InsertsNewRow, LosesToNewRow, DeletesRecorded
<1>5. call' = [call EXCEPT ![c] = x]
  BY <1>2 DEF IInv, TypeOK, Running
<1>6. profile' \in SUBSET (Uids \ Deleted) /\ completed' \in SUBSET Deleted
  BY DEF IInv, TypeOK, DeletedStaysDeleted
<1> QED
  BY <1>3, <1>4, <1>5, <1>6, CallKnows, CallStep

LEMMA LockReceiptKeeps ==
  ASSUME IInv, NEW c \in Running, LockReceipt(c)
  PROVE  IInv'
<1>1. CASE call[c].uid \in completed
  BY <1>1, Quiet, ContinueStep DEF LockReceipt
<1>2. CASE call[c].uid \notin completed
  BY <1>2, Quiet, ReceiptKeeps DEF LockReceipt
<1> QED
  BY <1>1, <1>2

LEMMA ProviderKeeps ==
  ASSUME IInv, NEW c \in Running, DeleteFirebaseUser(c) \/ ProviderFails(c) \/ Complete(c)
  PROVE  IInv'
<1>1. CASE DeleteFirebaseUser(c)
  <2>1. firebase' \in SUBSET Uids
    BY <1>1 DEF DeleteFirebaseUser, IInv, TypeOK
  <2> QED
    BY <1>1, <2>1, ReceiptKeeps DEF DeleteFirebaseUser
<1>2. CASE ProviderFails(c)
  BY <1>2, Quiet, ContinueStep DEF ProviderFails
<1>3. CASE Complete(c)
  <2>1. call[c].uid \in Deleted
    BY <1>3, CallKnows DEF Complete, Facts, DeletesRecorded
  <2>2. completed' \in SUBSET Deleted /\ firebase' \in SUBSET Uids
    BY <1>3, <2>1 DEF Complete, IInv, TypeOK
  <2> QED
    BY <1>3, <2>2, ContinueStep DEF Complete
<1> QED
  BY <1>1, <1>2, <1>3

-----------------------------------------------------------------------------
(* Operators and time. *)

LEMMA RetryKeeps ==
  ASSUME IInv, NEW w \in Running, Retry(w)
  PROVE  IInv'
<1>1. Pending \in SUBSET Uids /\ IsFiniteSet(Pending)
  BY DeletedFinite, FS_Subset DEF IInv, Pending
<1>2. Cardinality(Pending) \in Nat
  BY <1>1, FS_CardinalityType
<1>3. PICK taken : taken = IF Cardinality(Pending) < Limit THEN Cardinality(Pending) ELSE Limit
  OBVIOUS
<1>4. taken \in Nat
  BY <1>2, <1>3, AccountsAssumption
<1>5. PICK batch \in [1 .. taken -> Pending] :
        /\ batch # <<>>
        /\ call' = [call EXCEPT ![w] = [stage |-> "process", held |-> {},
                                        uid |-> Head(batch), left |-> Tail(batch)]]
  BY <1>3 DEF Retry
<1>6. batch \in Seq(Pending)
  BY <1>4, <1>5, SeqDef
<1>7. Head(batch) \in Pending /\ Tail(batch) \in Seq(Pending)
  BY <1>5, <1>6, HeadTailProperties
<1>8. Head(batch) \in Deleted /\ Tail(batch) \in Seq(Deleted)
      /\ Head(batch) \in Uids /\ Tail(batch) \in Seq(Uids)
  <2>1. Pending \subseteq Deleted
    BY DEF Pending
  <2>2. Seq(Pending) \subseteq Seq(Deleted) /\ Seq(Pending) \subseteq Seq(Uids)
    BY <1>1, <2>1, SeqMonotonic
  <2> QED
    BY <1>1, <1>7, <2>1, <2>2
<1>9. PICK x : x = [stage |-> "process", held |-> {}, uid |-> Head(batch), left |-> Tail(batch)]
  OBVIOUS
<1>10. x.stage = "process" /\ x.held = {} /\ x.uid = Head(batch) /\ x.left = Tail(batch)
  BY <1>9
<1>11. x \in Call
  BY <1>8, <1>9 DEF Call, Deletion
<1>12. Facts(x)
  BY <1>8, <1>10 DEF Facts, SavesItsRow, InsertsNewRow, LosesToNewRow, DeletesRecorded
<1>13. UNCHANGED <<firebase, profile, requested, completed, rows>>
  BY DEF Retry
<1> QED
  BY <1>5, <1>9, <1>10, <1>11, <1>12, <1>13, Quiet, CallStep

LEMMA LockExpiredKeeps ==
  ASSUME IInv, NEW w \in Running, LockExpired(w)
  PROVE  IInv'
<1>1. PICK batch \in SUBSET {k \in Key : Expirable(k) /\ Unlocked(w, k)} :
        call' = [call EXCEPT ![w] = [stage |-> "expire", held |-> batch]]
  BY DEF LockExpired
<1>2. PICK x : x = [stage |-> "expire", held |-> batch]
  OBVIOUS
<1>3. x.stage = "expire" /\ x.held = batch /\ x \in Call
  <2>1. batch \in SUBSET Key
    BY <1>1
  <2> QED
    BY <1>2, <2>1 DEF Call, Expiry
<1>4. Facts(x)
  BY <1>3 DEF Facts, SavesItsRow, InsertsNewRow, LosesToNewRow, DeletesRecorded
<1>5. \A o \in Others(w) : x.held \cap call[o].held = {}
  BY <1>1, <1>3 DEF Unlocked
<1>6. UNCHANGED <<firebase, profile, requested, completed, rows>>
  BY DEF LockExpired
<1> QED
  BY <1>1, <1>2, <1>3, <1>4, <1>5, <1>6, Quiet, CallStep

\* A report that lost looks for a row that is not old, which is not expired.
LEMMA DeleteExpiredKeeps ==
  ASSUME IInv, NEW w \in Running, DeleteExpired(w)
  PROVE  IInv'
<1>1. rows \in [Key -> Row \cup {NoRow}]
  BY DEF IInv, TypeOK
<1>2. rows' = [k \in Key |-> IF k \in call[w].held /\ Expirable(k) THEN NoRow ELSE rows[k]]
  BY DEF DeleteExpired
<1>3. rows' \in [Key -> Row \cup {NoRow}]
  BY <1>1, <1>2
<1>4. \A k \in Key : rows'[k] # rows[k] =>
        k \in call[w].held /\ Expirable(k) /\ rows'[k] = NoRow
  BY <1>2
<1>5. ASSUME NEW k \in Key, Exists(k), rows'[k] = NoRow, NEW o \in Others(w),
             call[o].stage = "get", call[o].key = k
      PROVE  FALSE
  <2>1. Facts(call[o])
    BY CallKnows DEF Others, Running
  <2>2. rows[k].old
    BY <1>2, <1>5 DEF Exists, Expirable
  <2> QED
    BY <1>5, <2>1, <2>2 DEF Facts, LosesToNewRow
<1>6. /\ profile' \in SUBSET Uids /\ completed' \in SUBSET Deleted' /\ firebase' = firebase
      /\ requested' \in Seq(Uids) /\ IsInjective(requested)' /\ Deleted \in SUBSET Deleted'
  BY DEF DeleteExpired, IInv, TypeOK, Deleted, IsInjective
<1>7. DeletedStaysDeleted'
  BY <1>2 DEF DeleteExpired, IInv, DeletedStaysDeleted, Deleted, Exists
<1>8. Facts(Idle)'
  BY DEF Facts, SavesItsRow, InsertsNewRow, LosesToNewRow, DeletesRecorded, Idle
<1>9. call' = [call EXCEPT ![w] = Idle]
  BY DEF DeleteExpired, End
<1> QED
  BY <1>3, <1>4, <1>5, <1>6, <1>7, <1>8, <1>9, IdleFacts, RowStep

LEMMA AgeKeeps ==
  ASSUME IInv, Age
  PROVE  IInv'
<1>1. rows \in [Key -> Row \cup {NoRow}]
  BY DEF IInv, TypeOK
<1>2. rows' \in [Key -> Row \cup {NoRow}]
  <2>1. \A k \in Key : Exists(k) => [rows[k] EXCEPT !.old = TRUE] \in Row
    BY <1>1 DEF Exists, Row
  <2> QED
    BY <2>1 DEF Age
<1>3. TypeOK'
  BY <1>2 DEF Age, IInv, TypeOK, Deleted, IsInjective
<1>4. \A c \in Running : call'[c] = Idle
  BY DEF Age, Running
<1>5. Apart'
  BY <1>4 DEF Apart, Others, Running, Idle
<1>6. \A c \in Running : Facts(call[c])'
  BY <1>4 DEF Facts, SavesItsRow, InsertsNewRow, LosesToNewRow, DeletesRecorded, Idle
<1>7. DeletedStaysDeleted'
  BY DEF Age, IInv, DeletedStaysDeleted, Deleted, Exists
<1> QED
  BY <1>3, <1>5, <1>6, <1>7 DEF IInv

-----------------------------------------------------------------------------
LEMMA EndsKeep ==
  ASSUME IInv, NEW c \in Running, PatchMe(c) \/ InsertFails(c) \/ Crash(c)
  PROVE  IInv'
BY EndStep DEF PatchMe, InsertFails, Crash

\* Every step of every request and command, and the time that passes, keep the invariant.
LEMMA NextKeeps == IInv /\ [Next]_vars => IInv'
<1> SUFFICES ASSUME IInv, [Next]_vars PROVE IInv'
  OBVIOUS
<1>1. ASSUME NEW c \in Calls, NEW u \in Uids \cap Active, StartPatch(c, u) \/ StartDeletion(c, u)
      PROVE  IInv'
  BY <1>1, StartPatchKeeps, StartDeletionKeeps DEF Running
<1>2. ASSUME NEW c \in Calls, NEW s \in Active, NEW e \in Episodes, NEW r \in Reports,
             StartPut(c, s, e, r)
      PROVE  IInv'
  BY <1>2, StartPutKeeps DEF Running
<1>3. ASSUME NEW w \in Workers, Retry(w) \/ LockExpired(w)
      PROVE  IInv'
  BY <1>3, RetryKeeps, LockExpiredKeeps DEF Running
<1>4. ASSUME NEW c \in Running, Step(c)
      PROVE  IInv'
  BY <1>4, EndsKeep, LookUpKeeps, CreateKeeps, GetKeeps, SaveKeeps, RequestDeletionKeeps,
     CommitDeletionKeeps, LockReceiptKeeps, ProviderKeeps, DeleteExpiredKeeps DEF Step
<1>5. ASSUME NEW c \in Running, Crash(c)
      PROVE  IInv'
  BY <1>5, EndsKeep
<1>6. CASE UNCHANGED vars
  <2>1. TypeOK' /\ Apart' /\ DeletedStaysDeleted'
    BY <1>6 DEF vars, IInv, TypeOK, Apart, DeletedStaysDeleted, Deleted, Exists
  <2>2. \A c \in Running : Facts(call[c])'
    BY <1>6 DEF vars, IInv, Facts, SavesItsRow, InsertsNewRow, LosesToNewRow, DeletesRecorded,
                Deleted, Exists
  <2> QED
    BY <2>1, <2>2 DEF IInv
<1> QED
  BY <1>1, <1>2, <1>3, <1>4, <1>5, <1>6, AgeKeeps DEF Next, Running

-----------------------------------------------------------------------------
(* What follows. *)

\* In every reachable state rows have one owner, reports know the rows they will
\* write, and recorded deletions have left nothing behind (accounts/lifecycle.py and
\* progress/models.py).
THEOREM Invariance == Spec => []IInv
BY Initially, NextKeeps, PTL DEF Spec

\* Users, deletions, progress and calls keep their types.
THEOREM TypeCorrect == Spec => []TypeOK
<1>1. IInv => TypeOK
  BY DEF IInv
<1> QED
  BY Invariance, <1>1, PTL

\* Once a deletion is recorded there is no profile and no progress of the user, whatever
\* requests signed in before it and whatever is retried after it
\* (accounts/lifecycle.py:22).
THEOREM DeletedForGood == Spec => []DeletedStaysDeleted
<1>1. IInv => DeletedStaysDeleted
  BY DEF IInv
<1> QED
  BY Invariance, <1>1, PTL

\* A report whose insert failed finds the row that won, or its account is being
\* deleted (progress/models.py, upsert_watch_progress).
THEOREM LosersFindTheRow == Spec => []LoserFindsRow
<1>1. IInv => LoserFindsRow
  BY DEF IInv, Facts, LosesToNewRow, LoserFindsRow, Running
<1> QED
  BY Invariance, <1>1, PTL

\* A step that rewrites completed progress keeps it completed.
LEMMA StaysCompleted ==
  ASSUME IInv, [Next]_vars, NEW k \in Key, Exists(k), rows[k].completed, Exists(k)'
  PROVE  rows'[k].completed
<1>1. CASE rows' = rows
  BY <1>1
<1>2. ASSUME NEW c \in Running, Save(c)
      PROVE  rows'[k].completed
  <2>1. Facts(call[c])
    BY CallKnows
  <2>2. rows' = [rows EXCEPT ![call[c].key] =
          [position |-> call[c].position, completed |-> call[c].finished, old |-> FALSE]]
    BY <1>2 DEF Save
  <2>3. CASE call[c].key = k
    <3>1. call[c].stage = "save" /\ call[c].finished
      BY <1>2, <2>1, <2>3 DEF Save, Facts, SavesItsRow, InsertsNewRow
    <3> QED
      BY <2>2, <2>3, <3>1 DEF IInv, TypeOK
  <2>4. CASE call[c].key # k
    BY <2>2, <2>4 DEF IInv, TypeOK
  <2> QED
    BY <2>3, <2>4
<1>3. ASSUME NEW c \in Running, CommitDeletion(c)
      PROVE  rows'[k].completed
  BY <1>3 DEF CommitDeletion, Exists
<1>4. ASSUME NEW w \in Running, DeleteExpired(w)
      PROVE  rows'[k].completed
  BY <1>4 DEF DeleteExpired, Exists
<1>5. CASE Age
  <2>1. rows[k] \in Row
    BY DEF IInv, TypeOK, Exists
  <2> QED
    BY <1>5, <2>1 DEF Age, Row
<1>6. ASSUME NEW c \in Running, Step(c)
      PROVE  rows' = rows \/ Save(c) \/ CommitDeletion(c) \/ DeleteExpired(c)
  BY <1>6 DEF Step, PatchMe, LookUp, Create, Get, InsertFails, RequestDeletion, LockReceipt,
              DeleteFirebaseUser, ProviderFails, Complete
<1>7. ASSUME NEW c \in Running, Crash(c)
      PROVE  rows' = rows
  BY <1>7 DEF Crash
<1>8. ASSUME NEW c \in Calls, NEW u \in Uids \cap Active, StartPatch(c, u) \/ StartDeletion(c, u)
      PROVE  rows' = rows
  BY <1>8 DEF StartPatch, StartDeletion
<1>9. ASSUME NEW c \in Calls, NEW s \in Active, NEW e \in Episodes, NEW r \in Reports,
             StartPut(c, s, e, r)
      PROVE  rows' = rows
  BY <1>9 DEF StartPut
<1>10. ASSUME NEW w \in Workers, Retry(w) \/ LockExpired(w)
       PROVE  rows' = rows
  BY <1>10 DEF Retry, LockExpired
<1>11. CASE UNCHANGED vars
  BY <1>11 DEF vars
<1> QED
  BY <1>1, <1>2, <1>3, <1>4, <1>5, <1>6, <1>7, <1>8, <1>9, <1>10, <1>11 DEF Next, Running

\* Of two concurrent reports the one that completed the episode is not undone by the
\* one that is saved last (progress/models.py, resolve_completed under the row's lock).
THEOREM CompletedForGood == Spec => CompletedIsSticky
<1>1. IInv /\ [Next]_vars =>
        [\A k \in Key : Exists(k) /\ rows[k].completed /\ Exists(k)' => rows'[k].completed]_vars
  BY StaysCompleted
<1> QED
  BY Invariance, <1>1, PTL DEF Spec, CompletedIsSticky

=============================================================================
