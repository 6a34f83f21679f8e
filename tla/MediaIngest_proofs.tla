-------------------------- MODULE MediaIngest_proofs --------------------------
(***************************************************************************)
(* What MediaIngest promises, for any number of rows, videos and requests: *)
(* what is ready was encoded and what is removed is gone, whichever of the *)
(* requests wrote a row last; and, while staff do one thing at a time, no  *)
(* video is forgotten and no row makes a transition that is not allowed.   *)
(***************************************************************************)
EXTENDS MediaIngest, FiniteSetTheorems, WellFoundedInduction, TLAPS

Busy(c) == call[c] # Idle
Saving(c, o) == call[c].stage = "save" /\ call[c].object = o

\* The committed rows, and the instances of them that requests work on and write back.
Copies == {x \in Row : \/ \E r \in Assets : x = asset[r]
                       \/ \E c \in Calls : Busy(c) /\ x \in {call[c].seen, call[c].mine}}

\* What the stages of a request take for granted.
StageFacts(c) ==
  /\ call[c].stage # "insert" => call[c].row \in Assets
  /\ call[c].stage \in {"reuse", "submit", "save", "fail", "page"} => call[c].seen # Absent
  /\ call[c].stage = "save" => call[c].object \in Objects

\* Of a video that was finished or deleted, an old copy of its row still tells the truth.
Sound(x) ==
  x.object # NoObject =>
    /\ remote[x.object] # "none"
    /\ x.state \notin {"pending_upload", "uploaded"}
    /\ x.state = "ready" => remote[x.object] \in {"ready", "deleted"}
    /\ x.state = "removed" => remote[x.object] = "deleted"

\* A video that was just submitted is known to its request alone, so that its death,
\* which abandons the video, makes no copy wrong.
Apart ==
  \A c \in Calls, o \in Objects : Saving(c, o) =>
    /\ remote[o] # "none"
    /\ \A d \in Calls : Saving(d, o) => d = c
    /\ \A x \in Copies : x.object # o

IInv ==
  /\ TypeOK
  /\ \A c \in Calls : Busy(c) => StageFacts(c)
  /\ \A x \in Copies : Sound(x)
  /\ Apart

-----------------------------------------------------------------------------
(* The provider's answers. *)

\* The id of a video is only given out for a video that was made.
LEMMA SubmissionsAnswered ==
  ASSUME NEW sent \in Submissions
  PROVE  /\ sent.made \in BOOLEAN
         /\ sent.answer \in {"id", "error", "missing"}
         /\ sent.answer = "id" => sent.made
<1>1. PICK made \in BOOLEAN, guid \in BOOLEAN, replies \in [1..3 -> Replies] :
        sent = SubmitMaster(made, guid, replies)
  BY DEF Submissions
<1> DEFINE ends == <<IF Request(replies[1]) = "done" /\ ~guid THEN "error" ELSE Request(replies[1]),
                     Request(replies[2]), Request(replies[3])>>
           failed == {i \in 1..3 : ends[i] # "done"}
           first == CHOOSE i \in failed : \A j \in failed : i <= j
<1>2. \A i \in 1..3 : Request(replies[i]) \in {"done", "error", "missing"}
  BY DEF Request, Transport, Replies
<1>3. sent.made = (made \/ Request(replies[1]) = "done")
      /\ sent.answer = IF failed = {} THEN "id" ELSE ends[first]
  BY <1>1 DEF SubmitMaster
<1>4. \A i \in 1..3 : ends[i] \in {"done", "error", "missing"}
  BY <1>2
<1>5. failed # {} => first \in failed
  <2>1. ASSUME NEW i \in failed
        PROVE  \E k \in failed : \A j \in failed : k <= j
    OBVIOUS
  <2> HIDE DEF failed
  <2> QED
    BY <2>1
<1>6. failed = {} => Request(replies[1]) = "done"
  <2>1. failed = {} => ends[1] = "done"
    OBVIOUS
  <2> QED
    BY <2>1
<1>7. failed # {} => ends[first] \in {"error", "missing"}
  BY <1>4, <1>5
<1> HIDE DEF ends, failed
<1> QED
  BY <1>3, <1>6, <1>7

\* The encoding of a video ends ready, bare or failed.
LEMMA ReadingsEnd ==
  Readings \ {"processing"} \subseteq {"ready", "bare", "failed"}
BY DEF Readings, Reading, GetAsset

-----------------------------------------------------------------------------
(* Rows and requests. *)

\* Without a greatest element a set has subsets without one, and none of them is minimal.
LEMMA GreatestExists ==
  ASSUME NEW S \in SUBSET Nat, IsFiniteSet(S), S # {}
  PROVE  \E m \in S : \A q \in S : q <= m
<1> DEFINE Topless == {T \in SUBSET S : T # {} /\ \A m \in T : \E q \in T : ~(q <= m)}
<1> SUFFICES ASSUME S \in Topless PROVE FALSE
  OBVIOUS
<1>1. PICK T \in Topless : \A U \in Topless : <<U, T>> \notin StrictSubsetOrdering(S)
  <2>1. Topless \subseteq FiniteSubsetsOf(S)
    BY FS_FiniteSubsetsOfFinite
  <2> HIDE DEF Topless
  <2> QED
    BY <2>1, FS_StrictSubsetOrderingWellFounded, WFMin
<1>2. PICK m \in T : TRUE
  BY <1>1
<1>3. PICK q \in T : ~(q <= m)
  BY <1>1
<1> DEFINE U == T \ {m}
<1>4. q \in U /\ U \in SUBSET S /\ m \in Nat /\ q \in Nat
  BY <1>1, <1>2, <1>3
<1>5. U \notin Topless
  <2>1. <<U, T>> \in StrictSubsetOrdering(S)
    BY <1>1, <1>2, <1>4 DEF StrictSubsetOrdering
  <2> QED
    BY <1>1, <2>1
<1>6. PICK top \in U : \A p \in U : p <= top
  BY <1>4, <1>5
<1>7. top \in T /\ \A p \in T : p <= top
  BY <1>3, <1>4, <1>6
<1> QED
  BY <1>1, <1>7

\* Of the failed rows of a master the newest is used again.
LEMMA NewestExists ==
  ASSUME NEW R \in SUBSET Assets, R # {}
  PROVE  (CHOOSE r \in R : \A q \in R : q <= r) \in R
<1>1. R \in SUBSET Nat /\ IsFiniteSet(R)
  BY AssetsAssumption, FS_Subset
<1> QED
  BY <1>1, GreatestExists

LEMMA AbsentIsNoRow ==
  /\ Absent \notin Row
  /\ Idle \notin Running
<1>1. \A s \in Running : s.stage # "idle"
  BY DEF Running
<1> QED
  BY <1>1, AssetsAssumption DEF Idle

\* A request that is at some stage has all the fields of one that runs.
LEMMA StagedRuns ==
  ASSUME TypeOK, NEW c \in Calls, call[c].stage # "idle"
  PROVE  /\ Busy(c)
         /\ call[c] \in Running
BY DEF TypeOK, Idle, Busy

LEMMA BusyRuns ==
  ASSUME TypeOK, NEW c \in Calls, Busy(c)
  PROVE  /\ call[c] \in Running
         /\ call[c].stage # "idle"
BY DEF TypeOK, Idle, Busy, Running

LEMMA InitIInv ==
  ASSUME Init
  PROVE  IInv
<1>1. TypeOK
  BY DEF Init, TypeOK, RemoteStates
<1>2. Copies = {}
  BY AbsentIsNoRow DEF Init, Copies, Busy
<1> QED
  BY <1>1, <1>2 DEF Init, IInv, Apart, Saving, Busy, Idle

-----------------------------------------------------------------------------
(* What every step does. *)

\* What a step may do to the videos: delete one that is there, finish one that is being
\* encoded, make one, or abandon one that was just submitted.
RemoteStep ==
  /\ remote' \in [Objects -> RemoteStates]
  /\ \A o \in Objects :
       \/ remote'[o] = remote[o]
       \/ remote[o] # "none" /\ remote'[o] = "deleted"
       \/ remote[o] = "processing" /\ remote'[o] \in {"ready", "bare", "failed"}
       \/ remote[o] = "none" /\ remote'[o] \in {"processing", "abandoned"}
       \/ remote'[o] = "abandoned" /\ \E c \in Calls : Saving(c, o)

\* A request that goes on, with copies it has, finds committed or makes.
GoesOn(c, new) ==
  /\ Busy(c)' /\ StageFacts(c)'
  /\ {call'[c].seen, call'[c].mine} \subseteq Copies \cup new \cup {Absent}
  /\ \A o \in Objects : Saving(c, o)' =>
       remote[o] = "none" /\ remote'[o] = "processing" /\ \A d \in Calls \ {c} : call'[d] = call[d]

\* A copy that tells the truth goes on telling it, whatever becomes of the video.
LEMMA SoundStays ==
  ASSUME IInv, RemoteStep, NEW x \in Copies
  PROVE  Sound(x)'
<1>1. x.object \in Objects \cup {NoObject} /\ Sound(x)
  BY DEF IInv, Copies, Row
<1>2. \A c \in Calls : ~Saving(c, x.object)
  BY <1>1, AssetsAssumption DEF IInv, Apart, StageFacts, Saving, Busy, Idle
<1> QED
  BY <1>1, <1>2 DEF RemoteStep, Sound

LEMMA StepKeeps ==
  ASSUME IInv, RemoteStep, episode' \in BOOLEAN, staff' = staff,
         NEW new \in SUBSET Row,
         asset' \in [Assets -> Row \cup {Absent}],
         \A r \in Assets : asset'[r] \in {asset[r], Absent} \cup new,
         call' \in [Calls -> Running \cup {Idle}],
         \A c \in Calls : call'[c] \in {call[c], Idle} \/ GoesOn(c, new),
         \A x \in new : Sound(x)' /\ \A c \in Calls : ~Saving(c, x.object)'
  PROVE  IInv'
<1>1. TypeOK'
  BY DEF IInv, TypeOK, RemoteStep
<1>2. \A c \in Calls : Busy(c)' => StageFacts(c)'
  BY DEF IInv, GoesOn, Busy, StageFacts
<1>3. Copies' \subseteq Copies \cup new
  <2> SUFFICES ASSUME NEW x \in Row, x \in Copies'
               PROVE  x \in Copies \cup new
    BY DEF Copies
  <2>1. ASSUME NEW r \in Assets, x = asset'[r]
        PROVE  x \in Copies \cup new
    BY <2>1, AbsentIsNoRow DEF Copies
  <2>2. ASSUME NEW c \in Calls, Busy(c)', x \in {call'[c].seen, call'[c].mine}
        PROVE  x \in Copies \cup new
    <3>1. CASE call'[c] = call[c]
      BY <2>2, <3>1 DEF Copies, Busy
    <3>2. CASE GoesOn(c, new)
      BY <2>2, <3>2, AbsentIsNoRow DEF GoesOn
    <3> QED
      BY <2>2, <3>1, <3>2 DEF Busy
  <2> QED
    BY <2>1, <2>2 DEF Copies
<1>4. \A x \in Copies' : Sound(x)'
  BY <1>3, SoundStays
<1>5. Apart'
  <2> SUFFICES ASSUME NEW c \in Calls, NEW o \in Objects, Saving(c, o)'
               PROVE  /\ remote'[o] # "none"
                      /\ \A d \in Calls : Saving(d, o)' => d = c
                      /\ \A x \in Copies' : x.object # o
    BY DEF Apart
  <2>1. \A d \in Calls : Saving(d, o)' =>
          \/ Saving(d, o)
          \/ remote[o] = "none" /\ remote'[o] = "processing" /\ \A e \in Calls \ {d} : call'[e] = call[e]
    <3> SUFFICES ASSUME NEW d \in Calls, Saving(d, o)'
                 PROVE  \/ Saving(d, o)
                        \/ remote[o] = "none" /\ remote'[o] = "processing" /\ \A e \in Calls \ {d} : call'[e] = call[e]
      OBVIOUS
    <3>1. call'[d] # Idle
      BY DEF Saving, Idle
    <3> QED
      BY <3>1 DEF GoesOn, Saving
  <2>2. CASE Saving(c, o)
    <3>1. remote[o] # "none" /\ (\A d \in Calls : Saving(d, o) => d = c) /\ \A x \in Copies : x.object # o
      BY <2>2 DEF IInv, Apart
    <3>2. remote'[o] # "none"
      BY <3>1 DEF RemoteStep
    <3> QED
      BY <1>3, <2>1, <3>1, <3>2
  <2>3. CASE ~Saving(c, o)
    <3>1. remote[o] = "none" /\ remote'[o] = "processing" /\ \A d \in Calls \ {c} : call'[d] = call[d]
      BY <2>1, <2>3
    <3>2. \A d \in Calls : ~Saving(d, o)
      BY <3>1 DEF IInv, Apart
    <3>3. \A d \in Calls : Saving(d, o)' => d = c
      BY <3>1, <3>2 DEF Saving
    <3>4. \A x \in Copies : x.object # o
      BY <3>1, AssetsAssumption DEF IInv, Sound
    <3> QED
      BY <1>3, <3>1, <3>3, <3>4
  <2> QED
    BY <2>2, <2>3
<1> QED
  BY <1>1, <1>2, <1>4, <1>5 DEF IInv

\* Committed rows are copies, and so is what a request has read and written.
LEMMA CopiesAreRows ==
  ASSUME TypeOK
  PROVE  /\ \A r \in Rows : asset[r] \in Copies /\ asset[r] \in Row /\ r \in Assets
         /\ \A c \in Calls : Busy(c) =>
              /\ call[c].seen # Absent => call[c].seen \in Copies /\ call[c].seen \in Row
              /\ call[c].mine # Absent => call[c].mine \in Copies /\ call[c].mine \in Row
<1>1. ASSUME NEW r \in Rows
      PROVE  asset[r] \in Copies /\ asset[r] \in Row /\ r \in Assets
  BY DEF TypeOK, Rows, Copies
<1>2. ASSUME NEW c \in Calls, Busy(c)
      PROVE  /\ call[c].seen # Absent => call[c].seen \in Copies /\ call[c].seen \in Row
             /\ call[c].mine # Absent => call[c].mine \in Copies /\ call[c].mine \in Row
  <2>1. call[c].seen \in Row \cup {Absent} /\ call[c].mine \in Row \cup {Absent}
    BY <1>2, BusyRuns DEF Running
  <2> QED
    BY <1>2, <2>1 DEF Copies
<1> QED
  BY <1>1, <1>2

\* Only the videos change: nothing is submitted and nothing abandoned.
LEMMA RemoteStays ==
  ASSUME IInv, UNCHANGED remote
  PROVE  RemoteStep
BY DEF IInv, TypeOK, RemoteStep

LEMMA VideoExpires ==
  ASSUME IInv, NEW x \in Copies, x.object # NoObject, remote' = Expired(x.object)
  PROVE  RemoteStep
<1>1. x.object \in Objects /\ remote[x.object] # "none"
  BY DEF IInv, Copies, Row, Sound
<1> QED
  BY <1>1 DEF IInv, TypeOK, RemoteStep, Expired, RemoteStates

\* A request goes on or ends, and the instances it makes name no video.
LEMMA CallsStep ==
  ASSUME IInv, RemoteStep, UNCHANGED <<asset, episode, staff>>, NEW c \in Calls,
         call' = [call EXCEPT ![c] = call'[c]], call'[c] \in Running \cup {Idle},
         NEW new \in SUBSET Row, \A x \in new : x.object = NoObject,
         call'[c] = Idle \/ GoesOn(c, new)
  PROVE  IInv'
<1>1. TypeOK
  BY DEF IInv
<1>2. /\ asset' \in [Assets -> Row \cup {Absent}]
      /\ \A r \in Assets : asset'[r] \in {asset[r], Absent} \cup new
      /\ episode' \in BOOLEAN
  BY <1>1 DEF TypeOK
<1>3. /\ call' \in [Calls -> Running \cup {Idle}]
      /\ \A d \in Calls : call'[d] \in {call[d], Idle} \/ GoesOn(d, new)
  BY <1>1 DEF TypeOK
<1>4. ASSUME NEW d \in Calls
      PROVE  ~Saving(d, NoObject)'
  <2>1. d # c => call'[d] = call[d]
    BY <1>1 DEF TypeOK
  <2>2. ~Saving(d, NoObject)
    BY AssetsAssumption DEF IInv, StageFacts, Saving, Busy, Idle
  <2> QED
    BY <2>1, <2>2, AssetsAssumption DEF GoesOn, StageFacts, Saving, Idle
<1>5. \A x \in new : Sound(x)' /\ \A d \in Calls : ~Saving(d, x.object)'
  BY <1>4 DEF Sound
<1> QED
  BY <1>2, <1>3, <1>5, StepKeeps

\* A request ends, and what it has written, if anything, becomes the row.
LEMMA EndStep ==
  ASSUME IInv, RemoteStep, UNCHANGED <<episode, staff>>, NEW c \in Calls, End(c),
         NEW new \in SUBSET Row, NEW r,
         asset' = asset \/ \E x \in new : asset' = [asset EXCEPT ![r] = x],
         \A x \in new : Sound(x)' /\ \A d \in Calls : ~Saving(d, x.object)'
  PROVE  IInv'
<1>1. TypeOK
  BY DEF IInv
<1>2. /\ asset' \in [Assets -> Row \cup {Absent}]
      /\ \A q \in Assets : asset'[q] \in {asset[q], Absent} \cup new
      /\ episode' \in BOOLEAN
  BY <1>1 DEF TypeOK
<1>3. /\ call' \in [Calls -> Running \cup {Idle}]
      /\ \A d \in Calls : call'[d] \in {call[d], Idle}
  BY <1>1 DEF TypeOK, End
<1> QED
  BY <1>2, <1>3, StepKeeps

\* One row changes, in one step.
LEMMA RowStep ==
  ASSUME IInv, RemoteStep, UNCHANGED <<episode, staff, call>>,
         NEW r \in Assets, NEW x \in Row, asset' = [asset EXCEPT ![r] = x],
         Sound(x)', \A d \in Calls : ~Saving(d, x.object)
  PROVE  IInv'
<1>1. TypeOK
  BY DEF IInv
<1>2. /\ asset' \in [Assets -> Row \cup {Absent}]
      /\ \A q \in Assets : asset'[q] \in {asset[q], Absent} \cup {x}
      /\ episode' \in BOOLEAN
  BY <1>1 DEF TypeOK
<1>3. /\ call' \in [Calls -> Running \cup {Idle}]
      /\ \A d \in Calls : call'[d] \in {call[d], Idle}
  BY <1>1 DEF TypeOK
<1>4. \A y \in {x} : Sound(y)' /\ \A d \in Calls : ~Saving(d, y.object)'
  BY DEF Saving
<1> QED
  BY <1>2, <1>3, <1>4, StepKeeps, {x} \in SUBSET Row

\* No request is about to name what a copy names already.
LEMMA CopiesApart ==
  ASSUME IInv, NEW x \in Copies, NEW c \in Calls
  PROVE  ~Saving(c, x.object)
<1>1. x.object \in Objects \cup {NoObject}
  BY DEF Copies, Row
<1> QED
  BY <1>1, AssetsAssumption DEF IInv, Apart, StageFacts, Saving, Busy, Idle

-----------------------------------------------------------------------------
(* The Admin's add form and the signed upload. *)

LEMMA AddKeeps ==
  ASSUME IInv, UNCHANGED staff, NEW c \in Calls, NEW k \in Checksums, Add(c, k)
  PROVE  IInv'
<1> DEFINE siblings == {r \in Rows : asset[r].checksum = k /\ asset[r].state = "failed"}
           newest == CHOOSE r \in siblings : \A q \in siblings : q <= r
<1>1. TypeOK /\ RemoteStep
  BY RemoteStays DEF Add, IInv
<1>2. "add" \in Kinds /\ UNCHANGED <<asset, remote, episode>>
  BY DEF Add, MayRequest
<1>3. CASE siblings = {}
  <2> DEFINE s == [stage |-> "insert", kind |-> "add", row |-> Absent, checksum |-> k,
                   seen |-> Absent, mine |-> Absent, object |-> NoObject, held |-> {}]
  <2>1. call' = [call EXCEPT ![c] = s]
    BY <1>3 DEF Add, Start
  <2>2. s \in Running
    BY <1>2 DEF Running
  <2>3. call'[c] = s
    BY <1>1, <2>1 DEF TypeOK
  <2>4. GoesOn(c, {})
    BY <2>3 DEF GoesOn, Busy, Idle, StageFacts, Saving
  <2> HIDE DEF s
  <2> QED
    BY <1>1, <1>2, <2>1, <2>2, <2>3, <2>4, CallsStep, {} \in SUBSET Row
<1>4. CASE siblings # {}
  <2> DEFINE s == [stage |-> "reuse", kind |-> "add", row |-> newest, checksum |-> k,
                   seen |-> asset[newest], mine |-> Absent, object |-> NoObject, held |-> {}]
  <2>1. newest \in siblings
    <3>1. siblings \in SUBSET Assets
      BY DEF Rows
    <3> HIDE DEF siblings
    <3> QED
      BY <1>4, <3>1, NewestExists
  <2>2. newest \in Rows /\ newest \in Assets /\ asset[newest] \in Row /\ asset[newest] \in Copies /\ asset[newest] # Absent
    <3>1. newest \in Rows
      BY <2>1
    <3> HIDE DEF newest
    <3> QED
      BY <1>1, <3>1, CopiesAreRows, AbsentIsNoRow
  <2>3. call' = [call EXCEPT ![c] = s]
    <3>1. Start(c, "add", "reuse", newest, k)
      BY <1>4 DEF Add
    <3>2. newest # Absent
      BY <2>2, AssetsAssumption
    <3> HIDE DEF newest
    <3> QED
      BY <3>1, <3>2 DEF Start
  <2> HIDE DEF newest
  <2>4. s \in Running
    BY <1>2, <2>2 DEF Running
  <2>5. call'[c] = s
    BY <1>1, <2>3 DEF TypeOK
  <2>6. GoesOn(c, {})
    BY <2>2, <2>5 DEF GoesOn, Busy, Idle, StageFacts, Saving
  <2> HIDE DEF s
  <2> QED
    BY <1>1, <1>2, <2>3, <2>4, <2>5, <2>6, CallsStep, {} \in SUBSET Row
<1> QED
  BY <1>3, <1>4

LEMMA InsertKeeps ==
  ASSUME IInv, UNCHANGED staff, NEW c \in Calls, Insert(c)
  PROVE  IInv'
<1>1. TypeOK /\ RemoteStep /\ UNCHANGED <<asset, remote, episode>>
  BY RemoteStays DEF Insert, IInv
<1>2. CASE End(c)
  BY <1>1, <1>2, EndStep, {} \in SUBSET Row
<1>3. ASSUME NEW r \in Assets,
             call' = [call EXCEPT
               ![c].stage = "read", ![c].row = r, ![c].held = {Index, r},
               ![c].mine = [state |-> "uploaded", checksum |-> call[c].checksum,
                            object |-> NoObject]]
      PROVE  IInv'
  <2> DEFINE x == [state |-> "uploaded", checksum |-> call[c].checksum, object |-> NoObject]
  <2>1. call[c] \in Running
    BY <1>1, StagedRuns DEF Insert
  <2>2. {x} \in SUBSET Row /\ x.object = NoObject
    BY <2>1 DEF Running, Row, States
  <2>3. call' = [call EXCEPT ![c].stage = "read", ![c].row = r, ![c].held = {Index, r}, ![c].mine = x]
    BY <1>3
  <2> HIDE DEF x
  <2>4. /\ call'[c] = [call[c] EXCEPT !.stage = "read", !.row = r, !.held = {Index, r}, !.mine = x]
        /\ call' = [call EXCEPT ![c] = call'[c]]
    BY <1>1, <2>3 DEF TypeOK
  <2>5. /\ call'[c] \in Running
        /\ call'[c].stage = "read" /\ call'[c].row = r /\ call'[c].mine = x
        /\ call'[c].seen = call[c].seen
    <3> DEFINE locks == {Index, r}
    <3>1. locks \in SUBSET (Assets \cup {Index})
      OBVIOUS
    <3>2. call'[c] = [call[c] EXCEPT !.stage = "read", !.row = r, !.held = locks, !.mine = x]
      BY <2>4
    <3> HIDE DEF locks
    <3> QED
      BY <2>1, <2>2, <3>1, <3>2 DEF Running
  <2>6. call[c].seen \in Copies \cup {Absent}
    BY <1>1, <2>1, CopiesAreRows, StagedRuns DEF Insert
  <2>7. GoesOn(c, {x})
    BY <2>5, <2>6, AbsentIsNoRow DEF GoesOn, Busy, StageFacts, Saving
  <2> QED
    BY <1>1, <2>2, <2>4, <2>5, <2>7, CallsStep
<1> QED
  BY <1>2, <1>3 DEF Insert

\* A request goes on to its next stage with what it has.
LEMMA StageStep ==
  ASSUME IInv, RemoteStep, UNCHANGED <<asset, episode, staff>>, NEW c \in Calls, Busy(c),
         NEW stage \in {"clear", "fail"}, call' = [call EXCEPT ![c].stage = stage],
         call[c].stage # "insert", stage = "fail" => call[c].stage = "submit"
  PROVE  IInv'
<1>1. TypeOK /\ call[c] \in Running /\ StageFacts(c)
  BY BusyRuns DEF IInv
<1>2. call'[c] = [call[c] EXCEPT !.stage = stage] /\ call' = [call EXCEPT ![c] = call'[c]]
  BY <1>1 DEF TypeOK
<1>3. /\ call'[c] \in Running /\ call'[c].stage = stage /\ call'[c].row = call[c].row
      /\ call'[c].seen = call[c].seen /\ call'[c].mine = call[c].mine
  BY <1>1, <1>2 DEF Running
<1>4. call[c].seen \in Copies \cup {Absent} /\ call[c].mine \in Copies \cup {Absent}
  BY <1>1, CopiesAreRows
<1>5. GoesOn(c, {})
  BY <1>1, <1>3, <1>4, AbsentIsNoRow DEF GoesOn, Busy, StageFacts, Saving
<1> QED
  BY <1>1, <1>2, <1>3, <1>5, CallsStep, {} \in SUBSET Row

LEMMA ExpireKeeps ==
  ASSUME IInv, UNCHANGED staff, NEW c \in Calls, Expire(c)
  PROVE  IInv' /\ RemoteStep
<1>1. TypeOK /\ Busy(c) /\ StageFacts(c) /\ call[c].stage = "reuse" /\ UNCHANGED <<asset, episode>>
  BY StagedRuns DEF Expire, IInv
<1>2. call[c].seen \in Copies
  BY <1>1, CopiesAreRows DEF StageFacts
<1>3. RemoteStep
  BY <1>2, RemoteStays, VideoExpires DEF Expire
<1>4. End(c) \/ call' = [call EXCEPT ![c].stage = "clear"]
  BY DEF Expire
<1>5. CASE End(c)
  BY <1>1, <1>3, <1>5, EndStep, {} \in SUBSET Row
<1>6. CASE call' = [call EXCEPT ![c].stage = "clear"]
  BY <1>1, <1>3, <1>6, StageStep
<1> QED
  BY <1>3, <1>4, <1>5, <1>6

LEMMA ClearKeeps ==
  ASSUME IInv, UNCHANGED staff, NEW c \in Calls, Clear(c)
  PROVE  IInv'
<1> DEFINE r == call[c].row
           x == [asset[r] EXCEPT !.object = NoObject]
<1>1. TypeOK /\ RemoteStep /\ UNCHANGED <<asset, episode>>
  BY RemoteStays DEF Clear, IInv
<1>2. CASE End(c)
  BY <1>1, <1>2, EndStep, {} \in SUBSET Row
<1>3. CASE ~End(c)
  <2>1. r \in Rows /\ call' = [call EXCEPT ![c].stage = "read", ![c].held = {r}, ![c].mine = x]
    BY <1>3 DEF Clear
  <2>2. call[c] \in Running /\ r \in Assets /\ asset[r] \in Row
    BY <1>1, <2>1, StagedRuns, CopiesAreRows DEF Clear
  <2>3. {x} \in SUBSET Row /\ x.object = NoObject
    BY <2>2 DEF Row
  <2> DEFINE locks == {r}
  <2>4. locks \in SUBSET (Assets \cup {Index})
    BY <2>2
  <2> HIDE DEF x
  <2>5. /\ call'[c] = [call[c] EXCEPT !.stage = "read", !.held = locks, !.mine = x]
        /\ call' = [call EXCEPT ![c] = call'[c]]
    BY <1>1, <2>1 DEF TypeOK
  <2> HIDE DEF locks
  <2>6. /\ call'[c] \in Running
        /\ call'[c].stage = "read" /\ call'[c].row = r /\ call'[c].mine = x
        /\ call'[c].seen = call[c].seen
    BY <2>2, <2>3, <2>4, <2>5 DEF Running
  <2>7. call[c].seen \in Copies \cup {Absent}
    BY <1>1, CopiesAreRows, StagedRuns DEF Clear
  <2>8. GoesOn(c, {x})
    BY <2>2, <2>6, <2>7, AbsentIsNoRow DEF GoesOn, Busy, StageFacts, Saving
  <2> QED
    BY <1>1, <2>3, <2>5, <2>6, <2>8, CallsStep
<1> QED
  BY <1>2, <1>3

LEMMA BeginUploadKeeps ==
  ASSUME IInv, UNCHANGED staff, NEW k \in Checksums, BeginUpload(k)
  PROVE  IInv'
<1> DEFINE x == [state |-> "pending_upload", checksum |-> k, object |-> NoObject]
<1>1. PICK r \in Assets : asset' = [asset EXCEPT ![r] = x]
  BY DEF BeginUpload
<1>2. x \in Row /\ x.object = NoObject
  BY DEF Row, States
<1> HIDE DEF x
<1>3. RemoteStep /\ UNCHANGED <<episode, call>>
  BY RemoteStays DEF BeginUpload
<1>4. Sound(x)'
  BY <1>2 DEF Sound
<1>5. \A d \in Calls : ~Saving(d, x.object)
  BY <1>2, AssetsAssumption DEF IInv, StageFacts, Saving, Busy, Idle
<1> QED
  BY <1>1, <1>2, <1>3, <1>4, <1>5, RowStep

LEMMA CompleteKeeps ==
  ASSUME IInv, UNCHANGED staff, NEW c \in Calls, NEW r \in Assets, CompleteUploadView(c, r)
  PROVE  IInv'
<1> DEFINE x == [asset[r] EXCEPT !.state = "uploaded"]
           s == [stage |-> "read", kind |-> "complete", row |-> r, checksum |-> asset[r].checksum,
                 seen |-> asset[r], mine |-> Absent, object |-> NoObject, held |-> {}]
<1>1. TypeOK /\ RemoteStep /\ UNCHANGED episode
  BY RemoteStays DEF CompleteUploadView, Complete, IInv
<1>2. r \in Rows /\ asset[r] \in Copies /\ asset[r] \in Row /\ asset[r].state = "pending_upload"
  BY <1>1, CopiesAreRows DEF CompleteUploadView, Complete
<1>3. asset[r].object = NoObject
  BY <1>2 DEF IInv, Sound
<1>4. {x} \in SUBSET Row /\ x.object = NoObject
  BY <1>2, <1>3 DEF Row, States
<1>5. s \in Running
  BY <1>2 DEF CompleteUploadView, MayRequest, Running, Row
<1>6. asset' = [asset EXCEPT ![r] = x] /\ call' = [call EXCEPT ![c] = s]
  BY AssetsAssumption, <1>1 DEF CompleteUploadView, Complete, Start, TypeOK
<1>7. GoesOn(c, {x})
  <2>1. call'[c] = s
    BY <1>1, <1>6 DEF TypeOK
  <2>2. s.stage = "read" /\ s.row = r /\ s.seen = asset[r] /\ s.mine = Absent
    OBVIOUS
  <2> HIDE DEF s
  <2> QED
    BY <1>2, <1>5, <2>1, <2>2, AbsentIsNoRow DEF GoesOn, Busy, StageFacts, Saving
<1> HIDE DEF x, s
<1>8. /\ asset' \in [Assets -> Row \cup {Absent}]
      /\ \A q \in Assets : asset'[q] \in {asset[q], Absent} \cup {x}
  BY <1>1, <1>4, <1>6 DEF TypeOK
<1>9. /\ call' \in [Calls -> Running \cup {Idle}]
      /\ \A d \in Calls : call'[d] \in {call[d], Idle} \/ GoesOn(d, {x})
  BY <1>1, <1>5, <1>6, <1>7 DEF TypeOK
<1>10. \A d \in Calls : ~Saving(d, NoObject)'
  <2>1. \A d \in Calls \ {c} : call'[d] = call[d]
    BY <1>1, <1>6 DEF TypeOK
  <2>2. \A d \in Calls : ~Saving(d, NoObject)
    BY AssetsAssumption DEF IInv, StageFacts, Saving, Busy, Idle
  <2> QED
    BY <1>7, <2>1, <2>2, AssetsAssumption DEF GoesOn, StageFacts, Saving
<1>11. \A y \in {x} : Sound(y)' /\ \A d \in Calls : ~Saving(d, y.object)'
  BY <1>4, <1>10 DEF Sound
<1> QED
  BY <1>1, <1>4, <1>8, <1>9, <1>11, StepKeeps DEF TypeOK

-----------------------------------------------------------------------------
(* _submit_to_provider. *)

\* The instance is read from what the transaction wrote, or from what is committed.
LEMMA ReadKeeps ==
  ASSUME IInv, UNCHANGED staff, NEW c \in Calls, Read(c)
  PROVE  IInv'
<1> DEFINE row == IF call[c].mine # Absent THEN call[c].mine ELSE asset[call[c].row]
<1>1. /\ TypeOK /\ RemoteStep /\ UNCHANGED episode /\ call[c].stage = "read"
      /\ call[c] \in Running /\ Busy(c) /\ StageFacts(c)
  BY RemoteStays, StagedRuns DEF Read, IInv
<1>2. call[c].row \in Assets /\ {call[c].seen, call[c].mine} \subseteq Copies \cup {Absent}
  BY <1>1, CopiesAreRows DEF StageFacts
<1>3. row # Absent => row \in Copies /\ row \in Row
  BY <1>1, <1>2, CopiesAreRows DEF Rows
<1> HIDE DEF row
<1>4. CASE row # Absent /\ call' = [call EXCEPT ![c].stage = "submit", ![c].seen = row] /\ UNCHANGED asset
  <2>1. /\ call'[c] = [call[c] EXCEPT !.stage = "submit", !.seen = row]
        /\ call' = [call EXCEPT ![c] = call'[c]]
    BY <1>1, <1>4 DEF TypeOK
  <2>2. /\ call'[c] \in Running /\ call'[c].stage = "submit" /\ call'[c].row = call[c].row
        /\ call'[c].seen = row /\ call'[c].mine = call[c].mine
    <3>1. row \in Row
      BY <1>3, <1>4
    <3> QED
      BY <1>1, <2>1, <3>1 DEF Running
  <2>3. GoesOn(c, {})
    BY <1>2, <1>3, <1>4, <2>2, AbsentIsNoRow DEF GoesOn, Busy, StageFacts, Saving
  <2> QED
    BY <1>1, <1>4, <2>1, <2>2, <2>3, CallsStep, {} \in SUBSET Row
<1>5. CASE Settle(c)
  <2> DEFINE new == {call[c].mine} \ {Absent}
  <2>1. new \in SUBSET Copies /\ new \in SUBSET Row
    BY <1>2 DEF Copies
  <2>2. End(c) /\ (asset' = asset \/ \E x \in new : asset' = [asset EXCEPT ![call[c].row] = x])
    BY <1>5 DEF Settle
  <2> HIDE DEF new
  <2>3. \A d \in Calls : call'[d] = call[d] \/ call'[d] = Idle
    BY <1>1, <2>2 DEF End, TypeOK
  <2>4. \A x \in new : Sound(x)' /\ \A d \in Calls : ~Saving(d, x.object)'
    BY <1>1, <2>1, <2>3, SoundStays, CopiesApart DEF Saving, Idle
  <2> QED
    BY <1>1, <2>1, <2>2, <2>4, EndStep
<1> QED
  BY <1>4, <1>5 DEF Read, row

LEMMA SubmitKeeps ==
  ASSUME IInv, UNCHANGED staff, NEW c \in Calls, Submit(c)
  PROVE  IInv' /\ RemoteStep
<1>1. /\ TypeOK /\ UNCHANGED <<asset, episode>> /\ call[c].stage = "submit"
      /\ call[c] \in Running /\ Busy(c) /\ StageFacts(c)
  BY StagedRuns DEF Submit, IInv
<1>2. PICK sent \in Submissions :
        /\ CASE sent.answer = "missing" -> End(c)
             [] sent.answer = "error" -> call' = [call EXCEPT ![c].stage = "fail"]
             [] sent.answer = "id" -> \E o \in Objects :
                  call' = [call EXCEPT ![c].stage = "save", ![c].object = o]
        /\ IF ~sent.made THEN UNCHANGED remote
           ELSE \E o \in Objects :
             /\ remote[o] = "none"
             /\ sent.answer = "id" => call'[c].object = o
             /\ remote' = [remote EXCEPT ![o] =
                  IF sent.answer = "id" THEN "processing" ELSE "abandoned"]
  BY DEF Submit
<1>3. RemoteStep
  <2>1. CASE ~sent.made
    BY <1>2, <2>1, RemoteStays
  <2>2. CASE sent.made
    BY <1>1, <1>2, <2>2 DEF TypeOK, RemoteStep, RemoteStates
  <2> QED
    BY <2>1, <2>2
<1>4. CASE sent.answer = "missing"
  <2>1. End(c)
    BY <1>2, <1>4
  <2> QED
    BY <1>1, <1>3, <2>1, EndStep, {} \in SUBSET Row
<1>5. CASE sent.answer = "error"
  <2>1. call' = [call EXCEPT ![c].stage = "fail"]
    BY <1>2, <1>5
  <2> QED
    BY <1>1, <1>3, <2>1, StageStep
<1>6. CASE sent.answer = "id"
  <2>1. PICK o \in Objects : call' = [call EXCEPT ![c].stage = "save", ![c].object = o]
    BY <1>2, <1>6
  <2>2. /\ call'[c] = [call[c] EXCEPT !.stage = "save", !.object = o]
        /\ call' = [call EXCEPT ![c] = call'[c]]
        /\ \A d \in Calls \ {c} : call'[d] = call[d]
    BY <1>1, <2>1 DEF TypeOK
  <2>3. /\ call'[c] \in Running /\ call'[c].stage = "save" /\ call'[c].row = call[c].row
        /\ call'[c].seen = call[c].seen /\ call'[c].mine = call[c].mine /\ call'[c].object = o
    BY <1>1, <2>2 DEF Running
  <2>4. remote[o] = "none" /\ remote'[o] = "processing"
    BY <1>1, <1>2, <1>6, <2>3, SubmissionsAnswered DEF TypeOK
  <2>5. GoesOn(c, {})
    <3>1. {call[c].seen, call[c].mine} \subseteq Copies \cup {Absent}
      BY <1>1, CopiesAreRows
    <3> QED
      BY <1>1, <2>2, <2>3, <2>4, <3>1, AbsentIsNoRow DEF GoesOn, Busy, StageFacts, Saving
  <2> QED
    BY <1>1, <1>3, <2>2, <2>3, <2>5, CallsStep, {} \in SUBSET Row
<1> QED
  BY <1>3, <1>4, <1>5, <1>6, SubmissionsAnswered

\* What Save writes is neither ready nor removed, and no other request is to name its video.
LEMMA SavedIsSound ==
  ASSUME IInv, NEW c \in Calls, call[c].stage \in {"save", "fail"}
  PROVE  /\ Saved(c) \in Row
         /\ Saved(c).state = (IF call[c].stage = "save" THEN "processing" ELSE "failed")
         /\ Sound(Saved(c))
         /\ \A d \in Calls \ {c} : ~Saving(d, Saved(c).object)
<1>1. call[c] \in Running /\ Busy(c) /\ StageFacts(c) /\ call[c].seen \in Copies /\ call[c].seen \in Row
  BY StagedRuns, CopiesAreRows DEF IInv, StageFacts
<1>2. CASE call[c].stage = "save"
  <2>1. Saved(c) = [call[c].seen EXCEPT !.state = "processing", !.object = call[c].object]
    BY <1>2 DEF Saved
  <2>2. /\ Saved(c) \in Row /\ Saved(c).state = "processing"
        /\ Saved(c).object = call[c].object /\ call[c].object \in Objects
    BY <1>1, <1>2, <2>1 DEF StageFacts, Row, States
  <2> QED
    BY <1>2, <2>2 DEF IInv, Apart, Saving, Sound
<1>3. CASE call[c].stage = "fail"
  <2>1. Saved(c) = [call[c].seen EXCEPT !.state = "failed"]
    BY <1>3 DEF Saved
  <2>2. Saved(c) \in Row /\ Saved(c).state = "failed" /\ Saved(c).object = call[c].seen.object
    BY <1>1, <2>1 DEF Row, States
  <2>3. Sound(Saved(c))
    BY <1>1, <2>2 DEF IInv, Sound
  <2> QED
    BY <1>1, <1>3, <2>2, <2>3, CopiesApart
<1> QED
  BY <1>2, <1>3

LEMMA SaveKeeps ==
  ASSUME IInv, UNCHANGED staff, NEW c \in Calls, Save(c)
  PROVE  IInv'
<1>1. TypeOK /\ RemoteStep /\ UNCHANGED <<remote, episode>> /\ call[c].stage \in {"save", "fail"}
  BY RemoteStays DEF Save, IInv
<1>2. End(c) /\ (asset' = asset \/ asset' = [asset EXCEPT ![call[c].row] = Saved(c)])
  BY DEF Save, Write
<1>3. ASSUME NEW x, x = Saved(c)
      PROVE  x \in Row /\ Sound(x)' /\ \A d \in Calls : ~Saving(d, x.object)'
  <2>1. x \in Row /\ Sound(x) /\ \A d \in Calls \ {c} : ~Saving(d, x.object)
    BY <1>1, <1>3, SavedIsSound
  <2>2. Sound(x)'
    BY <1>1, <2>1 DEF Sound
  <2>3. call'[c] = Idle /\ \A d \in Calls \ {c} : call'[d] = call[d]
    BY <1>1, <1>2 DEF End, TypeOK
  <2> QED
    BY <2>1, <2>2, <2>3 DEF Saving, Idle
<1>4. PICK x : x = Saved(c)
  OBVIOUS
<1>5. {x} \in SUBSET Row /\ \A y \in {x} : Sound(y)' /\ \A d \in Calls : ~Saving(d, y.object)'
  BY <1>3, <1>4
<1>6. asset' = asset \/ \E y \in {x} : asset' = [asset EXCEPT ![call[c].row] = y]
  BY <1>2, <1>4
<1> QED
  BY <1>1, <1>2, <1>5, <1>6, EndStep

LEMMA CrashKeeps ==
  ASSUME IInv, UNCHANGED staff, NEW c \in Calls, Crash(c)
  PROVE  IInv' /\ RemoteStep
<1>1. TypeOK /\ UNCHANGED <<asset, episode>> /\ End(c) /\ Busy(c)
  BY DEF Crash, IInv, Busy
<1>2. RemoteStep
  <2>1. CASE call[c].stage = "save"
    BY <1>1, <2>1 DEF Crash, IInv, StageFacts, TypeOK, RemoteStep, RemoteStates, Saving
  <2>2. CASE call[c].stage # "save"
    BY <2>2, RemoteStays DEF Crash
  <2> QED
    BY <2>1, <2>2
<1> QED
  BY <1>1, <1>2, EndStep, {} \in SUBSET Row

-----------------------------------------------------------------------------
(* Pages, and the actions that lock their row. *)

LEMMA LoadPageKeeps ==
  ASSUME IInv, UNCHANGED staff, NEW c \in Calls, NEW r \in Assets, LoadPage(c, r)
  PROVE  IInv'
<1> DEFINE s == [stage |-> "page", kind |-> "page", row |-> r, checksum |-> asset[r].checksum,
                 seen |-> asset[r], mine |-> Absent, object |-> NoObject, held |-> {}]
<1>1. TypeOK /\ RemoteStep /\ UNCHANGED <<asset, episode>>
  BY RemoteStays DEF LoadPage, IInv
<1>2. asset[r] \in Copies /\ asset[r] \in Row /\ asset[r] # Absent
  BY <1>1, CopiesAreRows, AbsentIsNoRow DEF LoadPage
<1>3. s \in Running
  BY <1>2 DEF LoadPage, MayRequest, Running, Row
<1>4. call' = [call EXCEPT ![c] = s]
  BY AssetsAssumption DEF LoadPage, Start
<1>5. call'[c] = s
  BY <1>1, <1>4 DEF TypeOK
<1>6. GoesOn(c, {})
  <2>1. s.stage = "page" /\ s.row = r /\ s.seen = asset[r] /\ s.mine = Absent
    OBVIOUS
  <2> HIDE DEF s
  <2> QED
    BY <1>2, <1>3, <1>5, <2>1, AbsentIsNoRow DEF GoesOn, Busy, StageFacts, Saving
<1> HIDE DEF s
<1> QED
  BY <1>1, <1>3, <1>4, <1>5, <1>6, CallsStep, {} \in SUBSET Row

\* What the page was made from is written back, true to its video as it was then.
LEMMA SavePageKeeps ==
  ASSUME IInv, UNCHANGED staff, NEW c \in Calls, SavePage(c)
  PROVE  IInv'
<1>1. /\ TypeOK /\ RemoteStep /\ UNCHANGED episode /\ Busy(c) /\ StageFacts(c)
      /\ call[c].stage = "page"
  BY RemoteStays, StagedRuns DEF SavePage, IInv
<1>2. call[c].seen \in Copies /\ call[c].seen \in Row
  BY <1>1, CopiesAreRows DEF StageFacts
<1>3. End(c) /\ (asset' = asset \/ asset' = [asset EXCEPT ![call[c].row] = call[c].seen])
  BY DEF SavePage, Write
<1> DEFINE new == {call[c].seen}
<1>4. \A d \in Calls : call'[d] = call[d] \/ call'[d] = Idle
  BY <1>1, <1>3 DEF End, TypeOK
<1>5. \A x \in new : x \in Copies /\ x \in Row
  BY <1>2
<1>6. asset' = asset \/ \E x \in new : asset' = [asset EXCEPT ![call[c].row] = x]
  BY <1>3
<1> HIDE DEF new
<1>7. \A x \in new : Sound(x)' /\ \A d \in Calls : ~Saving(d, x.object)'
  BY <1>1, <1>4, <1>5, SoundStays, CopiesApart DEF Saving, Idle
<1> QED
  BY <1>1, <1>3, <1>5, <1>6, <1>7, EndStep

\* A poll makes a row ready when its video is, and otherwise leaves or fails it.
LEMMA PollsAreSound ==
  ASSUME IInv, NEW row \in Row, NEW x \in Polled(row),
         row.object # NoObject => remote[row.object] # "none",
         row.state = "processing" \/ (Sound(row) /\ row.state # "ready" /\ row.state # "removed")
  PROVE  x \in Row /\ x.object = row.object /\ Sound(x)
<1>1. \/ x = [row EXCEPT !.state = "failed"]
      \/ row.object # NoObject /\ x = row
      \/ row.object # NoObject /\ remote[row.object] = "ready" /\ x = [row EXCEPT !.state = "ready"]
  BY DEF Polled
<1> QED
  BY <1>1 DEF Row, States, Sound

LEMMA ReconcileKeeps ==
  ASSUME IInv, UNCHANGED staff, NEW r \in Assets, RetrySelected(r)
  PROVE  IInv'
<1>1. TypeOK /\ RemoteStep /\ UNCHANGED <<remote, episode, call>>
  BY RemoteStays DEF RetrySelected, Reconcile, IInv
<1>2. asset[r] \in Row /\ asset[r] \in Copies /\ Sound(asset[r])
  BY <1>1, CopiesAreRows DEF RetrySelected, IInv
<1>3. \A d \in Calls : ~Saving(d, asset[r].object)
  BY <1>2, CopiesApart
<1>4. PICK x : /\ asset' = [asset EXCEPT ![r] = x]
               /\ x \in Row /\ x.object = asset[r].object /\ Sound(x)
  <2>1. CASE asset[r].state \in {"pending_upload", "uploaded", "processing"}
    <3>1. PICK x \in Polled(asset[r]) : asset' = [asset EXCEPT ![r] = x]
      BY <2>1 DEF RetrySelected, Reconcile
    <3> QED
      BY <1>2, <2>1, <3>1, PollsAreSound DEF Sound
  <2>2. CASE asset[r].state = "failed"
    <3> DEFINE row == [asset[r] EXCEPT !.state = "processing"]
    <3>1. PICK x \in Polled(row) : asset' = [asset EXCEPT ![r] = x]
      BY <2>2 DEF RetrySelected, Reconcile
    <3>2. row \in Row /\ row.object = asset[r].object /\ row.state = "processing"
      BY <1>2 DEF Row, States
    <3> HIDE DEF row
    <3>3. row.object # NoObject => remote[row.object] # "none"
      BY <1>2, <3>2 DEF Sound
    <3>4. x \in Row /\ x.object = row.object /\ Sound(x)
      BY <3>1, <3>2, <3>3, PollsAreSound
    <3> QED
      BY <3>1, <3>2, <3>4
  <2> QED
    BY <2>1, <2>2 DEF RetrySelected, Reconcile
<1>5. Sound(x)' /\ \A d \in Calls : ~Saving(d, x.object)
  BY <1>1, <1>3, <1>4 DEF Sound
<1> QED
  BY <1>1, <1>4, <1>5, RowStep

LEMMA TakedownKeeps ==
  ASSUME IInv, UNCHANGED staff, NEW r \in Assets, TakedownSelected(r)
  PROVE  IInv' /\ RemoteStep
<1> DEFINE x == [asset[r] EXCEPT !.state = "removed"]
<1>1. TypeOK /\ UNCHANGED <<episode, call>>
  BY DEF TakedownSelected, Takedown, IInv
<1>2. asset[r] \in Row /\ asset[r] \in Copies /\ asset[r].object \in Objects \cup {NoObject}
  BY <1>1, CopiesAreRows DEF TakedownSelected, Row
<1>3. x \in Row /\ x.object = asset[r].object /\ x.state = "removed"
  BY <1>2 DEF Row, States
<1>4. RemoteStep
  BY <1>2, RemoteStays, VideoExpires DEF TakedownSelected, Takedown
<1>5. \/ asset' = asset
      \/ /\ asset' = [asset EXCEPT ![r] = x]
         /\ asset[r].object # NoObject => remote' = Expired(asset[r].object)
  BY DEF TakedownSelected, Takedown
<1> HIDE DEF x
<1>6. CASE asset' = asset
  <2>1. /\ asset' \in [Assets -> Row \cup {Absent}] /\ call' \in [Calls -> Running \cup {Idle}]
        /\ episode' \in BOOLEAN
    BY <1>1, <1>6 DEF TypeOK
  <2> QED
    BY <1>1, <1>4, <1>6, <2>1, StepKeeps, {} \in SUBSET Row
<1>7. CASE asset' = [asset EXCEPT ![r] = x] /\ (asset[r].object # NoObject => remote' = Expired(asset[r].object))
  <2>1. asset[r].object # NoObject => remote'[asset[r].object] = "deleted"
    BY <1>1, <1>2, <1>7 DEF Expired, TypeOK
  <2>2. \A y : y = x => Sound(y)'
    BY <1>3, <2>1 DEF Sound
  <2>3. \A d \in Calls : ~Saving(d, x.object)
    BY <1>2, <1>3, CopiesApart
  <2>4. PICK y : y = x
    OBVIOUS
  <2> QED
    BY <1>1, <1>3, <1>4, <1>7, <2>2, <2>3, <2>4, RowStep
<1> QED
  BY <1>4, <1>5, <1>6, <1>7

LEMMA DeleteEpisodeKeeps ==
  ASSUME IInv, UNCHANGED staff, DeleteEpisode
  PROVE  IInv' /\ RemoteStep
<1>1. TypeOK
  BY DEF IInv
<1>2. \A r \in Rows : asset[r].object # NoObject => remote[asset[r].object] # "none"
  BY <1>1, CopiesAreRows DEF IInv, Sound
<1>3. RemoteStep
  BY <1>1, <1>2, AssetsAssumption DEF DeleteEpisode, TypeOK, RemoteStep, RemoteStates
<1>4. /\ asset' \in [Assets -> Row \cup {Absent}]
      /\ \A r \in Assets : asset'[r] \in {asset[r], Absent} \cup {}
      /\ call' \in [Calls -> Running \cup {Idle}] /\ \A c \in Calls : call'[c] \in {call[c], Idle}
      /\ episode' \in BOOLEAN
  BY <1>1 DEF DeleteEpisode, TypeOK
<1> QED
  BY <1>3, <1>4, StepKeeps, {} \in SUBSET Row

LEMMA EncodeKeeps ==
  ASSUME IInv, UNCHANGED staff, NEW o \in Objects, Encode(o)
  PROVE  IInv' /\ RemoteStep
<1>1. TypeOK
  BY DEF IInv
<1>2. RemoteStep
  BY <1>1, ReadingsEnd DEF Encode, TypeOK, RemoteStep, RemoteStates
<1>3. /\ asset' \in [Assets -> Row \cup {Absent}]
      /\ \A r \in Assets : asset'[r] \in {asset[r], Absent} \cup {}
      /\ call' \in [Calls -> Running \cup {Idle}] /\ \A c \in Calls : call'[c] \in {call[c], Idle}
      /\ episode' \in BOOLEAN
  BY <1>1 DEF Encode, TypeOK
<1> QED
  BY <1>2, <1>3, StepKeeps, {} \in SUBSET Row

-----------------------------------------------------------------------------
LEMMA StepIInv ==
  ASSUME IInv, [Next]_vars
  PROVE  IInv'
<1>1. CASE UNCHANGED vars
  <2>1. /\ asset' \in [Assets -> Row \cup {Absent}]
        /\ \A r \in Assets : asset'[r] \in {asset[r], Absent} \cup {}
        /\ call' \in [Calls -> Running \cup {Idle}] /\ \A c \in Calls : call'[c] \in {call[c], Idle}
        /\ episode' \in BOOLEAN /\ staff' = staff /\ RemoteStep
    BY <1>1, RemoteStays DEF vars, IInv, TypeOK
  <2> QED
    BY <2>1, StepKeeps, {} \in SUBSET Row
<1>2. CASE Next
  <2>1. UNCHANGED staff
    BY <1>2 DEF Next
  <2>2. ASSUME NEW c \in Calls,
               \/ \E k \in Checksums : Add(c, k)
               \/ \E r \in Assets : CompleteUploadView(c, r) \/ LoadPage(c, r)
               \/ Insert(c) \/ Expire(c) \/ Clear(c)
               \/ Read(c) \/ Submit(c) \/ Save(c) \/ SavePage(c) \/ Crash(c)
        PROVE  IInv'
    BY <2>1, <2>2, AddKeeps, CompleteKeeps, LoadPageKeeps, InsertKeeps, ExpireKeeps, ClearKeeps,
       ReadKeeps, SubmitKeeps, SaveKeeps, SavePageKeeps, CrashKeeps
  <2>3. ASSUME NEW k \in Checksums, SignedUploadView(k)
        PROVE  IInv'
    BY <2>1, <2>3, BeginUploadKeeps DEF SignedUploadView
  <2>4. ASSUME NEW r \in Assets, RetrySelected(r) \/ TakedownSelected(r)
        PROVE  IInv'
    BY <2>1, <2>4, ReconcileKeeps, TakedownKeeps
  <2>5. DeleteEpisode => IInv'
    BY <2>1, DeleteEpisodeKeeps
  <2>6. ASSUME NEW o \in Objects, Encode(o)
        PROVE  IInv'
    BY <2>1, <2>6, EncodeKeeps
  <2> QED
    BY <1>2, <2>2, <2>3, <2>4, <2>5, <2>6 DEF Next
<1> QED
  BY <1>1, <1>2

THEOREM Invariance == Spec => []IInv
<1>1. Init => IInv
  BY InitIInv
<1>2. IInv /\ [Next]_vars => IInv'
  BY StepIInv
<1> QED
  BY <1>1, <1>2, PTL DEF Spec

\* Rows, videos and requests have the shapes that ingest.py gives them.
THEOREM TypeCorrect == Spec => []TypeOK
<1>1. IInv => TypeOK
  BY DEF IInv
<1> QED
  BY <1>1, Invariance, PTL

\* The invariant's part about copies, of the rows that are committed.
LEMMA RowsAreSound ==
  ASSUME IInv, NEW r \in Rows
  PROVE  Sound(asset[r])
BY CopiesAreRows DEF IInv

\* Whoever wrote a row last, with an instance read however long before: if it says ready
\* its video was encoded with captions and thumbnail.
THEOREM ReadyMediaWasEncoded == Spec => []ReadyWasEncoded
<1>1. IInv => ReadyWasEncoded
  BY RowsAreSound DEF ReadyWasEncoded, Sound
<1> QED
  BY <1>1, Invariance, PTL

\* A takedown fails closed, whatever fails: the video of a removed row is deleted.
THEOREM RemovedMediaIsGone == Spec => []RemovedIsGone
<1>1. IInv => RemovedIsGone
  BY RowsAreSound DEF RemovedIsGone, Sound
<1> QED
  BY <1>1, Invariance, PTL

-----------------------------------------------------------------------------
(* While staff work alone. *)

\* The provider still holds the video, and a row names it; or nothing is left of it.
Live(o) == remote[o] \in {"processing", "ready", "bare", "failed"}
Named(o) == \E r \in Rows : asset[r].object = o
Over(o) == o = NoObject \/ remote[o] = "deleted"

\* One transaction makes two transitions at most.
MayBecome(s, t) == t \in UNION {Allowed[u] : u \in Allowed[s]}

\* What a request that runs alone knows of its row until it is written: the failed row
\* whose video is deleted, the new row, or the row that was claimed.
WorksAlone(c) ==
  LET s == call[c].stage
      r == call[c].row
  IN /\ s \in {"insert", "reuse", "clear", "page"} => call[c].mine = Absent
     /\ s = "insert" => Active = {}
     /\ s \notin {"insert", "page"} => Active \subseteq {r}
     /\ s \in {"reuse", "page"} => call[c].seen = asset[r]
     /\ s \in {"reuse", "clear"} => r \in Rows /\ asset[r].state = "failed"
     /\ s \in {"clear", "read", "submit", "save", "fail"} /\ r \in Rows => Over(asset[r].object)
     /\ s \in {"read", "submit", "save", "fail"} =>
          IF call[c].mine = Absent
          THEN r \in Rows /\ asset[r].state = "uploaded"
          ELSE /\ call[c].mine.object = NoObject
               /\ call[c].mine.state = IF r \in Rows THEN "failed" ELSE "uploaded"
               /\ r \in Rows => asset[r].state = "failed"
     /\ s \in {"submit", "save", "fail"} =>
          call[c].seen = IF call[c].mine = Absent THEN asset[r] ELSE call[c].mine

\* One request at a time and one medium in flight, and no video without a row or a request.
AloneInv == staff = "alone" =>
  /\ \A q, r \in Active : q = r
  /\ \A c, d \in Calls : Busy(c) /\ Busy(d) => c = d
  /\ \A c \in Calls : Busy(c) => WorksAlone(c)
  /\ \A o \in Objects : Live(o) => Named(o) \/ \E c \in Calls : Saving(c, o)

\* No row makes a step that is not allowed.
Transitions == \A r \in Rows : r \in Rows' => MayBecome(asset[r].state, asset'[r].state)

LEMMA AllowedTransitions ==
  \A s \in States :
    /\ Allowed[s] \subseteq States
    /\ s \in Allowed[s] /\ "removed" \in Allowed[s]
    /\ \A t \in Allowed[s] : MayBecome(s, t)
    /\ s # "ready" /\ s # "removed" => "failed" \in Allowed[s]
    /\ s = "failed" => MayBecome(s, "ready") /\ "processing" \in Allowed[s]
    /\ s = "uploaded" => "processing" \in Allowed[s]
<1>1. ASSUME NEW s \in States
      PROVE  /\ Allowed[s] \subseteq States
             /\ s \in Allowed[s] /\ "removed" \in Allowed[s]
             /\ s # "ready" /\ s # "removed" => "failed" \in Allowed[s]
             /\ s = "failed" => "processing" \in Allowed[s]
             /\ s = "uploaded" => "processing" \in Allowed[s]
             /\ s = "processing" => "ready" \in Allowed[s]
  BY DEF Allowed, States
<1>2. \A s \in States : \A t \in Allowed[s] : MayBecome(s, t)
  BY <1>1 DEF MayBecome
<1>3. MayBecome("failed", "ready")
  BY <1>1, "failed" \in States, "processing" \in States DEF MayBecome, States
<1> QED
  BY <1>1, <1>2, <1>3

\* Beside a request that runs alone there is no other.
LEMMA NobodyElse ==
  ASSUME AloneInv, staff = "alone", NEW c \in Calls, Busy(c)
  PROVE  /\ \A d \in Calls \ {c} : call[d] = Idle
         /\ WorksAlone(c)
BY DEF AloneInv, Busy

LEMMA NothingStarted ==
  ASSUME staff = "alone", MayStart
  PROVE  \A d \in Calls : call[d] = Idle /\ \A o : ~Saving(d, o)
BY DEF MayStart, Saving, Idle

\* A step that leaves the rows alone.
LEMMA RowsStay ==
  ASSUME IInv, AloneInv, staff = "alone", UNCHANGED asset,
         \A c, d \in Calls : Busy(c)' /\ Busy(d)' => c = d,
         \A c \in Calls : Busy(c)' => WorksAlone(c)',
         \A o \in Objects : Live(o)' =>
           \/ \E d \in Calls : Saving(d, o)'
           \/ Live(o) /\ \A d \in Calls : ~Saving(d, o)
  PROVE  AloneInv' /\ Transitions
<1>1. Rows' = Rows /\ Active' = Active /\ \A o : Named(o)' <=> Named(o)
  BY DEF Rows, Active, Named
<1>2. AloneInv'
  BY <1>1 DEF AloneInv
<1>3. Transitions
  BY AllowedTransitions, CopiesAreRows DEF Transitions, IInv, Row
<1> QED
  BY <1>2, <1>3

\* A request goes on and the videos stay; it is the only one.
LEMMA GoesOnAlone ==
  ASSUME IInv, AloneInv, staff = "alone", UNCHANGED <<asset, remote>>,
         NEW c \in Calls, \A d \in Calls \ {c} : call[d] = Idle,
         call' = [call EXCEPT ![c] = call'[c]], \A o : ~Saving(c, o),
         Busy(c)' => WorksAlone(c)'
  PROVE  AloneInv' /\ Transitions
<1>1. \A d \in Calls \ {c} : call'[d] = Idle
  BY DEF IInv, TypeOK
<1>2. \A o \in Objects : Live(o)' => Live(o) /\ \A d \in Calls : ~Saving(d, o)
  BY DEF Live, Saving, Idle
<1> QED
  BY <1>1, <1>2, RowsStay DEF Busy

\* A row is written and no request is left running.
LEMMA RowWritten ==
  ASSUME IInv, AloneInv, staff = "alone", \A d \in Calls : call'[d] = Idle,
         \A o \in Objects : Live(o)' => Live(o),
         NEW r \in Assets, NEW x \in Row, asset' = [asset EXCEPT ![r] = x],
         r \in Rows => /\ asset[r].object = x.object \/ Over(asset[r].object)
                       /\ MayBecome(asset[r].state, x.state),
         x.state \in InFlight => Active \subseteq {r},
         \A d \in Calls, o \in Objects : Saving(d, o) => x.object = o
  PROVE  AloneInv' /\ Transitions
<1>1. TypeOK
  BY DEF IInv
<1>2. asset'[r] = x /\ \A q \in Assets \ {r} : asset'[q] = asset[q]
  BY <1>1 DEF TypeOK
<1>3. r \in Rows' /\ Rows' = Rows \cup {r}
  BY <1>2, AbsentIsNoRow DEF Rows
<1>4. Active' \subseteq Active \cup {r} /\ (x.state \notin InFlight => r \notin Active')
  BY <1>2, <1>3 DEF Active
<1>5. \A p, q \in Active' : p = q
  BY <1>4 DEF AloneInv
<1>6. ASSUME NEW o \in Objects, Live(o)'
      PROVE  Named(o)'
  <2>1. Live(o)
    BY <1>6
  <2>2. CASE \E c \in Calls : Saving(c, o)
    BY <2>2, <1>2, <1>3 DEF Named
  <2>3. CASE Named(o)
    <3>1. PICK q \in Rows : asset[q].object = o
      BY <2>3 DEF Named
    <3>2. CASE q = r
      <4>1. ~Over(o)
        BY <2>1, AssetsAssumption DEF Live, Over
      <4> QED
        BY <1>2, <1>3, <3>1, <3>2, <4>1 DEF Named
    <3>3. CASE q # r
      BY <1>2, <1>3, <3>1, <3>3 DEF Named, Rows
    <3> QED
      BY <3>2, <3>3
  <2> QED
    BY <2>1, <2>2, <2>3 DEF AloneInv
<1>7. AloneInv'
  BY <1>5, <1>6 DEF AloneInv, Busy
<1>8. Transitions
  <2>1. \A q \in Rows : q # r => asset'[q] = asset[q] /\ asset[q].state \in States
    BY <1>1, <1>2, CopiesAreRows DEF Row, Rows
  <2> QED
    BY <1>2, <2>1, AllowedTransitions DEF Transitions
<1> QED
  BY <1>7, <1>8

LEMMA AddAlone ==
  ASSUME IInv, AloneInv, staff = "alone", NEW c \in Calls, NEW k \in Checksums, Add(c, k)
  PROVE  AloneInv' /\ Transitions
<1> DEFINE siblings == {r \in Rows : asset[r].checksum = k /\ asset[r].state = "failed"}
           newest == CHOOSE r \in siblings : \A q \in siblings : q <= r
<1>1. TypeOK /\ UNCHANGED <<asset, remote>> /\ Active = {} /\ \A d \in Calls : call[d] = Idle
  BY NothingStarted DEF Add, MayRequest, IInv
<1>2. Rows' = Rows /\ Active' = Active
  BY <1>1 DEF Rows, Active
<1>3. /\ call' = [call EXCEPT ![c] = call'[c]]
      /\ \/ /\ call'[c].stage = "insert" /\ call'[c].mine = Absent
         \/ /\ call'[c].stage = "reuse" /\ call'[c].mine = Absent
            /\ call'[c].row \in Rows /\ asset[call'[c].row].state = "failed"
            /\ call'[c].seen = asset[call'[c].row]
  <2>1. CASE siblings = {}
    <3>1. Start(c, "add", "insert", Absent, k)
      BY <2>1 DEF Add
    <3> QED
      BY <1>1, <3>1 DEF Start, TypeOK
  <2>2. CASE siblings # {}
    <3>1. newest \in siblings
      <4>1. siblings \in SUBSET Assets
        BY DEF Rows
      <4> HIDE DEF siblings
      <4> QED
        BY <2>2, <4>1, NewestExists
    <3>2. Start(c, "add", "reuse", newest, k)
      BY <2>2 DEF Add
    <3>3. newest \in Rows /\ newest \in Assets /\ asset[newest].state = "failed"
      BY <3>1 DEF Rows
    <3> HIDE DEF newest
    <3>4. newest # Absent
      BY <3>3, AssetsAssumption
    <3> QED
      BY <1>1, <3>2, <3>3, <3>4 DEF Start, TypeOK
  <2> QED
    BY <2>1, <2>2
<1>4. WorksAlone(c)'
  BY <1>1, <1>2, <1>3 DEF WorksAlone
<1> QED
  BY <1>1, <1>3, <1>4, GoesOnAlone DEF Saving, Idle

LEMMA InsertAlone ==
  ASSUME IInv, AloneInv, staff = "alone", NEW c \in Calls, Insert(c)
  PROVE  AloneInv' /\ Transitions
<1>1. /\ TypeOK /\ UNCHANGED <<asset, remote>> /\ call[c].stage = "insert"
      /\ Busy(c) /\ call[c] \in Running
  BY StagedRuns DEF Insert, IInv
<1>2. WorksAlone(c) /\ (\A d \in Calls \ {c} : call[d] = Idle) /\ \A o : ~Saving(c, o)
  BY <1>1, NobodyElse DEF Saving
<1>3. CASE End(c)
  <2>1. call' = [call EXCEPT ![c] = call'[c]] /\ ~Busy(c)'
    BY <1>1, <1>3 DEF End, TypeOK, Busy
  <2> QED
    BY <1>1, <1>2, <2>1, GoesOnAlone
<1>4. ASSUME NEW r \in Assets, NextRow(r),
             call' = [call EXCEPT
               ![c].stage = "read", ![c].row = r, ![c].held = {Index, r},
               ![c].mine = [state |-> "uploaded", checksum |-> call[c].checksum,
                            object |-> NoObject]]
      PROVE  AloneInv' /\ Transitions
  <2> DEFINE x == [state |-> "uploaded", checksum |-> call[c].checksum, object |-> NoObject]
  <2>1. x \in Row /\ x.object = NoObject /\ x.state = "uploaded"
    BY <1>1 DEF Running, Row, States
  <2>2. call' = [call EXCEPT ![c].stage = "read", ![c].row = r, ![c].held = {Index, r}, ![c].mine = x]
    BY <1>4
  <2> HIDE DEF x
  <2>3. /\ call'[c] = [call[c] EXCEPT !.stage = "read", !.row = r, !.held = {Index, r}, !.mine = x]
        /\ call' = [call EXCEPT ![c] = call'[c]]
    BY <1>1, <2>2 DEF TypeOK
  <2>4. call'[c].stage = "read" /\ call'[c].row = r /\ call'[c].mine = x
    BY <1>1, <2>3 DEF Running
  <2>5. Rows' = Rows /\ Active' = Active /\ Active = {} /\ r \notin Rows /\ x # Absent
    BY <1>1, <1>2, <1>4, <2>1, AbsentIsNoRow DEF Rows, Active, WorksAlone, NextRow
  <2>6. WorksAlone(c)'
    BY <2>1, <2>4, <2>5 DEF WorksAlone
  <2> QED
    BY <1>1, <1>2, <2>3, <2>6, GoesOnAlone
<1> QED
  BY <1>3, <1>4 DEF Insert

\* Afterwards the failed row names no video that the provider holds.
LEMMA ExpireAlone ==
  ASSUME IInv, AloneInv, staff = "alone", NEW c \in Calls, Expire(c)
  PROVE  AloneInv' /\ Transitions
<1> DEFINE o == call[c].seen.object
<1>1. /\ TypeOK /\ UNCHANGED asset /\ call[c].stage = "reuse"
      /\ Busy(c) /\ call[c] \in Running /\ StageFacts(c)
  BY StagedRuns DEF Expire, IInv
<1>2. WorksAlone(c) /\ (\A d \in Calls \ {c} : call[d] = Idle) /\ \A p : ~Saving(c, p)
  BY <1>1, NobodyElse DEF Saving
<1>3. o \in Objects \cup {NoObject} /\ call[c].seen = asset[call[c].row]
  BY <1>1, <1>2, CopiesAreRows DEF WorksAlone, StageFacts, Row
<1>4. UNCHANGED remote \/ (o # NoObject /\ remote' = Expired(o))
  BY DEF Expire
<1>5. \A p \in Objects : Live(p)' => Live(p)
  BY <1>1, <1>3, <1>4 DEF Live, Expired, TypeOK
<1>6. \A d \in Calls \ {c} : call'[d] = Idle
  BY <1>1, <1>2 DEF Expire, End, TypeOK
<1>7. Busy(c)' => WorksAlone(c)'
  <2> SUFFICES ASSUME Busy(c)' PROVE WorksAlone(c)'
    OBVIOUS
  <2>1. call' = [call EXCEPT ![c].stage = "clear"] /\ (o # NoObject => remote' = Expired(o))
    BY <1>1 DEF Expire, End, Busy, TypeOK
  <2>2. call'[c] = [call[c] EXCEPT !.stage = "clear"]
    BY <1>1, <2>1 DEF TypeOK
  <2>3. call'[c].stage = "clear" /\ call'[c].row = call[c].row /\ call'[c].mine = call[c].mine
    BY <1>1, <2>2 DEF Running
  <2>4. \A p : p = o => Over(p)'
    BY <1>1, <1>3, <2>1 DEF Over, Expired, TypeOK
  <2>5. Rows' = Rows /\ Active' = Active
    BY <1>1 DEF Rows, Active
  <2>6. /\ call[c].mine = Absent /\ Active \subseteq {call[c].row}
        /\ call[c].row \in Rows /\ asset[call[c].row].state = "failed"
    BY <1>1, <1>2 DEF WorksAlone
  <2>7. \A q : q = call[c].row => Over(asset[q].object)'
    BY <1>1, <1>3, <2>4
  <2> QED
    BY <1>1, <2>3, <2>5, <2>6, <2>7 DEF WorksAlone
<1> QED
  BY <1>1, <1>2, <1>5, <1>6, <1>7, RowsStay DEF Busy, Saving, Idle

LEMMA ClearAlone ==
  ASSUME IInv, AloneInv, staff = "alone", NEW c \in Calls, Clear(c)
  PROVE  AloneInv' /\ Transitions
<1> DEFINE r == call[c].row
           x == [asset[r] EXCEPT !.object = NoObject]
<1>1. /\ TypeOK /\ UNCHANGED <<asset, remote>> /\ call[c].stage = "clear"
      /\ Busy(c) /\ call[c] \in Running
  BY StagedRuns DEF Clear, IInv
<1>2. WorksAlone(c) /\ (\A d \in Calls \ {c} : call[d] = Idle) /\ \A o : ~Saving(c, o)
  BY <1>1, NobodyElse DEF Saving
<1>3. /\ r \in Rows /\ asset[r] \in Row /\ asset[r].state = "failed"
      /\ Over(asset[r].object) /\ Active \subseteq {r}
  BY <1>1, <1>2, CopiesAreRows DEF WorksAlone
<1>4. call' = [call EXCEPT ![c].stage = "read", ![c].held = {r}, ![c].mine = x]
  BY <1>3 DEF Clear
<1>5. x \in Row /\ x # Absent /\ x.object = NoObject /\ x.state = "failed"
  BY <1>3, AbsentIsNoRow DEF Row
<1> HIDE DEF x
<1>6. /\ call'[c] = [call[c] EXCEPT !.stage = "read", !.held = {r}, !.mine = x]
      /\ call' = [call EXCEPT ![c] = call'[c]]
  BY <1>1, <1>4 DEF TypeOK
<1>7. call'[c].stage = "read" /\ call'[c].row = r /\ call'[c].mine = x
  BY <1>1, <1>6 DEF Running
<1>8. Rows' = Rows /\ Active' = Active /\ \A o : Over(o)' <=> Over(o)
  BY <1>1 DEF Rows, Active, Over
<1>9. \A q : q = r => Over(asset[q].object)'
  BY <1>1, <1>3 DEF Over
<1>10. WorksAlone(c)'
  BY <1>1, <1>3, <1>5, <1>7, <1>8, <1>9 DEF WorksAlone
<1> QED
  BY <1>1, <1>2, <1>6, <1>10, GoesOnAlone

\* The claimed row is the one in flight, and it names no video yet.
LEMMA CompleteAlone ==
  ASSUME IInv, AloneInv, staff = "alone", NEW c \in Calls, NEW r \in Assets, CompleteUploadView(c, r)
  PROVE  AloneInv' /\ Transitions
<1> DEFINE x == [asset[r] EXCEPT !.state = "uploaded"]
<1>1. TypeOK /\ UNCHANGED remote /\ \A d \in Calls : call[d] = Idle
  BY NothingStarted DEF CompleteUploadView, Complete, MayRequest, IInv
<1>2. r \in Rows /\ asset[r] \in Row /\ asset[r].state = "pending_upload" /\ asset[r].object = NoObject
  BY <1>1, CopiesAreRows DEF CompleteUploadView, Complete, IInv, Sound
<1>3. asset' = [asset EXCEPT ![r] = x] /\ Start(c, "complete", "read", r, asset[r].checksum)
  BY <1>1 DEF CompleteUploadView, Complete, TypeOK
<1>4. x \in Row /\ x.state = "uploaded" /\ x.object = NoObject
  BY <1>2 DEF Row, States
<1> HIDE DEF x
<1>5. asset'[r] = x /\ \A q \in Assets \ {r} : asset'[q] = asset[q]
  BY <1>1, <1>3 DEF TypeOK
<1>6. Rows' = Rows
  BY <1>2, <1>4, <1>5, AbsentIsNoRow DEF Rows
<1>7. Active' = Active /\ Active = {r}
  <2>1. r \in Active /\ r \in Active'
    BY <1>2, <1>4, <1>5, <1>6 DEF Active, InFlight
  <2>2. Active' \subseteq Active
    BY <1>5, <1>6, <2>1 DEF Active, Rows
  <2>3. Active = {r}
    BY <2>1 DEF AloneInv
  <2> QED
    BY <2>1, <2>2, <2>3
<1>8. /\ call'[c].stage = "read" /\ call'[c].row = r /\ call'[c].mine = Absent
      /\ \A d \in Calls \ {c} : call'[d] = Idle
  BY <1>1, <1>3 DEF Start, TypeOK
<1>9. WorksAlone(c)'
  <2>1. \A q : q = r => Over(asset[q].object)'
    BY <1>4, <1>5 DEF Over
  <2> QED
    BY <1>2, <1>4, <1>5, <1>6, <1>7, <1>8, <2>1 DEF WorksAlone
<1>10. ASSUME NEW o \in Objects, Live(o)'
       PROVE  Named(o)'
  <2>1. Named(o)
    BY <1>1, <1>10 DEF AloneInv, Live, Saving, Idle
  <2> QED
    BY <1>2, <1>5, <1>6, <2>1, AssetsAssumption DEF Named, Rows
<1>11. AloneInv'
  <2>1. (\A p, q \in Active' : p = q) /\ \A d \in Calls : Busy(d)' => d = c
    BY <1>7, <1>8 DEF Busy
  <2> QED
    BY <1>9, <1>10, <2>1 DEF AloneInv
<1>12. Transitions
  <2>1. \A q \in Rows \ {r} : asset'[q] = asset[q] /\ asset[q].state \in States
    BY <1>1, <1>5, CopiesAreRows DEF Row, Rows
  <2>2. MayBecome("pending_upload", "uploaded")
    BY AllowedTransitions DEF Allowed, States
  <2> QED
    BY <1>2, <1>4, <1>5, <2>1, <2>2, AllowedTransitions DEF Transitions
<1> QED
  BY <1>11, <1>12

\* The request goes on with the instance it has read, and its row is as it was.
LEMMA WorksOn ==
  ASSUME NEW c \in Calls, WorksAlone(c), UNCHANGED asset,
         call[c].stage \in {"read", "submit"}, call'[c].stage \in {"submit", "save", "fail"},
         call'[c].row = call[c].row, call'[c].mine = call[c].mine,
         call'[c].seen = IF call[c].mine = Absent THEN asset[call[c].row] ELSE call[c].mine,
         \A r \in Rows : Over(asset[r].object) => Over(asset[r].object)'
  PROVE  WorksAlone(c)'
<1>1. PICK r, mine : r = call[c].row /\ mine = call[c].mine
  OBVIOUS
<1>2. /\ Active \subseteq {r}
      /\ r \in Rows => Over(asset[r].object)
      /\ IF mine = Absent
         THEN r \in Rows /\ asset[r].state = "uploaded"
         ELSE /\ mine.object = NoObject
              /\ mine.state = IF r \in Rows THEN "failed" ELSE "uploaded"
              /\ r \in Rows => asset[r].state = "failed"
  BY <1>1 DEF WorksAlone
<1>3. Rows' = Rows /\ Active' = Active
  BY DEF Rows, Active
<1>4. r \in Rows' => Over(asset[r].object)'
  BY <1>2, <1>3
<1>5. call'[c].row = r /\ call'[c].mine = mine /\ call'[c].seen = IF mine = Absent THEN asset'[r] ELSE mine
  BY <1>1
<1> QED
  BY <1>2, <1>3, <1>4, <1>5 DEF WorksAlone

LEMMA ReadAlone ==
  ASSUME IInv, AloneInv, staff = "alone", NEW c \in Calls, Read(c)
  PROVE  AloneInv' /\ Transitions
<1> DEFINE r == call[c].row
           row == IF call[c].mine # Absent THEN call[c].mine ELSE asset[r]
<1>1. /\ TypeOK /\ UNCHANGED remote /\ call[c].stage = "read"
      /\ Busy(c) /\ call[c] \in Running /\ StageFacts(c) /\ r \in Assets
  BY StagedRuns DEF Read, IInv, StageFacts
<1>2. WorksAlone(c) /\ (\A d \in Calls \ {c} : call[d] = Idle) /\ \A o : ~Saving(c, o)
  BY <1>1, NobodyElse DEF Saving
<1>3. CASE row # Absent /\ call' = [call EXCEPT ![c].stage = "submit", ![c].seen = row] /\ UNCHANGED asset
  <2> HIDE DEF row
  <2>1. row \in Row
    BY <1>1, <1>3 DEF row, TypeOK, Running
  <2>2. /\ call'[c] = [call[c] EXCEPT !.stage = "submit", !.seen = row]
        /\ call' = [call EXCEPT ![c] = call'[c]]
    BY <1>1, <1>3 DEF TypeOK
  <2>3. /\ call'[c].stage = "submit" /\ call'[c].row = r
        /\ call'[c].seen = row /\ call'[c].mine = call[c].mine
    BY <1>1, <2>2 DEF Running
  <2>4. \A q \in Rows : Over(asset[q].object) => Over(asset[q].object)'
    BY <1>1, <1>3 DEF Over
  <2>5. row = IF call[c].mine = Absent THEN asset[r] ELSE call[c].mine
    BY DEF row
  <2>6. WorksAlone(c)'
    BY <1>1, <1>2, <1>3, <2>3, <2>4, <2>5, WorksOn
  <2> QED
    BY <1>1, <1>2, <1>3, <2>2, <2>6, GoesOnAlone
<1>4. CASE Settle(c)
  <2>1. \A d \in Calls : call'[d] = Idle
    BY <1>1, <1>2, <1>4 DEF Settle, End, TypeOK
  <2>2. CASE call[c].mine = Absent
    <3>1. UNCHANGED asset /\ call' = [call EXCEPT ![c] = call'[c]]
      BY <1>1, <1>4, <2>2 DEF Settle, End, TypeOK
    <3> QED
      BY <1>1, <1>2, <2>1, <3>1, GoesOnAlone DEF Busy
  <2>3. CASE call[c].mine # Absent
    <3> DEFINE x == call[c].mine
    <3>1. x \in Row /\ asset' = [asset EXCEPT ![r] = x]
      BY <1>1, <1>4, <2>3 DEF Settle, Running
    <3>2. r \in Rows => Over(asset[r].object) /\ asset[r].state = "failed" /\ x.state = "failed"
      BY <1>1, <1>2, <2>3 DEF WorksAlone
    <3>3. MayBecome("failed", "failed")
      BY AllowedTransitions DEF States
    <3>4. Active \subseteq {r}
      BY <1>1, <1>2 DEF WorksAlone
    <3>5. \A o \in Objects : Live(o)' => Live(o)
      BY <1>1 DEF Live
    <3>6. \A d \in Calls, o \in Objects : ~Saving(d, o)
      BY <1>2 DEF Saving, Idle
    <3> HIDE DEF x, r
    <3> QED
      BY <1>1, <2>1, <3>1, <3>2, <3>3, <3>4, <3>5, <3>6, RowWritten
  <2> QED
    BY <2>2, <2>3
<1> QED
  BY <1>3, <1>4 DEF Read

LEMMA SubmitAlone ==
  ASSUME IInv, AloneInv, staff = "alone", NEW c \in Calls, Submit(c)
  PROVE  AloneInv' /\ Transitions
<1>1. /\ TypeOK /\ UNCHANGED asset /\ call[c].stage = "submit"
      /\ Busy(c) /\ call[c] \in Running
  BY StagedRuns DEF Submit, IInv
<1>2. WorksAlone(c) /\ (\A d \in Calls \ {c} : call[d] = Idle) /\ \A d \in Calls, o \in Objects : ~Saving(d, o)
  BY <1>1, NobodyElse DEF Saving, Idle
<1>3. PICK sent \in Submissions :
        /\ CASE sent.answer = "missing" -> End(c)
             [] sent.answer = "error" -> call' = [call EXCEPT ![c].stage = "fail"]
             [] sent.answer = "id" -> \E o \in Objects :
                  call' = [call EXCEPT ![c].stage = "save", ![c].object = o]
        /\ IF ~sent.made THEN UNCHANGED remote
           ELSE \E o \in Objects :
             /\ remote[o] = "none"
             /\ sent.answer = "id" => call'[c].object = o
             /\ remote' = [remote EXCEPT ![o] =
                  IF sent.answer = "id" THEN "processing" ELSE "abandoned"]
  BY DEF Submit
<1>4. /\ \/ End(c)
         \/ call' = [call EXCEPT ![c].stage = "fail"]
         \/ /\ sent.answer = "id"
            /\ \E o \in Objects : call' = [call EXCEPT ![c].stage = "save", ![c].object = o]
      /\ sent.answer = "id" => \E o \in Objects : call' = [call EXCEPT ![c].stage = "save", ![c].object = o]
  BY <1>3, SubmissionsAnswered
<1>5. \A d \in Calls \ {c} : call'[d] = Idle
  BY <1>1, <1>2, <1>4 DEF End, TypeOK
<1>6. \A p \in Objects \cup {NoObject} : Over(p) => Over(p)'
  BY <1>1, <1>3 DEF Over, TypeOK
<1>7. \A r \in Rows : Over(asset[r].object) => Over(asset[r].object)'
  BY <1>1, <1>6, CopiesAreRows DEF Row, Over
<1>8. ASSUME Busy(c)'
      PROVE  WorksAlone(c)'
  <2>1. \/ call' = [call EXCEPT ![c].stage = "fail"]
        \/ \E o \in Objects : call' = [call EXCEPT ![c].stage = "save", ![c].object = o]
    BY <1>1, <1>4, <1>8 DEF End, Busy, TypeOK
  <2>2. /\ call'[c].stage \in {"fail", "save"} /\ call'[c].row = call[c].row
        /\ call'[c].seen = call[c].seen /\ call'[c].mine = call[c].mine
    <3>1. CASE call' = [call EXCEPT ![c].stage = "fail"]
      <4>1. call'[c] = [call[c] EXCEPT !.stage = "fail"]
        BY <1>1, <3>1 DEF TypeOK
      <4> QED
        BY <1>1, <4>1 DEF Running
    <3>2. ASSUME NEW o \in Objects, call' = [call EXCEPT ![c].stage = "save", ![c].object = o]
          PROVE  /\ call'[c].stage = "save" /\ call'[c].row = call[c].row
                 /\ call'[c].seen = call[c].seen /\ call'[c].mine = call[c].mine
      <4>1. call'[c] = [call[c] EXCEPT !.stage = "save", !.object = o]
        BY <1>1, <3>2 DEF TypeOK
      <4> QED
        BY <1>1, <4>1 DEF Running
    <3> QED
      BY <2>1, <3>1, <3>2
  <2>3. call[c].seen = IF call[c].mine = Absent THEN asset[call[c].row] ELSE call[c].mine
    BY <1>1, <1>2 DEF WorksAlone
  <2> QED
    BY <1>1, <1>2, <1>7, <2>2, <2>3, WorksOn
<1>9. ASSUME NEW o \in Objects, Live(o)', ~Live(o)
      PROVE  Saving(c, o)'
  <2>1. sent.answer = "id" /\ call'[c].object = o
    BY <1>1, <1>3, <1>9 DEF Live, TypeOK
  <2>2. PICK p \in Objects : call' = [call EXCEPT ![c].stage = "save", ![c].object = p]
    BY <1>4, <2>1
  <2>3. call'[c] = [call[c] EXCEPT !.stage = "save", !.object = p]
    BY <1>1, <2>2 DEF TypeOK
  <2> QED
    BY <1>1, <2>1, <2>3 DEF Running, Saving
<1> QED
  BY <1>1, <1>2, <1>5, <1>8, <1>9, RowsStay DEF Busy

\* The transition is allowed and no constraint is in the way: the video gets its row.
LEMMA SaveAlone ==
  ASSUME IInv, AloneInv, staff = "alone", NEW c \in Calls, Save(c)
  PROVE  AloneInv' /\ Transitions
<1>1. /\ TypeOK /\ UNCHANGED remote /\ call[c].stage \in {"save", "fail"} /\ End(c)
      /\ Busy(c) /\ call[c] \in Running /\ StageFacts(c)
  BY StagedRuns DEF Save, Write, IInv
<1>2. WorksAlone(c) /\ (\A d \in Calls \ {c} : call[d] = Idle) /\ \A d \in Calls : call'[d] = Idle
  BY <1>1, NobodyElse DEF End, TypeOK
<1>3. PICK r, x : r = call[c].row /\ x = Saved(c)
  OBVIOUS
<1>4. r \in Assets /\ x \in Row /\ x.state = IF call[c].stage = "save" THEN "processing" ELSE "failed"
  BY <1>1, <1>3, SavedIsSound DEF StageFacts
<1>5. /\ Active \subseteq {r}
      /\ r \in Rows => Over(asset[r].object) /\ asset[r].state = call[c].seen.state
      /\ call[c].seen.state \in {"uploaded", "failed"}
      /\ r \notin Rows => call[c].mine # Absent
  BY <1>1, <1>2, <1>3 DEF WorksAlone
<1>6. x.state \in Allowed[call[c].seen.state]
  BY <1>4, <1>5, AllowedTransitions DEF States
<1>7. asset' = [asset EXCEPT ![r] = x]
  BY <1>3, <1>5, <1>6 DEF Save, Write
<1>8. r \in Rows => MayBecome(asset[r].state, x.state)
  BY <1>5, <1>6, AllowedTransitions DEF States
<1>9. \A d \in Calls, o \in Objects : Saving(d, o) => x.object = o
  <2> SUFFICES ASSUME NEW o \in Objects, Saving(c, o)
               PROVE  x.object = o
    BY <1>2 DEF Saving, Idle
  <2>1. x = [call[c].seen EXCEPT !.state = "processing", !.object = o]
    BY <1>3 DEF Saving, Saved
  <2>2. call[c].seen \in Row
    BY <1>1, CopiesAreRows DEF StageFacts
  <2> QED
    BY <2>1, <2>2 DEF Row
<1>10. \A o \in Objects : Live(o)' => Live(o)
  BY <1>1 DEF Live
<1> QED
  BY <1>2, <1>4, <1>5, <1>7, <1>8, <1>9, <1>10, RowWritten

LEMMA CrashAlone ==
  ASSUME IInv, AloneInv, staff = "alone", NEW c \in Calls, Crash(c)
  PROVE  AloneInv' /\ Transitions
<1>1. TypeOK /\ UNCHANGED asset /\ End(c) /\ Busy(c) /\ StageFacts(c)
  BY DEF Crash, IInv, Busy
<1>2. \A d \in Calls : call'[d] = Idle /\ (d # c => call[d] = Idle)
  BY <1>1, NobodyElse DEF End, TypeOK
<1>3. \A o \in Objects : Live(o)' => Live(o) /\ ~Saving(c, o)
  BY <1>1 DEF Crash, StageFacts, Saving, Live, TypeOK
<1> QED
  BY <1>1, <1>2, <1>3, RowsStay DEF Busy, Saving, Idle

LEMMA LoadPageAlone ==
  ASSUME IInv, AloneInv, staff = "alone", NEW c \in Calls, NEW r \in Assets, LoadPage(c, r)
  PROVE  AloneInv' /\ Transitions
<1>1. TypeOK /\ UNCHANGED <<asset, remote>> /\ \A d \in Calls : call[d] = Idle
  BY NothingStarted DEF LoadPage, MayRequest, IInv
<1>2. Start(c, "page", "page", r, asset[r].checksum) /\ r # Absent
  BY AssetsAssumption DEF LoadPage
<1>3. /\ call' = [call EXCEPT ![c] = call'[c]]
      /\ call'[c].stage = "page" /\ call'[c].row = r
      /\ call'[c].mine = Absent /\ call'[c].seen = asset[r]
  BY <1>1, <1>2 DEF Start, TypeOK
<1>4. WorksAlone(c)'
  BY <1>1, <1>3 DEF WorksAlone
<1> QED
  BY <1>1, <1>3, <1>4, GoesOnAlone DEF Saving, Idle

\* The page was made from what the row still is.
LEMMA SavePageAlone ==
  ASSUME IInv, AloneInv, staff = "alone", NEW c \in Calls, SavePage(c)
  PROVE  AloneInv' /\ Transitions
<1>1. /\ TypeOK /\ UNCHANGED remote /\ call[c].stage = "page" /\ End(c)
      /\ Busy(c) /\ StageFacts(c)
  BY StagedRuns DEF SavePage, Write, IInv
<1>2. WorksAlone(c) /\ (\A d \in Calls \ {c} : call[d] = Idle) /\ \A o : ~Saving(c, o)
  BY <1>1, NobodyElse DEF Saving
<1>3. call[c].row \in Assets /\ call[c].seen = asset[call[c].row]
  BY <1>1, <1>2 DEF StageFacts, WorksAlone
<1>4. asset' = asset
  BY <1>1, <1>3 DEF SavePage, Write, TypeOK
<1>5. call' = [call EXCEPT ![c] = call'[c]] /\ ~Busy(c)'
  BY <1>1 DEF End, TypeOK, Busy
<1> QED
  BY <1>1, <1>2, <1>4, <1>5, GoesOnAlone

LEMMA BeginUploadAlone ==
  ASSUME IInv, AloneInv, staff = "alone", NEW k \in Checksums, SignedUploadView(k)
  PROVE  AloneInv' /\ Transitions
<1> DEFINE x == [state |-> "pending_upload", checksum |-> k, object |-> NoObject]
<1>1. /\ UNCHANGED <<remote, call>> /\ Active = {}
      /\ \A d \in Calls : call'[d] = Idle /\ \A o : ~Saving(d, o)
  BY NothingStarted DEF SignedUploadView, BeginUpload
<1>2. PICK r \in Assets : r \notin Rows /\ asset' = [asset EXCEPT ![r] = x]
  BY DEF SignedUploadView, BeginUpload, NextRow
<1>3. x \in Row
  BY DEF Row, States
<1>4. \A o \in Objects : Live(o)' => Live(o)
  BY <1>1 DEF Live
<1> HIDE DEF x
<1> QED
  BY <1>1, <1>2, <1>3, <1>4, RowWritten

LEMMA ReconcileAlone ==
  ASSUME IInv, AloneInv, staff = "alone", NEW r \in Assets, RetrySelected(r)
  PROVE  AloneInv' /\ Transitions
<1>1. /\ TypeOK /\ UNCHANGED <<remote, call>>
      /\ \A d \in Calls : call'[d] = Idle /\ \A o : ~Saving(d, o)
  BY NothingStarted DEF RetrySelected, Reconcile, IInv
<1>2. r \in Rows /\ asset[r] \in Row /\ Sound(asset[r])
  BY <1>1, CopiesAreRows, RowsAreSound DEF RetrySelected
<1>3. ASSUME NEW row \in Row, NEW x \in Polled(row)
      PROVE  /\ x \in Row /\ x.object = row.object
             /\ x.state = "failed" \/ (row.object # NoObject /\ x.state = row.state)
                \/ (x.state = "ready" /\ "ready" \in Allowed[row.state])
  <2>1. \/ x = [row EXCEPT !.state = "failed"]
        \/ row.object # NoObject /\ x = row
        \/ x = [row EXCEPT !.state = "ready"] /\ "ready" \in Allowed[row.state]
    BY DEF Polled
  <2> QED
    BY <2>1 DEF Row, States
<1>4. PICK x \in Row :
        /\ asset' = [asset EXCEPT ![r] = x] /\ x.object = asset[r].object
        /\ MayBecome(asset[r].state, x.state) /\ Active \subseteq {r}
  <2>1. CASE asset[r].state \in {"pending_upload", "uploaded", "processing"}
    <3>1. PICK x \in Polled(asset[r]) : asset' = [asset EXCEPT ![r] = x]
      BY <2>1 DEF RetrySelected, Reconcile
    <3>2. /\ x \in Row /\ x.object = asset[r].object
          /\ x.state \in {"failed", asset[r].state} \/ (x.state = "ready" /\ "ready" \in Allowed[asset[r].state])
      BY <1>2, <1>3, <3>1
    <3>3. x.state \in Allowed[asset[r].state]
      BY <2>1, <3>2, AllowedTransitions DEF States
    <3>4. MayBecome(asset[r].state, x.state)
      BY <1>2, <3>3, AllowedTransitions DEF Row
    <3>5. Active \subseteq {r}
      BY <1>2, <2>1 DEF AloneInv, Active, InFlight
    <3> QED
      BY <3>1, <3>2, <3>4, <3>5
  <2>2. CASE asset[r].state = "failed"
    <3> DEFINE row == [asset[r] EXCEPT !.state = "processing"]
    <3>1. Active = {} /\ \E x \in Polled(row) : asset' = [asset EXCEPT ![r] = x]
      BY <2>2 DEF RetrySelected, Reconcile
    <3>2. row \in Row /\ row.object = asset[r].object /\ row.state = "processing"
      BY <1>2 DEF Row, States
    <3> HIDE DEF row
    <3>3. PICK x \in Polled(row) : asset' = [asset EXCEPT ![r] = x]
      BY <3>1
    <3>4. x \in Row /\ x.object = asset[r].object /\ x.state \in {"failed", "processing", "ready"}
      BY <1>3, <3>2, <3>3
    <3>5. \A t \in {"failed", "processing", "ready"} : MayBecome("failed", t)
      BY AllowedTransitions DEF States
    <3> QED
      BY <2>2, <3>1, <3>3, <3>4, <3>5
  <2> QED
    BY <2>1, <2>2 DEF RetrySelected, Reconcile
<1>5. \A o \in Objects : Live(o)' => Live(o)
  BY <1>1 DEF Live
<1> QED
  BY <1>1, <1>4, <1>5, RowWritten

LEMMA TakedownAlone ==
  ASSUME IInv, AloneInv, staff = "alone", NEW r \in Assets, TakedownSelected(r)
  PROVE  AloneInv' /\ Transitions
<1> DEFINE x == [asset[r] EXCEPT !.state = "removed"]
<1>1. /\ TypeOK /\ UNCHANGED call
      /\ \A d \in Calls : call'[d] = Idle /\ \A o : ~Saving(d, o)
  BY NothingStarted DEF TakedownSelected, Takedown, IInv
<1>2. asset[r] \in Row /\ asset[r].object \in Objects \cup {NoObject} /\ asset[r].state \in States
  BY <1>1, CopiesAreRows DEF TakedownSelected, Row
<1>3. x \in Row /\ x.object = asset[r].object /\ x.state = "removed"
  BY <1>2 DEF Row, States
<1>4. \A o \in Objects : Live(o)' => Live(o)
  BY <1>1, <1>2 DEF TakedownSelected, Takedown, Expired, Live, TypeOK
<1>5. asset' = asset \/ asset' = [asset EXCEPT ![r] = x]
  BY DEF TakedownSelected, Takedown
<1> HIDE DEF x
<1>6. CASE asset' = asset
  BY <1>1, <1>4, <1>6, RowsStay DEF Busy
<1>7. CASE asset' = [asset EXCEPT ![r] = x]
  <2>1. MayBecome(asset[r].state, x.state) /\ x.state \notin InFlight
    BY <1>2, <1>3, AllowedTransitions DEF InFlight
  <2> QED
    BY <1>1, <1>3, <1>4, <1>7, <2>1, RowWritten
<1> QED
  BY <1>5, <1>6, <1>7

\* The cascade deletes every video that a row names, and there are no others; a refused one
\* leaves the rows as they are and no more videos than before.
LEMMA DeleteEpisodeAlone ==
  ASSUME IInv, AloneInv, staff = "alone", DeleteEpisode
  PROVE  AloneInv' /\ Transitions
<1>1. TypeOK /\ UNCHANGED call /\ \A d \in Calls : call'[d] = Idle /\ \A o : ~Saving(d, o)
  BY NothingStarted DEF DeleteEpisode, IInv
<1> DEFINE named == {asset[r].object : r \in Rows} \ {NoObject}
<1>2. PICK gone \in SUBSET named :
        /\ remote' = [o \in Objects |-> IF o \in gone THEN "deleted" ELSE remote[o]]
        /\ \/ gone = named /\ asset' = [r \in Assets |-> Absent]
           \/ UNCHANGED asset
  BY DEF DeleteEpisode
<1>3. CASE gone = named /\ asset' = [r \in Assets |-> Absent]
  <2>1. Rows' = {} /\ Active' = {}
    BY <1>3 DEF Rows, Active
  <2>2. ASSUME NEW o \in Objects
        PROVE  ~Live(o)'
    <3>1. CASE Named(o)
      <4>1. o \in named
        BY <3>1, AssetsAssumption DEF Named
      <4> QED
        BY <1>2, <1>3, <4>1 DEF Live
    <3>2. CASE ~Named(o)
      <4>1. ~Live(o)
        BY <1>1, <3>2 DEF AloneInv, Saving
      <4>2. remote'[o] \in {"deleted", remote[o]}
        BY <1>2
      <4> QED
        BY <4>1, <4>2 DEF Live
    <3> QED
      BY <3>1, <3>2
  <2> QED
    BY <1>1, <1>3, <2>1, <2>2 DEF AloneInv, Transitions, Busy
<1>4. CASE UNCHANGED asset
  <2>1. \A o \in Objects : Live(o)' => Live(o)
    BY <1>1, <1>2 DEF Live, TypeOK
  <2> QED
    BY <1>1, <1>4, <2>1, RowsStay DEF Busy
<1> QED
  BY <1>2, <1>3, <1>4

LEMMA EncodeAlone ==
  ASSUME IInv, AloneInv, staff = "alone", NEW o \in Objects, Encode(o)
  PROVE  AloneInv' /\ Transitions
<1>1. TypeOK /\ UNCHANGED <<asset, call>> /\ remote[o] = "processing"
  BY DEF Encode, IInv
<1>2. Rows' = Rows /\ Active' = Active /\ \A p : Named(p)' <=> Named(p)
  BY <1>1 DEF Rows, Active, Named
<1>3. \A p \in Objects : Live(p)' => Live(p)
  BY <1>1 DEF Encode, Live, TypeOK
<1>4. \A p \in Objects \cup {NoObject} : Over(p) => Over(p)'
  BY <1>1 DEF Encode, Over, TypeOK
<1>5. \A r \in Rows : Over(asset[r].object) => Over(asset[r].object)'
  BY <1>1, <1>4, CopiesAreRows DEF Row, Over
<1>6. \A c \in Calls : Busy(c) => WorksAlone(c)'
  BY <1>1, <1>2, <1>5 DEF AloneInv, WorksAlone
<1>7. AloneInv'
  BY <1>1, <1>2, <1>3, <1>6 DEF AloneInv, Busy, Saving
<1>8. Transitions
  BY <1>1, AllowedTransitions, CopiesAreRows DEF Transitions, Row
<1> QED
  BY <1>7, <1>8

LEMMA StepAlone ==
  ASSUME IInv, AloneInv, staff = "alone", Next
  PROVE  AloneInv' /\ Transitions
<1>1. ASSUME NEW c \in Calls,
             \/ \E k \in Checksums : Add(c, k)
             \/ \E r \in Assets : CompleteUploadView(c, r) \/ LoadPage(c, r)
             \/ Insert(c) \/ Expire(c) \/ Clear(c)
             \/ Read(c) \/ Submit(c) \/ Save(c) \/ SavePage(c) \/ Crash(c)
      PROVE  AloneInv' /\ Transitions
  BY <1>1, AddAlone, CompleteAlone, LoadPageAlone, InsertAlone, ExpireAlone, ClearAlone,
     ReadAlone, SubmitAlone, SaveAlone, SavePageAlone, CrashAlone
<1>2. ASSUME NEW k \in Checksums, SignedUploadView(k)
      PROVE  AloneInv' /\ Transitions
  BY <1>2, BeginUploadAlone
<1>3. ASSUME NEW r \in Assets, RetrySelected(r) \/ TakedownSelected(r)
      PROVE  AloneInv' /\ Transitions
  BY <1>3, ReconcileAlone, TakedownAlone
<1>4. DeleteEpisode => AloneInv' /\ Transitions
  BY DeleteEpisodeAlone
<1>5. ASSUME NEW o \in Objects, Encode(o)
      PROVE  AloneInv' /\ Transitions
  BY <1>5, EncodeAlone
<1> QED
  BY <1>1, <1>2, <1>3, <1>4, <1>5 DEF Next

LEMMA AloneInvariance == Spec => []AloneInv
<1>1. Init => AloneInv
  BY DEF Init, AloneInv, Active, Rows, Busy, Live
<1>2. IInv /\ AloneInv /\ [Next]_vars => AloneInv'
  <2> SUFFICES ASSUME IInv, AloneInv, [Next]_vars
               PROVE  AloneInv'
    OBVIOUS
  <2>1. CASE UNCHANGED vars
    BY <2>1 DEF vars, AloneInv, Active, Rows, Busy, WorksAlone, Over, Live, Named, Saving
  <2>2. CASE Next
    <3>1. staff' = staff
      BY <2>2 DEF Next
    <3>2. CASE staff = "alone"
      BY <2>2, <3>2, StepAlone
    <3>3. CASE staff # "alone"
      BY <3>1, <3>3 DEF AloneInv
    <3> QED
      BY <3>2, <3>3
  <2> QED
    BY <2>1, <2>2
<1> QED
  BY <1>1, <1>2, Invariance, PTL DEF Spec

\* While staff do one thing at a time no video is left behind: every one that the provider
\* holds is named by a row or just being saved, though submits, saves and workers may fail.
THEOREM NothingIsForgotten == Spec => []NothingForgotten
<1>1. AloneInv => NothingForgotten
  BY DEF AloneInv, NothingForgotten, Live, Named, Saving
<1> QED
  BY <1>1, AloneInvariance, PTL

\* While staff do one thing at a time no row makes a transition that ALLOWED_TRANSITIONS
\* forbids, two of them in one transaction included.
THEOREM TransitionsAreLegal == Spec => LegalTransitionsAlone
<1>1. IInv /\ AloneInv /\ [Next]_vars =>
        [staff = "alone" => \A r \in Rows : r \in Rows' =>
           asset'[r].state \in UNION {Allowed[s] : s \in Allowed[asset[r].state]}]_vars
  <2> SUFFICES ASSUME IInv, AloneInv, Next, staff = "alone"
               PROVE  \A r \in Rows : r \in Rows' =>
                        asset'[r].state \in UNION {Allowed[s] : s \in Allowed[asset[r].state]}
    OBVIOUS
  <2> QED
    BY StepAlone DEF Transitions, MayBecome
<1> QED
  BY <1>1, Invariance, AloneInvariance, PTL DEF Spec, LegalTransitionsAlone

=============================================================================
