----------------------- MODULE WorkspaceStorageProofs -----------------------
(***************************************************************************)
(* Proofs that the storage of a Workspace stays accounted for, for any     *)
(* number of workers, objects and faults: StorageInv and ReadyIsProven.    *)
(*                                                                         *)
(* A worker inside an operation may or may not hold the row any more.      *)
(* What it knows whether or not it does rests on the journal, which only   *)
(* fills up (Knows); what it knows only while it does is that no deletion  *)
(* was accepted and that a published Workspace has no initializer of its   *)
(* own (Holds).  The third part of the inductive invariant is about rows   *)
(* and objects (Accounted).                                                *)
(***************************************************************************)
EXTENDS WorkspaceStorage, TLAPS

Phases == {"ABSENT", "PENDING", "BOUND", "LOST", "SUCCEEDED", "FAILED"}
ObjectType == [uid : Nat, phase : Phases, deleting : BOOLEAN, stray : BOOLEAN]
RefsType == [Roles -> Nat]
ProofType == [refs : RefsType, init : Nat]
OpType == [saved : BOOLEAN, refs : RefsType, spec : BOOLEAN, init : Nat,
           proof : ProofType, deleting : BOOLEAN]

Claiming == {"CLAIM", "BIND"}
Initializing == {"CHECK", "POD", "ADOPT", "JUDGE", "DISPOSE", "PUBLISH"}
Deleting == {"REMOVE", "DELETE", "REPORT"}
Outer == {"IDLE", "LOCK"}
WorkerType ==
  [at : Outer \cup Claiming \cup Initializing \cup Deleting,
   kind : {"NONE", "create", "initialize", "delete", "get"}, role : Roles, op : OpType,
   bound : BOOLEAN, left : BOOLEAN, object : ObjectType]

RowTypes ==
  /\ sstate \in {"PROVISIONING", "READY", "CLOSING"}
  /\ wstate \in {"NONE", "PROVISIONING", "READY", "DELETING"}
  /\ op \in OpType /\ claims \in [Roles -> ObjectType] /\ pod \in ObjectType /\ created \in Nat
  /\ inflight \in [Names -> Nat]

WorkerTypes == lock \in Workers \cup {0} /\ worker \in [Workers -> WorkerType]

\* The row is held by a worker that is inside an operation.
Inside ==
  \A w \in Workers :
    /\ lock = w => worker[w].at \notin Outer
    /\ worker[w].at = "IDLE" => worker[w] = Resting

\* A proof names the claims and the Pod that the journal names.
Proven ==
  /\ op.proof.refs = op.refs /\ op.proof.init = op.init /\ op.init # 0
  /\ \A role \in Roles : op.refs[role] # 0

Numbered ==
  /\ created <= MaxCreates
  /\ \A role \in Roles : op.refs[role] <= created /\ claims[role].uid <= created
  /\ op.init <= created /\ pod.uid <= created

\* The journalled initializer is not there, and no other but a stray one.
Unmounted == pod.uid # op.init /\ OnlyStray(pod)

Accounted ==
  /\ Numbered
  /\ wstate = "NONE" => op = NoOp
  /\ op.proof # NoProof => Proven
  /\ wstate = "READY" => op.proof # NoProof /\ Unmounted
  /\ absent => op.deleting
  /\ inflight["pod"] > 0 => op.spec
  /\ InitializerKnown /\ DeletedStaysDeleted

\* What a worker inside an operation knows, whether it holds the row or not.
Knows(w) ==
  LET x == worker[w]
  IN  x.at \notin Outer =>
        /\ op.saved
        /\ \A role \in Roles : x.op.refs[role] \in {0, op.refs[role]}
        /\ x.op.init \in {0, op.init} /\ x.op.proof \in {NoProof, op.proof}
        /\ x.at \in {"BIND", "ADOPT"} => x.object.uid \in 1..created
        /\ x.at \in Initializing \ {"CHECK"} => op.spec /\ \A role \in Roles : x.op.refs[role] # 0
        /\ x.at = "JUDGE" => x.op.init # 0
        /\ x.at = "PUBLISH" => x.op.proof # NoProof
        /\ x.at \in Deleting => op.deleting
        /\ x.at = "DELETE" => x.object.uid # 0 /\ x.object.uid = op.refs[x.role]
        /\ x.at \in Deleting /\ x.role = "state" /\ ~x.left => OnlyStray(claims["workspace"])
        /\ x.at = "REPORT" /\ ~x.left => x.role = "state" /\ OnlyStray(claims["state"])

\* What it knows as long as it holds the row.
Holds(w) ==
  LET x == worker[w]
  IN  /\ (x.at \in Claiming /\ x.kind = "create") \/ x.at \in Initializing =>
           wstate = "PROVISIONING" /\ ~op.deleting
      /\ x.at = "PUBLISH" => Unmounted

WorkerInv == \A w \in Workers : Knows(w) /\ (lock = w => Holds(w))

IInv == RowTypes /\ WorkerTypes /\ Inside /\ Accounted /\ WorkerInv

-----------------------------------------------------------------------------
(* What a step leaves to the others *)

\* The journal fills up.
Fills ==
  /\ (op.saved => op'.saved) /\ (op.spec => op'.spec) /\ (op.deleting => op'.deleting)
  /\ \A role \in Roles : op.refs[role] # 0 => op'.refs[role] = op.refs[role]
  /\ (op.init # 0 => op'.init = op.init) /\ (op.proof # NoProof => op'.proof = op.proof)

\* Only stray claims appear once a deletion is in the journal.
Grows ==
  /\ created <= created' /\ Fills
  /\ op.deleting => \A role \in Roles : OnlyStray(claims[role]) => OnlyStray(claims'[role])

\* The holder of the row finds what it relies on.
Calm ==
  /\ wstate' = wstate /\ op'.deleting = op.deleting
  /\ op.proof # NoProof /\ Unmounted => Unmounted'

\* The values the model starts from have their types.
LEMMA Constants ==
  /\ NoObject \in ObjectType /\ NoOp \in OpType /\ Resting \in WorkerType /\ NoProof \in ProofType
  /\ Resting.at = "IDLE" /\ NoObject.uid = 0 /\ NoOp.proof = NoProof /\ ~NoOp.saved
<1>1. NoObject \in ObjectType /\ NoObject.uid = 0
  BY ZenonT(60) DEF NoObject, ObjectType, Phases
<1>2. NoProof \in ProofType
  BY ZenonT(60) DEF NoProof, ProofType, RefsType
<1>3. NoOp \in OpType /\ NoOp.proof = NoProof /\ ~NoOp.saved
  BY ZenonT(60), <1>2 DEF NoOp, OpType, RefsType
<1>4. Resting \in WorkerType /\ Resting.at = "IDLE"
  BY ZenonT(60), <1>1, <1>3 DEF Resting, WorkerType, Outer, Roles
<1> QED  BY ZenonT(60), <1>1, <1>2, <1>3, <1>4

\* Init establishes the invariant.
LEMMA Begins == Init => IInv
<1> SUFFICES ASSUME Init PROVE IInv
  BY ZenonT(60)
<1> USE Constants, BoundsAreNatural DEF Init
<1>1. RowTypes
  BY ZenonT(60) DEF RowTypes
<1>2. WorkerTypes /\ Inside /\ WorkerInv
  BY ZenonT(60) DEF WorkerTypes, Inside, WorkerInv, Knows, Outer
<1>3. \A role \in Roles : op.refs[role] = 0 /\ claims[role].uid = 0
  BY ZenonT(60) DEF NoOp
<1>4. op.init = 0 /\ pod.uid = 0 /\ ~op.deleting
  BY ZenonT(60) DEF NoOp
<1>5. inflight["pod"] = 0
  BY ZenonT(60) DEF Names
<1>6. Accounted
  BY <1>3, <1>4, <1>5 DEF Accounted, Numbered, InitializerKnown, DeletedStaysDeleted
<1> QED  BY ZenonT(60), <1>1, <1>2, <1>6 DEF IInv

\* What a worker knows stays true while the journal fills up.
LEMMA KnowledgeLasts ==
  ASSUME Grows, RowTypes, RowTypes', NEW v \in Workers, worker[v] \in WorkerType, worker'[v] = worker[v], Knows(v)
  PROVE  Knows(v)'
<1>1. CASE worker[v].at \in Outer
  BY ZenonT(60), <1>1 DEF Knows
<1>2. CASE worker[v].at \notin Outer
  <2> DEFINE x == worker[v]
  <2>0. x.role \in Roles /\ x.op \in OpType /\ {"workspace", "state"} = Roles
    BY ZenonT(60) DEF WorkerType, Roles
  <2>1. \A role \in Roles : x.op.refs[role] \in {0, op'.refs[role]}
    BY ZenonT(60), <1>2 DEF Knows, Grows, Fills
  <2>2. x.op.init \in {0, op'.init} /\ x.op.proof \in {NoProof, op'.proof}
    BY ZenonT(60), <1>2 DEF Knows, Grows, Fills
  <2>3. x.at \in {"BIND", "ADOPT"} => x.object.uid \in 1..created'
    BY <1>2 DEF Knows, Grows, Fills, RowTypes
  <2>4. x.at = "DELETE" => x.object.uid # 0 /\ x.object.uid = op'.refs[x.role]
    BY ZenonT(60), <1>2, <2>0 DEF Knows, Grows, Fills
  <2>5. /\ x.at \in Deleting /\ x.role = "state" /\ ~x.left => OnlyStray(claims'["workspace"])
        /\ x.at = "REPORT" /\ ~x.left => x.role = "state" /\ OnlyStray(claims'["state"])
    BY ZenonT(60), <1>2, <2>0 DEF Knows, Grows, Fills, Deleting
  <2>6. op'.saved /\ (x.at \in Initializing \ {"CHECK"} => op'.spec) /\ (x.at \in Deleting => op'.deleting)
    BY ZenonT(60), <1>2 DEF Knows, Grows, Fills
  <2> HIDE DEF x
  <2>7. /\ x.at \in Initializing \ {"CHECK"} => \A role \in Roles : x.op.refs[role] # 0
        /\ (x.at = "JUDGE" => x.op.init # 0) /\ (x.at = "PUBLISH" => x.op.proof # NoProof)
    BY ZenonT(60), <1>2 DEF Knows, x
  <2>8. worker'[v] = x
    BY ZenonT(60) DEF x
  <2> QED  BY ZenonT(60), <2>1, <2>2, <2>3, <2>4, <2>5, <2>6, <2>7, <2>8 DEF Knows, OnlyStray
<1> QED  BY ZenonT(60), <1>1, <1>2

\* The holder of the row goes on holding what it relies on.
LEMMA HoldLasts ==
  ASSUME Calm, NEW v \in Workers, worker'[v] = worker[v], Knows(v), Holds(v), Inside, lock = v
  PROVE  Holds(v)'
<1>1. worker[v].at = "PUBLISH" => Unmounted'
  <2>1. worker[v].at = "PUBLISH" => op.proof # NoProof /\ Unmounted
    BY ZenonT(60) DEF Knows, Holds, Inside
  <2> QED  BY ZenonT(60), <2>1 DEF Calm
<1> QED  BY ZenonT(60), <1>1 DEF Holds, Calm

\* A step outside the operations, which may cost the holder its row.
LEMMA OthersKeep ==
  ASSUME IInv, RowTypes', Accounted', Grows, worker' = worker, lock' \in {0, lock}, lock' # 0 => Calm
  PROVE  IInv'
<1>1. WorkerTypes' /\ Inside'
  BY ZenonT(60), BoundsAreNatural DEF IInv, WorkerTypes, Inside
<1>2. ASSUME NEW v \in Workers PROVE Knows(v)'
  BY ZenonT(60), KnowledgeLasts DEF IInv, WorkerInv, WorkerTypes
<1>3. ASSUME NEW v \in Workers, lock' = v PROVE Holds(v)'
  <2>1. lock = v /\ Calm /\ Knows(v) /\ Holds(v)
    BY ZenonT(60), <1>3, BoundsAreNatural DEF IInv, WorkerInv
  <2> QED  BY ZenonT(60), <2>1, HoldLasts DEF IInv
<1> QED  BY ZenonT(60), <1>1, <1>2, <1>3 DEF IInv, WorkerInv

\* A step of a worker: the others keep what they know, and it needs to know what
\* its new position takes.
LEMMA WorkerMoves ==
  ASSUME IInv, RowTypes', Accounted', Grows, NEW w \in Workers, NEW y \in WorkerType,
         worker' = [worker EXCEPT ![w] = y], y.at = "IDLE" => y = Resting,
         lock' = lock \/ (lock \in {0, w} /\ lock' \in {0, w}),
         lock' = w => y.at \notin Outer /\ Holds(w)', Knows(w)', lock' \notin {0, w} => Calm
  PROVE  IInv'
<1>1. worker' \in [Workers -> WorkerType] /\ worker'[w] = y /\ \A v \in Workers \ {w} : worker'[v] = worker[v]
  BY ZenonT(60) DEF IInv, WorkerTypes
<1>2. \A v \in Workers \ {w} : lock' = v => lock = v /\ Calm
  BY ZenonT(60), BoundsAreNatural
<1>3. WorkerTypes'
  BY ZenonT(60), <1>1 DEF IInv, WorkerTypes
<1>4. Inside'
  BY ZenonT(60), <1>1, <1>2 DEF IInv, Inside
<1>5. ASSUME NEW v \in Workers \ {w} PROVE Knows(v)'
  BY ZenonT(60), <1>1, KnowledgeLasts DEF IInv, WorkerInv, WorkerTypes
<1>6. ASSUME NEW v \in Workers \ {w}, lock' = v PROVE Holds(v)'
  BY ZenonT(60), <1>1, <1>2, <1>6, HoldLasts DEF IInv, WorkerInv
<1> QED  BY ZenonT(60), <1>3, <1>4, <1>5, <1>6 DEF IInv, WorkerInv

\* A worker that goes back to where it is outside an operation.
LEMMA StepsOut ==
  ASSUME IInv, RowTypes', Accounted', Grows, NEW w \in Workers, NEW y \in WorkerType, y.at \in Outer,
         worker' = [worker EXCEPT ![w] = y], y.at = "IDLE" => y = Resting,
         lock' = IF lock = w THEN 0 ELSE lock, lock \notin {0, w} => Calm
  PROVE  IInv'
<1>1. worker'[w] = y
  BY ZenonT(60) DEF IInv, WorkerTypes
<1>2. Knows(w)'
  BY ZenonT(60), <1>1 DEF Knows
<1>3. lock' # w
  BY ZenonT(60), BoundsAreNatural
<1> QED  BY ZenonT(60), <1>2, <1>3, WorkerMoves

\* The end of an operation.
LEMMA EndKeeps ==
  ASSUME IInv, RowTypes', Accounted', Grows, NEW w \in Workers, End(w), lock \notin {0, w} => Calm
  PROVE  IInv'
  BY ZenonT(60), StepsOut, Constants DEF End, Rest, LetGo, Outer

\* Rows and objects that are left alone stay in order.
LEMMA RowFrame ==
  ASSUME RowTypes, Accounted, UNCHANGED <<sstate, wstate, op, claims, pod, created, inflight, absent>>
  PROVE  RowTypes' /\ Accounted' /\ Grows /\ Calm
<1>1. RowTypes' /\ Accounted'
  BY ZenonT(60) DEF RowTypes, Accounted, Numbered, Proven, Unmounted, InitializerKnown, DeletedStaysDeleted, OnlyStray
<1>2. Grows /\ Calm
  <2>1. created <= created'
    BY DEF RowTypes
  <2> QED  BY ZenonT(60), <2>1 DEF Grows, Fills, Calm, Unmounted, OnlyStray
<1> QED  BY ZenonT(60), <1>1, <1>2
\* An object stays the one it is, or goes.
Kept(o, p) == p.uid = 0 \/ (p.uid = o.uid /\ p.stray = o.stray)

\* Objects that go, change or are created, by a worker that is to create them or
\* by a create that outlived its hold on the row.
LEMMA ObjectsKeep ==
  ASSUME IInv, RowTypes', UNCHANGED <<wstate, op, absent>>,
         created' \in {created, created + 1}, created' <= MaxCreates,
         \A role \in Roles :
           \/ Kept(claims[role], claims'[role])
           \/ /\ claims'[role].uid = created + 1 /\ created' = created + 1
              /\ claims'[role].stray \/ ~op.deleting,
         \/ Kept(pod, pod')
         \/ /\ pod'.uid = created + 1 /\ created' = created + 1 /\ op.spec
            /\ pod'.stray \/ (~op.deleting /\ wstate # "READY"),
         inflight'["pod"] > 0 => op.spec
  PROVE  Accounted' /\ Grows /\ (Kept(pod, pod') \/ pod'.stray => Calm)
<1>1. created \in Nat /\ created' \in Nat /\ created <= created'
  BY DEF IInv, RowTypes
<1>2. Numbered'
  <2>1. /\ \A role \in Roles : op.refs[role] \in Nat /\ op.refs[role] <= created
        /\ op.init \in Nat /\ op.init <= created
    BY DEF IInv, RowTypes, OpType, RefsType, Accounted, Numbered
  <2>2. \A role \in Roles : claims'[role].uid <= created'
    BY <1>1 DEF IInv, RowTypes, ObjectType, Accounted, Numbered, Kept
  <2>3. pod'.uid <= created'
    BY <1>1 DEF IInv, RowTypes, ObjectType, Accounted, Numbered, Kept
  <2> QED  BY <1>1, <2>1, <2>2, <2>3 DEF Numbered
<1>3. op.deleting => \A role \in Roles : OnlyStray(claims[role]) => OnlyStray(claims'[role])
  BY ZenonT(60) DEF Kept, OnlyStray
<1>4. InitializerKnown' /\ DeletedStaysDeleted'
  BY ZenonT(60), <1>3 DEF IInv, Accounted, InitializerKnown, DeletedStaysDeleted, Kept
<1>5. op.proof # NoProof /\ Unmounted /\ (Kept(pod, pod') \/ pod'.stray) => Unmounted'
  <2> SUFFICES ASSUME op.proof # NoProof, Unmounted, Kept(pod, pod') \/ pod'.stray PROVE Unmounted'
    BY ZenonT(60)
  <2>1. op.init # 0 /\ op.init \in Nat /\ op.init <= created
    BY ZenonT(60) DEF IInv, RowTypes, OpType, Accounted, Numbered, Proven
  <2>2. pod'.uid # op.init
    BY <1>1, <2>1 DEF Kept, Unmounted
  <2> QED  BY ZenonT(60), <2>2 DEF Unmounted, OnlyStray, Kept
<1>6. wstate = "READY" => op.proof # NoProof /\ Unmounted'
  BY ZenonT(60), <1>5 DEF IInv, Accounted
<1>7. Accounted'
  BY ZenonT(60), <1>2, <1>4, <1>6 DEF IInv, Accounted, Proven
<1> QED  BY ZenonT(60), <1>1, <1>3, <1>5, <1>7 DEF Grows, Fills, Calm

\* A write to the journal that names objects there have been, a proof of what it
\* names, and a deletion only where no initializer is at work.
LEMMA JournalKeeps ==
  ASSUME IInv, op' \in OpType, UNCHANGED <<sstate, wstate, claims, pod, created, inflight, absent>>,
         wstate # "NONE", Fills, \A role \in Roles : op'.refs[role] <= created, op'.init <= created,
         op'.proof # NoProof => Proven', op'.deleting => op.deleting \/ ~Unproven
  PROVE  RowTypes' /\ Accounted' /\ Grows /\ (op'.deleting = op.deleting => Calm)
<1>1. RowTypes' /\ created <= created'
  BY DEF IInv, RowTypes
<1>2. Numbered'
  BY ZenonT(60) DEF IInv, Accounted, Numbered
<1>3. op.proof # NoProof /\ Unmounted => Unmounted'
  BY ZenonT(60) DEF IInv, Accounted, Proven, Fills, Unmounted, OnlyStray
<1>4. InitializerKnown' /\ DeletedStaysDeleted'
  BY ZenonT(60) DEF IInv, Accounted, Fills, InitializerKnown, DeletedStaysDeleted, OnlyStray, Unproven
<1>5. Accounted'
  BY ZenonT(60), <1>2, <1>3, <1>4 DEF IInv, Accounted, Fills
<1> QED  BY ZenonT(60), <1>1, <1>3, <1>5 DEF Grows, Calm, OnlyStray

-----------------------------------------------------------------------------
(* The provider and the rest of the system *)

\* A step of the provider that creates nothing.
LEMMA OutsideKeeps ==
  ASSUME IInv, claims' \in [Roles -> ObjectType], pod' \in ObjectType,
         UNCHANGED <<sstate, wstate, op, created, inflight, lock, worker, absent>>,
         \A role \in Roles : Kept(claims[role], claims'[role]), Kept(pod, pod')
  PROVE  IInv'
<1>1. RowTypes' /\ created' <= MaxCreates /\ (inflight'["pod"] > 0 => op.spec)
  BY ZenonT(60) DEF IInv, RowTypes, Accounted, Numbered
<1>2. Accounted' /\ Grows /\ Calm
  BY ZenonT(60), <1>1, ObjectsKeep
<1> QED  BY ZenonT(60), <1>1, <1>2, OthersKeep

\* An object with another phase, or marked for deletion, is the same object.
LEMMA Marked ==
  ASSUME NEW o \in ObjectType, NEW phase \in Phases
  PROVE  LET d == [o EXCEPT !.deleting = TRUE]
             l == [o EXCEPT !.phase = phase]
         IN  {d, l} \subseteq ObjectType /\ Kept(o, d) /\ Kept(o, l) /\ Kept(o, o) /\ Kept(o, NoObject)
  BY ZenonT(60), Constants DEF ObjectType, Kept

\* A claim that changes so, and the other that does not.
LEMMA ClaimChanges ==
  ASSUME claims \in [Roles -> ObjectType], NEW role \in Roles,
         \/ claims' = [claims EXCEPT ![role].deleting = TRUE]
         \/ \E phase \in Phases : claims' = [claims EXCEPT ![role].phase = phase]
         \/ claims' = [claims EXCEPT ![role] = NoObject]
  PROVE  claims' \in [Roles -> ObjectType] /\ \A r \in Roles : Kept(claims[r], claims'[r])
<1>1. PICK o : claims' = [claims EXCEPT ![role] = o] /\ o \in ObjectType /\ Kept(claims[role], o)
  <2>1. claims[role] \in ObjectType /\ "BOUND" \in Phases
    BY ZenonT(60) DEF Phases
  <2>2. CASE claims' = [claims EXCEPT ![role].deleting = TRUE]
    BY ZenonT(60), <2>1, <2>2, Marked
  <2>3. ASSUME NEW phase \in Phases, claims' = [claims EXCEPT ![role].phase = phase]
        PROVE  \E o : claims' = [claims EXCEPT ![role] = o] /\ o \in ObjectType /\ Kept(claims[role], o)
    BY ZenonT(60), <2>1, <2>3, Marked
  <2>4. CASE claims' = [claims EXCEPT ![role] = NoObject]
    BY ZenonT(60), <2>1, <2>4, Marked, Constants
  <2> QED  BY ZenonT(60), <2>2, <2>3, <2>4
<1>2. \A r \in Roles : Kept(claims[r], claims[r])
  BY ZenonT(60) DEF Kept
<1>3. claims' \in [Roles -> ObjectType] /\ claims'[role] = o /\ \A r \in Roles \ {role} : claims'[r] = claims[r]
  BY ZenonT(60), <1>1
<1> QED  BY ZenonT(60), <1>1, <1>2, <1>3

\* Binds, ClaimGoes
LEMMA ClaimStepKeeps ==
  ASSUME IInv, NEW role \in Roles, Binds(role) \/ ClaimGoes(role)
  PROVE  IInv'
<1>1. claims \in [Roles -> ObjectType] /\ pod \in ObjectType /\ "BOUND" \in Phases
  BY ZenonT(60) DEF IInv, RowTypes, Phases
<1>2. claims' \in [Roles -> ObjectType] /\ \A r \in Roles : Kept(claims[r], claims'[r])
  BY ZenonT(60), <1>1, ClaimChanges DEF Binds, ClaimGoes
<1>3. UNCHANGED <<sstate, wstate, op, pod, created, inflight, lock, worker, absent>>
  BY ZenonT(60) DEF Binds, ClaimGoes, rowVars
<1> QED  BY ZenonT(60), <1>1, <1>2, <1>3, OutsideKeeps DEF Kept

\* PodEnds, PodGoes
LEMMA PodStepKeeps ==
  ASSUME IInv, PodGoes \/ \E phase \in {"SUCCEEDED", "FAILED"} : PodEnds(phase)
  PROVE  IInv'
<1>1. claims \in [Roles -> ObjectType] /\ pod \in ObjectType /\ {"SUCCEEDED", "FAILED"} \subseteq Phases
  BY ZenonT(60) DEF IInv, RowTypes, Phases
<1>2. pod' \in ObjectType /\ Kept(pod, pod')
  BY ZenonT(60), <1>1, Marked, Constants DEF PodGoes, PodEnds
<1>3. UNCHANGED <<sstate, wstate, op, claims, created, inflight, lock, worker, absent>>
  BY ZenonT(60) DEF PodGoes, PodEnds, rowVars
<1> QED  BY ZenonT(60), <1>1, <1>2, <1>3, OutsideKeeps DEF Kept

\* Someone else's deletions and lost volumes.
LEMMA InterventionKeeps ==
  ASSUME IInv, Outside
  PROVE  IInv'
<1>1. claims \in [Roles -> ObjectType] /\ pod \in ObjectType /\ "LOST" \in Phases
  BY ZenonT(60) DEF IInv, RowTypes, Phases
<1>2. claims' \in [Roles -> ObjectType] /\ \A r \in Roles : Kept(claims[r], claims'[r])
  <2>1. CASE claims' = claims
    BY ZenonT(60), <1>1, <2>1 DEF Kept
  <2> QED  BY ZenonT(60), <1>1, <2>1, ClaimChanges DEF Outside
<1>3. pod' \in ObjectType /\ Kept(pod, pod')
  BY ZenonT(60), <1>1, Marked DEF Outside
<1>4. UNCHANGED <<sstate, wstate, op, created, inflight, lock, worker, absent>>
  BY ZenonT(60) DEF Outside, rowVars
<1> QED  BY ZenonT(60), <1>2, <1>3, <1>4, OutsideKeeps

\* The Session becomes ready, is attached, detached or closed; the last three
\* wait for the row.
LEMMA SessionKeeps ==
  ASSUME IInv, SessionReady \/ Attachment \/ Close
  PROVE  IInv'
<1>1. UNCHANGED <<op, claims, pod, created, inflight, lock, worker, absent>>
  BY ZenonT(60) DEF SessionReady, Attachment, Close, providerVars
<1>2. sstate' \in {"PROVISIONING", "READY", "CLOSING"}
  BY ZenonT(60) DEF IInv, RowTypes, SessionReady, Attachment, Close
<1>3. wstate' = wstate \/ (lock = 0 /\ wstate' = "DELETING")
  BY ZenonT(60) DEF SessionReady, Attachment, Close
<1>4. RowTypes' /\ Accounted'
  BY ZenonT(60), <1>1, <1>2, <1>3 DEF IInv, RowTypes, Accounted, Numbered, Proven, Unmounted, InitializerKnown,
     DeletedStaysDeleted, OnlyStray
<1>5. Grows /\ (lock' # 0 => Calm)
  <2>1. created <= created'
    BY <1>1 DEF IInv, RowTypes
  <2> QED  BY ZenonT(60), <1>1, <1>3, <2>1 DEF Grows, Fills, Calm, Unmounted, OnlyStray
<1> QED  BY ZenonT(60), <1>1, <1>4, <1>5, OthersKeep

\* A new object has a number of its own.
LEMMA FreshIs ==
  ASSUME created \in Nat, NEW stray \in BOOLEAN
  PROVE  /\ Fresh(stray) \in ObjectType /\ Fresh(stray).uid = created + 1 /\ Fresh(stray).stray = stray
         /\ created + 1 \in Nat /\ 1 <= created + 1
<1>1. created + 1 \in Nat /\ 1 <= created + 1
  OBVIOUS
<1> QED  BY ZenonT(60), <1>1 DEF Fresh, ObjectType, Phases

\* Arrives: what a create makes that outlived its hold on the row is stray.
LEMMA ArrivesKeeps ==
  ASSUME IInv, NEW n \in Names, Arrives(n)
  PROVE  IInv'
<1>1. /\ claims \in [Roles -> ObjectType] /\ pod \in ObjectType /\ created \in Nat /\ created <= MaxCreates
      /\ inflight \in [Names -> Nat] /\ inflight[n] > 0 /\ Names = Roles \cup {"pod"}
      /\ inflight' = [inflight EXCEPT ![n] = @ - 1] /\ UNCHANGED <<sstate, wstate, op, lock, worker, absent>>
  BY ZenonT(60) DEF IInv, RowTypes, Accounted, Numbered, Arrives, Names, rowVars
<1>2. inflight' \in [Names -> Nat] /\ (inflight'["pod"] > 0 => inflight["pod"] > 0)
  BY <1>1
<1>3. inflight["pod"] > 0 => op.spec
  BY ZenonT(60) DEF IInv, Accounted
<1>4. /\ Fresh(TRUE) \in ObjectType /\ Fresh(TRUE).uid = created + 1 /\ Fresh(TRUE).stray
      /\ created + 1 \in Nat
  BY ZenonT(60), <1>1, FreshIs
<1>5. CASE UNCHANGED <<claims, pod, created>>
  <2>1. RowTypes' /\ Kept(pod, pod') /\ \A r \in Roles : Kept(claims[r], claims'[r])
    BY ZenonT(60), <1>1, <1>2, <1>5 DEF IInv, RowTypes, Kept
  <2>2. Accounted' /\ Grows /\ Calm
    BY ZenonT(60), <1>1, <1>2, <1>3, <1>5, <2>1, ObjectsKeep
  <2> QED  BY ZenonT(60), <1>1, <2>1, <2>2, OthersKeep
<1>6. CASE created < MaxCreates /\ created' = created + 1 /\ n = "pod" /\ pod' = Fresh(TRUE) /\ UNCHANGED claims
  <2>1. RowTypes' /\ created' <= MaxCreates /\ \A r \in Roles : Kept(claims[r], claims'[r])
    <3>1. created' <= MaxCreates
      BY <1>1, <1>6, BoundsAreNatural
    <3> QED  BY ZenonT(60), <1>1, <1>2, <1>4, <1>6, <3>1 DEF IInv, RowTypes, Kept
  <2>2. Accounted' /\ Grows /\ Calm
    BY ZenonT(60), <1>1, <1>2, <1>3, <1>4, <1>6, <2>1, ObjectsKeep
  <2> QED  BY ZenonT(60), <1>1, <2>1, <2>2, OthersKeep
<1>7. CASE /\ created < MaxCreates /\ created' = created + 1 /\ n # "pod"
           /\ claims' = [claims EXCEPT ![n] = Fresh(TRUE)] /\ UNCHANGED pod
  <2>1. created' <= MaxCreates
    BY <1>1, <1>7, BoundsAreNatural
  <2>2. n \in Roles /\ claims' \in [Roles -> ObjectType]
    BY ZenonT(60), <1>1, <1>4, <1>7
  <2>3. claims'[n] = Fresh(TRUE) /\ \A r \in Roles \ {n} : claims'[r] = claims[r]
    BY ZenonT(60), <1>1, <1>7, <2>2
  <2>4. RowTypes' /\ Kept(pod, pod') /\ \A r \in Roles \ {n} : Kept(claims[r], claims'[r])
    BY ZenonT(60), <1>1, <1>2, <1>4, <1>7, <2>2, <2>3 DEF IInv, RowTypes, Kept
  <2>5. Accounted' /\ Grows /\ Calm
    BY ZenonT(60), <1>1, <1>2, <1>3, <1>4, <1>7, <2>1, <2>3, <2>4, ObjectsKeep
  <2> QED  BY ZenonT(60), <1>1, <2>4, <2>5, OthersKeep
<1> QED  BY ZenonT(60), <1>5, <1>6, <1>7 DEF Arrives
-----------------------------------------------------------------------------
(* The start and the end of an operation *)

\* What is known when a worker inside an operation takes a step.
InOperation(w) ==
  /\ Knows(w) /\ (lock = w => Holds(w)) /\ worker[w].at \notin Outer
  /\ worker[w] \in WorkerType /\ worker \in [Workers -> WorkerType]
  /\ worker[w].role \in Roles /\ worker[w].object \in ObjectType /\ worker[w].op \in OpType
  /\ op \in OpType /\ claims \in [Roles -> ObjectType] /\ pod \in ObjectType /\ created \in Nat
  /\ op.saved /\ wstate # "NONE" /\ Roles = {"workspace", "state"}

LEMMA Operates ==
  ASSUME IInv, NEW w \in Workers, worker[w].at \notin Outer
  PROVE  InOperation(w)
<1>1. Knows(w) /\ (lock = w => Holds(w)) /\ worker \in [Workers -> WorkerType] /\ op.saved
  BY ZenonT(60) DEF IInv, WorkerTypes, WorkerInv, Knows
<1>2. wstate # "NONE"
  BY ZenonT(60), <1>1, Constants DEF IInv, Accounted
<1> QED  BY ZenonT(60), <1>1, <1>2 DEF IInv, RowTypes, WorkerType, Roles, InOperation

\* Journalling that an operation was asked for leaves the rest of the journal.
LEMMA Asked ==
  ASSUME NEW o \in OpType
  PROVE  /\ [o EXCEPT !.saved = TRUE] \in OpType /\ [o EXCEPT !.saved = TRUE].saved
         /\ [o EXCEPT !.saved = TRUE].refs = o.refs /\ [o EXCEPT !.saved = TRUE].init = o.init
         /\ [o EXCEPT !.saved = TRUE].proof = o.proof /\ [o EXCEPT !.saved = TRUE].spec = o.spec
         /\ [o EXCEPT !.saved = TRUE].deleting = o.deleting
         /\ [o EXCEPT !.deleting = TRUE] \in OpType /\ [o EXCEPT !.deleting = TRUE].deleting
         /\ [o EXCEPT !.deleting = TRUE].refs = o.refs /\ [o EXCEPT !.deleting = TRUE].init = o.init
         /\ [o EXCEPT !.deleting = TRUE].proof = o.proof /\ [o EXCEPT !.deleting = TRUE].spec = o.spec
         /\ [o EXCEPT !.deleting = TRUE].saved = o.saved
  BY ZenonT(60) DEF OpType

\* ReserveEmpty: no operation is under way on a Workspace that is not reserved.
LEMMA ReserveKeeps ==
  ASSUME IInv, NEW w \in Workers, ReserveEmpty(w)
  PROVE  IInv'
<1> DEFINE y == [worker[w] EXCEPT !.at = "LOCK", !.kind = "create"]
<1>1. worker[w] \in WorkerType /\ lock # w /\ UNCHANGED <<sstate, op, claims, pod, created, inflight, lock, absent>>
  BY ZenonT(60) DEF IInv, WorkerTypes, Inside, ReserveEmpty, Outer, providerVars
<1>2. y \in WorkerType /\ y.at = "LOCK" /\ worker' = [worker EXCEPT ![w] = y]
  BY ZenonT(60), <1>1 DEF ReserveEmpty, WorkerType, Outer
<1> HIDE DEF y
<1>3. RowTypes' /\ Accounted'
  <2>1. wstate' = "PROVISIONING"
    BY ZenonT(60) DEF ReserveEmpty
  <2> QED  BY ZenonT(60), <1>1, <2>1 DEF IInv, RowTypes, Accounted, Numbered, Proven, InitializerKnown,
              DeletedStaysDeleted, OnlyStray
<1>4. Grows
  <2>1. created <= created'
    BY <1>1 DEF IInv, RowTypes
  <2> QED  BY ZenonT(60), <1>1, <2>1 DEF Grows, Fills, OnlyStray
<1>5. lock \notin {0, w} => Calm
  <2>1. ASSUME lock \in Workers PROVE wstate # "NONE"
    <3>1. worker[lock].at \notin Outer
      BY ZenonT(60), <2>1 DEF IInv, Inside
    <3> QED  BY ZenonT(60), <2>1, <3>1, Operates DEF InOperation
  <2> QED  BY ZenonT(60), <1>1, <2>1 DEF IInv, WorkerTypes, ReserveEmpty, Calm, Unmounted, OnlyStray
<1> QED  BY ZenonT(60), <1>1, <1>2, <1>3, <1>4, <1>5, StepsOut DEF Outer

\* A worker that gives up before it has the row.
LEMMA GivesUp ==
  ASSUME IInv, NEW w \in Workers, Rest(w),
         UNCHANGED <<sstate, wstate, op, claims, pod, created, inflight, lock, absent>>, lock # w
  PROVE  IInv'
<1>1. RowTypes' /\ Accounted' /\ Grows /\ Calm
  BY ZenonT(60), RowFrame DEF IInv
<1> QED  BY ZenonT(60), <1>1, StepsOut, Constants DEF Rest, Outer

\* Do, for a creation
LEMMA StartCreateKeeps ==
  ASSUME IInv, NEW w \in Workers, StartCreate(w)
  PROVE  IInv'
<1>1. /\ worker[w] \in WorkerType /\ op \in OpType /\ lock = 0 /\ lock # w
      /\ worker[w].at = "LOCK" /\ worker[w].kind = "create"
      /\ UNCHANGED <<sstate, wstate, claims, pod, created, inflight, absent>>
  BY ZenonT(60), BoundsAreNatural DEF IInv, WorkerTypes, RowTypes, StartCreate, providerVars
<1>2. CASE ~MayAllocate
  BY ZenonT(60), <1>1, <1>2, GivesUp DEF StartCreate
<1>3. CASE MayAllocate
  <2> DEFINE y == [worker[w] EXCEPT !.at = "CLAIM", !.role = "workspace", !.op = op']
  <2>1. op' = [op EXCEPT !.saved = TRUE] /\ lock' = w /\ wstate = "PROVISIONING" /\ ~op.deleting
    BY ZenonT(60), <1>3 DEF StartCreate, MayAllocate
  <2>2. /\ op' \in OpType /\ op'.saved /\ op'.refs = op.refs /\ op'.init = op.init
        /\ op'.proof = op.proof /\ op'.spec = op.spec /\ op'.deleting = op.deleting
    BY ZenonT(60), <1>1, <2>1, Asked
  <2>3. /\ y \in WorkerType /\ y.at = "CLAIM" /\ y.op = op' /\ y.kind = worker[w].kind
        /\ worker' = [worker EXCEPT ![w] = y]
    BY ZenonT(60), <1>1, <1>3, <2>2 DEF StartCreate, WorkerType, Claiming, Roles
  <2> HIDE DEF y
  <2>4. RowTypes' /\ Accounted' /\ Grows
    BY ZenonT(60), <1>1, <2>1, <2>2, JournalKeeps DEF IInv, Accounted, Numbered, Proven, Fills
  <2>5. worker'[w] = y /\ y.at \notin Outer
    BY ZenonT(60), <2>3 DEF IInv, WorkerTypes, Outer
  <2>6. Knows(w)' /\ Holds(w)'
    BY ZenonT(60), <1>1, <2>1, <2>2, <2>3, <2>5 DEF Knows, Holds, Claiming, Initializing, Deleting
  <2> QED  BY ZenonT(60), <1>1, <2>1, <2>3, <2>4, <2>5, <2>6, WorkerMoves
<1> QED  BY ZenonT(60), <1>2, <1>3

\* Do, for an initialization
LEMMA StartInitializeKeeps ==
  ASSUME IInv, NEW w \in Workers, StartInitialize(w)
  PROVE  IInv'
<1>1. /\ worker[w] \in WorkerType /\ op \in OpType /\ lock = 0 /\ lock # w /\ worker[w].at = "LOCK"
      /\ UNCHANGED <<sstate, wstate, op, claims, pod, created, inflight, absent>>
  BY ZenonT(60), BoundsAreNatural DEF IInv, WorkerTypes, RowTypes, StartInitialize, providerVars, rowVars
<1>2. CASE ~(MayInitialize /\ wstate # "READY")
  BY ZenonT(60), <1>1, <1>2, GivesUp DEF StartInitialize
<1>3. CASE MayInitialize /\ wstate # "READY"
  <2> DEFINE y == [worker[w] EXCEPT !.at = "CHECK", !.op = op]
  <2>1. y \in WorkerType /\ y.at = "CHECK" /\ y.op = op /\ worker' = [worker EXCEPT ![w] = y] /\ lock' = w
    BY ZenonT(60), <1>1, <1>3 DEF StartInitialize, WorkerType, Initializing
  <2> HIDE DEF y
  <2>2. RowTypes' /\ Accounted' /\ Grows
    BY ZenonT(60), <1>1, RowFrame DEF IInv
  <2>3. worker'[w] = y /\ y.at \notin Outer
    BY ZenonT(60), <2>1 DEF IInv, WorkerTypes, Outer
  <2>4. Knows(w)' /\ Holds(w)'
    BY ZenonT(60), <1>1, <1>3, <2>1, <2>3 DEF Knows, Holds, Claiming, Initializing, Deleting, MayInitialize
  <2> QED  BY ZenonT(60), <1>1, <2>1, <2>2, <2>3, <2>4, WorkerMoves
<1> QED  BY ZenonT(60), <1>2, <1>3

\* Do, for a deletion: an initializer that exists is known to be done.
LEMMA StartDeleteKeeps ==
  ASSUME IInv, NEW w \in Workers, StartDelete(w)
  PROVE  IInv'
<1> DEFINE y == [worker[w] EXCEPT !.at = "REMOVE", !.kind = "delete", !.op = op']
<1>1. /\ worker[w] \in WorkerType /\ op \in OpType /\ lock = 0 /\ worker[w] = Resting
      /\ op' = [op EXCEPT !.deleting = TRUE] /\ lock' = w /\ wstate = "DELETING" /\ op.saved /\ ~Unproven
      /\ UNCHANGED <<sstate, wstate, claims, pod, created, inflight, absent>>
  BY ZenonT(60) DEF IInv, WorkerTypes, RowTypes, StartDelete, MayDelete, Inside, providerVars
<1>2. /\ op' \in OpType /\ op'.saved = op.saved /\ op'.refs = op.refs /\ op'.init = op.init
      /\ op'.proof = op.proof /\ op'.spec = op.spec /\ op'.deleting
  BY ZenonT(60), <1>1, Asked
<1>3. /\ y \in WorkerType /\ y.at = "REMOVE" /\ y.op = op' /\ y.role = worker[w].role
      /\ worker' = [worker EXCEPT ![w] = y]
  BY ZenonT(60), <1>1, <1>2 DEF StartDelete, WorkerType, Deleting
<1> HIDE DEF y
<1>4. y.role = "workspace"
  <2>1. Resting.role = "workspace"
    BY ZenonT(60) DEF Resting
  <2> QED  BY ZenonT(60), <1>1, <1>3, <2>1
<1>5. RowTypes' /\ Accounted' /\ Grows
  BY ZenonT(60), <1>1, <1>2, JournalKeeps DEF IInv, Accounted, Numbered, Proven, Fills
<1>6. worker'[w] = y /\ y.at \notin Outer
  BY ZenonT(60), <1>3 DEF IInv, WorkerTypes, Outer
<1>7. Knows(w)' /\ Holds(w)'
  BY ZenonT(60), <1>1, <1>2, <1>3, <1>4, <1>6 DEF Knows, Holds, Claiming, Initializing, Deleting
<1> QED  BY ZenonT(60), <1>1, <1>3, <1>5, <1>6, <1>7, WorkerMoves

\* Do, for a Get
LEMMA StartGetKeeps ==
  ASSUME IInv, NEW w \in Workers, StartGet(w)
  PROVE  IInv'
<1> DEFINE y == [worker[w] EXCEPT !.at = "CLAIM", !.kind = "get", !.op = op]
<1>1. /\ worker[w] \in WorkerType /\ op \in OpType /\ lock = 0 /\ lock' = w /\ op.saved
      /\ UNCHANGED <<sstate, wstate, op, claims, pod, created, inflight, absent>>
  BY ZenonT(60) DEF IInv, WorkerTypes, RowTypes, StartGet, rowVars, providerVars
<1>2. y \in WorkerType /\ y.at = "CLAIM" /\ y.op = op /\ y.kind = "get" /\ worker' = [worker EXCEPT ![w] = y]
  BY ZenonT(60), <1>1 DEF StartGet, WorkerType, Claiming
<1> HIDE DEF y
<1>3. RowTypes' /\ Accounted' /\ Grows
  BY ZenonT(60), <1>1, RowFrame DEF IInv
<1>4. worker'[w] = y /\ y.at \notin Outer
  BY ZenonT(60), <1>2 DEF IInv, WorkerTypes, Outer
<1>5. Knows(w)' /\ Holds(w)'
  BY ZenonT(60), <1>1, <1>2, <1>4 DEF Knows, Holds, Claiming, Initializing, Deleting
<1> QED  BY ZenonT(60), <1>1, <1>2, <1>3, <1>4, <1>5, WorkerMoves

\* A deadline or the end of a process: a Pod whose create is left behind has its
\* specification in the journal.
LEMMA InterruptedKeeps ==
  ASSUME IInv, NEW w \in Workers, Interrupted(w)
  PROVE  IInv'
<1>1. UNCHANGED <<sstate, wstate, op, claims, pod, created, absent>> /\ End(w)
  BY ZenonT(60) DEF Interrupted, rowVars
<1>2. inflight' \in [Names -> Nat] /\ (inflight'["pod"] > 0 => op.spec)
  <2>1. CASE UNCHANGED inflight
    BY ZenonT(60), <2>1 DEF IInv, RowTypes, Accounted
  <2>2. ASSUME NEW n \in Sends(w), inflight' = [inflight EXCEPT ![n] = @ + 1]
        PROVE  inflight' \in [Names -> Nat] /\ (inflight'["pod"] > 0 => op.spec)
    <3>1. n \in Names /\ inflight \in [Names -> Nat] /\ "pod" \in Names
      BY ZenonT(60) DEF Sends, Names, IInv, RowTypes
    <3>2. n = "pod" => op.spec
      <4>1. "pod" \notin Roles
        BY DEF Roles
      <4>2. n = "pod" => worker[w].at = "POD"
        BY ZenonT(60), <4>1 DEF Sends
      <4>3. worker[w].at = "POD" => worker[w].at \notin Outer /\ worker[w].at \in Initializing \ {"CHECK"}
        BY DEF Outer, Initializing
      <4> QED  BY ZenonT(60), <4>2, <4>3, Operates DEF InOperation, Knows
    <3>3. inflight' \in [Names -> Nat] /\ (n # "pod" => inflight'["pod"] = inflight["pod"])
      BY <2>2, <3>1
    <3> QED  BY ZenonT(60), <3>2, <3>3 DEF IInv, Accounted
  <2> QED  BY ZenonT(60), <2>1, <2>2 DEF Interrupted
<1>3. RowTypes' /\ Kept(pod, pod') /\ created' <= MaxCreates /\ \A r \in Roles : Kept(claims[r], claims'[r])
  BY ZenonT(60), <1>1, <1>2 DEF IInv, RowTypes, Accounted, Numbered, Kept
<1>4. Accounted' /\ Grows /\ Calm
  BY ZenonT(60), <1>1, <1>2, <1>3, ObjectsKeep
<1> QED  BY ZenonT(60), <1>1, <1>3, <1>4, EndKeeps

\* The loss of the row: what the worker knows without it, it still knows.
LEMMA LosesRowKeeps ==
  ASSUME IInv, NEW w \in Workers, LosesRow(w)
  PROVE  IInv'
<1>1. UNCHANGED <<sstate, wstate, op, claims, pod, created, inflight, absent, worker>> /\ lock' = 0
  BY ZenonT(60) DEF LosesRow, rowVars, providerVars
<1> QED  BY ZenonT(60), <1>1, RowFrame, OthersKeep DEF IInv
-----------------------------------------------------------------------------
(* Claims *)

\* The worker goes on to a decision on an object.
Turned(w, at, o) ==
  /\ worker'[w].at = at /\ worker'[w].object = o /\ worker'[w].kind = worker[w].kind
  /\ worker'[w].role = worker[w].role /\ worker'[w].op = worker[w].op
  /\ worker'[w].left = worker[w].left /\ worker'[w].at \notin Outer
  /\ \E y \in WorkerType : worker' = [worker EXCEPT ![w] = y] /\ y = worker'[w]

\* The step to a decision on an object that was found or created.
LEMMA SeenIs ==
  ASSUME NEW w \in Workers, worker \in [Workers -> WorkerType],
         NEW at \in Claiming \cup Initializing \cup Deleting, NEW o \in ObjectType, Seen(w, at, o)
  PROVE  Turned(w, at, o)
<1> DEFINE y == [worker[w] EXCEPT !.at = at, !.object = o]
<1>1. worker[w] \in WorkerType
  BY ZenonT(60)
<1>2. /\ y \in WorkerType /\ y.at = at /\ y.object = o /\ y.kind = worker[w].kind
      /\ y.role = worker[w].role /\ y.op = worker[w].op /\ y.left = worker[w].left
  BY ZenonT(60), <1>1 DEF WorkerType
<1>3. worker' = [worker EXCEPT ![w] = y]
  BY ZenonT(60) DEF Seen
<1>4. y.at \notin Outer
  BY ZenonT(60), <1>2 DEF Outer, Claiming, Initializing, Deleting
<1> HIDE DEF y
<1>5. worker'[w] = y
  BY ZenonT(60), <1>3
<1> QED  BY ZenonT(60), <1>2, <1>3, <1>4, <1>5 DEF Turned

\* A worker that goes on with its operation.
LEMMA GoesOn ==
  ASSUME IInv, RowTypes', Accounted', Grows, NEW w \in Workers, worker'[w].at \notin Outer,
         \E y \in WorkerType : worker' = [worker EXCEPT ![w] = y] /\ y = worker'[w],
         lock' = lock, Knows(w)', lock = w => Holds(w)', lock # w => Calm
  PROVE  IInv'
<1>1. PICK y \in WorkerType : worker' = [worker EXCEPT ![w] = y] /\ y = worker'[w]
  BY ZenonT(60)
<1>2. y.at \notin Outer /\ y.at # "IDLE"
  BY ZenonT(60), <1>1 DEF Outer
<1> QED  BY ZenonT(60), <1>1, <1>2, WorkerMoves

\* EnsureClaim: while it holds the row, a worker creates a claim only where no
\* deletion was accepted.
LEMMA EnsureClaimKeeps ==
  ASSUME IInv, NEW w \in Workers, EnsureClaim(w)
  PROVE  IInv'
<1> DEFINE role == worker[w].role
<1>0. /\ worker[w].at = "CLAIM" /\ worker[w].at \notin Outer
      /\ UNCHANGED <<sstate, wstate, op, pod, inflight, absent>>
  BY ZenonT(60) DEF EnsureClaim, Outer, rowVars
<1>H. InOperation(w)
  BY ZenonT(60), <1>0, Operates
<1> USE <1>0, <1>H DEF InOperation
<1>B. "BIND" \in Claiming
  BY ZenonT(60) DEF Claiming
<1>1. CASE claims[role].uid # 0 /\ Seen(w, "BIND", claims[role]) /\ UNCHANGED <<claims, created, lock>>
  <2>1. claims[role] \in ObjectType /\ claims[role].uid \in 1..created
    BY <1>1 DEF IInv, Accounted, Numbered, ObjectType
  <2>2. Turned(w, "BIND", claims[role])
    BY ZenonT(60), <1>1, <1>B, <2>1, SeenIs
  <2>3. RowTypes' /\ Accounted' /\ Grows /\ Calm
    BY ZenonT(60), <1>1, RowFrame DEF IInv
  <2>4. Knows(w)' /\ (lock = w => Holds(w)')
    BY ZenonT(60), <1>1, <2>1, <2>2 DEF Turned, Knows, Holds, Claiming, Initializing, Deleting
  <2> QED  BY ZenonT(60), <1>1, <2>2, <2>3, <2>4, GoesOn DEF Turned
<1>2. CASE /\ claims[role].uid = 0 /\ MayCreate(w) /\ created < MaxCreates
           /\ claims' = [claims EXCEPT ![role] = Fresh(lock # w)] /\ created' = created + 1
           /\ Seen(w, "BIND", Fresh(lock # w)) /\ UNCHANGED lock
  <2> DEFINE new == Fresh(lock # w)
  <2>1. /\ new \in ObjectType /\ new.uid = created + 1 /\ new.stray = (lock # w) /\ created + 1 \in Nat
        /\ 1 <= created + 1
    BY ZenonT(60), FreshIs
  <2> HIDE DEF new
  <2>2. /\ claims' \in [Roles -> ObjectType] /\ claims'[role] = new /\ \A r \in Roles \ {role} : claims'[r] = claims[r]
        /\ Seen(w, "BIND", new)
    BY ZenonT(60), <1>2, <2>1 DEF new
  <2>3. lock = w => wstate = "PROVISIONING" /\ ~op.deleting
    BY ZenonT(60), <1>2 DEF MayCreate, Holds, Claiming
  <2>4. RowTypes' /\ created' <= MaxCreates /\ (inflight'["pod"] > 0 => op.spec)
    <3>1. created' <= MaxCreates
      BY <1>2, BoundsAreNatural
    <3> QED  BY ZenonT(60), <1>2, <2>1, <2>2, <3>1 DEF IInv, RowTypes, Accounted
  <2>5. Accounted' /\ Grows /\ Calm
    <3>1. Kept(pod, pod') /\ \A r \in Roles \ {role} : Kept(claims[r], claims'[r])
      BY ZenonT(60), <2>2 DEF Kept
    <3> QED  BY ZenonT(60), <1>2, <2>1, <2>2, <2>3, <2>4, <3>1, ObjectsKeep
  <2>6. Turned(w, "BIND", new)
    BY ZenonT(60), <1>B, <2>1, <2>2, SeenIs
  <2>7. new.uid \in 1..created'
    BY <1>2, <2>1
  <2>8. Knows(w)' /\ (lock = w => Holds(w)')
    BY ZenonT(60), <1>2, <2>3, <2>6, <2>7 DEF Turned, Knows, Holds, Claiming, Initializing, Deleting
  <2> QED  BY ZenonT(60), <1>2, <2>4, <2>5, <2>6, <2>8, GoesOn DEF Turned
<1>3. CASE End(w) /\ UNCHANGED <<claims, created>>
  BY ZenonT(60), <1>3, RowFrame, EndKeeps DEF IInv
<1> QED  BY ZenonT(60), <1>1, <1>2, <1>3 DEF EnsureClaim

\* The journal has a reference, and what else it had.
Journalled(role, uid) ==
  /\ op'.refs[role] = uid /\ \A r \in Roles \ {role} : op'.refs[r] = op.refs[r]
  /\ op'.saved = op.saved /\ op'.spec = op.spec /\ op'.init = op.init
  /\ op'.proof = op.proof /\ op'.deleting = op.deleting

\* A uid is journalled where none was, or the same one again.
LEMMA RefJournalled ==
  ASSUME IInv, NEW role \in Roles, NEW uid \in 1..created, wstate # "NONE", op.refs[role] \in {0, uid},
         op' = [op EXCEPT !.refs[role] = uid],
         UNCHANGED <<sstate, wstate, claims, pod, created, inflight, absent>>
  PROVE  RowTypes' /\ Accounted' /\ Grows /\ Calm /\ Journalled(role, uid)
<1> DEFINE f == [op.refs EXCEPT ![role] = uid]
<1>1. op \in OpType /\ op.refs \in RefsType /\ uid \in Nat /\ uid <= created /\ uid # 0
  BY DEF IInv, RowTypes, OpType
<1>2. f \in RefsType /\ f[role] = uid /\ \A r \in Roles \ {role} : f[r] = op.refs[r]
  BY ZenonT(60), <1>1 DEF RefsType
<1>3. op' = [op EXCEPT !.refs = f]
  BY ZenonT(60)
<1>4. op.refs[role] = uid => f = op.refs
  BY ZenonT(60), <1>1 DEF RefsType
<1> HIDE DEF f
<1>5. /\ op' \in OpType /\ op'.refs = f /\ op'.saved = op.saved /\ op'.spec = op.spec /\ op'.init = op.init
      /\ op'.proof = op.proof /\ op'.deleting = op.deleting
  BY ZenonT(60), <1>1, <1>2, <1>3 DEF OpType
<1>6. \A r \in Roles : op'.refs[r] <= created
  BY ZenonT(60), <1>1, <1>2, <1>5 DEF IInv, Accounted, Numbered
<1>7. op.proof # NoProof => Proven'
  BY ZenonT(60), <1>1, <1>4, <1>5 DEF IInv, Accounted, Proven
<1>8. Fills /\ op'.init <= created
  BY ZenonT(60), <1>1, <1>2, <1>5 DEF IInv, Accounted, Numbered, Fills
<1>9. RowTypes' /\ Accounted' /\ Grows /\ Calm
  BY ZenonT(60), <1>5, <1>6, <1>7, <1>8, JournalKeeps
<1> QED  BY ZenonT(60), <1>2, <1>5, <1>9 DEF Journalled

\* BindClaim: the identity of a claim is journalled or found to be the journalled one.
LEMMA BindClaimKeeps ==
  ASSUME IInv, NEW w \in Workers, BindClaim(w)
  PROVE  IInv'
<1> DEFINE role == worker[w].role
           uid == worker[w].object.uid
<1>0. /\ worker[w].at = "BIND" /\ worker[w].at \notin Outer
      /\ UNCHANGED <<sstate, wstate, claims, pod, created, inflight, absent>>
  BY ZenonT(60) DEF BindClaim, Outer, providerVars
<1>H. InOperation(w)
  BY ZenonT(60), <1>0, Operates
<1> USE <1>0, <1>H DEF InOperation
<1>1. uid \in 1..created
  BY ZenonT(60) DEF Knows
<1>2. CASE UNCHANGED op /\ End(w)
  BY ZenonT(60), <1>2, RowFrame, EndKeeps DEF IInv
<1>3. CASE op.refs[role] \in {0, uid} /\ op' = [op EXCEPT !.refs[role] = uid] /\ AfterClaim(w, role)
  <2>1. RowTypes' /\ Accounted' /\ Grows /\ Calm /\ Journalled(role, uid)
    BY ZenonT(60), <1>1, <1>3, RefJournalled
  <2>2. CASE End(w)
    BY ZenonT(60), <2>1, <2>2, EndKeeps
  <2>3. CASE ~End(w) /\ role = "workspace"
    <3> DEFINE y == [worker[w] EXCEPT !.at = "CLAIM", !.role = "state", !.object = NoObject]
    <3>1. /\ y \in WorkerType /\ y.at = "CLAIM" /\ y.role = "state" /\ y.op = worker[w].op /\ y.kind = worker[w].kind
          /\ worker' = [worker EXCEPT ![w] = y] /\ UNCHANGED lock
      BY ZenonT(60), <1>3, <2>3, Constants DEF AfterClaim, WorkerType, Claiming
    <3> HIDE DEF y
    <3>2. worker'[w] = y /\ y.at \notin Outer
      BY ZenonT(60), <3>1 DEF Outer
    <3>3. \A r \in Roles : worker[w].op.refs[r] \in {0, op'.refs[r]}
      BY ZenonT(60), <2>1 DEF Knows, Grows, Fills
    <3>4. Knows(w)' /\ (lock = w => Holds(w)')
      BY ZenonT(60), <2>1, <3>1, <3>2, <3>3 DEF Journalled, Knows, Holds, Claiming, Initializing, Deleting
    <3> QED  BY ZenonT(60), <2>1, <3>1, <3>2, <3>4, GoesOn
  <2>4. CASE ~End(w) /\ role # "workspace"
    <3> DEFINE y == IF worker[w].kind = "get" THEN Resting ELSE [Resting EXCEPT !.at = "LOCK", !.kind = "initialize"]
    <3>1. y \in WorkerType /\ y.at \in Outer /\ (y.at = "IDLE" => y = Resting)
      <4>1. [Resting EXCEPT !.at = "LOCK", !.kind = "initialize"] \in WorkerType
        BY ZenonT(60), Constants DEF WorkerType, Outer
      <4>2. [Resting EXCEPT !.at = "LOCK", !.kind = "initialize"].at = "LOCK"
        BY ZenonT(60) DEF Resting
      <4> QED  BY ZenonT(60), <4>1, <4>2, Constants DEF Outer
    <3>2. worker' = [worker EXCEPT ![w] = y] /\ LetGo(w)
      BY ZenonT(60), <1>3, <2>4 DEF AfterClaim
    <3> HIDE DEF y
    <3> QED  BY ZenonT(60), <2>1, <3>1, <3>2, StepsOut DEF LetGo
  <2> QED  BY ZenonT(60), <2>2, <2>3, <2>4
<1> QED  BY ZenonT(60), <1>2, <1>3 DEF BindClaim
-----------------------------------------------------------------------------
(* Initialization *)

\* A field of the journal that is written alone.
LEMMA SpecIs ==
  ASSUME NEW o \in OpType
  PROVE  /\ [o EXCEPT !.spec = TRUE] \in OpType /\ [o EXCEPT !.spec = TRUE].spec
         /\ [o EXCEPT !.spec = TRUE].refs = o.refs /\ [o EXCEPT !.spec = TRUE].init = o.init
         /\ [o EXCEPT !.spec = TRUE].proof = o.proof /\ [o EXCEPT !.spec = TRUE].saved = o.saved
         /\ [o EXCEPT !.spec = TRUE].deleting = o.deleting
  BY ZenonT(60) DEF OpType

LEMMA InitIs ==
  ASSUME NEW o \in OpType, NEW uid \in Nat
  PROVE  /\ [o EXCEPT !.init = uid] \in OpType /\ [o EXCEPT !.init = uid].init = uid
         /\ [o EXCEPT !.init = uid].refs = o.refs /\ [o EXCEPT !.init = uid].spec = o.spec
         /\ [o EXCEPT !.init = uid].proof = o.proof /\ [o EXCEPT !.init = uid].saved = o.saved
         /\ [o EXCEPT !.init = uid].deleting = o.deleting
  BY ZenonT(60) DEF OpType

LEMMA ProofIs ==
  ASSUME NEW o \in OpType, NEW p \in ProofType
  PROVE  /\ [o EXCEPT !.proof = p] \in OpType /\ [o EXCEPT !.proof = p].proof = p
         /\ [o EXCEPT !.proof = p].refs = o.refs /\ [o EXCEPT !.proof = p].spec = o.spec
         /\ [o EXCEPT !.proof = p].init = o.init /\ [o EXCEPT !.proof = p].saved = o.saved
         /\ [o EXCEPT !.proof = p].deleting = o.deleting
  BY ZenonT(60) DEF OpType

\* CheckClaims: the specification of the Pod is journalled before the Pod.
LEMMA CheckClaimsKeeps ==
  ASSUME IInv, NEW w \in Workers, CheckClaims(w)
  PROVE  IInv'
<1>0. /\ worker[w].at = "CHECK" /\ worker[w].at \notin Outer
      /\ UNCHANGED <<sstate, wstate, claims, pod, created, inflight, absent>>
  BY ZenonT(60) DEF CheckClaims, Outer, providerVars
<1>H. InOperation(w)
  BY ZenonT(60), <1>0, Operates
<1> USE <1>0, <1>H DEF InOperation
<1>1. CASE End(w) /\ UNCHANGED op
  BY ZenonT(60), <1>1, RowFrame, EndKeeps DEF IInv
<1>2. CASE /\ \A role \in Roles : Intact(w, role)
           /\ op' = [op EXCEPT !.spec = TRUE]
           /\ worker' = [worker EXCEPT ![w] = [@ EXCEPT !.at = "POD", !.op.spec = TRUE, !.bound = Bound]]
           /\ UNCHANGED lock
  <2> DEFINE copy == [worker[w].op EXCEPT !.spec = TRUE]
             y == [worker[w] EXCEPT !.at = "POD", !.op = copy, !.bound = Bound]
  <2>1. \A role \in Roles : worker[w].op.refs[role] # 0
    BY ZenonT(60), <1>2 DEF Intact
  <2>2. /\ op' \in OpType /\ op'.spec /\ op'.refs = op.refs /\ op'.init = op.init /\ op'.proof = op.proof
        /\ op'.saved = op.saved /\ op'.deleting = op.deleting
    BY ZenonT(60), <1>2, SpecIs
  <2>3. copy \in OpType /\ copy.refs = worker[w].op.refs /\ copy.init = worker[w].op.init /\ copy.proof = worker[w].op.proof
    BY ZenonT(60), SpecIs
  <2>4. worker' = [worker EXCEPT ![w] = y]
    BY ZenonT(60), <1>2
  <2> HIDE DEF copy
  <2>5. y \in WorkerType /\ y.at = "POD" /\ y.op = copy
    BY ZenonT(60), <2>3 DEF WorkerType, Initializing, Bound
  <2> HIDE DEF y
  <2>6. worker'[w] = y /\ y.at \notin Outer
    BY ZenonT(60), <2>4, <2>5 DEF Outer
  <2>7. RowTypes' /\ Accounted' /\ Grows /\ Calm
    <3>1. Fills /\ (\A role \in Roles : op'.refs[role] <= created) /\ op'.init <= created /\ (op'.proof # NoProof => Proven')
      BY ZenonT(60), <2>2 DEF IInv, Accounted, Numbered, Proven, Fills
    <3> QED  BY ZenonT(60), <2>2, <3>1, JournalKeeps
  <2>8. Knows(w)'
    BY ZenonT(60), <2>1, <2>2, <2>3, <2>5, <2>6 DEF Knows, Initializing, Deleting
  <2>9. lock = w => Holds(w)'
    BY ZenonT(60), <2>2, <2>5, <2>6 DEF Holds, Initializing, Claiming
  <2> QED  BY ZenonT(60), <1>2, <2>4, <2>5, <2>6, <2>7, <2>8, <2>9, GoesOn
<1> QED  BY ZenonT(60), <1>1, <1>2 DEF CheckClaims

\* EnsurePod: an initializer is found, created or missed; what is published has
\* none of its own.
LEMMA EnsurePodKeeps ==
  ASSUME IInv, NEW w \in Workers, EnsurePod(w)
  PROVE  IInv'
<1>0. /\ worker[w].at = "POD" /\ worker[w].at \notin Outer
      /\ UNCHANGED <<sstate, wstate, op, claims, inflight, absent>>
  BY ZenonT(60) DEF EnsurePod, Outer, rowVars
<1>H. InOperation(w)
  BY ZenonT(60), <1>0, Operates
<1> USE <1>0, <1>H DEF InOperation
<1>1. /\ op.spec /\ (\A role \in Roles : worker[w].op.refs[role] # 0)
      /\ (lock = w => wstate = "PROVISIONING" /\ ~op.deleting)
    BY ZenonT(60) DEF Knows, Holds, Initializing
<1>P. {"PUBLISH", "ADOPT"} \subseteq Initializing
  BY ZenonT(60) DEF Initializing
<1>2. CASE MayPublish(w) /\ Seen(w, "PUBLISH", NoObject) /\ UNCHANGED <<pod, created, lock>>
  <2>1. Turned(w, "PUBLISH", NoObject)
    BY ZenonT(60), <1>2, <1>P, Constants, SeenIs
  <2>2. RowTypes' /\ Accounted' /\ Grows /\ Calm
    BY ZenonT(60), <1>2, RowFrame DEF IInv
  <2>3. Unmounted
    BY ZenonT(60), <1>2 DEF MayPublish, Knows, IInv, Accounted, Proven, Unmounted, OnlyStray
  <2>4. Unmounted'
    BY ZenonT(60), <1>2, <2>3 DEF Unmounted, OnlyStray
  <2>5. Knows(w)' /\ (lock = w => Holds(w)')
    BY ZenonT(60), <1>1, <1>2, <2>1, <2>4 DEF Turned, Knows, Holds, MayPublish, Claiming, Initializing, Deleting
  <2> QED  BY ZenonT(60), <1>2, <2>1, <2>2, <2>5, GoesOn DEF Turned
<1>3. CASE /\ MayCreatePod(w) /\ created < MaxCreates
           /\ pod' = Fresh(lock # w) /\ created' = created + 1 /\ Seen(w, "ADOPT", Fresh(lock # w)) /\ UNCHANGED lock
  <2> DEFINE new == Fresh(lock # w)
  <2>1. /\ new \in ObjectType /\ new.uid = created + 1 /\ new.stray = (lock # w) /\ created + 1 \in Nat
        /\ 1 <= created + 1
    BY ZenonT(60), FreshIs
  <2>2. pod' = new /\ Seen(w, "ADOPT", new)
    BY ZenonT(60), <1>3
  <2> HIDE DEF new
  <2>3. RowTypes' /\ created' <= MaxCreates /\ (inflight'["pod"] > 0 => op.spec)
    <3>1. created' <= MaxCreates
      BY <1>3, BoundsAreNatural
    <3> QED  BY ZenonT(60), <1>3, <2>1, <2>2, <3>1 DEF IInv, RowTypes, Accounted
  <2>4. Accounted' /\ Grows /\ (lock # w => Calm)
    <3>1. \A r \in Roles : Kept(claims[r], claims'[r])
      BY ZenonT(60) DEF Kept
    <3> QED  BY ZenonT(60), <1>1, <1>3, <2>1, <2>2, <2>3, <3>1, ObjectsKeep
  <2>5. Turned(w, "ADOPT", new)
    BY ZenonT(60), <1>P, <2>1, <2>2, SeenIs
  <2>6. new.uid \in 1..created'
    BY <1>3, <2>1
  <2>7. Knows(w)' /\ (lock = w => Holds(w)')
    BY ZenonT(60), <1>1, <1>3, <2>5, <2>6 DEF Turned, Knows, Holds, Claiming, Initializing, Deleting
  <2> QED  BY ZenonT(60), <1>3, <2>3, <2>4, <2>5, <2>7, GoesOn DEF Turned
<1>4. CASE End(w) /\ UNCHANGED <<pod, created>>
  BY ZenonT(60), <1>4, RowFrame, EndKeeps DEF IInv
<1>5. CASE pod.uid # 0 /\ Seen(w, "ADOPT", pod) /\ UNCHANGED <<pod, created, lock>>
  <2>1. pod.uid \in 1..created
    BY <1>5 DEF IInv, Accounted, Numbered, ObjectType
  <2>2. Turned(w, "ADOPT", pod)
    BY ZenonT(60), <1>5, <1>P, SeenIs
  <2>3. RowTypes' /\ Accounted' /\ Grows /\ Calm
    BY ZenonT(60), <1>5, RowFrame DEF IInv
  <2>4. Knows(w)' /\ (lock = w => Holds(w)')
    BY ZenonT(60), <1>1, <1>5, <2>1, <2>2 DEF Turned, Knows, Holds, Claiming, Initializing, Deleting
  <2> QED  BY ZenonT(60), <1>5, <2>2, <2>3, <2>4, GoesOn DEF Turned
<1> QED  BY ZenonT(60), <1>2, <1>3, <1>4, <1>5 DEF EnsurePod

\* AdoptPod: a proof that exists is about the Pod that is adopted.
LEMMA AdoptPodKeeps ==
  ASSUME IInv, NEW w \in Workers, AdoptPod(w)
  PROVE  IInv'
<1> DEFINE uid == worker[w].object.uid
<1>0. /\ worker[w].at = "ADOPT" /\ worker[w].at \notin Outer
      /\ UNCHANGED <<sstate, wstate, claims, pod, created, inflight, absent>>
  BY ZenonT(60) DEF AdoptPod, Outer, providerVars
<1>H. InOperation(w)
  BY ZenonT(60), <1>0, Operates
<1> USE <1>0, <1>H DEF InOperation
<1>1. CASE UNCHANGED op /\ End(w)
  BY ZenonT(60), <1>1, RowFrame, EndKeeps DEF IInv
<1>2. CASE /\ op.init \in {0, uid} /\ op' = [op EXCEPT !.init = uid] /\ UNCHANGED lock
           /\ worker' = [worker EXCEPT ![w] = [@ EXCEPT !.at = "JUDGE", !.op.init = uid]]
  <2> DEFINE copy == [worker[w].op EXCEPT !.init = uid]
             y == [worker[w] EXCEPT !.at = "JUDGE", !.op = copy]
  <2>1. uid \in 1..created /\ op.spec /\ \A role \in Roles : worker[w].op.refs[role] # 0
    BY ZenonT(60) DEF Knows, Initializing
  <2>2. uid \in Nat /\ uid <= created /\ uid # 0
    BY <2>1
  <2>3. /\ op' \in OpType /\ op'.init = uid /\ op'.refs = op.refs /\ op'.spec = op.spec /\ op'.proof = op.proof
        /\ op'.saved = op.saved /\ op'.deleting = op.deleting
    BY ZenonT(60), <1>2, <2>2, InitIs
  <2>4. copy \in OpType /\ copy.refs = worker[w].op.refs /\ copy.init = uid /\ copy.proof = worker[w].op.proof
    BY ZenonT(60), <2>2, InitIs
  <2>5. worker' = [worker EXCEPT ![w] = y]
    BY ZenonT(60), <1>2
  <2> HIDE DEF copy
  <2>6. y \in WorkerType /\ y.at = "JUDGE" /\ y.op = copy
    BY ZenonT(60), <2>4 DEF WorkerType, Initializing
  <2> HIDE DEF y
  <2>7. worker'[w] = y /\ y.at \notin Outer
    BY ZenonT(60), <2>5, <2>6 DEF Outer
  <2>8. RowTypes' /\ Accounted' /\ Grows /\ Calm
    <3>1. Fills /\ (\A role \in Roles : op'.refs[role] <= created) /\ (op'.proof # NoProof => Proven')
      BY ZenonT(60), <1>2, <2>2, <2>3 DEF IInv, Accounted, Numbered, Proven, Fills
    <3> QED  BY ZenonT(60), <2>2, <2>3, <3>1, JournalKeeps
  <2>9. Knows(w)'
    BY ZenonT(60), <2>1, <2>2, <2>3, <2>4, <2>6, <2>7 DEF Knows, Initializing, Deleting
  <2>10. lock = w => Holds(w)'
    BY ZenonT(60), <2>3, <2>6, <2>7 DEF Holds, Initializing, Claiming
  <2> QED  BY ZenonT(60), <1>2, <2>5, <2>6, <2>7, <2>8, <2>9, <2>10, GoesOn
<1> QED  BY ZenonT(60), <1>1, <1>2 DEF AdoptPod

\* JudgePod: the proof names the claims and the Pod of the journal.
LEMMA JudgePodKeeps ==
  ASSUME IInv, NEW w \in Workers, JudgePod(w)
  PROVE  IInv'
<1>0. /\ worker[w].at = "JUDGE" /\ worker[w].at \notin Outer
      /\ UNCHANGED <<sstate, wstate, claims, pod, created, inflight, absent>>
  BY ZenonT(60) DEF JudgePod, Outer, providerVars
<1>H. InOperation(w)
  BY ZenonT(60), <1>0, Operates
<1> USE <1>0, <1>H DEF InOperation
<1>1. /\ op.spec /\ worker[w].op.init # 0 /\ worker[w].op.init = op.init
      /\ \A role \in Roles : worker[w].op.refs[role] # 0 /\ worker[w].op.refs[role] = op.refs[role]
  BY ZenonT(60) DEF Knows, Initializing
<1>D. "DISPOSE" \in Initializing
  BY ZenonT(60) DEF Initializing
<1>2. CASE Seen(w, "DISPOSE", worker[w].object) /\ UNCHANGED <<op, lock>>
  <2>1. Turned(w, "DISPOSE", worker[w].object)
    BY ZenonT(60), <1>2, <1>D, SeenIs
  <2>2. RowTypes' /\ Accounted' /\ Grows /\ Calm
    BY ZenonT(60), <1>2, RowFrame DEF IInv
  <2>3. Knows(w)' /\ (lock = w => Holds(w)')
    BY ZenonT(60), <1>1, <1>2, <2>1 DEF Turned, Knows, Holds, Claiming, Initializing, Deleting
  <2> QED  BY ZenonT(60), <1>2, <2>1, <2>2, <2>3, GoesOn DEF Turned
<1>3. CASE /\ op.proof \in {NoProof, ProofOf(w)} /\ op' = [op EXCEPT !.proof = ProofOf(w)] /\ UNCHANGED lock
           /\ worker' = [worker EXCEPT ![w] = [@ EXCEPT !.at = "DISPOSE", !.op.proof = ProofOf(w)]]
  <2> DEFINE copy == [worker[w].op EXCEPT !.proof = ProofOf(w)]
             y == [worker[w] EXCEPT !.at = "DISPOSE", !.op = copy]
  <2>1. worker[w].op.refs = op.refs
    <3>1. worker[w].op.refs \in [Roles -> Nat] /\ op.refs \in [Roles -> Nat]
      BY ZenonT(60) DEF OpType, RefsType
    <3>2. \A f, g \in [Roles -> Nat] : (\A role \in Roles : f[role] = g[role]) => f = g
      OBVIOUS
    <3>3. \A role \in Roles : worker[w].op.refs[role] = op.refs[role]
      BY ZenonT(60), <1>1
    <3> HIDE <1>0, <1>H
    <3> QED  BY ZenonT(60), <3>1, <3>2, <3>3
  <2>2. ProofOf(w) \in ProofType /\ ProofOf(w).refs = op.refs /\ ProofOf(w).init = op.init
    BY ZenonT(60), <1>1, <2>1 DEF ProofOf, ProofType, OpType
  <2>3. /\ op' \in OpType /\ op'.proof = ProofOf(w) /\ op'.refs = op.refs /\ op'.spec = op.spec /\ op'.init = op.init
        /\ op'.saved = op.saved /\ op'.deleting = op.deleting
    BY ZenonT(60), <1>3, <2>2, ProofIs
  <2>4. copy \in OpType /\ copy.refs = worker[w].op.refs /\ copy.init = worker[w].op.init /\ copy.proof = ProofOf(w)
    BY ZenonT(60), <2>2, ProofIs
  <2>5. worker' = [worker EXCEPT ![w] = y]
    BY ZenonT(60), <1>3
  <2> HIDE DEF copy
  <2>6. y \in WorkerType /\ y.at = "DISPOSE" /\ y.op = copy
    BY ZenonT(60), <2>4 DEF WorkerType, Initializing
  <2> HIDE DEF y
  <2>7. worker'[w] = y /\ y.at \notin Outer
    BY ZenonT(60), <2>5, <2>6 DEF Outer
  <2>8. RowTypes' /\ Accounted' /\ Grows /\ Calm
    <3>1. /\ Fills /\ (\A role \in Roles : op'.refs[role] <= created) /\ op'.init <= created
      BY ZenonT(60), <1>3, <2>3 DEF IInv, Accounted, Numbered, Fills
    <3>2. Proven'
      BY ZenonT(60), <1>1, <2>2, <2>3 DEF Proven
    <3> QED  BY ZenonT(60), <2>3, <3>1, <3>2, JournalKeeps
  <2>9. Knows(w)'
    BY ZenonT(60), <1>1, <2>3, <2>4, <2>6, <2>7 DEF Knows, Initializing, Deleting
  <2>10. lock = w => Holds(w)'
    BY ZenonT(60), <2>3, <2>6, <2>7 DEF Holds, Initializing, Claiming
  <2> QED  BY ZenonT(60), <1>3, <2>5, <2>6, <2>7, <2>8, <2>9, <2>10, GoesOn
<1>4. CASE End(w) /\ UNCHANGED op
  BY ZenonT(60), <1>4, RowFrame, EndKeeps DEF IInv
<1> QED  BY ZenonT(60), <1>2, <1>3, <1>4 DEF JudgePod

\* DisposePod marks the Pod that was judged.
LEMMA DisposePodKeeps ==
  ASSUME IInv, NEW w \in Workers, DisposePod(w)
  PROVE  IInv'
<1>1. pod \in ObjectType /\ UNCHANGED <<sstate, wstate, op, claims, created, inflight, absent>> /\ End(w)
  BY ZenonT(60) DEF IInv, RowTypes, DisposePod, rowVars
<1>2. pod' \in ObjectType /\ Kept(pod, pod')
  <2>1. pod' = pod \/ pod' = [pod EXCEPT !.deleting = TRUE]
    BY ZenonT(60) DEF DisposePod
  <2>2. "LOST" \in Phases
    BY ZenonT(60) DEF Phases
  <2> QED  BY ZenonT(60), <1>1, <2>1, <2>2, Marked
<1>3. RowTypes' /\ created' <= MaxCreates /\ (inflight'["pod"] > 0 => op.spec) /\ \A r \in Roles : Kept(claims[r], claims'[r])
  BY ZenonT(60), <1>1, <1>2 DEF IInv, RowTypes, Accounted, Numbered, Kept
<1>4. Accounted' /\ Grows /\ Calm
  BY ZenonT(60), <1>1, <1>2, <1>3, ObjectsKeep
<1> QED  BY ZenonT(60), <1>1, <1>3, <1>4, EndKeeps

\* Publish: only the holder of the row makes the Workspace READY.
LEMMA PublishKeeps ==
  ASSUME IInv, NEW w \in Workers, Publish(w)
  PROVE  IInv'
<1>0. /\ worker[w].at = "PUBLISH" /\ worker[w].at \notin Outer /\ End(w)
      /\ UNCHANGED <<sstate, op, claims, pod, created, inflight, absent>>
  BY ZenonT(60) DEF Publish, Outer, providerVars
<1>H. InOperation(w)
  BY ZenonT(60), <1>0, Operates
<1>1. CASE lock # w
  <2>1. wstate' = wstate
    BY ZenonT(60), <1>1 DEF Publish
  <2> QED  BY ZenonT(60), <1>0, <2>1, RowFrame, EndKeeps DEF IInv
<1>2. CASE lock = w
  <2>1. op.proof # NoProof /\ Unmounted /\ wstate' = "READY"
    BY ZenonT(60), <1>0, <1>H, <1>2 DEF InOperation, Publish, Knows, Holds
  <2>2. RowTypes' /\ Accounted'
    BY ZenonT(60), <1>0, <2>1 DEF IInv, RowTypes, Accounted, Numbered, Proven, Unmounted, OnlyStray,
       InitializerKnown, DeletedStaysDeleted
  <2>3. Grows
    <3>1. created <= created'
      BY <1>0 DEF IInv, RowTypes
    <3> QED  BY ZenonT(60), <1>0, <3>1 DEF Grows, Fills, OnlyStray
  <2> QED  BY ZenonT(60), <1>0, <1>2, <2>2, <2>3, EndKeeps
<1> QED  BY ZenonT(60), <1>1, <1>2

-----------------------------------------------------------------------------
(* Deletion *)

\* The step of a deletion to the next claim or to its report.
Removed(w, present) ==
  /\ worker'[w].at = IF worker[w].role = "workspace" THEN "REMOVE" ELSE "REPORT"
  /\ worker'[w].role = "state" /\ worker'[w].op = worker[w].op
  /\ worker'[w].left = (worker[w].left \/ present) /\ worker'[w].at \notin Outer
  /\ \E y \in WorkerType : worker' = [worker EXCEPT ![w] = y] /\ y = worker'[w]

LEMMA AfterRemovalIs ==
  ASSUME worker \in [Workers -> WorkerType], NEW w \in Workers, NEW present \in BOOLEAN, AfterRemoval(w, present)
  PROVE  Removed(w, present)
<1> DEFINE at == IF worker[w].role = "workspace" THEN "REMOVE" ELSE "REPORT"
           left == worker[w].left \/ present
           y == [worker[w] EXCEPT !.at = at, !.role = "state", !.object = NoObject, !.left = left]
<1>1. worker[w] \in WorkerType /\ at \in Deleting /\ left \in BOOLEAN /\ "state" \in Roles
  BY ZenonT(60) DEF Deleting, Roles
<1>2. worker' = [worker EXCEPT ![w] = y]
  BY ZenonT(60) DEF AfterRemoval
<1> HIDE DEF at, left
<1>3. y \in WorkerType /\ y.at = at /\ y.role = "state" /\ y.op = worker[w].op /\ y.left = left
  BY ZenonT(60), <1>1, Constants DEF WorkerType
<1> HIDE DEF y
<1>4. worker'[w] = y /\ y.at \notin Outer
  BY ZenonT(60), <1>1, <1>2, <1>3 DEF Outer, Deleting
<1> QED  BY ZenonT(60), <1>2, <1>3, <1>4 DEF Removed, at, left

\* FindClaim: a claim that is absent was not left behind, and one that is to be
\* deleted is the journalled one.
LEMMA FindClaimKeeps ==
  ASSUME IInv, NEW w \in Workers, FindClaim(w)
  PROVE  IInv'
<1> DEFINE role == worker[w].role
           uid == claims[role].uid
<1>0. /\ worker[w].at = "REMOVE" /\ worker[w].at \notin Outer
      /\ UNCHANGED <<sstate, wstate, claims, pod, created, inflight, absent>>
  BY ZenonT(60) DEF FindClaim, Outer, providerVars
<1>H. InOperation(w)
  BY ZenonT(60), <1>0, Operates
<1> USE <1>0, <1>H DEF InOperation
<1>1. op.deleting /\ (role = "state" /\ ~worker[w].left => OnlyStray(claims["workspace"]))
  BY ZenonT(60) DEF Knows, Deleting
<1>2. CASE uid = 0 /\ AfterRemoval(w, FALSE) /\ UNCHANGED <<op, lock>>
  <2>1. Removed(w, FALSE)
    BY ZenonT(60), <1>2, AfterRemovalIs
  <2>2. RowTypes' /\ Accounted' /\ Grows /\ Calm
    BY ZenonT(60), <1>2, RowFrame DEF IInv
  <2>3. worker'[w].left = worker[w].left
    BY ZenonT(60), <2>1 DEF Removed, WorkerType
  <2>4. worker'[w].at \in {"REMOVE", "REPORT"} /\ (worker'[w].at = "REPORT" => role = "state")
    BY ZenonT(60), <2>1 DEF Removed
  <2>5. OnlyStray(claims[role]) /\ (~worker[w].left => OnlyStray(claims["workspace"]))
    BY ZenonT(60), <1>1, <1>2 DEF OnlyStray
  <2>6. Knows(w)'
    BY ZenonT(60), <1>1, <1>2, <2>1, <2>3, <2>4, <2>5 DEF Removed, Knows, Initializing, Deleting, OnlyStray
  <2>7. Holds(w)'
    BY ZenonT(60), <2>4 DEF Holds, Initializing, Claiming
  <2> QED  BY ZenonT(60), <1>2, <2>1, <2>2, <2>6, <2>7, GoesOn DEF Removed
<1>3. CASE /\ uid # 0 /\ OwnClaim(w) /\ op' = [op EXCEPT !.refs[role] = IF @ = 0 THEN uid ELSE @]
           /\ Seen(w, "DELETE", claims[role]) /\ UNCHANGED lock
  <2>1. claims[role] \in ObjectType /\ "DELETE" \in Deleting /\ op.refs[role] \in {0, uid}
    BY ZenonT(60), <1>3 DEF Deleting, OwnClaim
  <2>2. uid \in 1..created
    BY <1>3, <2>1 DEF IInv, Accounted, Numbered, ObjectType
  <2>3. op' = [op EXCEPT !.refs[role] = uid]
    BY ZenonT(60), <1>3, <2>1
  <2>4. RowTypes' /\ Accounted' /\ Grows /\ Calm /\ Journalled(role, uid)
    BY ZenonT(60), <2>1, <2>2, <2>3, RefJournalled
  <2>5. Turned(w, "DELETE", claims[role])
    BY ZenonT(60), <1>3, <2>1, SeenIs
  <2>6. \A r \in Roles : worker[w].op.refs[r] \in {0, op'.refs[r]}
    BY ZenonT(60), <2>4 DEF Knows, Grows, Fills
  <2>7. Knows(w)'
    BY ZenonT(60), <1>1, <1>3, <2>4, <2>5, <2>6 DEF Turned, Journalled, Knows, Initializing, Deleting, OnlyStray
  <2>8. Holds(w)'
    BY ZenonT(60), <2>5 DEF Turned, Holds, Initializing, Claiming
  <2> QED  BY ZenonT(60), <1>3, <2>4, <2>5, <2>7, <2>8, GoesOn DEF Turned
<1>4. CASE UNCHANGED op /\ End(w)
  BY ZenonT(60), <1>4, RowFrame, EndKeeps DEF IInv
<1> QED  BY ZenonT(60), <1>2, <1>3, <1>4 DEF FindClaim

\* RemoveClaim: a claim that was found is left behind, going or gone.
LEMMA RemoveClaimKeeps ==
  ASSUME IInv, NEW w \in Workers, RemoveClaim(w)
  PROVE  IInv'
<1> DEFINE role == worker[w].role
<1>0. /\ worker[w].at = "DELETE" /\ worker[w].at \notin Outer
      /\ UNCHANGED <<sstate, wstate, op, pod, created, inflight, absent>>
  BY ZenonT(60) DEF RemoveClaim, Outer, rowVars
<1>H. InOperation(w)
  BY ZenonT(60), <1>0, Operates
<1> USE <1>0, <1>H DEF InOperation
<1>1. op.deleting
  BY ZenonT(60) DEF Knows, Deleting
<1>2. claims' \in [Roles -> ObjectType] /\ \A r \in Roles : Kept(claims[r], claims'[r])
  <2>1. CASE claims' = claims
    BY ZenonT(60), <2>1 DEF Kept
  <2> QED  BY ZenonT(60), <2>1, ClaimChanges DEF RemoveClaim
<1>3. RowTypes' /\ created' <= MaxCreates /\ (inflight'["pod"] > 0 => op.spec) /\ Kept(pod, pod')
  BY ZenonT(60), <1>2 DEF IInv, RowTypes, Accounted, Numbered, Kept
<1>4. Accounted' /\ Grows /\ Calm
  BY ZenonT(60), <1>2, <1>3, ObjectsKeep
<1>5. CASE AfterRemoval(w, TRUE) /\ UNCHANGED lock
  <2>1. Removed(w, TRUE)
    BY ZenonT(60), <1>5, AfterRemovalIs
  <2>2. worker'[w].at \in {"REMOVE", "REPORT"} /\ worker'[w].left
    BY ZenonT(60), <2>1 DEF Removed
  <2>3. Knows(w)'
    BY ZenonT(60), <1>1, <2>1, <2>2 DEF Removed, Knows, Initializing, Deleting
  <2>4. Holds(w)'
    BY ZenonT(60), <2>2 DEF Holds, Initializing, Claiming
  <2> QED  BY ZenonT(60), <1>3, <1>4, <1>5, <2>1, <2>3, <2>4, GoesOn DEF Removed
<1>6. CASE End(w)
  BY ZenonT(60), <1>3, <1>4, <1>6, EndKeeps
<1> QED  BY ZenonT(60), <1>5, <1>6 DEF RemoveClaim

\* ReportDelete: ABSENT is reported when no claim was left behind.
LEMMA ReportDeleteKeeps ==
  ASSUME IInv, NEW w \in Workers, ReportDelete(w)
  PROVE  IInv'
<1>0. /\ worker[w].at = "REPORT" /\ worker[w].at \notin Outer /\ End(w)
      /\ UNCHANGED <<sstate, wstate, op, claims, pod, created, inflight>>
  BY ZenonT(60) DEF ReportDelete, Outer, rowVars, providerVars
<1>H. InOperation(w)
  BY ZenonT(60), <1>0, Operates
<1>1. op.deleting /\ (~worker[w].left => \A role \in Roles : OnlyStray(claims[role]))
  BY ZenonT(60), <1>0, <1>H DEF InOperation, Knows, Deleting
<1>2. RowTypes' /\ Accounted'
  BY ZenonT(60), <1>0, <1>1 DEF IInv, RowTypes, Accounted, Numbered, Proven, Unmounted, OnlyStray, InitializerKnown,
     DeletedStaysDeleted, ReportDelete
<1>3. Grows /\ Calm
  <2>1. created <= created'
    BY <1>0 DEF IInv, RowTypes
  <2> QED  BY ZenonT(60), <1>0, <2>1 DEF Grows, Fills, Calm, Unmounted, OnlyStray
<1> QED  BY ZenonT(60), <1>0, <1>2, <1>3, EndKeeps

-----------------------------------------------------------------------------
(* Theorems *)

\* Every step of the system keeps the rows, the objects and the knowledge of
\* the workers in agreement.
LEMMA StepKeeps == IInv /\ [Next]_vars => IInv'
<1> SUFFICES ASSUME IInv, [Next]_vars PROVE IInv'
  BY ZenonT(60)
<1>1. CASE UNCHANGED vars
  BY ZenonT(60), <1>1, RowFrame, OthersKeep DEF vars, rowVars, providerVars, IInv
<1>2. ASSUME NEW w \in Workers, WorkerStep(w) \/ StartGet(w) \/ Interrupted(w) \/ LosesRow(w) PROVE IInv'
  BY ZenonT(60), <1>2, ReserveKeeps, StartCreateKeeps, StartInitializeKeeps, StartDeleteKeeps, StartGetKeeps,
     InterruptedKeeps, LosesRowKeeps, EnsureClaimKeeps, BindClaimKeeps, CheckClaimsKeeps, EnsurePodKeeps,
     AdoptPodKeeps, JudgePodKeeps, DisposePodKeeps, PublishKeeps, FindClaimKeeps, RemoveClaimKeeps,
     ReportDeleteKeeps DEF WorkerStep
<1>3. CASE ProviderStep \/ PodEnds("FAILED") \/ Outside
  BY ZenonT(60), <1>3, ClaimStepKeeps, PodStepKeeps, InterventionKeeps DEF ProviderStep
<1>4. CASE \E n \in Names : Arrives(n)
  BY ZenonT(60), <1>4, ArrivesKeeps
<1>5. CASE SessionReady \/ Attachment \/ Close
  BY ZenonT(60), <1>5, SessionKeeps
<1> QED  BY ZenonT(60), <1>1, <1>2, <1>3, <1>4, <1>5 DEF Next

\* Whatever is interrupted, repeated, raced or late between the journal and the
\* provider, a worker knows what it decides on.
THEOREM StorageInvariant == Spec => []IInv
  BY Begins, StepKeeps, PTL DEF Spec

\* Do deletes only the claims that the journal names.  After it has reported them
\* ABSENT, a claim exists only if a create made it that outlived its hold on the
\* Workspace row, and so does an initializer that is not known to be done with
\* storage whose deletion was accepted.
THEOREM StorageIsAccountedFor == Spec => []StorageInv
<1>1. IInv => TypeOK
  BY BoundsAreNatural DEF IInv, RowTypes, Inside, Outer, Accounted, Numbered, TypeOK, OpType, RefsType, ObjectType
<1>2. IInv => DeletesOwn
  BY ZenonT(60) DEF IInv, WorkerInv, Knows, DeletesOwn, Outer, Deleting
<1>3. IInv => StorageInv
  BY ZenonT(60), <1>1, <1>2 DEF IInv, Accounted, StorageInv
<1> QED  BY <1>3, StorageInvariant, PTL

\* publishEmpty makes a Workspace READY only on the proof of its own claims.  The
\* initializer that proved them is gone, and one that mounts them afterwards was
\* made by a create that outlived its hold on the row.
THEOREM ReadinessIsProven == Spec => []ReadyIsProven
<1>1. IInv => ReadyIsProven
  BY ZenonT(60) DEF IInv, Accounted, Proven, Unmounted, ReadyIsProven
<1> QED  BY <1>1, StorageInvariant, PTL
=============================================================================
