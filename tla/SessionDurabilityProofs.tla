---------------------- MODULE SessionDurabilityProofs ----------------------
(***************************************************************************)
(* Proofs that a Session outlives its compute, for any number of workers,  *)
(* operations, checkpoints and resumes: DurabilityInv, SuspendedIsDurable, *)
(* CleanupIsFinal and ResumesExactly.                                      *)
(*                                                                         *)
(* The invariant says of each table what the other rows rely on: who may   *)
(* write the Workspace (SessionInv), what a snapshot holds (SnapshotInv),  *)
(* how checkpoints follow each other (LineInv), what a resume was prepared *)
(* for (ResumeInv), and what a worker that is between two steps may still  *)
(* find (WorkerInv, SandboxInv).  First comes what steps do to the rows    *)
(* (StoreInv); then it is shown that workers, in whatever order they stop, *)
(* repeat and overtake each other, keep to what the rows say, and that the *)
(* invariant gives the properties.                                         *)
(***************************************************************************)
EXTENDS SessionDurability, TLAPS

\* The Session is ACTIVE exactly while it has a current Execution, whose Attempt
\* is the only one that writes.
SessionInv ==
  /\ sstate = "ACTIVE" <=> current # 0
  /\ running => current # 0 /\ attempt # 0

\* A generation is committed, and a snapshot that was taken without a writer
\* in the current epoch holds every write.
SnapshotInv ==
  /\ SnapshotHasOwner
  /\ \A o, p \in Ops : ops[o].state = "PREPARED" /\ ops[p].state = "PREPARED" => o = p
  /\ gen # 0 => ops[gen].state = "COMMITTED"
  /\ \A o \in Ops : ops[o].state # "NONE" =>
       /\ ops[o].epoch <= epoch
       /\ ops[o].attached = 0 /\ ops[o].epoch = epoch => current = 0 /\ ops[o].content = written

\* Checkpoints are numbered in the order of their publication, and each names
\* its predecessor.
LineInv ==
  /\ \A c \in Points : points[c].gen # 0 <=> c <= head
  /\ \A c \in Points : points[c].gen # 0 =>
       /\ points[c].parent = c - 1
       /\ ops[points[c].gen].state = "COMMITTED"
       /\ points[c].detached <=> ops[points[c].gen].attached = 0

\* While a resume is under way the Session waits for it, and a failed one is
\* the last.
Waiting(r) ==
  /\ resumes[r].state = "RESUMING" =>
       /\ resumes[r].target = suspended.prior
       /\ \/ sstate = "CLOSING"
          \/ sstate = "SUSPENDED" /\ version = resumes[r].version /\ epoch = resumes[r].epoch
  /\ resumes[r].state = "DEGRADED" =>
       /\ sstate \in {"DEGRADED", "CLOSING"}
       /\ attachment = r => wstate = "ATTACHED"
       /\ attachment = r \/ resumes[r].cleaned
  /\ resumes[r].cleaned => resumes[r].state = "DEGRADED"

\* A completed resume leaves the Workspace as it was restored until the first
\* Attempt of the Execution after it.
Unwritten(r) ==
  /\ resumes[r].state # "NONE" =>
       resumes[r].epoch <= epoch /\ (resumes[r].gen # 0 => ops[resumes[r].gen].state = "COMMITTED")
  /\ resumes[r].state \in Idle =>
       /\ epoch = resumes[r].epoch => current = 0 /\ Content(resumes[r].gen) = written
       /\ epoch = resumes[r].epoch + 1 /\ current # 0 /\ attempt = 0 => Content(resumes[r].gen) = written

ResumeInv == AttachmentHasOwner /\ \A r \in Resumes : Waiting(r) /\ Unwritten(r)

Locked == {"ALLOCATING", "CREATING", "INSPECTING", "CHECKING"}

\* Only a worker inside its provider calls holds the Session row.  One that holds
\* it and creates works for a resume that is under way, one that cleans for a
\* failed one; a worker that lost the row may still create, but only a stray.
WorkerInv ==
  /\ \A w \in Workers : lock = w => worker[w].at \in Locked
  /\ \A w \in Workers : worker[w].at # "IDLE" =>
       worker[w].op \in Resumes /\ resumes[worker[w].op].state # "NONE"
  /\ \A w \in Workers : lock = w /\ worker[w].at \in {"ALLOCATING", "CREATING"} =>
       resumes[worker[w].op].state = "RESUMING"
  /\ \A w \in Workers : worker[w].at \in {"CLEANING", "CHECKING", "PROVED"} =>
       resumes[worker[w].op].state = "DEGRADED"
  /\ \A w \in Workers : worker[w].at = "PROVED" => OnlyStray(worker[w].op)

\* Objects and creates exist only for a resume that was prepared, and of one that
\* was cleaned only strays; only a completed resume is handed over.
SandboxInv ==
  /\ \A r \in Resumes : resumes[r].cleaned => OnlyStray(r)
  /\ \A r \in Resumes : sandbox[r].state # "ABSENT" \/ late[r] > 0 => resumes[r].state # "NONE"
  /\ \A r \in Resumes : resumes[r].handed # 0 => resumes[r].state \in Idle

StoreInv ==
  /\ RowTypes /\ TableTypes /\ SessionInv /\ SnapshotInv /\ LineInv /\ SuspendedIsDurable /\ ResumeInv

IInv == StoreInv /\ WorkerTypes /\ WorkerInv /\ SandboxInv

-----------------------------------------------------------------------------
(* Types *)

\* The bounds are natural numbers, so that zero names no row.
LEMMA Bounds ==
  /\ MaxOps \in Nat /\ MaxPoints \in Nat /\ MaxResumes \in Nat
  /\ MaxEpoch \in Nat /\ MaxAttempts \in Nat /\ MaxWrites \in Nat /\ MaxFaults \in Nat
  /\ 0 \notin Workers
  BY ZenonT(60), BoundsAreNatural

\* Init establishes the invariant.
LEMMA Begins == Init => IInv
<1> SUFFICES ASSUME Init PROVE IInv
  BY ZenonT(60)
<1> USE Bounds DEF Init
<1>1. NoOp \in OpType /\ NoPoint \in PointType /\ NoSuspend \in SuspendType
  BY DEF NoOp, NoPoint, NoSuspend, OpType, PointType, SuspendType, Idle
<1>2. NoResume \in ResumeType /\ Resting \in WorkerType /\ NoSandbox \in SandboxType
  BY DEF NoResume, Resting, NoSandbox, ResumeType, WorkerType, SandboxType, Idle
<1>3. RowTypes /\ TableTypes /\ WorkerTypes
  <2>1. running \in BOOLEAN
    BY ZenonT(60)
  <2>2. \A n \in Nat : 0 \in 0..n
    OBVIOUS
  <2>3. RowTypes
    BY ZenonT(60), <1>1, <2>1, <2>2 DEF RowTypes
  <2>4. TableTypes
    BY ZenonT(60), <1>1, <1>2 DEF TableTypes
  <2>5. WorkerTypes
    BY <1>2 DEF WorkerTypes
  <2> QED  BY ZenonT(60), <2>3, <2>4, <2>5
<1>4. /\ \A o \in Ops : ops[o].state = "NONE"
      /\ \A c \in Points : points[c].gen = 0
      /\ \A r \in Resumes : /\ resumes[r].state = "NONE" /\ resumes[r].handed = 0 /\ ~resumes[r].cleaned
                            /\ sandbox[r].state = "ABSENT" /\ ~(late[r] > 0)
      /\ \A w \in Workers : worker[w].at = "IDLE"
  BY DEF NoOp, NoPoint, NoResume, NoSandbox, Resting
<1>5. SessionInv /\ SuspendedIsDurable /\ SnapshotInv
  BY <1>4 DEF SessionInv, SuspendedIsDurable, SnapshotInv, SnapshotHasOwner
<1>6. LineInv
  BY <1>4 DEF LineInv, Points
<1>7. ResumeInv
  BY <1>4 DEF ResumeInv, Waiting, Unwritten, AttachmentHasOwner, Idle
<1>8. WorkerInv /\ SandboxInv
  BY <1>4 DEF WorkerInv, SandboxInv, OnlyStray
<1> QED  BY ZenonT(60), <1>3, <1>5, <1>6, <1>7, <1>8 DEF IInv, StoreInv

\* A checkpoint operation that only changes its state.
LEMMA OpMoves ==
  ASSUME ops \in [Ops -> OpType], NEW o \in Ops, NEW s \in {"COMMITTED", "ABORTED"},
         ops' = [ops EXCEPT ![o].state = s]
  PROVE  /\ ops' \in [Ops -> OpType]
         /\ \A p \in Ops \ {o} : ops'[p] = ops[p]
         /\ ops'[o].state = s
         /\ \A p \in Ops : /\ ops'[p].parent = ops[p].parent /\ ops'[p].epoch = ops[p].epoch
                           /\ ops'[p].attached = ops[p].attached /\ ops'[p].content = ops[p].content
<1>1. [ops[o] EXCEPT !.state = s] \in OpType
  BY DEF OpType
<1> QED  BY <1>1 DEF OpType

\* What a step leaves alone of a resume that changes its state, or one of its marks.
Kept(r) ==
  /\ resumes'[r].version = resumes[r].version /\ resumes'[r].epoch = resumes[r].epoch
  /\ resumes'[r].point = resumes[r].point /\ resumes'[r].gen = resumes[r].gen
  /\ resumes'[r].target = resumes[r].target

\* A resume that only changes its state.
LEMMA ResumeMoves ==
  ASSUME resumes \in [Resumes -> ResumeType], NEW r \in Resumes, NEW s \in {"READY", "IDLE", "DEGRADED"},
         resumes' = [resumes EXCEPT ![r].state = s]
  PROVE  /\ resumes' \in [Resumes -> ResumeType]
         /\ \A q \in Resumes \ {r} : resumes'[q] = resumes[q]
         /\ resumes'[r].state = s /\ (resumes'[r].cleaned <=> resumes[r].cleaned)
         /\ \A q \in Resumes : resumes'[q].handed = resumes[q].handed /\ Kept(q)
<1>1. [resumes[r] EXCEPT !.state = s] \in ResumeType
  BY ZenonT(60) DEF ResumeType
<1> QED  BY ZenonT(60), <1>1 DEF ResumeType, Kept

\* A resume whose deadline passes.
LEMMA ResumeExpires ==
  ASSUME resumes \in [Resumes -> ResumeType], NEW r \in Resumes,
         resumes' = [resumes EXCEPT ![r].expired = TRUE]
  PROVE  /\ resumes' \in [Resumes -> ResumeType]
         /\ \A q \in Resumes : /\ resumes'[q].state = resumes[q].state /\ Kept(q)
                               /\ (resumes'[q].cleaned <=> resumes[q].cleaned)
                               /\ resumes'[q].handed = resumes[q].handed
<1>1. [resumes[r] EXCEPT !.expired = TRUE] \in ResumeType
  BY ZenonT(60) DEF ResumeType
<1> QED  BY <1>1 DEF ResumeType, Kept

\* A resume whose candidate was proved absent.
LEMMA ResumeIsCleaned ==
  ASSUME resumes \in [Resumes -> ResumeType], NEW r \in Resumes,
         resumes' = [resumes EXCEPT ![r].cleaned = TRUE]
  PROVE  /\ resumes' \in [Resumes -> ResumeType]
         /\ \A q \in Resumes \ {r} : resumes'[q] = resumes[q]
         /\ resumes'[r].cleaned
         /\ \A q \in Resumes : /\ resumes'[q].state = resumes[q].state /\ Kept(q)
                               /\ resumes'[q].handed = resumes[q].handed
<1>1. [resumes[r] EXCEPT !.cleaned = TRUE] \in ResumeType
  BY ZenonT(60) DEF ResumeType
<1> QED  BY <1>1 DEF ResumeType, Kept

\* A resume that is handed to an Execution.
LEMMA ResumeIsHanded ==
  ASSUME resumes \in [Resumes -> ResumeType], NEW r \in Resumes, NEW e \in 0..MaxEpoch,
         resumes' = [resumes EXCEPT ![r].handed = e]
  PROVE  /\ resumes' \in [Resumes -> ResumeType]
         /\ \A q \in Resumes \ {r} : resumes'[q] = resumes[q]
         /\ \A q \in Resumes : /\ resumes'[q].state = resumes[q].state /\ Kept(q)
                               /\ (resumes'[q].cleaned <=> resumes[q].cleaned)
<1>1. [resumes[r] EXCEPT !.handed = e] \in ResumeType
  BY ZenonT(60) DEF ResumeType
<1> QED  BY <1>1 DEF ResumeType, Kept

\* A number that is not zero names a row.
LEMMA Named ==
  ASSUME RowTypes, TableTypes
  PROVE  /\ gen # 0 => gen \in Ops
         /\ head # 0 => head \in Points
         /\ attachment # 0 => attachment \in Resumes
         /\ \A c \in Points : points[c].gen # 0 => points[c].gen \in Ops
         /\ \A r \in Resumes : resumes[r].gen # 0 => resumes[r].gen \in Ops
         /\ 0 \notin Ops /\ 0 \notin Points /\ 0 \notin Resumes
<1>1. \A c \in Points : points[c].gen \in 0..MaxOps
  BY ZenonT(60) DEF TableTypes, PointType
<1>2. \A r \in Resumes : resumes[r].gen \in 0..MaxOps
  BY ZenonT(60) DEF TableTypes, ResumeType
<1> QED  BY <1>1, <1>2, Bounds DEF RowTypes, Ops, Points, Resumes

-----------------------------------------------------------------------------
(* The steps of the store *)

Quiet == UNCHANGED <<sessionVars, workspaceVars, points, suspended, written, resumes>>

\* A step that changes none of the rows.
LEMMA QuietKeeps == StoreInv /\ Quiet => StoreInv'
<1> SUFFICES ASSUME StoreInv, Quiet PROVE StoreInv'
  BY ZenonT(60)
<1> USE DEF Quiet, StoreInv, sessionVars, workspaceVars
<1>1. RowTypes' /\ TableTypes'
  BY ZenonT(60) DEF RowTypes, TableTypes
<1>2. SessionInv' /\ SuspendedIsDurable'
  BY ZenonT(60) DEF SessionInv, SuspendedIsDurable, Content
<1>3. SnapshotInv'
  BY ZenonT(60) DEF SnapshotInv, SnapshotHasOwner
<1>4. LineInv'
  BY ZenonT(60) DEF LineInv
<1>5. ResumeInv'
  BY DEF ResumeInv, Waiting, Unwritten, AttachmentHasOwner, Content
<1> QED  BY ZenonT(60), <1>1, <1>2, <1>3, <1>4, <1>5

\* What nobody touches of the resumes when a snapshot is taken or given up.
LEMMA ResumesStay ==
  ASSUME StoreInv, UNCHANGED <<sessionVars, attachment, suspended, written, resumes>>,
         \A r \in Resumes : resumes[r].state # "RESUMING" /\ (resumes[r].state = "DEGRADED" => attachment # r \/ wstate' = wstate),
         \A o \in Ops : ops[o].state = "COMMITTED" => ops'[o].state = "COMMITTED" /\ ops'[o].content = ops[o].content
  PROVE  ResumeInv'
<1> USE Named DEF StoreInv, sessionVars
<1>1. \A r \in Resumes : resumes[r].state # "NONE" /\ resumes[r].gen # 0 =>
        ops'[resumes[r].gen].state = "COMMITTED" /\ ops'[resumes[r].gen].content = ops[resumes[r].gen].content
  BY ZenonT(60) DEF ResumeInv, Waiting, Unwritten
<1>2. \A r \in Resumes : resumes[r].state # "NONE" => Content(resumes[r].gen)' = Content(resumes[r].gen)
  BY ZenonT(60), <1>1 DEF Content
<1> QED  BY <1>1, <1>2 DEF ResumeInv, Waiting, Unwritten, AttachmentHasOwner, Idle

\* Prepare of a checkpoint operation.
LEMMA PreparedKeeps ==
  ASSUME StoreInv, NEW o \in Ops, PrepareCheckpoint(o)
  PROVE  StoreInv'
<1> USE Named, Bounds DEF StoreInv
<1> DEFINE y == [state |-> "PREPARED", parent |-> gen, epoch |-> epoch, attempt |-> attempt,
                 attached |-> attachment, prior |-> wstate, content |-> written]
<1>1. y \in OpType
  BY ZenonT(60) DEF PrepareCheckpoint, OpType, RowTypes
<1>2. ops' = [ops EXCEPT ![o] = y] /\ UNCHANGED <<sessionVars, gen, attachment, points, suspended, written, resumes>>
  BY ZenonT(60) DEF PrepareCheckpoint, computeVars, resumeVars
<1>3. ops' \in [Ops -> OpType] /\ ops'[o] = y /\ \A p \in Ops \ {o} : ops'[p] = ops[p]
  BY ZenonT(60), <1>1, <1>2 DEF TableTypes
<1>4. /\ ops'[o].state = "PREPARED" /\ ops'[o].parent = gen /\ ops'[o].epoch = epoch
      /\ ops'[o].attached = attachment /\ ops'[o].content = written
  BY <1>3
<1> HIDE DEF y
<1>5. /\ ops[o].state = "NONE" /\ wstate' = "SNAPSHOTTING" /\ \A p \in Ops : ops[p].state # "PREPARED"
      /\ \/ current = 0 /\ attachment = 0 /\ sstate \in Idle
         \/ sstate = "ACTIVE" /\ attachment # 0
  BY ZenonT(60) DEF PrepareCheckpoint, Detached, Attached
<1>6. RowTypes' /\ TableTypes'
  BY ZenonT(60), <1>2, <1>3, <1>5 DEF RowTypes, TableTypes, sessionVars
<1>7. SessionInv' /\ SuspendedIsDurable'
  BY ZenonT(60), <1>2, <1>5 DEF SessionInv, SuspendedIsDurable, sessionVars, Idle
<1>8. SnapshotInv'
  <2>1. SnapshotHasOwner'
    BY <1>2, <1>3, <1>4, <1>5 DEF SnapshotHasOwner
  <2>2. (\A p, q \in Ops : ops[p].state = "PREPARED" /\ ops[q].state = "PREPARED" => p = q)'
    BY <1>3, <1>5
  <2>3. gen # 0 => ops'[gen].state = "COMMITTED"
    BY ZenonT(60), <1>3, <1>5 DEF SnapshotInv
  <2>4. ops'[o].attached = 0 => current = 0
    BY ZenonT(60), <1>4, <1>5
  <2>5. epoch \in Nat
    BY DEF RowTypes
  <2> QED  BY <1>2, <1>3, <1>4, <2>1, <2>2, <2>3, <2>4, <2>5 DEF SnapshotInv, sessionVars
<1>9. LineInv'
  <2>1. \A c \in Points : points[c].gen # 0 => points[c].gen # o
    BY ZenonT(60), <1>5 DEF LineInv
  <2> QED  BY <1>2, <1>3, <2>1 DEF LineInv, sessionVars
<1>10. ResumeInv'
  <2>1. \A r \in Resumes : resumes[r].state # "RESUMING" /\ resumes[r].state # "DEGRADED"
    BY ZenonT(60), <1>5 DEF ResumeInv, Waiting, Unwritten, Idle
  <2> QED  BY <1>2, <1>3, <1>5, <2>1, ResumesStay
<1> QED  BY ZenonT(60), <1>6, <1>7, <1>8, <1>9, <1>10

\* Publish of a generation.
LEMMA PublishedKeeps ==
  ASSUME StoreInv, NEW o \in Ops, PublishGeneration(o)
  PROVE  StoreInv'
<1> USE Named, Bounds DEF StoreInv
<1>1. /\ ops' = [ops EXCEPT ![o].state = "COMMITTED"] /\ wstate' = ops[o].prior /\ gen' = o
      /\ UNCHANGED <<sessionVars, attachment, points, suspended, written, resumes>>
  BY ZenonT(60) DEF PublishGeneration, Restored, computeVars, resumeVars
<1>2. /\ ops[o].state = "PREPARED" /\ wstate = "SNAPSHOTTING"
      /\ sstate \in Idle \cup {"ACTIVE"}
  BY ZenonT(60) DEF PublishGeneration, AtBoundary, Detached, Attached
<1>3. /\ ops' \in [Ops -> OpType] /\ ops'[o].state = "COMMITTED"
      /\ \A p \in Ops \ {o} : ops'[p] = ops[p]
      /\ \A p \in Ops : /\ ops'[p].parent = ops[p].parent /\ ops'[p].epoch = ops[p].epoch
                        /\ ops'[p].attached = ops[p].attached /\ ops'[p].content = ops[p].content
  BY ZenonT(60), <1>1, OpMoves DEF TableTypes
<1>4. wstate' \in {"READY", "ATTACHED"}
  BY ZenonT(60), <1>1 DEF TableTypes, OpType
<1>5. RowTypes' /\ TableTypes'
  <2>1. gen' \in 0..MaxOps
    BY <1>1 DEF Ops
  <2> QED  BY ZenonT(60), <1>1, <1>3, <1>4, <2>1 DEF RowTypes, TableTypes, sessionVars
<1>6. SessionInv' /\ SuspendedIsDurable'
  BY ZenonT(60), <1>1, <1>2 DEF SessionInv, SuspendedIsDurable, sessionVars, Idle
<1>7. \A p \in Ops : ops'[p].state # "PREPARED"
  BY <1>2, <1>3 DEF SnapshotInv
<1>8. SnapshotInv'
  <2>1. SnapshotHasOwner'
    BY ZenonT(60), <1>4, <1>7 DEF SnapshotHasOwner
  <2>2. \A p \in Ops : ops'[p].state # "NONE" => ops[p].state # "NONE"
    BY ZenonT(60), <1>2, <1>3
  <2> QED  BY <1>1, <1>3, <1>7, <2>1, <2>2 DEF SnapshotInv, sessionVars
<1>9. LineInv'
  BY <1>1, <1>3 DEF LineInv, sessionVars
<1>10. ResumeInv'
  <2>1. \A r \in Resumes : resumes[r].state # "RESUMING" /\ resumes[r].state # "DEGRADED"
    BY ZenonT(60), <1>2 DEF ResumeInv, Waiting, Unwritten, Idle
  <2> QED  BY <1>1, <1>3, <2>1, ResumesStay
<1> QED  BY ZenonT(60), <1>5, <1>6, <1>8, <1>9, <1>10

\* Abort of a checkpoint operation.
LEMMA AbortedKeeps ==
  ASSUME StoreInv, NEW o \in Ops, AbortCheckpoint(o)
  PROVE  StoreInv'
<1> USE Named, Bounds DEF StoreInv
<1>1. /\ ops' = [ops EXCEPT ![o].state = "ABORTED"] /\ ops[o].state = "PREPARED"
      /\ UNCHANGED <<sessionVars, gen, attachment, points, suspended, written, resumes>>
  BY ZenonT(60) DEF AbortCheckpoint, computeVars, resumeVars
<1>2. wstate = "SNAPSHOTTING" /\ wstate' = "DEGRADED"
  BY ZenonT(60), <1>1 DEF AbortCheckpoint, AfterAbort, SnapshotInv, SnapshotHasOwner
<1>3. /\ ops' \in [Ops -> OpType] /\ ops'[o].state = "ABORTED"
      /\ \A p \in Ops \ {o} : ops'[p] = ops[p]
      /\ \A p \in Ops : /\ ops'[p].parent = ops[p].parent /\ ops'[p].epoch = ops[p].epoch
                        /\ ops'[p].attached = ops[p].attached /\ ops'[p].content = ops[p].content
  BY ZenonT(60), <1>1, OpMoves DEF TableTypes
<1>5. RowTypes' /\ TableTypes'
  BY ZenonT(60), <1>1, <1>2, <1>3 DEF RowTypes, TableTypes, sessionVars
<1>6. SessionInv' /\ SuspendedIsDurable'
  <2>1. gen # 0 => ops'[gen].content = ops[gen].content
    BY ZenonT(60), <1>3
  <2>2. Content(gen)' = Content(gen)
    BY ZenonT(60), <1>1, <2>1 DEF Content
  <2> QED  BY ZenonT(60), <1>1, <2>2 DEF SessionInv, SuspendedIsDurable, sessionVars
<1>7. \A p \in Ops : ops'[p].state # "PREPARED"
  BY <1>1, <1>3 DEF SnapshotInv
<1>8. SnapshotInv'
  <2>1. SnapshotHasOwner'
    BY ZenonT(60), <1>2, <1>7 DEF SnapshotHasOwner
  <2>2. \A p \in Ops : ops'[p].state # "NONE" => ops[p].state # "NONE"
    BY <1>1, <1>3
  <2>3. gen # 0 => ops'[gen].state = "COMMITTED"
    BY <1>1, <1>3 DEF SnapshotInv
  <2> QED  BY <1>1, <1>3, <1>7, <2>1, <2>2, <2>3 DEF SnapshotInv, sessionVars
<1>9. LineInv'
  BY <1>1, <1>3 DEF LineInv, sessionVars
<1>10. ResumeInv'
  <2>1. \A r \in Resumes : resumes[r].state # "RESUMING" /\ (resumes[r].state = "DEGRADED" => attachment # r)
    BY ZenonT(60), <1>2 DEF ResumeInv, Waiting, Unwritten, AttachmentHasOwner
  <2> QED  BY <1>1, <1>3, <2>1, ResumesStay
<1> QED  BY ZenonT(60), <1>5, <1>6, <1>8, <1>9, <1>10

\* Publication of a checkpoint.
LEMMA CheckpointKeeps ==
  ASSUME StoreInv, NEW c \in Points, NEW o \in Ops, NEW p \in 0..MaxPoints, PublishCheckpoint(c, o, p)
  PROVE  StoreInv'
<1> USE Named, Bounds DEF StoreInv
<1>1. /\ points' = [points EXCEPT ![c] = Composed(o, p)] /\ head' = c /\ version' = version + 1
      /\ UNCHANGED <<sstate, epoch, current, attempt, running, workspaceVars, suspended, written, resumes>>
      /\ points[c].gen = 0 /\ \A b \in 1..(c - 1) : points[b].gen # 0
      /\ p = head /\ ops[o].state = "COMMITTED"
  BY ZenonT(60) DEF PublishCheckpoint, ParentIsHead, computeVars, resumeVars
<1>2. sstate \in Idle \cup {"ACTIVE"}
  BY ZenonT(60) DEF PublishCheckpoint, Detached, Attached
<1>3. Composed(o, p) \in PointType
  BY DEF Composed, PointType, RowTypes, Ops
<1>4. points' \in [Points -> PointType] /\ points'[c] = Composed(o, p) /\ \A d \in Points \ {c} : points'[d] = points[d]
  BY ZenonT(60), <1>1, <1>3 DEF TableTypes
<1>5. points'[c].gen = o /\ points'[c].parent = head /\ (points'[c].detached <=> ops[o].attached = 0)
  BY ZenonT(60), <1>1, <1>4 DEF Composed
<1>6. RowTypes' /\ TableTypes'
  <2>1. head' \in 0..MaxPoints /\ version' \in Nat
    BY <1>1 DEF Points, RowTypes
  <2> QED  BY <1>1, <1>4, <2>1 DEF RowTypes, TableTypes, workspaceVars
<1>7. SessionInv' /\ SuspendedIsDurable'
  BY ZenonT(60), <1>1, <1>2 DEF SessionInv, SuspendedIsDurable, Idle
<1>8. SnapshotInv'
  BY <1>1 DEF SnapshotInv, SnapshotHasOwner, workspaceVars
<1>9. c = head + 1
  <2>1. c > head
    BY <1>1 DEF LineInv, RowTypes, Points
  <2>2. c \in Nat \ {0} /\ c <= MaxPoints /\ head \in Nat
    BY DEF Points, RowTypes
  <2>3. ASSUME c # head + 1 PROVE FALSE
    <3>1. head + 1 \in 1..(c - 1) /\ head + 1 \in Points
      BY <2>1, <2>2, <2>3 DEF Points
    <3> QED  BY <1>1, <2>2, <3>1 DEF LineInv
  <2> QED  BY ZenonT(60), <2>3
<1>10. LineInv'
  <2>1. \A d \in Points : points'[d].gen # 0 <=> d <= head'
    <3> TAKE d \in Points
    <3>1. d \in Nat /\ head \in Nat /\ c \in Nat
      BY DEF Points, RowTypes
    <3>2. CASE d = c
      BY <1>1, <1>5, <3>1, <3>2
    <3>3. CASE d # c
      BY <1>1, <1>4, <1>9, <3>1, <3>3 DEF LineInv
    <3> QED  BY ZenonT(60), <3>2, <3>3
  <2>2. ASSUME NEW d \in Points, points'[d].gen # 0
        PROVE  /\ points'[d].parent = d - 1 /\ ops'[points'[d].gen].state = "COMMITTED"
               /\ points'[d].detached <=> ops'[points'[d].gen].attached = 0
    <3>1. CASE d = c
      <4>1. head = c - 1
        BY <1>9 DEF RowTypes, Points
      <4> QED  BY <1>1, <1>5, <3>1, <4>1 DEF workspaceVars
    <3>2. CASE d # c
      BY <1>1, <1>4, <2>2, <3>2 DEF LineInv, workspaceVars
    <3> QED  BY ZenonT(60), <3>1, <3>2
  <2> QED  BY ZenonT(60), <2>1, <2>2 DEF LineInv
<1>11. ResumeInv'
  <2>1. \A r \in Resumes : resumes[r].state # "RESUMING"
    BY ZenonT(60), <1>2 DEF ResumeInv, Waiting, Unwritten, Idle
  <2> QED  BY <1>1, <2>1 DEF ResumeInv, Waiting, Unwritten, AttachmentHasOwner, Content, workspaceVars
<1> QED  BY ZenonT(60), <1>6, <1>7, <1>8, <1>10, <1>11

\* Suspend.
LEMMA SuspendKeeps ==
  ASSUME StoreInv, Suspend
  PROVE  StoreInv'
<1> USE Named, Bounds DEF StoreInv
<1>1. /\ sstate \in Idle /\ current = 0 /\ head # 0 /\ points[head].gen = gen
      /\ points[head].detached /\ ops[gen].epoch = epoch /\ gen # 0
      /\ sstate' = "SUSPENDED" /\ version' = version + 1
      /\ suspended' = [point |-> head, version |-> version + 1, epoch |-> epoch, prior |-> sstate]
      /\ UNCHANGED <<epoch, head, current, attempt, running, workspaceVars, points, written, resumes>>
  BY ZenonT(60) DEF Suspend, BoundaryIsLast, Restorable, resumeVars
<1>2. version + 1 \in Nat
  BY DEF RowTypes
<1>3. suspended' \in SuspendType
  BY ZenonT(60), <1>1, <1>2 DEF RowTypes, SuspendType
<1>4. RowTypes' /\ TableTypes'
  BY ZenonT(60), <1>1, <1>2, <1>3 DEF RowTypes, TableTypes, workspaceVars
<1>5. SessionInv'
  BY ZenonT(60), <1>1 DEF SessionInv, Idle
<1>6. SnapshotInv'
  BY <1>1 DEF SnapshotInv, SnapshotHasOwner, workspaceVars
<1>7. LineInv'
  BY ZenonT(60), <1>1 DEF LineInv, workspaceVars
<1>8. SuspendedIsDurable'
  <2>1. ops[gen].attached = 0 /\ ops[gen].state = "COMMITTED"
    BY ZenonT(60), <1>1 DEF LineInv
  <2>2. ops[gen].content = written
    BY ZenonT(60), <1>1, <2>1 DEF SnapshotInv
  <2> QED  BY ZenonT(60), <1>1, <2>2 DEF SuspendedIsDurable, Content, workspaceVars
<1>9. ResumeInv'
  <2>1. \A r \in Resumes : resumes[r].state # "RESUMING" /\ resumes[r].state # "DEGRADED"
    BY ZenonT(60), <1>1 DEF ResumeInv, Waiting, Unwritten, Idle
  <2> QED  BY <1>1, <2>1 DEF ResumeInv, Waiting, Unwritten, AttachmentHasOwner, Content, workspaceVars
<1> QED  BY ZenonT(60), <1>4, <1>5, <1>6, <1>7, <1>8, <1>9

\* What the steps of a resume do to the rows.
Reserved(r) ==
  /\ resumes[r].state = "NONE" /\ Reserve(r)
  /\ UNCHANGED <<sstate, epoch, head, current, attempt, running, gen, ops, points, suspended, written>>
Resumed(r) ==
  /\ resumes[r].state = "RESUMING" /\ Fence(r)
  /\ resumes' = [resumes EXCEPT ![r].state = resumes[r].target]
  /\ sstate' = resumes[r].target /\ version' = version + 1
  /\ UNCHANGED <<epoch, head, current, attempt, running, workspaceVars, points, suspended, written>>
Abandoned(r) ==
  /\ resumes[r].state = "RESUMING"
  /\ resumes' = [resumes EXCEPT ![r].state = "DEGRADED"]
  /\ sstate' = IF SameSession(r) THEN "DEGRADED" ELSE sstate
  /\ version' = IF SameSession(r) THEN version + 1 ELSE version
  /\ UNCHANGED <<epoch, head, current, attempt, running, workspaceVars, points, suspended, written>>
CleanedUp(r) ==
  /\ resumes[r].state = "DEGRADED"
  /\ resumes' = [resumes EXCEPT ![r].cleaned = TRUE]
  /\ IF ~resumes[r].cleaned /\ OwnAttachment(r)
     THEN wstate' = "DEGRADED" /\ attachment' = 0
     ELSE UNCHANGED <<wstate, attachment>>
  /\ UNCHANGED <<sessionVars, gen, ops, points, suspended, written>>

\* One resume at a time is under way or waits for its cleanup.
LEMMA OneCandidate ==
  ASSUME StoreInv, NEW q \in Resumes, NEW r \in Resumes, Candidate(q), Candidate(r)
  PROVE  q = r
  BY DEF StoreInv, ResumeInv, Waiting, Unwritten, AttachmentHasOwner, Candidate

\* The reservation of the single writer.
LEMMA ReservedKeeps ==
  ASSUME StoreInv, NEW r \in Resumes, Reserved(r)
  PROVE  StoreInv'
<1> USE Named, Bounds DEF StoreInv
<1> DEFINE y == [state |-> "RESUMING", version |-> version + 1, epoch |-> epoch, point |-> head,
                 gen |-> gen, target |-> suspended.prior, expired |-> FALSE, cleaned |-> FALSE,
                 handed |-> 0]
<1>1. /\ resumes[r].state = "NONE" /\ sstate = "SUSPENDED" /\ wstate = "READY" /\ attachment = 0
      /\ wstate' = "ATTACHED" /\ attachment' = r /\ version' = version + 1
      /\ UNCHANGED <<sstate, epoch, head, current, attempt, running, gen, ops, points, suspended, written>>
      /\ \A q \in Resumes : ~Candidate(q)
      /\ resumes' = [resumes EXCEPT ![r] = y]
  BY ZenonT(60) DEF Reserved, Reserve
<1>2. version + 1 \in Nat /\ 0 \in 0..MaxEpoch
  BY DEF RowTypes
<1>3. y \in ResumeType
  BY ZenonT(60), <1>2 DEF RowTypes, ResumeType, SuspendType
<1>4. resumes' \in [Resumes -> ResumeType] /\ resumes'[r] = y /\ \A q \in Resumes \ {r} : resumes'[q] = resumes[q]
  BY ZenonT(60), <1>1, <1>3 DEF TableTypes
<1>5. /\ resumes'[r].state = "RESUMING" /\ resumes'[r].version = version + 1 /\ resumes'[r].epoch = epoch
      /\ resumes'[r].gen = gen /\ resumes'[r].target = suspended.prior
  BY <1>4
<1>6. ~resumes'[r].cleaned
  BY <1>4
<1> HIDE DEF y
<1>7. RowTypes' /\ TableTypes'
  <2>1. r \in 0..MaxResumes
    BY DEF Resumes
  <2> QED  BY ZenonT(60), <1>1, <1>2, <1>4, <2>1 DEF RowTypes, TableTypes
<1>8. SessionInv' /\ SuspendedIsDurable'
  BY ZenonT(60), <1>1 DEF SessionInv, SuspendedIsDurable, Content
<1>9. SnapshotInv'
  BY ZenonT(60), <1>1 DEF SnapshotInv, SnapshotHasOwner
<1>10. LineInv'
  BY ZenonT(60), <1>1 DEF LineInv
<1>11. ResumeInv'
  <2>1. \A q \in Resumes : resumes[q].state \notin {"RESUMING", "DEGRADED"}
    BY ZenonT(60), <1>1 DEF Candidate, ResumeInv, Waiting, Unwritten
  <2>2. AttachmentHasOwner'
    BY ZenonT(60), <1>1, <1>4, <1>5, <1>6, <2>1 DEF AttachmentHasOwner
  <2>3. epoch \in Nat
    BY DEF RowTypes
  <2>4. \A q \in Resumes : q # r => Content(resumes[q].gen)' = Content(resumes[q].gen)
    BY ZenonT(60), <1>1, <1>4 DEF Content
  <2>5. \A q \in Resumes : (resumes[q].cleaned => resumes[q].state = "DEGRADED")'
    BY <1>4, <1>6 DEF ResumeInv, Waiting, Unwritten
  <2>6. \A q \in Resumes : Waiting(q)'
    BY <1>1, <1>4, <1>5, <2>1, <2>3, <2>4, <2>5 DEF ResumeInv, Waiting, SnapshotInv, Idle
  <2>7. \A q \in Resumes : Unwritten(q)'
    BY <1>1, <1>4, <1>5, <2>1, <2>3, <2>4, <2>5 DEF ResumeInv, Unwritten, SnapshotInv, Idle
  <2> QED  BY ZenonT(60), <2>2, <2>6, <2>7 DEF ResumeInv
<1> QED  BY ZenonT(60), <1>7, <1>8, <1>9, <1>10, <1>11

\* The completion of a resume.
LEMMA ResumedKeeps ==
  ASSUME StoreInv, NEW r \in Resumes, Resumed(r)
  PROVE  StoreInv'
<1> USE Named, Bounds DEF StoreInv
<1>1. /\ resumes[r].state = "RESUMING" /\ sstate = "SUSPENDED" /\ current = 0
      /\ epoch = resumes[r].epoch /\ gen = resumes[r].gen
      /\ resumes' = [resumes EXCEPT ![r].state = resumes[r].target]
      /\ sstate' = resumes[r].target /\ version' = version + 1
      /\ UNCHANGED <<epoch, head, current, attempt, running, workspaceVars, points, suspended, written>>
  BY ZenonT(60) DEF Resumed, Fence, NoWriters
<1>2. resumes[r].target \in Idle
  BY ZenonT(60) DEF TableTypes, ResumeType
<1>3. /\ resumes' \in [Resumes -> ResumeType]
      /\ \A q \in Resumes \ {r} : resumes'[q] = resumes[q]
      /\ resumes'[r].state = resumes[r].target /\ (resumes'[r].cleaned <=> resumes[r].cleaned)
      /\ \A q \in Resumes : Kept(q)
  BY ZenonT(60), <1>1, <1>2, ResumeMoves DEF TableTypes, Idle
<1>4. RowTypes' /\ TableTypes'
  BY <1>1, <1>2, <1>3 DEF RowTypes, TableTypes, workspaceVars, Idle
<1>5. SessionInv' /\ SuspendedIsDurable'
  BY ZenonT(60), <1>1, <1>2 DEF SessionInv, SuspendedIsDurable, Idle
<1>6. SnapshotInv'
  BY <1>1 DEF SnapshotInv, SnapshotHasOwner, workspaceVars
<1>7. LineInv'
  BY ZenonT(60), <1>1 DEF LineInv, workspaceVars
<1>8. ResumeInv'
  <2>1. \A q \in Resumes : q # r => resumes[q].state # "RESUMING" /\ resumes[q].state # "DEGRADED"
    BY ZenonT(60), <1>1 DEF ResumeInv, Waiting, Unwritten, AttachmentHasOwner
  <2>2. ~resumes[r].cleaned
    BY ZenonT(60), <1>1 DEF ResumeInv, Waiting, Unwritten
  <2>3. AttachmentHasOwner'
    BY <1>1, <1>2, <1>3, <2>1, <2>2 DEF ResumeInv, AttachmentHasOwner, workspaceVars, Idle
  <2>4. \A q \in Resumes : Content(resumes[q].gen)' = Content(resumes[q].gen)
    BY <1>1, <1>3 DEF Content, Kept, workspaceVars
  <2>5. Content(resumes[r].gen) = written
    BY ZenonT(60), <1>1 DEF SuspendedIsDurable
  <2>6. epoch \in Nat /\ epoch # epoch + 1
    BY DEF RowTypes
  <2>7. \A q \in Resumes : Waiting(q)'
    BY <1>1, <1>2, <1>3, <2>1, <2>2, <2>4, <2>5, <2>6 DEF ResumeInv, Waiting, Kept, workspaceVars, Idle
  <2>8. \A q \in Resumes : Unwritten(q)'
    BY <1>1, <1>2, <1>3, <2>1, <2>2, <2>4, <2>5, <2>6 DEF ResumeInv, Unwritten, Kept, workspaceVars, Idle
  <2> QED  BY ZenonT(60), <2>3, <2>7, <2>8 DEF ResumeInv
<1> QED  BY ZenonT(60), <1>4, <1>5, <1>6, <1>7, <1>8

\* The failure of a resume.
LEMMA AbandonedKeeps ==
  ASSUME StoreInv, NEW r \in Resumes, Abandoned(r)
  PROVE  StoreInv'
<1> USE Named, Bounds DEF StoreInv
<1>1. /\ resumes[r].state = "RESUMING"
      /\ resumes' = [resumes EXCEPT ![r].state = "DEGRADED"]
      /\ UNCHANGED <<epoch, head, current, attempt, running, workspaceVars, points, suspended, written>>
  BY ZenonT(60) DEF Abandoned
<1>2. /\ sstate \in {"SUSPENDED", "CLOSING"} /\ sstate' \in {"DEGRADED", "CLOSING"}
      /\ version' \in {version, version + 1} /\ attachment = r /\ wstate = "ATTACHED"
  BY ZenonT(60), <1>1 DEF Abandoned, SameSession, ResumeInv, Waiting, Unwritten, AttachmentHasOwner
<1>3. /\ resumes' \in [Resumes -> ResumeType]
      /\ \A q \in Resumes \ {r} : resumes'[q] = resumes[q]
      /\ resumes'[r].state = "DEGRADED" /\ (resumes'[r].cleaned <=> resumes[r].cleaned)
      /\ \A q \in Resumes : Kept(q)
  BY ZenonT(60), <1>1, ResumeMoves DEF TableTypes
<1>4. RowTypes' /\ TableTypes'
  BY <1>1, <1>2, <1>3 DEF RowTypes, TableTypes, workspaceVars
<1>5. SessionInv' /\ SuspendedIsDurable'
  BY ZenonT(60), <1>1, <1>2 DEF SessionInv, SuspendedIsDurable
<1>6. SnapshotInv'
  BY ZenonT(60), <1>1 DEF SnapshotInv, SnapshotHasOwner, workspaceVars
<1>7. LineInv'
  BY ZenonT(60), <1>1 DEF LineInv, workspaceVars
<1>8. ResumeInv'
  <2>1. \A q \in Resumes : q # r => resumes[q].state # "RESUMING"
    BY ZenonT(60), <1>1 DEF ResumeInv, Waiting, Unwritten, AttachmentHasOwner
  <2>2. ~resumes[r].cleaned
    BY ZenonT(60), <1>1 DEF ResumeInv, Waiting, Unwritten
  <2>3. AttachmentHasOwner'
    BY ZenonT(60), <1>1, <1>2, <1>3, <2>1, <2>2 DEF AttachmentHasOwner, workspaceVars
  <2>4. \A q \in Resumes : Content(resumes[q].gen)' = Content(resumes[q].gen)
    BY <1>1, <1>3 DEF Content, Kept, workspaceVars
  <2>5. \A q \in Resumes : Waiting(q)'
    BY <1>1, <1>2, <1>3, <2>1, <2>2, <2>4 DEF ResumeInv, Waiting, Kept, workspaceVars, Idle
  <2>6. \A q \in Resumes : Unwritten(q)'
    BY <1>1, <1>2, <1>3, <2>1, <2>2, <2>4 DEF ResumeInv, Unwritten, Kept, workspaceVars, Idle
  <2> QED  BY ZenonT(60), <2>3, <2>5, <2>6 DEF ResumeInv
<1> QED  BY ZenonT(60), <1>4, <1>5, <1>6, <1>7, <1>8

\* The end of a cleanup.
LEMMA CleanedKeeps ==
  ASSUME StoreInv, NEW r \in Resumes, CleanedUp(r)
  PROVE  StoreInv'
<1> USE Named, Bounds DEF StoreInv
<1>1. /\ resumes[r].state = "DEGRADED"
      /\ resumes' = [resumes EXCEPT ![r].cleaned = TRUE]
      /\ UNCHANGED <<sessionVars, gen, ops, points, suspended, written>>
  BY ZenonT(60) DEF CleanedUp
<1>2. /\ attachment = r => wstate = "ATTACHED" /\ wstate' = "DEGRADED" /\ attachment' = 0
      /\ attachment # r => wstate' = wstate /\ attachment' = attachment
  BY <1>1 DEF CleanedUp, OwnAttachment, ResumeInv, Waiting, Unwritten, AttachmentHasOwner
<1>3. /\ resumes' \in [Resumes -> ResumeType]
      /\ \A q \in Resumes \ {r} : resumes'[q] = resumes[q]
      /\ resumes'[r].cleaned
      /\ \A q \in Resumes : resumes'[q].state = resumes[q].state /\ Kept(q)
  BY ZenonT(60), <1>1, ResumeIsCleaned DEF TableTypes
<1>4. RowTypes' /\ TableTypes'
  BY <1>1, <1>2, <1>3 DEF RowTypes, TableTypes, sessionVars
<1>5. SessionInv' /\ SuspendedIsDurable'
  BY ZenonT(60), <1>1 DEF SessionInv, SuspendedIsDurable, Content, sessionVars
<1>6. SnapshotInv'
  BY <1>1, <1>2 DEF SnapshotInv, SnapshotHasOwner, sessionVars
<1>7. LineInv'
  BY ZenonT(60), <1>1 DEF LineInv, sessionVars
<1>8. ResumeInv'
  <2>1. \A q \in Resumes : resumes[q].state = "RESUMING" => attachment = q /\ attachment # r
    BY <1>1 DEF ResumeInv, Waiting, Unwritten, AttachmentHasOwner
  <2>2. AttachmentHasOwner'
    BY <1>2, <1>3, <2>1 DEF ResumeInv, Waiting, Unwritten, AttachmentHasOwner
  <2>3. \A q \in Resumes : Content(resumes[q].gen)' = Content(resumes[q].gen)
    BY <1>1, <1>3 DEF Content, Kept
  <2>4. \A q \in Resumes : (resumes[q].cleaned => resumes[q].state = "DEGRADED")'
    BY <1>1, <1>3 DEF ResumeInv, Waiting, Unwritten
  <2>5. ASSUME NEW q \in Resumes, resumes'[q].state = "DEGRADED"
        PROVE  /\ sstate' \in {"DEGRADED", "CLOSING"}
               /\ attachment' = q => wstate' = "ATTACHED"
               /\ attachment' = q \/ resumes'[q].cleaned
    BY <1>1, <1>2, <1>3, <2>5 DEF ResumeInv, Waiting, Unwritten, sessionVars
  <2>6. \A q \in Resumes : Waiting(q)'
    BY <1>1, <1>3, <2>1, <2>3, <2>4, <2>5 DEF ResumeInv, Waiting, Kept, sessionVars
  <2>7. \A q \in Resumes : Unwritten(q)'
    BY <1>1, <1>3, <2>1, <2>3, <2>4, <2>5 DEF ResumeInv, Unwritten, Kept, sessionVars
  <2> QED  BY ZenonT(60), <2>2, <2>6, <2>7 DEF ResumeInv
<1> QED  BY ZenonT(60), <1>4, <1>5, <1>6, <1>7, <1>8

\* A deadline that passes.
LEMMA ExpiresKeeps ==
  ASSUME StoreInv, NEW r \in Resumes, Expires(r)
  PROVE  StoreInv'
<1> USE Named, Bounds DEF StoreInv
<1>1. /\ resumes' = [resumes EXCEPT ![r].expired = TRUE]
      /\ UNCHANGED <<sessionVars, workspaceVars, points, suspended, written>>
  BY ZenonT(60) DEF Expires, OnlyResume, computeVars
<1>2. /\ resumes' \in [Resumes -> ResumeType]
      /\ \A q \in Resumes : resumes'[q].state = resumes[q].state /\ Kept(q) /\ (resumes'[q].cleaned <=> resumes[q].cleaned)
  BY ZenonT(60), <1>1, ResumeExpires DEF TableTypes
<1>3. RowTypes' /\ TableTypes'
  BY ZenonT(60), <1>1, <1>2 DEF RowTypes, TableTypes, sessionVars, workspaceVars
<1>4. SessionInv' /\ SuspendedIsDurable'
  BY ZenonT(60), <1>1 DEF SessionInv, SuspendedIsDurable, Content, sessionVars, workspaceVars
<1>5. SnapshotInv'
  BY ZenonT(60), <1>1 DEF SnapshotInv, SnapshotHasOwner, sessionVars, workspaceVars
<1>6. LineInv'
  BY ZenonT(60), <1>1 DEF LineInv, sessionVars, workspaceVars
<1>7. ResumeInv'
  <2>1. \A q \in Resumes : Content(resumes[q].gen)' = Content(resumes[q].gen)
    BY <1>1, <1>2 DEF Content, Kept, workspaceVars
  <2>2. AttachmentHasOwner'
    BY <1>1, <1>2 DEF ResumeInv, AttachmentHasOwner, workspaceVars
  <2>3. \A q \in Resumes : Waiting(q)'
    BY <1>1, <1>2, <2>1 DEF ResumeInv, Waiting, Kept, sessionVars, workspaceVars
  <2>4. \A q \in Resumes : Unwritten(q)'
    BY <1>1, <1>2, <2>1 DEF ResumeInv, Unwritten, Kept, sessionVars, workspaceVars
  <2> QED  BY ZenonT(60), <2>2, <2>3, <2>4 DEF ResumeInv
<1> QED  BY ZenonT(60), <1>3, <1>4, <1>5, <1>6, <1>7

\* The admission of an Execution.
LEMMA AdmitKeeps ==
  ASSUME StoreInv, Admit
  PROVE  StoreInv'
<1> USE Named, Bounds DEF StoreInv
<1>1. /\ sstate \in Idle /\ current = 0 /\ epoch < MaxEpoch /\ ~running
      /\ sstate' = "ACTIVE" /\ version' = version + 1 /\ epoch' = epoch + 1 /\ current' = epoch + 1
      /\ attempt' = 0
      /\ UNCHANGED <<head, running, workspaceVars, points, suspended, written, resumes>>
  BY ZenonT(60) DEF Admit, SessionInv, computeVars, resumeVars
<1>2. epoch \in Nat /\ epoch + 1 \in Nat /\ epoch + 1 # 0 /\ epoch + 1 \in 0..MaxEpoch /\ version + 1 \in Nat
      /\ 0 \in 0..MaxAttempts
  BY <1>1 DEF RowTypes
<1>3. RowTypes' /\ TableTypes'
  BY ZenonT(60), <1>1, <1>2 DEF RowTypes, TableTypes, workspaceVars
<1>4. SessionInv' /\ SuspendedIsDurable'
  BY ZenonT(60), <1>1, <1>2 DEF SessionInv, SuspendedIsDurable
<1>5. SnapshotInv'
  <2>1. \A o \in Ops : ops[o].epoch \in Nat
    BY DEF TableTypes, OpType
  <2>2. \A o \in Ops : ops[o].state # "NONE" => ops[o].epoch <= epoch + 1 /\ ops[o].epoch # epoch + 1
    BY <1>2, <2>1 DEF SnapshotInv
  <2> QED  BY ZenonT(60), <1>1, <2>2 DEF SnapshotInv, SnapshotHasOwner, workspaceVars
<1>6. LineInv'
  BY ZenonT(60), <1>1 DEF LineInv, workspaceVars
<1>7. ResumeInv'
  <2>1. \A r \in Resumes : resumes[r].state # "RESUMING" /\ resumes[r].state # "DEGRADED"
    BY ZenonT(60), <1>1 DEF ResumeInv, Waiting, Unwritten, Idle
  <2>2. AttachmentHasOwner'
    BY ZenonT(60), <1>1, <2>1 DEF ResumeInv, AttachmentHasOwner, workspaceVars
  <2>3. \A r \in Resumes : resumes[r].epoch \in Nat
    BY DEF TableTypes, ResumeType
  <2>4. \A r \in Resumes : Content(resumes[r].gen)' = Content(resumes[r].gen)
    BY ZenonT(60), <1>1 DEF Content, workspaceVars
  <2>5. \A r \in Resumes : resumes[r].state # "NONE" => resumes[r].epoch <= epoch + 1 /\ epoch + 1 # resumes[r].epoch
    BY <1>2, <2>3 DEF ResumeInv, Waiting, Unwritten
  <2>6. \A r \in Resumes : resumes[r].state \in Idle /\ epoch + 1 = resumes[r].epoch + 1 => Content(resumes[r].gen) = written
    BY <1>2, <2>3 DEF ResumeInv, Waiting, Unwritten
  <2>7. \A q \in Resumes : Waiting(q)'
    BY <1>1, <1>2, <2>1, <2>4, <2>5, <2>6 DEF ResumeInv, Waiting, workspaceVars, Idle
  <2>8. \A q \in Resumes : Unwritten(q)'
    BY <1>1, <1>2, <2>1, <2>4, <2>5, <2>6 DEF ResumeInv, Unwritten, workspaceVars, Idle
  <2> QED  BY ZenonT(60), <2>2, <2>7, <2>8 DEF ResumeInv
<1> QED  BY ZenonT(60), <1>3, <1>4, <1>5, <1>6, <1>7

\* The start of an Attempt.
LEMMA StartKeeps ==
  ASSUME StoreInv, Start
  PROVE  StoreInv'
<1> USE Named, Bounds DEF StoreInv
<1>1. /\ current # 0 /\ running' = TRUE /\ attempt < MaxAttempts /\ attempt' = attempt + 1
      /\ UNCHANGED <<sstate, version, epoch, head, current, workspaceVars, points, suspended, written>>
  BY ZenonT(60) DEF Start
<1>2. /\ resumes' \in [Resumes -> ResumeType]
      /\ \A q \in Resumes : resumes'[q].state = resumes[q].state /\ Kept(q) /\ (resumes'[q].cleaned <=> resumes[q].cleaned)
  <2>1. CASE UNCHANGED resumes
    BY ZenonT(60), <2>1 DEF TableTypes, Kept
  <2>2. CASE \E r \in Resumes : Handoff(r) /\ resumes' = [resumes EXCEPT ![r].handed = epoch]
    <3> PICK r \in Resumes : resumes' = [resumes EXCEPT ![r].handed = epoch]
      BY ZenonT(60), <2>2
    <3>1. epoch \in 0..MaxEpoch
      BY ZenonT(60) DEF RowTypes
    <3> QED  BY ZenonT(60), <3>1, ResumeIsHanded DEF TableTypes
  <2> QED  BY ZenonT(60), <2>1, <2>2 DEF Start
<1>3. RowTypes' /\ TableTypes'
  <2>1. running' \in BOOLEAN
    BY <1>1, Zenon
  <2>2. attempt' \in 0..MaxAttempts
    BY <1>1 DEF RowTypes
  <2> QED  BY ZenonT(60), <1>1, <1>2, <2>1, <2>2 DEF RowTypes, TableTypes, workspaceVars
<1>a. attempt' # 0
  BY <1>1 DEF RowTypes
<1>4. SessionInv' /\ SuspendedIsDurable'
  BY ZenonT(60), <1>1, <1>a DEF SessionInv, SuspendedIsDurable, Content, workspaceVars
<1>5. SnapshotInv'
  BY ZenonT(60), <1>1 DEF SnapshotInv, SnapshotHasOwner, workspaceVars
<1>6. LineInv'
  BY ZenonT(60), <1>1 DEF LineInv, workspaceVars
<1>7. ResumeInv'
  <2>1. \A q \in Resumes : Content(resumes[q].gen)' = Content(resumes[q].gen)
    BY ZenonT(60), <1>1, <1>2 DEF Content, Kept, workspaceVars
  <2>2. AttachmentHasOwner'
    BY ZenonT(60), <1>1, <1>2 DEF ResumeInv, AttachmentHasOwner, workspaceVars
  <2>3. ASSUME NEW q \in Resumes PROVE Waiting(q)' /\ Unwritten(q)'
    <3>1. Waiting(q) /\ Unwritten(q)
      BY ZenonT(60) DEF ResumeInv
    <3>2. /\ resumes'[q].state = resumes[q].state /\ (resumes'[q].cleaned <=> resumes[q].cleaned)
          /\ resumes'[q].version = resumes[q].version /\ resumes'[q].epoch = resumes[q].epoch
          /\ resumes'[q].gen = resumes[q].gen /\ resumes'[q].target = resumes[q].target
      BY ZenonT(60), <1>2 DEF Kept
    <3>3. attempt' # 0 /\ Content(resumes[q].gen)' = Content(resumes[q].gen)
      BY ZenonT(60), <1>a, <2>1
    <3>4. Waiting(q)'
      BY ZenonT(60), <1>1, <3>1, <3>2 DEF Waiting, workspaceVars
    <3>5. Unwritten(q)'
      BY ZenonT(60), <1>1, <3>1, <3>2, <3>3 DEF Unwritten, workspaceVars
    <3> QED  BY ZenonT(60), <3>4, <3>5
  <2> QED  BY ZenonT(60), <2>2, <2>3 DEF ResumeInv
<1> QED  BY ZenonT(60), <1>3, <1>4, <1>5, <1>6, <1>7

\* A write of the running Execution.
LEMMA WriteKeeps ==
  ASSUME StoreInv, Write
  PROVE  StoreInv'
<1> USE Named, Bounds DEF StoreInv
<1>1. /\ running /\ written < MaxWrites /\ written' = written + 1
      /\ UNCHANGED <<sessionVars, workspaceVars, points, suspended, resumes>>
  BY ZenonT(60) DEF Write, resumeVars
<1>2. current # 0 /\ attempt # 0 /\ sstate = "ACTIVE"
  BY ZenonT(60), <1>1 DEF SessionInv
<1>3. RowTypes' /\ TableTypes'
  <2>1. written + 1 \in 0..MaxWrites
    BY <1>1 DEF RowTypes
  <2> QED  BY ZenonT(60), <1>1, <2>1 DEF RowTypes, TableTypes, sessionVars, workspaceVars
<1>4. SessionInv' /\ SuspendedIsDurable'
  BY ZenonT(60), <1>1, <1>2 DEF SessionInv, SuspendedIsDurable, sessionVars
<1>5. SnapshotInv'
  BY ZenonT(60), <1>1, <1>2 DEF SnapshotInv, SnapshotHasOwner, sessionVars, workspaceVars
<1>6. LineInv'
  BY ZenonT(60), <1>1 DEF LineInv, sessionVars, workspaceVars
<1>7. ResumeInv'
  BY <1>1, <1>2 DEF ResumeInv, Waiting, Unwritten, AttachmentHasOwner, sessionVars, workspaceVars
<1> QED  BY ZenonT(60), <1>3, <1>4, <1>5, <1>6, <1>7

\* The end of an Execution.
LEMMA FinishKeeps ==
  ASSUME StoreInv, Finish
  PROVE  StoreInv'
<1> USE Named, Bounds DEF StoreInv
<1>1. /\ current # 0 /\ sstate' = "IDLE" /\ version' = version + 1 /\ current' = 0 /\ running' = FALSE
      /\ UNCHANGED <<epoch, head, attempt, workspaceVars, points, suspended, written, resumes>>
  BY ZenonT(60) DEF Finish, computeVars, resumeVars
<1>2. sstate = "ACTIVE"
  BY ZenonT(60), <1>1 DEF SessionInv
<1>3. RowTypes' /\ TableTypes'
  <2>1. running' \in BOOLEAN
    BY <1>1, Zenon
  <2>2. version + 1 \in Nat /\ 0 \in 0..MaxEpoch
    BY DEF RowTypes
  <2> QED  BY ZenonT(60), <1>1, <2>1, <2>2 DEF RowTypes, TableTypes, workspaceVars
<1>4. SessionInv' /\ SuspendedIsDurable'
  BY ZenonT(60), <1>1 DEF SessionInv, SuspendedIsDurable
<1>5. SnapshotInv'
  BY ZenonT(60), <1>1 DEF SnapshotInv, SnapshotHasOwner, workspaceVars
<1>6. LineInv'
  BY ZenonT(60), <1>1 DEF LineInv, workspaceVars
<1>7. ResumeInv'
  <2>1. \A r \in Resumes : resumes[r].state # "RESUMING" /\ resumes[r].state # "DEGRADED"
    BY ZenonT(60), <1>2 DEF ResumeInv, Waiting, Unwritten
  <2> QED  BY <1>1, <2>1 DEF ResumeInv, Waiting, Unwritten, AttachmentHasOwner, Content, workspaceVars
<1> QED  BY ZenonT(60), <1>3, <1>4, <1>5, <1>6, <1>7

\* The loss of an Attempt.
LEMMA ReplacedKeeps ==
  ASSUME StoreInv, Replaced
  PROVE  StoreInv'
<1> USE Named, Bounds DEF StoreInv
<1>1. /\ running' = FALSE
      /\ UNCHANGED <<sstate, version, epoch, head, current, attempt, workspaceVars, points, suspended, written, resumes>>
  BY ZenonT(60) DEF Replaced, computeVars, resumeVars
<1>2. RowTypes' /\ TableTypes'
  <2>1. running' \in BOOLEAN
    BY <1>1, Zenon
  <2> QED  BY ZenonT(60), <1>1, <2>1 DEF RowTypes, TableTypes, workspaceVars
<1>3. SessionInv' /\ SuspendedIsDurable'
  BY ZenonT(60), <1>1 DEF SessionInv, SuspendedIsDurable, Content, workspaceVars
<1>4. SnapshotInv'
  BY ZenonT(60), <1>1 DEF SnapshotInv, SnapshotHasOwner, workspaceVars
<1>5. LineInv'
  BY ZenonT(60), <1>1 DEF LineInv, workspaceVars
<1>6. ResumeInv'
  BY <1>1 DEF ResumeInv, Waiting, Unwritten, AttachmentHasOwner, Content, workspaceVars
<1> QED  BY ZenonT(60), <1>2, <1>3, <1>4, <1>5, <1>6

\* The owner takes the Workspace back.
LEMMA DetachKeeps ==
  ASSUME StoreInv, Detach
  PROVE  StoreInv'
<1> USE Named, Bounds DEF StoreInv
<1>1. /\ wstate = "ATTACHED" /\ sstate \in Idle /\ wstate' = "READY" /\ attachment' = 0
      /\ UNCHANGED <<sessionVars, gen, ops, points, suspended, written, resumes>>
  BY ZenonT(60) DEF Detach, computeVars, resumeVars
<1>2. RowTypes' /\ TableTypes'
  BY <1>1 DEF RowTypes, TableTypes, sessionVars
<1>3. SessionInv' /\ SuspendedIsDurable'
  BY ZenonT(60), <1>1 DEF SessionInv, SuspendedIsDurable, Content, sessionVars
<1>4. SnapshotInv'
  BY ZenonT(60), <1>1 DEF SnapshotInv, SnapshotHasOwner, sessionVars
<1>5. LineInv'
  BY ZenonT(60), <1>1 DEF LineInv, sessionVars
<1>6. ResumeInv'
  <2>1. \A r \in Resumes : resumes[r].state # "RESUMING" /\ resumes[r].state # "DEGRADED"
    BY ZenonT(60), <1>1 DEF ResumeInv, Waiting, Unwritten, Idle
  <2> QED  BY <1>1, <2>1 DEF ResumeInv, Waiting, Unwritten, AttachmentHasOwner, Content, sessionVars
<1> QED  BY ZenonT(60), <1>2, <1>3, <1>4, <1>5, <1>6

\* The Session begins to close.
LEMMA CloseKeeps ==
  ASSUME StoreInv, Close
  PROVE  StoreInv'
<1> USE Named, Bounds DEF StoreInv
<1>1. /\ sstate # "ACTIVE" /\ sstate' = "CLOSING" /\ version' = version + 1
      /\ UNCHANGED <<epoch, head, current, attempt, running, workspaceVars, points, suspended, written, resumes>>
  BY ZenonT(60) DEF Close, computeVars, resumeVars
<1>2. RowTypes' /\ TableTypes'
  BY <1>1 DEF RowTypes, TableTypes, workspaceVars
<1>3. SessionInv' /\ SuspendedIsDurable'
  BY ZenonT(60), <1>1 DEF SessionInv, SuspendedIsDurable
<1>4. SnapshotInv'
  BY <1>1 DEF SnapshotInv, SnapshotHasOwner, workspaceVars
<1>5. LineInv'
  BY ZenonT(60), <1>1 DEF LineInv, workspaceVars
<1>6. ResumeInv'
  BY <1>1 DEF ResumeInv, Waiting, Unwritten, AttachmentHasOwner, Content, workspaceVars
<1> QED  BY ZenonT(60), <1>2, <1>3, <1>4, <1>5, <1>6

-----------------------------------------------------------------------------
(* The workers *)

\* What the workers rely on while rows change: a failed resume stays failed, a
\* completed one completed, none is forgotten, and under the lock no state changes.
RowsAgree ==
  /\ \A r \in Resumes : /\ resumes[r].state # "NONE" => resumes'[r].state # "NONE"
                        /\ resumes[r].state = "DEGRADED" => resumes'[r].state = "DEGRADED"
                        /\ resumes[r].state \in Idle => resumes'[r].state \in Idle
                        /\ resumes'[r].handed # resumes[r].handed =>
                             resumes'[r].handed = 0 \/ resumes'[r].state \in Idle
  /\ lock = 0 \/ \A r \in Resumes : resumes'[r].state = resumes[r].state

\* After the step, the object is a stray or there is none.
StrayNext(r) == sandbox'[r].state = "ABSENT" \/ sandbox'[r].stray

\* An object that is no stray appears only for a resume that is under way, one
\* that is only for a resume that was prepared, and a failed resume is reported
\* clean when nothing but a stray is left.
ObjectsAgree ==
  /\ \A r \in Resumes : OnlyStray(r) /\ ~StrayNext(r) => resumes[r].state = "RESUMING"
  /\ \A r \in Resumes : sandbox'[r].state # "ABSENT" \/ late'[r] > 0 =>
       sandbox[r].state # "ABSENT" \/ late[r] > 0 \/ resumes[r].state # "NONE"
  /\ \A r \in Resumes : resumes'[r].cleaned => resumes[r].cleaned \/ StrayNext(r)

\* Objects stay accounted for.
LEMMA ObjectsKept ==
  ASSUME StoreInv, SandboxInv, RowsAgree, ObjectsAgree
  PROVE  SandboxInv'
<1>1. \A r \in Resumes : resumes[r].cleaned => resumes[r].state # "RESUMING"
  BY ZenonT(60) DEF StoreInv, ResumeInv, Waiting, Unwritten
<1>2. ASSUME NEW r \in Resumes, resumes'[r].cleaned PROVE StrayNext(r)
  BY ZenonT(60), <1>1, <1>2 DEF SandboxInv, ObjectsAgree
<1>3. ASSUME NEW r \in Resumes, sandbox'[r].state # "ABSENT" \/ late'[r] > 0 PROVE resumes'[r].state # "NONE"
  BY ZenonT(60), <1>3 DEF SandboxInv, ObjectsAgree, RowsAgree
<1>4. \A r \in Resumes : resumes'[r].handed # 0 => resumes'[r].state \in Idle
  BY ZenonT(60) DEF SandboxInv, RowsAgree
<1> QED  BY ZenonT(60), <1>2, <1>3, <1>4 DEF SandboxInv, OnlyStray, StrayNext

\* What worker v is allowed to be doing when it arrives at y.
Allowed(v, y) ==
  /\ lock' = v => y.at \in Locked
  /\ y.at # "IDLE" => y.op \in Resumes /\ resumes'[y.op].state # "NONE"
  /\ lock' = v /\ y.at \in {"ALLOCATING", "CREATING"} => resumes'[y.op].state = "RESUMING"
  /\ y.at \in {"CLEANING", "CHECKING", "PROVED"} => resumes'[y.op].state = "DEGRADED"
  /\ y.at = "PROVED" => StrayNext(y.op)

\* What a worker that is at work works on.
LEMMA WorksOn ==
  ASSUME WorkerTypes, WorkerInv, NEW w \in Workers
  PROVE  /\ worker[w].at # "IDLE" => worker[w].op \in Resumes /\ resumes[worker[w].op].state # "NONE"
         /\ lock = w => worker[w].at \in Locked
         /\ lock = w /\ worker[w].at \in {"ALLOCATING", "CREATING"} => resumes[worker[w].op].state = "RESUMING"
         /\ worker[w].at \in {"CLEANING", "CHECKING", "PROVED"} => resumes[worker[w].op].state = "DEGRADED"
         /\ worker[w].at = "PROVED" => OnlyStray(worker[w].op)
         /\ w # 0
  BY ZenonT(60), Bounds DEF WorkerInv

\* A worker that stays where it is, and does not take the lock.
LEMMA StaysAllowed ==
  ASSUME WorkerTypes, WorkerInv, RowsAgree, ObjectsAgree, NEW v \in Workers, lock' = v => lock = v
  PROVE  Allowed(v, worker[v])
<1>1. /\ worker[v].at # "IDLE" => worker[v].op \in Resumes /\ resumes[worker[v].op].state # "NONE"
      /\ lock = v => worker[v].at \in Locked
      /\ lock = v /\ worker[v].at \in {"ALLOCATING", "CREATING"} => resumes[worker[v].op].state = "RESUMING"
      /\ worker[v].at \in {"CLEANING", "CHECKING", "PROVED"} => resumes[worker[v].op].state = "DEGRADED"
      /\ worker[v].at = "PROVED" => OnlyStray(worker[v].op)
      /\ v # 0
  BY ZenonT(60), WorksOn
<1>2. /\ worker[v].at # "IDLE" => resumes'[worker[v].op].state # "NONE"
      /\ lock' = v /\ worker[v].at \in {"ALLOCATING", "CREATING"} => resumes'[worker[v].op].state = "RESUMING"
      /\ worker[v].at \in {"CLEANING", "CHECKING", "PROVED"} => resumes'[worker[v].op].state = "DEGRADED"
  BY <1>1 DEF RowsAgree
<1>3. worker[v].at = "PROVED" => StrayNext(worker[v].op)
  BY <1>1 DEF ObjectsAgree
<1> QED  BY ZenonT(60), <1>1, <1>2, <1>3 DEF Allowed

\* A worker that takes a step, while the others stay where they are.
LEMMA WorkerGoes ==
  ASSUME StoreInv, WorkerTypes, WorkerInv, SandboxInv, RowsAgree, ObjectsAgree,
         NEW w \in Workers, NEW y \in WorkerType, worker' = [worker EXCEPT ![w] = y],
         Allowed(w, y), \A v \in Workers \ {w} : lock' = v => lock = v
  PROVE  worker' \in [Workers -> WorkerType] /\ WorkerInv' /\ SandboxInv'
<1>1. worker' \in [Workers -> WorkerType] /\ worker'[w] = y /\ \A v \in Workers \ {w} : worker'[v] = worker[v]
  BY ZenonT(60) DEF WorkerTypes
<1>2. ASSUME NEW v \in Workers PROVE Allowed(v, worker'[v])
  <2>1. CASE v = w
    BY ZenonT(60), <1>1, <2>1
  <2>2. CASE v # w
    BY ZenonT(60), <1>1, <2>2, StaysAllowed
  <2> QED  BY ZenonT(60), <2>1, <2>2
<1>3. WorkerInv'
  BY ZenonT(60), <1>2 DEF WorkerInv, Allowed, OnlyStray, StrayNext
<1> QED  BY ZenonT(60), <1>1, <1>3, ObjectsKept

\* A step in which no worker moves; the lock may be lost.
LEMMA WorkersStay ==
  ASSUME StoreInv, WorkerTypes, WorkerInv, SandboxInv, RowsAgree, ObjectsAgree, UNCHANGED worker,
         lock' \in {lock, 0}
  PROVE  lock' \in Workers \cup {0} /\ WorkerInv' /\ SandboxInv'
<1>1. ASSUME NEW v \in Workers PROVE Allowed(v, worker'[v])
  <2>1. lock' = v => lock = v
    BY ZenonT(60), Bounds
  <2> QED  BY ZenonT(60), <2>1, StaysAllowed
<1>2. WorkerInv'
  BY ZenonT(60), <1>1 DEF WorkerInv, Allowed, OnlyStray, StrayNext
<1> QED  BY ZenonT(60), <1>2, ObjectsKept DEF WorkerTypes

\* A worker that only changes where it is.
LEMMA MovesIs ==
  ASSUME WorkerTypes, NEW w \in Workers, NEW at, Moves(w, at),
         at \in {"IDLE", "PREPARED", "ALLOCATING", "CREATING", "INSPECTING", "OBSERVED", "FAILING",
                 "CLEANING", "CHECKING", "PROVED"}
  PROVE  \E y \in WorkerType : /\ worker' = [worker EXCEPT ![w] = y] /\ y.at = at
                               /\ at # "IDLE" => y.op = worker[w].op
<1> DEFINE y == IF at = "IDLE" THEN Resting ELSE [at |-> at, op |-> worker[w].op, uid |-> 0]
<1>1. worker[w].op \in 0..MaxResumes /\ 0 \in 0..MaxResumes
  BY Bounds DEF WorkerTypes, WorkerType
<1>2. y \in WorkerType /\ y.at = at /\ (at # "IDLE" => y.op = worker[w].op)
  BY ZenonT(60), <1>1 DEF WorkerType, Resting
<1>3. worker' = [worker EXCEPT ![w] = y]
  BY ZenonT(60) DEF Moves, WorkerTypes
<1> QED  BY ZenonT(60), <1>2, <1>3

\* An object that the provider creates.
LEMMA CreatedIs ==
  ASSUME sandbox \in [Resumes -> SandboxType], NEW r \in Resumes, NEW stray \in BOOLEAN, Created(r, stray)
  PROVE  /\ sandbox' \in [Resumes -> SandboxType] /\ sandbox'[r].stray = stray
         /\ \A q \in Resumes \ {r} : sandbox'[q] = sandbox[q]
<1>1. sandbox[r].uid \in Nat
  BY ZenonT(60) DEF SandboxType
<1>2. [state |-> "PRESENT", pod |-> FALSE, uid |-> sandbox[r].uid + 1, stray |-> stray] \in SandboxType
  BY <1>1 DEF SandboxType
<1> QED  BY ZenonT(60), <1>2 DEF Created

\* Creating is accounted for: of a resume under way, or a stray of a prepared one.
LEMMA CreatedAgrees ==
  ASSUME sandbox \in [Resumes -> SandboxType], NEW r \in Resumes, NEW stray \in BOOLEAN, Created(r, stray),
         resumes[r].state # "NONE", stray \/ resumes[r].state = "RESUMING", UNCHANGED resumes,
         \A q \in Resumes : late'[q] > 0 => late[q] > 0
  PROVE  ObjectsAgree /\ sandbox' \in [Resumes -> SandboxType]
<1>1. /\ sandbox' \in [Resumes -> SandboxType] /\ sandbox'[r].stray = stray
      /\ \A q \in Resumes \ {r} : sandbox'[q] = sandbox[q]
  BY ZenonT(60), CreatedIs
<1>2. ASSUME NEW q \in Resumes, OnlyStray(q), ~StrayNext(q) PROVE resumes[q].state = "RESUMING"
  BY ZenonT(60), <1>1, <1>2 DEF OnlyStray, StrayNext
<1>3. ASSUME NEW q \in Resumes, sandbox'[q].state # "ABSENT" \/ late'[q] > 0
      PROVE  sandbox[q].state # "ABSENT" \/ late[q] > 0 \/ resumes[q].state # "NONE"
  BY ZenonT(60), <1>1, <1>3
<1> QED  BY ZenonT(60), <1>1, <1>2, <1>3 DEF ObjectsAgree

\* A worker that goes on with its operation, or leaves it.
LEMMA GoesTo ==
  ASSUME IInv, RowsAgree, ObjectsAgree, NEW w \in Workers, NEW at, Moves(w, at), worker[w].at # "IDLE",
         at \in {"IDLE", "PREPARED", "ALLOCATING", "CREATING", "INSPECTING", "OBSERVED", "FAILING",
                 "CLEANING", "CHECKING", "PROVED"},
         lock' = w => at \in Locked,
         lock' = w /\ at \in {"ALLOCATING", "CREATING"} => resumes'[worker[w].op].state = "RESUMING",
         at \in {"CLEANING", "CHECKING", "PROVED"} => resumes'[worker[w].op].state = "DEGRADED",
         at = "PROVED" => StrayNext(worker[w].op),
         lock' \in {lock, 0, w}
  PROVE  lock' \in Workers \cup {0} /\ worker' \in [Workers -> WorkerType] /\ WorkerInv' /\ SandboxInv'
<1> USE DEF IInv
<1>1. PICK y \in WorkerType : /\ worker' = [worker EXCEPT ![w] = y] /\ y.at = at
                              /\ at # "IDLE" => y.op = worker[w].op
  BY ZenonT(60), MovesIs
<1>2. worker[w].op \in Resumes /\ resumes[worker[w].op].state # "NONE"
  BY ZenonT(60), WorksOn
<1>3. Allowed(w, y)
  BY <1>1, <1>2 DEF Allowed, RowsAgree
<1>4. \A v \in Workers \ {w} : lock' = v => lock = v
  BY ZenonT(60), Bounds
<1>5. lock' \in Workers \cup {0}
  BY ZenonT(60) DEF WorkerTypes
<1> QED  BY ZenonT(60), <1>1, <1>3, <1>4, <1>5, WorkerGoes

\* The steps a worker takes without changing a row.
LEMMA ProviderStepKeeps ==
  ASSUME IInv, NEW w \in Workers,
         Reconcile(w) \/ Allocate(w) \/ Create(w) \/ Inspect(w) \/ Delete(w) \/ CheckAbsent(w)
         \/ Interrupted(w) \/ Refused(w) \/ Rejected(w)
  PROVE  IInv'
<1> USE Bounds DEF IInv
<1>1. Quiet /\ UNCHANGED <<resumes, compute, credential>>
  BY ZenonT(60) DEF Quiet, Reconcile, Allocate, Create, Inspect, Delete, CheckAbsent, Interrupted, Refused, Rejected,
     OnlyResume, computeVars
<1>2. StoreInv' /\ RowsAgree
  BY ZenonT(60), <1>1, QuietKeeps DEF RowsAgree
<1>3. worker[w].at # "IDLE" /\ worker[w].op \in Resumes /\ resumes[worker[w].op].state # "NONE"
  BY ZenonT(60), WorksOn DEF Reconcile, Allocate, Create, Inspect, Delete, CheckAbsent, Interrupted, Refused, Rejected
<1> DEFINE r == worker[w].op
<1>4. /\ lock = w => worker[w].at \in Locked
      /\ lock = w /\ worker[w].at \in {"ALLOCATING", "CREATING"} => resumes[r].state = "RESUMING"
      /\ worker[w].at \in {"CLEANING", "CHECKING", "PROVED"} => resumes[r].state = "DEGRADED"
      /\ w # 0
  BY ZenonT(60), WorksOn
<1> HIDE DEF r
<1>5. ASSUME UNCHANGED sandbox, \A q \in Resumes \ {r} : late'[q] = late[q] PROVE ObjectsAgree
  BY ZenonT(60), <1>1, <1>3, <1>5 DEF ObjectsAgree, OnlyStray, StrayNext, r
<1>6. ASSUME lock' \in Workers \cup {0}, worker' \in [Workers -> WorkerType], WorkerInv', SandboxInv',
             sandbox' \in [Resumes -> SandboxType], late' \in [Resumes -> Nat], faults' \in 0..MaxFaults
      PROVE  IInv'
  BY ZenonT(60), <1>1, <1>2, <1>6 DEF WorkerTypes
<1>7. ASSUME Fault PROVE faults' \in 0..MaxFaults
  BY <1>7 DEF Fault, WorkerTypes
<1>8. sandbox \in [Resumes -> SandboxType] /\ late \in [Resumes -> Nat] /\ faults \in 0..MaxFaults
  BY ZenonT(60) DEF WorkerTypes
<1>9. ASSUME LetGo(w) PROVE lock' # w /\ lock' \in {lock, 0, w}
  BY ZenonT(60), <1>4, <1>9 DEF LetGo
<1>10. CASE Reconcile(w)
  <2>1. UNCHANGED <<sandbox, late, faults>> /\ lock = 0 /\ ObjectsAgree
    BY ZenonT(60), <1>5, <1>10 DEF Reconcile, Free
  <2>2. CASE MayMaterialize(r)
    <3>1. lock' = w /\ Moves(w, "ALLOCATING") /\ resumes[r].state = "RESUMING"
      BY ZenonT(60), <1>10, <2>2 DEF Reconcile, MayMaterialize, r
    <3> QED  BY <1>1, <1>2, <1>3, <1>6, <1>8, <2>1, <3>1, GoesTo DEF Locked, r
  <2>3. CASE ~MayMaterialize(r)
    <3>1. lock' = lock /\ Moves(w, "IDLE")
      BY ZenonT(60), <1>10, <2>3 DEF Reconcile, r
    <3> QED  BY <1>2, <1>3, <1>4, <1>6, <1>8, <2>1, <3>1, GoesTo
  <2> QED  BY ZenonT(60), <2>2, <2>3
<1>11. CASE Allocate(w)
  <2>1. worker[w].at = "ALLOCATING" /\ UNCHANGED <<sandbox, late, faults>> /\ ObjectsAgree
    BY ZenonT(60), <1>5, <1>11 DEF Allocate
  <2>2. \/ Moves(w, "CREATING") /\ lock' = lock
        \/ Moves(w, "INSPECTING") /\ lock' = lock
        \/ Moves(w, "FAILING") /\ LetGo(w)
    BY ZenonT(60), <1>11 DEF Allocate
  <2>3. CASE Moves(w, "CREATING") /\ lock' = lock
    <3>1. "CREATING" \in Locked /\ (lock' = w => resumes'[worker[w].op].state = "RESUMING")
      BY ZenonT(60), <1>1, <1>4, <2>1, <2>3 DEF Locked, r
    <3> QED  BY <1>2, <1>3, <1>6, <1>8, <2>1, <2>3, <3>1, GoesTo
  <2>4. CASE Moves(w, "INSPECTING") /\ lock' = lock
    BY <1>2, <1>3, <1>6, <1>8, <2>1, <2>4, GoesTo DEF Locked
  <2>5. CASE Moves(w, "FAILING") /\ LetGo(w)
    BY <1>2, <1>3, <1>6, <1>8, <1>9, <2>1, <2>5, GoesTo
  <2> QED  BY ZenonT(60), <2>2, <2>3, <2>4, <2>5
<1>12. CASE Create(w)
  <2>1. worker[w].at = "CREATING" /\ UNCHANGED <<late, faults>>
    BY ZenonT(60), <1>12 DEF Create
  <2>2. CASE sandbox[r].state = "ABSENT"
    <3>1. Created(r, lock # w) /\ Moves(w, "INSPECTING") /\ lock' = lock
      BY ZenonT(60), <1>12, <2>2 DEF Create, r
    <3>2. r \in Resumes /\ resumes[r].state # "NONE" /\ (lock # w) \in BOOLEAN /\ (lock # w \/ resumes[r].state = "RESUMING")
      BY ZenonT(60), <1>3, <1>4, <2>1 DEF r
    <3>3. ObjectsAgree /\ sandbox' \in [Resumes -> SandboxType]
      BY ZenonT(60), <1>1, <1>8, <2>1, <3>1, <3>2, CreatedAgrees
    <3> QED  BY <1>2, <1>3, <1>6, <1>8, <2>1, <3>1, <3>3, GoesTo DEF Locked
  <2>3. CASE sandbox[r].state # "ABSENT"
    <3>1. UNCHANGED sandbox /\ Moves(w, "IDLE") /\ LetGo(w)
      BY ZenonT(60), <1>12, <2>3 DEF Create, r
    <3> QED  BY <1>2, <1>3, <1>5, <1>6, <1>8, <1>9, <2>1, <3>1, GoesTo
  <2> QED  BY ZenonT(60), <2>2, <2>3
<1>13. CASE Inspect(w)
  <2>1. worker[w].at = "INSPECTING" /\ LetGo(w) /\ UNCHANGED <<sandbox, late, faults>> /\ ObjectsAgree
    BY ZenonT(60), <1>5, <1>13 DEF Inspect
  <2>2. CASE Running(r) /\ lock = w
    <3> DEFINE y == [worker[w] EXCEPT !.at = "OBSERVED", !.uid = sandbox[r].uid]
    <3>1. worker' = [worker EXCEPT ![w] = y]
      BY ZenonT(60), <1>13, <2>2 DEF Inspect, r
    <3>2. worker[w] \in WorkerType /\ sandbox[r].uid \in Nat
      BY ZenonT(60), <1>3, <1>8 DEF WorkerTypes, SandboxType, r
    <3>3. y \in WorkerType /\ y.at = "OBSERVED" /\ y.op = r
      BY ZenonT(60), <3>2 DEF WorkerType, r
    <3> HIDE DEF y
    <3>4. lock' = 0
      BY ZenonT(60), <2>1, <2>2 DEF LetGo
    <3>5. Allowed(w, y) /\ \A v \in Workers \ {w} : lock' = v => lock = v
      BY ZenonT(60), <1>1, <1>3, <1>4, <3>3, <3>4 DEF Allowed, r
    <3>6. worker' \in [Workers -> WorkerType] /\ WorkerInv' /\ SandboxInv'
      BY ZenonT(60), <1>2, <2>1, <3>1, <3>3, <3>5, WorkerGoes
    <3> QED  BY ZenonT(60), <1>6, <1>8, <2>1, <3>4, <3>6
  <2>3. CASE ~(Running(r) /\ lock = w)
    <3>1. Moves(w, "IDLE") \/ Moves(w, "FAILING")
      BY ZenonT(60), <1>13, <2>3 DEF Inspect, r
    <3> QED  BY <1>2, <1>3, <1>6, <1>8, <1>9, <2>1, <3>1, GoesTo
  <2> QED  BY ZenonT(60), <2>2, <2>3
<1>14. CASE Delete(w)
  <2>1. /\ lock = 0 /\ lock' = w /\ Moves(w, "CHECKING") /\ resumes[r].state = "DEGRADED" /\ UNCHANGED <<late, faults>>
        /\ sandbox' = IF sandbox[r].state = "PRESENT" THEN [sandbox EXCEPT ![r].state = "DELETING"] ELSE sandbox
    BY ZenonT(60), <1>14 DEF Delete, Free, r
  <2>2. sandbox' \in [Resumes -> SandboxType]
    BY <1>3, <1>8, <2>1 DEF SandboxType, r
  <2>3. \A q \in Resumes : /\ sandbox[q].state = "ABSENT" => sandbox'[q] = sandbox[q]
                           /\ sandbox'[q].stray = sandbox[q].stray
    BY <1>8, <2>1 DEF SandboxType
  <2>4. ObjectsAgree
    BY ZenonT(60), <1>1, <2>1, <2>3 DEF ObjectsAgree, OnlyStray, StrayNext
  <2> QED  BY <1>1, <1>2, <1>3, <1>4, <1>6, <1>8, <2>1, <2>2, <2>4, GoesTo DEF Locked, r
<1>15. CASE CheckAbsent(w)
  <2>0. worker[w].at = "CHECKING" /\ LetGo(w) /\ UNCHANGED <<sandbox, late, faults>>
    BY ZenonT(60), <1>15 DEF CheckAbsent
  <2>1. worker[w].at = "CHECKING" /\ LetGo(w) /\ UNCHANGED <<sandbox, late, faults>> /\ ObjectsAgree
    BY ZenonT(60), <1>5, <2>0
  <2>2. CASE sandbox[r].state = "ABSENT" /\ lock = w
    <3>1. Moves(w, "PROVED") /\ StrayNext(r)
      BY ZenonT(60), <1>15, <2>1, <2>2 DEF CheckAbsent, ProvenAbsent, StrayNext, r
    <3> QED  BY <1>1, <1>2, <1>3, <1>4, <1>6, <1>8, <1>9, <2>1, <3>1, GoesTo DEF r
  <2>3. CASE ~(sandbox[r].state = "ABSENT" /\ lock = w)
    <3>1. Moves(w, "IDLE")
      BY ZenonT(60), <1>15, <2>3 DEF CheckAbsent, ProvenAbsent, r
    <3> QED  BY <1>2, <1>3, <1>6, <1>8, <1>9, <2>1, <3>1, GoesTo
  <2> QED  BY ZenonT(60), <2>2, <2>3
<1>16. CASE Interrupted(w)
  <2>1. Moves(w, "IDLE") /\ LetGo(w) /\ UNCHANGED sandbox /\ faults' \in 0..MaxFaults
    BY ZenonT(60), <1>7, <1>16 DEF Interrupted
  <2>2. late' \in [Resumes -> Nat] /\ \A q \in Resumes \ {r} : late'[q] = late[q]
    <3>1. late' = late \/ late' = [late EXCEPT ![r] = @ + 1]
      BY ZenonT(60), <1>16 DEF Interrupted, r
    <3>2. late[r] + 1 \in Nat
      BY <1>3, <1>8 DEF r
    <3> QED  BY ZenonT(60), <1>3, <1>8, <3>1, <3>2
  <2>3. ObjectsAgree
    BY ZenonT(60), <1>5, <2>1, <2>2
  <2> QED  BY <1>2, <1>3, <1>6, <1>8, <1>9, <2>1, <2>2, <2>3, GoesTo
<1>17. CASE Refused(w)
  <2>1. /\ Moves(w, "IDLE") /\ lock' = lock /\ lock # w /\ faults' \in 0..MaxFaults /\ ObjectsAgree
        /\ UNCHANGED <<sandbox, late>>
    BY ZenonT(60), <1>4, <1>5, <1>7, <1>17 DEF Refused, Locked
  <2> QED  BY <1>2, <1>3, <1>6, <1>8, <2>1, GoesTo
<1>18. CASE Rejected(w)
  <2>1. Moves(w, "FAILING") /\ LetGo(w) /\ faults' \in 0..MaxFaults /\ ObjectsAgree /\ UNCHANGED <<sandbox, late>>
    BY ZenonT(60), <1>5, <1>7, <1>18 DEF Rejected
  <2> QED  BY <1>2, <1>3, <1>6, <1>8, <1>9, <2>1, GoesTo
<1> QED  BY ZenonT(60), <1>10, <1>11, <1>12, <1>13, <1>14, <1>15, <1>16, <1>17, <1>18

\* A worker that takes up an operation.
LEMMA TakesUp ==
  ASSUME IInv, RowsAgree, ObjectsAgree, NEW w \in Workers, NEW r \in Resumes, worker[w].at = "IDLE",
         NEW at \in {"PREPARED", "FAILING", "CLEANING"}, UNCHANGED lock,
         worker' = [worker EXCEPT ![w] = [at |-> at, op |-> r, uid |-> 0]],
         resumes'[r].state # "NONE", at = "CLEANING" => resumes'[r].state = "DEGRADED"
  PROVE  worker' \in [Workers -> WorkerType] /\ WorkerInv' /\ SandboxInv'
<1> USE DEF IInv
<1> DEFINE y == [at |-> at, op |-> r, uid |-> 0]
<1>1. r \in 0..MaxResumes
  BY Bounds DEF Resumes
<1>2. y \in WorkerType /\ y.at = at /\ y.op = r
  BY ZenonT(60), <1>1 DEF WorkerType
<1> HIDE DEF y
<1>3. lock # w
  BY ZenonT(60), WorksOn DEF Locked
<1>4. Allowed(w, y)
  BY ZenonT(60), <1>2, <1>3 DEF Allowed
<1>5. worker' = [worker EXCEPT ![w] = y]
  BY ZenonT(60) DEF y
<1> QED  BY ZenonT(60), <1>2, <1>3, <1>4, <1>5, WorkerGoes

\* A worker prepares an operation, or reads the intent of a cleanup.
LEMMA IntentKeeps ==
  ASSUME IInv, NEW w \in Workers, NEW r \in Resumes, Prepare(w, r) \/ CleanupIntent(w, r)
  PROVE  IInv'
<1> USE DEF IInv
<1>1. worker[w].at = "IDLE" /\ UNCHANGED <<lock, sandbox, late, compute, credential, faults>>
  BY ZenonT(60) DEF Prepare, CleanupIntent, OnlyResume, computeVars
<1>2. ASSUME StoreInv', worker' \in [Workers -> WorkerType], WorkerInv', SandboxInv' PROVE IInv'
  BY ZenonT(60), <1>1, <1>2 DEF WorkerTypes
<1>3. CASE CleanupIntent(w, r)
  <2>1. Quiet /\ UNCHANGED resumes /\ resumes[r].state = "DEGRADED"
        /\ worker' = [worker EXCEPT ![w] = [at |-> "CLEANING", op |-> r, uid |-> 0]]
    BY ZenonT(60), <1>3 DEF CleanupIntent, Quiet, OnlyResume, computeVars
  <2>2. RowsAgree /\ ObjectsAgree
    BY ZenonT(60), <1>1, <2>1 DEF RowsAgree, ObjectsAgree, OnlyStray, StrayNext
  <2> QED  BY ZenonT(60), <1>1, <1>2, <2>1, <2>2, QuietKeeps, TakesUp
<1>4. CASE Prepare(w, r) /\ resumes[r].state = "RESUMING"
  <2>1. Quiet /\ UNCHANGED resumes
    BY ZenonT(60), <1>4 DEF Prepare, Quiet, computeVars, sessionVars, workspaceVars
  <2>2. RowsAgree /\ ObjectsAgree
    BY ZenonT(60), <1>1, <2>1 DEF RowsAgree, ObjectsAgree, OnlyStray, StrayNext
  <2>3. PICK at \in {"PREPARED", "FAILING"} : worker' = [worker EXCEPT ![w] = [at |-> at, op |-> r, uid |-> 0]]
    BY ZenonT(60), <1>4 DEF Prepare
  <2> QED  BY ZenonT(60), <1>1, <1>2, <1>4, <2>1, <2>2, <2>3, QuietKeeps, TakesUp
<1>5. CASE Prepare(w, r) /\ resumes[r].state # "RESUMING"
  <2>1. /\ Reserved(r) /\ lock = 0 /\ resumes[r].state = "NONE"
        /\ worker' = [worker EXCEPT ![w] = [at |-> "PREPARED", op |-> r, uid |-> 0]]
    BY ZenonT(60), <1>5 DEF Prepare, Reserved, computeVars, Free
  <2>2. \A q \in Resumes \ {r} : resumes'[q] = resumes[q]
    BY ZenonT(60), <2>1 DEF Reserved, Reserve, StoreInv, TableTypes
  <2>3. resumes'[r].state = "RESUMING" /\ ~resumes'[r].cleaned /\ resumes'[r].handed = 0
    BY ZenonT(60), <2>1 DEF Reserved, Reserve, StoreInv, TableTypes
  <2>4. RowsAgree
    BY ZenonT(60), <2>1, <2>2, <2>3 DEF RowsAgree, Idle
  <2>5. ObjectsAgree
    BY ZenonT(60), <1>1, <2>2, <2>3 DEF ObjectsAgree, OnlyStray, StrayNext
  <2> QED  BY ZenonT(60), <1>1, <1>2, <2>1, <2>3, <2>4, <2>5, ReservedKeeps, TakesUp
<1> QED  BY ZenonT(60), <1>3, <1>4, <1>5

\* A worker completes, fails or ends the cleanup of its operation.
LEMMA DecisionKeeps ==
  ASSUME IInv, NEW w \in Workers, Complete(w) \/ Fail(w) \/ Cleaned(w)
  PROVE  IInv'
<1> USE DEF IInv
<1> DEFINE r == worker[w].op
<1>1. /\ lock = 0 /\ worker[w].at \in {"OBSERVED", "FAILING", "PROVED"}
      /\ UNCHANGED <<lock, sandbox, late, compute, credential, faults>>
  BY ZenonT(60) DEF Complete, Fail, Cleaned, Free, computeVars
<1>2. r \in Resumes /\ resumes[r].state # "NONE" /\ w # 0
  BY ZenonT(60), <1>1, WorksOn
<1>3. ASSUME StoreInv', RowsAgree, ObjectsAgree, Moves(w, "IDLE") \/ Moves(w, "FAILING") PROVE IInv'
  <2>1. worker' \in [Workers -> WorkerType] /\ WorkerInv' /\ SandboxInv'
    BY ZenonT(60), <1>1, <1>2, <1>3, GoesTo DEF Locked
  <2> QED  BY ZenonT(60), <1>1, <1>3, <2>1 DEF WorkerTypes
<1>4. ASSUME Quiet PROVE StoreInv' /\ RowsAgree /\ ObjectsAgree
  BY ZenonT(60), <1>1, <1>4, QuietKeeps DEF Quiet, RowsAgree, ObjectsAgree, OnlyStray, StrayNext
<1>5. ASSUME NEW s \in {"READY", "IDLE", "DEGRADED"}, resumes[r].state = "RESUMING",
             resumes' = [resumes EXCEPT ![r].state = s]
      PROVE  RowsAgree /\ ObjectsAgree
  <2>1. /\ \A q \in Resumes \ {r} : resumes'[q] = resumes[q]
        /\ resumes'[r].state = s /\ (resumes'[r].cleaned <=> resumes[r].cleaned)
        /\ resumes'[r].handed = resumes[r].handed
    BY ZenonT(60), <1>2, <1>5, ResumeMoves DEF StoreInv, TableTypes
  <2> QED  BY <1>1, <1>5, <2>1 DEF RowsAgree, ObjectsAgree, OnlyStray, StrayNext, Idle
<1> HIDE DEF r
<1>6. CASE Complete(w)
  <2>1. CASE resumes[r].state = "RESUMING" /\ Fence(r) /\ ~resumes[r].expired /\ StillReady(w)
    <3>1. Resumed(r) /\ Moves(w, "IDLE")
      BY ZenonT(60), <1>6, <2>1 DEF Complete, Resumed, computeVars, r
    <3>2. resumes[r].target \in {"READY", "IDLE"}
      BY ZenonT(60), <1>2 DEF StoreInv, TableTypes, ResumeType, Idle
    <3>3. RowsAgree /\ ObjectsAgree
      BY ZenonT(60), <1>5, <3>1, <3>2 DEF Resumed
    <3> QED  BY ZenonT(60), <1>2, <1>3, <3>1, <3>3, ResumedKeeps
  <2>2. CASE ~(resumes[r].state = "RESUMING" /\ Fence(r) /\ ~resumes[r].expired /\ StillReady(w))
    <3>1. Quiet /\ (Moves(w, "IDLE") \/ Moves(w, "FAILING"))
      BY ZenonT(60), <1>6, <2>2 DEF Complete, Quiet, computeVars, sessionVars, r
    <3> QED  BY ZenonT(60), <1>3, <1>4, <3>1
  <2> QED  BY ZenonT(60), <2>1, <2>2
<1>7. CASE Fail(w)
  <2>1. CASE Abandons(r)
    <3>1. Abandoned(r) /\ Moves(w, "IDLE")
      BY ZenonT(60), <1>7, <2>1 DEF Fail, Abandons, Abandoned, computeVars, r
    <3>2. RowsAgree /\ ObjectsAgree
      BY ZenonT(60), <1>5, <3>1 DEF Abandoned
    <3> QED  BY ZenonT(60), <1>2, <1>3, <3>1, <3>2, AbandonedKeeps
  <2>2. CASE ~Abandons(r)
    <3>1. Quiet /\ Moves(w, "IDLE")
      BY ZenonT(60), <1>7, <2>2 DEF Fail, Quiet, computeVars, sessionVars, r
    <3> QED  BY ZenonT(60), <1>3, <1>4, <3>1
  <2> QED  BY ZenonT(60), <2>1, <2>2
<1>8. CASE Cleaned(w)
  <2>1. resumes[r].state = "DEGRADED" /\ OnlyStray(r)
    BY ZenonT(60), <1>8, WorksOn DEF Cleaned, r
  <2>2. CleanedUp(r) /\ Moves(w, "IDLE")
    BY ZenonT(60), <1>8, <2>1 DEF Cleaned, CleanedUp, computeVars, r
  <2>3. \A q \in Resumes : /\ resumes'[q].state = resumes[q].state /\ (q # r => resumes'[q] = resumes[q])
                           /\ resumes'[q].handed = resumes[q].handed
    BY ZenonT(60), <1>2, <2>2, ResumeIsCleaned DEF CleanedUp, StoreInv, TableTypes
  <2>4. RowsAgree
    BY ZenonT(60), <2>3 DEF RowsAgree
  <2>5. ObjectsAgree
    BY ZenonT(60), <1>1, <2>1, <2>3 DEF ObjectsAgree, OnlyStray, StrayNext
  <2> QED  BY ZenonT(60), <1>2, <1>3, <2>2, <2>4, <2>5, CleanedKeeps
<1> QED  BY ZenonT(60), <1>6, <1>7, <1>8

\* The provider starts, collects or loses an object, or its release is confirmed.
LEMMA ObjectStepKeeps ==
  ASSUME IInv, (\E r \in Resumes : PodStarts(r) \/ Collected(r) \/ Lost(r)) \/ Released
  PROVE  IInv'
<1> USE DEF IInv
<1>1. Quiet /\ UNCHANGED <<lock, worker, late, credential, resumes>>
  BY ZenonT(60) DEF PodStarts, Collected, Lost, Released, Quiet, OnlyResume, computeVars
<1>2. sandbox \in [Resumes -> SandboxType]
  BY ZenonT(60) DEF WorkerTypes
<1>3. /\ sandbox' \in [Resumes -> SandboxType]
      /\ \A q \in Resumes : /\ sandbox[q].state = "ABSENT" => sandbox'[q].state = "ABSENT"
                            /\ sandbox'[q].stray = sandbox[q].stray
  <2>1. CASE \E r \in Resumes : PodStarts(r) \/ Collected(r) \/ Lost(r)
    <3> PICK r \in Resumes : PodStarts(r) \/ Collected(r) \/ Lost(r)
      BY ZenonT(60), <2>1
    <3>1. sandbox[r] \in SandboxType /\ sandbox[r].state # "ABSENT"
      BY ZenonT(60), <1>2 DEF PodStarts, Collected, Lost
    <3>2. PICK y \in SandboxType : sandbox' = [sandbox EXCEPT ![r] = y] /\ y.stray = sandbox[r].stray
      <4>1. ASSUME NEW y, y \in { [sandbox[r] EXCEPT !.pod = TRUE], [sandbox[r] EXCEPT !.state = "DELETING"],
                                  [sandbox[r] EXCEPT !.state = "ABSENT", !.pod = FALSE] }
            PROVE  y \in SandboxType /\ y.stray = sandbox[r].stray
        BY <3>1, <4>1, Zenon DEF SandboxType
      <4> QED  BY ZenonT(60), <4>1 DEF PodStarts, Collected, Lost
    <3> QED  BY ZenonT(60), <1>2, <3>1, <3>2
  <2>2. CASE Released
    <3>1. \A r \in Resumes : LET y == [sandbox[r] EXCEPT !.state = "ABSENT", !.pod = FALSE]
                             IN  y \in SandboxType /\ y.state = "ABSENT" /\ y.stray = sandbox[r].stray
      BY <1>2, Zenon DEF SandboxType
    <3> QED  BY ZenonT(60), <1>2, <2>2, <3>1 DEF Released
  <2> QED  BY ZenonT(60), <2>1, <2>2
<1>4. compute' \in {"BOUND", "ORDERED", "RELEASED"} /\ faults' \in 0..MaxFaults
  <2>1. CASE UNCHANGED <<compute, faults>>
    BY ZenonT(60), <2>1 DEF WorkerTypes
  <2>2. CASE \E r \in Resumes : Lost(r)
    BY <2>2, Bounds DEF Lost, Fault, WorkerTypes, OnlyResume, computeVars
  <2>3. CASE Released
    BY ZenonT(60), <2>3 DEF Released, WorkerTypes
  <2> QED  BY ZenonT(60), <2>1, <2>2, <2>3 DEF PodStarts, Collected, OnlyResume, computeVars
<1>5. RowsAgree /\ ObjectsAgree
  BY ZenonT(60), <1>1, <1>3 DEF RowsAgree, ObjectsAgree, OnlyStray, StrayNext
<1>6. WorkerInv' /\ SandboxInv' /\ StoreInv'
  BY ZenonT(60), <1>1, <1>5, WorkersStay, QuietKeeps
<1> QED  BY ZenonT(60), <1>1, <1>3, <1>4, <1>6 DEF WorkerTypes

\* A create that was cut off arrives, or a worker loses the row.
LEMMA LateStepKeeps ==
  ASSUME IInv, (\E r \in Resumes : Lands(r)) \/ (\E w \in Workers : LosesLock(w))
  PROVE  IInv'
<1> USE DEF IInv
<1>1. Quiet /\ UNCHANGED <<worker, compute, credential, resumes>> /\ RowsAgree
  BY ZenonT(60) DEF Lands, LosesLock, Quiet, OnlyResume, computeVars, RowsAgree
<1>2. sandbox \in [Resumes -> SandboxType] /\ late \in [Resumes -> Nat]
  BY ZenonT(60) DEF WorkerTypes
<1>3. lock' \in {lock, 0} /\ faults' \in 0..MaxFaults
  <2>1. lock' \in {lock, 0} /\ (UNCHANGED faults \/ Fault)
    BY ZenonT(60) DEF Lands, LosesLock
  <2>2. faults \in 0..MaxFaults
    BY ZenonT(60) DEF WorkerTypes
  <2> QED  BY <2>1, <2>2, Bounds DEF Fault
<1>4. ObjectsAgree /\ sandbox' \in [Resumes -> SandboxType] /\ late' \in [Resumes -> Nat]
  <2>1. CASE UNCHANGED <<sandbox, late>>
    BY ZenonT(60), <1>1, <1>2, <2>1 DEF ObjectsAgree, OnlyStray, StrayNext
  <2>2. CASE \E r \in Resumes : Lands(r)
    <3> PICK r \in Resumes : Lands(r)
      BY ZenonT(60), <2>2
    <3>1. late' \in [Resumes -> Nat] /\ \A q \in Resumes : late'[q] > 0 => late[q] > 0
      BY <1>2 DEF Lands
    <3>2. resumes[r].state # "NONE"
      BY ZenonT(60) DEF Lands, SandboxInv
    <3>3. CASE UNCHANGED sandbox
      BY ZenonT(60), <1>1, <1>2, <3>1, <3>3 DEF ObjectsAgree, OnlyStray, StrayNext
    <3>4. CASE Created(r, TRUE)
      BY ZenonT(60), <1>1, <1>2, <3>1, <3>2, <3>4, CreatedAgrees
    <3> QED  BY ZenonT(60), <3>1, <3>3, <3>4 DEF Lands
  <2> QED  BY ZenonT(60), <2>1, <2>2 DEF LosesLock
<1>5. lock' \in Workers \cup {0} /\ WorkerInv' /\ SandboxInv' /\ StoreInv'
  BY ZenonT(60), <1>1, <1>3, <1>4, WorkersStay, QuietKeeps
<1> QED  BY ZenonT(60), <1>1, <1>3, <1>4, <1>5 DEF WorkerTypes

\* The other steps touch neither workers nor objects.
LEMMA RowStepKeeps ==
  ASSUME IInv, StoreInv', UNCHANGED <<lock, worker, sandbox, late>>, faults' \in 0..MaxFaults,
         compute' \in {"BOUND", "ORDERED", "RELEASED"}, credential' \in {"NONE", "CONNECTED", "SECRET"},
         \A q \in Resumes : /\ resumes'[q].state = resumes[q].state /\ (resumes'[q].cleaned <=> resumes[q].cleaned)
                            /\ resumes'[q].handed # resumes[q].handed => resumes[q].state \in Idle
  PROVE  IInv'
<1> USE DEF IInv
<1>1. RowsAgree /\ ObjectsAgree
  BY ZenonT(60) DEF RowsAgree, ObjectsAgree, OnlyStray, StrayNext
<1>2. WorkerInv' /\ SandboxInv'
  BY ZenonT(60), <1>1, WorkersStay
<1> QED  BY ZenonT(60), <1>2 DEF WorkerTypes

-----------------------------------------------------------------------------
(* Every step *)

\* A step of the store.
LEMMA StoreStepKeeps == ASSUME IInv, StoreStep PROVE IInv'
<1> USE DEF IInv
<1>1. /\ compute \in {"BOUND", "ORDERED", "RELEASED"} /\ credential \in {"NONE", "CONNECTED", "SECRET"}
      /\ faults \in 0..MaxFaults
  BY ZenonT(60) DEF WorkerTypes
<1>2. CASE \E o \in Ops : PrepareCheckpoint(o) \/ PublishGeneration(o) \/ AbortCheckpoint(o)
  <2> PICK o \in Ops : PrepareCheckpoint(o) \/ PublishGeneration(o) \/ AbortCheckpoint(o)
    BY ZenonT(60), <1>2
  <2>1. StoreInv'
    BY ZenonT(60), PreparedKeeps, PublishedKeeps, AbortedKeeps
  <2>2. UNCHANGED <<lock, worker, sandbox, late, faults, compute, credential, resumes>>
    BY ZenonT(60) DEF PrepareCheckpoint, PublishGeneration, AbortCheckpoint, computeVars, resumeVars
  <2> QED  BY <1>1, <2>1, <2>2, RowStepKeeps
<1>3. CASE \E c \in Points, o \in Ops, p \in 0..MaxPoints : PublishCheckpoint(c, o, p)
  <2> PICK c \in Points, o \in Ops, p \in 0..MaxPoints : PublishCheckpoint(c, o, p)
    BY ZenonT(60), <1>3
  <2>1. StoreInv'
    BY ZenonT(60), CheckpointKeeps
  <2>2. UNCHANGED <<lock, worker, sandbox, late, faults, compute, credential, resumes>>
    BY ZenonT(60) DEF PublishCheckpoint, computeVars, resumeVars
  <2> QED  BY ZenonT(60), <1>1, <2>1, <2>2, RowStepKeeps
<1>4. CASE Suspend
  <2>1. UNCHANGED <<lock, worker, sandbox, late, faults, resumes>>
    BY ZenonT(60), <1>4 DEF Suspend, resumeVars
  <2>2. compute' \in {"BOUND", "ORDERED", "RELEASED"} /\ credential' \in {"NONE", "CONNECTED", "SECRET"}
    BY ZenonT(60), <1>1, <1>4 DEF Suspend
  <2> QED  BY ZenonT(60), <1>1, <1>4, <2>1, <2>2, SuspendKeeps, RowStepKeeps
<1> QED  BY ZenonT(60), <1>2, <1>3, <1>4 DEF StoreStep

\* A step of the Session's ordinary life, or a deadline that passes.
LEMMA LifeKeeps ==
  ASSUME IInv,
         (\E r \in Resumes : Expires(r)) \/ Admit \/ Start \/ Replaced \/ Write \/ Finish \/ Retired \/ Detach \/ Close
  PROVE  IInv'
<1> USE DEF IInv
<1>1. /\ compute \in {"BOUND", "ORDERED", "RELEASED"} /\ credential \in {"NONE", "CONNECTED", "SECRET"}
      /\ faults \in 0..MaxFaults
  BY ZenonT(60) DEF WorkerTypes
<1>2. CASE \E r \in Resumes : Expires(r)
  <2> PICK r \in Resumes : Expires(r)
    BY ZenonT(60), <1>2
  <2>1. UNCHANGED <<lock, worker, sandbox, late, faults, compute, credential>> /\ resumes' = [resumes EXCEPT ![r].expired = TRUE]
    BY ZenonT(60) DEF Expires, OnlyResume, computeVars
  <2>2. \A q \in Resumes : /\ resumes'[q].state = resumes[q].state /\ (resumes'[q].cleaned <=> resumes[q].cleaned)
                           /\ resumes'[q].handed = resumes[q].handed
    BY ZenonT(60), <2>1, ResumeExpires DEF StoreInv, TableTypes
  <2> QED  BY ZenonT(60), <1>1, <2>1, <2>2, ExpiresKeeps, RowStepKeeps
<1>3. CASE Start
  <2>1. UNCHANGED <<lock, worker, sandbox, late, faults>> /\ compute' = "BOUND" /\ credential' = "CONNECTED"
    BY ZenonT(60), <1>3 DEF Start
  <2>2. \A q \in Resumes : /\ resumes'[q].state = resumes[q].state /\ (resumes'[q].cleaned <=> resumes[q].cleaned)
                           /\ resumes'[q].handed # resumes[q].handed => resumes[q].state \in Idle
    <3>1. CASE UNCHANGED resumes
      BY ZenonT(60), <3>1
    <3>2. CASE \E r \in Resumes : Handoff(r) /\ resumes' = [resumes EXCEPT ![r].handed = epoch]
      <4> PICK r \in Resumes : Handoff(r) /\ resumes' = [resumes EXCEPT ![r].handed = epoch]
        BY ZenonT(60), <3>2
      <4>1. epoch \in 0..MaxEpoch
        BY ZenonT(60) DEF StoreInv, RowTypes
      <4>2. resumes[r].state \in Idle
        BY ZenonT(60) DEF Handoff, StoreInv, TableTypes, ResumeType
      <4> QED  BY ZenonT(60), <4>1, <4>2, ResumeIsHanded DEF StoreInv, TableTypes
    <3> QED  BY ZenonT(60), <1>3, <3>1, <3>2 DEF Start
  <2> QED  BY ZenonT(60), <1>1, <1>3, <2>1, <2>2, StartKeeps, RowStepKeeps
<1>4. CASE Admit \/ Replaced \/ Write \/ Finish \/ Detach \/ Close
  <2>1. UNCHANGED <<lock, worker, sandbox, late, compute, credential, resumes>>
    BY ZenonT(60), <1>4 DEF Admit, Replaced, Write, Finish, Detach, Close, computeVars, resumeVars
  <2>2. StoreInv'
    BY <1>4, AdmitKeeps, ReplacedKeeps, WriteKeeps, FinishKeeps, DetachKeeps, CloseKeeps
  <2>3. UNCHANGED faults \/ Fault
    BY ZenonT(60), <1>4 DEF Admit, Replaced, Write, Finish, Detach, Close
  <2>4. faults' \in 0..MaxFaults
    BY <1>1, <2>3, Bounds DEF Fault
  <2> QED  BY ZenonT(60), <1>1, <2>1, <2>2, <2>4, RowStepKeeps
<1>5. CASE Retired
  <2>1. Quiet /\ UNCHANGED <<lock, worker, sandbox, late, faults, compute, resumes>> /\ credential' = "NONE"
    BY ZenonT(60), <1>5 DEF Retired, Quiet, resumeVars
  <2> QED  BY ZenonT(60), <1>1, <2>1, QuietKeeps, RowStepKeeps
<1> QED  BY ZenonT(60), <1>2, <1>3, <1>4, <1>5

\* Every step, or none, keeps the invariant.
LEMMA StepKeeps == IInv /\ [Next]_vars => IInv'
<1> SUFFICES ASSUME IInv, [Next]_vars PROVE IInv'
  BY ZenonT(60)
<1>1. CASE StoreStep
  BY ZenonT(60), <1>1, StoreStepKeeps
<1>2. CASE \E w \in Workers : WorkerStep(w)
  <2> PICK w \in Workers : WorkerStep(w)
    BY ZenonT(60), <1>2
  <2> QED  BY ZenonT(60), IntentKeeps, ProviderStepKeeps, DecisionKeeps DEF WorkerStep
<1>3. CASE Environment
  BY ZenonT(60), <1>3, ProviderStepKeeps, ObjectStepKeeps, LateStepKeeps, LifeKeeps DEF Environment
<1>4. CASE UNCHANGED vars
  <2>1. Quiet /\ UNCHANGED <<lock, worker, sandbox, late, faults, compute, credential, resumes>>
    BY ZenonT(60), <1>4 DEF vars, Quiet, computeVars, resumeVars
  <2>2. /\ compute \in {"BOUND", "ORDERED", "RELEASED"} /\ credential \in {"NONE", "CONNECTED", "SECRET"}
        /\ faults \in 0..MaxFaults
    BY ZenonT(60) DEF IInv, WorkerTypes
  <2> QED  BY <2>1, <2>2, QuietKeeps, RowStepKeeps DEF IInv
<1> QED  BY ZenonT(60), <1>1, <1>2, <1>3, <1>4 DEF Next

-----------------------------------------------------------------------------
(* Theorems *)

\* The inductive invariant: who may write, what snapshots hold, how checkpoints
\* follow each other, what resumes were prepared for, and what workers between
\* two of their steps may still rely on.
THEOREM DurabilityInvariant == Spec => []IInv
  BY Begins, StepKeeps, PTL DEF Spec

\* Whatever workers are interrupted, repeated or raced, checkpoints form one
\* line, and a held Workspace and its attachment have an owner that can let
\* them go (DurabilityInv).
THEOREM RowsAreOwned == Spec => []DurabilityInv
<1>1. ASSUME IInv PROVE OneLine
  <2>1. \A c, d \in Points : c # d => c - 1 # d - 1
    BY DEF Points
  <2> QED  BY <1>1, <2>1 DEF IInv, StoreInv, LineInv, OneLine
<1>2. IInv => DurabilityInv
  BY <1>1 DEF IInv, StoreInv, SnapshotInv, ResumeInv, Waiting, Unwritten, DurabilityInv, TypeOK
<1> QED  BY <1>2, DurabilityInvariant, PTL

\* A SUSPENDED Session's head is a checkpoint of the current generation that
\* holds every write an Execution made (SuspendedIsDurable).
THEOREM SuspensionIsDurable == Spec => []SuspendedIsDurable
<1>1. IInv => SuspendedIsDurable
  BY DEF IInv, StoreInv
<1> QED  BY <1>1, DurabilityInvariant, PTL

\* A candidate that was reported clean is gone for good: whatever appears under
\* its name later is a stray of a create that outlived its lock, and no Execution
\* is handed it; the next candidate is not prepared before (CleanupIsFinal).
THEOREM OnlyStraysReturn == Spec => []CleanupIsFinal
<1>1. ASSUME IInv PROVE \A q, r \in Resumes : Candidate(q) /\ Candidate(r) => q = r
  BY ZenonT(60), <1>1, OneCandidate DEF IInv
<1>2. ASSUME IInv, NEW r \in Resumes, resumes[r].cleaned
      PROVE  OnlyStray(r) /\ resumes[r].state = "DEGRADED" /\ resumes[r].handed = 0 /\ attachment # r
  <2>1. OnlyStray(r) /\ (resumes[r].handed # 0 => resumes[r].state \in Idle)
    BY ZenonT(60), <1>2 DEF IInv, SandboxInv
  <2>2. resumes[r].state = "DEGRADED" /\ AttachmentHasOwner
    BY ZenonT(60), <1>2 DEF IInv, StoreInv, ResumeInv, Waiting
  <2>3. attachment # r
    BY <1>2, <2>2, Bounds DEF AttachmentHasOwner, Resumes
  <2> QED  BY ZenonT(60), <2>1, <2>2, <2>3 DEF Idle
<1>3. IInv => CleanupIsFinal
  BY ZenonT(60), <1>1, <1>2 DEF IInv, SandboxInv, CleanupIsFinal
<1> QED  BY <1>3, DurabilityInvariant, PTL

\* What ResumesExactly says of one step.
Exactly ==
  /\ sstate = "SUSPENDED" /\ sstate' \in Idle =>
       \E r \in Resumes :
         /\ attachment = r /\ sandbox[r].state = "PRESENT" /\ sandbox[r].pod
         /\ head = resumes[r].point /\ Content(points[head].gen) = written
         /\ compute = "RELEASED" /\ credential = "NONE"
         /\ sstate' = suspended.prior
  /\ \A r \in Resumes :
       resumes[r].handed # resumes'[r].handed /\ attempt = 0 => Content(resumes[r].gen) = written

\* Only a completed resume takes a Session out of SUSPENDED.
LEMMA OnlyCompleteResumes ==
  ASSUME IInv, Next, sstate = "SUSPENDED", sstate' \in Idle
  PROVE  \E w \in Workers : Complete(w) /\ sstate' # sstate
<1>1. sstate' # sstate /\ sstate' \notin {"SUSPENDED", "DEGRADED", "CLOSING", "ACTIVE"}
  BY ZenonT(60) DEF Idle
<1>2. current = 0
  BY ZenonT(60) DEF IInv, StoreInv, SessionInv
<1>3. ~StoreStep
  BY <1>1 DEF StoreStep, PrepareCheckpoint, PublishGeneration, AbortCheckpoint, PublishCheckpoint, Suspend, sessionVars
<1>4. ~Environment
  BY ZenonT(60), <1>1, <1>2 DEF Environment, Interrupted, LosesLock, Refused, Rejected, PodStarts, Collected, Lands, Lost, Expires,
     OnlyResume, Admit, Start, Replaced, Write, Finish, Released, Retired, Detach, Close, sessionVars
<1>5. PICK w \in Workers : WorkerStep(w)
  BY ZenonT(60), <1>3, <1>4 DEF Next
<1>6. ASSUME ~Complete(w) PROVE FALSE
  BY <1>1, <1>5, <1>6 DEF WorkerStep, Prepare, CleanupIntent, Reconcile, Allocate, Create, Inspect, Fail, Delete, CheckAbsent,
     Cleaned, OnlyResume, sessionVars
<1> QED  BY ZenonT(60), <1>1, <1>6

\* Only the start of an Attempt hands a resume over.
LEMMA OnlyStartHands ==
  ASSUME IInv, Next, NEW r \in Resumes, resumes[r].handed # resumes'[r].handed
  PROVE  Start
<1> USE DEF IInv, StoreInv, TableTypes
<1>1. resumes' # resumes /\ resumes \in [Resumes -> ResumeType]
  BY ZenonT(60)
<1>2. ~StoreStep
  BY <1>1 DEF StoreStep, PrepareCheckpoint, PublishGeneration, AbortCheckpoint, PublishCheckpoint, Suspend, resumeVars
<1>3. ASSUME NEW w \in Workers, WorkerStep(w) PROVE FALSE
  <2>1. ~(Reconcile(w) \/ Allocate(w) \/ Create(w) \/ Inspect(w) \/ Delete(w) \/ CheckAbsent(w))
    BY ZenonT(60), <1>1 DEF Reconcile, Allocate, Create, Inspect, Delete, CheckAbsent
  <2>2. worker[w].at # "IDLE" => worker[w].op \in Resumes
    BY ZenonT(60), WorksOn
  <2>3. ~Complete(w)
    <3>1. worker[w].op \in Resumes => resumes[worker[w].op].target \in {"READY", "IDLE"}
      BY ZenonT(60) DEF ResumeType, Idle
    <3> QED  BY <1>1, <2>2, <3>1, ResumeMoves DEF Complete
  <2>4. ~Fail(w)
    BY ZenonT(60), <1>1, <2>2, ResumeMoves DEF Fail
  <2>5. ~Cleaned(w)
    BY ZenonT(60), <1>1, <2>2, ResumeIsCleaned DEF Cleaned
  <2>6. ASSUME NEW q \in Resumes, Prepare(w, q) \/ CleanupIntent(w, q) PROVE FALSE
    <3>1. resumes[q].state = "NONE" /\ Reserve(q)
      BY ZenonT(60), <1>1, <2>6 DEF Prepare, CleanupIntent
    <3>2. resumes[q].handed = 0
      BY ZenonT(60), <3>1 DEF SandboxInv, Idle
    <3> QED  BY ZenonT(60), <1>1, <3>1, <3>2 DEF Reserve
  <2> QED  BY <1>3, <2>1, <2>3, <2>4, <2>5, <2>6 DEF WorkerStep
<1>4. ASSUME NEW q \in Resumes, Expires(q) PROVE FALSE
  BY ZenonT(60), <1>1, <1>4, ResumeExpires DEF Expires
<1> QED  BY ZenonT(60), <1>1, <1>2, <1>3, <1>4
     DEF Next, Environment, Interrupted, LosesLock, Refused, Rejected, PodStarts, Collected, Lands, Lost,
         Admit, Replaced, Write, Finish, Released, Retired, Detach, Close, resumeVars

\* Only a completed resume opens a SUSPENDED Session, on a running candidate of
\* its head with every write and no other compute, and the first Attempt of the
\* Execution that takes over finds the Workspace as it was restored
\* (ResumesExactly).
THEOREM ResumptionIsExact == Spec => ResumesExactly
<1>1. ASSUME IInv, Next PROVE Exactly
  <2> USE <1>1
  <2>1. ASSUME sstate = "SUSPENDED", sstate' \in Idle
        PROVE  \E r \in Resumes :
                 /\ attachment = r /\ sandbox[r].state = "PRESENT" /\ sandbox[r].pod
                 /\ head = resumes[r].point /\ Content(points[head].gen) = written
                 /\ compute = "RELEASED" /\ credential = "NONE"
                 /\ sstate' = suspended.prior
    <3>1. PICK w \in Workers : Complete(w) /\ sstate' # sstate
      BY ZenonT(60), <2>1, OnlyCompleteResumes
    <3> DEFINE r == worker[w].op
    <3>2. r \in Resumes
      BY ZenonT(60), <3>1, WorksOn DEF IInv, Complete
    <3>3. resumes[r].state = "RESUMING" /\ Fence(r) /\ StillReady(w) /\ sstate' = resumes[r].target
      BY ZenonT(60), <3>1 DEF Complete
    <3> HIDE DEF r
    <3>4. resumes[r].target = suspended.prior
      BY <3>2, <3>3 DEF IInv, StoreInv, ResumeInv, Waiting, Unwritten
    <3>5. sandbox[r].state = "PRESENT" /\ sandbox[r].pod
      BY ZenonT(60), <3>3 DEF StillReady, Running, r
    <3>6. Content(points[head].gen) = written
      BY ZenonT(60), <2>1 DEF IInv, StoreInv, SuspendedIsDurable
    <3> QED  BY ZenonT(60), <3>2, <3>3, <3>4, <3>5, <3>6 DEF Fence, NoWriters
  <2>2. ASSUME NEW r \in Resumes, resumes[r].handed # resumes'[r].handed, attempt = 0
        PROVE  Content(resumes[r].gen) = written
    <3>1. Start
      BY ZenonT(60), <2>2, OnlyStartHands
    <3>2. PICK q \in Resumes : Handoff(q) /\ resumes' = [resumes EXCEPT ![q].handed = epoch]
      BY ZenonT(60), <2>2, <3>1 DEF Start
    <3>3. q = r
      BY ZenonT(60), <2>2, <3>2 DEF IInv, StoreInv, TableTypes
    <3>4. /\ current # 0 /\ epoch = resumes[r].epoch + 1 /\ resumes[r].state \in Idle
      BY <3>1, <3>2, <3>3 DEF Start, Handoff, IInv, StoreInv, TableTypes, ResumeType
    <3> QED  BY <2>2, <3>4 DEF IInv, StoreInv, ResumeInv, Waiting, Unwritten
  <2> QED  BY ZenonT(60), <2>1, <2>2 DEF Exactly
<1>2. IInv /\ [Next]_vars => [Exactly]_vars
  BY <1>1
<1>3. Spec => [][Exactly]_vars
  BY <1>2, DurabilityInvariant, PTL DEF Spec
<1> QED  BY ZenonT(60), <1>3 DEF Exactly, ResumesExactly
=============================================================================
