------------------------- MODULE SessionDurability -------------------------
(***************************************************************************)
(* How a Session outlives its compute: Workspace checkpoint operations,    *)
(* checkpoint publication, suspend, and resume through a candidate sandbox *)
(* that a worker materializes, publishes or abandons and cleans up.        *)
(*                                                                         *)
(* Every database operation locks the Session row first, so an operation   *)
(* is one step that needs the lock.  A worker that calls the provider      *)
(* keeps the lock over several steps (WithResumeCandidate).  Two things    *)
(* part a call from the lock: the connection that holds the row may break  *)
(* while the worker goes on, and a create that is cut off at its deadline, *)
(* or whose worker stops, may reach the provider later (remote only kills  *)
(* the local ssh).  An object made by either is a stray.                   *)
(*                                                                         *)
(* A repeated operation with a known identity returns its saved result and *)
(* changes nothing; operation identities are therefore taken in order.     *)
(***************************************************************************)
EXTENDS Naturals

CONSTANTS
  Workers,    \* resume and cleanup workers, with the same saved request
  MaxOps,     \* Workspace checkpoint operations
  MaxPoints,  \* published checkpoints
  MaxResumes, \* resume operations
  MaxEpoch,   \* Executions of the Session
  MaxAttempts, \* Attempts of an Execution
  MaxWrites,  \* writes of an Execution to the Workspace
  MaxFaults   \* outages, cancellations, lost calls, locks, objects and Attempts

ASSUME BoundsAreNatural ==
  /\ {MaxOps, MaxPoints, MaxResumes, MaxEpoch, MaxAttempts, MaxWrites, MaxFaults} \subseteq Nat
  /\ 0 \notin Workers

VARIABLES
  sstate, version, epoch, head, \* the Session row; head is its checkpoint
  current,    \* the epoch of the current Execution, 0 without one
  attempt,    \* the number of its latest Attempt
  running,    \* its Execution and current Attempt are RUNNING
  wstate, gen, attachment,      \* the Workspace row; gen names an operation
  ops,        \* Workspace checkpoint operations
  points,     \* published checkpoints
  suspended,  \* the latest suspend operation
  resumes,    \* resume operations, with the intent they saved
  lock,       \* the worker that holds the Session row, 0 if none does
  worker,     \* workers: where they are, for which operation, what they saw
  sandbox,    \* the provider's object of a resume operation
  late,       \* creates that were cut off and may still reach the provider
  compute,    \* the Session's sandbox binding
  credential, \* what is left of that binding's credentials
  written,    \* writes the Workspace volume has taken
  faults

sessionVars == <<sstate, version, epoch, head, current, attempt, running>>
workspaceVars == <<wstate, gen, attachment, ops>>
computeVars == <<compute, credential, written>>
resumeVars == <<resumes, lock, worker, sandbox, late>>
vars == <<sessionVars, workspaceVars, points, suspended, computeVars, resumeVars, faults>>

Ops == 1..MaxOps
Points == 1..MaxPoints
Resumes == 1..MaxResumes
Idle == {"READY", "IDLE"}

NoOp == [state |-> "NONE", parent |-> 0, epoch |-> 0, attempt |-> 0, attached |-> 0,
         prior |-> "READY", content |-> 0]
NoPoint == [gen |-> 0, parent |-> 0, epoch |-> 0, detached |-> TRUE]
NoSuspend == [point |-> 0, version |-> 0, epoch |-> 0, prior |-> "READY"]
NoResume == [state |-> "NONE", version |-> 0, epoch |-> 0, point |-> 0, gen |-> 0,
             target |-> "READY", expired |-> FALSE, cleaned |-> FALSE, handed |-> 0]
NoSandbox == [state |-> "ABSENT", pod |-> FALSE, uid |-> 0, stray |-> FALSE]
Resting == [at |-> "IDLE", op |-> 0, uid |-> 0]

\* What the Workspace volume held when generation g was snapshotted.
Content(g) == IF g = 0 THEN 0 ELSE ops[g].content

Free == lock = 0

\* The transaction of a worker ends: it lets go of the row, if it still has it.
LetGo(w) == lock' = IF lock = w THEN 0 ELSE lock

-----------------------------------------------------------------------------
(* Workspace checkpoint operations *)

\* A detached boundary needs an idle Session without a writer, an attached one
\* the current RUNNING Execution and Attempt and their attachment.
Detached == current = 0 /\ attachment = 0 /\ sstate \in Idle
Attached == sstate = "ACTIVE" /\ running /\ attachment # 0
Names(o) == attachment = ops[o].attached /\ attempt = ops[o].attempt
AtBoundary(o) ==
  /\ gen = ops[o].parent /\ epoch = ops[o].epoch
  /\ IF ops[o].attached = 0 THEN Detached ELSE Attached /\ Names(o)

\* Prepare of a new operation: the Workspace is held in SNAPSHOTTING.
PrepareCheckpoint(o) ==
  /\ Free
  /\ ops[o].state = "NONE" /\ \A p \in 1..(o - 1) : ops[p].state # "NONE"
  /\ \/ Detached /\ wstate = "READY"
     \/ Attached /\ wstate = "ATTACHED"
  /\ ~ \E p \in Ops : ops[p].state = "PREPARED"
  /\ ops' = [ops EXCEPT ![o] =
       [state |-> "PREPARED", parent |-> gen, epoch |-> epoch, attempt |-> attempt,
        attached |-> attachment, prior |-> wstate, content |-> written]]
  /\ wstate' = "SNAPSHOTTING"
  /\ UNCHANGED <<sessionVars, gen, attachment, points, suspended, computeVars, resumeVars, faults>>

\* The state the Workspace had before it was held.
Restored(o) == ops[o].prior

\* Publish: the boundary still holds, and the generation becomes current.
PublishGeneration(o) ==
  /\ Free
  /\ ops[o].state = "PREPARED" /\ wstate = "SNAPSHOTTING" /\ AtBoundary(o)
  /\ ops' = [ops EXCEPT ![o].state = "COMMITTED"]
  /\ wstate' = Restored(o) /\ gen' = o
  /\ UNCHANGED <<sessionVars, attachment, points, suspended, computeVars, resumeVars, faults>>

\* A held Workspace whose snapshot was given up is not trusted again.
AfterAbort == IF wstate = "SNAPSHOTTING" THEN "DEGRADED" ELSE wstate

\* Abort needs no boundary.
AbortCheckpoint(o) ==
  /\ Free
  /\ ops[o].state = "PREPARED"
  /\ ops' = [ops EXCEPT ![o].state = "ABORTED"]
  /\ wstate' = AfterAbort
  /\ UNCHANGED <<sessionVars, gen, attachment, points, suspended, computeVars, resumeVars, faults>>

-----------------------------------------------------------------------------
(* Checkpoint publication and suspend *)

\* Mutant: the parent is recorded and not compared.
ParentIsHeadMutant(p) == TRUE

\* The parent a publication names is the Session's head.
ParentIsHead(p) == p = head

\* The generation a publication names is the Workspace's current one.
NamesCurrent(o) == o = gen

\* What the signed manifest of a checkpoint binds.
Composed(o, p) == [gen |-> o, parent |-> p, epoch |-> epoch, detached |-> ops[o].attached = 0]

\* A publisher composes its request from what it read: boundary o, parent p.
PublishCheckpoint(c, o, p) ==
  /\ Free
  /\ points[c].gen = 0 /\ \A b \in 1..(c - 1) : points[b].gen # 0
  /\ p # 0 => points[p].gen # 0
  /\ ParentIsHead(p) /\ NamesCurrent(o) /\ epoch = ops[o].epoch
  /\ IF ops[o].attached = 0 THEN Detached /\ wstate = "READY"
     ELSE Attached /\ Names(o) /\ wstate = "ATTACHED"
  /\ ops[o].state = "COMMITTED"
  /\ points' = [points EXCEPT ![c] = Composed(o, p)]
  /\ head' = c /\ version' = version + 1
  /\ UNCHANGED <<sstate, epoch, current, attempt, running, workspaceVars, suspended, computeVars, resumeVars, faults>>

\* Mutant: the epoch of the boundary is not compared.
BoundaryIsLastMutant(c) == points[c].detached

\* The head was published detached, in the epoch that is current.
BoundaryIsLast(c) == points[c].detached /\ ops[points[c].gen].epoch = epoch

\* The rows behind a checkpoint still make it restorable.
Restorable(c) == points[c].gen # 0 /\ ops[points[c].gen].state = "COMMITTED"

\* Suspend orders the release of retained compute, clears its connection and
\* asks for the cleanup of its bootstrap Secret.
Suspend ==
  /\ Free
  /\ sstate \in Idle /\ current = 0 /\ head # 0
  /\ points[head].gen = gen /\ wstate = "READY" /\ attachment = 0
  /\ BoundaryIsLast(head) /\ Restorable(head)
  /\ compute' = IF compute = "BOUND" THEN "ORDERED" ELSE compute
  /\ credential' = IF credential = "CONNECTED" THEN "SECRET" ELSE credential
  /\ sstate' = "SUSPENDED" /\ version' = version + 1
  /\ suspended' = [point |-> head, version |-> version + 1, epoch |-> epoch, prior |-> sstate]
  /\ UNCHANGED <<epoch, head, current, attempt, running, workspaceVars, points, written, resumeVars, faults>>

-----------------------------------------------------------------------------
(* Resume: the store *)

\* No mutable Execution, every binding released, no connection and no Secret.
NoWriters == current = 0 /\ compute = "RELEASED" /\ credential = "NONE"

\* A resume that is not over, or whose candidate is not cleaned, is the only one.
Candidate(r) ==
  resumes[r].state = "RESUMING" \/ (resumes[r].state = "DEGRADED" /\ ~ resumes[r].cleaned)

\* What must still hold of every row when a worker returns to its intent.
Fence(r) ==
  /\ sstate = "SUSPENDED" /\ version = resumes[r].version /\ epoch = resumes[r].epoch
  /\ head = resumes[r].point /\ NoWriters
  /\ wstate = "ATTACHED" /\ attachment = r /\ gen = resumes[r].gen
  /\ Restorable(head)

Reserve(r) ==
  /\ sstate = "SUSPENDED" /\ current = 0 /\ head # 0
  /\ suspended.point = head /\ suspended.version = version /\ suspended.epoch = epoch
  /\ points[head].gen = gen /\ wstate = "READY" /\ attachment = 0
  /\ NoWriters /\ Restorable(head)
  /\ ~ \E q \in Resumes : Candidate(q)
  /\ resumes' = [resumes EXCEPT ![r] =
       [state |-> "RESUMING", version |-> version + 1, epoch |-> epoch, point |-> head,
        gen |-> gen, target |-> suspended.prior, expired |-> FALSE, cleaned |-> FALSE,
        handed |-> 0]]
  /\ wstate' = "ATTACHED" /\ attachment' = r /\ version' = version + 1

\* A worker goes on with its operation, or is done with this run of it.
Moves(w, at) ==
  worker' = [worker EXCEPT ![w] = IF at = "IDLE" THEN Resting ELSE [at |-> at, op |-> @.op, uid |-> 0]]

\* Prepare: reserve the single writer, or return to the saved intent.  A fence
\* that no longer holds, or a deadline that passed, makes the worker fail it.
Prepare(w, r) ==
  /\ Free /\ worker[w].at = "IDLE"
  /\ \/ /\ resumes[r].state = "NONE" /\ \A q \in 1..(r - 1) : resumes[q].state # "NONE"
        /\ Reserve(r)
        /\ worker' = [worker EXCEPT ![w] = [at |-> "PREPARED", op |-> r, uid |-> 0]]
     \/ /\ resumes[r].state = "RESUMING"
        /\ worker' = [worker EXCEPT ![w] =
             [at |-> IF Fence(r) /\ ~ resumes[r].expired THEN "PREPARED" ELSE "FAILING",
              op |-> r, uid |-> 0]]
        /\ UNCHANGED <<resumes, version, wstate, attachment>>
  /\ UNCHANGED <<sstate, epoch, head, current, attempt, running, gen, ops, points, suspended,
                 computeVars, lock, sandbox, late, faults>>

\* inspect: the candidate is there, owned, not being deleted, and its Pod runs.
Running(r) == sandbox[r].state = "PRESENT" /\ sandbox[r].pod
Pending(r) == sandbox[r].state = "PRESENT" /\ ~ sandbox[r].pod

\* Mutant: the observation is not repeated.
StillReadyMutant(w) == TRUE

\* Ready: the object the worker observed is the one that runs now.
StillReady(w) == Running(worker[w].op) /\ sandbox[worker[w].op].uid = worker[w].uid

\* A candidate that does not run yet is retained for the next reconciliation.
Complete(w) ==
  LET r == worker[w].op
  IN
  /\ Free /\ worker[w].at = "OBSERVED"
  /\ IF resumes[r].state # "RESUMING"
     THEN Moves(w, "IDLE") /\ UNCHANGED <<resumes, sstate, version>>
     ELSE IF Fence(r) /\ ~ resumes[r].expired /\ StillReady(w)
     THEN /\ resumes' = [resumes EXCEPT ![r].state = resumes[r].target]
          /\ sstate' = resumes[r].target /\ version' = version + 1
          /\ Moves(w, "IDLE")
     ELSE /\ Moves(w, IF Fence(r) /\ ~ resumes[r].expired /\ Pending(r) THEN "IDLE" ELSE "FAILING")
          /\ UNCHANGED <<resumes, sstate, version>>
  /\ UNCHANGED <<epoch, head, current, attempt, running, workspaceVars, points, suspended,
                 computeVars, lock, sandbox, late, faults>>

\* The Session is still the one this candidate was prepared for.
SameSession(r) ==
  sstate = "SUSPENDED" /\ version = resumes[r].version /\ epoch = resumes[r].epoch

\* Mutant: a candidate of a Session that changed is not abandoned.
AbandonsMutant(r) == resumes[r].state = "RESUMING" /\ SameSession(r)

\* Only an undecided operation can fail.
Abandons(r) == resumes[r].state = "RESUMING"

\* Fail abandons the candidate, and degrades the Session only if it is unchanged.
Fail(w) ==
  LET r == worker[w].op
  IN
  /\ Free /\ worker[w].at = "FAILING"
  /\ Moves(w, "IDLE")
  /\ IF Abandons(r)
     THEN /\ resumes' = [resumes EXCEPT ![r].state = "DEGRADED"]
          /\ sstate' = IF SameSession(r) THEN "DEGRADED" ELSE sstate
          /\ version' = IF SameSession(r) THEN version + 1 ELSE version
     ELSE UNCHANGED <<resumes, sstate, version>>
  /\ UNCHANGED <<epoch, head, current, attempt, running, workspaceVars, points, suspended,
                 computeVars, lock, sandbox, late, faults>>

\* The attachment a finished cleanup clears is its own.
OwnAttachment(r) == attachment = r /\ wstate = "ATTACHED"

Cleaned(w) ==
  LET r == worker[w].op
  IN
  /\ Free /\ worker[w].at = "PROVED"
  /\ Moves(w, "IDLE")
  /\ resumes' = [resumes EXCEPT ![r].cleaned = TRUE]
  /\ IF ~ resumes[r].cleaned /\ OwnAttachment(r)
     THEN wstate' = "DEGRADED" /\ attachment' = 0
     ELSE UNCHANGED <<wstate, attachment>>
  /\ UNCHANGED <<sessionVars, gen, ops, points, suspended, computeVars, lock, sandbox, late, faults>>

-----------------------------------------------------------------------------
(* Resume: the worker and its candidate *)

OnlyResume == UNCHANGED <<sessionVars, workspaceVars, points, suspended, computeVars>>

\* A provider call may be made for this candidate: checked under the lock.
MayMaterialize(r) ==
  resumes[r].state = "RESUMING" /\ ~ resumes[r].expired /\ Fence(r)

\* Reconcile takes the lock for its provider calls; a refusal is retried.
Reconcile(w) ==
  /\ Free /\ worker[w].at = "PREPARED"
  /\ IF MayMaterialize(worker[w].op)
     THEN lock' = w /\ Moves(w, "ALLOCATING")
     ELSE lock' = lock /\ Moves(w, "IDLE")
  /\ OnlyResume /\ UNCHANGED <<resumes, sandbox, late, faults>>

\* ensure: the object is looked up under its fixed name.
Allocate(w) ==
  LET state == sandbox[worker[w].op].state
  IN
  /\ worker[w].at = "ALLOCATING"
  /\ \/ state = "ABSENT" /\ Moves(w, "CREATING") /\ UNCHANGED lock
     \/ state = "PRESENT" /\ Moves(w, "INSPECTING") /\ UNCHANGED lock
     \/ state = "DELETING" /\ Moves(w, "FAILING") /\ LetGo(w)
  /\ OnlyResume /\ UNCHANGED <<resumes, sandbox, late, faults>>

Created(r, stray) ==
  sandbox' = [sandbox EXCEPT ![r] = [state |-> "PRESENT", pod |-> FALSE, uid |-> @.uid + 1, stray |-> stray]]

\* ensure: and created if it was absent; one that is there by now is a failed
\* call, and retried.
Create(w) ==
  LET r == worker[w].op
  IN
  /\ worker[w].at = "CREATING"
  /\ IF sandbox[r].state = "ABSENT"
     THEN Created(r, lock # w) /\ Moves(w, "INSPECTING") /\ UNCHANGED lock
     ELSE UNCHANGED sandbox /\ Moves(w, "IDLE") /\ LetGo(w)
  /\ OnlyResume /\ UNCHANGED <<resumes, late, faults>>

\* inspect, hostProof, probe, inspect: a Pod that does not run yet is retried, and
\* so is a transaction that cannot be committed because its row is lost.
Inspect(w) ==
  LET r == worker[w].op
  IN
  /\ worker[w].at = "INSPECTING"
  /\ LetGo(w)
  /\ IF Running(r) /\ lock = w
     THEN worker' = [worker EXCEPT ![w].at = "OBSERVED", ![w].uid = sandbox[r].uid]
     ELSE Moves(w, IF Running(r) \/ Pending(r) THEN "IDLE" ELSE "FAILING")
  /\ OnlyResume /\ UNCHANGED <<resumes, sandbox, late, faults>>

\* Cleanup reads the abandoned intent, then takes the lock to delete.
CleanupIntent(w, r) ==
  /\ worker[w].at = "IDLE"
  /\ resumes[r].state = "DEGRADED" /\ ~ resumes[r].cleaned
  /\ worker' = [worker EXCEPT ![w] = [at |-> "CLEANING", op |-> r, uid |-> 0]]
  /\ OnlyResume /\ UNCHANGED <<resumes, lock, sandbox, late, faults>>

Delete(w) ==
  LET r == worker[w].op
  IN
  /\ Free /\ worker[w].at = "CLEANING" /\ resumes[r].state = "DEGRADED"
  /\ lock' = w /\ Moves(w, "CHECKING")
  /\ sandbox' = IF sandbox[r].state = "PRESENT"
                THEN [sandbox EXCEPT ![r].state = "DELETING"] ELSE sandbox
  /\ OnlyResume /\ UNCHANGED <<resumes, late, faults>>

\* Mutant: an accepted deletion is taken for absence.
ProvenAbsentMutant(r) == sandbox[r].state # "PRESENT"

\* Neither the Sandbox nor its Pod exists; anything else stays pending.
ProvenAbsent(r) == sandbox[r].state = "ABSENT"

CheckAbsent(w) ==
  /\ worker[w].at = "CHECKING"
  /\ LetGo(w)
  /\ Moves(w, IF ProvenAbsent(worker[w].op) /\ lock = w THEN "PROVED" ELSE "IDLE")
  /\ OnlyResume /\ UNCHANGED <<resumes, sandbox, late, faults>>

Fault == faults < MaxFaults /\ faults' = faults + 1

\* The worker stops, or its call is cut off at its deadline: the lock goes, and a
\* create that was sent may still arrive.
Interrupted(w) ==
  /\ worker[w].at # "IDLE" /\ Fault
  /\ LetGo(w) /\ Moves(w, "IDLE")
  /\ \/ UNCHANGED late
     \/ worker[w].at = "CREATING" /\ late' = [late EXCEPT ![worker[w].op] = @ + 1]
  /\ OnlyResume /\ UNCHANGED <<resumes, sandbox>>

\* The connection of the transaction breaks: the row is free, and the worker does
\* not learn of it before its callback has returned.
LosesLock(w) ==
  /\ lock = w /\ Fault
  /\ lock' = 0
  /\ OnlyResume /\ UNCHANGED <<resumes, worker, sandbox, late>>

\* The operator's access or policy is withdrawn: retried.
Refused(w) ==
  /\ worker[w].at \in {"PREPARED", "OBSERVED"} /\ Fault
  /\ Moves(w, "IDLE")
  /\ OnlyResume /\ UNCHANGED <<resumes, lock, sandbox, late>>

\* A restored object, its metadata or the candidate does not validate: terminal.
Rejected(w) ==
  /\ worker[w].at \in {"PREPARED", "INSPECTING", "OBSERVED"} /\ Fault
  /\ LetGo(w) /\ Moves(w, "FAILING")
  /\ OnlyResume /\ UNCHANGED <<resumes, sandbox, late>>

-----------------------------------------------------------------------------
(* The provider, the deadline, and the Session's ordinary life *)

PodStarts(r) ==
  /\ sandbox[r].state = "PRESENT" /\ ~ sandbox[r].pod
  /\ sandbox' = [sandbox EXCEPT ![r].pod = TRUE]
  /\ OnlyResume /\ UNCHANGED <<resumes, lock, worker, late, faults>>

Collected(r) ==
  /\ sandbox[r].state = "DELETING"
  /\ sandbox' = [sandbox EXCEPT ![r].state = "ABSENT", ![r].pod = FALSE]
  /\ OnlyResume /\ UNCHANGED <<resumes, lock, worker, late, faults>>

\* A create that was cut off arrives; one that finds the object is refused.
Lands(r) ==
  /\ late[r] > 0
  /\ late' = [late EXCEPT ![r] = @ - 1]
  /\ IF sandbox[r].state = "ABSENT" THEN Created(r, TRUE) ELSE UNCHANGED sandbox
  /\ OnlyResume /\ UNCHANGED <<resumes, lock, worker, faults>>

\* Someone else deletes the object, or its node goes.
Lost(r) ==
  /\ sandbox[r].state = "PRESENT" /\ Fault
  /\ sandbox' = [sandbox EXCEPT ![r].state = "DELETING"]
  /\ OnlyResume /\ UNCHANGED <<resumes, lock, worker, late>>

Expires(r) ==
  /\ resumes[r].state = "RESUMING" /\ ~ resumes[r].expired
  /\ resumes' = [resumes EXCEPT ![r].expired = TRUE]
  /\ OnlyResume /\ UNCHANGED <<lock, worker, sandbox, late, faults>>

Admit ==
  /\ Free /\ sstate \in Idle /\ current = 0 /\ epoch < MaxEpoch
  /\ sstate' = "ACTIVE" /\ version' = version + 1
  /\ epoch' = epoch + 1 /\ current' = epoch + 1 /\ attempt' = 0
  /\ UNCHANGED <<head, running, workspaceVars, points, suspended, computeVars, resumeVars, faults>>

\* A completed resume is handed to the first Execution after it, unchanged.
Handoff(r) ==
  /\ resumes[r].state = resumes[r].target /\ resumes[r].handed = 0
  /\ epoch = resumes[r].epoch + 1
  /\ wstate = "ATTACHED" /\ attachment = r /\ gen = resumes[r].gen

\* An Attempt starts on new compute, or on the candidate of a resume.
Start ==
  /\ Free /\ current # 0 /\ ~ running /\ attempt < MaxAttempts
  /\ running' = TRUE /\ attempt' = attempt + 1 /\ compute' = "BOUND" /\ credential' = "CONNECTED"
  /\ \/ UNCHANGED resumes
     \/ \E r \in Resumes : Handoff(r) /\ resumes' = [resumes EXCEPT ![r].handed = epoch]
  /\ UNCHANGED <<sstate, version, epoch, head, current, workspaceVars, points, suspended,
                 written, lock, worker, sandbox, late, faults>>

\* The Attempt is lost; its Execution may start another one.
Replaced ==
  /\ Free /\ running /\ Fault
  /\ running' = FALSE
  /\ UNCHANGED <<sstate, version, epoch, head, current, attempt, workspaceVars, points, suspended,
                 computeVars, resumeVars>>

\* The verifier of a checkpoint proves that its own writer is blocked.
Write ==
  /\ running /\ written < MaxWrites
  /\ ~ \E o \in Ops : ops[o].state = "PREPARED" /\ ops[o].attached # 0 /\ ops[o].epoch = epoch
                    /\ ops[o].attempt = attempt
  /\ written' = written + 1
  /\ UNCHANGED <<sessionVars, workspaceVars, points, suspended, compute, credential, resumeVars, faults>>

\* The Execution ends; one that never had an Attempt was cancelled before it ran.
Finish ==
  /\ Free /\ current # 0
  /\ IF attempt = 0 THEN Fault ELSE UNCHANGED faults
  /\ sstate' = "IDLE" /\ version' = version + 1 /\ current' = 0 /\ running' = FALSE
  /\ UNCHANGED <<epoch, head, attempt, workspaceVars, points, suspended, computeVars, resumeVars>>

\* The monitor confirms the last release; the candidate that was handed over goes
\* with it.
Released ==
  /\ Free /\ ~ running /\ compute # "RELEASED"
  /\ compute' = "RELEASED"
  /\ sandbox' = [r \in Resumes |->
       IF resumes[r].handed # 0 THEN [sandbox[r] EXCEPT !.state = "ABSENT", !.pod = FALSE]
       ELSE sandbox[r]]
  /\ UNCHANGED <<sessionVars, workspaceVars, points, suspended, credential, written, resumes,
                 lock, worker, late, faults>>

\* The connection is closed and the bootstrap Secret cleaned, or both expired.
Retired ==
  /\ Free /\ credential # "NONE" /\ ~ running
  /\ credential' = "NONE"
  /\ UNCHANGED <<sessionVars, workspaceVars, points, suspended, compute, written, resumeVars, faults>>

\* The Workspace's owner takes the volume back from compute that is gone.
Detach ==
  /\ Free /\ wstate = "ATTACHED" /\ sstate \in Idle /\ compute = "RELEASED"
  /\ \A r \in Resumes : attachment = r => sandbox[r].state = "ABSENT"
  /\ wstate' = "READY" /\ attachment' = 0
  /\ UNCHANGED <<sessionVars, gen, ops, points, suspended, computeVars, resumeVars, faults>>

Close ==
  /\ Free /\ sstate \in {"READY", "IDLE", "SUSPENDED", "DEGRADED"}
  /\ sstate' = "CLOSING" /\ version' = version + 1
  /\ UNCHANGED <<epoch, head, current, attempt, running, workspaceVars, points, suspended,
                 computeVars, resumeVars, faults>>

-----------------------------------------------------------------------------
Init ==
  /\ sstate = "READY" /\ version = 0 /\ epoch = 0 /\ head = 0
  /\ current = 0 /\ attempt = 0 /\ running = FALSE
  /\ wstate = "READY" /\ gen = 0 /\ attachment = 0
  /\ ops = [o \in Ops |-> NoOp]
  /\ points = [c \in Points |-> NoPoint]
  /\ suspended = NoSuspend
  /\ resumes = [r \in Resumes |-> NoResume]
  /\ lock = 0
  /\ worker = [w \in Workers |-> Resting]
  /\ sandbox = [r \in Resumes |-> NoSandbox]
  /\ late = [r \in Resumes |-> 0]
  /\ compute = "RELEASED" /\ credential = "NONE" /\ written = 0 /\ faults = 0

StoreStep ==
  \/ \E o \in Ops : PrepareCheckpoint(o) \/ PublishGeneration(o) \/ AbortCheckpoint(o)
  \/ \E c \in Points, o \in Ops, p \in 0..MaxPoints : PublishCheckpoint(c, o, p)
  \/ Suspend

WorkerStep(w) ==
  \/ \E r \in Resumes : Prepare(w, r) \/ CleanupIntent(w, r)
  \/ Reconcile(w) \/ Allocate(w) \/ Create(w) \/ Inspect(w) \/ Complete(w) \/ Fail(w)
  \/ Delete(w) \/ CheckAbsent(w) \/ Cleaned(w)

Environment ==
  \/ \E w \in Workers : Interrupted(w) \/ LosesLock(w) \/ Refused(w) \/ Rejected(w)
  \/ \E r \in Resumes : PodStarts(r) \/ Collected(r) \/ Lands(r) \/ Lost(r) \/ Expires(r)
  \/ Admit \/ Start \/ Replaced \/ Write \/ Finish \/ Released \/ Retired \/ Detach \/ Close

Next == StoreStep \/ (\E w \in Workers : WorkerStep(w)) \/ Environment

Spec == Init /\ [][Next]_vars

(* Workers are rerun until their operation is over (Resumer.Run, Cleaner.Run),
   and the provider starts Pods and finishes deletions. *)
Fairness ==
  /\ \A w \in Workers : WF_vars(WorkerStep(w))
  /\ \A r \in Resumes : WF_vars(PodStarts(r) \/ Collected(r))

FairSpec == Spec /\ Fairness

-----------------------------------------------------------------------------
OpType ==
  [state : {"NONE", "PREPARED", "COMMITTED", "ABORTED"}, parent : 0..MaxOps, epoch : 0..MaxEpoch,
   attempt : 0..MaxAttempts, attached : 0..MaxResumes, prior : {"READY", "ATTACHED"}, content : 0..MaxWrites]
PointType == [gen : 0..MaxOps, parent : 0..MaxPoints, epoch : 0..MaxEpoch, detached : BOOLEAN]
SuspendType == [point : 0..MaxPoints, version : Nat, epoch : 0..MaxEpoch, prior : Idle]
ResumeType ==
  [state : {"NONE", "RESUMING", "READY", "IDLE", "DEGRADED"}, version : Nat, epoch : 0..MaxEpoch,
   point : 0..MaxPoints, gen : 0..MaxOps, target : Idle, expired : BOOLEAN, cleaned : BOOLEAN,
   handed : 0..MaxEpoch]
WorkerType ==
  [at : {"IDLE", "PREPARED", "ALLOCATING", "CREATING", "INSPECTING", "OBSERVED", "FAILING",
         "CLEANING", "CHECKING", "PROVED"},
   op : 0..MaxResumes, uid : Nat]
SandboxType == [state : {"ABSENT", "PRESENT", "DELETING"}, pod : BOOLEAN, uid : Nat, stray : BOOLEAN]

\* The Session and Workspace rows.
RowTypes ==
  /\ sstate \in {"READY", "IDLE", "ACTIVE", "SUSPENDED", "DEGRADED", "CLOSING"}
  /\ version \in Nat /\ epoch \in 0..MaxEpoch /\ head \in 0..MaxPoints
  /\ current \in 0..MaxEpoch /\ attempt \in 0..MaxAttempts /\ running \in BOOLEAN
  /\ wstate \in {"READY", "ATTACHED", "SNAPSHOTTING", "DEGRADED"}
  /\ gen \in 0..MaxOps /\ attachment \in 0..MaxResumes
  /\ suspended \in SuspendType /\ written \in 0..MaxWrites

\* The tables of operations.
TableTypes ==
  /\ ops \in [Ops -> OpType] /\ points \in [Points -> PointType] /\ resumes \in [Resumes -> ResumeType]

\* Workers and what they work on.
WorkerTypes ==
  /\ lock \in Workers \cup {0} /\ worker \in [Workers -> WorkerType]
  /\ sandbox \in [Resumes -> SandboxType] /\ late \in [Resumes -> Nat]
  /\ compute \in {"BOUND", "ORDERED", "RELEASED"} /\ credential \in {"NONE", "CONNECTED", "SECRET"}
  /\ faults \in 0..MaxFaults

\* Rows, intents, workers and provider objects stay within the values the code
\* and the constraints of the tables allow.
TypeOK == RowTypes /\ TableTypes /\ WorkerTypes

\* A suspended Session loses nothing: its head is a checkpoint of the current
\* generation, which holds every write an Execution ever made.
SuspendedIsDurable ==
  sstate = "SUSPENDED" =>
    /\ head # 0 /\ points[head].gen = gen
    /\ Content(gen) = written

\* Checkpoints form one line: no two publications continue the same parent,
\* however their publishers raced.
OneLine ==
  \A c, d \in Points :
    points[c].gen # 0 /\ points[d].gen # 0 /\ c # d => points[c].parent # points[d].parent

\* A held Workspace has an operation that can release it: SNAPSHOTTING exactly
\* while one operation is PREPARED, and that one continues the current generation.
SnapshotHasOwner ==
  /\ wstate = "SNAPSHOTTING" <=> \E o \in Ops : ops[o].state = "PREPARED"
  /\ \A o \in Ops : ops[o].state = "PREPARED" => ops[o].parent = gen

\* The attachment belongs to a resume that is under way, done, or whose
\* candidate is not cleaned up; a resume under way holds it.
AttachmentHasOwner ==
  /\ attachment # 0 => resumes[attachment].state # "NONE" /\ ~ resumes[attachment].cleaned
  /\ \A r \in Resumes : resumes[r].state = "RESUMING" => attachment = r /\ wstate = "ATTACHED"

\* Whatever is interrupted, repeated or raced, the rows agree: checkpoints form
\* one line, and a held Workspace and its attachment have an owner that can let
\* them go.
DurabilityInv == TypeOK /\ OneLine /\ SnapshotHasOwner /\ AttachmentHasOwner

\* An object is a stray: no lock was held for its creation.
OnlyStray(r) == sandbox[r].state = "ABSENT" \/ sandbox[r].stray

\* A candidate that was reported clean is gone for good.  An object that appears
\* under its name afterwards was made by a create that outlived its lock, and is
\* never taken for a candidate again: the operation stays failed, without an
\* attachment and without a handover.  And only one candidate is open at a time.
CleanupIsFinal ==
  /\ \A r \in Resumes : resumes[r].cleaned =>
       /\ OnlyStray(r)
       /\ resumes[r].state = "DEGRADED" /\ resumes[r].handed = 0 /\ attachment # r
  /\ \A q, r \in Resumes : Candidate(q) /\ Candidate(r) => q = r
  /\ \A r \in Resumes : sandbox[r].state # "ABSENT" => resumes[r].state # "NONE"

\* Resume opens the Session only on a running candidate that restores its head,
\* with every write, while no other compute of the Session exists; and the
\* Execution that takes over the candidate finds the Workspace as it was
\* restored: nobody wrote to it since, but for an earlier Attempt of its own.
ResumesExactly ==
  [][/\ sstate = "SUSPENDED" /\ sstate' \in Idle =>
          \E r \in Resumes :
            /\ attachment = r /\ sandbox[r].state = "PRESENT" /\ sandbox[r].pod
            /\ head = resumes[r].point /\ Content(points[head].gen) = written
            /\ compute = "RELEASED" /\ credential = "NONE"
            /\ sstate' = suspended.prior
     /\ \A r \in Resumes :
          resumes[r].handed # resumes'[r].handed /\ attempt = 0 =>
            Content(resumes[r].gen) = written]_vars

\* Every resume that began is decided, and a failed one is cleaned up.
ResumeDecided ==
  \A r \in Resumes :
    resumes[r].state = "RESUMING" ~> resumes[r].state \in Idle \/ resumes[r].cleaned
=============================================================================
