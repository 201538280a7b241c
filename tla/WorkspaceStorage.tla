-------------------------- MODULE WorkspaceStorage --------------------------
(***************************************************************************)
(* How the storage of an empty Workspace comes and goes: workers that      *)
(* reconcile one provisioning intent reserve the Workspace, create its two *)
(* volume claims, prove them empty with an initializer Pod and publish it  *)
(* READY; a deletion takes the claims away again.                          *)
(*                                                                         *)
(* An operation holds the Workspace row on one connection while it calls   *)
(* the provider, and commits what it saw to a journal on others.  Three    *)
(* things part it from the row, at any step: its deadline or the end of    *)
(* its process, after which a create that it had sent may still arrive;    *)
(* and the loss of the connection that holds the row, which it does not    *)
(* notice before it publishes.                                             *)
(***************************************************************************)
EXTENDS Naturals, FiniteSets

CONSTANTS
  Workers,
  MaxCreates, \* objects the provider creates
  MaxFaults   \* interrupted and foreign operations, failures, outside deletions,
              \* and connections lost with the row they hold, which count twice

ASSUME BoundsAreNatural ==
  /\ {MaxCreates, MaxFaults} \subseteq Nat
  /\ 0 \notin Workers

VARIABLES
  sstate,  \* the Session: PROVISIONING, READY or CLOSING
  wstate,  \* the Workspace row, NONE before it is reserved
  mounted, \* the Workspace has an attachment
  op,      \* the storage journal of the Workspace
  claims,  \* the provider's volume claims
  pod,     \* the provider's initializer Pod
  created, \* objects created so far; a uid is the number of its creation
  inflight, \* creates on their way whose callers have gone
  lock,    \* the worker that holds the Workspace row, 0 if none does
  worker,  \* workers: where they are, with the journal as they loaded it
  absent,  \* a deletion has reported ABSENT
  faults

rowVars == <<sstate, wstate, mounted, op>>
providerVars == <<claims, pod, created, inflight>>
vars == <<rowVars, providerVars, lock, worker, absent, faults>>

Roles == {"workspace", "state"}
Names == Roles \cup {"pod"}

\* stray: made by a create whose caller did not hold the row any more.
NoObject == [uid |-> 0, phase |-> "ABSENT", deleting |-> FALSE, stray |-> FALSE]
NoProof == [refs |-> [r \in Roles |-> 0], init |-> 0]
NoOp == [saved |-> FALSE, refs |-> [r \in Roles |-> 0], spec |-> FALSE, init |-> 0,
         proof |-> NoProof, deleting |-> FALSE]
Resting == [at |-> "IDLE", kind |-> "NONE", role |-> "workspace", op |-> NoOp,
            bound |-> FALSE, left |-> FALSE, object |-> NoObject]

Rest(w) == worker' = [worker EXCEPT ![w] = Resting]

\* Nobody has the row that w held; whoever took it after w lost it keeps it.
LetGo(w) == lock' = IF lock = w THEN 0 ELSE lock

\* The operation ends, in success or in an error, and lets the row go.
End(w) == Rest(w) /\ LetGo(w)

Faults(n) == faults + n <= MaxFaults /\ faults' = faults + n

-----------------------------------------------------------------------------
(* Reservation and the start of an operation *)

\* A Workspace is reserved, or found reserved, while the Session is being
\* provisioned.  A READY one answers and anything else is a conflict: both
\* change nothing.
ReserveEmpty(w) ==
  /\ worker[w].at = "IDLE"
  /\ sstate = "PROVISIONING" /\ wstate \in {"NONE", "PROVISIONING"}
  /\ wstate' = "PROVISIONING"
  /\ worker' = [worker EXCEPT ![w].at = "LOCK", ![w].kind = "create"]
  /\ UNCHANGED <<sstate, mounted, op, providerVars, lock, absent, faults>>

\* Storage is allocated only for a Workspace that is being provisioned and
\* whose deletion was never asked for.
MayAllocate == wstate = "PROVISIONING" /\ ~op.deleting

\* An initializer may be at work: its specification is journalled, its success
\* is not.
Unproven == op.spec /\ op.proof = NoProof

\* Mutant: a deletion that was interrupted is not taken up again.
MayDeleteOnceMutant ==
  /\ wstate = "DELETING" /\ ~mounted /\ op.saved /\ ~op.deleting /\ ~Unproven

\* Storage is not taken away under an attachment or under an initializer that
\* is not known to be done.
MayDelete == wstate = "DELETING" /\ ~mounted /\ op.saved /\ ~Unproven

MayInitialize == wstate \in {"PROVISIONING", "READY"} /\ ~mounted /\ op.saved /\ ~op.deleting

\* Do takes the row, checks its state, journals the request and loads what
\* earlier operations journalled.
StartCreate(w) ==
  /\ worker[w].at = "LOCK" /\ worker[w].kind = "create" /\ lock = 0
  /\ IF MayAllocate
     THEN /\ op' = [op EXCEPT !.saved = TRUE]
          /\ worker' = [worker EXCEPT ![w].at = "CLAIM", ![w].role = "workspace", ![w].op = op']
          /\ lock' = w
     ELSE Rest(w) /\ UNCHANGED <<op, lock>>
  /\ UNCHANGED <<sstate, wstate, mounted, providerVars, absent, faults>>

StartInitialize(w) ==
  /\ worker[w].at = "LOCK" /\ worker[w].kind = "initialize" /\ lock = 0
  /\ IF MayInitialize /\ wstate # "READY"
     THEN /\ worker' = [worker EXCEPT ![w].at = "CHECK", ![w].op = op]
          /\ lock' = w
     ELSE Rest(w) /\ UNCHANGED lock
  /\ UNCHANGED <<rowVars, providerVars, absent, faults>>

StartDelete(w) ==
  /\ worker[w].at = "IDLE" /\ lock = 0 /\ MayDelete
  /\ op' = [op EXCEPT !.deleting = TRUE]
  /\ worker' = [worker EXCEPT ![w].at = "REMOVE", ![w].kind = "delete", ![w].op = op']
  /\ lock' = w
  /\ UNCHANGED <<sstate, wstate, mounted, providerVars, absent, faults>>

\* Get needs no state, and journals what it finds.
StartGet(w) ==
  /\ worker[w].at = "IDLE" /\ lock = 0 /\ op.saved /\ Faults(1)
  /\ worker' = [worker EXCEPT ![w].at = "CLAIM", ![w].kind = "get", ![w].op = op]
  /\ lock' = w
  /\ UNCHANGED <<rowVars, providerVars, absent>>

-----------------------------------------------------------------------------
(* Claims *)

\* A claim is created once: not when its identity is in the journal.
MayCreate(w) == worker[w].kind = "create" /\ worker[w].op.refs[worker[w].role] = 0

Fresh(stray) == [uid |-> created + 1, phase |-> "PENDING", deleting |-> FALSE, stray |-> stray]

\* The worker decides on the object as it found or created it, which may have
\* changed when it acts.
Seen(w, at, object) == worker' = [worker EXCEPT ![w].at = at, ![w].object = object]

\* The object under the claim's name, found or created.
EnsureClaim(w) ==
  LET role == worker[w].role
  IN  /\ worker[w].at = "CLAIM"
      /\ \/ /\ claims[role].uid # 0
            /\ Seen(w, "BIND", claims[role])
            /\ UNCHANGED <<claims, created, lock>>
         \/ /\ claims[role].uid = 0 /\ MayCreate(w) /\ created < MaxCreates
            /\ claims' = [claims EXCEPT ![role] = Fresh(lock # w)]
            /\ created' = created + 1
            /\ Seen(w, "BIND", Fresh(lock # w))
            /\ UNCHANGED lock
         \/ /\ claims[role].uid = 0 /\ ~MayCreate(w)
            /\ End(w) /\ UNCHANGED <<claims, created>>
      /\ UNCHANGED <<rowVars, pod, inflight, absent, faults>>

\* A claim that is going or lost ends the operation; after both claims a
\* reconciliation goes on to initialize.
AfterClaim(w, role) ==
  IF worker[w].object.deleting \/ worker[w].object.phase = "LOST" THEN End(w)
  ELSE IF role = "workspace"
  THEN /\ worker' = [worker EXCEPT ![w].at = "CLAIM", ![w].role = "state", ![w].object = NoObject]
       /\ UNCHANGED lock
  ELSE /\ worker' = [worker EXCEPT ![w] = IF worker[w].kind = "get" THEN Resting
                       ELSE [Resting EXCEPT !.at = "LOCK", !.kind = "initialize"]]
       /\ LetGo(w)

\* The identity is journalled once and compared afterwards: with what the
\* operation loaded, and by the database with what is there now.
BindClaim(w) ==
  LET role == worker[w].role
      ref == worker[w].op.refs[role]
      uid == worker[w].object.uid
  IN  /\ worker[w].at = "BIND"
      /\ IF ref \in {0, uid} /\ op.refs[role] \in {0, uid}
         THEN op' = [op EXCEPT !.refs[role] = uid] /\ AfterClaim(w, role)
         ELSE UNCHANGED op /\ End(w)
      /\ UNCHANGED <<sstate, wstate, mounted, providerVars, absent, faults>>

-----------------------------------------------------------------------------
(* Initialization *)

Intact(w, role) ==
  /\ worker[w].op.refs[role] # 0 /\ claims[role].uid = worker[w].op.refs[role]
  /\ ~claims[role].deleting /\ claims[role].phase # "LOST"
Bound == \A role \in Roles : claims[role].phase = "BOUND"

\* Both claims are the journalled ones.  The Pod's specification is journalled
\* before the Pod can exist.
CheckClaims(w) ==
  /\ worker[w].at = "CHECK"
  /\ \/ /\ \A role \in Roles : Intact(w, role)
        /\ op' = [op EXCEPT !.spec = TRUE]
        /\ worker' = [worker EXCEPT ![w] = [@ EXCEPT !.at = "POD", !.op.spec = TRUE, !.bound = Bound]]
        /\ UNCHANGED lock
     \/ (\E role \in Roles : ~Intact(w, role)) /\ End(w) /\ UNCHANGED op
  /\ UNCHANGED <<sstate, wstate, mounted, providerVars, absent, faults>>

\* Mutant: a Pod whose creation was not journalled is foreign.
AdoptsMutant(w) == worker[w].op.init = pod.uid

\* A Pod found under the name is the journalled one, or the one whose creation
\* was not journalled yet.
Adopts(w) == worker[w].op.init \in {0, pod.uid}

\* Mutant: readiness needs the proof and not the Pod's absence.
MayPublishMutant(w) == worker[w].op.proof # NoProof /\ worker[w].bound

\* Readiness waits for the exact Pod's absence.
MayPublish(w) == worker[w].op.proof # NoProof /\ worker[w].bound /\ pod.uid = 0

\* A Pod is created once: not when its identity or its success is journalled.
MayCreatePod(w) == pod.uid = 0 /\ worker[w].op.proof = NoProof /\ worker[w].op.init = 0

EnsurePod(w) ==
  /\ worker[w].at = "POD"
  /\ \/ /\ MayPublish(w)
        /\ Seen(w, "PUBLISH", NoObject) /\ UNCHANGED <<pod, created, lock>>
     \/ /\ ~MayPublish(w) /\ MayCreatePod(w) /\ created < MaxCreates
        /\ pod' = Fresh(lock # w) /\ created' = created + 1
        /\ Seen(w, "ADOPT", Fresh(lock # w)) /\ UNCHANGED lock
     \/ /\ ~MayPublish(w) /\ pod.uid = 0 /\ ~MayCreatePod(w)
        /\ End(w) /\ UNCHANGED <<pod, created>>
     \/ /\ ~MayPublish(w) /\ pod.uid # 0
        /\ IF Adopts(w) THEN Seen(w, "ADOPT", pod) /\ UNCHANGED lock ELSE End(w)
        /\ UNCHANGED <<pod, created>>
  /\ UNCHANGED <<rowVars, claims, inflight, absent, faults>>

\* The Pod is journalled before anything is concluded from it; the database
\* refuses a second one.
AdoptPod(w) ==
  LET uid == worker[w].object.uid
  IN  /\ worker[w].at = "ADOPT"
      /\ IF op.init \in {0, uid}
         THEN /\ op' = [op EXCEPT !.init = uid]
              /\ worker' = [worker EXCEPT ![w] = [@ EXCEPT !.at = "JUDGE", !.op.init = uid]]
              /\ UNCHANGED lock
         ELSE UNCHANGED op /\ End(w)
      /\ UNCHANGED <<sstate, wstate, mounted, providerVars, absent, faults>>

Succeeded(w) ==
  LET seen == worker[w].object
  IN  seen.phase = "SUCCEEDED" /\ ~seen.deleting /\ worker[w].bound

ProofOf(w) == [refs |-> worker[w].op.refs, init |-> worker[w].op.init]

\* The proof names the claims and the Pod that succeeded on them; it is
\* journalled before the Pod is deleted, and the database refuses another one.
JudgePod(w) ==
  /\ worker[w].at = "JUDGE"
  /\ \/ /\ worker[w].op.proof # NoProof /\ worker[w].object.phase # "FAILED"
        /\ Seen(w, "DISPOSE", worker[w].object) /\ UNCHANGED <<op, lock>>
     \/ /\ worker[w].op.proof = NoProof /\ Succeeded(w)
        /\ IF op.proof \in {NoProof, ProofOf(w)}
           THEN /\ op' = [op EXCEPT !.proof = ProofOf(w)]
                /\ worker' = [worker EXCEPT ![w] = [@ EXCEPT !.at = "DISPOSE", !.op.proof = ProofOf(w)]]
                /\ UNCHANGED lock
           ELSE UNCHANGED op /\ End(w)
     \/ /\ worker[w].object.phase = "FAILED" \/ (worker[w].op.proof = NoProof /\ ~Succeeded(w))
        /\ End(w) /\ UNCHANGED op
  /\ UNCHANGED <<sstate, wstate, mounted, providerVars, absent, faults>>

\* Delete names the Pod and the version of it that was seen; a Pod that has
\* changed meanwhile is left to the next reconciliation.
DisposePod(w) ==
  /\ worker[w].at = "DISPOSE"
  /\ pod' = IF pod = worker[w].object THEN [pod EXCEPT !.deleting = TRUE] ELSE pod
  /\ End(w)
  /\ UNCHANGED <<rowVars, claims, created, inflight, absent, faults>>

\* publishEmpty commits on the connection that holds the row, or not at all.
Publish(w) ==
  /\ worker[w].at = "PUBLISH"
  /\ wstate' = IF lock = w THEN "READY" ELSE wstate
  /\ End(w)
  /\ UNCHANGED <<sstate, mounted, op, providerVars, absent, faults>>

-----------------------------------------------------------------------------
(* Deletion *)

\* The next claim, or the report after the last one.
AfterRemoval(w, present) ==
  worker' = [worker EXCEPT ![w].at = IF worker[w].role = "workspace" THEN "REMOVE" ELSE "REPORT",
                           ![w].role = "state", ![w].object = NoObject,
                           ![w].left = @ \/ present]

\* Mutant: the claim that is there is the one to delete.
OwnClaimMutant(w) == TRUE

\* The claim that is there is the journalled one, or the first to be journalled.
OwnClaim(w) ==
  LET role == worker[w].role
  IN  {worker[w].op.refs[role], op.refs[role]} \subseteq {0, claims[role].uid}

\* An identity that is not journalled yet is journalled first.
FindClaim(w) ==
  LET role == worker[w].role
      uid == claims[role].uid
  IN  /\ worker[w].at = "REMOVE"
      /\ \/ uid = 0 /\ AfterRemoval(w, FALSE) /\ UNCHANGED <<op, lock>>
         \/ /\ uid # 0
            /\ IF OwnClaim(w)
               THEN /\ op' = [op EXCEPT !.refs[role] = IF @ = 0 THEN uid ELSE @]
                    /\ Seen(w, "DELETE", claims[role]) /\ UNCHANGED lock
               ELSE UNCHANGED op /\ End(w)
      /\ UNCHANGED <<sstate, wstate, mounted, providerVars, absent, faults>>

\* Delete names the claim and the version of it that was seen: a changed one is
\* a conflict, one that has gone is as good as deleted.  A claim that was seen
\* going needs no call.
RemoveClaim(w) ==
  LET role == worker[w].role
      seen == worker[w].object
  IN  /\ worker[w].at = "DELETE"
      /\ \/ /\ seen.deleting \/ claims[role].uid = 0
            /\ AfterRemoval(w, TRUE) /\ UNCHANGED <<claims, lock>>
         \/ /\ ~seen.deleting /\ claims[role] = seen
            /\ claims' = [claims EXCEPT ![role].deleting = TRUE]
            /\ AfterRemoval(w, TRUE) /\ UNCHANGED lock
         \/ /\ ~seen.deleting /\ claims[role].uid # 0 /\ claims[role] # seen
            /\ End(w) /\ UNCHANGED claims
      /\ UNCHANGED <<rowVars, pod, created, inflight, absent, faults>>

ReportDelete(w) ==
  /\ worker[w].at = "REPORT"
  /\ absent' = (absent \/ ~worker[w].left)
  /\ End(w)
  /\ UNCHANGED <<rowVars, providerVars, faults>>

-----------------------------------------------------------------------------
(* Operations and the row they hold *)

\* The create an operation may be waiting for.
Sends(w) ==
  {role \in Roles : /\ worker[w].at = "CLAIM" /\ worker[w].role = role
                    /\ MayCreate(w) /\ claims[role].uid = 0}
  \cup {n \in {"pod"} : worker[w].at = "POD" /\ MayCreatePod(w)}

\* The deadline passes or the process ends.  The row goes at once; a create that
\* was sent may arrive at any later time, or never.
Interrupted(w) ==
  /\ worker[w].at # "IDLE" /\ Faults(1)
  /\ End(w)
  /\ \/ UNCHANGED inflight
     \/ \E n \in Sends(w) : inflight' = [inflight EXCEPT ![n] = @ + 1]
  /\ UNCHANGED <<rowVars, claims, pod, created, absent>>

\* The connection that holds the row is lost, and the operation goes on.
LosesRow(w) ==
  /\ lock = w /\ Faults(2)
  /\ lock' = 0
  /\ UNCHANGED <<rowVars, providerVars, worker, absent>>

-----------------------------------------------------------------------------
(* The provider and the rest of the system *)

\* A create whose caller has gone is carried out, unless its name is taken.
Arrives(n) ==
  /\ inflight[n] > 0
  /\ inflight' = [inflight EXCEPT ![n] = @ - 1]
  /\ LET taken == IF n = "pod" THEN pod.uid # 0 ELSE claims[n].uid # 0
     IN  \/ taken /\ UNCHANGED <<claims, pod, created>>
         \/ /\ ~taken /\ created < MaxCreates /\ created' = created + 1
            /\ IF n = "pod" THEN pod' = Fresh(TRUE) /\ UNCHANGED claims
               ELSE claims' = [claims EXCEPT ![n] = Fresh(TRUE)] /\ UNCHANGED pod
  /\ UNCHANGED <<rowVars, lock, worker, absent, faults>>

Binds(role) ==
  /\ claims[role].phase = "PENDING"
  /\ claims' = [claims EXCEPT ![role].phase = "BOUND"]
  /\ UNCHANGED <<rowVars, pod, created, inflight, lock, worker, absent, faults>>

\* A claim goes when nothing that runs mounts it.
ClaimGoes(role) ==
  /\ claims[role].deleting /\ ~(pod.phase = "PENDING" /\ Bound) /\ ~mounted
  /\ claims' = [claims EXCEPT ![role] = NoObject]
  /\ UNCHANGED <<rowVars, pod, created, inflight, lock, worker, absent, faults>>

PodEnds(phase) ==
  /\ pod.phase = "PENDING" /\ Bound
  /\ phase = "FAILED" => Faults(1)
  /\ phase # "FAILED" => UNCHANGED faults
  /\ pod' = [pod EXCEPT !.phase = phase]
  /\ UNCHANGED <<rowVars, claims, created, inflight, lock, worker, absent>>

PodGoes ==
  /\ pod.deleting /\ pod' = NoObject
  /\ UNCHANGED <<rowVars, claims, created, inflight, lock, worker, absent, faults>>

\* Someone else deletes an object (or a delete that was cut off arrives late), or
\* the volume of a bound claim is lost.
Outside ==
  /\ Faults(1)
  /\ \/ \E role \in Roles :
          /\ claims[role].uid # 0
          /\ \/ claims' = [claims EXCEPT ![role].deleting = TRUE]
             \/ /\ claims[role].phase = "BOUND"
                /\ claims' = [claims EXCEPT ![role].phase = "LOST"]
          /\ UNCHANGED pod
     \/ pod.uid # 0 /\ pod' = [pod EXCEPT !.deleting = TRUE] /\ UNCHANGED claims
  /\ UNCHANGED <<rowVars, created, inflight, lock, worker, absent>>

SessionReady ==
  /\ sstate = "PROVISIONING" /\ wstate = "READY" /\ sstate' = "READY"
  /\ UNCHANGED <<wstate, mounted, op, providerVars, lock, worker, absent, faults>>

Attachment ==
  /\ lock = 0
  /\ \/ sstate = "READY" /\ wstate = "READY" /\ ~mounted /\ mounted' = TRUE
     \/ mounted /\ mounted' = FALSE
  /\ UNCHANGED <<sstate, wstate, op, providerVars, lock, worker, absent, faults>>

Close ==
  /\ lock = 0 /\ wstate \in {"PROVISIONING", "READY"}
  /\ sstate' = "CLOSING" /\ wstate' = "DELETING"
  /\ UNCHANGED <<mounted, op, providerVars, lock, worker, absent, faults>>

-----------------------------------------------------------------------------

Init ==
  /\ sstate = "PROVISIONING" /\ wstate = "NONE" /\ mounted = FALSE /\ op = NoOp
  /\ claims = [role \in Roles |-> NoObject] /\ pod = NoObject /\ created = 0
  /\ inflight = [n \in Names |-> 0]
  /\ lock = 0 /\ worker = [w \in Workers |-> Resting]
  /\ absent = FALSE /\ faults = 0

WorkerStep(w) ==
  \/ ReserveEmpty(w) \/ StartCreate(w) \/ StartInitialize(w) \/ StartDelete(w)
  \/ EnsureClaim(w) \/ BindClaim(w) \/ CheckClaims(w)
  \/ EnsurePod(w) \/ AdoptPod(w) \/ JudgePod(w) \/ DisposePod(w) \/ Publish(w)
  \/ FindClaim(w) \/ RemoveClaim(w) \/ ReportDelete(w)

ProviderStep ==
  \/ \E role \in Roles : Binds(role) \/ ClaimGoes(role)
  \/ PodEnds("SUCCEEDED") \/ PodGoes

Next ==
  \/ \E w \in Workers : WorkerStep(w) \/ StartGet(w) \/ Interrupted(w) \/ LosesRow(w)
  \/ \E n \in Names : Arrives(n)
  \/ ProviderStep \/ PodEnds("FAILED") \/ Outside
  \/ SessionReady \/ Attachment \/ Close

Spec == Init /\ [][Next]_vars

\* Workers reconcile again and again, and the provider gets on.
FairSpec ==
  /\ Spec
  /\ \A w \in Workers : WF_vars(WorkerStep(w))
  /\ WF_vars(ProviderStep)

-----------------------------------------------------------------------------
(* Properties *)

\* Rows, objects and workers are in states the code can give them, and the
\* row is held by a worker that is inside an operation.
TypeOK ==
  /\ sstate \in {"PROVISIONING", "READY", "CLOSING"}
  /\ wstate \in {"NONE", "PROVISIONING", "READY", "DELETING"}
  /\ \A role \in Roles : op.refs[role] \in 0..MaxCreates /\ claims[role].uid \in 0..created
  /\ op.init \in 0..MaxCreates /\ pod.uid \in 0..created /\ created <= MaxCreates
  /\ (wstate = "NONE") => op = NoOp
  /\ \A w \in Workers : lock = w => worker[w].at \notin {"IDLE", "LOCK"}

\* Nothing is there, or what a create made that had outlived its hold on the row.
OnlyStray(object) == object.uid # 0 => object.stray

\* A deletion takes away the claim that the journal names and no other, although
\* a create that was thought lost can put another one under the same name.
DeletesOwn ==
  \A w \in Workers :
    worker[w].at = "DELETE" => op.deleting /\ worker[w].object.uid = op.refs[worker[w].role]

\* A Workspace that became READY has a proof of exactly its claims.  The
\* initializer that gave it is gone; one that mounts the volumes all the same
\* was made by a create that outlived its hold on the row.
ReadyIsProven ==
  wstate = "READY" =>
    /\ op.proof.refs = op.refs /\ op.proof.init = op.init
    /\ \A role \in Roles : op.refs[role] # 0
    /\ pod.uid # op.init /\ OnlyStray(pod)

\* An initializer can always be accounted for: its specification is journalled
\* while it exists, and storage whose deletion was accepted is not mounted by
\* one that still has work to do, unless its create outlived its hold on the row.
InitializerKnown ==
  pod.uid # 0 =>
    /\ op.spec
    /\ op.deleting => op.proof # NoProof \/ pod.stray

\* Once a deletion has reported ABSENT, no operation that holds the row brings a
\* claim back: one that exists was made by a create that outlived its hold.
DeletedStaysDeleted ==
  absent => \A role \in Roles : OnlyStray(claims[role])

\* Interrupted and racing operations leave storage that the journal can account
\* for: a deletion touches only the journalled claims and is final but for
\* creates that outlived their hold on the row, and so is what is known of an
\* initializer.
StorageInv == TypeOK /\ DeletesOwn /\ InitializerKnown /\ DeletedStaysDeleted

\* An object under a name is not the one that the journal has for it.
Foreign ==
  \/ \E role \in Roles : op.refs[role] # 0 /\ claims[role].uid \notin {0, op.refs[role]}
  \/ op.init # 0 /\ pod.uid \notin {0, op.init}

\* What stops a provisioning for good: an operator has to look.
Stopped ==
  \/ wstate = "DELETING" \/ Foreign
  \/ pod.phase = "FAILED"
  \/ op.init # 0 /\ pod.uid = 0 /\ op.proof = NoProof
  \/ \E role \in Roles : claims[role].phase = "LOST" \/ (op.refs[role] # 0 /\ claims[role].uid = 0)

\* A provisioning intent that workers keep reconciling ends in a READY
\* Workspace, whatever was interrupted on the way.
ProvisioningEnds == wstate = "PROVISIONING" ~> (wstate = "READY" \/ Stopped)

\* An accepted deletion takes every claim away, unless it meets an object that
\* is not the journalled one, or an initialization that lost its row lets an
\* initializer loose after it: both are left to an operator.
DeletionEnds == op.deleting ~> (absent \/ Foreign \/ Unproven)
=============================================================================
