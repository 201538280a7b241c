--------------------------- MODULE ComputeMonitor ---------------------------
(***************************************************************************)
(* The compute of one Session: reservation of a SandboxBinding per         *)
(* Attempt, creation of the provider object, the leased monitor that       *)
(* observes and releases it, recovery of lost compute, replacement before  *)
(* execution started, and release at Session suspension.                   *)
(*                                                                         *)
(* A worker calls the provider outside any transaction, so what it loaded  *)
(* may be stale when it acts and when it records.  Each database           *)
(* transaction and each provider call is one step of a worker.  The binding*)
(* version a worker loaded is kept as the flag `fresh': the version still  *)
(* matches exactly when nobody has written the binding since.              *)
(*                                                                         *)
(* An Execution is named by its generation and a binding by its Attempt    *)
(* (both are unique keys), and a binding has at most one release operation.*)
(* Native process suspension is left out: the monitor refuses it.          *)
(***************************************************************************)
EXTENDS Integers

CONSTANTS
  Attempts,       \* Attempt identities, each with its SandboxBinding
  Workers,        \* monitor workers, in any number of processes
  None,           \* SQL NULL
  MaxGeneration,  \* bound on the Executions of the Session
  MaxCreated,     \* provider objects ever created; beyond, no capacity is left
  MaxFaults       \* bound on crashes, outages, lost answers and lost objects

ASSUME MonitorConstants ==
  /\ None \notin Attempts /\ None \notin Nat
  /\ {"NONE", "PENDING", "COMPLETED"} \cap Workers = {}
  /\ MaxGeneration \in Nat /\ MaxCreated \in Nat /\ MaxFaults \in Nat

VARIABLES
  session,   \* state and execution_generation of the Session row
  exec,      \* the latest Execution: state, deadline passed, harness engaged
  attempt,   \* Attempt rows: state and generation
  binding,   \* sandbox_bindings rows: recorded state, provider reference
  cleanup,   \* the release intent of a binding and its outcome
  recover,   \* the sandbox.recover work of a binding: its code, or COMPLETED
  work,      \* the sandbox.reconcile work of a binding: state or lease owner
  object,    \* provider object of a binding's name: uid and phase, or None
  created,   \* uids handed out by the provider
  worker,    \* what each worker is doing
  faults

rows == <<session, exec, attempt>>
saved == <<binding, cleanup, recover, work>>
world == <<object, created>>
vars == <<session, exec, attempt, binding, cleanup, recover, work, object,
          created, worker, faults>>

Uids == 1..MaxCreated

\* PENDING stands for PENDING, ACQUIRING and STARTING; ENDED for every final
\* state but REPLACED.
AttemptRow == [state: {"ABSENT", "PENDING", "RUNNING", "REPLACED", "ENDED"},
               generation: Nat]

\* A recovery observation is FENCED, MISSING or SUSPECT; SUSPECT stands for
\* every code but FENCED_COMPUTE and BOUND_COMPUTE_MISSING.
Recoveries == {"FENCED", "MISSING", "SUSPECT"}
Observations == {"NONE", "UNKNOWN", "PROVISIONING", "READY", "RELEASING",
                 "RELEASED"} \cup Recoveries

WorkerRow == [pc: {"idle", "load", "observe", "reserve", "create", "bind",
                   "begin", "delete", "confirm", "record", "finish"},
              a: Attempts \cup {None},
              leased: BOOLEAN,          \* holds a claim of the work queue
              bound: BOOLEAN,           \* the loaded intent had a reference
              fresh: BOOLEAN,           \* the binding is as it was loaded
              ref: Uids \cup {None},    \* reference in hand during Acquire
              obs: Observations]

TypeOK ==
  /\ session \in [state: {"IDLE", "ACTIVE", "DEGRADED", "SUSPENDED"},
                  generation: Nat]
  /\ exec \in [state: {"NONE", "MATERIALIZING", "RUNNING", "CANCELLING",
                       "ENDED"}, overdue: BOOLEAN, engaged: BOOLEAN]
  /\ attempt \in [Attempts -> AttemptRow]
  /\ binding \in [Attempts ->
       [state: {"ABSENT", "REQUESTED", "UNKNOWN", "PROVISIONING", "READY",
                "RELEASING", "RELEASED"}, ref: Uids \cup {None}]]
  /\ cleanup \in [Attempts -> {"NONE", "PENDING", "CONFIRMED", "QUARANTINED"}]
  /\ recover \in [Attempts -> {"NONE", "COMPLETED"} \cup Recoveries]
  /\ work \in [Attempts -> {"NONE", "PENDING", "COMPLETED"} \cup Workers]
  /\ object \in [Attempts ->
       [uid: Uids, phase: {"PENDING", "READY", "FAILED", "DELETING"}]
         \cup {None}]
  /\ created \in 0..MaxCreated
  /\ worker \in [Workers -> WorkerRow]
  /\ faults \in 0..MaxFaults

Idle == [pc |-> "idle", a |-> None, leased |-> FALSE, bound |-> FALSE,
         fresh |-> FALSE, ref |-> None, obs |-> "NONE"]

Init ==
  /\ session = [state |-> "IDLE", generation |-> 0]
  /\ exec = [state |-> "NONE", overdue |-> FALSE, engaged |-> FALSE]
  /\ attempt = [a \in Attempts |-> [state |-> "ABSENT", generation |-> 0]]
  /\ binding = [a \in Attempts |-> [state |-> "ABSENT", ref |-> None]]
  /\ cleanup = [a \in Attempts |-> "NONE"]
  /\ recover = [a \in Attempts |-> "NONE"]
  /\ work = [a \in Attempts |-> "NONE"]
  /\ object = [a \in Attempts |-> None]
  /\ created = 0
  /\ worker = [w \in Workers |-> Idle]
  /\ faults = 0

-----------------------------------------------------------------------------
(* What a transaction reads.                                               *)

IsCurrent(a) ==
  /\ attempt[a].state \in {"PENDING", "RUNNING"}
  /\ attempt[a].generation = session.generation

\* lockSandboxFence: this Attempt may still work for the Session.
Current(a) ==
  /\ session.state = "ACTIVE"
  /\ exec.state \in {"MATERIALIZING", "RUNNING"}
  /\ ~exec.overdue
  /\ IsCurrent(a)

\* loadCompute: release is desired once the binding has a release operation,
\* and authorized while its cleanup intent is not quarantined.
ReleaseDesired(a) == cleanup[a] # "NONE"
ReleaseAuthorized(a) == cleanup[a] \in {"PENDING", "CONFIRMED"}

\* getOwned and Get: what the provider answers about a binding's object.
Status(a) ==
  IF object[a] = None THEN "NOT_FOUND"
  ELSE IF binding[a].ref \notin {None, object[a].uid} THEN "INTEGRITY"
  ELSE CASE object[a].phase = "DELETING" -> "RELEASING"
         [] object[a].phase = "FAILED" -> "FAILED"
         [] object[a].phase = "PENDING" -> "PROVISIONING"
         [] object[a].phase = "READY" ->
              IF binding[a].ref = None THEN "UNKNOWN" ELSE "READY"

-----------------------------------------------------------------------------
(* Steps of a worker.                                                      *)

At(w, pc) == worker[w].pc = pc

Goto(w, pc) == worker' = [worker EXCEPT ![w].pc = pc]

Become(w, row) == worker' = [worker EXCEPT ![w] = row]

\* A worker takes up a binding.
Started(pc, a, leased) ==
  [pc |-> pc, a |-> a, leased |-> leased, bound |-> FALSE, fresh |-> FALSE,
   ref |-> None, obs |-> "NONE"]

\* It knows the binding as it is now.
Loaded(r, pc, obs) ==
  [pc |-> pc, a |-> r.a, leased |-> r.leased,
   bound |-> binding[r.a].ref # None, fresh |-> TRUE, ref |-> None, obs |-> obs]

\* It holds a reference on its way through Acquire.
Holding(r, pc, ref) ==
  [pc |-> pc, a |-> r.a, leased |-> r.leased, bound |-> r.bound,
   fresh |-> r.fresh, ref |-> ref, obs |-> "NONE"]

\* The provider part of Reconcile is over, with this observation.
Reported(r, obs) ==
  [pc |-> "record", a |-> r.a, leased |-> r.leased, bound |-> FALSE,
   fresh |-> r.fresh, ref |-> None, obs |-> obs]
Report(w, obs) == Become(w, Reported(worker[w], obs))

\* Reconcile is over, and this observation was recorded.
Finished(r, obs) ==
  [pc |-> "finish", a |-> r.a, leased |-> r.leased, bound |-> FALSE,
   fresh |-> FALSE, ref |-> None, obs |-> obs]
GiveUp(w) == Become(w, Finished(worker[w], "NONE"))

\* state_version + 1 on a binding: what anybody loaded before is stale.
Outdate(ws, a) ==
  [v \in Workers |->
     IF ws[v].a = a THEN [ws[v] EXCEPT !.fresh = FALSE] ELSE ws[v]]

Fault == faults < MaxFaults /\ faults' = faults + 1

\* A call that fails, with nothing done: unavailable, timed out or refused; or
\* unsupported, invalid or in doubt of the object, which asks for recovery.
Unavailable(w) ==
  /\ worker[w].pc \in {"observe", "reserve", "create", "bind", "begin",
                       "delete", "confirm"}
  /\ Fault
  /\ \E obs \in {"UNKNOWN", "SUSPECT"} : Report(w, obs)
  /\ UNCHANGED <<rows, saved, world>>

\* LoadCompute or RecordCompute fails: the work is rescheduled.
StoreError(w) ==
  /\ worker[w].pc \in {"load", "record"}
  /\ Fault
  /\ GiveUp(w)
  /\ UNCHANGED <<rows, saved, world>>

\* RunBatch and ClaimCompute: pending work, or work whose lease expired.
ClaimCompute(w, a) ==
  /\ At(w, "idle")
  /\ work[a] \in {"PENDING"} \cup Workers
  /\ work' = [work EXCEPT ![a] = w]
  /\ Become(w, Started("load", a, TRUE))
  /\ UNCHANGED <<rows, binding, cleanup, recover, world, faults>>

\* The transport host reconciles release without a claim (Host.maintain).
MaintainRelease(w, a) ==
  /\ At(w, "idle")
  /\ ReleaseDesired(a)
  /\ Become(w, Started("load", a, FALSE))
  /\ UNCHANGED <<rows, saved, world, faults>>

\* Reconcile up to its first provider call.
LoadCompute(w) ==
  LET a == worker[w].a
      loaded(pc, obs) == Become(w, Loaded(worker[w], pc, obs))
  IN  /\ At(w, "load")
      /\ \/ ~ReleaseDesired(a) /\ ~Current(a) /\ loaded("record", "FENCED")
         \/ ~ReleaseDesired(a) /\ Current(a) /\ loaded("observe", "NONE")
         \/ ReleaseDesired(a) /\ ReleaseAuthorized(a) /\ loaded("begin", "NONE")
         \/ ReleaseDesired(a) /\ ~ReleaseAuthorized(a) /\ loaded("finish", "NONE")
      /\ UNCHANGED <<rows, saved, world, faults>>

\* CheckCompute refuses running compute: nothing is observed or recorded.
AuthorityDenied(w) ==
  /\ At(w, "load")
  /\ ~ReleaseDesired(worker[w].a) /\ Current(worker[w].a)
  /\ Fault
  /\ GiveUp(w)
  /\ UNCHANGED <<rows, saved, world>>

\* Mutant: a bound object that is not found is taken for an outage.
ObserveMutant(w) ==
  LET a == worker[w].a
      status == Status(a)
  IN  /\ At(w, "observe")
      /\ \/ status = "NOT_FOUND" /\ worker[w].bound /\ Report(w, "UNKNOWN")
         \/ status = "NOT_FOUND" /\ ~worker[w].bound /\ Goto(w, "reserve")
         \/ status \in {"PROVISIONING", "READY", "UNKNOWN"} /\ Report(w, status)
         \/ status \in {"INTEGRITY", "FAILED", "RELEASING"} /\ Report(w, "SUSPECT")
      /\ UNCHANGED <<rows, saved, world, faults>>

\* running: the answer of Get decides.
Observe(w) ==
  LET a == worker[w].a
      status == Status(a)
  IN  /\ At(w, "observe")
      /\ \/ status = "NOT_FOUND" /\ worker[w].bound /\ Report(w, "MISSING")
         \/ status = "NOT_FOUND" /\ ~worker[w].bound /\ Goto(w, "reserve")
         \/ status \in {"PROVISIONING", "READY", "UNKNOWN"} /\ Report(w, status)
         \/ status \in {"INTEGRITY", "FAILED", "RELEASING"} /\ Report(w, "SUSPECT")
      /\ UNCHANGED <<rows, saved, world, faults>>

\* READY compute whose effective state cannot be verified.
Unverified(w) ==
  /\ At(w, "observe")
  /\ Status(worker[w].a) = "READY"
  /\ Fault
  /\ Report(w, "SUSPECT")
  /\ UNCHANGED <<rows, saved, world>>

\* The Execution worker (not part of the repository) starts the first Acquire
\* of a new Attempt.  It records no observation: `fresh' is never set.
StartAcquire(w, a) ==
  /\ At(w, "idle")
  /\ Current(a)
  /\ Become(w, Started("reserve", a, FALSE))
  /\ UNCHANGED <<rows, saved, world, faults>>

\* Acquire up to Reserve: a fenced Attempt or a released binding is refused.  A
\* request past its deadline gets another error, which RecordCompute discards
\* like any other observation of an Attempt that stopped being current.
Reserve(w) ==
  LET a == worker[w].a
  IN  /\ At(w, "reserve")
      /\ \/ /\ ~Current(a) \/ ReleaseDesired(a)
            /\ Report(w, "UNKNOWN")
            /\ UNCHANGED <<binding, work>>
         \/ /\ Current(a)
            /\ ~ReleaseDesired(a)
            /\ binding' = [binding EXCEPT ![a].state =
                             IF @ = "ABSENT" THEN "REQUESTED" ELSE @]
            /\ work' = [work EXCEPT ![a] = IF @ = "NONE" THEN "PENDING" ELSE @]
            /\ Become(w, Holding(worker[w], "create", binding[a].ref))
      /\ UNCHANGED <<rows, cleanup, recover, world, faults>>

\* The rest of Acquire up to BindReference: create the object by name, or take
\* the one that exists.
CreateObject(w) ==
  LET a == worker[w].a
      ref == worker[w].ref
  IN  /\ At(w, "create")
      /\ \/ /\ object[a] = None /\ ref # None
            /\ Report(w, "UNKNOWN")
            /\ UNCHANGED world
         \/ /\ object[a] = None /\ ref = None /\ created = MaxCreated
            /\ Report(w, "UNKNOWN")
            /\ UNCHANGED world
         \/ /\ object[a] = None /\ ref = None /\ created < MaxCreated
            /\ created' = created + 1
            /\ object' = [object EXCEPT ![a] =
                 [uid |-> created + 1, phase |-> "PENDING"]]
            /\ Become(w, Holding(worker[w], "bind", created + 1))
         \/ /\ object[a] # None /\ object[a].phase = "DELETING"
            /\ Report(w, "UNKNOWN")
            /\ UNCHANGED world
         \/ /\ object[a] # None /\ object[a].phase # "DELETING"
            /\ IF ref \notin {None, object[a].uid}
               THEN Report(w, "SUSPECT")
               ELSE Become(w, Holding(worker[w], "bind", object[a].uid))
            /\ UNCHANGED world
      /\ UNCHANGED <<rows, saved, faults>>

\* The object is created and the answer is lost.
CreateAnswerLost(w) ==
  LET a == worker[w].a
  IN  /\ At(w, "create")
      /\ object[a] = None /\ worker[w].ref = None
      /\ created < MaxCreated
      /\ Fault
      /\ created' = created + 1
      /\ object' = [object EXCEPT ![a] =
           [uid |-> created + 1, phase |-> "PENDING"]]
      /\ Report(w, "UNKNOWN")
      /\ UNCHANGED <<rows, saved>>

\* A reference is bound once, also for an Attempt fenced in the meantime.
BindReference(w) ==
  LET a == worker[w].a
      ref == worker[w].ref
  IN  /\ At(w, "bind")
      /\ \/ /\ binding[a].ref = None
            /\ binding' = [binding EXCEPT ![a].ref = ref]
            /\ worker' = Outdate([worker EXCEPT ![w] =
                                   Reported(worker[w], "PROVISIONING")], a)
         \/ /\ binding[a].ref = ref
            /\ Report(w, "PROVISIONING")
            /\ UNCHANGED binding
         \/ /\ binding[a].ref \notin {None, ref}
            /\ Report(w, "SUSPECT")
            /\ UNCHANGED binding
      /\ UNCHANGED <<rows, cleanup, recover, work, world, faults>>

\* Mutant: a fenced binding cannot be released.
MayReleaseMutant(a) == Current(a)

\* BeginOperation: work on current compute, or an authorized cleanup.
MayRelease(a) == Current(a) \/ ReleaseAuthorized(a)

\* release: the cleanup intent is checked again.
BeginOperation(w) ==
  LET a == worker[w].a
  IN  /\ At(w, "begin")
      /\ IF MayRelease(a) THEN Goto(w, "delete")
                           ELSE Report(w, "UNKNOWN")
      /\ UNCHANGED <<rows, saved, world, faults>>

\* Release: foreground deletion of exactly the bound object.
DeleteObject(w) ==
  LET a == worker[w].a
  IN  /\ At(w, "delete")
      /\ \/ /\ Status(a) = "NOT_FOUND"
            /\ Goto(w, "confirm")
            /\ UNCHANGED object
         \/ /\ Status(a) = "INTEGRITY"
            /\ Report(w, "SUSPECT")
            /\ UNCHANGED object
         \/ /\ Status(a) \notin {"NOT_FOUND", "INTEGRITY"}
            /\ object' = [object EXCEPT ![a].phase = "DELETING"]
            /\ Goto(w, "confirm")
      /\ UNCHANGED <<rows, saved, created, faults>>

\* Mutant: an object that is being deleted counts as released.
ReleaseOutcomeMutant(status) ==
  CASE status \in {"NOT_FOUND", "RELEASING"} -> "RELEASED"
    [] status = "INTEGRITY" -> "SUSPECT"
    [] OTHER -> "RELEASING"

\* Acceptance proves nothing: only a later NotFound confirms the release.
ReleaseOutcome(status) ==
  CASE status = "NOT_FOUND" -> "RELEASED"
    [] status = "INTEGRITY" -> "SUSPECT"
    [] OTHER -> "RELEASING"

ConfirmRelease(w) ==
  /\ At(w, "confirm")
  /\ Report(w, ReleaseOutcome(Status(worker[w].a)))
  /\ UNCHANGED <<rows, saved, world, faults>>

\* Mutant: an Execution that materializes does not count.
DegradedMutant(a) ==
  IF session.state = "ACTIVE" /\ IsCurrent(a) /\ exec.state = "RUNNING"
  THEN [session EXCEPT !.state = "DEGRADED"] ELSE session

\* Only the current Attempt of a working Execution degrades its Session.
Degraded(a) ==
  IF /\ session.state = "ACTIVE"
     /\ IsCurrent(a)
     /\ exec.state \in {"MATERIALIZING", "RUNNING"}
  THEN [session EXCEPT !.state = "DEGRADED"] ELSE session

\* recordComputeRecovery for a binding whose compute should run: one recovery
\* per binding, which degrades the Session of the current Attempt and, if the
\* object is known exactly, orders its release.
OpenRecovery(a, obs) ==
  IF recover[a] # "NONE" THEN UNCHANGED <<session, cleanup, recover>>
  ELSE /\ recover' = [recover EXCEPT ![a] = obs]
       /\ session' = Degraded(a)
       /\ cleanup' = IF binding[a].ref = None THEN cleanup
                     ELSE [cleanup EXCEPT ![a] = "PENDING"]

\* The conditions RecordCompute checks again before it writes.
Recordable(w) ==
  LET a == worker[w].a
  IN  /\ worker[w].fresh
      /\ IF ReleaseDesired(a) THEN ReleaseAuthorized(a)
         ELSE Current(a) <=> worker[w].obs # "FENCED"

\* Every recovery observation has state UNKNOWN.
RecordedState(obs) == IF obs \in Recoveries THEN "UNKNOWN" ELSE obs

\* RecordCompute, in one transaction with recovery and cleanup.
RecordCompute(w) ==
  LET a == worker[w].a
      obs == worker[w].obs
  IN  /\ At(w, "record")
      /\ Recordable(w)
      /\ binding' = [binding EXCEPT ![a].state = RecordedState(obs)]
      /\ worker' = Outdate([worker EXCEPT ![w] = Finished(worker[w], obs)], a)
      /\ \/ /\ obs \in Recoveries /\ ~ReleaseDesired(a)
            /\ OpenRecovery(a, obs)
         \/ /\ obs \in Recoveries /\ ReleaseDesired(a)
            /\ recover' = [recover EXCEPT ![a] = IF @ = "NONE" THEN obs ELSE @]
            /\ cleanup' = [cleanup EXCEPT ![a] =
                             IF @ = "PENDING" THEN "QUARANTINED" ELSE @]
            /\ UNCHANGED session
         \/ /\ obs = "RELEASED"
            /\ cleanup' = [cleanup EXCEPT ![a] =
                             IF @ = "PENDING" THEN "CONFIRMED" ELSE @]
            /\ UNCHANGED <<session, recover>>
         \/ /\ obs \notin Recoveries \cup {"RELEASED"}
            /\ UNCHANGED <<session, cleanup, recover>>
      /\ UNCHANGED <<exec, attempt, work, world, faults>>

\* Anything changed since the intent was loaded: nothing is written.
RecordConflict(w) ==
  /\ At(w, "record")
  /\ ~Recordable(w)
  /\ GiveUp(w)
  /\ UNCHANGED <<rows, saved, world, faults>>

\* Only a confirmed release ends the monitoring of a binding.
Completes(obs) == obs = "RELEASED"

\* FinishCompute: the lease holder completes or reschedules the work; anybody
\* else is refused, and an expired lease is left as Crash leaves it.
FinishCompute(w) ==
  LET a == worker[w].a
  IN  /\ At(w, "finish")
      /\ work' = IF worker[w].leased /\ work[a] = w
                 THEN [work EXCEPT ![a] = IF Completes(worker[w].obs)
                                          THEN "COMPLETED" ELSE "PENDING"]
                 ELSE work
      /\ Become(w, Idle)
      /\ UNCHANGED <<rows, binding, cleanup, recover, world, faults>>

\* The process stops; its lease stays until it expires.
Crash(w) ==
  /\ ~At(w, "idle")
  /\ Fault
  /\ Become(w, Idle)
  /\ UNCHANGED <<rows, saved, world>>

-----------------------------------------------------------------------------
(* Other transactions on the same rows.                                    *)

\* RecoverExpiredAgentd: the credentials of a running sandbox expired.
RecoverExpiredAgentd(a) ==
  /\ binding[a].ref # None
  /\ ~ReleaseDesired(a)
  /\ binding' = [binding EXCEPT ![a].state = "UNKNOWN"]
  /\ OpenRecovery(a, "SUSPECT")
  /\ worker' = Outdate(worker, a)
  /\ UNCHANGED <<exec, attempt, work, world, faults>>

\* Mutant: a recovery that was opened is enough.
ReplaceableMutant(a) ==
  /\ session.state = "DEGRADED"
  /\ exec.state = "MATERIALIZING" /\ ~exec.overdue /\ ~exec.engaged
  /\ IsCurrent(a) /\ attempt[a].state = "PENDING"
  /\ binding[a].ref # None
  /\ recover[a] \in Recoveries

\* ReplaceDeleted: the compute was deleted under an Attempt that had not
\* started to execute, and its absence is confirmed.
Replaceable(a) ==
  /\ session.state = "DEGRADED"
  /\ exec.state = "MATERIALIZING" /\ ~exec.overdue /\ ~exec.engaged
  /\ IsCurrent(a) /\ attempt[a].state = "PENDING"
  /\ binding[a].state = "RELEASED" /\ binding[a].ref # None
  /\ cleanup[a] = "CONFIRMED"
  /\ recover[a] = "MISSING"

\* Mutant: the row of the lost Attempt is not kept.
ReplacedByMutant(a, b) ==
  [attempt EXCEPT ![a].state = "ABSENT", ![b] =
     [state |-> "PENDING", generation |-> session.generation]]

ReplacedBy(a, b) ==
  [attempt EXCEPT ![a].state = "REPLACED", ![b] =
     [state |-> "PENDING", generation |-> session.generation]]

\* ReplaceDeleted, then Reconcile of the new binding without a claim.
ReplaceDeleted(w, a, b) ==
  /\ At(w, "idle")
  /\ Replaceable(a)
  /\ attempt[b].state = "ABSENT"
  /\ session' = [session EXCEPT !.state = "ACTIVE"]
  /\ attempt' = ReplacedBy(a, b)
  /\ binding' = [binding EXCEPT ![b].state = "REQUESTED"]
  /\ work' = [work EXCEPT ![b] = "PENDING"]
  /\ recover' = [recover EXCEPT ![a] = "COMPLETED"]
  /\ Become(w, Started("load", b, FALSE))
  /\ UNCHANGED <<exec, cleanup, world, faults>>

\* Mutant: compute in an unknown state is taken for gone.
RetainedMutant ==
  {a \in Attempts : binding[a].state \notin {"ABSENT", "RELEASED", "UNKNOWN"}}

Retained == {a \in Attempts : binding[a].state \notin {"ABSENT", "RELEASED"}}

\* Suspend: the Session gives up all of its compute, or is refused.  Its
\* checkpoint inputs are left out.
Suspend ==
  LET ordered == {a \in Retained : ~ReleaseDesired(a)}
  IN  /\ session.state = "IDLE"
      /\ \A a \in Retained :
           /\ binding[a].ref # None
           /\ ReleaseDesired(a) => ReleaseAuthorized(a)
      /\ session' = [session EXCEPT !.state = "SUSPENDED"]
      /\ cleanup' = [a \in Attempts |->
                       IF a \in ordered THEN "PENDING" ELSE cleanup[a]]
      /\ worker' = [w \in Workers |->
           IF worker[w].a \in ordered THEN [worker[w] EXCEPT !.fresh = FALSE]
                                      ELSE worker[w]]
      /\ UNCHANGED <<exec, attempt, binding, recover, work, world, faults>>

-----------------------------------------------------------------------------
(* The Execution's own progress (SessionFence), seen from here.            *)

Admit ==
  /\ session.state = "IDLE"
  /\ session.generation < MaxGeneration
  /\ session' = [state |-> "ACTIVE", generation |-> session.generation + 1]
  /\ exec' = [state |-> "MATERIALIZING", overdue |-> FALSE, engaged |-> FALSE]
  /\ UNCHANGED <<attempt, saved, world, worker, faults>>

AddAttempt(a) ==
  /\ session.state = "ACTIVE"
  /\ exec.state = "MATERIALIZING"
  /\ attempt[a].state = "ABSENT"
  /\ \A b \in Attempts : ~IsCurrent(b)
  /\ attempt' = [attempt EXCEPT ![a] =
       [state |-> "PENDING", generation |-> session.generation]]
  /\ UNCHANGED <<session, exec, saved, world, worker, faults>>

\* A harness is bound or a command dispatched to READY compute.
Engage(a) ==
  /\ Current(a)
  /\ binding[a].state = "READY"
  /\ exec.state = "MATERIALIZING" /\ ~exec.engaged
  /\ exec' = [exec EXCEPT !.engaged = TRUE]
  /\ UNCHANGED <<session, attempt, saved, world, worker, faults>>

Run(a) ==
  /\ Current(a)
  /\ exec.state = "MATERIALIZING" /\ exec.engaged
  /\ exec' = [exec EXCEPT !.state = "RUNNING"]
  /\ attempt' = [attempt EXCEPT ![a].state = "RUNNING"]
  /\ UNCHANGED <<session, saved, world, worker, faults>>

Cancel ==
  /\ exec.state \in {"MATERIALIZING", "RUNNING"}
  /\ exec' = [exec EXCEPT !.state = "CANCELLING"]
  /\ UNCHANGED <<session, attempt, saved, world, worker, faults>>

Expire ==
  /\ exec.state \in {"MATERIALIZING", "RUNNING"} /\ ~exec.overdue
  /\ exec' = [exec EXCEPT !.overdue = TRUE]
  /\ UNCHANGED <<session, attempt, saved, world, worker, faults>>

\* The Execution ends with its Attempt and gives the Session back.
Finish ==
  /\ session.state = "ACTIVE"
  /\ exec.state \in {"RUNNING", "CANCELLING"}
  /\ session' = [session EXCEPT !.state = "IDLE"]
  /\ exec' = [state |-> "ENDED", overdue |-> FALSE, engaged |-> FALSE]
  /\ attempt' = [a \in Attempts |->
       IF IsCurrent(a) THEN [attempt[a] EXCEPT !.state = "ENDED"]
                       ELSE attempt[a]]
  /\ UNCHANGED <<saved, world, worker, faults>>

-----------------------------------------------------------------------------
(* The provider's side: an object becomes ready, fails or disappears.      *)

Ready(a) ==
  /\ object[a] # None /\ object[a].phase = "PENDING"
  /\ object' = [object EXCEPT ![a].phase = "READY"]
  /\ UNCHANGED <<rows, saved, created, worker, faults>>

Fail(a) ==
  /\ object[a] # None /\ object[a].phase \in {"PENDING", "READY"}
  /\ Fault
  /\ object' = [object EXCEPT ![a].phase = "FAILED"]
  /\ UNCHANGED <<rows, saved, created, worker>>

Lose(a) ==
  /\ object[a] # None /\ object[a].phase # "DELETING"
  /\ Fault
  /\ object' = [object EXCEPT ![a] = None]
  /\ UNCHANGED <<rows, saved, created, worker>>

Finalize(a) ==
  /\ object[a] # None /\ object[a].phase = "DELETING"
  /\ object' = [object EXCEPT ![a] = None]
  /\ UNCHANGED <<rows, saved, created, worker, faults>>

-----------------------------------------------------------------------------
Reconcile(w) ==
  \/ LoadCompute(w) \/ Observe(w) \/ Reserve(w) \/ CreateObject(w)
  \/ BindReference(w) \/ BeginOperation(w) \/ DeleteObject(w)
  \/ ConfirmRelease(w) \/ RecordCompute(w) \/ RecordConflict(w)
  \/ FinishCompute(w)

Next ==
  \/ \E w \in Workers :
       \/ Reconcile(w)
       \/ Unavailable(w) \/ StoreError(w) \/ AuthorityDenied(w)
       \/ Unverified(w) \/ CreateAnswerLost(w) \/ Crash(w)
       \/ \E a \in Attempts :
            ClaimCompute(w, a) \/ MaintainRelease(w, a) \/ StartAcquire(w, a)
       \/ \E a, b \in Attempts : ReplaceDeleted(w, a, b)
  \/ \E a \in Attempts :
       \/ RecoverExpiredAgentd(a) \/ AddAttempt(a) \/ Engage(a) \/ Run(a)
       \/ Ready(a) \/ Fail(a) \/ Lose(a) \/ Finalize(a)
  \/ Suspend \/ Admit \/ Cancel \/ Expire \/ Finish

Spec == Init /\ [][Next]_vars

\* A worker that runs finishes its reconciliation, the queue hands out its
\* oldest work first, and the provider completes a deletion it accepted.
Fairness ==
  /\ \A w \in Workers : WF_vars(Reconcile(w))
  /\ \A a \in Attempts : SF_vars(\E w \in Workers : ClaimCompute(w, a))
  /\ \A a \in Attempts : WF_vars(Finalize(a))

FairSpec == Spec /\ Fairness

-----------------------------------------------------------------------------
(* Properties.                                                             *)

\* A confirmed cleanup means that the very object the binding owned is gone
\* (ADR-0017: cleanup is confirmed in the transaction that records physical
\* absence), whatever stale workers still do under the same name.
ConfirmedIsGone ==
  \A a \in Attempts : cleanup[a] = "CONFIRMED" =>
    /\ binding[a].ref # None
    /\ object[a] # None => object[a].uid # binding[a].ref

\* Authority to release and authority to go on working never coexist: the
\* recovery that orders a release also takes the Attempt its fence.
ReleaseExcludesWork ==
  \A a \in Attempts : ReleaseDesired(a) => ~Current(a)

\* A degraded Session always has open recovery work on its current Attempt, so
\* it can be found and recovered.
DegradedHasRecovery ==
  session.state = "DEGRADED" =>
    \E a \in Attempts : IsCurrent(a) /\ recover[a] \in Recoveries

\* Monitoring ends only when the release is confirmed.
MonitoredUntilReleased ==
  \A a \in Attempts : binding[a].state # "ABSENT" =>
    /\ work[a] # "NONE"
    /\ work[a] = "COMPLETED" => cleanup[a] = "CONFIRMED"

\* A suspended Session leaves no object it owns without an ordered release,
\* also when a worker creates or binds it while the Session is suspended.
SuspendedOrdersRelease ==
  session.state = "SUSPENDED" =>
    \A a \in Attempts :
      object[a] # None /\ object[a].uid = binding[a].ref =>
        cleanup[a] \in {"PENDING", "QUARANTINED"}

\* One Execution never has two bound objects at a time: an Attempt is replaced
\* only when its own object is gone for good.
OneComputePerExecution ==
  \A a, b \in Attempts :
    /\ object[a] # None /\ object[a].uid = binding[a].ref
    /\ object[b] # None /\ object[b].uid = binding[b].ref
    /\ attempt[a].generation = attempt[b].generation
    => a = b

-----------------------------------------------------------------------------
(* The invariant the safety properties rest on.                            *)

\* No object but a later one can take the place of the object a binding owned.
Gone(a) == object[a] # None => object[a].uid # binding[a].ref

\* What the rows of Session, Execution and Attempts say together.
EpochInv ==
  /\ session.generation = 0 <=> exec.state = "NONE"
  /\ session.state \in {"ACTIVE", "DEGRADED"} <=> exec.state \notin {"NONE", "ENDED"}
  /\ \A a \in Attempts :
       /\ attempt[a].generation <= session.generation
       /\ attempt[a].state \in {"PENDING", "RUNNING"} =>
            /\ attempt[a].generation = session.generation
            /\ exec.state \notin {"NONE", "ENDED"}
       /\ attempt[a].state = "ENDED" /\ attempt[a].generation = session.generation
            => exec.state = "ENDED"
  /\ \A a, b \in Attempts :
       /\ "ABSENT" \notin {attempt[a].state, attempt[b].state}
       /\ attempt[a].generation = attempt[b].generation
       => a = b \/ "REPLACED" \in {attempt[a].state, attempt[b].state}

\* What a binding says about its Attempt, its release and its object.
Bound(a) ==
  /\ attempt[a].state = "ABSENT" => binding[a].state = "ABSENT"
  /\ attempt[a].state = "REPLACED" => cleanup[a] = "CONFIRMED"
  /\ binding[a].state = "ABSENT" <=> work[a] = "NONE"
  /\ binding[a].state = "ABSENT" => binding[a].ref = None
  /\ binding[a].state = "RELEASED" => cleanup[a] = "CONFIRMED"
  /\ work[a] = "COMPLETED" => cleanup[a] = "CONFIRMED"
  /\ cleanup[a] # "NONE" => binding[a].ref # None
  /\ cleanup[a] = "CONFIRMED" => Gone(a)
  /\ binding[a].ref # None => binding[a].ref <= created
  /\ object[a] # None => object[a].uid <= created
  /\ session.state = "SUSPENDED" /\ binding[a].state # "ABSENT" =>
       cleanup[a] # "NONE"

BindingInv == \A a \in Attempts : Bound(a)

\* What a worker in state r knows, however old it is.
Knows(r) ==
  /\ r.ref # None => r.ref <= created
  /\ r.pc = "idle" => ~r.fresh /\ r.obs = "NONE"
  /\ r.pc # "idle" => r.a # None /\ attempt[r.a].state # "ABSENT"
  /\ r.pc \notin {"idle", "reserve", "record", "finish"} \/ r.fresh =>
       binding[r.a].state # "ABSENT"
  /\ r.pc = "bind" => r.ref # None
  /\ r.pc \in {"begin", "delete", "confirm"} => cleanup[r.a] # "NONE"
  /\ r.pc = "record" => r.obs # "NONE"
  /\ r.obs = "RELEASED" =>
       /\ r.pc \in {"record", "finish"}
       /\ cleanup[r.a] # "NONE" /\ Gone(r.a)
       /\ r.pc = "finish" => cleanup[r.a] = "CONFIRMED"

WorkerInv == \A w \in Workers : Knows(worker[w])

\* The inductive invariant: type, epochs, bindings and what workers know.
MonitorInv ==
  /\ TypeOK /\ EpochInv /\ BindingInv /\ WorkerInv
  /\ ReleaseExcludesWork /\ DegradedHasRecovery

CurrentAttempts == {a \in Attempts : IsCurrent(a)}

Promise == INSTANCE WriterEpoch WITH
  epoch  <- session.generation,
  writer <- IF exec.state \in {"NONE", "ENDED"} THEN 0 ELSE session.generation,
  paused <- session.state = "DEGRADED",
  agents <- CurrentAttempts,
  used   <- {a \in Attempts : attempt[a].state # "ABSENT"}

\* Recovery and replacement keep the single-writer promise of the Session: lost
\* compute pauses the writer, and a replacement goes on in the same epoch.
ImplementsWriterEpoch == Promise!Spec

\* Every ordered release ends: confirmed, or quarantined for an operator.
CleanupResolved ==
  \A a \in Attempts :
    cleanup[a] = "PENDING" ~> cleanup[a] \in {"CONFIRMED", "QUARANTINED"}

\* Lost compute of a working Attempt is noticed, also after it was READY.
LossNoticed ==
  \A a \in Attempts :
    (Current(a) /\ binding[a].ref # None /\ object[a] = None) ~> ~Current(a)

\* An Acquire whose answer was lost is reconciled: the object that was created
\* gets bound while the Attempt may work (docs/contracts/sandbox-provider.md:
\* "TIMEOUT: Outcome ambiguous; retry/reconcile same operation identity").
AmbiguousCreateReconciled ==
  \A a \in Attempts :
    (Current(a) /\ binding[a].ref = None /\ object[a] # None)
      ~> (~Current(a) \/ binding[a].ref # None \/ object[a] = None)
=============================================================================
