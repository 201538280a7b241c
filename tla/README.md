# A TLA+ model of ThinkPixelAR

ThinkPixelAR is an agent runtime control plane. A *Session* is a long-lived
agent with a Workspace; an *Execution* is one turn of work on it; an *Attempt*
is one try to run an Execution on a sandbox. State lives in PostgreSQL; several
replicas of the service work on it; sandboxes are Kubernetes objects; an
`agentd` process inside each sandbox speaks to the service and drives the
vendor's harness process.

The promises modelled here:

* a Session has **one writer at a time**, and authority once taken away never
  comes back (`SessionFence`, `ComputeMonitor`);
* a client's request becomes durable work **once**, and nothing that happened is
  passed over silently (`RequestPipeline`);
* a Session **outlives its compute** (`SessionDurability`, `WorkspaceStorage`);
* work in a sandbox runs only on behalf of a **current connection**, and its
  credentials do not stay behind (`AgentdConnection`, `BootstrapDelivery`);
* what a subscriber is told of a turn is **true** (`CodexTurn`).

TLC checks all of them on small instances; TLAPS proves the safety part of
every module, for every value of its constants.

## Modules

| Module | Models | Theorems |
|---|---|---|
| `Lifecycle` | lifecycle tables of Session, Execution and Attempt (`internal/domain`) | |
| `WriterEpoch` | abstract: epochs are granted one after another, a writer acts only in the newest, through one agent at a time | |
| `SessionFence` | rows, repositories, triggers, unique indexes and admission of one Session; refines `WriterEpoch` | `SessionFenceProofs` |
| `ComputeMonitor` | the compute of one Session from reservation to release; refines `WriterEpoch` | `ComputeMonitorProofs` |
| `RequestPipeline` | idempotent creation, grants, signals, outbox and dispatchers, event log and its readers | `RequestPipelineProofs` |
| `SessionDurability` | Workspace checkpoints, suspend, resume through a candidate sandbox | `SessionDurabilityProofs` |
| `WorkspaceStorage` | provisioning, initialization and deletion of a Workspace's volume claims | `WorkspaceStorageProofs` |
| `CommandDispatch` | abstract: commands of a plan are claimed in order, one at a time, act at most once, and are acknowledged only if they succeeded | |
| `AgentdConnection` | streams between the service and `agentd`, credentials, frame policy, command journal, child process; refines `CommandDispatch` | `AgentdConnectionProofs` |
| `BootstrapDelivery` | publication and removal of a sandbox's bootstrap Secret | `BootstrapDeliveryProofs` |
| `CodexTurn` | the client of the vendor process, the interrupt and the event stream of a turn | `CodexTurnProofs` |
| `MC...` | symmetry sets, command plans and populations of the runs | |

`PROJECT.json` maps each definition to the lines it models, and lists every part
of the system with what is left out of it, and the hazards with the properties
that watch them.

### SessionFence

A repository `Get` takes no lock, so a client keeps a copy of a row (`heldS`,
`heldE`, `heldA`) and commits a transition of it in a later step. A commit is
one step, because each writing transaction locks the Session row before any
other. The step is enabled when the compare-and-set on `state_version` matches
and the triggers accept the new row: the epoch trigger (migrations 5 and 18),
the attempt fence (migration 33), one mutable Execution per Session (4), the
deferred foreign key of the current Execution. `current` in the Session row is
maintained by the trigger, as in the database. Time, digests, result
references and the tenant are left out: no property distinguishes them.

### ComputeMonitor

A worker of `RunBatch` is a small program: claim, load, observe or reserve,
create, bind, or begin, delete, confirm, then record and finish. Every database
transaction and every provider call is one step. Each binding has a version
that `RecordCompute` compares; the model keeps the flag `fresh`, which
a write to the binding clears in every worker that had loaded it. An Execution
is named by its generation, a binding by its Attempt. The cluster is external:
an object becomes ready, fails, is deleted from outside, or finishes its
deletion. The Execution worker (the process that drives a turn) is not in the
repository; its transactions are marked external in the map and follow the
repository's fixtures. `MaintainRelease` is the transport host, which
reconciles released compute without a lease; it runs `Reconcile` but neither
claims nor finishes work. A provider that cannot be asked is recorded as
`UNKNOWN`, one whose answer is refused (integrity, unsupported, invalid) opens a
recovery: `Unavailable` takes either.

Left out: native suspend and resume of the provider (nothing calls them), policy
projection and the effective-state evidence of `Get`.

### RequestPipeline

A request is one transaction, but not one step. `Reserve` inserts or finds the
idempotency record and blocks every other request of its scope until it ends;
the rows after it are locked in one order everywhere (record, Session,
Execution, grant, event stream), so a request is `Reserve` and the step that
commits it. Accepting a signal has a third step, because policy is evaluated and
time passes while it holds its rows; a grant may run out meanwhile. A refusal of
policy because of another ACTIVE local grant only delays a request.
`DeleteExpired` removes expired records; records of creations and signals
have no expiry, so these are never among them.

A claim of an outbox message has a fence and a lease, which is `LIVE`, at its
`EDGE` (its last instant: the owner may still report, and another dispatcher may
already claim) or `PAST`.
Dispatchers are external: the repository has the claiming store and no
dispatcher. Event retention is external as well: nothing sets `RetainUntil` yet,
so events age from outside (`Ages`); `Observed` stands for the producers of
harness events. A reader has the server's cursor, the frames on the wire, and
what the client received; when a stream breaks, the wire is lost and the client
resumes from its last event.

### SessionDurability

Every operation of the store locks the Session row first and is one step that
needs `lock` free. `WithResumeCandidate` keeps the lock while the worker calls
the provider; between such calls workers stop, repeat and overtake each other.
Two things part a call from the lock. A create that is cut off at its deadline
(`remote` kills the local ssh), or whose worker stops, may reach the provider
later (`late`, `Lands`); and the connection that holds the row may break while
the worker goes on (`LosesLock`). An object made by either is a `stray`. The
Workspace volume counts writes, and a snapshot holds the count at its
preparation, from which on its own writer is blocked, so "nothing is lost" compares
numbers. An Execution may have several Attempts (`Start`, `Replaced`). Only a resume
sets the Workspace's attachment in the repository. An operation repeated with a
known identity returns its saved result, so identities are taken in order.

Two consequences of the code that the properties allow for. The comment on
`WithResumeCandidate` asks that "cleanup must not overtake an in-flight create",
which the lock alone cannot ensure: a stray may appear under a name
that was reported clean, and nothing in the repository removes it (its
`shutdownTime`, 15 minutes after the intent's deadline, ends its Pod).
`CleanupIsFinal` says that nothing else can appear there and that the operation
stays over. And a completed resume that the first Attempt of an Execution did not
take may be handed to a later Attempt, after the first one wrote:
`ResumesExactly` speaks of the Attempts that are first.

Left out: archives, manifests, the snapshot provider and the export bundle. The
check in `Complete` for a provider reference that another binding uses cannot
fail here: a candidate's identity is its own.

### WorkspaceStorage

A worker holds the Workspace row while it calls the provider and commits what it
saw to a journal. The row is lost with the operation's deadline or process, at
any step (`Interrupted`); a create that was sent by then may arrive at any later
time (`inflight`, `Arrives`). It is also lost with the connection that holds it,
which the operation does not notice before it publishes (`LosesRow`). What such a
create makes is a `stray`. Consequences of the code that the properties
allow for: a stray may appear under the name of a claim or an initializer that
the journal knows to be gone, and an operation refuses it as foreign (`Foreign`);
an initializer that failed, or that ended without a proof, blocks
provisioning and deletion until an operator looks (`Stopped`, `Unproven`); a
`SUCCEEDED` initializer Pod may remain when the Workspace closes between its proof
and its deletion.

### AgentdConnection

One sandbox, one Attempt. agentd dials, says Hello, serves a stream until it
ends, cleans up and dials again (`runConnections`); a stream is named by its
dial. AR has a handler per stream, and the handler of an abandoned stream lives
on until it notices, so several race on the credential row and on the server's
active map.

* `row` is `agentd_credential_state`: version, latest credential, connection
  epoch, and the deadline of the open connection as `live`, `capped` (a
  successor is registered) or `past`. `journal` is `agentd_commands`.
  `authorised` is the aggregate fence, the admission row, the authority
  deadline and the provider facts; it only falls.
* A check of a frame and the write it guards are one step: `AuthorizeFrame`
  repeats the checks on rows inside one transaction that locks them. Provider facts and
  the credential's fingerprint are not read again there.
  Admission has three steps (`Admit`, `Recheck`, `Install`), renewal has
  three (`RenewAuthorize`, `RenewCommit`, `RenewReply`), and the handler and its
  reader are separate.
* In agentd, `agent` is the connection loop with the Serve loop's locals,
  `worker` the goroutine in `execute`, `gate` the operation that holds
  `Processes.gate`. They are separate because an operation keeps the gate after
  its caller has timed out or was cancelled.
* Frames keep their kind, sequence number, operation and one value (epoch,
  accepted sequence or credential). Streams are FIFO; what is in flight is lost
  when an end leaves, and either end may leave at any time. A crash of AR is
  a handler that leaves and whose `CloseConnection` is lost.

Assumed: a command's goroutine starts before the next handshake completes;
SIGKILL ends the process group (a kill that is not reaped in time is an error
that makes agentd exit). The configuration is the one with threads and turns,
so `RESTART` is refused by policy; `INTERRUPT` ends as `STOP` does. Left
out: output capture, the recovery bootstrap (the policy refuses it and agentd
has no hook for it), the 128-command limit, and frame contents.

A renewal request and a command may cross on the wire. agentd then refuses
the command and its claim stays `PENDING`. ADR-0043 treats such a claim as
ambiguous until the Attempt is replaced, and the model agrees with it.

### BootstrapDelivery

A materialization issues a credential, journals a plan, creates the Secret,
binds its uid and projects it; workers sweep the journal in the order of retry
times. There is one `Create` per credential. An entry whose object never
appeared cannot be told from one whose create is still on its way: it stays
uncleaned and is swept for ever, as `delivery.go` says, and the credential in
`Abandoned` starts as such an entry so that sweeps have to get past it.

### CodexTurn

The pipes have one reader, whoever holds the gate; an interrupt retains the
notifications it reads for the subscriber (at most 32; the client closes beyond
that). The interrupt looks for its acknowledgement, tries the gate, and looks again
before it reads, in separate steps: the subscriber may read the acknowledgement
in between. Opening a thread and starting a turn read at most `MaxReads` frames
each, the answer included. The vendor may send any frame, nothing, or exit. A `StartTurn` that timed out
after the acceptance was read is answered from memory when repeated. The two
operations a caller may ask for are interchangeable, and `First` is the one it
asks for first. `FAILED` stands for interrupted turns as well. `Client.Events`
has no caller in the repository, so the subscriber is external; `agentd` stops
the process when `StartTurn` fails.

## Runs

All runs let the system stop at its bounds, so none checks deadlock. The
runs `fence_epochs` and `monitor_workers` use symmetry; the runs with liveness do
not.

| Run | Instance | Shows |
|---|---|---|
| `fence_epochs` | 2 Executions, 1 Attempt, 1 reference, 2 clients, 2 epochs, 4 versions (2 of the Attempt) | `SingleWriter`; `LegalHistory` of every row; `FenceInv`; refinement of `WriterEpoch` |
| `monitor_workers` | 1 Attempt, 2 workers, 2 objects, 1 fault | `ConfirmedIsGone`; `SuspendedOrdersRelease` |
| `monitor_replace` | 2 Attempts, 1 worker, 2 objects, 1 fault, fair | `MonitorInv`; `OneComputePerExecution`; refinement of `WriterEpoch`; `CleanupResolved`, `LossNoticed` |
| `monitor_ambiguous` | 1 Attempt, 1 worker, 3 objects, 1 fault, fair | violated: see Findings |
| `conn_live` | `START`, `EXECUTE`, `STOP`; 2 dials, 2 credentials, 2 failures, fair | refinement of `CommandDispatch`; `RevokedWorkEnds` |
| `conn_reconnect` | `START`, `EXECUTE`; 2 dials, 2 credentials, 2 failures, 1 timed heartbeat | `FramesAccepted`, `NoAutonomousWork`, `ConnectionInv`, `NewestNotDisplaced` |
| `conn_report` | `START`; 2 dials | violated: see Findings |
| `pipeline` | three populations: 2 clients and 4 requests with grants that end; 2 dispatchers; a reader and 5 events | `OncePerKey`, `PipelineInv`, `SignalsInForce`, `NoSilentGap`; `MessagesSettle`, `ReadersCatchUp` |
| `durability` | 2 workers, 2 operations, 2 checkpoints, 1 resume, 2 Executions, 2 Attempts, 1 write, 1 fault, fair | `SuspendedIsDurable`, `DurabilityInv`, `CleanupIsFinal`, `ResumesExactly`; `ResumeDecided` |
| `storage` | 2 workers, 5 objects, 2 faults, fair | `StorageInv`, `ReadyIsProven`; `ProvisioningEnds`, `DeletionEnds` |
| `delivery` | 2 credentials, 1 worker that takes 1 entry at a time, 2 faults, fair | `DeliveryInv`, `DeletesExactly`; `SecretsGo`, `KnownIsCleaned` |
| `turn` | 2 operations, 1 message, 1 tool call, 5 frames, 1 retained, fair | `HonestStream`, `FramesInOrder`; `CloseEndsNext`, `InterruptEnds` |

**Bounds.** Two clients or two workers are enough for one to be stale; two
Executions for an epoch to be fenced; two Attempts for a replacement. The first
stream of agentd only exchanges the bootstrap credential, the second dispatches
commands and meets what the first left behind. Versions are bounded so that a
Session can pass through two admissions or one full recovery; `MaxGeneration`
also shows that an exhausted counter admits nothing. Two checkpoints give a
parent and a child, and one resume with two workers has them repeat and overtake
each other. Five objects let every claim or the initializer be created again after
it was lost.
Five frames are a message with a fragment and a tool call inside a turn, and
`MaxReads` is 3 and `MaxRetained` 1 so that both limits are met (32 in the code);
the order among several retained frames rests on the theorem `OrderIsKept`, as
do two references of an Attempt on `HistoryIsLegal`, several Attempts on
`FenceImplementsWriterEpoch`, and a command that is offered again after a reconnect on
`DispatchHolds`. `MaxClaims` and `Ages` of the pipeline bound a dispatcher and a
retention that the repository does not have yet.
Faults (crash, outage, lost answer, lost object) share one budget in each
module, because an unlimited number of them makes every liveness claim false.
Where a component is proved, the theorem covers every size.

**Fairness.**

* `ComputeMonitor`: weak fairness of a worker's steps, strong fairness of
  claiming each binding's work, weak fairness of the cluster finishing a
  deletion. The first is the scheduling of a goroutine whose calls have
  deadlines; the second is strong because a busy worker claims nothing in
  between, and rests on the queue's oldest-first order and on the deployment:
  `RunBatch` "does not own a daemon loop"
  (`internal/app/reconciliation/worker.go:29`), so something must keep calling
  it; the third is Kubernetes' foreground deletion.
* `AgentdConnection`: weak fairness of agentd's own steps. A stream has a
  deadline at which Serve ends (`reconnect.go:124`), a handshake and each
  process operation have a budget. Nothing is assumed of AR, of the network or
  of the child.
* `RequestPipeline`: dispatchers run, leases run out, readers reconnect and read.
  Nothing is assumed of clients or of grants.
* `SessionDurability`, `WorkspaceStorage`, `BootstrapDelivery`: workers are rerun
  until their operation is over, the provider starts Pods, binds claims and
  completes deletions, deadlines pass. An initializer is assumed to end well only
  if it does not end badly first.
* `CodexTurn`: steps of `Next`, `Close` and the interrupt that do not wait for the
  vendor, and the interrupt's own deadline (`InterruptExpires`). No frame of the
  vendor and no deadline of `Next` is assumed.

## Proofs

The theorems hold for every set of clients, workers, rows, keys and items, and
for every bound. The assumptions are `FenceConstants`, `MonitorConstants`,
`BoundsAreNatural`, `TurnConstants`, `DeliveryAssumption` and
`ConnectionConstants`: bounds are naturals, the value that names nothing is no
identity, a worker is no materialization, a plan is a sequence of command kinds
and there is at least the bootstrap credential. TLC evaluates them in every run, and checked each
inductive invariant before it was proved.

No safety property is inductive as it stands. For each component the invariant
below says what the other actors still rely on.

**`SessionFenceProofs`.** A stale copy could bring back an old state, so
`FenceInv` adds what copies know (`CopiesFaithful`: a copy whose version equals
the row's is the row, and no copy is newer), what absent rows look like, and that
the generation of each Execution is at most the Session's and belongs to it
alone. Theorems: `FenceInvariant`, `WriterIsUnique`, `HistoryIsLegal` and the
refinement `FenceImplementsWriterEpoch`: the Session's generation is the epoch,
its mutable Execution the writer, the current Attempts the agents.

**`ComputeMonitorProofs`.** `MonitorInv` combines the epoch part (`EpochInv`),
the binding part (`BindingInv`: references, objects, cleanup and work agree) and
what a worker may still believe at each of its steps (`WorkerInv`), which is
where stale observations are bounded. Theorems: `MonitorInvariant`,
`ConfirmationIsPhysical`, `SuspensionOrdersRelease`, `ComputeIsUnique`,
`MonitorImplementsWriterEpoch`; and three statements that no run checks on their
own: `ReleaseTakesAuthority` (an Attempt with an ordered release has lost its
fence), `DegradedIsRecoverable`, `MonitoringIsComplete`.

**`RequestPipelineProofs`.** `IInv` has six parts.
`RowInv`: Sessions and their open Executions agree. `RequestInv`: a reservation
is exclusive and its scope has no record, records of the kinds that do not expire are
functional in their scope, and answers are among the records. `MessageInv`:
every such record has the only message of its topic and identity, and no message
names a resource that does not exist yet. `ClaimInv`: a row at rest was decided
by its latest fence, and who handed a message over knows it was received.
`SignalInv`: a signal between its check and its commit keeps its Session,
Execution and grant, because nobody else may change these rows. `ReaderInv`: the wire
is strictly increasing between the client's last event and the server's cursor
and carries every shown event in between. Theorems: `PipelineInvariant`, `RowsAgree` (`PipelineInv`), `KeysStandForOne`
(`OncePerKey`), `GapsAreReported` (`NoSilentGap`) and `SignalsAreInForce` (the
action property `SignalsInForce`).

**`SessionDurabilityProofs`.** `StoreInv` is about
rows: a snapshot that was taken without a writer in the current epoch holds every write
(nobody wrote since), checkpoints are numbered in the order of their
publication and name their predecessor, a resume under way finds the Session at
the version and epoch it was prepared for or closing, a failed one is the last,
and a completed one leaves the Workspace unwritten until the first Attempt of the
Execution after it. `WorkerInv` and `SandboxInv` say that only a worker inside its
provider calls holds the lock, that one that holds it and creates works for a
resume under way, which cannot fail meanwhile, that cleanup belongs to a failed
one, and that what a cleaner proved absent only a stray brings back. Theorems:
`DurabilityInvariant`, `RowsAreOwned` (`DurabilityInv`), `SuspensionIsDurable`,
`OnlyStraysReturn` (`CleanupIsFinal`), `ResumptionIsExact` (the action property
`ResumesExactly`).

**`WorkspaceStorageProofs`.** Several workers may be inside an operation, of which
at most one holds the row. What each of them knows whether or not it holds it
rests on the journal, which only fills up (`Knows`): the parts it loaded are still
true, and in a deletion the claims it has passed can only be strays. What it
knows only as long as it holds the row (`Holds`) is that no deletion was
accepted and that no initializer but a stray mounts what it publishes. The third part
is what rows and objects say (`Accounted`). Theorems: `StorageInvariant`,
`StorageIsAccountedFor` (`StorageInv`), `ReadinessIsProven`.

**`CodexTurnProofs`.** The invariant speaks of events `Given`: delivered, or
normalized and about to be. Retained frames continue the count of the normalized
ones (`FrameInv`); an item counts its fragments among the given events and knows
the first and last of them, unless the stream failed while it was open
(`StreamInv`). Theorems: `TurnInvariant`, `StreamIsHonest` (`HonestStream`),
`OrderIsKept` (the action property `FramesInOrder`).

**`BootstrapDeliveryProofs`.** A credential has one object in its life. While its
create is ahead or given up and on its way (`Unborn`), no object is its own, its
entry names no uid, and no cleanup has got past looking for one; so an object
never appears behind a cleanup that is about to close its entry. `EntryInv` says
this of journal, object and materialization, `CleanInv` what a cleanup knows at
each step, `Places` that each entry has one place among those due and those
waiting. Theorems: `JournalIsInductive`, `DeliveryInvariant` (`DeliveryInv`),
`DeletionIsExact` (the action property `DeletesExactly`).

**`AgentdConnectionProofs`.** The argument follows a claimed command. It is in
one place: on its way down the stream it was claimed for (`DownInv`), with
agentd's worker (`CommandInv`), or answered by a report on its way up (`UpInv`).
Its journal entry is `PENDING` under the epoch of that stream until AR receives
the final report, which is the last frame of the stream about a command; so a
report never meets an entry that was settled or belongs to another stream.
`Epochs` says that admitted streams have epochs of their own, at most the row's,
and that the row belongs to the stream with its epoch; `Lifecycle` that a stream
is silent before its handler serves it and after it returned; `Counters` that the
sequence numbers of both ends agree; `HandlerInv` that the handler's place in the
plan has nothing unclaimed before it. `WorkerInv` lets a worker keep a command of
a stream that is gone only until it looks at it, `ProcessInv` lets only a served
caller bring a process to run, and `LedgerInv` counts effects. Theorems:
`ConnectionInvariant`, `ConnectionHolds` (`ConnectionInv`), `FramesHold`
(`FramesAccepted`), `NoWorkHolds` (`NoAutonomousWork`), `NewestHolds` (the action
property `NewestNotDisplaced`) and the refinement `DispatchHolds`
(`ImplementsDispatch`): a claiming tick is `Claim`, `Execute` is `Act`, the end of
an operation whose caller waits is `Succeed`, a received final report is
`Settle`, and every other step is invisible. That a step keeps the invariant is
proved for AR and its environment (`ServerSideKeeps`) and for agentd
(`AgentSideKeeps`, with `ReportKeeps`, `WorkKeeps` and `DialKeeps`); the facts that
only one of them needs are named steps of its proof, one per action.

**Only model-checked.** Every liveness property (`CleanupResolved`,
`LossNoticed`, `RevokedWorkEnds`, `MessagesSettle`, `ReadersCatchUp`,
`ResumeDecided`, `ProvisioningEnds`, `DeletionEnds`, `SecretsGo`,
`KnownIsCleaned`, `CloseEndsNext`, `InterruptEnds`): fairness and `ENABLED` are
out of the prover's reach; with the last one stays its safety half, that the
interrupt never waits for an acknowledgement that was read. Every other invariant, action property and refinement
of a passing run is proved.

## Findings

* `monitor_ambiguous`: after a create whose answer was lost, `running`
  (`internal/app/reconciliation/compute.go:62`) finds the object and so never
  repeats `Acquire`, which alone binds the reference. The object is monitored
  as `UNKNOWN` and the Attempt never becomes ready. The comment five lines below and
  `docs/contracts/sandbox-provider.md:194` say the same operation is replayed.
* `conn_report`: `Disconnected` (`internal/app/agentd/control_linux.go:156`) takes
  a process without identity for no process. A `START` that times out before its
  process has an identity is over for the Serve loop, but its launch still holds
  the gate; at the stream's deadline agentd reports `stopped` and the process
  is launched afterwards (and then stops itself).
  `docs/adr/0043-agentd-failure-fencing-and-final-observations.md:48` says a
  busy or unresolved stop reports `unresolved`.

## Not modelled

TLS and certificate checks, JSON translation of the harness protocol, HTTP
decoding, configuration, telemetry, generated code and the empty adapters:
they have no state that actors share. The provider's snapshots, imports and
attachments, output capture and the reaping of orphans in agentd have state but
are left for later. `PROJECT.json` lists each part with its reason.
