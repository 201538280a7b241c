------------------------ MODULE ComputeMonitorProofs ------------------------
(***************************************************************************)
(* Proofs about ComputeMonitor, for any number of Attempts, workers,       *)
(* Executions, provider objects and faults.                                *)
(***************************************************************************)
EXTENDS ComputeMonitor, TLAPS

USE MonitorConstants

-----------------------------------------------------------------------------
(* States of a worker.                                                     *)

Pcs == {"idle", "load", "observe", "reserve", "create", "bind", "begin",
        "delete", "confirm", "record", "finish"}

\* A worker row built by one of the steps of a reconciliation is a worker row.
LEMMA StartedRow ==
  ASSUME NEW pc \in Pcs, NEW a \in Attempts, NEW leased \in BOOLEAN
  PROVE  Started(pc, a, leased) \in WorkerRow
BY ZenonT(60) DEF Pcs, Started, WorkerRow, Observations

\* A loaded worker row is a worker row.
LEMMA LoadedRow ==
  ASSUME NEW r \in WorkerRow, NEW pc \in Pcs, NEW obs \in Observations
  PROVE  Loaded(r, pc, obs) \in WorkerRow
BY ZenonT(60) DEF Pcs, Loaded, WorkerRow

\* A worker row that holds a reference is a worker row.
LEMMA HoldingRow ==
  ASSUME NEW r \in WorkerRow, NEW pc \in Pcs, NEW ref \in Uids \cup {None}
  PROVE  Holding(r, pc, ref) \in WorkerRow
BY DEF Pcs, Holding, WorkerRow, Observations

\* A worker row that reports an observation is a worker row.
LEMMA ReportedRow ==
  ASSUME NEW r \in WorkerRow, NEW obs \in Observations
  PROVE  Reported(r, obs) \in WorkerRow
BY ZenonT(60) DEF Reported, WorkerRow

\* A worker row that finished is a worker row.
LEMMA FinishedRow ==
  ASSUME NEW r \in WorkerRow, NEW obs \in Observations
  PROVE  Finished(r, obs) \in WorkerRow
BY ZenonT(60) DEF Finished, WorkerRow

\* An idle worker row is a worker row, and so is one that moves on or whose
\* knowledge got stale.
LEMMA OtherRows ==
  /\ Idle \in WorkerRow
  /\ \A r \in WorkerRow, pc \in Pcs : [r EXCEPT !.pc = pc] \in WorkerRow
  /\ \A r \in WorkerRow : [r EXCEPT !.fresh = FALSE] \in WorkerRow
<1>1. Idle \in WorkerRow
  BY ZenonT(60) DEF Idle, WorkerRow, Observations
<1>2. ASSUME NEW r \in WorkerRow, NEW pc \in Pcs
      PROVE  [r EXCEPT !.pc = pc] \in WorkerRow
  BY ZenonT(60), <1>2 DEF WorkerRow, Pcs
<1>3. ASSUME NEW r \in WorkerRow
      PROVE  [r EXCEPT !.fresh = FALSE] \in WorkerRow
  BY ZenonT(60), <1>3 DEF WorkerRow
<1>. QED  BY ZenonT(60), <1>1, <1>2, <1>3

-----------------------------------------------------------------------------
(* Steps that change nothing but a worker.                                 *)

\* If only one worker moves, to a row that knows what it must, then the
\* invariant is kept.
LEMMA WorkerStep ==
  ASSUME MonitorInv, NEW w \in Workers, NEW r \in WorkerRow, Knows(r),
         Become(w, r), UNCHANGED <<rows, saved, world>>,
         faults' \in 0..MaxFaults
  PROVE  MonitorInv'
<1>1. TypeOK'
  BY ZenonT(60) DEF MonitorInv, TypeOK, Become, rows, saved, world
<1>2. EpochInv'
  BY ZenonT(60) DEF MonitorInv, EpochInv, rows, saved, world
<1>3. BindingInv'
  BY DEF MonitorInv, BindingInv, Bound, Gone, rows, saved, world
<1>4. WorkerInv'
  <2>. SUFFICES ASSUME NEW v \in Workers PROVE Knows(worker[v])'
    BY ZenonT(60) DEF WorkerInv
  <2>1. worker'[v] = IF v = w THEN r ELSE worker[v]
    BY ZenonT(60) DEF Become, MonitorInv, TypeOK
  <2>2. Knows(worker[v])
    BY ZenonT(60) DEF MonitorInv, WorkerInv
  <2>. QED  BY <2>1, <2>2 DEF Knows, Gone, rows, saved, world
<1>5. ReleaseExcludesWork'
  BY ZenonT(60) DEF MonitorInv, ReleaseExcludesWork, ReleaseDesired, Current, IsCurrent,
         rows, saved
<1>6. DegradedHasRecovery'
  BY ZenonT(60) DEF MonitorInv, DegradedHasRecovery, IsCurrent, rows, saved
<1>. QED  BY ZenonT(60), <1>1, <1>2, <1>3, <1>4, <1>5, <1>6 DEF MonitorInv

\* A worker that only moves on becomes a row with another pc.
LEMMA GotoRow ==
  ASSUME TypeOK, NEW w \in Workers, NEW pc \in Pcs, Goto(w, pc)
  PROVE  /\ [worker[w] EXCEPT !.pc = pc] \in WorkerRow
         /\ Become(w, [worker[w] EXCEPT !.pc = pc])
<1>1. worker[w] \in WorkerRow
  BY ZenonT(60) DEF TypeOK
<1>. QED  BY ZenonT(60), <1>1, OtherRows DEF Goto, Become, TypeOK

\* A step that moves a worker on, to a pc at which nothing more is known.
LEMMA GotoStep ==
  ASSUME MonitorInv, NEW w \in Workers, NEW pc \in {"reserve", "delete", "confirm"},
         Goto(w, pc),
         worker[w].pc \in IF pc = "reserve" THEN {"observe"} ELSE {"begin", "delete"},
         UNCHANGED <<rows, saved, world>>, faults' \in 0..MaxFaults
  PROVE  MonitorInv'
<1>. DEFINE r == [worker[w] EXCEPT !.pc = pc]
<1>1. r \in WorkerRow /\ Become(w, r)
  BY ZenonT(60), GotoRow DEF MonitorInv, Pcs
<1>2. worker[w] \in WorkerRow /\ Knows(worker[w])
  BY ZenonT(60) DEF MonitorInv, TypeOK, WorkerInv
<1>3. Knows(r)
  <2>1. /\ r.pc = pc /\ r.a = worker[w].a /\ r.fresh = worker[w].fresh
        /\ r.ref = worker[w].ref /\ r.obs = worker[w].obs
    BY ZenonT(60), <1>2 DEF WorkerRow
  <2>. HIDE DEF r
  <2>. QED  BY ZenonT(60), <1>2, <2>1 DEF Knows
<1>. HIDE DEF r
<1>. QED  BY ZenonT(60), <1>1, <1>3, WorkerStep

\* A step that reports an observation other than RELEASED.
LEMMA ReportStep ==
  ASSUME MonitorInv, NEW w \in Workers, NEW obs \in Observations,
         worker[w].pc # "idle", obs \notin {"NONE", "RELEASED"}, Report(w, obs),
         UNCHANGED <<rows, saved, world>>, faults' \in 0..MaxFaults
  PROVE  MonitorInv'
<1>2. worker[w] \in WorkerRow /\ Knows(worker[w])
  BY ZenonT(60) DEF MonitorInv, TypeOK, WorkerInv
<1>1. Reported(worker[w], obs) \in WorkerRow
  BY ZenonT(60), <1>2, ReportedRow
<1>3. Knows(Reported(worker[w], obs))
  BY ZenonT(60), <1>2 DEF Knows, Reported
<1>. QED  BY ZenonT(60), <1>1, <1>3, WorkerStep DEF Report

\* A step that gives up.
LEMMA GiveUpStep ==
  ASSUME MonitorInv, NEW w \in Workers, worker[w].pc # "idle", GiveUp(w),
         UNCHANGED <<rows, saved, world>>, faults' \in 0..MaxFaults
  PROVE  MonitorInv'
<1>2. worker[w] \in WorkerRow /\ Knows(worker[w])
  BY ZenonT(60) DEF MonitorInv, TypeOK, WorkerInv
<1>1. Finished(worker[w], "NONE") \in WorkerRow
  BY ZenonT(60), <1>2, FinishedRow DEF Observations
<1>3. Knows(Finished(worker[w], "NONE"))
  BY ZenonT(60), <1>2 DEF Knows, Finished
<1>. QED  BY ZenonT(60), <1>1, <1>3, WorkerStep DEF GiveUp

\* Failed calls, refused calls and crashes.
LEMMA FaultSteps ==
  ASSUME MonitorInv, NEW w \in Workers,
         Unavailable(w) \/ StoreError(w) \/ AuthorityDenied(w)
           \/ Unverified(w) \/ Crash(w)
  PROVE  MonitorInv'
<1>. Fault /\ UNCHANGED <<rows, saved, world>> /\ worker[w].pc # "idle"
  BY ZenonT(60) DEF Unavailable, StoreError, AuthorityDenied, Unverified, Crash, At
<1>0. faults' \in 0..MaxFaults
  BY DEF Fault, MonitorInv, TypeOK
<1>1. CASE Unavailable(w) \/ Unverified(w)
  BY ZenonT(60), <1>0, <1>1, ReportStep DEF Unavailable, Unverified, Observations, Recoveries
<1>2. CASE StoreError(w) \/ AuthorityDenied(w)
  BY ZenonT(60), <1>0, <1>2, GiveUpStep DEF StoreError, AuthorityDenied
<1>3. CASE Crash(w)
  <2>1. Knows(Idle)
    BY ZenonT(60) DEF Knows, Idle
  <2>. QED  BY ZenonT(60), <1>0, <1>3, <2>1, OtherRows, WorkerStep DEF Crash
<1>. QED  BY ZenonT(60), <1>1, <1>2, <1>3

\* Steps of a reconciliation that change nothing but the worker.
LEMMA ReadSteps ==
  ASSUME MonitorInv, NEW w \in Workers,
         LoadCompute(w) \/ Observe(w) \/ BeginOperation(w) \/ ConfirmRelease(w)
           \/ RecordConflict(w)
  PROVE  MonitorInv'
<1>. DEFINE r == worker[w]
<1>. UNCHANGED <<rows, saved, world, faults>> /\ r.pc # "idle"
  BY ZenonT(60) DEF LoadCompute, Observe, BeginOperation, ConfirmRelease, RecordConflict, At
<1>0. faults' \in 0..MaxFaults
  BY ZenonT(60) DEF MonitorInv, TypeOK
<1>1. r \in WorkerRow /\ Knows(r)
  BY ZenonT(60) DEF MonitorInv, TypeOK, WorkerInv
<1>2. CASE LoadCompute(w)
  <2>1. PICK pc \in {"record", "observe", "begin", "finish"},
             obs \in {"FENCED", "NONE"} :
          /\ Become(w, Loaded(r, pc, obs))
          /\ pc = "begin" => ReleaseDesired(r.a)
          /\ pc = "record" => obs = "FENCED"
    BY ZenonT(60), <1>2 DEF LoadCompute
  <2>2. Loaded(r, pc, obs) \in WorkerRow
    BY ZenonT(60), <1>1, LoadedRow DEF Pcs, Observations, Recoveries
  <2>3. Knows(Loaded(r, pc, obs))
    BY ZenonT(60), <1>1, <1>2, <2>1 DEF Knows, Loaded, LoadCompute, At, ReleaseDesired
  <2>. QED  BY ZenonT(60), <1>0, <2>1, <2>2, <2>3, WorkerStep
<1>3. CASE Observe(w)
  <2>1. CASE Goto(w, "reserve")
    BY ZenonT(60), <1>0, <1>3, <2>1, GotoStep DEF Observe, At
  <2>2. CASE ~Goto(w, "reserve")
    <3>1. PICK obs \in {"MISSING", "SUSPECT", "PROVISIONING", "READY", "UNKNOWN"} :
            Report(w, obs)
      BY ZenonT(60), <1>3, <2>2 DEF Observe
    <3>. QED  BY ZenonT(60), <1>0, <3>1, ReportStep DEF Observations, Recoveries
  <2>. QED  BY ZenonT(60), <2>1, <2>2
<1>4. CASE BeginOperation(w)
  <2>1. Goto(w, "delete") \/ Report(w, "UNKNOWN")
    BY ZenonT(60), <1>4 DEF BeginOperation
  <2>2. CASE Goto(w, "delete")
    BY ZenonT(60), <1>0, <1>4, <2>2, GotoStep DEF BeginOperation, At
  <2>3. CASE Report(w, "UNKNOWN")
    BY ZenonT(60), <1>0, <2>3, ReportStep DEF Observations
  <2>. QED  BY ZenonT(60), <2>1, <2>2, <2>3
<1>5. CASE ConfirmRelease(w)
  <2>. DEFINE obs == ReleaseOutcome(Status(r.a))
  <2>1. Report(w, obs) /\ r.pc = "confirm"
    BY ZenonT(60), <1>5 DEF ConfirmRelease, At
  <2>2. obs \in {"RELEASED", "SUSPECT", "RELEASING"}
    BY ZenonT(60) DEF ReleaseOutcome
  <2>3. CASE obs = "RELEASED"
    <3>1. object[r.a] = None
      <4>1. Status(r.a) = "NOT_FOUND"
        BY ZenonT(60), <2>3 DEF ReleaseOutcome
      <4>2. r.a \in Attempts
        BY ZenonT(60), <1>1 DEF WorkerRow, Knows
      <4>. QED  BY ZenonT(60), <4>1, <4>2 DEF Status, MonitorInv, TypeOK
    <3>2. Knows(Reported(r, "RELEASED"))
      BY ZenonT(60), <1>1, <2>1, <3>1 DEF Knows, Reported, Gone
    <3>3. Reported(r, "RELEASED") \in WorkerRow
      BY ZenonT(60), <1>1, ReportedRow DEF Observations
    <3>. HIDE DEF obs
    <3>. QED  BY ZenonT(60), <1>0, <2>1, <2>3, <3>2, <3>3, WorkerStep DEF Report
  <2>4. CASE obs # "RELEASED"
    <3>. HIDE DEF obs
    <3>. QED BY ZenonT(60), <1>0, <2>1, <2>2, <2>4, ReportStep DEF Observations, Recoveries
  <2>. QED  BY ZenonT(60), <2>3, <2>4
<1>6. CASE RecordConflict(w)
  BY ZenonT(60), <1>0, <1>6, GiveUpStep DEF RecordConflict
<1>. QED  BY ZenonT(60), <1>2, <1>3, <1>4, <1>5, <1>6

\* A worker takes up a binding without a claim.
LEMMA StartSteps ==
  ASSUME MonitorInv, NEW w \in Workers, NEW a \in Attempts,
         MaintainRelease(w, a) \/ StartAcquire(w, a)
  PROVE  MonitorInv'
<1>0. faults' \in 0..MaxFaults /\ UNCHANGED <<rows, saved, world>>
  BY ZenonT(60) DEF MonitorInv, TypeOK, MaintainRelease, StartAcquire
<1>1. CASE MaintainRelease(w, a)
  <2>1. Knows(Started("load", a, FALSE))
    <3>1. binding[a].state # "ABSENT" /\ attempt[a].state # "ABSENT"
      BY ZenonT(60), <1>1 DEF MaintainRelease, ReleaseDesired, MonitorInv, BindingInv, Bound
    <3>. QED  BY ZenonT(60), <3>1 DEF Knows, Started
  <2>. QED  BY ZenonT(60), <1>0, <1>1, <2>1, StartedRow, WorkerStep DEF MaintainRelease, Pcs
<1>2. CASE StartAcquire(w, a)
  <2>1. Knows(Started("reserve", a, FALSE))
    BY ZenonT(60), <1>2 DEF StartAcquire, Current, IsCurrent, Knows, Started
  <2>. QED  BY ZenonT(60), <1>0, <1>2, <2>1, StartedRow, WorkerStep DEF StartAcquire, Pcs
<1>. QED  BY ZenonT(60), <1>1, <1>2

-----------------------------------------------------------------------------
(* Steps that change rows or the provider.                                 *)

\* What workers rely on, and no step takes back.
Keeps ==
  /\ created <= created'
  /\ \A a \in Attempts :
       /\ attempt[a].state # "ABSENT" => attempt'[a].state # "ABSENT"
       /\ binding[a].state # "ABSENT" => binding'[a].state # "ABSENT"
       /\ cleanup[a] # "NONE" => cleanup'[a] # "NONE"
       /\ cleanup[a] = "CONFIRMED" => cleanup'[a] = "CONFIRMED"
       /\ cleanup[a] # "NONE" /\ Gone(a) => Gone(a)'

\* What a worker row knows stays true.
LEMMA KnowsKept ==
  ASSUME NEW r \in WorkerRow, Knows(r), Keeps, created \in Nat, created' \in Nat
  PROVE  Knows(r)'
<1>1. r.a \in Attempts \cup {None} /\ r.ref \in Nat \cup {None}
  BY DEF WorkerRow, Uids
<1>2. r.ref # None => r.ref <= created'
  BY <1>1 DEF Knows, Keeps
<1>3. r.pc # "idle" => r.a \in Attempts
  BY ZenonT(60), <1>1 DEF Knows
<1>4. r.obs = "RELEASED" => r.a \in Attempts /\ Gone(r.a)'
  BY ZenonT(60), <1>3 DEF Knows, Keeps
<1>. QED  BY ZenonT(60), <1>2, <1>3, <1>4 DEF Knows, Keeps

\* One worker moves, the others keep what they know.
LEMMA WorkersKept ==
  ASSUME MonitorInv, Keeps, created' \in Nat, NEW w \in Workers,
         NEW r \in WorkerRow, Knows(r)', Become(w, r)
  PROVE  worker' \in [Workers -> WorkerRow] /\ WorkerInv'
<1>1. worker' \in [Workers -> WorkerRow]
  BY ZenonT(60) DEF MonitorInv, TypeOK, Become
<1>2. ASSUME NEW v \in Workers PROVE Knows(worker[v])'
  <2>1. worker'[v] = IF v = w THEN r ELSE worker[v]
    BY ZenonT(60) DEF Become, MonitorInv, TypeOK
  <2>2. v # w => worker[v] \in WorkerRow /\ Knows(worker[v])
    BY ZenonT(60) DEF MonitorInv, TypeOK, WorkerInv
  <2>3. created \in Nat
    BY DEF MonitorInv, TypeOK
  <2>4. CASE v = w
    BY <2>1, <2>4 DEF Knows, Gone
  <2>5. CASE v # w
    <3>. DEFINE q == worker[v]
    <3>1. q \in WorkerRow /\ Knows(q) /\ worker'[v] = q
      BY ZenonT(60), <2>1, <2>2, <2>5
    <3>. HIDE DEF q
    <3>2. \A x \in WorkerRow : Knows(x) => Knows(x)'
      BY ZenonT(60), KnowsKept, <2>3
    <3>. QED  BY <3>1, <3>2 DEF Knows, Gone
  <2>. QED  BY ZenonT(60), <2>4, <2>5
<1>. QED  BY ZenonT(60), <1>1, <1>2 DEF WorkerInv

\* No worker moves.
LEMMA NoWorkerMoves ==
  ASSUME MonitorInv, Keeps, created' \in Nat, UNCHANGED worker
  PROVE  worker' \in [Workers -> WorkerRow] /\ WorkerInv'
<1>1. worker' \in [Workers -> WorkerRow] /\ created \in Nat
  BY DEF MonitorInv, TypeOK
<1>2. \A x \in WorkerRow : Knows(x) => Knows(x)'
  BY ZenonT(60), KnowsKept, <1>1
<1>3. ASSUME NEW v \in Workers PROVE Knows(worker[v])'
  <2>. DEFINE q == worker[v]
  <2>1. q \in WorkerRow /\ Knows(q) /\ worker'[v] = q
    BY ZenonT(60) DEF MonitorInv, TypeOK, WorkerInv
  <2>. HIDE DEF q
  <2>. QED  BY <1>2, <2>1 DEF Knows, Gone
<1>. QED  BY ZenonT(60), <1>1, <1>3 DEF WorkerInv

\* A binding changes, and everybody who loaded it before knows less.
LEMMA WorkersOutdated ==
  ASSUME NEW ws \in [Workers -> WorkerRow], NEW a \in Attempts,
         \A v \in Workers : Knows(ws[v])', worker' = Outdate(ws, a)
  PROVE  worker' \in [Workers -> WorkerRow] /\ WorkerInv'
<1>1. \A v \in Workers : worker'[v] \in {ws[v], [ws[v] EXCEPT !.fresh = FALSE]}
  BY ZenonT(60) DEF Outdate
<1>2. \A v \in Workers : worker'[v] \in WorkerRow
  BY <1>1, OtherRows
<1>3. worker' \in [Workers -> WorkerRow]
  BY ZenonT(60), <1>2 DEF Outdate
<1>4. ASSUME NEW v \in Workers PROVE Knows(worker[v])'
  <2>. DEFINE q == ws[v]
  <2>1. q \in WorkerRow /\ Knows(q)'
    BY ZenonT(60)
  <2>2. /\ worker'[v].pc = q.pc /\ worker'[v].a = q.a
        /\ worker'[v].ref = q.ref /\ worker'[v].obs = q.obs
        /\ worker'[v].fresh \in {q.fresh, FALSE}
    BY ZenonT(60), <1>1, <2>1 DEF WorkerRow
  <2>. HIDE DEF q
  <2>. QED  BY ZenonT(60), <2>1, <2>2 DEF Knows, Gone
<1>. QED  BY ZenonT(60), <1>3, <1>4 DEF WorkerInv

\* Session, Execution and Attempts are left alone, and so are cleanup and
\* recovery: the invariants that relate them are kept.
LEMMA RowsKept ==
  ASSUME MonitorInv, UNCHANGED <<rows, cleanup, recover>>
  PROVE  EpochInv' /\ ReleaseExcludesWork' /\ DegradedHasRecovery'
<1>1. EpochInv'
  BY ZenonT(60) DEF MonitorInv, EpochInv, rows
<1>2. ReleaseExcludesWork'
  BY ZenonT(60) DEF MonitorInv, ReleaseExcludesWork, ReleaseDesired, Current, IsCurrent, rows
<1>3. DegradedHasRecovery'
  BY ZenonT(60) DEF MonitorInv, DegradedHasRecovery, IsCurrent, rows
<1>. QED  BY ZenonT(60), <1>1, <1>2, <1>3

\* Claiming work and giving it back.
LEMMA QueueSteps ==
  ASSUME MonitorInv, NEW w \in Workers,
         FinishCompute(w) \/ \E a \in Attempts : ClaimCompute(w, a)
  PROVE  MonitorInv'
<1>0. UNCHANGED <<rows, binding, cleanup, recover, world, faults>>
  BY ZenonT(60) DEF FinishCompute, ClaimCompute
<1>1. EpochInv' /\ ReleaseExcludesWork' /\ DegradedHasRecovery'
  BY ZenonT(60), <1>0, RowsKept
<1>2. Keeps /\ created' \in Nat
  BY <1>0 DEF Keeps, Gone, rows, world, MonitorInv, TypeOK
<1>3. CASE FinishCompute(w)
  <2>. DEFINE a == worker[w].a
  <2>1. worker[w] \in WorkerRow /\ Knows(worker[w]) /\ worker[w].pc = "finish"
    BY ZenonT(60), <1>3 DEF MonitorInv, TypeOK, WorkerInv, FinishCompute, At
  <2>2. a \in Attempts
    BY ZenonT(60), <2>1 DEF WorkerRow, Knows
  <2>3. work' = work \/ \E x \in {"COMPLETED", "PENDING"} :
          /\ work' = [work EXCEPT ![a] = x]
          /\ work[a] = w
          /\ x = "COMPLETED" => cleanup[a] = "CONFIRMED"
    BY ZenonT(60), <1>3, <2>1 DEF FinishCompute, Completes, Knows
  <2>4. worker' \in [Workers -> WorkerRow] /\ WorkerInv'
    <3>1. Knows(Idle)' /\ Become(w, Idle)
      BY ZenonT(60), <1>3 DEF FinishCompute, Knows, Idle
    <3>. QED  BY ZenonT(60), <1>2, <3>1, OtherRows, WorkersKept
  <2>5. TypeOK'
    BY <1>0, <2>2, <2>3, <2>4 DEF TypeOK, MonitorInv, rows, world
  <2>6. BindingInv'
    <3>1. work[a] = w => binding[a].state # "ABSENT"
      BY ZenonT(60), <2>2 DEF MonitorInv, BindingInv, Bound
    <3>. HIDE DEF a
    <3>. QED  BY <1>0, <2>2, <2>3, <3>1 DEF BindingInv, Bound, Gone, MonitorInv, TypeOK, rows, world
  <2>. QED  BY ZenonT(60), <1>1, <2>4, <2>5, <2>6 DEF MonitorInv
<1>4. ASSUME NEW a \in Attempts, ClaimCompute(w, a) PROVE MonitorInv'
  <2>1. work' = [work EXCEPT ![a] = w] /\ work[a] # "NONE" /\ work[a] # "COMPLETED"
    BY ZenonT(60), <1>4 DEF ClaimCompute
  <2>2. binding[a].state # "ABSENT" /\ attempt[a].state # "ABSENT"
    BY ZenonT(60), <2>1 DEF MonitorInv, BindingInv, Bound
  <2>3. worker' \in [Workers -> WorkerRow] /\ WorkerInv'
    <3>. DEFINE r == Started("load", a, TRUE)
    <3>1. r \in WorkerRow
      BY ZenonT(60), StartedRow DEF Pcs
    <3>2. Knows(r)' /\ Become(w, r)
      BY ZenonT(60), <1>0, <1>4, <2>2 DEF ClaimCompute, Knows, Started, rows
    <3>. HIDE DEF r
    <3>. QED  BY ZenonT(60), <1>2, <3>1, <3>2, WorkersKept
  <2>4. TypeOK'
    BY ZenonT(60), <1>0, <2>1, <2>3 DEF TypeOK, MonitorInv, rows, world
  <2>5. BindingInv'
    BY <1>0, <2>1, <2>2 DEF BindingInv, Bound, Gone, MonitorInv, TypeOK, rows, world
  <2>. QED  BY ZenonT(60), <1>1, <2>3, <2>4, <2>5 DEF MonitorInv
<1>. QED  BY ZenonT(60), <1>3, <1>4

\* Reserve
LEMMA ReserveStep ==
  ASSUME MonitorInv, NEW w \in Workers, Reserve(w)
  PROVE  MonitorInv'
<1>. DEFINE a == worker[w].a
<1>0. UNCHANGED <<rows, cleanup, recover, world, faults>> /\ worker[w].pc = "reserve"
  BY ZenonT(60) DEF Reserve, At
<1>1. worker[w] \in WorkerRow /\ Knows(worker[w]) /\ a \in Attempts
      /\ attempt[a].state # "ABSENT"
  BY ZenonT(60), <1>0 DEF MonitorInv, TypeOK, WorkerInv, Knows, WorkerRow
<1>2. CASE UNCHANGED <<binding, work>> /\ Report(w, "UNKNOWN")
  BY ZenonT(60), <1>0, <1>2, ReportStep DEF saved, Observations, MonitorInv, TypeOK
<1>3. CASE /\ Current(a) /\ ~ReleaseDesired(a)
           /\ binding' = [binding EXCEPT ![a].state =
                            IF @ = "ABSENT" THEN "REQUESTED" ELSE @]
           /\ work' = [work EXCEPT ![a] = IF @ = "NONE" THEN "PENDING" ELSE @]
           /\ Become(w, Holding(worker[w], "create", binding[a].ref))
  <2>. HIDE DEF a
  <2>1. \A b \in Attempts : binding'[b] =
          IF b = a THEN [state |-> IF binding[a].state = "ABSENT" THEN "REQUESTED"
                                   ELSE binding[a].state,
                         ref |-> binding[a].ref]
          ELSE binding[b]
    BY <1>1, <1>3 DEF MonitorInv, TypeOK
  <2>2. Keeps /\ created' \in Nat
    BY <1>0, <1>1, <2>1 DEF Keeps, Gone, rows, world, MonitorInv, TypeOK
  <2>3. worker' \in [Workers -> WorkerRow] /\ WorkerInv'
    <3>1. PICK r \in WorkerRow : r = Holding(worker[w], "create", binding[a].ref)
      BY ZenonT(60), <1>1, HoldingRow DEF Pcs, MonitorInv, TypeOK
    <3>2. /\ r.pc = "create" /\ r.a = a /\ r.ref = binding[a].ref /\ r.obs = "NONE"
      BY ZenonT(60), <3>1 DEF Holding, a
    <3>3. /\ binding'[a].state # "ABSENT" /\ attempt'[a].state # "ABSENT"
          /\ binding[a].ref # None => binding[a].ref <= created'
      BY <1>0, <1>1, <2>1 DEF rows, world, MonitorInv, BindingInv, Bound
    <3>4. Knows(r)'
      BY ZenonT(60), <1>1, <3>2, <3>3 DEF Knows
    <3>. QED  BY ZenonT(60), <1>3, <2>2, <3>1, <3>4, WorkersKept
  <2>4. TypeOK'
    BY <1>0, <1>1, <1>3, <2>3 DEF TypeOK, MonitorInv, rows, world
  <2>5. BindingInv'
    <3>. SUFFICES ASSUME NEW b \in Attempts PROVE Bound(b)'
      BY ZenonT(60) DEF BindingInv
    <3>1. Bound(b) /\ work \in [Attempts -> {"NONE", "PENDING", "COMPLETED"} \cup Workers]
      BY ZenonT(60) DEF MonitorInv, BindingInv, TypeOK
    <3>2. work'[b] = IF b = a /\ work[b] = "NONE" THEN "PENDING" ELSE work[b]
      BY ZenonT(60), <1>1, <1>3, <3>1
    <3>3. session.state # "SUSPENDED"
      BY ZenonT(60), <1>3 DEF Current
    <3>. QED  BY <1>0, <1>1, <2>1, <3>1, <3>2, <3>3 DEF Bound, Gone, rows, world
  <2>. QED  BY ZenonT(60), <1>0, <2>3, <2>4, <2>5, RowsKept DEF MonitorInv
<1>. QED  BY ZenonT(60), <1>2, <1>3 DEF Reserve

Objects == [uid: Uids, phase: {"PENDING", "READY", "FAILED", "DELETING"}]

\* A step of the provider: an object stays, goes, or is newer than all others.
ProviderStep ==
  /\ UNCHANGED <<rows, saved>>
  /\ created' \in created..MaxCreated /\ faults' \in 0..MaxFaults
  /\ object' \in [Attempts -> Objects \cup {None}]
  /\ \A a \in Attempts : object'[a] # None =>
       \/ created < object'[a].uid /\ object'[a].uid <= created'
       \/ object[a] # None /\ object'[a].uid = object[a].uid

\* A provider step keeps what workers know, and keeps the invariant if the
\* worker that took it knows what it must.
LEMMA ProviderKeeps ==
  ASSUME MonitorInv, ProviderStep
  PROVE  /\ Keeps /\ created' \in Nat
         /\ worker' \in [Workers -> WorkerRow] /\ WorkerInv' => MonitorInv'
<1>1. created \in Nat /\ created' \in Nat /\ created <= created' /\ created' <= MaxCreated
  BY DEF MonitorInv, TypeOK, ProviderStep
<1>2. \A a \in Attempts : object[a] # None => object[a].uid \in Nat /\ object[a].uid <= created
  BY DEF MonitorInv, TypeOK, Uids, BindingInv, Bound
<1>3. \A a \in Attempts : binding[a].ref # None =>
        binding[a].ref \in Nat /\ binding[a].ref <= created
  BY DEF MonitorInv, TypeOK, Uids, BindingInv, Bound
<1>4. \A a \in Attempts : object'[a] # None => object'[a].uid \in Nat /\ object'[a].uid <= created'
  BY <1>1, <1>2 DEF ProviderStep, Objects, Uids
<1>5. \A a \in Attempts : binding[a].ref # None /\ Gone(a) => Gone(a)'
  BY <1>1, <1>2, <1>3, <1>4 DEF ProviderStep, Gone, saved
<1>6. \A a \in Attempts : cleanup[a] # "NONE" => binding[a].ref # None
  BY ZenonT(60) DEF MonitorInv, BindingInv, Bound
<1>7. Keeps
  BY ZenonT(60), <1>1, <1>5, <1>6 DEF Keeps, ProviderStep, rows, saved
<1>8. ASSUME worker' \in [Workers -> WorkerRow], WorkerInv' PROVE MonitorInv'
  <2>1. TypeOK'
    BY <1>1, <1>8 DEF TypeOK, MonitorInv, ProviderStep, Objects, rows, saved
  <2>2. BindingInv'
    <3>. SUFFICES ASSUME NEW b \in Attempts PROVE Bound(b)'
      BY ZenonT(60) DEF BindingInv
    <3>1. Bound(b)
      BY ZenonT(60) DEF MonitorInv, BindingInv
    <3>2. cleanup[b] = "CONFIRMED" => Gone(b)'
      BY ZenonT(60), <1>5, <3>1 DEF Bound
    <3>3. binding[b].ref # None => binding[b].ref <= created'
      BY <1>1, <1>3
    <3>. QED  BY ZenonT(60), <1>4, <3>1, <3>2, <3>3 DEF Bound, ProviderStep, rows, saved
  <2>3. EpochInv' /\ ReleaseExcludesWork' /\ DegradedHasRecovery'
    BY ZenonT(60), RowsKept DEF ProviderStep, saved
  <2>. QED  BY ZenonT(60), <1>8, <2>1, <2>2, <2>3 DEF MonitorInv
<1>. QED  BY ZenonT(60), <1>1, <1>7, <1>8

\* The provider's own steps.
LEMMA ProviderSteps ==
  ASSUME MonitorInv, NEW a \in Attempts,
         Ready(a) \/ Fail(a) \/ Lose(a) \/ Finalize(a)
  PROVE  MonitorInv'
<1>1. /\ UNCHANGED <<rows, saved, created, worker>> /\ object[a] # None
      /\ \/ object' = [object EXCEPT ![a] = None]
         \/ \E x \in {"READY", "FAILED"} : object' = [object EXCEPT ![a].phase = x]
  BY ZenonT(60) DEF Ready, Fail, Lose, Finalize
<1>2. faults' \in 0..MaxFaults
  BY DEF Ready, Fail, Lose, Finalize, Fault, MonitorInv, TypeOK
<1>3. object \in [Attempts -> Objects \cup {None}] /\ created \in 0..MaxCreated
  BY ZenonT(60) DEF MonitorInv, TypeOK, Objects
<1>4. object[a] \in Objects
  BY ZenonT(60), <1>1, <1>3
<1>5. ProviderStep
  <2>1. CASE object' = [object EXCEPT ![a] = None]
    BY <1>1, <1>2, <1>3, <2>1 DEF ProviderStep, Objects
  <2>2. ASSUME NEW x \in {"READY", "FAILED"}, object' = [object EXCEPT ![a].phase = x]
        PROVE  ProviderStep
    <3>1. [object[a] EXCEPT !.phase = x] \in Objects /\ [object[a] EXCEPT !.phase = x].uid = object[a].uid
      BY ZenonT(60), <1>4, <2>2 DEF Objects
    <3>2. object' = [object EXCEPT ![a] = [object[a] EXCEPT !.phase = x]]
      BY ZenonT(60), <1>3, <2>2
    <3>. QED  BY <1>1, <1>2, <1>3, <3>1, <3>2 DEF ProviderStep
  <2>. QED  BY ZenonT(60), <1>1, <2>1, <2>2
<1>. QED  BY ZenonT(60), <1>1, <1>5, ProviderKeeps, NoWorkerMoves

\* The object of a binding is created: a provider step.
LEMMA CreationIsProviderStep ==
  ASSUME MonitorInv, NEW a \in Attempts, created < MaxCreated,
         created' = created + 1, UNCHANGED <<rows, saved>>,
         object' = [object EXCEPT ![a] = [uid |-> created + 1, phase |-> "PENDING"]],
         faults' \in 0..MaxFaults
  PROVE  ProviderStep /\ created + 1 \in Uids
<1>1. object \in [Attempts -> Objects \cup {None}] /\ created \in 0..MaxCreated
  BY ZenonT(60) DEF MonitorInv, TypeOK, Objects
<1>2. created + 1 \in Uids
  BY <1>1 DEF Uids
<1>3. [uid |-> created + 1, phase |-> "PENDING"] \in Objects
  BY ZenonT(60), <1>2 DEF Objects
<1>4. ASSUME NEW b \in Attempts, object'[b] # None
      PROVE  \/ created < object'[b].uid /\ object'[b].uid <= created'
             \/ object[b] # None /\ object'[b].uid = object[b].uid
  <2>1. CASE b = a
    BY <1>1, <2>1
  <2>2. CASE b # a
    BY ZenonT(60), <1>1, <1>4, <2>2
  <2>. QED  BY ZenonT(60), <2>1, <2>2
<1>. QED  BY <1>1, <1>2, <1>3, <1>4 DEF ProviderStep

\* Creation of the object, or adoption of the one that exists.
LEMMA CreateSteps ==
  ASSUME MonitorInv, NEW w \in Workers, CreateObject(w) \/ CreateAnswerLost(w)
  PROVE  MonitorInv'
<1>. DEFINE a == worker[w].a
            ref == worker[w].ref
<1>0. worker[w].pc = "create" /\ UNCHANGED <<rows, saved>>
  BY ZenonT(60) DEF CreateObject, CreateAnswerLost, At
<1>1. worker[w] \in WorkerRow /\ Knows(worker[w]) /\ a \in Attempts
      /\ attempt[a].state # "ABSENT" /\ binding[a].state # "ABSENT"
  BY ZenonT(60), <1>0 DEF MonitorInv, TypeOK, WorkerInv, Knows, WorkerRow
<1>2. faults' \in 0..MaxFaults
  BY DEF CreateObject, CreateAnswerLost, Fault, MonitorInv, TypeOK
<1>3. ASSUME UNCHANGED world, Report(w, "UNKNOWN") \/ Report(w, "SUSPECT")
      PROVE  MonitorInv'
  BY ZenonT(60), <1>0, <1>2, <1>3, ReportStep DEF Observations, Recoveries
<1>4. ASSUME UNCHANGED world, object[a] # None,
             Become(w, Holding(worker[w], "bind", object[a].uid))
      PROVE  MonitorInv'
  <2>1. object[a].uid \in Uids /\ object[a].uid <= created /\ object[a].uid # None
    BY <1>1, <1>4 DEF MonitorInv, TypeOK, BindingInv, Bound, Uids
  <2>2. Holding(worker[w], "bind", object[a].uid) \in WorkerRow
    BY ZenonT(60), <1>1, <2>1, HoldingRow DEF Pcs
  <2>3. Knows(Holding(worker[w], "bind", object[a].uid))
    BY ZenonT(60), <1>1, <2>1 DEF Knows, Holding
  <2>. QED  BY ZenonT(60), <1>0, <1>2, <1>4, <2>2, <2>3, WorkerStep
<1>5. ASSUME created < MaxCreated, created' = created + 1,
             object' = [object EXCEPT ![a] = [uid |-> created + 1, phase |-> "PENDING"]],
             \/ Become(w, Holding(worker[w], "bind", created + 1))
             \/ Report(w, "UNKNOWN")
      PROVE  MonitorInv'
  <2>1. ProviderStep /\ created + 1 \in Uids
    BY ZenonT(60), <1>0, <1>1, <1>2, <1>5, CreationIsProviderStep
  <2>2. Keeps /\ created' \in Nat
    BY ZenonT(60), <2>1, ProviderKeeps
  <2>3. PICK r \in WorkerRow :
          /\ Become(w, r) /\ r.a = a /\ r.pc \in {"bind", "record"}
          /\ r.pc = "bind" => r.ref = created + 1
          /\ r.pc = "record" => r.ref = None
          /\ r.obs = IF r.pc = "bind" THEN "NONE" ELSE "UNKNOWN"
    <3>1. CASE Become(w, Holding(worker[w], "bind", created + 1))
      BY <1>1, <2>1, <3>1, HoldingRow DEF Pcs, Holding
    <3>2. CASE Report(w, "UNKNOWN")
      BY <1>1, <3>2, ReportedRow DEF Observations, Report, Reported
    <3>. QED  BY ZenonT(60), <1>5, <3>1, <3>2
  <2>4. Knows(r)'
    <3>1. attempt'[a].state # "ABSENT" /\ binding'[a].state # "ABSENT"
      BY ZenonT(60), <1>0, <1>1 DEF rows, saved
    <3>2. r.ref # None => r.ref <= created'
      BY <1>5, <2>1, <2>2, <2>3 DEF Uids
    <3>3. r.pc = "bind" => r.ref # None
      BY <2>1, <2>3 DEF Uids
    <3>. HIDE DEF a
    <3>. QED  BY ZenonT(60), <1>1, <2>3, <3>1, <3>2, <3>3 DEF Knows
  <2>. QED  BY ZenonT(60), <2>1, <2>2, <2>3, <2>4, ProviderKeeps, WorkersKept
<1>6. CASE CreateAnswerLost(w)
  BY ZenonT(60), <1>5, <1>6 DEF CreateAnswerLost
<1>7. CASE CreateObject(w)
  BY ZenonT(60), <1>3, <1>4, <1>5, <1>7 DEF CreateObject
<1>. QED  BY ZenonT(60), <1>6, <1>7

\* Deletion of the bound object.
LEMMA DeleteStep ==
  ASSUME MonitorInv, NEW w \in Workers, DeleteObject(w)
  PROVE  MonitorInv'
<1>. DEFINE a == worker[w].a
<1>0. worker[w].pc = "delete" /\ UNCHANGED <<rows, saved, created, faults>>
  BY ZenonT(60) DEF DeleteObject, At
<1>1. worker[w] \in WorkerRow /\ Knows(worker[w]) /\ a \in Attempts
  BY <1>0 DEF MonitorInv, TypeOK, WorkerInv, Knows, WorkerRow
<1>2. faults' \in 0..MaxFaults
  BY ZenonT(60), <1>0 DEF MonitorInv, TypeOK
<1>3. CASE UNCHANGED object /\ (Goto(w, "confirm") \/ Report(w, "SUSPECT"))
  <2>1. CASE Goto(w, "confirm")
    BY ZenonT(60), <1>0, <1>2, <1>3, <2>1, GotoStep DEF world
  <2>2. CASE Report(w, "SUSPECT")
    BY ZenonT(60), <1>0, <1>2, <1>3, <2>2, ReportStep DEF world, Observations, Recoveries
  <2>. QED  BY ZenonT(60), <1>3, <2>1, <2>2
<1>4. CASE /\ object' = [object EXCEPT ![a].phase = "DELETING"]
           /\ Goto(w, "confirm") /\ Status(a) # "NOT_FOUND"
  <2>1. object \in [Attempts -> Objects \cup {None}] /\ created \in 0..MaxCreated
    BY ZenonT(60) DEF MonitorInv, TypeOK, Objects
  <2>2. object[a] \in Objects /\ object[a] # None
    BY ZenonT(60), <1>1, <1>4, <2>1 DEF Status
  <2>3. [object[a] EXCEPT !.phase = "DELETING"] \in Objects
        /\ [object[a] EXCEPT !.phase = "DELETING"].uid = object[a].uid
    BY ZenonT(60), <2>2 DEF Objects
  <2>4. object' = [object EXCEPT ![a] = [object[a] EXCEPT !.phase = "DELETING"]]
    BY ZenonT(60), <1>1, <1>4, <2>1
  <2>5. ProviderStep
    <3>. HIDE DEF a
    <3>. QED  BY <1>0, <1>1, <1>2, <2>1, <2>2, <2>3, <2>4 DEF ProviderStep
  <2>6. PICK r \in WorkerRow :
          /\ Become(w, r) /\ r.pc = "confirm" /\ r.a = a /\ r.ref = worker[w].ref
          /\ r.obs = worker[w].obs
    <3>1. /\ [worker[w] EXCEPT !.pc = "confirm"] \in WorkerRow
          /\ Become(w, [worker[w] EXCEPT !.pc = "confirm"])
      BY ZenonT(60), <1>4, GotoRow DEF Pcs, MonitorInv
    <3>. QED  BY ZenonT(60), <1>1, <3>1 DEF WorkerRow
  <2>7. Knows(r)'
    <3>. HIDE DEF a
    <3>1. /\ attempt'[a].state # "ABSENT" /\ binding'[a].state # "ABSENT"
          /\ cleanup'[a] # "NONE"
          /\ r.ref # None => r.ref <= created'
          /\ r.obs # "RELEASED" /\ r.a # None
      BY ZenonT(60), <1>0, <1>1, <2>6 DEF Knows, rows, saved, a
    <3>. QED  BY ZenonT(60), <2>6, <3>1 DEF Knows
  <2>. QED  BY ZenonT(60), <2>5, <2>6, <2>7, ProviderKeeps, WorkersKept
<1>. QED  BY ZenonT(60), <1>3, <1>4 DEF DeleteObject

\* BindReference
LEMMA BindStep ==
  ASSUME MonitorInv, NEW w \in Workers, BindReference(w)
  PROVE  MonitorInv'
<1>. DEFINE a == worker[w].a
            ref == worker[w].ref
<1>0. worker[w].pc = "bind" /\ UNCHANGED <<rows, cleanup, recover, work, world, faults>>
  BY ZenonT(60) DEF BindReference, At
<1>1. /\ worker[w] \in WorkerRow /\ Knows(worker[w]) /\ a \in Attempts
      /\ attempt[a].state # "ABSENT" /\ binding[a].state # "ABSENT"
      /\ ref \in Uids /\ ref # None /\ ref <= created
  BY <1>0 DEF MonitorInv, TypeOK, WorkerInv, Knows, WorkerRow
<1>2. faults' \in 0..MaxFaults
  BY ZenonT(60), <1>0 DEF MonitorInv, TypeOK
<1>3. CASE UNCHANGED binding /\ (Report(w, "PROVISIONING") \/ Report(w, "SUSPECT"))
  BY ZenonT(60), <1>0, <1>2, <1>3, ReportStep DEF saved, Observations, Recoveries
<1>4. CASE /\ binding[a].ref = None
           /\ binding' = [binding EXCEPT ![a].ref = ref]
           /\ worker' = Outdate([worker EXCEPT ![w] =
                                   Reported(worker[w], "PROVISIONING")], a)
  <2>. HIDE DEF a, ref
  <2>1. \A b \in Attempts : binding'[b] =
          IF b = a THEN [state |-> binding[a].state, ref |-> ref] ELSE binding[b]
    BY <1>1, <1>4 DEF MonitorInv, TypeOK
  <2>2. cleanup[a] = "NONE"
    BY <1>1, <1>4 DEF MonitorInv, BindingInv, Bound
  <2>3. Keeps /\ created' \in Nat
    BY <1>0, <1>1, <2>1, <2>2 DEF Keeps, Gone, rows, world, MonitorInv, TypeOK
  <2>4. PICK ws : ws = [worker EXCEPT ![w] = Reported(worker[w], "PROVISIONING")]
    BY ZenonT(60)
  <2>5. ws \in [Workers -> WorkerRow]
    <3>1. Reported(worker[w], "PROVISIONING") \in WorkerRow
      BY ZenonT(60), <1>1, ReportedRow DEF Observations
    <3>. QED  BY ZenonT(60), <2>4, <3>1 DEF MonitorInv, TypeOK
  <2>6. ASSUME NEW v \in Workers PROVE Knows(ws[v])
    <3>1. CASE v = w
      <4>1. ws[v] = Reported(worker[w], "PROVISIONING")
        BY ZenonT(60), <2>4, <3>1 DEF MonitorInv, TypeOK
      <4>. QED  BY <1>0, <1>1, <4>1 DEF Reported, Knows
    <3>2. CASE v # w
      BY ZenonT(60), <2>4, <3>2 DEF MonitorInv, TypeOK, WorkerInv
    <3>. QED  BY ZenonT(60), <3>1, <3>2
  <2>7. ASSUME NEW v \in Workers PROVE Knows(ws[v])'
    <3>1. \A x \in WorkerRow : Knows(x) => Knows(x)'
      BY <2>3, KnowsKept DEF MonitorInv, TypeOK
    <3>. QED  BY ZenonT(60), <2>5, <2>6, <3>1
  <2>8. worker' \in [Workers -> WorkerRow] /\ WorkerInv'
    BY ZenonT(60), <1>1, <1>4, <2>4, <2>5, <2>7, WorkersOutdated
  <2>9. TypeOK'
    <3>1. binding \in [Attempts -> [state: {"ABSENT", "REQUESTED", "UNKNOWN",
                         "PROVISIONING", "READY", "RELEASING", "RELEASED"},
                         ref: Uids \cup {None}]]
      BY ZenonT(60) DEF TypeOK, MonitorInv
    <3>2. binding' \in [Attempts -> [state: {"ABSENT", "REQUESTED", "UNKNOWN",
                         "PROVISIONING", "READY", "RELEASING", "RELEASED"},
                         ref: Uids \cup {None}]]
      BY <1>1, <1>4, <3>1
    <3>. QED  BY ZenonT(60), <1>0, <2>8, <3>2 DEF TypeOK, MonitorInv, rows, world
  <2>10. BindingInv'
    <3>. SUFFICES ASSUME NEW b \in Attempts PROVE Bound(b)'
      BY ZenonT(60) DEF BindingInv
    <3>1. Bound(b)
      BY ZenonT(60) DEF MonitorInv, BindingInv
    <3>. QED  BY <1>0, <1>1, <2>1, <2>2, <3>1 DEF Bound, Gone, rows, world
  <2>. QED  BY ZenonT(60), <1>0, <2>8, <2>9, <2>10, RowsKept DEF MonitorInv
<1>. QED  BY ZenonT(60), <1>3, <1>4 DEF BindReference

-----------------------------------------------------------------------------
(* Recovery.                                                               *)

\* What a step that may order a release does to Session, cleanup and recovery.
Recovers(a) ==
  /\ session' \in {session, [session EXCEPT !.state = "DEGRADED"]}
  /\ session' # session => session.state = "ACTIVE" /\ IsCurrent(a)
                           /\ recover'[a] \in Recoveries
  /\ recover' \in [Attempts -> {"NONE", "COMPLETED"} \cup Recoveries]
  /\ \A b \in Attempts : recover[b] # "NONE" => recover'[b] = recover[b]
  /\ cleanup' \in [Attempts -> {"NONE", "PENDING", "CONFIRMED", "QUARANTINED"}]
  /\ \A b \in Attempts : b # a => cleanup'[b] = cleanup[b]
  /\ cleanup[a] # "NONE" => cleanup'[a] # "NONE"
  /\ cleanup[a] = "CONFIRMED" => cleanup'[a] = "CONFIRMED"
  /\ cleanup'[a] # "NONE" => binding[a].ref # None
  /\ cleanup[a] = "NONE" /\ cleanup'[a] # "NONE" =>
       cleanup'[a] = "PENDING" /\ ~Current(a)'

\* OpenRecovery is such a step.
LEMMA OpenRecoveryRecovers ==
  ASSUME MonitorInv, NEW a \in Attempts, NEW obs \in Recoveries,
         ~ReleaseDesired(a), OpenRecovery(a, obs), UNCHANGED <<exec, attempt>>
  PROVE  Recovers(a)
<1>1. cleanup[a] = "NONE"
  BY ZenonT(60) DEF ReleaseDesired
<1>2. /\ recover \in [Attempts -> {"NONE", "COMPLETED"} \cup Recoveries]
      /\ cleanup \in [Attempts -> {"NONE", "PENDING", "CONFIRMED", "QUARANTINED"}]
      /\ session \in [state: {"IDLE", "ACTIVE", "DEGRADED", "SUSPENDED"}, generation: Nat]
  BY ZenonT(60) DEF MonitorInv, TypeOK
<1>3. CASE recover[a] # "NONE"
  BY ZenonT(60), <1>1, <1>2, <1>3 DEF OpenRecovery, Recovers
<1>4. CASE recover[a] = "NONE"
  <2>1. /\ recover' = [recover EXCEPT ![a] = obs]
        /\ session' = Degraded(a)
        /\ cleanup' = IF binding[a].ref = None THEN cleanup
                      ELSE [cleanup EXCEPT ![a] = "PENDING"]
    BY ZenonT(60), <1>4 DEF OpenRecovery
  <2>2. /\ session' \in {session, [session EXCEPT !.state = "DEGRADED"]}
        /\ session' # session => session.state = "ACTIVE" /\ IsCurrent(a)
    BY ZenonT(60), <2>1 DEF Degraded
  <2>3. ~Current(a)'
    BY ZenonT(60), <1>2, <2>1 DEF Degraded, Current, IsCurrent
  <2>. QED  BY ZenonT(60), <1>1, <1>2, <1>4, <2>1, <2>2, <2>3 DEF Recovers, Recoveries
<1>. QED  BY ZenonT(60), <1>3, <1>4

\* Such a step keeps the relations of Session, Execution, Attempts, cleanup and
\* recovery.
LEMMA RecoversKeeps ==
  ASSUME MonitorInv, NEW a \in Attempts, Recovers(a), UNCHANGED <<exec, attempt>>
  PROVE  /\ session' \in [state: {"IDLE", "ACTIVE", "DEGRADED", "SUSPENDED"},
                          generation: Nat]
         /\ session'.generation = session.generation
         /\ session'.state = "SUSPENDED" => session.state = "SUSPENDED"
         /\ EpochInv' /\ ReleaseExcludesWork' /\ DegradedHasRecovery'
<1>0. session \in [state: {"IDLE", "ACTIVE", "DEGRADED", "SUSPENDED"}, generation: Nat]
  BY ZenonT(60) DEF MonitorInv, TypeOK
<1>1. /\ session' \in [state: {"IDLE", "ACTIVE", "DEGRADED", "SUSPENDED"},
                       generation: Nat]
      /\ session'.generation = session.generation
      /\ session' # session => session.state = "ACTIVE" /\ session'.state = "DEGRADED"
  BY ZenonT(60), <1>0 DEF Recovers
<1>2. EpochInv'
  BY <1>1 DEF MonitorInv, EpochInv
<1>3. \A b \in Attempts : IsCurrent(b)' <=> IsCurrent(b)
  BY ZenonT(60), <1>1 DEF IsCurrent
<1>4. \A b \in Attempts : Current(b)' => Current(b)
  BY ZenonT(60), <1>1, <1>3 DEF Current
<1>5. ReleaseExcludesWork'
  <2>. SUFFICES ASSUME NEW b \in Attempts, cleanup'[b] # "NONE" PROVE ~Current(b)'
    BY ZenonT(60) DEF ReleaseExcludesWork, ReleaseDesired
  <2>1. CASE cleanup[b] # "NONE"
    BY ZenonT(60), <1>4, <2>1 DEF MonitorInv, ReleaseExcludesWork, ReleaseDesired
  <2>2. CASE cleanup[b] = "NONE"
    BY ZenonT(60), <2>2 DEF Recovers
  <2>. QED  BY ZenonT(60), <2>1, <2>2
<1>6. DegradedHasRecovery'
  <2>1. CASE session' # session
    BY ZenonT(60), <1>3, <2>1 DEF Recovers, DegradedHasRecovery
  <2>2. CASE session' = session
    <3>1. \A b \in Attempts : recover[b] \in Recoveries => recover'[b] \in Recoveries
      BY ZenonT(60) DEF Recovers, Recoveries
    <3>. QED  BY ZenonT(60), <1>3, <2>2, <3>1 DEF MonitorInv, DegradedHasRecovery
  <2>. QED  BY ZenonT(60), <2>1, <2>2
<1>. QED  BY ZenonT(60), <1>1, <1>2, <1>5, <1>6

\* An observation is recorded, or lost credentials are: one binding gets a new
\* state, everybody who loaded it is outdated, and recovery may be opened.
LEMMA RecordedKeeps ==
  ASSUME MonitorInv, NEW a \in Attempts, NEW state, Recovers(a),
         UNCHANGED <<exec, attempt, work, world, faults>>,
         state \in {"UNKNOWN", "PROVISIONING", "READY", "RELEASING", "RELEASED"},
         binding[a].state # "ABSENT",
         binding' = [binding EXCEPT ![a].state = state],
         state = "RELEASED" => cleanup'[a] = "CONFIRMED",
         cleanup'[a] = "CONFIRMED" => cleanup[a] = "CONFIRMED" \/ Gone(a),
         NEW ws \in [Workers -> WorkerRow],
         worker' = Outdate(ws, a), \A v \in Workers : Knows(ws[v])'
  PROVE  MonitorInv'
<1>1. \A b \in Attempts : binding'[b] =
        IF b = a THEN [state |-> state, ref |-> binding[a].ref] ELSE binding[b]
  BY DEF MonitorInv, TypeOK
<1>2. worker' \in [Workers -> WorkerRow] /\ WorkerInv'
  BY ZenonT(60), WorkersOutdated
<1>3. /\ session' \in [state: {"IDLE", "ACTIVE", "DEGRADED", "SUSPENDED"},
                       generation: Nat]
      /\ session'.state = "SUSPENDED" => session.state = "SUSPENDED"
      /\ EpochInv' /\ ReleaseExcludesWork' /\ DegradedHasRecovery'
  BY ZenonT(60), RecoversKeeps
<1>4. TypeOK'
  BY <1>2, <1>3 DEF TypeOK, MonitorInv, Recovers, world
<1>5. BindingInv'
  <2>. SUFFICES ASSUME NEW b \in Attempts PROVE Bound(b)'
    BY ZenonT(60) DEF BindingInv
  <2>1. Bound(b)
    BY ZenonT(60) DEF MonitorInv, BindingInv
  <2>2. Gone(b)' <=> Gone(b)
    BY <1>1 DEF Gone, world
  <2>3. CASE b # a
    <3>1. binding'[b] = binding[b] /\ cleanup'[b] = cleanup[b]
      BY ZenonT(60), <1>1, <2>3 DEF Recovers
    <3>. QED  BY ZenonT(60), <1>3, <2>1, <2>2, <3>1 DEF Bound, world
  <2>4. CASE b = a
    <3>1. binding'[a].state = state /\ binding'[a].ref = binding[a].ref
      BY <1>1
    <3>2. /\ cleanup[a] # "NONE" => cleanup'[a] # "NONE"
          /\ cleanup[a] = "CONFIRMED" => cleanup'[a] = "CONFIRMED"
          /\ cleanup'[a] # "NONE" => binding[a].ref # None
      BY ZenonT(60) DEF Recovers
    <3>3. state # "ABSENT"
      BY ZenonT(60)
    <3>. QED  BY ZenonT(60), <1>3, <2>1, <2>2, <2>4, <3>1, <3>2, <3>3 DEF Bound, world
  <2>. QED  BY ZenonT(60), <2>3, <2>4
<1>. QED  BY ZenonT(60), <1>2, <1>3, <1>4, <1>5 DEF MonitorInv

\* Such a step keeps what workers know.
LEMMA RecordedKnows ==
  ASSUME MonitorInv, NEW a \in Attempts, NEW state, Recovers(a),
         UNCHANGED <<attempt, world>>, state # "ABSENT",
         binding' = [binding EXCEPT ![a].state = state],
         NEW r \in WorkerRow, Knows(r)
  PROVE  Knows(r)'
<1>1. \A b \in Attempts :
        /\ binding'[b].ref = binding[b].ref
        /\ binding[b].state # "ABSENT" => binding'[b].state # "ABSENT"
  BY DEF MonitorInv, TypeOK
<1>2. \A b \in Attempts : Gone(b)' <=> Gone(b)
  BY ZenonT(60), <1>1 DEF Gone, world
<1>3. \A b \in Attempts :
        /\ cleanup[b] # "NONE" => cleanup'[b] # "NONE"
        /\ cleanup[b] = "CONFIRMED" => cleanup'[b] = "CONFIRMED"
  BY ZenonT(60) DEF Recovers
<1>4. Keeps /\ created' \in Nat /\ created \in Nat
  BY <1>1, <1>2, <1>3 DEF Keeps, world, MonitorInv, TypeOK
<1>. QED  BY ZenonT(60), <1>4, KnowsKept

\* RecordCompute
LEMMA RecordStep ==
  ASSUME MonitorInv, NEW w \in Workers, RecordCompute(w)
  PROVE  MonitorInv'
<1>1. /\ worker[w] \in WorkerRow /\ Knows(worker[w])
      /\ worker[w].pc = "record" /\ worker[w].fresh
  BY ZenonT(60) DEF MonitorInv, TypeOK, WorkerInv, RecordCompute, Recordable, At
<1>2. PICK a \in Attempts : a = worker[w].a
  BY ZenonT(60), <1>1 DEF Knows, WorkerRow
<1>3. PICK obs \in Observations : obs = worker[w].obs
  BY ZenonT(60), <1>1 DEF WorkerRow
<1>4. PICK state : state = RecordedState(obs)
  BY ZenonT(60)
<1>5. /\ attempt[a].state # "ABSENT" /\ binding[a].state # "ABSENT" /\ a # None
      /\ obs # "NONE"
      /\ obs = "RELEASED" => cleanup[a] # "NONE" /\ Gone(a)
  BY ZenonT(60), <1>1, <1>2, <1>3 DEF Knows
<1>6. /\ state \in {"UNKNOWN", "PROVISIONING", "READY", "RELEASING", "RELEASED"}
      /\ state = "RELEASED" <=> obs = "RELEASED"
  BY ZenonT(60), <1>4, <1>5 DEF RecordedState, Observations, Recoveries
<1>7. /\ UNCHANGED <<exec, attempt, work, world, faults>>
      /\ binding' = [binding EXCEPT ![a].state = state]
      /\ worker' = Outdate([worker EXCEPT ![w] = Finished(worker[w], obs)], a)
      /\ ReleaseDesired(a) => ReleaseAuthorized(a)
      /\ \/ obs \in Recoveries /\ ~ReleaseDesired(a) /\ OpenRecovery(a, obs)
         \/ /\ obs \in Recoveries /\ ReleaseDesired(a)
            /\ recover' = [recover EXCEPT ![a] = IF @ = "NONE" THEN obs ELSE @]
            /\ cleanup' = [cleanup EXCEPT ![a] =
                             IF @ = "PENDING" THEN "QUARANTINED" ELSE @]
            /\ UNCHANGED session
         \/ /\ obs = "RELEASED"
            /\ cleanup' = [cleanup EXCEPT ![a] =
                             IF @ = "PENDING" THEN "CONFIRMED" ELSE @]
            /\ UNCHANGED <<session, recover>>
         \/ /\ obs \notin Recoveries \cup {"RELEASED"}
            /\ UNCHANGED <<session, cleanup, recover>>
  BY ZenonT(60), <1>2, <1>3, <1>4 DEF RecordCompute, Recordable
<1>8. /\ Recovers(a)
      /\ obs = "RELEASED" => cleanup'[a] = "CONFIRMED"
      /\ cleanup'[a] = "CONFIRMED" => cleanup[a] = "CONFIRMED" \/ Gone(a)
  <2>0. /\ recover \in [Attempts -> {"NONE", "COMPLETED"} \cup Recoveries]
        /\ cleanup \in [Attempts -> {"NONE", "PENDING", "CONFIRMED", "QUARANTINED"}]
        /\ cleanup[a] # "NONE" => binding[a].ref # None
    BY ZenonT(60) DEF MonitorInv, TypeOK, BindingInv, Bound
  <2>1. CASE obs \in Recoveries /\ ~ReleaseDesired(a) /\ OpenRecovery(a, obs)
    <3>1. Recovers(a)
      BY ZenonT(60), <1>7, <2>1, OpenRecoveryRecovers
    <3>. QED  BY ZenonT(60), <2>1, <3>1 DEF Recovers, ReleaseDesired, Recoveries
  <2>2. CASE /\ obs \in Recoveries /\ ReleaseDesired(a)
             /\ recover' = [recover EXCEPT ![a] = IF @ = "NONE" THEN obs ELSE @]
             /\ cleanup' = [cleanup EXCEPT ![a] =
                              IF @ = "PENDING" THEN "QUARANTINED" ELSE @]
             /\ UNCHANGED session
    BY ZenonT(60), <2>0, <2>2 DEF Recovers, ReleaseDesired, Recoveries
  <2>3. CASE /\ obs = "RELEASED"
             /\ cleanup' = [cleanup EXCEPT ![a] =
                              IF @ = "PENDING" THEN "CONFIRMED" ELSE @]
             /\ UNCHANGED <<session, recover>>
    BY ZenonT(60), <1>5, <1>7, <2>0, <2>3 DEF Recovers, ReleaseDesired, ReleaseAuthorized
  <2>4. CASE /\ obs \notin Recoveries \cup {"RELEASED"}
             /\ UNCHANGED <<session, cleanup, recover>>
    BY ZenonT(60), <2>0, <2>4 DEF Recovers
  <2>. QED  BY ZenonT(60), <1>7, <2>1, <2>2, <2>3, <2>4
<1>9. PICK q \in WorkerRow : q = Finished(worker[w], obs)
  BY ZenonT(60), <1>1, FinishedRow
<1>10. PICK ws \in [Workers -> WorkerRow] : ws = [worker EXCEPT ![w] = q]
  BY ZenonT(60) DEF MonitorInv, TypeOK
<1>11. ASSUME NEW v \in Workers PROVE Knows(ws[v])'
  <2>1. CASE v = w
    <3>1. /\ ws[v] = q /\ q.pc = "finish" /\ q.a = a /\ q.obs = obs
          /\ q.ref = None /\ q.fresh = FALSE
      BY <1>2, <1>9, <1>10, <2>1 DEF MonitorInv, TypeOK, Finished
    <3>2. Gone(a)' <=> Gone(a)
      <4>1. binding'[a].ref = binding[a].ref
        BY <1>7 DEF MonitorInv, TypeOK
      <4>. QED  BY ZenonT(60), <1>7, <4>1 DEF Gone, world
    <3>3. attempt'[a].state # "ABSENT"
      BY ZenonT(60), <1>5, <1>7
    <3>4. obs = "RELEASED" => cleanup'[a] = "CONFIRMED" /\ Gone(a)'
      BY ZenonT(60), <1>5, <1>8, <3>2
    <3>. QED  BY ZenonT(60), <1>5, <3>1, <3>3, <3>4 DEF Knows
  <2>2. CASE v # w
    <3>1. ws[v] \in WorkerRow /\ Knows(ws[v])
      BY ZenonT(60), <1>10, <2>2 DEF MonitorInv, TypeOK, WorkerInv
    <3>2. \A x \in WorkerRow : Knows(x) => Knows(x)'
      BY ZenonT(60), <1>6, <1>7, <1>8, RecordedKnows
    <3>. QED  BY ZenonT(60), <3>1, <3>2
  <2>. QED  BY ZenonT(60), <2>1, <2>2
<1>12. worker' = Outdate(ws, a)
  BY ZenonT(60), <1>7, <1>9, <1>10
<1>. QED  BY ZenonT(60), <1>5, <1>6, <1>7, <1>8, <1>11, <1>12, RecordedKeeps

\* RecoverExpiredAgentd
LEMMA ExpiredStep ==
  ASSUME MonitorInv, NEW a \in Attempts, RecoverExpiredAgentd(a)
  PROVE  MonitorInv'
<1>1. /\ binding[a].ref # None /\ ~ReleaseDesired(a)
      /\ binding' = [binding EXCEPT ![a].state = "UNKNOWN"]
      /\ OpenRecovery(a, "SUSPECT") /\ worker' = Outdate(worker, a)
      /\ UNCHANGED <<exec, attempt, work, world, faults>>
  BY ZenonT(60) DEF RecoverExpiredAgentd
<1>2. Recovers(a)
  BY ZenonT(60), <1>1, OpenRecoveryRecovers DEF Recoveries
<1>3. binding[a].state # "ABSENT" /\ cleanup'[a] # "CONFIRMED"
  BY ZenonT(60), <1>1, <1>2 DEF MonitorInv, BindingInv, Bound, Recovers, ReleaseDesired
<1>4. PICK ws : ws = worker
  BY ZenonT(60)
<1>5. ws \in [Workers -> WorkerRow]
  BY ZenonT(60), <1>4 DEF MonitorInv, TypeOK
<1>6. ASSUME NEW v \in Workers PROVE Knows(ws[v])'
  <2>1. ws[v] \in WorkerRow /\ Knows(ws[v])
    BY ZenonT(60), <1>4 DEF MonitorInv, TypeOK, WorkerInv
  <2>2. \A x \in WorkerRow : Knows(x) => Knows(x)'
    BY ZenonT(60), <1>1, <1>2, RecordedKnows
  <2>. QED  BY ZenonT(60), <2>1, <2>2
<1>7. PICK state : state = "UNKNOWN"
  BY ZenonT(60)
<1>8. /\ state \in {"UNKNOWN", "PROVISIONING", "READY", "RELEASING", "RELEASED"}
      /\ state # "RELEASED" /\ binding' = [binding EXCEPT ![a].state = state]
      /\ worker' = Outdate(ws, a)
  BY ZenonT(60), <1>1, <1>4, <1>7
<1>. QED  BY ZenonT(60), <1>1, <1>2, <1>3, <1>5, <1>6, <1>8, RecordedKeeps

\* ReplaceDeleted
LEMMA ReplaceStep ==
  ASSUME MonitorInv, NEW w \in Workers, NEW a \in Attempts, NEW b \in Attempts,
         ReplaceDeleted(w, a, b)
  PROVE  MonitorInv'
<1>1. /\ session.state = "DEGRADED" /\ exec.state = "MATERIALIZING"
      /\ IsCurrent(a) /\ attempt[a].state = "PENDING" /\ cleanup[a] = "CONFIRMED"
      /\ attempt[b].state = "ABSENT" /\ a # b
  BY ZenonT(60) DEF ReplaceDeleted, Replaceable
<1>0. UNCHANGED <<exec, cleanup, object, created, faults>>
  BY ZenonT(60) DEF ReplaceDeleted, world
<1>2. /\ session' = [session EXCEPT !.state = "ACTIVE"]
      /\ attempt' = [attempt EXCEPT ![a].state = "REPLACED", ![b] =
                       [state |-> "PENDING", generation |-> session.generation]]
      /\ binding' = [binding EXCEPT ![b].state = "REQUESTED"]
      /\ work' = [work EXCEPT ![b] = "PENDING"]
      /\ recover' = [recover EXCEPT ![a] = "COMPLETED"]
      /\ Become(w, Started("load", b, FALSE))
  BY ZenonT(60) DEF ReplaceDeleted, ReplacedBy
<1>3. /\ session'.state = "ACTIVE" /\ session'.generation = session.generation
      /\ session' \in [state: {"IDLE", "ACTIVE", "DEGRADED", "SUSPENDED"}, generation: Nat]
  BY ZenonT(60), <1>2 DEF MonitorInv, TypeOK
<1>4. \A c \in Attempts :
        /\ attempt'[c].state = IF c = b THEN "PENDING"
                               ELSE IF c = a THEN "REPLACED" ELSE attempt[c].state
        /\ attempt'[c].generation =
             IF c = b THEN session.generation ELSE attempt[c].generation
  BY <1>1, <1>2 DEF MonitorInv, TypeOK, AttemptRow
<1>5. \A c \in Attempts :
        /\ binding'[c].state = IF c = b THEN "REQUESTED" ELSE binding[c].state
        /\ binding'[c].ref = binding[c].ref
  BY <1>2 DEF MonitorInv, TypeOK
<1>6. attempt' \in [Attempts -> AttemptRow]
  <2>1. attempt \in [Attempts -> AttemptRow] /\ session.generation \in Nat
    BY ZenonT(60) DEF MonitorInv, TypeOK
  <2>2. [attempt[a] EXCEPT !.state = "REPLACED"] \in AttemptRow
    BY ZenonT(60), <2>1 DEF AttemptRow
  <2>3. [state |-> "PENDING", generation |-> session.generation] \in AttemptRow
    BY ZenonT(60), <2>1 DEF AttemptRow
  <2>. QED  BY ZenonT(60), <1>1, <1>2, <2>1, <2>2, <2>3
<1>7. Keeps /\ created' \in Nat
  <2>1. created \in Nat
    BY DEF MonitorInv, TypeOK
  <2>. QED  BY <1>0, <1>1, <1>4, <1>5, <2>1 DEF Keeps, Gone
<1>8. worker' \in [Workers -> WorkerRow] /\ WorkerInv'
  <2>1. Started("load", b, FALSE) \in WorkerRow
    BY ZenonT(60), StartedRow DEF Pcs
  <2>2. Knows(Started("load", b, FALSE))'
    BY ZenonT(60), <1>4, <1>5 DEF Knows, Started
  <2>. QED  BY ZenonT(60), <1>2, <1>7, <2>1, <2>2, WorkersKept
<1>9. TypeOK'
  <2>1. binding' \in [Attempts -> [state: {"ABSENT", "REQUESTED", "UNKNOWN",
                       "PROVISIONING", "READY", "RELEASING", "RELEASED"},
                       ref: Uids \cup {None}]]
    <3>1. binding \in [Attempts -> [state: {"ABSENT", "REQUESTED", "UNKNOWN",
                         "PROVISIONING", "READY", "RELEASING", "RELEASED"},
                         ref: Uids \cup {None}]]
      BY ZenonT(60) DEF TypeOK, MonitorInv
    <3>2. binding' = [binding EXCEPT ![b].state = "REQUESTED"]
      BY ZenonT(60), <1>2
    <3>. QED  BY <3>1, <3>2
  <2>2. /\ work' \in [Attempts -> {"NONE", "PENDING", "COMPLETED"} \cup Workers]
        /\ recover' \in [Attempts -> {"NONE", "COMPLETED"} \cup Recoveries]
    BY ZenonT(60), <1>2 DEF TypeOK, MonitorInv
  <2>. QED  BY <1>0, <1>3, <1>6, <1>8, <2>1, <2>2 DEF TypeOK, MonitorInv
<1>10. attempt[a].generation = session.generation /\ session.generation \in Nat
  BY ZenonT(60), <1>1 DEF IsCurrent, MonitorInv, TypeOK
<1>11. \A c \in Attempts : c \notin {a, b} /\ attempt[c].state # "ABSENT"
         /\ attempt[c].generation = session.generation => attempt[c].state = "REPLACED"
  BY <1>1, <1>10 DEF MonitorInv, EpochInv
<1>12. EpochInv'
  <2>1. /\ (session.generation = 0 <=> exec.state = "NONE")'
        /\ (session.state \in {"ACTIVE", "DEGRADED"} <=> exec.state \notin {"NONE", "ENDED"})'
    BY ZenonT(60), <1>0, <1>1, <1>3 DEF MonitorInv, EpochInv
  <2>2. ASSUME NEW c \in Attempts
        PROVE  /\ attempt'[c].generation <= session'.generation
               /\ attempt'[c].state \in {"PENDING", "RUNNING"} =>
                    /\ attempt'[c].generation = session'.generation
                    /\ exec'.state \notin {"NONE", "ENDED"}
               /\ attempt'[c].state = "ENDED"
                    /\ attempt'[c].generation = session'.generation
                  => exec'.state = "ENDED"
    BY <1>0, <1>1, <1>3, <1>4, <1>10 DEF MonitorInv, EpochInv
  <2>3. ASSUME NEW c \in Attempts, NEW d \in Attempts,
               "ABSENT" \notin {attempt'[c].state, attempt'[d].state},
               attempt'[c].generation = attempt'[d].generation
        PROVE  c = d \/ "REPLACED" \in {attempt'[c].state, attempt'[d].state}
    BY <1>4, <1>10, <1>11, <2>3 DEF MonitorInv, EpochInv
  <2>. QED  BY ZenonT(60), <2>1, <2>2, <2>3 DEF EpochInv
<1>13. BindingInv'
  <2>. SUFFICES ASSUME NEW c \in Attempts PROVE Bound(c)'
    BY ZenonT(60) DEF BindingInv
  <2>1. Bound(c)
    BY ZenonT(60) DEF MonitorInv, BindingInv
  <2>2. work'[c] = IF c = b THEN "PENDING" ELSE work[c]
    BY ZenonT(60), <1>2 DEF MonitorInv, TypeOK
  <2>3. Gone(c)' <=> Gone(c)
    BY ZenonT(60), <1>0, <1>5 DEF Gone
  <2>. QED  BY <1>0, <1>1, <1>3, <1>4, <1>5, <2>1, <2>2, <2>3 DEF Bound
<1>14. ReleaseExcludesWork'
  <2>. SUFFICES ASSUME NEW c \in Attempts, cleanup'[c] # "NONE", Current(c)' PROVE FALSE
    BY ZenonT(60) DEF ReleaseExcludesWork, ReleaseDesired
  <2>1. cleanup[b] = "NONE"
    BY ZenonT(60), <1>1 DEF MonitorInv, BindingInv, Bound
  <2>2. c # b /\ c # a
    BY ZenonT(60), <1>0, <1>1, <1>4, <2>1 DEF Current, IsCurrent
  <2>3. attempt[c].state \in {"PENDING", "RUNNING"} /\ attempt[c].generation = session.generation
    BY ZenonT(60), <1>3, <1>4, <2>2 DEF Current, IsCurrent
  <2>. QED  BY ZenonT(60), <1>11, <2>2, <2>3
<1>15. DegradedHasRecovery'
  BY ZenonT(60), <1>3 DEF DegradedHasRecovery
<1>. QED  BY ZenonT(60), <1>8, <1>9, <1>12, <1>13, <1>14, <1>15 DEF MonitorInv

\* Suspend
LEMMA SuspendStep ==
  ASSUME MonitorInv, Suspend
  PROVE  MonitorInv'
<1>. DEFINE ordered == {a \in Retained : ~ReleaseDesired(a)}
<1>1. /\ session.state = "IDLE"
      /\ \A a \in Retained : binding[a].ref # None
      /\ session' = [session EXCEPT !.state = "SUSPENDED"]
      /\ cleanup' = [a \in Attempts |-> IF a \in ordered THEN "PENDING" ELSE cleanup[a]]
      /\ worker' = [w \in Workers |->
           IF worker[w].a \in ordered THEN [worker[w] EXCEPT !.fresh = FALSE]
                                      ELSE worker[w]]
      /\ UNCHANGED <<exec, attempt, binding, recover, work, world, faults>>
  BY ZenonT(60) DEF Suspend
<1>2. /\ session'.state = "SUSPENDED" /\ session'.generation = session.generation
      /\ session' \in [state: {"IDLE", "ACTIVE", "DEGRADED", "SUSPENDED"}, generation: Nat]
  BY ZenonT(60), <1>1 DEF MonitorInv, TypeOK
<1>3. \A a \in ordered : a \in Attempts /\ cleanup[a] = "NONE" /\ binding[a].ref # None
                         /\ binding[a].state \notin {"ABSENT", "RELEASED"}
  BY ZenonT(60), <1>1 DEF Retained, ReleaseDesired
<1>4. \A a \in Attempts : cleanup[a] = "NONE" /\ binding[a].state \notin {"ABSENT", "RELEASED"}
        => a \in ordered
  BY ZenonT(60) DEF Retained, ReleaseDesired
<1>. HIDE DEF ordered
<1>5. Keeps /\ created' \in Nat /\ created \in Nat
  BY <1>1, <1>3 DEF Keeps, Gone, world, MonitorInv, TypeOK
<1>6. \A v \in Workers : worker'[v] \in {worker[v], [worker[v] EXCEPT !.fresh = FALSE]}
  BY ZenonT(60), <1>1
<1>7. worker' \in [Workers -> WorkerRow]
  <2>1. \A v \in Workers : worker'[v] \in WorkerRow
    BY <1>6, OtherRows DEF MonitorInv, TypeOK
  <2>. QED  BY ZenonT(60), <1>1, <2>1
<1>8. WorkerInv'
  <2>. SUFFICES ASSUME NEW v \in Workers PROVE Knows(worker[v])'
    BY ZenonT(60) DEF WorkerInv
  <2>1. PICK q \in WorkerRow : q = worker[v] /\ Knows(q)
    BY ZenonT(60) DEF MonitorInv, TypeOK, WorkerInv
  <2>2. Knows(q)'
    BY ZenonT(60), <1>5, <2>1, KnowsKept
  <2>3. /\ worker'[v].pc = q.pc /\ worker'[v].a = q.a
        /\ worker'[v].ref = q.ref /\ worker'[v].obs = q.obs
        /\ worker'[v].fresh \in {q.fresh, FALSE}
    <3>1. CASE worker'[v] = q
      BY ZenonT(60), <3>1 DEF WorkerRow
    <3>2. CASE worker'[v] = [q EXCEPT !.fresh = FALSE]
      BY ZenonT(60), <3>2 DEF WorkerRow
    <3>. QED  BY ZenonT(60), <1>6, <2>1, <3>1, <3>2
  <2>. QED  BY ZenonT(60), <2>2, <2>3 DEF Knows, Gone
<1>9. TypeOK'
  BY ZenonT(60), <1>1, <1>2, <1>7 DEF TypeOK, MonitorInv, world
<1>10. EpochInv'
  BY <1>1, <1>2 DEF MonitorInv, EpochInv
<1>11. BindingInv'
  <2>. SUFFICES ASSUME NEW a \in Attempts PROVE Bound(a)'
    BY ZenonT(60) DEF BindingInv
  <2>1. Bound(a)
    BY ZenonT(60) DEF MonitorInv, BindingInv
  <2>2. cleanup'[a] = IF a \in ordered THEN "PENDING" ELSE cleanup[a]
    BY ZenonT(60), <1>1
  <2>3. Gone(a)' <=> Gone(a)
    BY ZenonT(60), <1>1 DEF Gone, world
  <2>. QED  BY ZenonT(60), <1>1, <1>3, <1>4, <2>1, <2>2, <2>3 DEF Bound, world
<1>12. ReleaseExcludesWork' /\ DegradedHasRecovery'
  BY ZenonT(60), <1>2 DEF ReleaseExcludesWork, DegradedHasRecovery, Current
<1>. QED  BY ZenonT(60), <1>7, <1>8, <1>9, <1>10, <1>11, <1>12 DEF MonitorInv

-----------------------------------------------------------------------------
(* Steps of Session, Execution and Attempts.                               *)

\* A step of the rows alone keeps what bindings and workers say of them.
LEMMA RowsAlone ==
  ASSUME MonitorInv, UNCHANGED <<saved, world, worker, faults>>,
         \A a \in Attempts :
           /\ attempt'[a].state = "ABSENT" => attempt[a].state = "ABSENT"
           /\ attempt'[a].state = "REPLACED" => attempt[a].state = "REPLACED",
         session'.state = "SUSPENDED" => session.state = "SUSPENDED"
  PROVE  BindingInv' /\ WorkerInv'
<1>1. BindingInv'
  <2>. SUFFICES ASSUME NEW a \in Attempts PROVE Bound(a)'
    BY ZenonT(60) DEF BindingInv
  <2>1. Bound(a)
    BY ZenonT(60) DEF MonitorInv, BindingInv
  <2>2. Gone(a)' <=> Gone(a)
    BY ZenonT(60) DEF Gone, saved, world
  <2>. QED  BY ZenonT(60), <2>1, <2>2 DEF Bound, saved, world
<1>2. Keeps /\ created' \in Nat
  <2>1. created \in Nat
    BY DEF MonitorInv, TypeOK
  <2>. QED  BY <2>1 DEF Keeps, Gone, saved, world
<1>. QED  BY ZenonT(60), <1>1, <1>2, NoWorkerMoves

\* Admit
LEMMA AdmitStep ==
  ASSUME MonitorInv, Admit
  PROVE  MonitorInv'
<1>1. /\ session.state = "IDLE"
      /\ session' = [state |-> "ACTIVE", generation |-> session.generation + 1]
      /\ exec' = [state |-> "MATERIALIZING", overdue |-> FALSE, engaged |-> FALSE]
      /\ UNCHANGED <<attempt, saved, world, worker, faults>>
  BY ZenonT(60) DEF Admit
<1>2. session.generation \in Nat /\ exec.state \in {"NONE", "ENDED"}
  BY <1>1 DEF MonitorInv, TypeOK, EpochInv
<1>3. \A a \in Attempts : attempt[a].generation <= session.generation
        /\ attempt[a].generation \in Nat /\ attempt[a].state \notin {"PENDING", "RUNNING"}
  BY ZenonT(60), <1>2 DEF MonitorInv, TypeOK, AttemptRow, EpochInv
<1>4. TypeOK'
  BY <1>1, <1>2 DEF MonitorInv, TypeOK, saved, world
<1>5. EpochInv'
  BY <1>1, <1>2, <1>3 DEF MonitorInv, EpochInv
<1>6. BindingInv' /\ WorkerInv'
  BY ZenonT(60), <1>1, RowsAlone
<1>7. ReleaseExcludesWork' /\ DegradedHasRecovery'
  BY ZenonT(60), <1>1, <1>3 DEF ReleaseExcludesWork, DegradedHasRecovery, Current, IsCurrent
<1>. QED  BY ZenonT(60), <1>4, <1>5, <1>6, <1>7 DEF MonitorInv

\* AddAttempt
LEMMA AddAttemptStep ==
  ASSUME MonitorInv, NEW a \in Attempts, AddAttempt(a)
  PROVE  MonitorInv'
<1>1. /\ session.state = "ACTIVE" /\ exec.state = "MATERIALIZING"
      /\ attempt[a].state = "ABSENT" /\ \A b \in Attempts : ~IsCurrent(b)
      /\ attempt' = [attempt EXCEPT ![a] =
                       [state |-> "PENDING", generation |-> session.generation]]
      /\ UNCHANGED <<session, exec, saved, world, worker, faults>>
  BY ZenonT(60) DEF AddAttempt
<1>2. \A c \in Attempts : attempt'[c] =
        IF c = a THEN [state |-> "PENDING", generation |-> session.generation]
                 ELSE attempt[c]
  BY ZenonT(60), <1>1 DEF MonitorInv, TypeOK
<1>3. session.generation \in Nat
  BY ZenonT(60) DEF MonitorInv, TypeOK
<1>4. TypeOK'
  <2>1. attempt' \in [Attempts -> AttemptRow]
    BY ZenonT(60), <1>1, <1>3 DEF MonitorInv, TypeOK, AttemptRow
  <2>. QED  BY ZenonT(60), <1>1, <2>1 DEF MonitorInv, TypeOK, saved, world
<1>5. \A c \in Attempts : attempt[c].state # "ABSENT"
        /\ attempt[c].generation = session.generation => attempt[c].state = "REPLACED"
  BY <1>1 DEF MonitorInv, TypeOK, AttemptRow, EpochInv, IsCurrent
<1>6. EpochInv'
  <2>1. /\ (session.generation = 0 <=> exec.state = "NONE")'
        /\ (session.state \in {"ACTIVE", "DEGRADED"} <=> exec.state \notin {"NONE", "ENDED"})'
    BY ZenonT(60), <1>1 DEF MonitorInv, EpochInv
  <2>2. ASSUME NEW c \in Attempts
        PROVE  /\ attempt'[c].generation <= session'.generation
               /\ attempt'[c].state \in {"PENDING", "RUNNING"} =>
                    /\ attempt'[c].generation = session'.generation
                    /\ exec'.state \notin {"NONE", "ENDED"}
               /\ attempt'[c].state = "ENDED"
                    /\ attempt'[c].generation = session'.generation
                  => exec'.state = "ENDED"
    BY <1>1, <1>2, <1>3 DEF MonitorInv, EpochInv
  <2>3. ASSUME NEW c \in Attempts, NEW d \in Attempts,
               "ABSENT" \notin {attempt'[c].state, attempt'[d].state},
               attempt'[c].generation = attempt'[d].generation
        PROVE  c = d \/ "REPLACED" \in {attempt'[c].state, attempt'[d].state}
    BY <1>2, <1>5, <2>3 DEF MonitorInv, EpochInv
  <2>. QED  BY ZenonT(60), <2>1, <2>2, <2>3 DEF EpochInv
<1>7. BindingInv' /\ WorkerInv'
  BY <1>1, <1>2, RowsAlone
<1>8. ReleaseExcludesWork'
  <2>1. cleanup[a] = "NONE"
    BY ZenonT(60), <1>1 DEF MonitorInv, BindingInv, Bound
  <2>. QED  BY <1>1, <1>2, <2>1
            DEF ReleaseExcludesWork, ReleaseDesired, Current, IsCurrent, saved
<1>9. DegradedHasRecovery'
  BY ZenonT(60), <1>1 DEF DegradedHasRecovery
<1>. QED  BY ZenonT(60), <1>4, <1>6, <1>7, <1>8, <1>9 DEF MonitorInv

\* Engage, Run, Cancel and Expire
LEMMA ExecutionSteps ==
  ASSUME MonitorInv,
         Cancel \/ Expire \/ \E a \in Attempts : Engage(a) \/ Run(a)
  PROVE  MonitorInv'
<1>1. UNCHANGED <<session, saved, world, worker, faults>>
  BY ZenonT(60) DEF Cancel, Expire, Engage, Run
<1>2. exec.state \in {"MATERIALIZING", "RUNNING"}
  BY ZenonT(60) DEF Cancel, Expire, Engage, Run, Current
<1>3. /\ exec' \in [state: {"MATERIALIZING", "RUNNING", "CANCELLING"},
                    overdue: BOOLEAN, engaged: BOOLEAN]
      /\ exec.overdue => exec'.overdue
  BY ZenonT(60), <1>2 DEF Cancel, Expire, Engage, Run, Current, MonitorInv, TypeOK
<1>4. /\ attempt' \in [Attempts -> AttemptRow]
      /\ \A c \in Attempts : /\ attempt'[c].generation = attempt[c].generation
                             /\ attempt'[c].state # attempt[c].state =>
                                  attempt'[c].state = "RUNNING" /\ Current(c)
  <2>1. UNCHANGED attempt \/ \E a \in Attempts :
          Current(a) /\ attempt' = [attempt EXCEPT ![a].state = "RUNNING"]
    BY ZenonT(60) DEF Cancel, Expire, Engage, Run
  <2>2. attempt \in [Attempts -> AttemptRow]
    BY ZenonT(60) DEF MonitorInv, TypeOK
  <2>3. ASSUME NEW a \in Attempts, attempt' = [attempt EXCEPT ![a].state = "RUNNING"]
        PROVE  /\ attempt' \in [Attempts -> AttemptRow]
               /\ \A c \in Attempts :
                    /\ attempt'[c].generation = attempt[c].generation
                    /\ attempt'[c].state = IF c = a THEN "RUNNING" ELSE attempt[c].state
    BY ZenonT(60), <2>2, <2>3 DEF AttemptRow
  <2>. QED  BY ZenonT(60), <2>1, <2>2, <2>3
<1>5. \A c \in Attempts : IsCurrent(c)' <=> IsCurrent(c)
  BY ZenonT(60), <1>1, <1>4 DEF IsCurrent, Current
<1>6. TypeOK'
  BY ZenonT(60), <1>1, <1>3, <1>4 DEF MonitorInv, TypeOK, saved, world
<1>7. EpochInv'
  BY <1>1, <1>2, <1>3, <1>4 DEF MonitorInv, EpochInv, Current, IsCurrent
<1>8. BindingInv' /\ WorkerInv'
  BY ZenonT(60), <1>1, <1>4, RowsAlone
<1>9. ReleaseExcludesWork'
  BY ZenonT(60), <1>1, <1>2, <1>3, <1>5 DEF MonitorInv, ReleaseExcludesWork, ReleaseDesired, Current, saved
<1>10. DegradedHasRecovery'
  BY ZenonT(60), <1>1, <1>5 DEF MonitorInv, DegradedHasRecovery, saved
<1>. QED  BY ZenonT(60), <1>6, <1>7, <1>8, <1>9, <1>10 DEF MonitorInv

\* Finish
LEMMA FinishStep ==
  ASSUME MonitorInv, Finish
  PROVE  MonitorInv'
<1>1. /\ session.state = "ACTIVE" /\ exec.state \in {"RUNNING", "CANCELLING"}
      /\ session' = [session EXCEPT !.state = "IDLE"]
      /\ exec' = [state |-> "ENDED", overdue |-> FALSE, engaged |-> FALSE]
      /\ attempt' = [a \in Attempts |->
           IF IsCurrent(a) THEN [attempt[a] EXCEPT !.state = "ENDED"] ELSE attempt[a]]
      /\ UNCHANGED <<saved, world, worker, faults>>
  BY ZenonT(60) DEF Finish
<1>2. /\ session'.state = "IDLE" /\ session'.generation = session.generation
      /\ session' \in [state: {"IDLE", "ACTIVE", "DEGRADED", "SUSPENDED"}, generation: Nat]
  BY ZenonT(60), <1>1 DEF MonitorInv, TypeOK
<1>3. \A c \in Attempts :
        /\ attempt'[c] \in AttemptRow
        /\ attempt'[c].generation = attempt[c].generation
        /\ attempt'[c].state = IF IsCurrent(c) THEN "ENDED" ELSE attempt[c].state
  BY <1>1 DEF MonitorInv, TypeOK, AttemptRow
<1>4. TypeOK'
  <2>1. attempt' \in [Attempts -> AttemptRow]
    BY ZenonT(60), <1>1, <1>3
  <2>. QED  BY ZenonT(60), <1>1, <1>2, <2>1 DEF MonitorInv, TypeOK, saved, world
<1>5. EpochInv'
  <2>1. session.generation # 0
    BY ZenonT(60), <1>1 DEF MonitorInv, EpochInv
  <2>. QED  BY <1>1, <1>2, <1>3, <2>1 DEF MonitorInv, EpochInv, IsCurrent
<1>6. BindingInv' /\ WorkerInv'
  BY <1>1, <1>2, <1>3, RowsAlone DEF IsCurrent
<1>7. ReleaseExcludesWork' /\ DegradedHasRecovery'
  BY ZenonT(60), <1>2 DEF ReleaseExcludesWork, DegradedHasRecovery, Current
<1>. QED  BY ZenonT(60), <1>4, <1>5, <1>6, <1>7 DEF MonitorInv

-----------------------------------------------------------------------------
(* The invariant.                                                          *)

\* The initial state satisfies the invariant.
LEMMA InitMonitor == Init => MonitorInv
<1>. SUFFICES ASSUME Init PROVE MonitorInv
  BY ZenonT(60)
<1>1. TypeOK
  <2>1. worker \in [Workers -> WorkerRow]
    BY ZenonT(60), OtherRows DEF Init
  <2>. QED  BY <2>1 DEF Init, TypeOK, AttemptRow
<1>2. EpochInv
  BY DEF Init, EpochInv
<1>3. BindingInv
  BY ZenonT(60) DEF Init, BindingInv, Bound, Gone
<1>4. WorkerInv
  BY ZenonT(60) DEF Init, WorkerInv, Knows, Idle
<1>5. ReleaseExcludesWork /\ DegradedHasRecovery
  BY ZenonT(60) DEF Init, ReleaseExcludesWork, ReleaseDesired, DegradedHasRecovery
<1>. QED  BY ZenonT(60), <1>1, <1>2, <1>3, <1>4, <1>5 DEF MonitorInv

\* Every step keeps the invariant.
LEMMA NextMonitor == MonitorInv /\ [Next]_vars => MonitorInv'
<1>. SUFFICES ASSUME MonitorInv, [Next]_vars PROVE MonitorInv'
  BY ZenonT(60)
<1>1. CASE UNCHANGED vars
  <2>1. worker' \in [Workers -> WorkerRow] /\ WorkerInv'
    BY <1>1, NoWorkerMoves DEF Keeps, Gone, vars, MonitorInv, TypeOK
  <2>2. EpochInv' /\ ReleaseExcludesWork' /\ DegradedHasRecovery'
    BY ZenonT(60), <1>1, RowsKept DEF vars, rows
  <2>3. TypeOK' /\ BindingInv'
    BY <1>1 DEF vars, MonitorInv, TypeOK, BindingInv, Bound, Gone
  <2>. QED  BY ZenonT(60), <2>1, <2>2, <2>3 DEF MonitorInv
<1>2. ASSUME NEW w \in Workers, Reconcile(w) PROVE MonitorInv'
  BY ZenonT(60), <1>2, ReadSteps, ReserveStep, CreateSteps, BindStep, DeleteStep, RecordStep, QueueSteps
     DEF Reconcile
<1>3. ASSUME NEW w \in Workers,
             \/ Unavailable(w) \/ StoreError(w) \/ AuthorityDenied(w)
             \/ Unverified(w) \/ CreateAnswerLost(w) \/ Crash(w)
      PROVE  MonitorInv'
  BY ZenonT(60), <1>3, FaultSteps, CreateSteps
<1>4. ASSUME NEW w \in Workers, NEW a \in Attempts,
             ClaimCompute(w, a) \/ MaintainRelease(w, a) \/ StartAcquire(w, a)
      PROVE  MonitorInv'
  BY ZenonT(60), <1>4, QueueSteps, StartSteps
<1>5. ASSUME NEW a \in Attempts, Ready(a) \/ Fail(a) \/ Lose(a) \/ Finalize(a)
      PROVE  MonitorInv'
  BY ZenonT(60), <1>5, ProviderSteps
<1>6. ASSUME NEW a \in Attempts,
             RecoverExpiredAgentd(a) \/ AddAttempt(a) \/ Engage(a) \/ Run(a)
      PROVE  MonitorInv'
  BY ZenonT(60), <1>6, ExpiredStep, AddAttemptStep, ExecutionSteps
<1>7. CASE Suspend \/ Admit \/ Cancel \/ Expire \/ Finish
  BY ZenonT(60), <1>7, SuspendStep, AdmitStep, ExecutionSteps, FinishStep
<1>. QED  BY ZenonT(60), <1>1, <1>2, <1>3, <1>4, <1>5, <1>6, <1>7, ReplaceStep DEF Next

\* Session, Attempts, bindings, release, recovery and workers agree at all
\* times, whatever stale workers do.
THEOREM MonitorInvariant == Spec => []MonitorInv
BY InitMonitor, NextMonitor, PTL DEF Spec

\* A confirmed cleanup means that the object the binding owned is gone.
THEOREM ConfirmationIsPhysical == Spec => []ConfirmedIsGone
<1>1. MonitorInv => ConfirmedIsGone
  BY ZenonT(60) DEF MonitorInv, BindingInv, Bound, Gone, ConfirmedIsGone
<1>. QED  BY <1>1, MonitorInvariant, PTL

\* A binding ordered to be released never has authority to work.
THEOREM ReleaseTakesAuthority == Spec => []ReleaseExcludesWork
<1>1. MonitorInv => ReleaseExcludesWork
  BY ZenonT(60) DEF MonitorInv
<1>. QED  BY <1>1, MonitorInvariant, PTL

\* A degraded Session has open recovery work on its current Attempt.
THEOREM DegradedIsRecoverable == Spec => []DegradedHasRecovery
<1>1. MonitorInv => DegradedHasRecovery
  BY ZenonT(60) DEF MonitorInv
<1>. QED  BY <1>1, MonitorInvariant, PTL

\* A binding is monitored until its release is confirmed.
THEOREM MonitoringIsComplete == Spec => []MonitoredUntilReleased
<1>1. MonitorInv => MonitoredUntilReleased
  BY ZenonT(60) DEF MonitorInv, BindingInv, Bound, MonitoredUntilReleased
<1>. QED  BY <1>1, MonitorInvariant, PTL

\* A suspended Session leaves no object it owns without an ordered release.
THEOREM SuspensionOrdersRelease == Spec => []SuspendedOrdersRelease
<1>1. MonitorInv => SuspendedOrdersRelease
  <2>. SUFFICES ASSUME MonitorInv, session.state = "SUSPENDED", NEW a \in Attempts,
                       object[a] # None, object[a].uid = binding[a].ref
                PROVE  cleanup[a] \in {"PENDING", "QUARANTINED"}
    BY ZenonT(60) DEF SuspendedOrdersRelease
  <2>1. Bound(a) /\ cleanup[a] \in {"NONE", "PENDING", "CONFIRMED", "QUARANTINED"}
    BY ZenonT(60) DEF MonitorInv, BindingInv, TypeOK
  <2>2. binding[a].ref # None
    BY DEF MonitorInv, TypeOK, Uids
  <2>. QED  BY ZenonT(60), <2>1, <2>2 DEF Bound, Gone
<1>. QED  BY <1>1, MonitorInvariant, PTL

\* An Execution never has two bound objects at a time.
THEOREM ComputeIsUnique == Spec => []OneComputePerExecution
<1>1. MonitorInv => OneComputePerExecution
  <2>. SUFFICES ASSUME MonitorInv, NEW a \in Attempts, NEW b \in Attempts,
                       object[a] # None, object[a].uid = binding[a].ref,
                       object[b] # None, object[b].uid = binding[b].ref,
                       attempt[a].generation = attempt[b].generation
                PROVE  a = b
    BY ZenonT(60) DEF OneComputePerExecution
  <2>1. ASSUME NEW c \in {a, b} PROVE attempt[c].state \notin {"ABSENT", "REPLACED"}
    <3>1. Bound(c) /\ ~Gone(c)
      BY ZenonT(60) DEF MonitorInv, BindingInv, Gone
    <3>2. binding[c].ref # None
      BY DEF MonitorInv, TypeOK, Uids
    <3>. QED  BY ZenonT(60), <3>1, <3>2 DEF Bound
  <2>. QED  BY <2>1 DEF MonitorInv, EpochInv
<1>. QED  BY <1>1, MonitorInvariant, PTL

-----------------------------------------------------------------------------
(* The monitor keeps the single-writer promise.                            *)

\* The abstract writer: the Attempts that ever acted and the Execution that acts.
LEMMA AbstractWriter ==
  ASSUME MonitorInv
  PROVE  /\ session.state \in {"ACTIVE", "DEGRADED"} =>
              exec.state \notin {"NONE", "ENDED"} /\ session.generation # 0
         /\ session.state \notin {"ACTIVE", "DEGRADED"} => exec.state \in {"NONE", "ENDED"}
BY ZenonT(60) DEF MonitorInv, EpochInv

\* A step that leaves the rows alone is no step of the abstract writer.
LEMMA RowsStutter ==
  ASSUME UNCHANGED rows
  PROVE  UNCHANGED Promise!abstract
BY ZenonT(60) DEF rows, Promise!abstract, CurrentAttempts, IsCurrent

\* Recovery pauses the writer, or changes nothing about it.
LEMMA RecoveryPauses ==
  ASSUME MonitorInv, NEW a \in Attempts, UNCHANGED <<exec, attempt>>,
         session' = session \/ session' = Degraded(a)
  PROVE  [Promise!Next]_Promise!abstract
<1>1. CASE session' = session
  BY ZenonT(60), <1>1, RowsStutter DEF rows
<1>2. CASE session' # session
  <2>1. session.state = "ACTIVE" /\ session' = [session EXCEPT !.state = "DEGRADED"]
    BY ZenonT(60), <1>2 DEF Degraded
  <2>2. session'.state = "DEGRADED" /\ session'.generation = session.generation
    BY ZenonT(60), <2>1 DEF MonitorInv, TypeOK
  <2>3. CurrentAttempts' = CurrentAttempts
    BY ZenonT(60), <2>2 DEF CurrentAttempts, IsCurrent
  <2>4. Promise!Pause
    BY ZenonT(60), <2>1, <2>2, <2>3, AbstractWriter DEF Promise!Pause
  <2>. QED  BY ZenonT(60), <2>4 DEF Promise!Next
<1>. QED  BY ZenonT(60), <1>1, <1>2

\* A replacement replaces the agent of a paused writer.
LEMMA ReplacementReplaces ==
  ASSUME MonitorInv, NEW w \in Workers, NEW a \in Attempts, NEW b \in Attempts,
         ReplaceDeleted(w, a, b)
  PROVE  Promise!Replace(b)
<1>1. /\ session.state = "DEGRADED" /\ IsCurrent(a) /\ attempt[b].state = "ABSENT"
      /\ session' = [session EXCEPT !.state = "ACTIVE"]
      /\ attempt' = [attempt EXCEPT ![a].state = "REPLACED", ![b] =
                       [state |-> "PENDING", generation |-> session.generation]]
      /\ UNCHANGED exec
  BY ZenonT(60) DEF ReplaceDeleted, Replaceable, ReplacedBy
<1>2. session'.state = "ACTIVE" /\ session'.generation = session.generation
  BY ZenonT(60), <1>1 DEF MonitorInv, TypeOK
<1>3. a # b /\ attempt[a].state # "ABSENT"
  BY ZenonT(60), <1>1 DEF IsCurrent
<1>4. \A c \in Attempts :
        /\ attempt'[c].state = IF c = b THEN "PENDING"
                               ELSE IF c = a THEN "REPLACED" ELSE attempt[c].state
        /\ attempt'[c].generation =
             IF c = b THEN session.generation ELSE attempt[c].generation
  BY <1>1, <1>3 DEF MonitorInv, TypeOK, AttemptRow
<1>5. \A c \in Attempts \ {a, b} : ~IsCurrent(c)
  BY ZenonT(60), <1>1 DEF IsCurrent, MonitorInv, EpochInv
<1>6. CurrentAttempts # {} /\ CurrentAttempts' = {b}
  <2>1. IsCurrent(b)' /\ ~IsCurrent(a)'
    BY ZenonT(60), <1>2, <1>3, <1>4 DEF IsCurrent
  <2>2. \A c \in Attempts \ {a, b} : ~IsCurrent(c)'
    BY ZenonT(60), <1>2, <1>4, <1>5 DEF IsCurrent
  <2>. QED  BY ZenonT(60), <1>1, <2>1, <2>2 DEF CurrentAttempts
<1>7. {c \in Attempts : attempt'[c].state # "ABSENT"}
        = {c \in Attempts : attempt[c].state # "ABSENT"} \cup {b}
  BY ZenonT(60), <1>3, <1>4
<1>. QED  BY ZenonT(60), <1>1, <1>2, <1>6, <1>7 DEF Promise!Replace

\* A new Attempt attaches to the writer.
LEMMA AddAttemptAttaches ==
  ASSUME MonitorInv, NEW a \in Attempts, AddAttempt(a)
  PROVE  Promise!Attach(a)
<1>1. /\ session.state = "ACTIVE" /\ attempt[a].state = "ABSENT"
      /\ \A b \in Attempts : ~IsCurrent(b)
      /\ attempt' = [attempt EXCEPT ![a] =
                       [state |-> "PENDING", generation |-> session.generation]]
      /\ UNCHANGED <<session, exec>>
  BY ZenonT(60) DEF AddAttempt
<1>2. \A c \in Attempts : attempt'[c] =
        IF c = a THEN [state |-> "PENDING", generation |-> session.generation]
                 ELSE attempt[c]
  BY ZenonT(60), <1>1 DEF MonitorInv, TypeOK
<1>3. CurrentAttempts = {} /\ CurrentAttempts' = {a}
  BY <1>1, <1>2 DEF CurrentAttempts, IsCurrent
<1>4. {c \in Attempts : attempt'[c].state # "ABSENT"}
        = {c \in Attempts : attempt[c].state # "ABSENT"} \cup {a}
  BY <1>2
<1>. QED  BY ZenonT(60), <1>1, <1>3, <1>4, AbstractWriter DEF Promise!Attach

\* The Execution's progress is invisible, and its end retires the writer.
LEMMA ExecutionImplements ==
  ASSUME MonitorInv,
         \/ Suspend \/ Admit \/ Cancel \/ Expire \/ Finish
         \/ \E a \in Attempts : Engage(a) \/ Run(a)
  PROVE  [Promise!Next]_Promise!abstract
<1>. DEFINE Known == {c \in Attempts : attempt[c].state # "ABSENT"}
<1>1. CASE Suspend
  <2>1. /\ session.state = "IDLE" /\ session' = [session EXCEPT !.state = "SUSPENDED"]
        /\ UNCHANGED <<exec, attempt>>
    BY ZenonT(60), <1>1 DEF Suspend
  <2>2. session'.state = "SUSPENDED" /\ session'.generation = session.generation
    BY ZenonT(60), <2>1 DEF MonitorInv, TypeOK
  <2>. QED  BY ZenonT(60), <2>1, <2>2 DEF Promise!abstract, CurrentAttempts, IsCurrent
<1>2. CASE Admit
  <2>1. /\ session.state = "IDLE" /\ exec.state \in {"NONE", "ENDED"}
        /\ session'.state = "ACTIVE" /\ session'.generation = session.generation + 1
        /\ exec'.state = "MATERIALIZING" /\ UNCHANGED attempt
    BY ZenonT(60), <1>2, AbstractWriter DEF Admit
  <2>2. CurrentAttempts = {} /\ CurrentAttempts' = {}
    BY ZenonT(60), <2>1 DEF CurrentAttempts, IsCurrent, MonitorInv, EpochInv
  <2>3. Promise!Admit
    BY ZenonT(60), <2>1, <2>2 DEF Promise!Admit
  <2>. QED  BY ZenonT(60), <2>3 DEF Promise!Next
<1>3. CASE Cancel \/ Expire \/ \E a \in Attempts : Engage(a) \/ Run(a)
  <2>1. UNCHANGED session /\ exec.state \in {"MATERIALIZING", "RUNNING"}
    BY ZenonT(60), <1>3 DEF Cancel, Expire, Engage, Run, Current
  <2>2. exec'.state \in {"MATERIALIZING", "RUNNING", "CANCELLING"}
    BY <1>3, <2>1 DEF Cancel, Expire, Engage, Run, MonitorInv, TypeOK
  <2>3. UNCHANGED attempt \/ \E a \in Attempts :
          IsCurrent(a) /\ attempt' = [attempt EXCEPT ![a].state = "RUNNING"]
    BY ZenonT(60), <1>3 DEF Cancel, Expire, Engage, Run, Current
  <2>4. ASSUME NEW a \in Attempts, attempt' = [attempt EXCEPT ![a].state = "RUNNING"]
        PROVE  \A c \in Attempts :
                 /\ attempt'[c].generation = attempt[c].generation
                 /\ attempt'[c].state = IF c = a THEN "RUNNING" ELSE attempt[c].state
    BY <2>4 DEF MonitorInv, TypeOK, AttemptRow
  <2>5. CurrentAttempts' = CurrentAttempts /\ Known' = Known
    BY <2>1, <2>3, <2>4 DEF CurrentAttempts, IsCurrent
  <2>. QED  BY ZenonT(60), <2>1, <2>2, <2>5 DEF Promise!abstract
<1>4. CASE Finish
  <2>1. /\ session.state = "ACTIVE" /\ exec'.state = "ENDED"
        /\ session' = [session EXCEPT !.state = "IDLE"]
        /\ attempt' = [a \in Attempts |->
             IF IsCurrent(a) THEN [attempt[a] EXCEPT !.state = "ENDED"] ELSE attempt[a]]
    BY ZenonT(60), <1>4 DEF Finish
  <2>2. session'.state = "IDLE" /\ session'.generation = session.generation
    BY ZenonT(60), <2>1 DEF MonitorInv, TypeOK
  <2>3. \A c \in Attempts :
          /\ attempt'[c].generation = attempt[c].generation
          /\ attempt'[c].state = IF IsCurrent(c) THEN "ENDED" ELSE attempt[c].state
    BY ZenonT(60), <2>1 DEF MonitorInv, TypeOK, AttemptRow
  <2>4. CurrentAttempts' = {} /\ Known' = Known
    BY <2>2, <2>3 DEF CurrentAttempts, IsCurrent
  <2>5. Promise!Retire
    BY ZenonT(60), <2>1, <2>2, <2>4, AbstractWriter DEF Promise!Retire
  <2>. QED  BY ZenonT(60), <2>5 DEF Promise!Next
<1>. QED  BY ZenonT(60), <1>1, <1>2, <1>3, <1>4

\* Monitoring, recovery, replacement and suspension implement the abstract
\* single-writer protocol, with any number of workers and faults.
THEOREM MonitorImplementsWriterEpoch == Spec => ImplementsWriterEpoch
<1>1. Init => Promise!Init
  BY DEF Init, Promise!Init, CurrentAttempts, IsCurrent
<1>2. MonitorInv /\ [Next]_vars => [Promise!Next]_Promise!abstract
  <2>. SUFFICES ASSUME MonitorInv, [Next]_vars
                PROVE  [Promise!Next]_Promise!abstract
    BY ZenonT(60)
  <2>1. CASE UNCHANGED rows
    BY ZenonT(60), <2>1, RowsStutter
  <2>2. ASSUME NEW w \in Workers, RecordCompute(w)
        PROVE  [Promise!Next]_Promise!abstract
    <3>1. worker[w].a \in Attempts
      BY <2>2 DEF RecordCompute, At, MonitorInv, TypeOK, WorkerRow, WorkerInv, Knows
    <3>2. /\ UNCHANGED <<exec, attempt>>
          /\ session' = session \/ session' = Degraded(worker[w].a)
      BY ZenonT(60), <2>2 DEF RecordCompute, OpenRecovery
    <3>. QED  BY ZenonT(60), <3>1, <3>2, RecoveryPauses
  <2>3. ASSUME NEW a \in Attempts, RecoverExpiredAgentd(a)
        PROVE  [Promise!Next]_Promise!abstract
    BY ZenonT(60), <2>3, RecoveryPauses DEF RecoverExpiredAgentd, OpenRecovery
  <2>4. ASSUME NEW w \in Workers, NEW a \in Attempts, NEW b \in Attempts,
               ReplaceDeleted(w, a, b)
        PROVE  [Promise!Next]_Promise!abstract
    BY ZenonT(60), <2>4, ReplacementReplaces DEF Promise!Next
  <2>5. ASSUME NEW a \in Attempts, AddAttempt(a)
        PROVE  [Promise!Next]_Promise!abstract
    BY ZenonT(60), <2>5, AddAttemptAttaches DEF Promise!Next
  <2>6. CASE \/ Suspend \/ Admit \/ Cancel \/ Expire \/ Finish
             \/ \E a \in Attempts : Engage(a) \/ Run(a)
    BY ZenonT(60), <2>6, ExecutionImplements
  <2>7. ASSUME NEW w \in Workers, Reconcile(w)
        PROVE  UNCHANGED rows \/ RecordCompute(w)
    BY ZenonT(60), <2>7 DEF Reconcile, LoadCompute, Observe, Reserve, CreateObject, BindReference,
       BeginOperation, DeleteObject, ConfirmRelease, RecordConflict, FinishCompute
  <2>8. ASSUME NEW w \in Workers,
               \/ Unavailable(w) \/ StoreError(w) \/ AuthorityDenied(w)
               \/ Unverified(w) \/ CreateAnswerLost(w) \/ Crash(w)
               \/ \E a \in Attempts :
                    ClaimCompute(w, a) \/ MaintainRelease(w, a) \/ StartAcquire(w, a)
        PROVE  UNCHANGED rows
    BY ZenonT(60), <2>8 DEF Unavailable, StoreError, AuthorityDenied, Unverified, CreateAnswerLost,
       Crash, ClaimCompute, MaintainRelease, StartAcquire
  <2>9. ASSUME NEW a \in Attempts, Ready(a) \/ Fail(a) \/ Lose(a) \/ Finalize(a)
        PROVE  UNCHANGED rows
    BY ZenonT(60), <2>9 DEF Ready, Fail, Lose, Finalize
  <2>10. UNCHANGED vars => UNCHANGED rows
    BY ZenonT(60) DEF vars, rows
  <2>. QED  BY ZenonT(60), <2>1, <2>2, <2>3, <2>4, <2>5, <2>6, <2>7, <2>8, <2>9, <2>10 DEF Next
<1>. QED
  BY <1>1, <1>2, MonitorInvariant, PTL DEF Spec, Promise!Spec, ImplementsWriterEpoch
=============================================================================
