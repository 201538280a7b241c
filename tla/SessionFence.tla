---------------------------- MODULE SessionFence ----------------------------
(***************************************************************************)
(* The single-writer fence of one Session: the rows of sessions,           *)
(* executions and attempts, the optimistic-version repositories that write *)
(* them, the triggers and unique indexes that guard them, and Execution    *)
(* admission.                                                              *)
(*                                                                         *)
(* Clients are concurrent users of the persistence port.  A repository Get *)
(* takes no lock and transactions run at READ COMMITTED, so what a client  *)
(* read may be stale by the time it writes: a client keeps a copy of one   *)
(* row in `held' and a later step commits a transition computed from it.   *)
(* Every transaction that writes locks the Session row first, so one       *)
(* commit is one atomic step.                                              *)
(***************************************************************************)
EXTENDS Lifecycle, Integers

CONSTANTS
  Executions,     \* Execution identities
  Attempts,       \* Attempt identities
  Refs,           \* sandbox and harness binding references
  Clients,        \* concurrent users of the repositories
  None,           \* SQL NULL, and "no copy held"
  MaxGeneration,  \* math.MaxInt64 in the code: admission refuses beyond it
  MaxVersion,     \* bound on state_version (unbounded in the code)
  MaxAttemptVersion \* and on that of Attempts

ASSUME FenceConstants ==
  /\ None \notin Executions
  /\ None \notin Attempts
  /\ None \notin Refs
  /\ None \notin SessionStates
  /\ MaxGeneration \in Nat
  /\ MaxVersion \in Nat
  /\ MaxAttemptVersion \in Nat

VARIABLES
  session,    \* the Session row
  exec,       \* the Execution rows; state "ABSENT" before insertion
  attempt,    \* the Attempt rows; state "ABSENT" before insertion
  heldS,      \* per client, a Session read earlier, or None
  heldE,      \* per client, an Execution read earlier (with its id), or None
  heldA       \* per client, an Attempt read earlier (with its id), or None

held == <<heldS, heldE, heldA>>
vars == <<session, exec, attempt, heldS, heldE, heldA>>

\* What session.Restore rebuilds: the aggregate has no current_execution_id.
SessionRows == [state: SessionStates, recovery: SessionStates \cup {None},
                version: Nat, generation: Nat]

SessionTableRow == [state: SessionStates, recovery: SessionStates \cup {None},
                    version: Nat, generation: Nat,
                    current: Executions \cup {None}]

ExecutionRows == [state: ExecutionStates \cup {"ABSENT"}, version: Nat,
                  generation: Nat]

AttemptRows == [state: AttemptStates \cup {"ABSENT"}, version: Nat,
                exec: Executions \cup {None}, current: BOOLEAN,
                sandbox: Refs \cup {None}, harness: Refs \cup {None}]

TypeOK ==
  /\ session \in SessionTableRow
  /\ exec \in [Executions -> ExecutionRows]
  /\ attempt \in [Attempts -> AttemptRows]
  /\ heldS \in [Clients -> SessionRows \cup {None}]
  /\ heldE \in [Clients -> [id: Executions, row: ExecutionRows] \cup {None}]
  /\ heldA \in [Clients -> [id: Attempts, row: AttemptRows] \cup {None}]

NoExecution == [state |-> "ABSENT", version |-> 0, generation |-> 0]

NoAttempt == [state |-> "ABSENT", version |-> 0, exec |-> None,
              current |-> FALSE, sandbox |-> None, harness |-> None]

\* session.New followed by Sessions().Add.
Init ==
  /\ session = [state |-> "PROVISIONING", recovery |-> None, version |-> 0,
                generation |-> 0, current |-> None]
  /\ exec = [e \in Executions |-> NoExecution]
  /\ attempt = [a \in Attempts |-> NoAttempt]
  /\ heldS = [c \in Clients |-> None]
  /\ heldE = [c \in Clients |-> None]
  /\ heldA = [c \in Clients |-> None]

-----------------------------------------------------------------------------
(* The domain aggregates: what Transition and bind make of a copy.         *)

Admitting(s, next) == s.state \in {"READY", "IDLE"} /\ next = "ACTIVE"

\* Session.Transition
SessionAfter(s, next) ==
  [state      |-> next,
   recovery   |-> IF next = "DEGRADED" THEN s.state
                  ELSE IF s.state = "DEGRADED" THEN None ELSE s.recovery,
   version    |-> s.version + 1,
   generation |-> IF Admitting(s, next) THEN s.generation + 1
                                        ELSE s.generation]

\* The table row of a Session aggregate and its current Execution.
SessionRow(s, current) ==
  [state |-> s.state, recovery |-> s.recovery, version |-> s.version,
   generation |-> s.generation, current |-> current]

\* Every mutation of an aggregate advances its version (Attempt.advance).
Advance(x) == [x EXCEPT !.version = @ + 1]

\* Execution.Transition
ExecutionAfter(x, next) == [Advance(x) EXCEPT !.state = next]

\* Attempt.Transition: a terminal Attempt stops being current.
AttemptAfter(a, next) ==
  LET moved == [Advance(a) EXCEPT !.state = next]
  IN  IF next \in TerminalAttempt THEN [moved EXCEPT !.current = FALSE]
                                  ELSE moved

\* The epoch of a Session that admits an Execution must have a successor.
EpochAvailable(s) == s.generation < MaxGeneration

-----------------------------------------------------------------------------
(* What the database enforces on a write, whoever issues it.               *)

\* Mutant: an update that ignores the version it read.
VersionMatchesMutant(row, copy) == TRUE

\* WHERE state_version = expected, and one row affected.
VersionMatches(row, copy) == row.version = copy.version

\* Mutant: the state of a Session with a current Execution is not looked at.
EpochTriggerMutant(old, new) ==
  /\ new.generation \in {old.generation, old.generation + 1}
  /\ new.generation = old.generation + 1 => new.current # None

\* enforce_session_execution_epoch (migration 18) on an UPDATE of sessions
EpochTrigger(old, new) ==
  /\ new.generation \in {old.generation, old.generation + 1}
  /\ new.generation = old.generation + 1 =>
       /\ old.state \in {"READY", "IDLE"}
       /\ new.state = "ACTIVE"
       /\ new.current # None
  /\ new.current # None =>
       /\ \/ new.state = "ACTIVE"
          \/ /\ new.state = "DEGRADED"
             /\ new.recovery = "ACTIVE"
             /\ new.current = old.current
             /\ new.generation = old.generation
       /\ new.generation # 0

\* sessions_current_execution_fk, checked at commit
CurrentForeignKey(s, ex) ==
  s.current # None =>
    /\ ex[s.current].state # "ABSENT"
    /\ ex[s.current].generation = s.generation

\* Mutant: the state of the Session is not looked at.
AttemptFenceMutant(e) ==
  /\ session.current = e
  /\ exec[e].state \in {"MATERIALIZING", "RUNNING", "CANCELLING", "TIMING_OUT"}

\* enforce_attempt_mutation_fence (migration 33) on an Attempt of Execution e
AttemptFence(e) ==
  /\ session.state = "ACTIVE"
  /\ session.current = e
  /\ session.generation = exec[e].generation
  /\ exec[e].state \in {"MATERIALIZING", "RUNNING", "CANCELLING", "TIMING_OUT"}

-----------------------------------------------------------------------------
(* The repositories.                                                       *)

HoldsNothing(c) == heldS[c] = None /\ heldE[c] = None /\ heldA[c] = None

Release(c) ==
  /\ heldS' = [heldS EXCEPT ![c] = None]
  /\ heldE' = [heldE EXCEPT ![c] = None]
  /\ heldA' = [heldA EXCEPT ![c] = None]

\* Sessions().Get
GetSession(c) ==
  /\ HoldsNothing(c)
  /\ heldS' = [heldS EXCEPT ![c] =
       [state |-> session.state, recovery |-> session.recovery,
        version |-> session.version, generation |-> session.generation]]
  /\ UNCHANGED <<session, exec, attempt, heldE, heldA>>

\* Executions().Get
GetExecution(c, e) ==
  /\ HoldsNothing(c)
  /\ exec[e].state # "ABSENT"
  /\ heldE' = [heldE EXCEPT ![c] = [id |-> e, row |-> exec[e]]]
  /\ UNCHANGED <<session, exec, attempt, heldS, heldA>>

\* Attempts().Get
GetAttempt(c, a) ==
  /\ HoldsNothing(c)
  /\ attempt[a].state # "ABSENT"
  /\ heldA' = [heldA EXCEPT ![c] = [id |-> a, row |-> attempt[a]]]
  /\ UNCHANGED <<session, exec, attempt, heldS, heldE>>

\* A failed commit, a rolled back transaction or a crashed client.
Abandon(c) ==
  /\ ~HoldsNothing(c)
  /\ Release(c)
  /\ UNCHANGED <<session, exec, attempt>>

\* Transition on the copy, then Sessions().Update with the copy's version:
\* the statement leaves current_execution_id alone.
UpdateSession(c, next) ==
  LET s == heldS[c]
      row == SessionRow(SessionAfter(s, next), session.current)
  IN  /\ s # None
      /\ SessionEdge(s.state, s.recovery, next)
      /\ Admitting(s, next) => EpochAvailable(s)
      /\ s.version < MaxVersion
      /\ VersionMatches(session, s)
      /\ EpochTrigger(session, row)
      /\ CurrentForeignKey(row, exec)
      /\ session' = row
      /\ Release(c)
      /\ UNCHANGED <<exec, attempt>>

\* Transition on the copy, then Executions().Update with the copy's version.
UpdateExecution(c, next) ==
  LET h == heldE[c]
  IN  /\ h # None
      /\ ExecutionEdge(h.row.state, next)
      /\ h.row.version < MaxVersion
      /\ VersionMatches(exec[h.id], h.row)
      /\ exec' = [exec EXCEPT ![h.id] = ExecutionAfter(h.row, next)]
      /\ Release(c)
      /\ UNCHANGED <<session, attempt>>

\* Attempts().Update: lockParents, the version predicate, the fence trigger
\* on the stored row, and the immutability of established references.
SaveAttempt(c, new) ==
  LET id == heldA[c].id
      old == attempt[id]
  IN  /\ new.version <= MaxAttemptVersion
      /\ VersionMatches(old, heldA[c].row)
      /\ AttemptFence(old.exec)
      /\ old.current
      /\ old.sandbox # None => new.sandbox = old.sandbox
      /\ old.harness # None => new.harness = old.harness
      /\ attempt' = [attempt EXCEPT ![id] = new]
      /\ Release(c)
      /\ UNCHANGED <<session, exec>>

\* Attempt.Transition on the copy, then Attempts().Update.
UpdateAttempt(c, next) ==
  /\ heldA[c] # None
  /\ AttemptEdge(heldA[c].row.state, next)
  /\ SaveAttempt(c, AttemptAfter(heldA[c].row, next))

\* Attempt.BindSandbox on the copy, then Attempts().Update.
BindSandbox(c, r) ==
  /\ heldA[c] # None
  /\ heldA[c].row.state \notin TerminalAttempt
  /\ heldA[c].row.sandbox = None
  /\ SaveAttempt(c, [Advance(heldA[c].row) EXCEPT !.sandbox = r])

\* Attempt.BindHarness on the copy, then Attempts().Update.
BindHarness(c, r) ==
  /\ heldA[c] # None
  /\ heldA[c].row.state \notin TerminalAttempt
  /\ heldA[c].row.harness = None
  /\ SaveAttempt(c, [Advance(heldA[c].row) EXCEPT !.harness = r])

\* ObserveSandboxHeartbeat or ObserveHarnessHeartbeat, then Attempts().Update:
\* the instants are left out, the version still advances.
Heartbeat(c) ==
  /\ heldA[c] # None
  /\ heldA[c].row.current
  /\ heldA[c].row.state \notin TerminalAttempt
  /\ SaveAttempt(c, Advance(heldA[c].row))

\* attempt.New, then Attempts().Add: the fence trigger and the index that
\* allows one current Attempt per Execution.
AddAttempt(e, a) ==
  /\ attempt[a].state = "ABSENT"
  /\ AttemptFence(e)
  /\ \A b \in Attempts : ~(attempt[b].exec = e /\ attempt[b].current)
  /\ attempt' = [attempt EXCEPT ![a] =
       [state |-> "PENDING", version |-> 0, exec |-> e, current |-> TRUE,
        sandbox |-> None, harness |-> None]]
  /\ UNCHANGED <<session, exec, held>>

-----------------------------------------------------------------------------
(* Admission of an Execution by the create-Execution service.              *)

\* The transaction of Creator.Create for a request that names the Session's
\* present version (any other is refused): GetForUpdate, Transition, Activate
\* with its predicate, Executions().Add with its unique indexes.
CreateExecution(e) ==
  /\ exec[e].state = "ABSENT"
  /\ session.state \in {"READY", "IDLE"}
  /\ EpochAvailable(session)
  /\ session.version < MaxVersion
  /\ session.current = None
  /\ \A x \in Executions : exec[x].state \notin MutableExecution
  /\ \A x \in Executions : exec[x].generation # session.generation + 1
  /\ session' = SessionRow(SessionAfter(session, "ACTIVE"), e)
  /\ exec' = [exec EXCEPT ![e] = [state |-> "QUEUED", version |-> 0,
                                  generation |-> session.generation + 1]]
  /\ UNCHANGED <<attempt, held>>

-----------------------------------------------------------------------------
(* The Execution worker is not part of the repository.  These transactions *)
(* are the ones its fixtures run to complete an Execution.                 *)

\* Result accepted: Attempt and Execution succeed and the Session is IDLE, in
\* one transaction.
FinishExecution(e) ==
  LET running == {a \in Attempts : attempt[a].exec = e /\ attempt[a].current}
  IN  /\ AttemptFence(e)
      /\ exec[e].state = "RUNNING"
      /\ \A a \in running : attempt[a].state = "RUNNING"
      /\ session.version < MaxVersion
      /\ attempt' = [a \in Attempts |->
           IF a \in running THEN AttemptAfter(attempt[a], "SUCCEEDED")
                            ELSE attempt[a]]
      /\ exec' = [exec EXCEPT ![e] = ExecutionAfter(@, "SUCCEEDED")]
      /\ session' = SessionRow(SessionAfter(session, "IDLE"), None)
      /\ UNCHANGED held

\* An Execution that already ended otherwise gives the Session back once it
\* has no current Attempt left.
SettleExecution(e) ==
  /\ session.state = "ACTIVE"
  /\ session.current = e
  /\ exec[e].state \in TerminalExecution
  /\ \A a \in Attempts : ~(attempt[a].exec = e /\ attempt[a].current)
  /\ session.version < MaxVersion
  /\ session' = SessionRow(SessionAfter(session, "IDLE"), None)
  /\ UNCHANGED <<exec, attempt, held>>

-----------------------------------------------------------------------------
\* What a user of the persistence port does in one transaction.
ClientStep(c) ==
  \/ GetSession(c)
  \/ \E e \in Executions : GetExecution(c, e)
  \/ \E a \in Attempts : GetAttempt(c, a)
  \/ Abandon(c)
  \/ \E s \in SessionStates : UpdateSession(c, s)
  \/ \E s \in ExecutionStates : UpdateExecution(c, s)
  \/ \E s \in AttemptStates : UpdateAttempt(c, s)
  \/ \E r \in Refs : BindSandbox(c, r)
  \/ \E r \in Refs : BindHarness(c, r)
  \/ Heartbeat(c)

Next ==
  \/ \E c \in Clients : ClientStep(c)
  \/ \E e \in Executions, a \in Attempts : AddAttempt(e, a)
  \/ \E e \in Executions : CreateExecution(e)
  \/ \E e \in Executions : FinishExecution(e)
  \/ \E e \in Executions : SettleExecution(e)

Spec == Init /\ [][Next]_vars

-----------------------------------------------------------------------------
(* Properties.                                                             *)

\* Single writer (docs/contracts/session-single-writer-fencing.md): the only
\* Execution that can be in a mutable state is the Session's current one, and
\* it carries the Session's generation.  Nothing an earlier Execution's client
\* still holds can make that Execution mutable again.
SingleWriter ==
  \A e \in Executions : exec[e].state \in MutableExecution =>
    /\ session.current = e
    /\ exec[e].generation = session.generation

\* The current Execution is recorded exactly while the Session is ACTIVE or
\* DEGRADED with recovery state ACTIVE: no path leaves an ACTIVE Session
\* without a writer or a writer on a Session that is not active.
WriterWhileActive ==
  session.current # None <=>
    \/ session.state = "ACTIVE"
    \/ session.state = "DEGRADED" /\ session.recovery = "ACTIVE"

\* Every current Attempt belongs to the current Execution, there is one, and
\* it has not ended: no Attempt of an earlier Execution stays current.
CurrentAttemptIsWriter ==
  \A a \in Attempts : attempt[a].current =>
    /\ attempt[a].state \notin TerminalAttempt
    /\ attempt[a].exec = session.current
    /\ session.current # None
    /\ \A b \in Attempts : attempt[b].current => b = a

\* An epoch is never given to two Executions, none is beyond the Session's,
\* and the Session's stops at the largest value instead of wrapping.
EpochsNeverReused ==
  /\ session.generation <= MaxGeneration
  /\ \A e \in Executions : exec[e].state # "ABSENT" =>
       /\ exec[e].generation \in 1..session.generation
       /\ \A f \in Executions :
            f # e => exec[f].generation # exec[e].generation

\* Why the version predicate is enough: a copy is never ahead of its row, and
\* a copy whose version still matches is the row itself.
FaithfulSession(c) ==
  heldS[c] # None =>
    /\ heldS[c].version <= session.version
    /\ heldS[c].version = session.version =>
         /\ heldS[c].state = session.state
         /\ heldS[c].recovery = session.recovery
         /\ heldS[c].generation = session.generation

FaithfulExecution(c) ==
  heldE[c] # None =>
    /\ exec[heldE[c].id].state # "ABSENT"
    /\ heldE[c].row.version <= exec[heldE[c].id].version
    /\ heldE[c].row.version = exec[heldE[c].id].version =>
         heldE[c].row = exec[heldE[c].id]

FaithfulAttempt(c) ==
  heldA[c] # None =>
    /\ attempt[heldA[c].id].state # "ABSENT"
    /\ heldA[c].row.version <= attempt[heldA[c].id].version
    /\ heldA[c].row.version = attempt[heldA[c].id].version =>
         heldA[c].row = attempt[heldA[c].id]

CopiesFaithful ==
  \A c \in Clients :
    FaithfulSession(c) /\ FaithfulExecution(c) /\ FaithfulAttempt(c)

\* Rows that were never inserted carry no epoch and no reference, and are not
\* current.
AbsentRows ==
  /\ \A e \in Executions : exec[e].state = "ABSENT" => exec[e].generation = 0
  /\ \A a \in Attempts : attempt[a].state = "ABSENT" =>
       /\ ~attempt[a].current
       /\ attempt[a].sandbox = None
       /\ attempt[a].harness = None

\* The inductive invariant the proofs rest on.
FenceInv ==
  /\ TypeOK
  /\ AbsentRows
  /\ CopiesFaithful
  /\ CurrentForeignKey(session, exec)
  /\ WriterWhileActive
  /\ SingleWriter
  /\ EpochsNeverReused
  /\ CurrentAttemptIsWriter

LegalStep ==
  /\ session' # session =>
       /\ session'.version = session.version + 1
       /\ SessionEdge(session.state, session.recovery, session'.state)
  /\ \A e \in Executions : exec'[e] # exec[e] =>
       \/ exec[e].state = "ABSENT"
       \/ /\ exec'[e].version = exec[e].version + 1
          /\ ExecutionEdge(exec[e].state, exec'[e].state)
  /\ \A a \in Attempts : attempt'[a] # attempt[a] =>
       \/ attempt[a].state = "ABSENT"
       \/ /\ attempt'[a].version = attempt[a].version + 1
          /\ \/ AttemptEdge(attempt[a].state, attempt'[a].state)
             \/ /\ attempt[a].state = attempt'[a].state
                /\ attempt[a].state \notin TerminalAttempt

ReferencesKept ==
  \A a \in Attempts :
    /\ attempt[a].sandbox # None => attempt'[a].sandbox = attempt[a].sandbox
    /\ attempt[a].harness # None => attempt'[a].harness = attempt[a].harness

\* However stale the copies clients commit, the stored history of each row
\* follows the lifecycle tables and advances the version once per write: no
\* update is lost and nothing leaves a terminal state.  An Attempt's sandbox
\* and harness references are established once, also when two clients race to
\* bind different ones.
LegalHistory == [][LegalStep /\ ReferencesKept]_vars

-----------------------------------------------------------------------------
(* What the fence promises, as a specification of its own: WriterEpoch.    *)

CurrentAttempts == {a \in Attempts : attempt[a].current}

Promise == INSTANCE WriterEpoch WITH
  epoch  <- session.generation,
  writer <- IF session.current = None THEN 0 ELSE session.generation,
  paused <- session.current # None /\ session.state = "DEGRADED",
  agents <- CurrentAttempts,
  used   <- {a \in Attempts : attempt[a].state # "ABSENT"}

\* The rows, triggers and repositories implement the abstract single-writer
\* protocol: one epoch per writer, one agent acting for it, none while paused.
ImplementsWriterEpoch == Promise!Spec
=============================================================================
