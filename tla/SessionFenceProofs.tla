-------------------------- MODULE SessionFenceProofs ------------------------
(***************************************************************************)
(* For any number of Executions, Attempts and clients: the fence keeps its *)
(* inductive invariant, hence a single writer, and implements WriterEpoch. *)
(***************************************************************************)
EXTENDS SessionFence, TLAPS

USE DEF VersionMatches, EpochAvailable

\* What advancing and moving an Execution row does to its fields.
LEMMA ExecutionAfterRow ==
  ASSUME NEW x \in ExecutionRows, NEW next \in ExecutionStates
  PROVE  /\ ExecutionAfter(x, next) \in ExecutionRows
         /\ ExecutionAfter(x, next).state = next
         /\ ExecutionAfter(x, next).version = x.version + 1
         /\ ExecutionAfter(x, next).generation = x.generation
<1>1. Advance(x) \in ExecutionRows /\ Advance(x).version = x.version + 1
      /\ Advance(x).generation = x.generation
  BY DEF Advance, ExecutionRows
<1> QED
  BY ZenonT(60), <1>1 DEF ExecutionAfter, ExecutionRows

\* What advancing an Attempt row does to its fields.
LEMMA AdvanceAttempt ==
  ASSUME NEW x \in AttemptRows
  PROVE  /\ Advance(x) \in AttemptRows
         /\ Advance(x).version = x.version + 1
         /\ Advance(x).state = x.state
         /\ Advance(x).exec = x.exec
         /\ Advance(x).current = x.current
         /\ Advance(x).sandbox = x.sandbox
         /\ Advance(x).harness = x.harness
  BY DEF Advance, AttemptRows

\* What a transition of an Attempt row does to its fields.
LEMMA AttemptAfterRow ==
  ASSUME NEW x \in AttemptRows, NEW next \in AttemptStates
  PROVE  /\ AttemptAfter(x, next) \in AttemptRows
         /\ AttemptAfter(x, next).version = x.version + 1
         /\ AttemptAfter(x, next).state = next
         /\ AttemptAfter(x, next).exec = x.exec
         /\ AttemptAfter(x, next).current =>
              x.current /\ next \notin TerminalAttempt
         /\ AttemptAfter(x, next).sandbox = x.sandbox
         /\ AttemptAfter(x, next).harness = x.harness
<1> DEFINE moved == [Advance(x) EXCEPT !.state = next]
<1>1. /\ moved \in AttemptRows
      /\ moved.version = x.version + 1
      /\ moved.state = next
      /\ moved.exec = x.exec
      /\ moved.current = x.current
      /\ moved.sandbox = x.sandbox
      /\ moved.harness = x.harness
  BY AdvanceAttempt DEF AttemptRows
<1>2. CASE next \in TerminalAttempt
  <2>1. AttemptAfter(x, next) = [moved EXCEPT !.current = FALSE]
    BY ZenonT(60), <1>2 DEF AttemptAfter
  <2> HIDE DEF moved
  <2> QED
    BY ZenonT(60), <1>1, <2>1 DEF AttemptRows
<1>3. CASE next \notin TerminalAttempt
  <2>1. AttemptAfter(x, next) = moved
    BY ZenonT(60), <1>3 DEF AttemptAfter
  <2> HIDE DEF moved
  <2> QED
    BY ZenonT(60), <1>1, <1>3, <2>1
<1> QED
  BY ZenonT(60), <1>2, <1>3

-----------------------------------------------------------------------------
(* Copies.  No transaction makes a copy but Get, and a row that changes    *)
(* gets the next version, so an older copy no longer matches it.           *)

CopiesOnlyDropped ==
  \A c \in Clients : /\ heldS'[c] \in {heldS[c], None}
                     /\ heldE'[c] \in {heldE[c], None}
                     /\ heldA'[c] \in {heldA[c], None}

SessionMoves == session' = session \/ session'.version = session.version + 1

ExecutionsMove ==
  \A e \in Executions :
    \/ exec'[e] = exec[e]
    \/ exec[e].state = "ABSENT"
    \/ exec'[e].version = exec[e].version + 1 /\ exec'[e].state # "ABSENT"

AttemptsMove ==
  \A a \in Attempts :
    \/ attempt'[a] = attempt[a]
    \/ attempt[a].state = "ABSENT"
    \/ attempt'[a].version = attempt[a].version + 1
       /\ attempt'[a].state # "ABSENT"

\* A commit that moves rows by one version keeps the copies faithful.
LEMMA CopiesKept ==
  ASSUME TypeOK, CopiesFaithful, CopiesOnlyDropped, SessionMoves,
         ExecutionsMove, AttemptsMove
  PROVE  CopiesFaithful'
<1> SUFFICES ASSUME NEW c \in Clients
             PROVE  /\ FaithfulSession(c)'
                    /\ FaithfulExecution(c)'
                    /\ FaithfulAttempt(c)'
  BY ZenonT(60) DEF CopiesFaithful
<1>1. FaithfulSession(c) /\ FaithfulExecution(c) /\ FaithfulAttempt(c)
  BY ZenonT(60) DEF CopiesFaithful
<1>2. FaithfulSession(c)'
  <2>1. heldS[c] # None => heldS[c].version \in Nat /\ session.version \in Nat
    BY ZenonT(60) DEF TypeOK, SessionRows, SessionTableRow
  <2> QED
    BY <1>1, <2>1 DEF FaithfulSession, SessionMoves, CopiesOnlyDropped
<1>3. FaithfulExecution(c)'
  <2>1. heldE[c] # None =>
          /\ heldE[c].id \in Executions
          /\ heldE[c].row.version \in Nat
          /\ exec[heldE[c].id].version \in Nat
    BY ZenonT(60) DEF TypeOK, ExecutionRows
  <2> QED
    BY <1>1, <2>1 DEF FaithfulExecution, ExecutionsMove, CopiesOnlyDropped
<1>4. FaithfulAttempt(c)'
  <2>1. heldA[c] # None =>
          /\ heldA[c].id \in Attempts
          /\ heldA[c].row.version \in Nat
          /\ attempt[heldA[c].id].version \in Nat
    BY ZenonT(60) DEF TypeOK, AttemptRows
  <2> QED
    BY <1>1, <2>1 DEF FaithfulAttempt, AttemptsMove, CopiesOnlyDropped
<1> QED
  BY ZenonT(60), <1>2, <1>3, <1>4

\* A client that commits or gives up drops its copies and no other.
LEMMA ReleaseDrops ==
  ASSUME TypeOK, NEW c \in Clients, Release(c)
  PROVE  CopiesOnlyDropped
  BY ZenonT(60) DEF Release, TypeOK, CopiesOnlyDropped

-----------------------------------------------------------------------------
(* The inductive invariant.                                                *)

\* The initial row of a new Session satisfies the inductive invariant.
LEMMA InitFence == Init => FenceInv
<1> SUFFICES ASSUME Init PROVE FenceInv
  OBVIOUS
<1> USE FenceConstants DEF Init, NoExecution, NoAttempt
<1>1. TypeOK
  BY ZenonT(60) DEF TypeOK, SessionTableRow, SessionStates, ExecutionRows, AttemptRows
<1>2. AbsentRows /\ CopiesFaithful /\ CurrentForeignKey(session, exec)
  BY ZenonT(60) DEF AbsentRows, CopiesFaithful, FaithfulSession, FaithfulExecution,
         FaithfulAttempt, CurrentForeignKey
<1>3. WriterWhileActive /\ SingleWriter /\ EpochsNeverReused
      /\ CurrentAttemptIsWriter
  BY DEF WriterWhileActive, SingleWriter, EpochsNeverReused,
         CurrentAttemptIsWriter, MutableExecution
<1> QED
  BY ZenonT(60), <1>1, <1>2, <1>3 DEF FenceInv

\* A read leaves the rows alone, and each copy is the old one, none, or the
\* row as it is now.
LEMMA ReadCopies ==
  ASSUME TypeOK, NEW c \in Clients,
         \/ GetSession(c)
         \/ \E e \in Executions : GetExecution(c, e)
         \/ \E a \in Attempts : GetAttempt(c, a)
         \/ Abandon(c)
  PROVE  /\ TypeOK'
         /\ UNCHANGED <<session, exec, attempt>>
         /\ \A d \in Clients :
              /\ \/ heldS'[d] = heldS[d]
                 \/ heldS'[d] = None
                 \/ /\ heldS'[d].version = session.version
                    /\ heldS'[d].state = session.state
                    /\ heldS'[d].recovery = session.recovery
                    /\ heldS'[d].generation = session.generation
              /\ \/ heldE'[d] = heldE[d]
                 \/ heldE'[d] = None
                 \/ /\ heldE'[d].id \in Executions
                    /\ heldE'[d].row = exec[heldE'[d].id]
                    /\ exec[heldE'[d].id].state # "ABSENT"
              /\ \/ heldA'[d] = heldA[d]
                 \/ heldA'[d] = None
                 \/ /\ heldA'[d].id \in Attempts
                    /\ heldA'[d].row = attempt[heldA'[d].id]
                    /\ attempt[heldA'[d].id].state # "ABSENT"
<1>1. CASE GetSession(c)
  <2>1. [state |-> session.state, recovery |-> session.recovery,
         version |-> session.version, generation |-> session.generation]
          \in SessionRows
    BY ZenonT(60) DEF TypeOK, SessionTableRow, SessionRows
  <2> QED
    BY <1>1, <2>1 DEF GetSession, TypeOK
<1>2. ASSUME NEW e \in Executions, GetExecution(c, e)
      PROVE  /\ heldE' \in
                  [Clients -> [id: Executions, row: ExecutionRows] \cup {None}]
             /\ \A d \in Clients :
                  \/ heldE'[d] = heldE[d]
                  \/ /\ heldE'[d].id = e
                     /\ heldE'[d].row = exec[e]
  BY <1>2 DEF GetExecution, TypeOK
<1>3. ASSUME NEW a \in Attempts, GetAttempt(c, a)
      PROVE  /\ heldA' \in
                  [Clients -> [id: Attempts, row: AttemptRows] \cup {None}]
             /\ \A d \in Clients :
                  \/ heldA'[d] = heldA[d]
                  \/ /\ heldA'[d].id = a
                     /\ heldA'[d].row = attempt[a]
  BY <1>3 DEF GetAttempt, TypeOK
<1>4. CASE \E e \in Executions : GetExecution(c, e)
  <2>1. PICK e \in Executions : GetExecution(c, e)
    BY ZenonT(60), <1>4
  <2> QED
    BY <2>1, <1>2 DEF GetExecution, TypeOK
<1>5. CASE \E a \in Attempts : GetAttempt(c, a)
  <2>1. PICK a \in Attempts : GetAttempt(c, a)
    BY ZenonT(60), <1>5
  <2> QED
    BY <2>1, <1>3 DEF GetAttempt, TypeOK
<1>6. CASE Abandon(c)
  BY ZenonT(60), <1>6, ReleaseDrops DEF Abandon, Release, TypeOK
<1> QED
  BY ZenonT(60), <1>1, <1>4, <1>5, <1>6

\* Reading a row, or giving a copy up, keeps the invariant: the new copy is
\* the row.
LEMMA ReadFence ==
  ASSUME FenceInv, NEW c \in Clients,
         \/ GetSession(c)
         \/ \E e \in Executions : GetExecution(c, e)
         \/ \E a \in Attempts : GetAttempt(c, a)
         \/ Abandon(c)
  PROVE  FenceInv'
<1>1. TypeOK' /\ UNCHANGED <<session, exec, attempt>>
  BY ZenonT(60), ReadCopies DEF FenceInv
<1>2. /\ session.version <= session.version
      /\ \A e \in Executions : exec[e].version <= exec[e].version
      /\ \A a \in Attempts : attempt[a].version <= attempt[a].version
  BY DEF FenceInv, TypeOK, SessionTableRow, ExecutionRows, AttemptRows
<1>3. ASSUME NEW d \in Clients
      PROVE  FaithfulSession(d)' /\ FaithfulExecution(d)' /\ FaithfulAttempt(d)'
  <2>1. FaithfulSession(d) /\ FaithfulExecution(d) /\ FaithfulAttempt(d)
    BY ZenonT(60) DEF FenceInv, CopiesFaithful
  <2>2. FaithfulSession(d)'
    BY ZenonT(60), <1>1, <1>2, <2>1, ReadCopies DEF FenceInv, FaithfulSession
  <2>3. FaithfulExecution(d)'
    BY ZenonT(60), <1>1, <1>2, <2>1, ReadCopies DEF FenceInv, FaithfulExecution
  <2>4. FaithfulAttempt(d)'
    BY ZenonT(60), <1>1, <1>2, <2>1, ReadCopies DEF FenceInv, FaithfulAttempt
  <2> QED
    BY ZenonT(60), <2>2, <2>3, <2>4
<1>4. AbsentRows' /\ CurrentForeignKey(session, exec)' /\ WriterWhileActive'
      /\ SingleWriter' /\ EpochsNeverReused' /\ CurrentAttemptIsWriter'
  BY ZenonT(60), <1>1 DEF FenceInv, AbsentRows, CurrentForeignKey, WriterWhileActive,
     SingleWriter, EpochsNeverReused, CurrentAttemptIsWriter
<1> QED
  BY ZenonT(60), <1>1, <1>3, <1>4 DEF FenceInv, CopiesFaithful

\* A committed Session transition was computed from the row itself, and the
\* epoch trigger keeps a Session with a writer ACTIVE or degraded from it.
LEMMA UpdateSessionFence ==
  ASSUME FenceInv, NEW c \in Clients, NEW next \in SessionStates,
         UpdateSession(c, next)
  PROVE  FenceInv'
<1> USE DEF FenceInv
<1> DEFINE s == heldS[c]
<1>1. /\ s # None
      /\ s \in SessionRows
      /\ s.state = session.state
      /\ s.recovery = session.recovery
      /\ s.generation = session.generation
      /\ s.version = session.version
  BY ZenonT(60) DEF UpdateSession, CopiesFaithful, FaithfulSession, TypeOK
<1>2. /\ SessionEdge(session.state, session.recovery, next)
      /\ session' = [state |-> next,
                     recovery |-> SessionAfter(s, next).recovery,
                     version |-> session.version + 1,
                     generation |-> SessionAfter(s, next).generation,
                     current |-> session.current]
      /\ EpochTrigger(session, session')
      /\ CurrentForeignKey(session', exec)
      /\ Release(c)
      /\ UNCHANGED <<exec, attempt>>
  BY ZenonT(60), <1>1 DEF UpdateSession, SessionAfter, SessionRow
<1> HIDE DEF s
<1>3. session'.generation = session.generation
  \* An ordinary update that would admit has no current Execution to offer.
  <2>1. CASE Admitting(s, next)
    BY ZenonT(60), <1>1, <1>2, <2>1 DEF Admitting, EpochTrigger, WriterWhileActive,
       SessionAfter, TypeOK, SessionTableRow
  <2>2. CASE ~Admitting(s, next)
    BY ZenonT(60), <1>1, <1>2, <2>2 DEF SessionAfter
  <2> QED
    BY ZenonT(60), <2>1, <2>2
<1>4. TypeOK'
  <2>1. SessionAfter(s, next).recovery \in SessionStates \cup {None}
    BY ZenonT(60), <1>1 DEF SessionAfter, SessionRows
  <2>2. session' \in SessionTableRow
    BY <1>2, <1>3, <2>1 DEF TypeOK, SessionTableRow
  <2> QED
    BY ZenonT(60), <1>2, <2>2 DEF TypeOK, Release
<1>5. CopiesFaithful'
  BY ZenonT(60), <1>2, CopiesKept, ReleaseDrops
  DEF SessionMoves, ExecutionsMove, AttemptsMove
<1>6. WriterWhileActive'
  <2>1. session'.recovery = IF next = "DEGRADED" THEN session.state
          ELSE IF session.state = "DEGRADED" THEN None ELSE session.recovery
    BY ZenonT(60), <1>1, <1>2 DEF SessionAfter
  <2>2. session'.state = next /\ session'.current = session.current
    BY ZenonT(60), <1>2
  <2>3. ~(session.state \in {"READY", "IDLE"} /\ next = "ACTIVE")
    BY <1>1, <1>2, <1>3 DEF SessionAfter, Admitting, SessionRows
  <2>4. CASE session.current # None
    BY <1>2, <2>2, <2>4 DEF WriterWhileActive, EpochTrigger
  <2>5. CASE session.current = None
    <3>1. session.state # "ACTIVE"
          /\ ~(session.state = "DEGRADED" /\ session.recovery = "ACTIVE")
      BY ZenonT(60), <2>5 DEF WriterWhileActive
    <3>2. next # "ACTIVE"
      BY ZenonT(60), <1>2, <2>3, <3>1 DEF SessionEdge, SessionTable
    <3>3. ~(next = "DEGRADED" /\ session'.recovery = "ACTIVE")
      BY ZenonT(60), <2>1, <3>1
    <3> QED
      BY ZenonT(60), <2>2, <2>5, <3>2, <3>3 DEF WriterWhileActive
  <2> QED
    BY ZenonT(60), <2>4, <2>5
<1>7. AbsentRows' /\ CurrentForeignKey(session, exec)' /\ SingleWriter'
      /\ EpochsNeverReused' /\ CurrentAttemptIsWriter'
  BY <1>2, <1>3 DEF AbsentRows, CurrentForeignKey, SingleWriter,
                    EpochsNeverReused, CurrentAttemptIsWriter
<1> QED
  BY ZenonT(60), <1>2, <1>4, <1>5, <1>6, <1>7

\* A committed Execution transition starts from the stored state, which is
\* mutable: a terminal Execution has no edge left.
LEMMA UpdateExecutionFence ==
  ASSUME FenceInv, NEW c \in Clients, NEW next \in ExecutionStates,
         UpdateExecution(c, next)
  PROVE  FenceInv'
<1> USE DEF FenceInv
<1> DEFINE e == heldE[c].id
<1>1. /\ e \in Executions
      /\ heldE[c].row = exec[e]
      /\ exec[e] \in ExecutionRows
      /\ exec[e].state # "ABSENT"
  BY ZenonT(60) DEF UpdateExecution, CopiesFaithful, FaithfulExecution, TypeOK
<1>2. /\ ExecutionEdge(exec[e].state, next)
      /\ exec' = [exec EXCEPT ![e] = ExecutionAfter(exec[e], next)]
      /\ Release(c)
      /\ UNCHANGED <<session, attempt>>
  BY ZenonT(60), <1>1 DEF UpdateExecution
<1> HIDE DEF e
<1>3. /\ exec'[e].state = next
      /\ exec'[e].version = exec[e].version + 1
      /\ exec'[e].generation = exec[e].generation
      /\ exec'[e] \in ExecutionRows
      /\ \A f \in Executions : f # e => exec'[f] = exec[f]
      /\ next # "ABSENT"
      /\ exec' \in [Executions -> ExecutionRows]
  BY <1>1, <1>2, ExecutionAfterRow DEF TypeOK, ExecutionStates
<1>4. exec[e].state \in MutableExecution
  BY ZenonT(60), <1>2 DEF ExecutionEdge, ExecutionTable, MutableExecution
<1>5. TypeOK'
  BY ZenonT(60), <1>2, <1>3 DEF TypeOK, Release
<1>6. CopiesFaithful'
  <2>1. ExecutionsMove
    BY ZenonT(60), <1>3 DEF ExecutionsMove
  <2> QED
    BY ZenonT(60), <1>2, <2>1, CopiesKept, ReleaseDrops DEF SessionMoves, AttemptsMove
<1>7. AbsentRows' /\ CurrentForeignKey(session, exec)' /\ SingleWriter'
  BY <1>1, <1>2, <1>3, <1>4
  DEF AbsentRows, CurrentForeignKey, SingleWriter, TypeOK, SessionTableRow
<1>8. EpochsNeverReused'
  <2>1. \A f \in Executions : /\ exec'[f].generation = exec[f].generation
                              /\ exec'[f].state # "ABSENT" => exec[f].state # "ABSENT"
    BY ZenonT(60), <1>1, <1>3
  <2> QED
    BY <1>2, <2>1 DEF EpochsNeverReused
<1>9. WriterWhileActive' /\ CurrentAttemptIsWriter'
  BY ZenonT(60), <1>2 DEF WriterWhileActive, CurrentAttemptIsWriter
<1> QED
  BY ZenonT(60), <1>5, <1>6, <1>7, <1>8, <1>9

\* A committed Attempt write changes a current Attempt that has not ended.
LEMMA SaveAttemptFence ==
  ASSUME FenceInv, NEW c \in Clients, heldA[c] # None,
         NEW new \in AttemptRows, SaveAttempt(c, new),
         new.version = heldA[c].row.version + 1,
         new.exec = heldA[c].row.exec,
         new.state # "ABSENT",
         new.current => new.state \notin TerminalAttempt
  PROVE  FenceInv'
<1> USE DEF FenceInv
<1> DEFINE a == heldA[c].id
<1>1. /\ a \in Attempts
      /\ heldA[c].row = attempt[a]
      /\ attempt[a] \in AttemptRows
      /\ attempt[a].state # "ABSENT"
      /\ attempt[a].current
      /\ attempt' = [attempt EXCEPT ![a] = new]
      /\ Release(c)
      /\ UNCHANGED <<session, exec>>
  BY ZenonT(60) DEF SaveAttempt, CopiesFaithful, FaithfulAttempt, TypeOK
<1> HIDE DEF a
<1>2. /\ attempt'[a] = new
      /\ \A b \in Attempts : b # a => attempt'[b] = attempt[b]
      /\ attempt' \in [Attempts -> AttemptRows]
  BY ZenonT(60), <1>1 DEF TypeOK
<1>3. TypeOK'
  BY ZenonT(60), <1>1, <1>2 DEF TypeOK, Release
<1>4. CopiesFaithful'
  <2>1. AttemptsMove
    BY <1>1, <1>2 DEF AttemptsMove
  <2> QED
    BY ZenonT(60), <1>1, <2>1, CopiesKept, ReleaseDrops DEF SessionMoves, ExecutionsMove
<1>5. AbsentRows' /\ CurrentAttemptIsWriter'
  BY <1>1, <1>2 DEF AbsentRows, CurrentAttemptIsWriter
<1>6. CurrentForeignKey(session, exec)' /\ WriterWhileActive' /\ SingleWriter'
      /\ EpochsNeverReused'
  BY <1>1 DEF CurrentForeignKey, WriterWhileActive, SingleWriter,
              EpochsNeverReused
<1> QED
  BY ZenonT(60), <1>3, <1>4, <1>5, <1>6

\* The four kinds of Attempt write all have that shape.
LEMMA UpdateAttemptFence ==
  ASSUME FenceInv, NEW c \in Clients,
         \/ \E s \in AttemptStates : UpdateAttempt(c, s)
         \/ \E r \in Refs : BindSandbox(c, r)
         \/ \E r \in Refs : BindHarness(c, r)
         \/ Heartbeat(c)
  PROVE  FenceInv'
<1> DEFINE row == heldA[c].row
<1>1. heldA[c] # None
  BY ZenonT(60) DEF UpdateAttempt, BindSandbox, BindHarness, Heartbeat
<1>2. row \in AttemptRows
  BY ZenonT(60), <1>1 DEF FenceInv, TypeOK
<1>3. ASSUME NEW new, SaveAttempt(c, new)
      PROVE  /\ row.current => row.state \notin TerminalAttempt
             /\ row.state # "ABSENT"
  BY <1>1, <1>3 DEF SaveAttempt, FenceInv, CopiesFaithful, FaithfulAttempt,
     TypeOK, CurrentAttemptIsWriter
<1>4. ASSUME NEW s \in AttemptStates, UpdateAttempt(c, s)
      PROVE  FenceInv'
  <2>1. SaveAttempt(c, AttemptAfter(row, s))
    BY ZenonT(60), <1>4 DEF UpdateAttempt
  <2>2. /\ AttemptAfter(row, s) \in AttemptRows
        /\ AttemptAfter(row, s).version = row.version + 1
        /\ AttemptAfter(row, s).exec = row.exec
        /\ AttemptAfter(row, s).state # "ABSENT"
        /\ AttemptAfter(row, s).current =>
             AttemptAfter(row, s).state \notin TerminalAttempt
    BY <1>2, AttemptAfterRow DEF AttemptStates
  <2> QED
    BY ZenonT(60), <1>1, <2>1, <2>2, SaveAttemptFence
<1>5. ASSUME NEW r \in Refs, BindSandbox(c, r)
      PROVE  FenceInv'
  <2> DEFINE new == [Advance(row) EXCEPT !.sandbox = r]
  <2>1. SaveAttempt(c, new)
    BY ZenonT(60), <1>5 DEF BindSandbox
  <2>2. /\ new \in AttemptRows
        /\ new.version = row.version + 1
        /\ new.exec = row.exec
        /\ new.state # "ABSENT"
        /\ new.current => new.state \notin TerminalAttempt
    BY <1>2, <1>3, <2>1, AdvanceAttempt DEF AttemptRows
  <2> QED
    BY ZenonT(60), <1>1, <2>1, <2>2, SaveAttemptFence
<1>6. ASSUME NEW r \in Refs, BindHarness(c, r)
      PROVE  FenceInv'
  <2> DEFINE new == [Advance(row) EXCEPT !.harness = r]
  <2>1. SaveAttempt(c, new)
    BY ZenonT(60), <1>6 DEF BindHarness
  <2>2. /\ new \in AttemptRows
        /\ new.version = row.version + 1
        /\ new.exec = row.exec
        /\ new.state # "ABSENT"
        /\ new.current => new.state \notin TerminalAttempt
    BY <1>2, <1>3, <2>1, AdvanceAttempt DEF AttemptRows
  <2> QED
    BY ZenonT(60), <1>1, <2>1, <2>2, SaveAttemptFence
<1>7. ASSUME Heartbeat(c)
      PROVE  FenceInv'
  <2> DEFINE new == Advance(row)
  <2>1. SaveAttempt(c, new)
    BY ZenonT(60), <1>7 DEF Heartbeat
  <2>2. /\ new \in AttemptRows
        /\ new.version = row.version + 1
        /\ new.exec = row.exec
        /\ new.state # "ABSENT"
        /\ new.current => new.state \notin TerminalAttempt
    BY ZenonT(60), <1>2, <1>3, <2>1, AdvanceAttempt DEF AttemptRows
  <2> QED
    BY ZenonT(60), <1>1, <2>1, <2>2, SaveAttemptFence
<1> QED
  BY ZenonT(60), <1>4, <1>5, <1>6, <1>7

\* A new Attempt is the only current one of the current Execution.
LEMMA AddAttemptFence ==
  ASSUME FenceInv, NEW e \in Executions, NEW a \in Attempts, AddAttempt(e, a)
  PROVE  FenceInv'
<1> USE FenceConstants DEF FenceInv
<1> DEFINE new == [state |-> "PENDING", version |-> 0, exec |-> e,
                   current |-> TRUE, sandbox |-> None, harness |-> None]
<1>1. /\ attempt' = [attempt EXCEPT ![a] = new]
      /\ attempt[a].state = "ABSENT"
      /\ session.current = e
      /\ \A b \in Attempts : ~attempt[b].current
      /\ UNCHANGED <<session, exec, heldS, heldE, heldA>>
  BY ZenonT(60) DEF AddAttempt, AttemptFence, held, CurrentAttemptIsWriter
<1>2. new \in AttemptRows
  BY ZenonT(60) DEF AttemptRows, AttemptStates
<1>3. /\ attempt'[a] = new
      /\ \A b \in Attempts : b # a => attempt'[b] = attempt[b]
      /\ attempt' \in [Attempts -> AttemptRows]
  BY ZenonT(60), <1>1, <1>2 DEF TypeOK
<1>4. TypeOK'
  BY ZenonT(60), <1>1, <1>3 DEF TypeOK
<1>5. CopiesFaithful'
  BY ZenonT(60), <1>1, <1>3, CopiesKept
  DEF SessionMoves, ExecutionsMove, AttemptsMove, CopiesOnlyDropped
<1>6. AbsentRows' /\ CurrentAttemptIsWriter'
  <2>1. AbsentRows'
    BY ZenonT(60), <1>1, <1>3 DEF AbsentRows
  <2>2. CurrentAttemptIsWriter'
    BY ZenonT(60), <1>1, <1>3 DEF CurrentAttemptIsWriter, TerminalAttempt
  <2> QED  BY ZenonT(60), <2>1, <2>2
<1>7. CurrentForeignKey(session, exec)' /\ WriterWhileActive' /\ SingleWriter'
      /\ EpochsNeverReused'
  BY <1>1 DEF CurrentForeignKey, WriterWhileActive, SingleWriter,
              EpochsNeverReused
<1> QED
  BY ZenonT(60), <1>4, <1>5, <1>6, <1>7

\* Admission finds no current Execution, hence no mutable Execution and no
\* current Attempt, and takes an epoch above every other.
LEMMA CreateExecutionFence ==
  ASSUME FenceInv, NEW e \in Executions, CreateExecution(e)
  PROVE  FenceInv'
<1> USE FenceConstants DEF FenceInv
<1> DEFINE new == [state |-> "QUEUED", version |-> 0,
                   generation |-> session.generation + 1]
<1>1. /\ exec[e].state = "ABSENT"
      /\ session.state \in {"READY", "IDLE"}
      /\ session.current = None
      /\ session.generation < MaxGeneration
      /\ exec' = [exec EXCEPT ![e] = new]
      /\ UNCHANGED <<attempt, heldS, heldE, heldA>>
  BY ZenonT(60) DEF CreateExecution, held
<1>2. session' = [state |-> "ACTIVE", recovery |-> session.recovery,
                  version |-> session.version + 1,
                  generation |-> session.generation + 1, current |-> e]
  BY ZenonT(60), <1>1 DEF CreateExecution, SessionRow, SessionAfter, Admitting
<1>3. /\ exec'[e] = new
      /\ \A f \in Executions : f # e => exec'[f] = exec[f]
      /\ exec' \in [Executions -> ExecutionRows]
      /\ session' \in SessionTableRow
  BY <1>1, <1>2 DEF TypeOK, ExecutionRows, ExecutionStates, SessionTableRow,
                    SessionStates
<1>4. TypeOK'
  BY ZenonT(60), <1>1, <1>3 DEF TypeOK
<1>5. CopiesFaithful'
  BY ZenonT(60), <1>1, <1>2, <1>3, CopiesKept
  DEF SessionMoves, ExecutionsMove, AttemptsMove, CopiesOnlyDropped
<1>6. AbsentRows' /\ CurrentForeignKey(session, exec)' /\ WriterWhileActive'
  BY ZenonT(60), <1>1, <1>2, <1>3
  DEF AbsentRows, CurrentForeignKey, WriterWhileActive
<1>7. SingleWriter'
  BY <1>1, <1>2, <1>3 DEF SingleWriter, TypeOK
<1>8. EpochsNeverReused'
  BY <1>1, <1>2, <1>3 DEF EpochsNeverReused, TypeOK, SessionTableRow,
                          ExecutionRows, AbsentRows
<1>9. CurrentAttemptIsWriter'
  BY ZenonT(60), <1>1 DEF CurrentAttemptIsWriter
<1> QED
  BY ZenonT(60), <1>4, <1>5, <1>6, <1>7, <1>8, <1>9

\* Giving the Session back leaves neither a mutable Execution nor a current
\* Attempt behind.
LEMMA FinishExecutionFence ==
  ASSUME FenceInv, NEW e \in Executions, FinishExecution(e)
  PROVE  FenceInv'
<1> USE FenceConstants DEF FenceInv
<1> DEFINE running == {a \in Attempts : attempt[a].exec = e /\ attempt[a].current}
<1>1. /\ session.state = "ACTIVE"
      /\ session.current = e
      /\ exec[e] \in ExecutionRows
      /\ attempt' = [a \in Attempts |->
           IF a \in running THEN AttemptAfter(attempt[a], "SUCCEEDED")
                            ELSE attempt[a]]
      /\ exec' = [exec EXCEPT ![e] = ExecutionAfter(exec[e], "SUCCEEDED")]
      /\ UNCHANGED <<heldS, heldE, heldA>>
      /\ exec[e].state # "ABSENT"
  BY ZenonT(60) DEF FinishExecution, AttemptFence, held, TypeOK
<1>2. session' = [state |-> "IDLE", recovery |-> session.recovery,
                  version |-> session.version + 1,
                  generation |-> session.generation, current |-> None]
  BY ZenonT(60), <1>1 DEF FinishExecution, SessionRow, SessionAfter, Admitting
<1>3. /\ exec'[e].state = "SUCCEEDED"
      /\ exec'[e].version = exec[e].version + 1
      /\ exec'[e].generation = exec[e].generation
      /\ \A f \in Executions : f # e => exec'[f] = exec[f]
      /\ exec' \in [Executions -> ExecutionRows]
  BY <1>1, ExecutionAfterRow DEF TypeOK, ExecutionStates
<1>4. /\ \A a \in Attempts : a \notin running => attempt'[a] = attempt[a]
      /\ \A a \in running :
           /\ attempt'[a].version = attempt[a].version + 1
           /\ attempt'[a].state = "SUCCEEDED"
           /\ ~attempt'[a].current
      /\ attempt' \in [Attempts -> AttemptRows]
  <2>1. \A a \in running :
           /\ AttemptAfter(attempt[a], "SUCCEEDED") \in AttemptRows
           /\ AttemptAfter(attempt[a], "SUCCEEDED").version
                = attempt[a].version + 1
           /\ AttemptAfter(attempt[a], "SUCCEEDED").state = "SUCCEEDED"
           /\ ~AttemptAfter(attempt[a], "SUCCEEDED").current
    <3>1. \A a \in running : attempt[a] \in AttemptRows
      BY ZenonT(60) DEF TypeOK
    <3>2. "SUCCEEDED" \in AttemptStates /\ "SUCCEEDED" \in TerminalAttempt
      BY ZenonT(60) DEF AttemptStates, TerminalAttempt
    <3> QED
      BY ZenonT(60), <3>1, <3>2, AttemptAfterRow
  <2> QED
    BY ZenonT(60), <1>1, <2>1 DEF TypeOK
<1>5. TypeOK'
  <2>1. session.version + 1 \in Nat
    BY DEF TypeOK, SessionTableRow
  <2>2. session' \in SessionTableRow
    BY ZenonT(60), <1>2, <2>1 DEF TypeOK, SessionTableRow, SessionStates
  <2> QED
    BY ZenonT(60), <1>1, <1>3, <1>4, <2>2 DEF TypeOK
<1>6. CopiesFaithful'
  <2>1. SessionMoves /\ CopiesOnlyDropped
    BY ZenonT(60), <1>1, <1>2 DEF SessionMoves, CopiesOnlyDropped
  <2>2. ExecutionsMove
    BY ZenonT(60), <1>3 DEF ExecutionsMove
  <2>3. AttemptsMove
    BY ZenonT(60), <1>4 DEF AttemptsMove
  <2> QED
    BY ZenonT(60), <2>1, <2>2, <2>3, CopiesKept
<1>7. AbsentRows' /\ CurrentForeignKey(session, exec)' /\ WriterWhileActive'
  <2>1. \A f \in Executions : exec'[f].state = "ABSENT" => exec'[f].generation = 0
    BY ZenonT(60), <1>3 DEF AbsentRows
  <2>2. \A a \in Attempts : attempt'[a].state = "ABSENT" => attempt'[a] = attempt[a]
    BY ZenonT(60), <1>4
  <2>3. session'.current = None /\ session'.state = "IDLE"
    BY ZenonT(60), <1>2
  <2>4. AbsentRows'
    BY ZenonT(60), <2>1, <2>2 DEF AbsentRows
  <2> QED
    BY ZenonT(60), <2>3, <2>4 DEF CurrentForeignKey, WriterWhileActive
<1>8. SingleWriter'
  <2>1. \A f \in Executions : exec[f].state \in MutableExecution => f = e
    BY ZenonT(60), <1>1 DEF SingleWriter
  <2>2. exec'[e].state \notin MutableExecution
    BY ZenonT(60), <1>3 DEF MutableExecution
  <2> QED
    BY ZenonT(60), <1>3, <2>1, <2>2 DEF SingleWriter
<1>9. EpochsNeverReused'
  BY <1>1, <1>2, <1>3 DEF EpochsNeverReused
<1>10. CurrentAttemptIsWriter'
  BY ZenonT(60), <1>1, <1>2, <1>4 DEF CurrentAttemptIsWriter
<1> QED
  BY ZenonT(60), <1>5, <1>6, <1>7, <1>8, <1>9, <1>10

\* The same for an Execution that ended without a result.
LEMMA SettleExecutionFence ==
  ASSUME FenceInv, NEW e \in Executions, SettleExecution(e)
  PROVE  FenceInv'
<1> USE FenceConstants DEF FenceInv
<1>1. /\ session.state = "ACTIVE"
      /\ session.current = e
      /\ exec[e].state \in TerminalExecution
      /\ \A a \in Attempts : ~attempt[a].current
      /\ UNCHANGED <<exec, attempt, heldS, heldE, heldA>>
  BY ZenonT(60) DEF SettleExecution, held, CurrentAttemptIsWriter
<1>2. session' = [state |-> "IDLE", recovery |-> session.recovery,
                  version |-> session.version + 1,
                  generation |-> session.generation, current |-> None]
  BY ZenonT(60), <1>1 DEF SettleExecution, SessionRow, SessionAfter, Admitting
<1>3. TypeOK'
  BY <1>1, <1>2 DEF TypeOK, SessionTableRow, SessionStates
<1>4. CopiesFaithful'
  BY ZenonT(60), <1>1, <1>2, CopiesKept
  DEF SessionMoves, ExecutionsMove, AttemptsMove, CopiesOnlyDropped
<1>5. AbsentRows' /\ CurrentForeignKey(session, exec)' /\ WriterWhileActive'
      /\ EpochsNeverReused' /\ CurrentAttemptIsWriter'
  BY <1>1, <1>2 DEF AbsentRows, CurrentForeignKey, WriterWhileActive,
                    EpochsNeverReused, CurrentAttemptIsWriter
<1>6. SingleWriter'
  BY ZenonT(60), <1>1, <1>2 DEF SingleWriter, MutableExecution, TerminalExecution
<1> QED
  BY ZenonT(60), <1>3, <1>4, <1>5, <1>6

\* Every step keeps the inductive invariant.
LEMMA NextFence == FenceInv /\ [Next]_vars => FenceInv'
<1> SUFFICES ASSUME FenceInv, [Next]_vars PROVE FenceInv'
  OBVIOUS
<1>1. CASE Next
  <2>1. ASSUME NEW c \in Clients, ClientStep(c) PROVE FenceInv'
    BY ZenonT(60), <2>1, ReadFence, UpdateSessionFence, UpdateExecutionFence,
       UpdateAttemptFence DEF ClientStep
  <2> QED
    BY ZenonT(60), <1>1, <2>1, AddAttemptFence, CreateExecutionFence,
       FinishExecutionFence, SettleExecutionFence DEF Next
<1>2. CASE UNCHANGED vars
  BY ZenonT(60), <1>2 DEF vars, FenceInv, TypeOK, AbsentRows, CopiesFaithful,
     FaithfulSession, FaithfulExecution, FaithfulAttempt, CurrentForeignKey, WriterWhileActive, SingleWriter, EpochsNeverReused,
     CurrentAttemptIsWriter
<1> QED
  BY ZenonT(60), <1>1, <1>2

\* The inductive invariant holds of every reachable state, for any number of
\* Executions, Attempts, references and clients and any bounds.
THEOREM FenceInvariant == Spec => []FenceInv
  BY InitFence, NextFence, PTL DEF Spec

\* At every instant the Session has a single writer: a mutable Execution is the
\* current one and carries the Session's epoch (what the one-mutable index, the
\* epoch trigger and optimistic versions achieve together).
THEOREM WriterIsUnique == Spec => []SingleWriter
<1>1. FenceInv => SingleWriter
  BY ZenonT(60) DEF FenceInv
<1> QED
  BY <1>1, FenceInvariant, PTL

-----------------------------------------------------------------------------
(* What the invariant gives for steps: histories.                          *)

\* A client's commit moves one row along its lifecycle table, from the stored
\* state and by one version, and keeps established references.
LEMMA ClientHistory ==
  ASSUME FenceInv, NEW c \in Clients, ClientStep(c)
  PROVE  LegalStep /\ ReferencesKept
<1> USE DEF LegalStep, ReferencesKept
<1>1. CASE UNCHANGED <<session, exec, attempt>>
  BY ZenonT(60), <1>1
<1>2. ASSUME NEW next \in SessionStates, UpdateSession(c, next)
      PROVE  LegalStep /\ ReferencesKept
  <2>1. /\ heldS[c].state = session.state
        /\ heldS[c].recovery = session.recovery
        /\ heldS[c].version = session.version
    BY ZenonT(60), <1>2 DEF UpdateSession, FenceInv, CopiesFaithful, FaithfulSession
  <2> QED
    BY ZenonT(60), <1>2, <2>1 DEF UpdateSession, SessionRow, SessionAfter
<1>3. ASSUME NEW next \in ExecutionStates, UpdateExecution(c, next)
      PROVE  LegalStep /\ ReferencesKept
  <2> DEFINE e == heldE[c].id
  <2>1. /\ e \in Executions
        /\ heldE[c].row = exec[e]
        /\ exec[e] \in ExecutionRows
        /\ ExecutionEdge(exec[e].state, next)
        /\ exec' = [exec EXCEPT ![e] = ExecutionAfter(exec[e], next)]
        /\ UNCHANGED <<session, attempt>>
    BY ZenonT(60), <1>3 DEF UpdateExecution, FenceInv, CopiesFaithful, FaithfulExecution,
       TypeOK
  <2>2. /\ ExecutionAfter(exec[e], next).state = next
        /\ ExecutionAfter(exec[e], next).version = exec[e].version + 1
    BY ZenonT(60), <2>1, ExecutionAfterRow
  <2>3. exec \in [Executions -> ExecutionRows]
    BY ZenonT(60) DEF FenceInv, TypeOK
  <2> HIDE DEF e
  <2> QED
    BY ZenonT(60), <2>1, <2>2, <2>3
<1>4. ASSUME NEW new, heldA[c] # None, SaveAttempt(c, new),
             new.version = heldA[c].row.version + 1,
             \/ AttemptEdge(heldA[c].row.state, new.state)
             \/ /\ new.state = heldA[c].row.state
                /\ new.state \notin TerminalAttempt
      PROVE  LegalStep /\ ReferencesKept
  <2> DEFINE a == heldA[c].id
  <2>1. /\ a \in Attempts
        /\ heldA[c].row = attempt[a]
        /\ attempt' = [attempt EXCEPT ![a] = new]
        /\ attempt[a].sandbox # None => new.sandbox = attempt[a].sandbox
        /\ attempt[a].harness # None => new.harness = attempt[a].harness
        /\ UNCHANGED <<session, exec>>
    BY ZenonT(60), <1>4 DEF SaveAttempt, FenceInv, CopiesFaithful, FaithfulAttempt, TypeOK
  <2> QED
    BY ZenonT(60), <1>4, <2>1 DEF FenceInv, TypeOK
<1>5. heldA[c] # None => heldA[c].row \in AttemptRows
  BY ZenonT(60) DEF FenceInv, TypeOK
<1>6. ASSUME NEW next \in AttemptStates, UpdateAttempt(c, next)
      PROVE  LegalStep /\ ReferencesKept
  <2> DEFINE new == AttemptAfter(heldA[c].row, next)
  <2>1. heldA[c] # None /\ AttemptEdge(heldA[c].row.state, next) /\ SaveAttempt(c, new)
    BY ZenonT(60), <1>6 DEF UpdateAttempt
  <2>2. new.state = next /\ new.version = heldA[c].row.version + 1
    BY ZenonT(60), <1>5, <2>1, AttemptAfterRow
  <2> HIDE DEF new
  <2> QED
    BY ZenonT(60), <1>4, <2>1, <2>2
<1>7. ASSUME NEW r \in Refs, BindSandbox(c, r)
      PROVE  LegalStep /\ ReferencesKept
  <2> DEFINE new == [Advance(heldA[c].row) EXCEPT !.sandbox = r]
  <2>1. new.version = heldA[c].row.version + 1 /\ new.state = heldA[c].row.state
    BY <1>5, <1>7, AdvanceAttempt DEF BindSandbox, AttemptRows
  <2> QED
    BY ZenonT(60), <1>4, <1>7, <2>1 DEF BindSandbox
<1>8. ASSUME NEW r \in Refs, BindHarness(c, r)
      PROVE  LegalStep /\ ReferencesKept
  <2> DEFINE new == [Advance(heldA[c].row) EXCEPT !.harness = r]
  <2>1. new.version = heldA[c].row.version + 1 /\ new.state = heldA[c].row.state
    BY <1>5, <1>8, AdvanceAttempt DEF BindHarness, AttemptRows
  <2> QED
    BY ZenonT(60), <1>4, <1>8, <2>1 DEF BindHarness
<1>9. CASE Heartbeat(c)
  BY ZenonT(60), <1>4, <1>5, <1>9, AdvanceAttempt DEF Heartbeat
<1>10. CASE \/ GetSession(c)
            \/ \E e \in Executions : GetExecution(c, e)
            \/ \E a \in Attempts : GetAttempt(c, a)
            \/ Abandon(c)
  BY ZenonT(60), <1>1, <1>10 DEF GetSession, GetExecution, GetAttempt, Abandon
<1> QED
  BY ZenonT(60), <1>2, <1>3, <1>6, <1>7, <1>8, <1>9, <1>10 DEF ClientStep

\* So do the transactions that insert rows or end an Execution.
LEMMA ServiceHistory ==
  ASSUME FenceInv, NEW e \in Executions,
         \/ \E a \in Attempts : AddAttempt(e, a)
         \/ CreateExecution(e)
         \/ FinishExecution(e)
         \/ SettleExecution(e)
  PROVE  LegalStep /\ ReferencesKept
<1> USE DEF LegalStep, ReferencesKept
<1>1. ASSUME NEW a \in Attempts, AddAttempt(e, a)
      PROVE  LegalStep /\ ReferencesKept
  BY ZenonT(60), <1>1 DEF AddAttempt, FenceInv, TypeOK, AbsentRows
<1>2. CASE CreateExecution(e)
  BY ZenonT(60), <1>2 DEF CreateExecution, SessionRow, SessionAfter, SessionEdge,
     SessionTable, FenceInv, TypeOK
<1>3. CASE FinishExecution(e)
  <2> DEFINE running ==
        {a \in Attempts : attempt[a].exec = e /\ attempt[a].current}
  <2>1. LegalStep!1
    BY ZenonT(60), <1>3 DEF FinishExecution, AttemptFence, SessionRow, SessionAfter,
       SessionEdge, SessionTable
  <2>2. LegalStep!2
    <3>1. /\ exec[e].state = "RUNNING"
          /\ exec[e] \in ExecutionRows
          /\ exec' = [exec EXCEPT ![e] = ExecutionAfter(exec[e], "SUCCEEDED")]
      BY ZenonT(60), <1>3 DEF FinishExecution, FenceInv, TypeOK
    <3>2. /\ ExecutionAfter(exec[e], "SUCCEEDED").state = "SUCCEEDED"
          /\ ExecutionAfter(exec[e], "SUCCEEDED").version = exec[e].version + 1
      BY ZenonT(60), <3>1, ExecutionAfterRow DEF ExecutionStates
    <3> QED
      BY ZenonT(60), <3>1, <3>2 DEF FenceInv, TypeOK, ExecutionEdge, ExecutionTable
  <2>3. LegalStep!3 /\ ReferencesKept
    <3>1. /\ \A a \in running : attempt[a].state = "RUNNING"
          /\ attempt' = [a \in Attempts |->
               IF a \in running THEN AttemptAfter(attempt[a], "SUCCEEDED")
                                ELSE attempt[a]]
      BY ZenonT(60), <1>3 DEF FinishExecution
    <3>2. \A a \in running :
            /\ AttemptAfter(attempt[a], "SUCCEEDED").version
                 = attempt[a].version + 1
            /\ AttemptAfter(attempt[a], "SUCCEEDED").state = "SUCCEEDED"
            /\ AttemptAfter(attempt[a], "SUCCEEDED").sandbox
                 = attempt[a].sandbox
            /\ AttemptAfter(attempt[a], "SUCCEEDED").harness
                 = attempt[a].harness
      <4>1. \A a \in running : attempt[a] \in AttemptRows
        BY ZenonT(60) DEF FenceInv, TypeOK
      <4>2. "SUCCEEDED" \in AttemptStates
        BY ZenonT(60) DEF AttemptStates
      <4> QED
        BY ZenonT(60), <4>1, <4>2, AttemptAfterRow
    <3>3. AttemptEdge("RUNNING", "SUCCEEDED")
      BY ZenonT(60) DEF AttemptEdge, AttemptTable
    <3> QED
      BY ZenonT(60), <3>1, <3>2, <3>3
  <2> QED
    BY ZenonT(60), <2>1, <2>2, <2>3
<1>4. CASE SettleExecution(e)
  BY ZenonT(60), <1>4 DEF SettleExecution, SessionRow, SessionAfter, SessionEdge,
     SessionTable
<1> QED
  BY ZenonT(60), <1>1, <1>2, <1>3, <1>4

\* Every stored history follows the lifecycle tables, one version per write.
THEOREM HistoryIsLegal == Spec => LegalHistory
<1>1. FenceInv /\ [Next]_vars => [LegalStep /\ ReferencesKept]_vars
  BY ZenonT(60), ClientHistory, ServiceHistory DEF Next
<1> QED
  BY <1>1, FenceInvariant, PTL DEF Spec, LegalHistory

-----------------------------------------------------------------------------
(* Refinement of WriterEpoch.                                              *)

\* A Session with a writer has a positive epoch, so the writer is not 0.
LEMMA WriterPositive ==
  ASSUME FenceInv, session.current # None
  PROVE  session.generation # 0
  BY DEF FenceInv, TypeOK, SessionTableRow, CurrentForeignKey,
     EpochsNeverReused

\* A client's commit pauses or resumes the writer, detaches its agent, or
\* changes nothing the promise speaks of.
LEMMA ClientImplements ==
  ASSUME FenceInv, FenceInv', NEW c \in Clients, ClientStep(c)
  PROVE  [Promise!Next]_Promise!abstract
<1> USE DEF Promise!abstract
<1>1. CASE UNCHANGED <<session, attempt>>
  BY ZenonT(60), <1>1 DEF CurrentAttempts
<1>2. ASSUME NEW next \in SessionStates, UpdateSession(c, next)
      PROVE  [Promise!Next]_Promise!abstract
  <2>1. /\ session'.current = session.current
        /\ session'.state # session.state
        /\ UNCHANGED <<exec, attempt>>
    BY ZenonT(60), <1>2 DEF UpdateSession, SessionRow, SessionAfter, SessionEdge,
       FenceInv, CopiesFaithful, FaithfulSession
  <2>2. session.current # None => session'.generation = session.generation
    BY ZenonT(60), <2>1 DEF FenceInv, CurrentForeignKey
  <2>3. CASE session.current = None
    <3>1. session'.generation = session.generation
      BY ZenonT(60), <1>2, <2>3 DEF UpdateSession, EpochTrigger, SessionRow
    <3> QED
      BY ZenonT(60), <2>1, <2>3, <3>1 DEF CurrentAttempts
  <2>4. CASE session.current # None
    <3>1. session.state \in {"ACTIVE", "DEGRADED"}
          /\ session'.state \in {"ACTIVE", "DEGRADED"}
      BY ZenonT(60), <2>1, <2>4 DEF FenceInv, WriterWhileActive
    <3>2. session.generation # 0
      BY ZenonT(60), <2>4, WriterPositive
    <3>3. CASE session.state = "ACTIVE"
      <4>1. session'.state = "DEGRADED"
        BY ZenonT(60), <2>1, <3>1, <3>3
      <4>2. Promise!Pause
        BY ZenonT(60), <2>1, <2>2, <2>4, <3>2, <3>3, <4>1
        DEF Promise!Pause, CurrentAttempts
      <4> QED
        BY ZenonT(60), <4>2 DEF Promise!Next
    <3>4. CASE session.state = "DEGRADED"
      <4>1. session'.state = "ACTIVE"
        BY ZenonT(60), <2>1, <3>1, <3>4
      <4>2. Promise!Unpause
        BY ZenonT(60), <2>1, <2>2, <2>4, <3>4, <4>1 DEF Promise!Unpause, CurrentAttempts
      <4> QED
        BY ZenonT(60), <4>2 DEF Promise!Next
    <3> QED
      BY ZenonT(60), <3>1, <3>3, <3>4
  <2> QED
    BY ZenonT(60), <2>3, <2>4
<1>3. ASSUME NEW next \in ExecutionStates, UpdateExecution(c, next)
      PROVE  [Promise!Next]_Promise!abstract
  BY ZenonT(60), <1>1, <1>3 DEF UpdateExecution
<1>4. ASSUME NEW new, heldA[c] # None, SaveAttempt(c, new),
             new.state # "ABSENT"
      PROVE  [Promise!Next]_Promise!abstract
  <2> DEFINE a == heldA[c].id
  <2>1. /\ a \in Attempts
        /\ attempt[a].current
        /\ attempt[a].state # "ABSENT"
        /\ attempt' = [attempt EXCEPT ![a] = new]
        /\ session.state = "ACTIVE"
        /\ UNCHANGED <<session, exec>>
    BY ZenonT(60), <1>4 DEF SaveAttempt, AttemptFence, FenceInv, CopiesFaithful, FaithfulAttempt, TypeOK
  <2>2. session.current # None /\ session.generation # 0
    <3>1. session.current # None
      BY ZenonT(60), <2>1 DEF FenceInv, WriterWhileActive
    <3> QED
      BY ZenonT(60), <3>1, WriterPositive
  <2>3. CurrentAttempts = {a}
    BY ZenonT(60), <2>1 DEF CurrentAttempts, FenceInv, CurrentAttemptIsWriter
  <2>4. CASE ~new.current
    <3>1. CurrentAttempts' = {}
      BY ZenonT(60), <2>1, <2>3, <2>4 DEF CurrentAttempts, FenceInv, TypeOK
    <3>2. {b \in Attempts : attempt[b].state # "ABSENT"}'
            = {b \in Attempts : attempt[b].state # "ABSENT"}
      BY ZenonT(60), <1>4, <2>1 DEF FenceInv, TypeOK
    <3>3. Promise!Detach
      BY ZenonT(60), <2>1, <2>2, <2>3, <3>1, <3>2 DEF Promise!Detach
    <3> QED
      BY ZenonT(60), <3>3 DEF Promise!Next
  <2>5. CASE new.current
    <3>1. CurrentAttempts' = CurrentAttempts
      BY ZenonT(60), <2>1, <2>5 DEF CurrentAttempts, FenceInv, TypeOK
    <3>2. {b \in Attempts : attempt[b].state # "ABSENT"}'
            = {b \in Attempts : attempt[b].state # "ABSENT"}
      BY ZenonT(60), <2>1, <2>5 DEF FenceInv, TypeOK, AbsentRows
    <3> QED
      BY ZenonT(60), <2>1, <3>1, <3>2
  <2> QED
    BY ZenonT(60), <2>4, <2>5
<1>5. ASSUME heldA[c] # None, NEW new, SaveAttempt(c, new)
      PROVE  /\ heldA[c].row \in AttemptRows
             /\ heldA[c].row.state # "ABSENT"
  BY ZenonT(60), <1>5 DEF SaveAttempt, FenceInv, CopiesFaithful, FaithfulAttempt, TypeOK
<1>6. ASSUME NEW next \in AttemptStates, UpdateAttempt(c, next)
      PROVE  [Promise!Next]_Promise!abstract
  <2>1. AttemptAfter(heldA[c].row, next).state # "ABSENT"
    BY <1>5, <1>6, AttemptAfterRow DEF UpdateAttempt, AttemptStates
  <2> QED
    BY ZenonT(60), <1>4, <1>6, <2>1 DEF UpdateAttempt
<1>7. ASSUME NEW r \in Refs, BindSandbox(c, r)
      PROVE  [Promise!Next]_Promise!abstract
  <2>1. [Advance(heldA[c].row) EXCEPT !.sandbox = r].state # "ABSENT"
    BY <1>5, <1>7, AdvanceAttempt DEF BindSandbox, AttemptRows
  <2> QED
    BY ZenonT(60), <1>4, <1>7, <2>1 DEF BindSandbox
<1>8. ASSUME NEW r \in Refs, BindHarness(c, r)
      PROVE  [Promise!Next]_Promise!abstract
  <2>1. [Advance(heldA[c].row) EXCEPT !.harness = r].state # "ABSENT"
    BY <1>5, <1>8, AdvanceAttempt DEF BindHarness, AttemptRows
  <2> QED
    BY ZenonT(60), <1>4, <1>8, <2>1 DEF BindHarness
<1>9. ASSUME Heartbeat(c)
      PROVE  [Promise!Next]_Promise!abstract
  <2>1. Advance(heldA[c].row).state # "ABSENT"
    BY ZenonT(60), <1>5, <1>9, AdvanceAttempt DEF Heartbeat
  <2> QED
    BY ZenonT(60), <1>4, <1>9, <2>1 DEF Heartbeat
<1>10. CASE \/ GetSession(c)
            \/ \E e \in Executions : GetExecution(c, e)
            \/ \E a \in Attempts : GetAttempt(c, a)
            \/ Abandon(c)
  BY ZenonT(60), <1>1, <1>10 DEF GetSession, GetExecution, GetAttempt, Abandon
<1> QED
  BY ZenonT(60), <1>2, <1>3, <1>6, <1>7, <1>8, <1>9, <1>10 DEF ClientStep

\* Admission admits, a new Attempt attaches, ending an Execution retires.
LEMMA ServiceImplements ==
  ASSUME FenceInv, FenceInv', NEW e \in Executions,
         \/ \E a \in Attempts : AddAttempt(e, a)
         \/ CreateExecution(e)
         \/ FinishExecution(e)
         \/ SettleExecution(e)
  PROVE  [Promise!Next]_Promise!abstract
<1> USE FenceConstants
<1> DEFINE Known == {b \in Attempts : attempt[b].state # "ABSENT"}
<1>1. ASSUME NEW a \in Attempts, AddAttempt(e, a)
      PROVE  Promise!Attach(a)
  <2>1. /\ session.current = e /\ session.state = "ACTIVE"
        /\ UNCHANGED session
        /\ attempt[a].state = "ABSENT"
        /\ attempt' = [attempt EXCEPT ![a] =
             [state |-> "PENDING", version |-> 0, exec |-> e,
              current |-> TRUE, sandbox |-> None, harness |-> None]]
    BY ZenonT(60), <1>1 DEF AddAttempt, AttemptFence
  <2>2. session.current # None /\ session.generation # 0
    BY ZenonT(60), <2>1, WriterPositive
  <2>3. CurrentAttempts = {} /\ CurrentAttempts' = {a}
    <3>1. \A b \in Attempts : ~attempt[b].current
      BY ZenonT(60), <1>1, <2>1 DEF AddAttempt, FenceInv, CurrentAttemptIsWriter
    <3>2. attempt'[a].current /\ \A b \in Attempts \ {a} : attempt'[b] = attempt[b]
      BY ZenonT(60), <2>1 DEF FenceInv, TypeOK
    <3> QED
      BY <3>1, <3>2 DEF CurrentAttempts
  <2>4. Known' = Known \cup {a} /\ a \notin Known
    BY ZenonT(60), <2>1 DEF FenceInv, TypeOK
  <2> QED
    BY ZenonT(60), <2>1, <2>2, <2>3, <2>4 DEF Promise!Attach
<1>2. ASSUME CreateExecution(e)
      PROVE  Promise!Admit
  <2>1. /\ session.current = None /\ session'.current = e
        /\ session'.state = "ACTIVE"
        /\ session'.generation = session.generation + 1
        /\ UNCHANGED attempt
    BY ZenonT(60), <1>2 DEF CreateExecution, SessionRow, SessionAfter, Admitting
  <2> QED
    BY ZenonT(60), <2>1 DEF Promise!Admit, CurrentAttempts
<1>3. ASSUME FinishExecution(e)
      PROVE  Promise!Retire
  <2>1. /\ session.current = e /\ session.state = "ACTIVE"
        /\ session'.current = None
        /\ session'.generation = session.generation
    BY ZenonT(60), <1>3 DEF FinishExecution, AttemptFence, SessionRow, SessionAfter,
       Admitting
  <2>2. session.current # None /\ session.generation # 0
    BY ZenonT(60), <2>1, WriterPositive
  <2>3. CurrentAttempts' = {}
    BY ZenonT(60), <2>1 DEF CurrentAttempts, FenceInv, CurrentAttemptIsWriter
  <2>4. Known' = Known
    <3>1. \A a \in Attempts :
            \/ attempt'[a] = attempt[a]
            \/ /\ attempt[a].state = "RUNNING"
               /\ attempt'[a] = AttemptAfter(attempt[a], "SUCCEEDED")
      BY ZenonT(60), <1>3 DEF FinishExecution
    <3>2. \A a \in Attempts :
            AttemptAfter(attempt[a], "SUCCEEDED").state = "SUCCEEDED"
      BY AttemptAfterRow DEF FenceInv, TypeOK, AttemptStates
    <3> QED
      BY ZenonT(60), <3>1, <3>2
  <2> QED
    BY ZenonT(60), <2>1, <2>2, <2>3, <2>4 DEF Promise!Retire
<1>4. ASSUME SettleExecution(e)
      PROVE  Promise!Retire
  <2>1. /\ session.current = e /\ session.state = "ACTIVE"
        /\ session'.current = None
        /\ session'.generation = session.generation
        /\ UNCHANGED attempt
    BY ZenonT(60), <1>4 DEF SettleExecution, SessionRow, SessionAfter, Admitting
  <2>2. session.current # None /\ session.generation # 0
    BY ZenonT(60), <2>1, WriterPositive
  <2>3. CurrentAttempts' = {}
    BY ZenonT(60), <2>1 DEF CurrentAttempts, FenceInv, CurrentAttemptIsWriter
  <2> QED
    BY ZenonT(60), <2>1, <2>2, <2>3 DEF Promise!Retire
<1> QED
  BY ZenonT(60), <1>1, <1>2, <1>3, <1>4 DEF Promise!Next

\* The rows, triggers and repositories implement the abstract single-writer
\* protocol for any number of Executions, Attempts and clients.
THEOREM FenceImplementsWriterEpoch == Spec => ImplementsWriterEpoch
<1>1. Init => Promise!Init
  <2> SUFFICES ASSUME Init PROVE Promise!Init
    BY ZenonT(60)
  <2>1. session.generation = 0 /\ session.current = None
    BY ZenonT(60) DEF Init
  <2>2. \A a \in Attempts : ~attempt[a].current /\ attempt[a].state = "ABSENT"
    BY ZenonT(60) DEF Init, NoAttempt
  <2> QED
    BY ZenonT(60), <2>1, <2>2 DEF Promise!Init, CurrentAttempts
<1>2. FenceInv /\ FenceInv' /\ [Next]_vars => [Promise!Next]_Promise!abstract
  <2>1. ASSUME FenceInv, FenceInv', Next
        PROVE  [Promise!Next]_Promise!abstract
    BY ZenonT(60), <2>1, ClientImplements, ServiceImplements DEF Next
  <2>2. ASSUME UNCHANGED vars
        PROVE  UNCHANGED Promise!abstract
    BY ZenonT(60), <2>2 DEF vars, Promise!abstract, CurrentAttempts
  <2> QED
    BY ZenonT(60), <2>1, <2>2
<1> QED
  BY <1>1, <1>2, FenceInvariant, PTL DEF Spec, Promise!Spec, ImplementsWriterEpoch
=============================================================================
