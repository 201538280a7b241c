-------------------------- MODULE RequestPipeline --------------------------
(***************************************************************************)
(* How a client's request becomes durable work: idempotent creation of     *)
(* Sessions and Executions and acceptance of signals, local authority      *)
(* grants, the transactional outbox with its claiming dispatchers, and     *)
(* the Session event log with readers that resume from their last event.   *)
(*                                                                         *)
(* A request is one database transaction.  Its reservation of an           *)
(* idempotency record blocks every other request of the same scope until   *)
(* it ends, and the rows it reads after that are locked until it ends: a   *)
(* request is Reserve followed by the step that commits it.  Acceptance of *)
(* a signal has one more step, because policy is evaluated, and time       *)
(* passes, while it holds its rows.                                        *)
(***************************************************************************)
EXTENDS Naturals, Sequences, FiniteSets, FiniteSetsExt

CONSTANTS
  Populations,   \* clients, dispatchers and readers that take part, how many
                 \* requests are sent, up to which length others add events,
                 \* and whether grants end
  SessionKeys, ExecutionKeys, SignalKeys, \* idempotency keys of the clients
  Bodies,        \* request bodies that have different digests
  MaxClaims,     \* claims of an outbox message
  MaxStreams,    \* streams a principal may hold open
  MaxBreaks      \* streams that break

ASSUME BoundsAreNatural ==
  {MaxClaims, MaxStreams, MaxBreaks} \subseteq Nat

VARIABLES
  who,        \* the population of this behaviour
  tx,         \* clients: their request and how far its transaction is
  sent,       \* requests sent so far
  records,    \* completed idempotency records
  sessions,   \* Session rows
  executions, \* Execution rows
  grants,     \* the grant of each Execution; due: its time has run out
  signals,    \* accepted signals
  log,        \* events of each Session
  aged,       \* events whose retention has run out
  outbox,     \* outbox rows
  holds,      \* dispatchers: the claimed message they work on
  readers,    \* readers: their stream, cursor and what the client received
  breaks,
  answers     \* the replies of the service; history only

rowVars == <<records, sessions, executions, grants, signals, log, outbox>>
vars == <<who, tx, sent, rowVars, aged, holds, readers, breaks, answers>>

Clients == UNION {p.clients : p \in Populations}
Dispatchers == UNION {p.dispatchers : p \in Populations}
Readers == UNION {p.readers : p \in Populations}

NoRequest == [kind |-> "NONE", on |-> 0, key |-> 0, digest |-> 0]
NoTx == [at |-> "IDLE", request |-> NoRequest]
NoHold == [message |-> 0, fence |-> 0, lease |-> "PAST", handed |-> FALSE, outcome |-> "NONE"]
Closed == [open |-> FALSE, on |-> 0, only |-> 0, after |-> 0, wire |-> <<>>,
           last |-> 0, got |-> {}, gap |-> FALSE]

-----------------------------------------------------------------------------
(* Requests *)

\* What the handlers let through: one key, one canonical body.  The request
\* digest of an Execution covers the Session version it names.
SessionRequests == [kind : {"SESSION"}, on : {0}, key : SessionKeys, digest : Bodies]
ExecutionRequests ==
  UNION {[kind : {"EXECUTION"}, on : {s}, key : ExecutionKeys, digest : 1..sessions[s].version]
         : s \in DOMAIN sessions}
SignalRequests == [kind : {"SIGNAL"}, on : DOMAIN executions, key : SignalKeys, digest : Bodies]
Requests == SessionRequests \cup ExecutionRequests \cup SignalRequests

Scope(q) == [kind |-> q.kind, on |-> q.on, key |-> q.key]

Ended(c) == tx' = [tx EXCEPT ![c] = NoTx]

\* The reply, whether or not it reaches the client: a client may send the same
\* request again either way.
Answer(q, id) == answers' = answers \cup {[scope |-> Scope(q), digest |-> q.digest, id |-> id]}

Send(c) ==
  /\ tx[c].at = "IDLE" /\ sent < who.requests
  /\ \E q \in Requests : tx' = [tx EXCEPT ![c] = [at |-> "SENT", request |-> q]]
  /\ sent' = sent + 1
  /\ UNCHANGED <<who, rowVars, aged, holds, readers, breaks, answers>>

\* A transaction that holds the reservation of the scope of q.
Reserving(d, q) == tx[d].at \in {"RESERVED", "CHECKED"} /\ Scope(tx[d].request) = Scope(q)

\* Mutant: the digest of a repeated request is not compared.
SameRequestMutant(r, q) == TRUE

SameRequest(r, q) == r.digest = q.digest

\* The completed record of a scope answers without doing the work again; the
\* same key with another request is a conflict.
Reserve(c) ==
  /\ tx[c].at = "SENT"
  /\ LET q == tx[c].request
         known == {r \in records : r.scope = Scope(q)}
     IN  /\ ~ \E d \in Clients \ {c} : Reserving(d, q)
         /\ \/ /\ known = {}
               /\ tx' = [tx EXCEPT ![c].at = "RESERVED"]
               /\ UNCHANGED answers
            \/ /\ known # {}
               /\ Ended(c)
               /\ \/ \E r \in known : SameRequest(r, q) /\ Answer(q, r.id)
                  \/ (\A r \in known : ~SameRequest(r, q)) /\ UNCHANGED answers
  /\ UNCHANGED <<who, sent, rowVars, aged, holds, readers, breaks>>

\* Denied access, an unavailable dependency, a deadline and a crash end the
\* transaction without a trace.
Rollback(c) ==
  /\ tx[c].at # "IDLE"
  /\ Ended(c)
  /\ UNCHANGED <<who, sent, rowVars, aged, holds, readers, breaks, answers>>

Recorded(q, id) == records \cup {[scope |-> Scope(q), digest |-> q.digest, id |-> id]}

Message(topic, id) ==
  [topic |-> topic, id |-> id, state |-> "PENDING", fence |-> 0, lease |-> "PAST",
   decided |-> 0, received |-> FALSE]

Event(type, e, bounded) == [type |-> type, execution |-> e, bounded |-> bounded]

\* A transaction that accepts a signal holds its Session, Execution and grant.
Holding(e) == \E d \in Clients : tx[d].at = "CHECKED" /\ tx[d].request.on = e
SessionFree(s) == ~ \E e \in DOMAIN executions : executions[e].session = s /\ Holding(e)

CreateSession(c) ==
  /\ tx[c].at = "RESERVED" /\ tx[c].request.kind = "SESSION"
  /\ LET q == tx[c].request
         s == Len(sessions) + 1
     IN  /\ sessions' = Append(sessions, [state |-> "CREATED", version |-> 0, gen |-> 0])
         /\ log' = Append(log, <<Event("session.created", 0, FALSE)>>)
         /\ outbox' = Append(outbox, Message("session.provision.v1", s))
         /\ records' = Recorded(q, s)
         /\ Answer(q, s)
  /\ Ended(c)
  /\ UNCHANGED <<who, sent, executions, grants, signals, aged, holds, readers, breaks>>

\* The version the client named is current and no Execution is under way.
Admissible(q) ==
  /\ sessions[q.on].version = q.digest
  /\ sessions[q.on].state \in {"READY", "IDLE"}

\* The runtime is not approved or a limit is wider than the profile's: the
\* authority refuses, and the reservation goes with the transaction.
Denied(c) ==
  /\ tx[c].at = "RESERVED" /\ tx[c].request.kind = "EXECUTION"
  /\ SessionFree(tx[c].request.on) /\ Admissible(tx[c].request)
  /\ Ended(c)
  /\ UNCHANGED <<who, sent, rowVars, aged, holds, readers, breaks, answers>>

Granted == [state |-> "ACTIVE", due |-> FALSE]

\* The grant and its own record are written in the transaction that accepts
\* the Execution.
CreateExecution(c) ==
  /\ tx[c].at = "RESERVED" /\ tx[c].request.kind = "EXECUTION"
  /\ LET q == tx[c].request
         s == q.on
         e == Len(executions) + 1
     IN  /\ SessionFree(s)
         /\ \/ /\ Admissible(q)
               /\ sessions' = [sessions EXCEPT ![s] =
                    [state |-> "ACTIVE", version |-> @.version + 1, gen |-> @.gen + 1]]
               /\ executions' = Append(executions,
                    [session |-> s, gen |-> sessions[s].gen + 1, state |-> "QUEUED"])
               /\ grants' = Append(grants, Granted)
               /\ log' = [log EXCEPT ![s] = @ \o
                    <<Event("session.state_changed", 0, FALSE), Event("execution.accepted", e, FALSE)>>]
               /\ outbox' = Append(outbox, Message("execution.materialize.v1", e))
               /\ records' = Recorded(q, e) \cup
                    {[scope |-> [Scope(q) EXCEPT !.kind = "ADMIT"], digest |-> q.digest, id |-> e]}
               /\ Answer(q, e)
            \/ ~Admissible(q) /\ UNCHANGED <<rowVars, answers>>
  /\ Ended(c)
  /\ UNCHANGED <<who, sent, signals, aged, holds, readers, breaks>>

\* Only a RUNNING Execution of the Session's current generation, whose grant
\* is in force, takes signals.
InForce(e) == grants[e].state = "ACTIVE" /\ ~grants[e].due
TakesSignals(e) ==
  LET s == executions[e].session
  IN  /\ sessions[s].state = "ACTIVE" /\ sessions[s].gen = executions[e].gen
      /\ executions[e].state = "RUNNING"
      /\ InForce(e)

CheckSignal(c) ==
  /\ tx[c].at = "RESERVED" /\ tx[c].request.kind = "SIGNAL"
  /\ SessionFree(executions[tx[c].request.on].session)
  /\ IF TakesSignals(tx[c].request.on) THEN tx' = [tx EXCEPT ![c].at = "CHECKED"] ELSE Ended(c)
  /\ UNCHANGED <<who, sent, rowVars, aged, holds, readers, breaks, answers>>

\* Mutant: the clock is read once, before policy is evaluated.
StillInForceMutant(e) == TRUE

\* Policy evaluation may take time: expiry is compared again.
StillInForce(e) == ~grants[e].due

AcceptSignal(c) ==
  /\ tx[c].at = "CHECKED"
  /\ LET q == tx[c].request
         s == executions[q.on].session
         n == Len(signals) + 1
     IN  \/ /\ StillInForce(q.on)
            /\ signals' = Append(signals, [execution |-> q.on, body |-> q.digest])
            /\ log' = [log EXCEPT ![s] = Append(@, Event("signal.accepted", q.on, FALSE))]
            /\ outbox' = Append(outbox, Message("execution.signal.v1", n))
            /\ records' = Recorded(q, n)
            /\ Answer(q, n)
         \/ ~StillInForce(q.on) /\ UNCHANGED <<records, signals, log, outbox, answers>>
  /\ Ended(c)
  /\ UNCHANGED <<who, sent, sessions, executions, grants, aged, holds, readers, breaks>>

\* Time alone never frees the identity of a request that created something.
Pinned == {"SESSION", "EXECUTION", "SIGNAL"}

\* Retention deletes expired records of the other actions.
DeleteExpired ==
  /\ \E r \in records : r.scope.kind \notin Pinned /\ records' = records \ {r}
  /\ UNCHANGED <<who, tx, sent, sessions, executions, grants, signals, log, aged, outbox,
                 holds, readers, breaks, answers>>

-----------------------------------------------------------------------------
(* Grants, and the components that carry accepted work on *)

\* Status and acceptance of a signal exclude each other on the grant row.
GrantFree(g) == ~Holding(g)

\* Validate and Cancel: the first terminal state of a grant stays.
Status(g, cancel) ==
  /\ who.ends /\ GrantFree(g)
  /\ grants[g].state = "ACTIVE" /\ (grants[g].due \/ cancel)
  /\ grants' = [grants EXCEPT ![g].state = IF grants[g].due THEN "EXPIRED" ELSE "CANCELLED"]
  /\ UNCHANGED <<who, tx, sent, records, sessions, executions, signals, log, aged, outbox,
                 holds, readers, breaks, answers>>

Expires(g) ==
  /\ who.ends /\ ~grants[g].due
  /\ grants' = [grants EXCEPT ![g].due = TRUE]
  /\ UNCHANGED <<who, tx, sent, records, sessions, executions, signals, log, aged, outbox,
                 holds, readers, breaks, answers>>

Provisioned(s) ==
  /\ sessions[s].state = "CREATED"
  /\ sessions' = [sessions EXCEPT ![s].state = "READY", ![s].version = @ + 1]
  /\ UNCHANGED <<who, tx, sent, records, executions, grants, signals, log, aged, outbox,
                 holds, readers, breaks, answers>>

Started(e) ==
  /\ SessionFree(executions[e].session) /\ executions[e].state = "QUEUED"
  /\ executions' = [executions EXCEPT ![e].state = "RUNNING"]
  /\ UNCHANGED <<who, tx, sent, records, sessions, grants, signals, log, aged, outbox,
                 holds, readers, breaks, answers>>

Finished(e) ==
  LET s == executions[e].session
  IN  /\ SessionFree(s) /\ executions[e].state = "RUNNING"
      /\ executions' = [executions EXCEPT ![e].state = "SUCCEEDED"]
      /\ sessions' = [sessions EXCEPT ![s].state = "IDLE", ![s].version = @ + 1]
      /\ UNCHANGED <<who, tx, sent, records, grants, signals, log, aged, outbox,
                     holds, readers, breaks, answers>>

\* A component appends an event that is kept for a bounded time.
Observed(e) ==
  LET s == executions[e].session
  IN  /\ executions[e].state = "RUNNING" /\ Len(log[s]) < who.events
      /\ log' = [log EXCEPT ![s] = Append(@, Event("tool.status_changed", e, TRUE))]
      /\ UNCHANGED <<who, tx, sent, records, sessions, executions, grants, signals, aged,
                     outbox, holds, readers, breaks, answers>>

Ages(s, i) ==
  /\ log[s][i].bounded /\ <<s, i>> \notin aged
  /\ aged' = aged \cup {<<s, i>>}
  /\ UNCHANGED <<who, tx, sent, rowVars, holds, readers, breaks, answers>>

-----------------------------------------------------------------------------
(* Outbox dispatchers *)

Working(d) == holds[d].message # 0

\* Mutant: a claim that ran out is not taken over.
AvailableMutant(m) == outbox[m].state = "PENDING"

\* A lease has a last instant, EDGE, at which its owner may still report and
\* another dispatcher may already claim.
Available(m) ==
  \/ outbox[m].state = "PENDING"
  \/ outbox[m].state = "CLAIMED" /\ outbox[m].lease # "LIVE"

Claim(d, m) ==
  /\ ~Working(d) /\ Available(m) /\ outbox[m].fence < MaxClaims
  /\ outbox' = [outbox EXCEPT ![m].state = "CLAIMED", ![m].lease = "LIVE", ![m].fence = @ + 1]
  /\ holds' = [holds EXCEPT ![d] = [message |-> m, fence |-> outbox[m].fence + 1,
                                    lease |-> "LIVE", handed |-> FALSE, outcome |-> "NONE"]]
  /\ UNCHANGED <<who, tx, sent, records, sessions, executions, grants, signals, log, aged,
                 readers, breaks, answers>>

Lapses(m) ==
  /\ outbox[m].state = "CLAIMED" /\ outbox[m].lease # "PAST"
  /\ LET next == IF outbox[m].lease = "LIVE" THEN "EDGE" ELSE "PAST"
     IN  /\ outbox' = [outbox EXCEPT ![m].lease = next]
         /\ holds' = [d \in Dispatchers |->
              IF holds[d].message = m /\ holds[d].fence = outbox[m].fence
              THEN [holds[d] EXCEPT !.lease = next] ELSE holds[d]]
  /\ UNCHANGED <<who, tx, sent, records, sessions, executions, grants, signals, log, aged,
                 readers, breaks, answers>>

\* The dispatcher hands the message to its consumer.
Hand(d) ==
  /\ Working(d) /\ ~holds[d].handed /\ holds[d].outcome = "NONE"
  /\ holds' = [holds EXCEPT ![d].handed = TRUE]
  /\ outbox' = [outbox EXCEPT ![holds[d].message].received = TRUE]
  /\ UNCHANGED <<who, tx, sent, records, sessions, executions, grants, signals, log, aged,
                 readers, breaks, answers>>

\* MarkDelivered, Retry and DeadLetter on the dispatcher's copy.
Decide(d, outcome) ==
  /\ Working(d) /\ holds[d].outcome = "NONE" /\ holds[d].lease # "PAST"
  /\ (outcome = "DELIVERED") = holds[d].handed
  /\ holds' = [holds EXCEPT ![d].outcome = outcome]
  /\ UNCHANGED <<who, tx, sent, rowVars, aged, readers, breaks, answers>>

\* Mutant: the row is updated whichever claim it is in.
CurrentClaimMutant(d) == outbox[holds[d].message].state = "CLAIMED"

\* The claim the dispatcher reports on is the row's current one.
CurrentClaim(d) ==
  LET m == outbox[holds[d].message]
  IN  m.state = "CLAIMED" /\ m.fence = holds[d].fence

\* Update writes the dispatcher's copy of the row.
Report(d) ==
  /\ Working(d) /\ holds[d].outcome # "NONE"
  /\ outbox' = IF CurrentClaim(d)
               THEN [outbox EXCEPT ![holds[d].message].state = holds[d].outcome,
                                   ![holds[d].message].lease = "PAST",
                                   ![holds[d].message].decided = holds[d].fence]
               ELSE outbox
  /\ holds' = [holds EXCEPT ![d] = NoHold]
  /\ UNCHANGED <<who, tx, sent, records, sessions, executions, grants, signals, log, aged,
                 readers, breaks, answers>>

\* A report after the lease is refused.
Late(d) ==
  /\ Working(d) /\ holds[d].outcome = "NONE" /\ holds[d].lease = "PAST"
  /\ holds' = [holds EXCEPT ![d] = NoHold]
  /\ UNCHANGED <<who, tx, sent, rowVars, aged, readers, breaks, answers>>

Crash(d) ==
  /\ Working(d)
  /\ holds' = [holds EXCEPT ![d] = NoHold]
  /\ UNCHANGED <<who, tx, sent, rowVars, aged, readers, breaks, answers>>

-----------------------------------------------------------------------------
(* Event streams *)

\* A stream of a Session shows every event, of an Execution its own.
Shown(r, i) == readers[r].only = 0 \/ log[readers[r].on][i].execution = readers[r].only

\* A principal may hold a limited number of streams.
StreamFree == Cardinality({q \in Readers : readers[q].open}) < MaxStreams

\* The client connects, and again from the last event it received.
Connect(r, s, e) ==
  /\ ~readers[r].open /\ ~readers[r].gap
  /\ readers[r].on = 0 \/ (readers[r].on = s /\ readers[r].only = e)
  /\ e # 0 => executions[e].session = s
  /\ StreamFree
  /\ readers' = [readers EXCEPT ![r].open = TRUE, ![r].on = s, ![r].only = e,
                                ![r].after = readers[r].last]
  /\ UNCHANGED <<who, tx, sent, rowVars, aged, holds, breaks, answers>>

Retained(s, from) == {i \in from..Len(log[s]) : <<s, i>> \notin aged}

\* ReadNext: the first retained event after a sequence, 0 without one.
NextRetained(s, after) ==
  IF Retained(s, after + 1) = {} THEN 0 ELSE Min(Retained(s, after + 1))
Earliest(s) == IF Retained(s, 1) = {} THEN Len(log[s]) + 1 ELSE Min(Retained(s, 1))

\* Mutant: a reader continues with the next event there is.
MissingMutant(s, after) == after + 1 < Earliest(s)

\* The event after the cursor is gone.
Missing(s, after) ==
  \/ after + 1 < Earliest(s)
  \/ NextRetained(s, after) = 0 /\ after < Len(log[s])
  \/ NextRetained(s, after) \notin {0, after + 1}

\* Mutant: the cursor moves only over events that are shown.
CursorMutant(r, i) == IF Shown(r, i) THEN i ELSE readers[r].after

\* The cursor also moves over events that are filtered out.
Cursor(r, i) == i

Read(r) ==
  LET s == readers[r].on
      after == readers[r].after
      i == NextRetained(s, after)
  IN  /\ readers[r].open
      /\ \/ /\ Missing(s, after)
            /\ readers' = [readers EXCEPT ![r].open = FALSE, ![r].gap = TRUE, ![r].wire = <<>>]
         \/ /\ ~Missing(s, after) /\ i # 0
            /\ readers' = [readers EXCEPT ![r].after = Cursor(r, i),
                 ![r].wire = IF Shown(r, i) THEN Append(@, i) ELSE @]
      /\ UNCHANGED <<who, tx, sent, rowVars, aged, holds, breaks, answers>>

\* The client takes the next frame that reached it.
Receive(r) ==
  /\ readers[r].wire # <<>>
  /\ readers' = [readers EXCEPT ![r].last = Head(readers[r].wire),
                                ![r].got = @ \cup {Head(readers[r].wire)},
                                ![r].wire = Tail(@)]
  /\ UNCHANGED <<who, tx, sent, rowVars, aged, holds, breaks, answers>>

\* A failed write, the end of the stream's lifetime or of access, a crash:
\* what is on the wire is lost.
Break(r) ==
  /\ readers[r].open /\ breaks < MaxBreaks
  /\ readers' = [readers EXCEPT ![r].open = FALSE, ![r].wire = <<>>]
  /\ breaks' = breaks + 1
  /\ UNCHANGED <<who, tx, sent, rowVars, aged, holds, answers>>

-----------------------------------------------------------------------------

Init ==
  /\ who \in Populations
  /\ tx = [c \in Clients |-> NoTx] /\ sent = 0
  /\ records = {} /\ sessions = <<>> /\ executions = <<>> /\ grants = <<>>
  /\ signals = <<>> /\ log = <<>> /\ aged = {} /\ outbox = <<>>
  /\ holds = [d \in Dispatchers |-> NoHold]
  /\ readers = [r \in Readers |-> Closed] /\ breaks = 0
  /\ answers = {}

ClientStep(c) ==
  Reserve(c) \/ CreateSession(c) \/ CreateExecution(c) \/ CheckSignal(c) \/ AcceptSignal(c)

DispatcherStep(d) ==
  \/ \E m \in DOMAIN outbox : Claim(d, m)
  \/ Hand(d) \/ Report(d) \/ Late(d)
  \/ \E outcome \in {"DELIVERED", "PENDING", "DEAD_LETTERED"} : Decide(d, outcome)

ReaderStep(r) ==
  \/ \E s \in DOMAIN sessions, e \in {0} \cup DOMAIN executions : Connect(r, s, e)
  \/ Read(r) \/ Receive(r)

Next ==
  \/ \E c \in who.clients : Send(c) \/ ClientStep(c) \/ Denied(c) \/ Rollback(c)
  \/ DeleteExpired
  \/ \E g \in DOMAIN grants : Expires(g) \/ \E cancel \in BOOLEAN : Status(g, cancel)
  \/ \E s \in DOMAIN sessions : Provisioned(s)
  \/ \E e \in DOMAIN executions : Started(e) \/ Finished(e) \/ Observed(e)
  \/ \E s \in DOMAIN log : \E i \in DOMAIN log[s] : Ages(s, i)
  \/ \E m \in DOMAIN outbox : Lapses(m)
  \/ \E d \in who.dispatchers : DispatcherStep(d) \/ Crash(d)
  \/ \E r \in who.readers : ReaderStep(r) \/ Break(r)

Spec == Init /\ [][Next]_vars

\* Dispatchers run, leases end and readers reconnect.
FairSpec ==
  /\ Spec
  /\ \A d \in Dispatchers : WF_vars(d \in who.dispatchers /\ DispatcherStep(d))
  /\ \A r \in Readers : WF_vars(r \in who.readers /\ ReaderStep(r))
  /\ WF_vars(\E m \in DOMAIN outbox : Lapses(m))

-----------------------------------------------------------------------------
(* Properties *)

\* Every row and every process is in a state the code can give it.
TypeOK ==
  /\ who \in Populations
  /\ \A c \in Clients : tx[c].at \in {"IDLE", "SENT", "RESERVED", "CHECKED"}
  /\ \A s \in DOMAIN sessions :
       /\ sessions[s].state \in {"CREATED", "READY", "ACTIVE", "IDLE"}
       /\ sessions[s].gen <= sessions[s].version
  /\ Len(log) = Len(sessions) /\ Len(grants) = Len(executions)
  /\ \A e \in DOMAIN executions :
       /\ executions[e].session \in DOMAIN sessions
       /\ executions[e].state \in {"QUEUED", "RUNNING", "SUCCEEDED"}
       /\ grants[e].state \in {"ACTIVE", "EXPIRED", "CANCELLED"}
  /\ \A m \in DOMAIN outbox :
       /\ outbox[m].state \in {"PENDING", "CLAIMED", "DELIVERED", "DEAD_LETTERED"}
       /\ outbox[m].fence \in 0..MaxClaims
       /\ (outbox[m].state = "CLAIMED") => outbox[m].fence > 0
  /\ \A d \in Dispatchers : holds[d].message \in {0} \cup DOMAIN outbox
  /\ \A r \in Readers : readers[r].open => readers[r].on \in DOMAIN sessions

\* Whatever is lost, repeated, raced or expired, a key stands for one request
\* and one result: two answers to a scope name the same resource, and none is
\* given for the same key with another body.  A client is told only of work
\* that is durable: what an answer names has its record and exactly one outbox
\* message.
OncePerKey ==
  \A a \in answers :
    /\ \A b \in answers : a.scope = b.scope => a = b
    /\ a \in records
    /\ LET topic == CASE a.scope.kind = "SESSION" -> "session.provision.v1"
                      [] a.scope.kind = "EXECUTION" -> "execution.materialize.v1"
                      [] OTHER -> "execution.signal.v1"
       IN  \E m \in DOMAIN outbox : \A n \in DOMAIN outbox :
             (outbox[n].topic = topic /\ outbox[n].id = a.id) <=> n = m

\* Racing creations never give a Session two open Executions: it is ACTIVE
\* exactly while the Execution of its current generation is open.
OneOpenExecution ==
  \A s \in DOMAIN sessions :
    LET open == {e \in DOMAIN executions :
                   executions[e].session = s /\ executions[e].state # "SUCCEEDED"}
    IN  /\ \A e, f \in open : e = f
        /\ (sessions[s].state = "ACTIVE") = (open # {})
        /\ \A e \in open : executions[e].gen = sessions[s].gen

\* A signal is accepted only while the grant is in force at that instant,
\* however long policy took and whoever cancelled it meanwhile, and only for
\* the running Execution of the current generation.
SignalsInForce ==
  [][\A n \in DOMAIN signals' \ DOMAIN signals : TakesSignals(signals'[n].execution)]_vars

\* What became of a message was decided by its latest claim, also when an
\* earlier dispatcher reports late; a delivered message was handed over.
DecidedByLatest ==
  \A m \in DOMAIN outbox :
    /\ outbox[m].state # "CLAIMED" => outbox[m].decided = outbox[m].fence
    /\ outbox[m].state = "DELIVERED" => outbox[m].received

\* Racing requests and dispatchers leave rows that agree: a Session is ACTIVE
\* for one open Execution, and its messages were decided by their latest claim.
PipelineInv == TypeOK /\ OneOpenExecution /\ DecidedByLatest

\* A client that follows a stream through broken connections has every event
\* up to its cursor that the stream shows: a missing one is reported, never
\* passed over.
NoSilentGap ==
  \A r \in Readers : \A i \in 1..readers[r].last : Shown(r, i) => i \in readers[r].got

\* With a dispatcher at work, no committed message is forgotten: a claim that
\* runs out is taken over until the message is settled or out of claims.
MessagesSettle ==
  (outbox # <<>> /\ who.dispatchers # {}) ~>
    \A m \in DOMAIN outbox :
      outbox[m].state \in {"DELIVERED", "DEAD_LETTERED"} \/ outbox[m].fence = MaxClaims

\* A client that keeps reconnecting receives every event its stream shows, or
\* is told of a gap.
ReadersCatchUp ==
  \A r \in Readers :
    readers[r].on # 0 ~>
      \/ readers[r].gap
      \/ \A s \in DOMAIN log : s = readers[r].on =>
           \A i \in DOMAIN log[s] : Shown(r, i) => i \in readers[r].got
=============================================================================
