----------------------- MODULE RequestPipelineProofs -----------------------
(***************************************************************************)
(* Proofs about requests, the outbox and event streams, for any number of  *)
(* clients, dispatchers, readers, keys and claims: PipelineInv, OncePerKey,*)
(* NoSilentGap and SignalsInForce.                                         *)
(*                                                                         *)
(* The invariant has one part for each table and its users: the rows       *)
(* (RowInv), reservations and records (RequestInv), messages and what they *)
(* stand for (MessageInv), claims (ClaimInv), signals that are being       *)
(* accepted (SignalInv) and streams (ReaderInv).  First come the steps     *)
(* that create nothing: dispatchers, readers, the components that carry    *)
(* accepted work on, and requests up to the step that commits them.        *)
(***************************************************************************)
EXTENDS RequestPipeline, TLAPS

Kinds == {"NONE", "SESSION", "EXECUTION", "SIGNAL"}
Keys == SessionKeys \cup ExecutionKeys \cup SignalKeys \cup {0}
Digests == Bodies \cup Nat
RequestType == [kind : Kinds, on : Nat, key : Keys, digest : Digests]
TxType == [at : {"IDLE", "SENT", "RESERVED", "CHECKED"}, request : RequestType]
RecordType == [scope : [kind : Kinds \cup {"ADMIT"}, on : Nat, key : Keys], digest : Digests, id : Nat]
SessionType == [state : {"CREATED", "READY", "ACTIVE", "IDLE"}, version : Nat, gen : Nat]
ExecutionType == [session : Nat, gen : Nat, state : {"QUEUED", "RUNNING", "SUCCEEDED"}]
GrantType == [state : {"ACTIVE", "EXPIRED", "CANCELLED"}, due : BOOLEAN]
EventTypes ==
  {"session.created", "session.state_changed", "execution.accepted", "signal.accepted", "tool.status_changed"}
EventType == [type : EventTypes, execution : Nat, bounded : BOOLEAN]
Topics == {"session.provision.v1", "execution.materialize.v1", "execution.signal.v1"}
Leases == {"LIVE", "EDGE", "PAST"}
MessageType ==
  [topic : Topics, id : Nat, state : {"PENDING", "CLAIMED", "DELIVERED", "DEAD_LETTERED"}, fence : 0..MaxClaims,
   lease : Leases, decided : Nat, received : BOOLEAN]
HoldType ==
  [message : Nat, fence : Nat, lease : Leases, handed : BOOLEAN,
   outcome : {"NONE", "PENDING", "DELIVERED", "DEAD_LETTERED"}]
ReaderType ==
  [open : BOOLEAN, on : Nat, only : Nat, after : Nat, wire : Seq(Nat), last : Nat, got : SUBSET Nat, gap : BOOLEAN]

Opens(s, e) == executions[e].session = s /\ executions[e].state # "SUCCEEDED"
Agrees(s) ==
  /\ \A e, f \in DOMAIN executions : Opens(s, e) /\ Opens(s, f) => e = f
  /\ sessions[s].state = "ACTIVE" <=> \E e \in DOMAIN executions : Opens(s, e)
  /\ \A e \in DOMAIN executions : Opens(s, e) => executions[e].gen = sessions[s].gen

\* Sessions, their Executions, grants and events.
RowInv ==
  /\ sessions \in Seq(SessionType) /\ executions \in Seq(ExecutionType)
  /\ grants \in Seq(GrantType) /\ log \in Seq(Seq(EventType))
  /\ Len(log) = Len(sessions) /\ Len(grants) = Len(executions)
  /\ \A s \in DOMAIN sessions : sessions[s].gen <= sessions[s].version
  /\ \A e \in DOMAIN executions : executions[e].session \in DOMAIN sessions
  /\ \A s \in DOMAIN sessions : Agrees(s)

\* A reservation is exclusive, and its scope has no record yet.
RequestInv ==
  /\ tx \in [Clients -> TxType] /\ records \subseteq RecordType /\ answers \subseteq records
  /\ \A c \in Clients : tx[c].at # "IDLE" =>
       /\ tx[c].request.kind # "NONE"
       /\ tx[c].request.kind = "EXECUTION" => tx[c].request.on \in DOMAIN sessions
       /\ tx[c].request.kind = "SIGNAL" => tx[c].request.on \in DOMAIN executions
  /\ \A c \in Clients : tx[c].at \in {"RESERVED", "CHECKED"} =>
       /\ \A r \in records : r.scope # Scope(tx[c].request)
       /\ \A d \in Clients \ {c} : ~Reserving(d, tx[c].request)
  /\ \A a, b \in records : a.scope = b.scope /\ a.scope.kind \in Pinned => a = b
  /\ \A a \in answers : a.scope.kind \in Pinned

Topic(kind) ==
  CASE kind = "SESSION" -> "session.provision.v1"
    [] kind = "EXECUTION" -> "execution.materialize.v1"
    [] OTHER -> "execution.signal.v1"
Rows == <<sessions, executions, signals>>
Count(topic, rows) ==
  CASE topic = "session.provision.v1" -> Len(rows[1])
    [] topic = "execution.materialize.v1" -> Len(rows[2])
    [] OTHER -> Len(rows[3])

\* Every recorded creation has the only message of its topic and identity.
MessageInv ==
  /\ outbox \in Seq(MessageType) /\ signals \in Seq([execution : Nat, body : Digests])
  /\ \A m \in DOMAIN outbox : outbox[m].id <= Count(outbox[m].topic, Rows)
  /\ \A m, n \in DOMAIN outbox : outbox[m].topic = outbox[n].topic /\ outbox[m].id = outbox[n].id => m = n
  /\ \A r \in records : r.scope.kind \in Pinned =>
       \E m \in DOMAIN outbox : outbox[m].topic = Topic(r.scope.kind) /\ outbox[m].id = r.id

\* What a dispatcher holds is a message that it received if it handed it over.
ClaimInv ==
  /\ holds \in [Dispatchers -> HoldType]
  /\ \A m \in DOMAIN outbox : outbox[m].state = "CLAIMED" => outbox[m].fence > 0
  /\ DecidedByLatest
  /\ \A d \in Dispatchers :
       /\ holds[d].message \in {0} \cup DOMAIN outbox
       /\ holds[d].handed => holds[d].message # 0 /\ outbox[holds[d].message].received
       /\ holds[d].outcome = "DELIVERED" => holds[d].handed

\* A checked signal keeps its Session, Execution and grant as they were.
SignalInv ==
  \A c \in Clients : tx[c].at = "CHECKED" =>
    LET e == tx[c].request.on
    IN  /\ tx[c].request.kind = "SIGNAL"
        /\ sessions[executions[e].session].state = "ACTIVE"
        /\ sessions[executions[e].session].gen = executions[e].gen
        /\ executions[e].state = "RUNNING" /\ grants[e].state = "ACTIVE"

\* The wire of an open stream holds what it shows between the last event the
\* client has and the server's cursor; the client has all before.
Between(wire, from, to) ==
  /\ \A k \in DOMAIN wire : from < wire[k] /\ wire[k] <= to
  /\ \A k, l \in DOMAIN wire : k < l => wire[k] < wire[l]
Carries(wire, i) == \E k \in DOMAIN wire : wire[k] = i
Sees(x, i, events) == x.only = 0 \/ events[x.on][i].execution = x.only
Follows(x, events) ==
  /\ x.on = 0 => x.last = 0 /\ ~x.open
  /\ x.on # 0 => x.on \in DOMAIN events /\ x.last <= Len(events[x.on])
  /\ ~x.open => x.wire = <<>>
  /\ x.open =>
       /\ x.last <= x.after /\ x.after <= Len(events[x.on])
       /\ Between(x.wire, x.last, x.after)
       /\ \A i \in (x.last + 1)..x.after : Sees(x, i, events) => Carries(x.wire, i)
  /\ \A i \in 1..x.last : Sees(x, i, events) => i \in x.got

ReaderInv == readers \in [Readers -> ReaderType] /\ \A r \in Readers : Follows(readers[r], log)

IInv == who \in Populations /\ RowInv /\ RequestInv /\ MessageInv /\ ClaimInv /\ SignalInv /\ ReaderInv

-----------------------------------------------------------------------------
(* Sequences of rows *)

\* A row that is added.
LEMMA AppendIs ==
  ASSUME NEW T, NEW rows \in Seq(T), NEW y \in T
  PROVE  /\ Append(rows, y) \in Seq(T) /\ Len(Append(rows, y)) = Len(rows) + 1
         /\ DOMAIN rows = 1..Len(rows) /\ DOMAIN Append(rows, y) = 1..(Len(rows) + 1)
         /\ \A i \in DOMAIN rows : Append(rows, y)[i] = rows[i]
         /\ Append(rows, y)[Len(rows) + 1] = y /\ Len(rows) \in Nat
  OBVIOUS

\* A row that is updated.
LEMMA UpdateIs ==
  ASSUME NEW T, NEW rows \in Seq(T), NEW i \in DOMAIN rows, NEW y \in T
  PROVE  /\ [rows EXCEPT ![i] = y] \in Seq(T) /\ Len([rows EXCEPT ![i] = y]) = Len(rows)
         /\ DOMAIN [rows EXCEPT ![i] = y] = DOMAIN rows
         /\ \A j \in DOMAIN rows : [rows EXCEPT ![i] = y][j] = IF j = i THEN y ELSE rows[j]
<1>1. rows \in [1..Len(rows) -> T] /\ Len(rows) \in Nat /\ DOMAIN rows = 1..Len(rows)
  OBVIOUS
<1>2. [rows EXCEPT ![i] = y] \in [1..Len(rows) -> T]
  BY ZenonT(60), <1>1
<1>3. [rows EXCEPT ![i] = y] \in Seq(T)
  BY <1>1, <1>2
<1> QED  BY <1>1, <1>2, <1>3

\* A population is part of all.
LEMMA PartOfAll ==
  ASSUME who \in Populations
  PROVE  who.clients \subseteq Clients /\ who.dispatchers \subseteq Dispatchers /\ who.readers \subseteq Readers
  BY ZenonT(60) DEF Clients, Dispatchers, Readers

\* Init establishes the invariant.
LEMMA Begins == Init => IInv
<1> SUFFICES ASSUME Init PROVE IInv
  BY ZenonT(60)
<1> USE DEF Init
<1>1. NoTx \in TxType /\ NoTx.at = "IDLE"
  <2>1. NoRequest \in RequestType
    BY ZenonT(60) DEF NoRequest, RequestType, Kinds, Keys, Digests
  <2> QED  BY ZenonT(60), <2>1 DEF NoTx, TxType
<1>2. NoHold \in HoldType /\ NoHold.message = 0 /\ ~NoHold.handed /\ NoHold.outcome = "NONE"
  BY ZenonT(60) DEF NoHold, HoldType, Leases
<1>3. Closed \in ReaderType /\ Closed.on = 0 /\ Closed.last = 0 /\ ~Closed.open /\ Closed.wire = <<>>
  BY DEF Closed, ReaderType
<1>4. RowInv
  BY DEF RowInv
<1>5. RequestInv
  BY ZenonT(60), <1>1 DEF RequestInv
<1>6. MessageInv
  BY DEF MessageInv
<1>7. ClaimInv
  BY <1>2 DEF ClaimInv, DecidedByLatest
<1>8. SignalInv
  BY ZenonT(60), <1>1 DEF SignalInv
<1>9. ReaderInv
  BY <1>3 DEF ReaderInv, Follows
<1> QED  BY ZenonT(60), <1>4, <1>5, <1>6, <1>7, <1>8, <1>9 DEF IInv

-----------------------------------------------------------------------------
(* What a step leaves alone *)

\* Event logs only grow.
Grows ==
  /\ log' \in Seq(Seq(EventType)) /\ DOMAIN log \subseteq DOMAIN log'
  /\ \A s \in DOMAIN log : /\ Len(log[s]) <= Len(log'[s])
                           /\ \A i \in 1..Len(log[s]) : log'[s][i] = log[s][i]

\* Messages keep what they stand for.
SameMessages ==
  /\ outbox' \in Seq(MessageType) /\ DOMAIN outbox' = DOMAIN outbox
  /\ \A m \in DOMAIN outbox : outbox'[m].topic = outbox[m].topic /\ outbox'[m].id = outbox[m].id

\* Steps that touch no row of a Session, an Execution, a grant or a log.
LEMMA RowsStay ==
  ASSUME RowInv, UNCHANGED <<sessions, executions, grants, log>>
  PROVE  RowInv'
  BY DEF RowInv, Agrees, Opens

\* Steps that end no transaction: at most unpinned records go.
LEMMA RequestsStay ==
  ASSUME RequestInv, UNCHANGED <<tx, answers>>, records' \subseteq records,
         \A r \in records : r.scope.kind \in Pinned => r \in records',
         DOMAIN sessions \subseteq DOMAIN sessions', DOMAIN executions \subseteq DOMAIN executions'
  PROVE  RequestInv'
<1>1. \A d, q : Reserving(d, q)' = Reserving(d, q)
  BY ZenonT(60) DEF Reserving
<1>2. answers' \subseteq records'
  BY ZenonT(60) DEF RequestInv
<1>3. \A c \in Clients : tx'[c].at \in {"RESERVED", "CHECKED"} =>
        /\ \A r \in records' : r.scope # Scope(tx'[c].request)
        /\ \A d \in Clients \ {c} : ~Reserving(d, tx[c].request)'
  BY ZenonT(60), <1>1 DEF RequestInv
<1> QED  BY ZenonT(60), <1>1, <1>2, <1>3 DEF RequestInv

\* Steps that create nothing.
LEMMA MessagesStay ==
  ASSUME MessageInv, SameMessages, signals' = signals, records' \subseteq records,
         Len(sessions') = Len(sessions), Len(executions') = Len(executions)
  PROVE  MessageInv'
  BY DEF MessageInv, SameMessages, Count, Rows

\* Steps of others than dispatchers.
LEMMA ClaimsStay ==
  ASSUME ClaimInv, UNCHANGED <<outbox, holds>>
  PROVE  ClaimInv'
  BY ZenonT(60) DEF ClaimInv, DecidedByLatest

\* Rows that a signal holds keep what it was checked against.
Steady(e) ==
  LET s == executions[e].session
  IN  /\ executions'[e] = executions[e] /\ grants'[e].state = grants[e].state
      /\ sessions'[s].state = sessions[s].state /\ sessions'[s].gen = sessions[s].gen

\* Steps that check no signal and leave the rows of checked ones steady.
LEMMA SignalsStay ==
  ASSUME RequestInv, SignalInv, \A e \in DOMAIN executions : Holding(e) => Steady(e),
         \A c \in Clients : tx'[c].at = "CHECKED" => tx'[c] = tx[c]
  PROVE  SignalInv'
<1> SUFFICES ASSUME NEW c \in Clients, tx'[c].at = "CHECKED"
             PROVE  LET e == tx'[c].request.on
                    IN  /\ tx'[c].request.kind = "SIGNAL"
                        /\ sessions'[executions'[e].session].state = "ACTIVE"
                        /\ sessions'[executions'[e].session].gen = executions'[e].gen
                        /\ executions'[e].state = "RUNNING" /\ grants'[e].state = "ACTIVE"
  BY ZenonT(60) DEF SignalInv
<1>1. tx'[c] = tx[c] /\ tx[c].at = "CHECKED" /\ tx[c].at # "IDLE"
  BY ZenonT(60)
<1>2. tx[c].request.on \in DOMAIN executions /\ Holding(tx[c].request.on)
  BY ZenonT(60), <1>1 DEF RequestInv, SignalInv, Holding
<1>3. Steady(tx[c].request.on)
  BY ZenonT(60), <1>2
<1> DEFINE e == tx[c].request.on
<1>4. /\ tx[c].request.kind = "SIGNAL" /\ sessions[executions[e].session].state = "ACTIVE"
      /\ sessions[executions[e].session].gen = executions[e].gen
      /\ executions[e].state = "RUNNING" /\ grants[e].state = "ACTIVE"
  BY ZenonT(60), <1>1 DEF SignalInv
<1>5. tx'[c].request.on = e /\ tx'[c].request.kind = "SIGNAL"
  BY ZenonT(60), <1>1, <1>4
<1>6. Steady(e)
  BY ZenonT(60), <1>3
<1> HIDE DEF e
<1> QED  BY <1>4, <1>5, <1>6 DEF Steady

\* Steps of others than readers: the log grows, which shows nothing new below
\* a cursor.
LEMMA ReadersStay ==
  ASSUME RowInv, ReaderInv, readers' = readers, Grows
  PROVE  ReaderInv'
<1>1. \A s \in DOMAIN log : Len(log[s]) \in Nat /\ Len(log'[s]) \in Nat
  BY DEF RowInv, Grows
<1>2. ASSUME NEW x \in ReaderType, Follows(x, log) PROVE Follows(x, log')
  <2>1. CASE x.on = 0
    BY <1>2, <2>1 DEF Follows, ReaderType
  <2>2. CASE x.on # 0
    <3> DEFINE s == x.on
    <3>1. s \in DOMAIN log /\ s \in DOMAIN log' /\ x.last <= Len(log[s])
      BY ZenonT(60), <1>2, <2>2 DEF Follows, Grows
    <3>2. \A i \in 1..Len(log[s]) : Sees(x, i, log') = Sees(x, i, log)
      BY ZenonT(60), <3>1 DEF Sees, Grows
    <3>3. Len(log[s]) \in Nat /\ Len(log'[s]) \in Nat /\ Len(log[s]) <= Len(log'[s])
      BY ZenonT(60), <3>1, <1>1 DEF Grows
    <3>4. /\ x.open => \A i \in (x.last + 1)..x.after : i \in 1..Len(log[s])
          /\ \A i \in 1..x.last : i \in 1..Len(log[s])
      BY <1>2, <2>2, <3>1, <3>3 DEF Follows, ReaderType
    <3> QED  BY <1>2, <2>2, <3>1, <3>2, <3>3, <3>4 DEF Follows, ReaderType
  <2> QED  BY ZenonT(60), <2>1, <2>2
<1> QED  BY ZenonT(60), <1>2 DEF ReaderInv

-----------------------------------------------------------------------------
(* Dispatchers *)

\* What a dispatcher holds after a step agrees with the message.
Holds(d) ==
  /\ holds[d].message \in {0} \cup DOMAIN outbox
  /\ holds[d].handed => holds[d].message # 0 /\ outbox[holds[d].message].received
  /\ holds[d].outcome = "DELIVERED" => holds[d].handed

\* A row as it may be at rest: its latest claim decided it.
Decided(y) ==
  /\ y.state = "CLAIMED" => y.fence > 0
  /\ y.state # "CLAIMED" => y.decided = y.fence
  /\ y.state = "DELIVERED" => y.received

\* A row of the outbox changes.
LEMMA MessageMoves ==
  ASSUME MessageInv, ClaimInv, NEW m \in DOMAIN outbox, NEW y \in MessageType,
         y.topic = outbox[m].topic, y.id = outbox[m].id, outbox[m].received => y.received, Decided(y),
         outbox' = [outbox EXCEPT ![m] = y], holds' \in [Dispatchers -> HoldType],
         \A d \in Dispatchers :
           \/ /\ holds'[d].message = holds[d].message /\ holds'[d].outcome = holds[d].outcome
              /\ holds'[d].handed <=> holds[d].handed
           \/ Holds(d)'
  PROVE  SameMessages /\ ClaimInv'
<1>1. /\ outbox' \in Seq(MessageType) /\ DOMAIN outbox' = DOMAIN outbox
      /\ \A n \in DOMAIN outbox : outbox'[n] = IF n = m THEN y ELSE outbox[n]
  BY ZenonT(60), UpdateIs DEF MessageInv
<1>2. SameMessages
  BY ZenonT(60), <1>1 DEF SameMessages
<1>3. \A n \in DOMAIN outbox' : Decided(outbox'[n])
  BY ZenonT(60), <1>1 DEF ClaimInv, DecidedByLatest, Decided
<1>4. \A d \in Dispatchers : Holds(d)'
  BY ZenonT(60), <1>1 DEF ClaimInv, Holds
<1> QED  BY ZenonT(60), <1>2, <1>3, <1>4 DEF ClaimInv, DecidedByLatest, Decided, Holds

\* Steps that change only what a dispatcher holds.
LEMMA HoldMoves ==
  ASSUME MessageInv, ClaimInv, outbox' = outbox, NEW d \in Dispatchers, NEW y \in HoldType,
         holds' = [holds EXCEPT ![d] = y], y.message \in {0} \cup DOMAIN outbox,
         y.handed => y.message # 0 /\ outbox[y.message].received, y.outcome = "DELIVERED" => y.handed
  PROVE  SameMessages /\ ClaimInv'
  BY ZenonT(60) DEF MessageInv, SameMessages, ClaimInv, DecidedByLatest

\* A dispatcher that holds nothing.
LEMMA HoldsNothing == NoHold \in HoldType /\ NoHold.message = 0 /\ ~NoHold.handed /\ NoHold.outcome = "NONE"
  BY ZenonT(60) DEF NoHold, HoldType, Leases

\* Claim: the row and the dispatcher's copy carry the next fence.
LEMMA ClaimKeeps ==
  ASSUME MessageInv, ClaimInv, NEW d \in Dispatchers, NEW m \in DOMAIN outbox, Claim(d, m)
  PROVE  SameMessages /\ ClaimInv'
<1> DEFINE y == [outbox[m] EXCEPT !.state = "CLAIMED", !.lease = "LIVE", !.fence = @ + 1]
           h == [message |-> m, fence |-> outbox[m].fence + 1, lease |-> "LIVE", handed |-> FALSE, outcome |-> "NONE"]
<1>1. outbox[m] \in MessageType /\ m \in Nat
  BY DEF MessageInv
<1>2. outbox[m].fence \in Nat /\ outbox[m].fence + 1 \in 0..MaxClaims /\ outbox[m].fence + 1 > 0
  BY <1>1, BoundsAreNatural DEF MessageType, Claim
<1>3. y \in MessageType
  BY ZenonT(60), <1>1, <1>2 DEF MessageType, Leases
<1>4. y.topic = outbox[m].topic /\ y.id = outbox[m].id /\ y.received = outbox[m].received /\ Decided(y)
  BY ZenonT(60), <1>1, <1>2 DEF MessageType, Decided
<1>5. outbox' = [outbox EXCEPT ![m] = y] /\ holds' = [holds EXCEPT ![d] = h]
  BY ZenonT(60) DEF Claim
<1>6. h \in HoldType
  BY <1>1, <1>2 DEF HoldType, Leases
<1>7. DOMAIN outbox' = DOMAIN outbox
  BY ZenonT(60), <1>5
<1>8. holds' \in [Dispatchers -> HoldType] /\ \A q \in Dispatchers : holds'[q] = holds[q] \/ Holds(q)'
  <2> HIDE DEF y
  <2> QED  BY ZenonT(60), <1>5, <1>6, <1>7 DEF ClaimInv, Holds
<1> HIDE DEF y, h
<1> QED  BY ZenonT(60), <1>3, <1>4, <1>5, <1>8, MessageMoves

\* Lapses: a lease runs out, on the row and in the copy of its owner.
LEMMA LapsesKeeps ==
  ASSUME MessageInv, ClaimInv, NEW m \in DOMAIN outbox, Lapses(m)
  PROVE  SameMessages /\ ClaimInv'
<1> PICK lease \in Leases :
      /\ outbox' = [outbox EXCEPT ![m].lease = lease]
      /\ holds' = [d \in Dispatchers |->
                     IF holds[d].message = m /\ holds[d].fence = outbox[m].fence
                     THEN [holds[d] EXCEPT !.lease = lease] ELSE holds[d]]
  BY ZenonT(60) DEF Lapses, Leases
<1> DEFINE y == [outbox[m] EXCEPT !.lease = lease]
<1>1. outbox[m] \in MessageType /\ Decided(outbox[m])
  BY DEF MessageInv, ClaimInv, DecidedByLatest, Decided
<1>2. y \in MessageType
  BY ZenonT(60), <1>1 DEF MessageType
<1>3. y.topic = outbox[m].topic /\ y.id = outbox[m].id /\ y.received = outbox[m].received /\ Decided(y)
  BY ZenonT(60), <1>1 DEF MessageType, Decided
<1>4. ASSUME NEW d \in Dispatchers
      PROVE  /\ holds'[d] \in HoldType /\ holds'[d].message = holds[d].message
             /\ holds'[d].outcome = holds[d].outcome /\ holds'[d].handed = holds[d].handed
  <2>1. holds[d] \in HoldType
    BY ZenonT(60) DEF ClaimInv
  <2> DEFINE h == [holds[d] EXCEPT !.lease = lease]
  <2>2. h \in HoldType /\ h.message = holds[d].message /\ h.outcome = holds[d].outcome /\ h.handed = holds[d].handed
    BY <2>1, Zenon DEF HoldType
  <2>3. holds'[d] = h \/ holds'[d] = holds[d]
    BY ZenonT(60)
  <2> HIDE DEF h
  <2> QED  BY <2>1, <2>2, <2>3, Zenon
<1>5. holds' \in [Dispatchers -> HoldType]
  BY ZenonT(60), <1>4
<1>6. outbox' = [outbox EXCEPT ![m] = y]
  BY ZenonT(60)
<1>7. \A d \in Dispatchers : /\ holds'[d].message = holds[d].message /\ holds'[d].outcome = holds[d].outcome
                             /\ holds'[d].handed <=> holds[d].handed
  BY <1>4, Zenon
<1>8. outbox[m].received => y.received
  BY <1>3, Zenon
<1> HIDE DEF y
<1> QED  BY ZenonT(60), <1>2, <1>3, <1>5, <1>6, <1>7, <1>8, MessageMoves

\* Hand: the consumer has the message before the dispatcher says so.
LEMMA HandKeeps ==
  ASSUME MessageInv, ClaimInv, NEW d \in Dispatchers, Hand(d)
  PROVE  SameMessages /\ ClaimInv'
<1> DEFINE m == holds[d].message
           y == [outbox[m] EXCEPT !.received = TRUE]
           h == [holds[d] EXCEPT !.handed = TRUE]
<1>1. m \in DOMAIN outbox /\ m # 0 /\ holds[d] \in HoldType /\ holds[d].outcome = "NONE"
  BY ZenonT(60) DEF ClaimInv, Hand, Working
<1>2. outbox[m] \in MessageType /\ Decided(outbox[m])
  BY <1>1 DEF MessageInv, ClaimInv, DecidedByLatest, Decided
<1>3. y \in MessageType /\ h \in HoldType
  BY <1>1, <1>2, Zenon DEF MessageType, HoldType
<1>4. y.topic = outbox[m].topic /\ y.id = outbox[m].id /\ y.received /\ Decided(y)
  BY ZenonT(60), <1>2 DEF MessageType, Decided
<1>5. outbox' = [outbox EXCEPT ![m] = y] /\ holds' = [holds EXCEPT ![d] = h]
  BY ZenonT(60) DEF Hand
<1>6. h.message = m /\ h.outcome = "NONE"
  BY ZenonT(60), <1>1 DEF HoldType
<1>7. DOMAIN outbox' = DOMAIN outbox /\ outbox'[m].received
  BY ZenonT(60), <1>1, <1>4, <1>5 DEF MessageInv
<1>8. holds' \in [Dispatchers -> HoldType] /\ \A q \in Dispatchers : holds'[q] = holds[q] \/ Holds(q)'
  <2> HIDE DEF y, h
  <2> QED  BY ZenonT(60), <1>1, <1>3, <1>5, <1>6, <1>7 DEF ClaimInv, Holds
<1> HIDE DEF y, h, m
<1> QED  BY ZenonT(60), <1>1, <1>3, <1>4, <1>5, <1>8, MessageMoves

\* Decide: DELIVERED is decided only of a message that was handed over.
LEMMA DecideKeeps ==
  ASSUME MessageInv, ClaimInv, NEW d \in Dispatchers, NEW outcome \in {"DELIVERED", "PENDING", "DEAD_LETTERED"},
         Decide(d, outcome)
  PROVE  SameMessages /\ ClaimInv'
<1> DEFINE h == [holds[d] EXCEPT !.outcome = outcome]
<1>1. holds[d] \in HoldType /\ Holds(d)
  BY ZenonT(60) DEF ClaimInv, Holds
<1>2. /\ h \in HoldType /\ h.message = holds[d].message /\ h.handed = holds[d].handed /\ h.outcome = outcome
  BY ZenonT(60), <1>1 DEF HoldType
<1>3. outbox' = outbox /\ holds' = [holds EXCEPT ![d] = h] /\ (outcome = "DELIVERED" => holds[d].handed)
  BY ZenonT(60) DEF Decide, rowVars
<1> HIDE DEF h
<1> QED  BY ZenonT(60), <1>1, <1>2, <1>3, HoldMoves DEF Holds

\* Report: only the current claim is written.
LEMMA ReportKeeps ==
  ASSUME MessageInv, ClaimInv, NEW d \in Dispatchers, Report(d)
  PROVE  SameMessages /\ ClaimInv'
<1> DEFINE m == holds[d].message
           y == [outbox[m] EXCEPT !.state = holds[d].outcome, !.lease = "PAST", !.decided = holds[d].fence]
<1>1. m \in DOMAIN outbox /\ m # 0 /\ holds[d] \in HoldType /\ holds[d].outcome # "NONE" /\ Holds(d)
  BY ZenonT(60) DEF ClaimInv, Report, Working, Holds
<1>2. outbox[m] \in MessageType
  BY <1>1 DEF MessageInv
<1>3. holds' = [holds EXCEPT ![d] = NoHold]
  BY ZenonT(60) DEF Report
<1>4. CASE CurrentClaim(d)
  <2>1. y \in MessageType
    BY ZenonT(60), <1>1, <1>2 DEF MessageType, HoldType, Leases
  <2>2. y.topic = outbox[m].topic /\ y.id = outbox[m].id /\ y.received = outbox[m].received /\ Decided(y)
    BY ZenonT(60), <1>1, <1>2, <1>4 DEF MessageType, Decided, CurrentClaim, Holds, HoldType
  <2>3. outbox' = [outbox EXCEPT ![m] = y]
    BY ZenonT(60), <1>4 DEF Report
  <2>4. holds' \in [Dispatchers -> HoldType] /\ \A q \in Dispatchers : holds'[q] = holds[q] \/ Holds(q)'
    BY ZenonT(60), <1>3, HoldsNothing DEF ClaimInv, Holds
  <2> HIDE DEF y, m
  <2> QED  BY ZenonT(60), <1>1, <2>1, <2>2, <2>3, <2>4, MessageMoves
<1>5. CASE ~CurrentClaim(d)
  <2>1. outbox' = outbox
    BY ZenonT(60), <1>5 DEF Report
  <2> QED  BY ZenonT(60), <1>3, <2>1, HoldsNothing, HoldMoves
<1> QED  BY ZenonT(60), <1>4, <1>5

\* The steps of a dispatcher.
LEMMA DispatchersKeep ==
  ASSUME MessageInv, ClaimInv, NEW d \in Dispatchers, DispatcherStep(d) \/ Crash(d)
  PROVE  SameMessages /\ ClaimInv'
<1>1. CASE Late(d) \/ Crash(d)
  <2>1. outbox' = outbox /\ holds' = [holds EXCEPT ![d] = NoHold]
    BY ZenonT(60), <1>1 DEF Late, Crash, rowVars
  <2> QED  BY ZenonT(60), <2>1, HoldsNothing, HoldMoves
<1> QED  BY ZenonT(60), <1>1, ClaimKeeps, HandKeeps, DecideKeeps, ReportKeeps DEF DispatcherStep

-----------------------------------------------------------------------------
(* Readers *)

\* A frame that is written, and one that is taken.
LEMMA WireGrows ==
  ASSUME NEW w \in Seq(Nat), NEW from \in Nat, NEW to \in Nat, from <= to, Between(w, from, to)
  PROVE  /\ Append(w, to + 1) \in Seq(Nat) /\ Between(Append(w, to + 1), from, to + 1)
         /\ \A j : Carries(w, j) \/ j = to + 1 => Carries(Append(w, to + 1), j)
<1> DEFINE v == Append(w, to + 1)
<1>1. to + 1 \in Nat /\ \A k \in DOMAIN w : w[k] \in Nat
  OBVIOUS
<1>2. /\ v \in Seq(Nat) /\ DOMAIN w = 1..Len(w) /\ DOMAIN v = 1..(Len(w) + 1) /\ Len(w) \in Nat
      /\ \A k \in DOMAIN w : v[k] = w[k]
      /\ v[Len(w) + 1] = to + 1
  BY <1>1, AppendIs
<1> HIDE DEF v
<1>3. ASSUME NEW k \in DOMAIN v PROVE (k \in DOMAIN w /\ v[k] = w[k]) \/ (k = Len(w) + 1 /\ v[k] = to + 1)
  BY <1>2
<1>4. Between(v, from, to + 1)
  <2>1. ASSUME NEW k \in DOMAIN v PROVE from < v[k] /\ v[k] <= to + 1
    <3>1. k \in DOMAIN w => from < w[k] /\ w[k] <= to /\ w[k] \in Nat
      BY ZenonT(60), <1>1 DEF Between
    <3> QED  BY <1>3, <3>1
  <2>2. ASSUME NEW k \in DOMAIN v, NEW l \in DOMAIN v, k < l PROVE v[k] < v[l]
    <3>1. k \in DOMAIN w
      BY <1>2, <2>2
    <3>2. w[k] <= to /\ w[k] \in Nat /\ v[k] = w[k] /\ (l \in DOMAIN w => w[k] < w[l])
      BY ZenonT(60), <1>1, <1>2, <2>2, <3>1 DEF Between
    <3> QED  BY <1>3, <3>2
  <2> QED  BY ZenonT(60), <2>1, <2>2 DEF Between
<1>5. ASSUME NEW j, Carries(w, j) \/ j = to + 1 PROVE Carries(v, j)
  <2>1. DOMAIN w \subseteq DOMAIN v /\ Len(w) + 1 \in DOMAIN v
    BY <1>2
  <2> QED  BY ZenonT(60), <1>2, <1>5, <2>1 DEF Carries
<1> QED  BY ZenonT(60), <1>2, <1>4, <1>5 DEF v

\* The first frame is the lowest, and the rest is what comes after it.
LEMMA WireShrinks ==
  ASSUME NEW w \in Seq(Nat), NEW from \in Nat, NEW to \in Nat, w # <<>>, Between(w, from, to)
  PROVE  /\ Head(w) \in Nat /\ Tail(w) \in Seq(Nat) /\ from < Head(w) /\ Head(w) <= to
         /\ Between(Tail(w), Head(w), to)
         /\ \A j : Carries(w, j) => j = Head(w) \/ (Head(w) < j /\ Carries(Tail(w), j))
<1> DEFINE h == Head(w)
           v == Tail(w)
<1>1. /\ DOMAIN w = 1..Len(w) /\ Len(w) \in Nat /\ Len(w) > 0 /\ v \in Seq(Nat)
      /\ h = w[1] /\ h \in Nat /\ \A k \in DOMAIN w : w[k] \in Nat
  OBVIOUS
<1>2. DOMAIN v = 1..(Len(w) - 1) /\ \A k \in DOMAIN v : v[k] = w[k + 1] /\ k + 1 \in DOMAIN w /\ k \in Nat /\ 1 <= k
  BY <1>1
<1> HIDE DEF h, v
<1>3. 1 \in DOMAIN w /\ from < h /\ h <= to
  <2>1. 1 \in DOMAIN w
    BY <1>1
  <2> QED  BY ZenonT(60), <1>1, <2>1 DEF Between
<1>4. ASSUME NEW k \in DOMAIN w, k # 1 PROVE h < w[k] /\ k - 1 \in DOMAIN v /\ v[k - 1] = w[k]
  <2>1. k \in 2..Len(w) /\ DOMAIN v = 1..(Len(w) - 1) /\ Len(w) \in Nat
    BY <1>1, <1>2, <1>4
  <2>2. k - 1 \in DOMAIN v /\ 1 < k /\ (k - 1) + 1 = k
    <3>1. k - 1 \in 1..(Len(w) - 1) /\ 1 < k /\ (k - 1) + 1 = k
      BY <2>1
    <3> QED  BY ZenonT(60), <2>1, <3>1
  <2> QED  BY ZenonT(60), <1>1, <1>2, <1>3, <2>2 DEF Between
<1>5. Between(v, h, to)
  <2>1. ASSUME NEW k \in DOMAIN v PROVE h < v[k] /\ v[k] <= to
    <3>1. k + 1 \in DOMAIN w /\ k + 1 # 1 /\ v[k] = w[k + 1]
      BY <1>2
    <3> QED  BY ZenonT(60), <1>4, <3>1 DEF Between
  <2>2. \A k, l \in DOMAIN v : k < l => v[k] < v[l]
    BY <1>2 DEF Between
  <2> QED  BY ZenonT(60), <2>1, <2>2 DEF Between
<1>6. ASSUME NEW j, Carries(w, j) PROVE j = h \/ (h < j /\ Carries(v, j))
  BY ZenonT(60), <1>1, <1>4, <1>6 DEF Carries
<1> QED  BY ZenonT(60), <1>1, <1>3, <1>5, <1>6 DEF h, v

\* A stream that is closed carries nothing.
LEMMA EmptyWire == ASSUME NEW from \in Nat PROVE <<>> \in Seq(Nat) /\ Between(<<>>, from, from)
  BY DEF Between

\* A step of one reader.
LEMMA ReaderMoves ==
  ASSUME ReaderInv, log' = log, NEW r \in Readers, NEW y \in ReaderType,
         readers' = [readers EXCEPT ![r] = y], Follows(y, log)
  PROVE  ReaderInv'
  BY ZenonT(60) DEF ReaderInv

\* Connect: the stream starts from the last event the client has.
LEMMA ConnectKeeps ==
  ASSUME RowInv, ReaderInv, NEW r \in Readers, NEW s \in DOMAIN sessions, NEW e \in {0} \cup DOMAIN executions,
         Connect(r, s, e)
  PROVE  ReaderInv'
<1> DEFINE x == readers[r]
           y == [x EXCEPT !.open = TRUE, !.on = s, !.only = e, !.after = x.last]
<1>1. x \in ReaderType /\ Follows(x, log) /\ ~x.open /\ (x.on = 0 \/ (x.on = s /\ x.only = e))
  BY ZenonT(60) DEF ReaderInv, Connect
<1>2. s \in Nat /\ s # 0 /\ e \in Nat /\ s \in DOMAIN log /\ Len(log[s]) \in Nat
  BY DEF RowInv
<1>3. y \in ReaderType
  BY <1>1, <1>2, Zenon DEF ReaderType
<1>4. /\ y.open /\ y.on = s /\ y.only = e /\ y.after = x.last /\ y.wire = <<>>
      /\ y.last = x.last /\ y.got = x.got /\ x.last \in Nat
  BY ZenonT(60), <1>1 DEF ReaderType, Follows
<1>5. log' = log /\ readers' = [readers EXCEPT ![r] = y]
  BY ZenonT(60) DEF Connect, rowVars
<1>6. Follows(y, log)
  <2> HIDE DEF x, y
  <2>1. CASE x.on = 0
    BY <1>1, <1>2, <1>4, <2>1, EmptyWire DEF Follows
  <2>2. CASE x.on # 0
    BY <1>1, <1>2, <1>4, <2>2, EmptyWire DEF Follows, Sees
  <2> QED  BY ZenonT(60), <2>1, <2>2
<1> HIDE DEF x, y
<1> QED  BY ZenonT(60), <1>3, <1>5, <1>6, ReaderMoves

\* The next event of a stream that misses nothing is the one after its cursor.
LEMMA NextIsNext ==
  ASSUME RowInv, NEW s \in DOMAIN log, NEW after \in Nat, after <= Len(log[s]),
         ~Missing(s, after), NextRetained(s, after) # 0
  PROVE  NextRetained(s, after) = after + 1 /\ after + 1 <= Len(log[s])
<1>1. NextRetained(s, after) = after + 1
  BY ZenonT(60) DEF Missing
<1>2. Len(log[s]) \in Nat
  BY DEF RowInv
<1>3. Retained(s, after + 1) # {}
  BY ZenonT(60) DEF NextRetained
<1>4. PICK i \in (after + 1)..Len(log[s]) : TRUE
  BY ZenonT(60), <1>3 DEF Retained
<1> QED  BY <1>1, <1>2, <1>4

\* Read: the cursor moves by one, over what is shown and what is not.
LEMMA ReadKeeps ==
  ASSUME RowInv, ReaderInv, NEW r \in Readers, Read(r)
  PROVE  ReaderInv'
<1> DEFINE x == readers[r]
           s == x.on
<1>1. x \in ReaderType /\ Follows(x, log) /\ x.open /\ log' = log
  BY ZenonT(60) DEF ReaderInv, Read, rowVars
<1>2. s \in DOMAIN log /\ Len(log[s]) \in Nat /\ x.after <= Len(log[s]) /\ s # 0
  BY <1>1 DEF Follows, ReaderType, RowInv
<1>3. CASE Missing(s, x.after) /\ readers' = [readers EXCEPT ![r].open = FALSE, ![r].gap = TRUE, ![r].wire = <<>>]
  <2> DEFINE y == [x EXCEPT !.open = FALSE, !.gap = TRUE, !.wire = <<>>]
  <2>1. y \in ReaderType
    <3>1. <<>> \in Seq(Nat)
      OBVIOUS
    <3> QED  BY <1>1, <3>1, Zenon DEF ReaderType
  <2>2. ~y.open /\ y.wire = <<>> /\ y.on = x.on /\ y.only = x.only /\ y.last = x.last /\ y.got = x.got
    BY ZenonT(60), <1>1 DEF ReaderType
  <2>3. readers' = [readers EXCEPT ![r] = y]
    BY ZenonT(60), <1>3
  <2>4. Follows(y, log)
    <3> HIDE DEF x, y
    <3> QED  BY ZenonT(60), <1>1, <1>2, <2>2 DEF Follows, Sees
  <2> HIDE DEF x, y
  <2> QED  BY ZenonT(60), <1>1, <2>1, <2>3, <2>4, ReaderMoves
<1>4. CASE ~Missing(s, x.after) /\ NextRetained(s, x.after) # 0
  <2> DEFINE i == x.after + 1
             w == IF Shown(r, i) THEN Append(x.wire, i) ELSE x.wire
             y == [x EXCEPT !.after = i, !.wire = w]
  <2>1. NextRetained(s, x.after) = i /\ i <= Len(log[s]) /\ x.after \in Nat /\ i \in Nat /\ x.wire \in Seq(Nat)
    BY <1>1, <1>2, <1>4, NextIsNext DEF ReaderType
  <2>2. Shown(r, i) <=> Sees(x, i, log)
    BY ZenonT(60) DEF Shown, Sees
  <2>3. readers' = [readers EXCEPT ![r] = y]
    BY ZenonT(60), <1>4, <2>1 DEF Read, Cursor
  <2>4. w \in Seq(Nat)
    BY <2>1
  <2>5. y \in ReaderType
    <3> HIDE DEF w, i
    <3> QED  BY <1>1, <2>1, <2>4, Zenon DEF ReaderType
  <2>6. /\ y.open /\ y.wire = w /\ y.on = x.on /\ y.only = x.only /\ y.last = x.last /\ y.got = x.got
        /\ y.after = i /\ x.last \in Nat
    <3> HIDE DEF w, i
    <3> QED  BY ZenonT(60), <1>1 DEF ReaderType
  <2>7. \A k : Sees(y, k, log) <=> Sees(x, k, log)
    BY ZenonT(60), <2>6 DEF Sees
  <2>8. CASE ~Sees(x, i, log)
    <3>1. w = x.wire
      BY ZenonT(60), <2>2, <2>8
    <3> HIDE DEF x, y, w
    <3>2. Follows(y, log)
      BY <1>1, <1>2, <2>1, <2>6, <2>7, <2>8, <3>1 DEF Follows, Between
    <3> QED  BY ZenonT(60), <1>1, <2>3, <2>5, <3>2, ReaderMoves
  <2>9. CASE Sees(x, i, log)
    <3>1. w = Append(x.wire, i)
      BY ZenonT(60), <2>2, <2>9
    <3> HIDE DEF x, y, w
    <3>2. Between(w, x.last, i) /\ \A j : Carries(x.wire, j) \/ j = i => Carries(w, j)
      BY <1>1, <2>1, <2>6, <3>1, WireGrows DEF Follows
    <3>5. \A j \in (x.last + 1)..i : Sees(x, j, log) => Carries(w, j)
      BY <1>1, <2>1, <2>6, <3>2 DEF Follows
    <3>6. Follows(y, log)
      BY <1>1, <1>2, <2>1, <2>6, <2>7, <3>2, <3>5 DEF Follows
    <3> QED  BY ZenonT(60), <1>1, <2>3, <2>5, <3>6, ReaderMoves
  <2> QED  BY ZenonT(60), <2>8, <2>9
<1> QED  BY ZenonT(60), <1>3, <1>4 DEF Read

\* Receive: the client takes the lowest frame.
LEMMA ReceiveKeeps ==
  ASSUME RowInv, ReaderInv, NEW r \in Readers, Receive(r)
  PROVE  ReaderInv'
<1> DEFINE x == readers[r]
           h == Head(x.wire)
           w == Tail(x.wire)
           y == [x EXCEPT !.last = h, !.got = @ \cup {h}, !.wire = w]
<1>1. x \in ReaderType /\ Follows(x, log) /\ log' = log /\ readers' = [readers EXCEPT ![r] = y] /\ x.wire # <<>>
  BY ZenonT(60) DEF ReaderInv, Receive, rowVars
<1>2. /\ x.wire \in Seq(Nat) /\ x.open /\ x.last \in Nat /\ x.after \in Nat /\ x.on # 0
      /\ x.on \in DOMAIN log /\ Len(log[x.on]) \in Nat
  BY <1>1 DEF ReaderType, Follows, RowInv
<1>3. /\ w \in Seq(Nat) /\ h \in Nat /\ x.last < h /\ h <= x.after /\ x.after <= Len(log[x.on])
      /\ Between(w, h, x.after)
      /\ \A j : Carries(x.wire, j) => j = h \/ (h < j /\ Carries(w, j))
  BY ZenonT(60), <1>1, <1>2, WireShrinks DEF Follows
<1>4. y \in ReaderType
  <2>1. x.got \cup {h} \in SUBSET Nat
    BY ZenonT(60), <1>1, <1>3 DEF ReaderType
  <2> HIDE DEF h, w
  <2> QED  BY <1>1, <1>3, <2>1, Zenon DEF ReaderType
<1>5. /\ y.open /\ y.wire = w /\ y.on = x.on /\ y.only = x.only /\ y.last = h /\ y.got = x.got \cup {h}
      /\ y.after = x.after
  <2> HIDE DEF h, w
  <2> QED  BY ZenonT(60), <1>1, <1>2 DEF ReaderType
<1>6. \A k : Sees(y, k, log) <=> Sees(x, k, log)
  BY ZenonT(60), <1>5 DEF Sees
<1> HIDE DEF x, y, w, h
<1>7. ASSUME NEW j \in (h + 1)..x.after, Sees(x, j, log) PROVE Carries(w, j)
  <2>1. j \in (x.last + 1)..x.after /\ j # h
    BY <1>2, <1>3
  <2> QED  BY ZenonT(60), <1>1, <1>2, <1>3, <1>7, <2>1 DEF Follows
<1>8. ASSUME NEW j \in 1..h, Sees(x, j, log) PROVE j \in x.got \cup {h}
  <2>1. CASE j <= x.last
    BY <1>1, <1>2, <1>8, <2>1 DEF Follows
  <2>2. CASE j > x.last
    <3>1. j \in (x.last + 1)..x.after /\ ~(h < j)
      BY <1>2, <1>3, <2>2
    <3> QED  BY ZenonT(60), <1>1, <1>2, <1>3, <1>8, <3>1 DEF Follows
  <2> QED  BY <1>2, <2>1, <2>2
<1>9. Follows(y, log)
  BY <1>2, <1>3, <1>5, <1>6, <1>7, <1>8 DEF Follows
<1> QED  BY ZenonT(60), <1>1, <1>4, <1>9, ReaderMoves

\* Break: the wire is lost; the client keeps its last event.
LEMMA BreakKeeps ==
  ASSUME RowInv, ReaderInv, NEW r \in Readers, Break(r)
  PROVE  ReaderInv'
<1> DEFINE x == readers[r]
           y == [x EXCEPT !.open = FALSE, !.wire = <<>>]
<1>1. x \in ReaderType /\ Follows(x, log) /\ x.open /\ log' = log /\ readers' = [readers EXCEPT ![r] = y]
  BY ZenonT(60) DEF ReaderInv, Break, rowVars
<1>2. y \in ReaderType
  <2>1. <<>> \in Seq(Nat)
    OBVIOUS
  <2> QED  BY <1>1, <2>1, Zenon DEF ReaderType
<1>3. ~y.open /\ y.wire = <<>> /\ y.on = x.on /\ y.only = x.only /\ y.last = x.last /\ y.got = x.got
  BY ZenonT(60), <1>1 DEF ReaderType
<1> HIDE DEF x, y
<1>4. Follows(y, log)
  BY ZenonT(60), <1>1, <1>3 DEF Follows, Sees
<1> QED  BY ZenonT(60), <1>1, <1>2, <1>4, ReaderMoves

-----------------------------------------------------------------------------
(* Components that carry accepted work on *)

\* The log of one Session grows.
LEMMA LogGrows ==
  ASSUME RowInv, NEW s \in DOMAIN log, NEW events \in Seq(EventType), log' = [log EXCEPT ![s] = events],
         Len(log[s]) <= Len(events), \A i \in 1..Len(log[s]) : events[i] = log[s][i]
  PROVE  Grows /\ Len(log') = Len(log)
<1>1. log \in Seq(Seq(EventType))
  BY ZenonT(60) DEF RowInv
<1>2. /\ log' \in Seq(Seq(EventType)) /\ Len(log') = Len(log) /\ DOMAIN log' = DOMAIN log
      /\ \A t \in DOMAIN log : log'[t] = IF t = s THEN events ELSE log[t]
  BY ZenonT(60), <1>1, UpdateIs
<1>3. \A t \in DOMAIN log : Len(log[t]) \in Nat
  BY <1>1
<1> QED  BY <1>2, <1>3 DEF Grows

\* Grants end, but not under a transaction that accepts a signal.
LEMMA GrantKeeps ==
  ASSUME RowInv, NEW g \in DOMAIN grants, Expires(g) \/ \E cancel \in BOOLEAN : Status(g, cancel)
  PROVE  RowInv' /\ \A e \in DOMAIN executions : Holding(e) => Steady(e)
<1>1. grants \in Seq(GrantType) /\ grants[g] \in GrantType /\ DOMAIN executions = DOMAIN grants
  BY DEF RowInv
<1>2. PICK y \in GrantType : grants' = [grants EXCEPT ![g] = y] /\ (y.state = grants[g].state \/ GrantFree(g))
  <2>1. CASE Expires(g)
    <3>1. [grants[g] EXCEPT !.due = TRUE] \in GrantType
      BY <1>1, Zenon DEF GrantType
    <3>2. [grants[g] EXCEPT !.due = TRUE].state = grants[g].state
      BY ZenonT(60), <1>1 DEF GrantType
    <3> QED  BY ZenonT(60), <2>1, <3>1, <3>2 DEF Expires
  <2>2. CASE \E cancel \in BOOLEAN : Status(g, cancel)
    <3>1. PICK state \in {"EXPIRED", "CANCELLED"} : GrantFree(g) /\ grants' = [grants EXCEPT ![g].state = state]
      BY ZenonT(60), <2>2 DEF Status
    <3>2. [grants[g] EXCEPT !.state = state] \in GrantType
      BY <1>1, <3>1, Zenon DEF GrantType
    <3> QED  BY ZenonT(60), <3>1, <3>2
  <2> QED  BY ZenonT(60), <2>1, <2>2
<1>3. /\ grants' \in Seq(GrantType) /\ Len(grants') = Len(grants)
      /\ \A e \in DOMAIN grants : grants'[e] = IF e = g THEN y ELSE grants[e]
  BY ZenonT(60), <1>1, <1>2, UpdateIs
<1>4. UNCHANGED <<sessions, executions, log>>
  BY ZenonT(60) DEF Expires, Status
<1>5. RowInv'
  BY <1>3, <1>4 DEF RowInv, Agrees, Opens
<1>6. \A e \in DOMAIN executions : Holding(e) => Steady(e)
  BY ZenonT(60), <1>1, <1>2, <1>3, <1>4 DEF Steady, GrantFree
<1> QED  BY ZenonT(60), <1>5, <1>6

\* Provisioned: no signal is held for a Session that never ran anything.
LEMMA ProvisionedKeeps ==
  ASSUME RowInv, RequestInv, SignalInv, NEW s \in DOMAIN sessions, Provisioned(s)
  PROVE  RowInv' /\ Len(sessions') = Len(sessions) /\ \A e \in DOMAIN executions : Holding(e) => Steady(e)
<1> DEFINE y == [sessions[s] EXCEPT !.state = "READY", !.version = @ + 1]
<1>1. sessions \in Seq(SessionType) /\ sessions[s] \in SessionType /\ sessions[s].state = "CREATED"
  BY DEF RowInv, Provisioned
<1>2. y \in SessionType /\ y.state = "READY" /\ y.gen = sessions[s].gen /\ y.gen <= y.version
  <2>1. sessions[s].gen <= sessions[s].version
    BY ZenonT(60) DEF RowInv
  <2>2. sessions[s].version \in Nat /\ sessions[s].version + 1 \in Nat /\ sessions[s].gen \in Nat
    BY <1>1 DEF SessionType
  <2>3. y \in SessionType /\ y.version = sessions[s].version + 1 /\ y.gen = sessions[s].gen /\ y.state = "READY"
    BY ZenonT(60), <1>1, <2>2 DEF SessionType
  <2> QED  BY <2>1, <2>2, <2>3
<1>3. sessions' = [sessions EXCEPT ![s] = y] /\ UNCHANGED <<executions, grants, log>>
  BY ZenonT(60) DEF Provisioned
<1> HIDE DEF y
<1>4. /\ sessions' \in Seq(SessionType) /\ Len(sessions') = Len(sessions) /\ DOMAIN sessions' = DOMAIN sessions
      /\ \A t \in DOMAIN sessions : sessions'[t] = IF t = s THEN y ELSE sessions[t]
  BY ZenonT(60), <1>1, <1>2, <1>3, UpdateIs
<1>5. \A t \in DOMAIN sessions : Agrees(t)'
  <2>1. \A t, e : Opens(t, e)' = Opens(t, e)
    BY ZenonT(60), <1>3 DEF Opens
  <2> QED  BY ZenonT(60), <1>1, <1>2, <1>3, <1>4, <2>1 DEF RowInv, Agrees
<1>6. RowInv'
  BY ZenonT(60), <1>2, <1>3, <1>4, <1>5 DEF RowInv
<1>7. ASSUME NEW e \in DOMAIN executions, Holding(e) PROVE Steady(e)
  <2>1. executions[e].session \in DOMAIN sessions /\ sessions[executions[e].session].state = "ACTIVE"
    BY ZenonT(60), <1>7 DEF RowInv, Holding, SignalInv
  <2> QED  BY ZenonT(60), <1>1, <1>3, <1>4, <2>1 DEF Steady
<1> QED  BY ZenonT(60), <1>4, <1>6, <1>7

\* An Execution whose row changes state.
LEMMA ExecutionMoves ==
  ASSUME RowInv, NEW e \in DOMAIN executions, NEW state \in {"RUNNING", "SUCCEEDED"},
         executions' = [executions EXCEPT ![e].state = state]
  PROVE  /\ executions' \in Seq(ExecutionType) /\ Len(executions') = Len(executions)
         /\ DOMAIN executions' = DOMAIN executions /\ executions'[e].state = state
         /\ \A f \in DOMAIN executions : /\ executions'[f].session = executions[f].session
                                         /\ executions'[f].gen = executions[f].gen
                                         /\ f # e => executions'[f] = executions[f]
<1> DEFINE y == [executions[e] EXCEPT !.state = state]
<1>1. executions \in Seq(ExecutionType) /\ executions[e] \in ExecutionType /\ executions' = [executions EXCEPT ![e] = y]
  BY DEF RowInv
<1>2. y \in ExecutionType /\ y.state = state /\ y.session = executions[e].session /\ y.gen = executions[e].gen
  BY ZenonT(60), <1>1 DEF ExecutionType
<1> HIDE DEF y
<1> QED  BY <1>1, <1>2, UpdateIs

\* Started: the Execution stays the open one of its Session.
LEMMA StartedKeeps ==
  ASSUME RowInv, NEW e \in DOMAIN executions, Started(e)
  PROVE  RowInv' /\ Len(executions') = Len(executions) /\ \A f \in DOMAIN executions : Holding(f) => Steady(f)
<1>1. UNCHANGED <<sessions, grants, log>> /\ executions[e].state = "QUEUED" /\ SessionFree(executions[e].session)
  BY ZenonT(60) DEF Started
<1>2. /\ executions' \in Seq(ExecutionType) /\ Len(executions') = Len(executions)
      /\ DOMAIN executions' = DOMAIN executions /\ executions'[e].state = "RUNNING"
      /\ \A f \in DOMAIN executions : /\ executions'[f].session = executions[f].session
                                      /\ executions'[f].gen = executions[f].gen
                                      /\ f # e => executions'[f] = executions[f]
  BY ZenonT(60), ExecutionMoves DEF Started
<1>3. \A t, f : f \in DOMAIN executions => (Opens(t, f)' <=> Opens(t, f))
  BY ZenonT(60), <1>1, <1>2 DEF Opens
<1>4. \A t \in DOMAIN sessions : Agrees(t)'
  BY <1>1, <1>2, <1>3 DEF RowInv, Agrees
<1>5. RowInv'
  BY ZenonT(60), <1>1, <1>2, <1>4 DEF RowInv
<1>6. \A f \in DOMAIN executions : Holding(f) => Steady(f)
  BY ZenonT(60), <1>1, <1>2 DEF Steady, SessionFree
<1> QED  BY ZenonT(60), <1>2, <1>5, <1>6

\* Finished: the Session's only open Execution ends with its activity.
LEMMA FinishedKeeps ==
  ASSUME RowInv, NEW e \in DOMAIN executions, Finished(e)
  PROVE  /\ RowInv' /\ Len(executions') = Len(executions) /\ Len(sessions') = Len(sessions)
         /\ \A f \in DOMAIN executions : Holding(f) => Steady(f)
<1> DEFINE s == executions[e].session
           y == [sessions[s] EXCEPT !.state = "IDLE", !.version = @ + 1]
<1>1. UNCHANGED <<grants, log>> /\ executions[e].state = "RUNNING" /\ SessionFree(s) /\ s \in DOMAIN sessions
  BY ZenonT(60) DEF Finished, RowInv
<1>2. /\ executions' \in Seq(ExecutionType) /\ Len(executions') = Len(executions)
      /\ DOMAIN executions' = DOMAIN executions /\ executions'[e].state = "SUCCEEDED"
      /\ \A f \in DOMAIN executions : /\ executions'[f].session = executions[f].session
                                      /\ executions'[f].gen = executions[f].gen
                                      /\ f # e => executions'[f] = executions[f]
  BY ZenonT(60), ExecutionMoves DEF Finished
<1>3. sessions \in Seq(SessionType) /\ sessions[s] \in SessionType /\ sessions[s].gen <= sessions[s].version
  BY <1>1 DEF RowInv
<1>4. y \in SessionType /\ y.state = "IDLE" /\ y.gen = sessions[s].gen /\ y.gen <= y.version
  <2>1. sessions[s].version \in Nat /\ sessions[s].version + 1 \in Nat /\ sessions[s].gen \in Nat
    BY <1>3 DEF SessionType
  <2>2. y \in SessionType /\ y.version = sessions[s].version + 1 /\ y.gen = sessions[s].gen /\ y.state = "IDLE"
    BY ZenonT(60), <1>3, <2>1 DEF SessionType
  <2> QED  BY <1>3, <2>1, <2>2
<1>5. sessions' = [sessions EXCEPT ![s] = y]
  BY ZenonT(60) DEF Finished
<1> HIDE DEF y, s
<1>6. /\ sessions' \in Seq(SessionType) /\ Len(sessions') = Len(sessions) /\ DOMAIN sessions' = DOMAIN sessions
      /\ \A t \in DOMAIN sessions : sessions'[t] = IF t = s THEN y ELSE sessions[t]
  BY <1>1, <1>3, <1>4, <1>5, UpdateIs
<1>7. Opens(s, e) /\ Agrees(s)
  BY ZenonT(60), <1>1 DEF Opens, s, RowInv
<1>8. \A t, f : f \in DOMAIN executions => (Opens(t, f)' <=> Opens(t, f) /\ f # e)
  BY ZenonT(60), <1>1, <1>2 DEF Opens
<1>9. ASSUME NEW t \in DOMAIN sessions PROVE Agrees(t)'
  <2>1. CASE t = s
    BY ZenonT(60), <1>2, <1>4, <1>6, <1>7, <1>8, <2>1 DEF Agrees
  <2>2. CASE t # s
    <3>1. Agrees(t) /\ ~Opens(t, e)
      BY ZenonT(60), <2>2, <1>7 DEF RowInv, Opens
    <3> QED  BY <1>2, <1>6, <1>8, <2>2, <3>1 DEF Agrees
  <2> QED  BY ZenonT(60), <2>1, <2>2
<1>10. RowInv'
  BY ZenonT(60), <1>1, <1>2, <1>4, <1>6, <1>9 DEF RowInv
<1>11. ASSUME NEW f \in DOMAIN executions, Holding(f) PROVE Steady(f)
  <2>1. executions[f].session # s /\ f # e /\ executions[f].session \in DOMAIN sessions
    BY ZenonT(60), <1>1, <1>11 DEF SessionFree, s, RowInv
  <2> QED  BY ZenonT(60), <1>1, <1>2, <1>6, <2>1 DEF Steady
<1> QED  BY ZenonT(60), <1>2, <1>6, <1>10, <1>11

\* Observed: an event is appended.
LEMMA ObservedKeeps ==
  ASSUME RowInv, NEW e \in DOMAIN executions, Observed(e)
  PROVE  RowInv' /\ Grows
<1> DEFINE s == executions[e].session
           x == Event("tool.status_changed", e, TRUE)
<1>1. s \in DOMAIN log /\ log[s] \in Seq(EventType) /\ e \in Nat
  BY DEF RowInv
<1>2. x \in EventType
  BY ZenonT(60), <1>1 DEF Event, EventType, EventTypes
<1>3. log' = [log EXCEPT ![s] = Append(log[s], x)] /\ UNCHANGED <<sessions, executions, grants>>
  BY ZenonT(60) DEF Observed
<1> HIDE DEF x, s
<1>4. /\ Append(log[s], x) \in Seq(EventType) /\ Len(log[s]) <= Len(Append(log[s], x))
      /\ \A i \in 1..Len(log[s]) : Append(log[s], x)[i] = log[s][i]
  BY <1>1, <1>2, AppendIs
<1>5. Grows /\ Len(log') = Len(log)
  BY ZenonT(60), <1>1, <1>3, <1>4, LogGrows
<1> QED  BY <1>3, <1>5 DEF RowInv, Agrees, Opens, Grows

-----------------------------------------------------------------------------
(* Requests *)

\* A client without a transaction.
LEMMA Idle == NoTx \in TxType /\ NoTx.at = "IDLE"
<1>1. NoRequest \in RequestType
  BY ZenonT(60) DEF NoRequest, RequestType, Kinds, Keys, Digests
<1> QED  BY ZenonT(60), <1>1 DEF NoTx, TxType

\* What holds of a transaction while it runs.
Sound(y) ==
  /\ y.request.kind # "NONE"
  /\ y.request.kind = "EXECUTION" => y.request.on \in DOMAIN sessions
  /\ y.request.kind = "SIGNAL" => y.request.on \in DOMAIN executions

\* The scope of a reservation has no record and no other reservation.
Exclusive(c, q) ==
  /\ \A r \in records : r.scope # Scope(q)
  /\ \A d \in Clients \ {c} : ~Reserving(d, q)

\* A transaction that holds the reservation of a scope.
Reserves(x, scope) == x.at \in {"RESERVED", "CHECKED"} /\ Scope(x.request) = scope

\* A transaction of client c moves on or ends, and creates nothing.
LEMMA RequestMoves ==
  ASSUME RequestInv, UNCHANGED <<records, sessions, executions>>, NEW c \in Clients, NEW y \in TxType,
         tx' = [tx EXCEPT ![c] = y], y.at # "IDLE" => Sound(y),
         y.at \in {"RESERVED", "CHECKED"} => Exclusive(c, y.request),
         answers' \subseteq records, \A a \in answers' : a.scope.kind \in Pinned
  PROVE  RequestInv'
<1>1. tx' \in [Clients -> TxType] /\ tx'[c] = y /\ \A d \in Clients : d # c => tx'[d] = tx[d]
  BY ZenonT(60) DEF RequestInv
<1>2. ASSUME NEW d \in Clients, tx'[d].at # "IDLE" PROVE Sound(tx'[d])
  BY ZenonT(60), <1>1, <1>2 DEF RequestInv, Sound
<1>3. ASSUME NEW d \in Clients, tx'[d].at \in {"RESERVED", "CHECKED"}
      PROVE  /\ \A r \in records : r.scope # Scope(tx'[d].request)
             /\ \A b \in Clients \ {d} : ~Reserves(tx'[b], Scope(tx'[d].request))
  <2>1. CASE d = c
    BY ZenonT(60), <1>1, <1>3, <2>1 DEF Exclusive, Reserving, Reserves
  <2>2. CASE d # c
    <3>1. /\ tx'[d] = tx[d] /\ \A r \in records : r.scope # Scope(tx[d].request)
          /\ \A b \in Clients \ {d} : ~Reserves(tx[b], Scope(tx[d].request))
      BY ZenonT(60), <1>1, <1>3, <2>2 DEF RequestInv, Reserving, Reserves
    <3>2. ~Reserves(y, Scope(tx[d].request))
      BY ZenonT(60), <1>1, <1>3, <2>2, <3>1 DEF Exclusive, Reserving, Reserves
    <3> QED  BY ZenonT(60), <1>1, <2>2, <3>1, <3>2
  <2> QED  BY ZenonT(60), <2>1, <2>2
<1>4. \A d \in Clients : tx'[d].at \in {"RESERVED", "CHECKED"} =>
        /\ \A r \in records' : r.scope # Scope(tx'[d].request)
        /\ \A b \in Clients \ {d} : ~Reserving(b, tx[d].request)'
  BY ZenonT(60), <1>3 DEF Reserving, Reserves
<1> QED  BY ZenonT(60), <1>1, <1>2, <1>4 DEF RequestInv, Sound

\* The transaction that creates something: it ends, and its record and answer
\* are the first of their scope.
LEMMA RequestCommits ==
  ASSUME RequestInv, NEW c \in Clients, tx[c].at \in {"RESERVED", "CHECKED"}, NEW id \in Nat,
         NEW extra \in SUBSET RecordType, \A r \in extra : r.scope.kind = "ADMIT",
         tx' = [tx EXCEPT ![c] = NoTx], records' = Recorded(tx[c].request, id) \cup extra,
         Answer(tx[c].request, id),
         DOMAIN sessions \subseteq DOMAIN sessions', DOMAIN executions \subseteq DOMAIN executions'
  PROVE  RequestInv'
<1> DEFINE q == tx[c].request
           a == [scope |-> Scope(q), digest |-> q.digest, id |-> id]
<1>1. /\ tx' \in [Clients -> TxType] /\ tx'[c].at = "IDLE" /\ \A d \in Clients : d # c => tx'[d] = tx[d]
      /\ \A d \in Clients : tx[d] \in TxType
  BY ZenonT(60), Idle DEF RequestInv
<1>2. q \in RequestType /\ q.kind \in Pinned
  BY ZenonT(60), <1>1 DEF RequestInv, TxType, RequestType, Kinds, Pinned
<1>3. a \in RecordType /\ a.scope = Scope(q) /\ a.scope.kind \in Pinned
  BY ZenonT(60), <1>2 DEF RequestType, RecordType, Scope, Kinds
<1>4. records' = records \cup {a} \cup extra /\ answers' = answers \cup {a}
  BY ZenonT(60) DEF Recorded, Answer
<1>5. Exclusive(c, q)
  BY ZenonT(60) DEF RequestInv, Exclusive
<1> HIDE DEF q, a
<1>6. records' \subseteq RecordType /\ answers' \subseteq records' /\ \A b \in answers' : b.scope.kind \in Pinned
  BY ZenonT(60), <1>3, <1>4 DEF RequestInv
<1>7. \A r, s \in records' : r.scope = s.scope /\ r.scope.kind \in Pinned => r = s
  BY ZenonT(60), <1>3, <1>4, <1>5 DEF RequestInv, Exclusive, Pinned
<1>8. ASSUME NEW d \in Clients, tx'[d].at # "IDLE" PROVE d # c /\ tx'[d] = tx[d] /\ Sound(tx[d])
  BY ZenonT(60), <1>1, <1>8 DEF RequestInv, Sound
<1>9. ASSUME NEW d \in Clients, tx'[d].at \in {"RESERVED", "CHECKED"}
      PROVE  /\ \A r \in records' : r.scope # Scope(tx'[d].request)
             /\ \A b \in Clients \ {d} : ~Reserves(tx'[b], Scope(tx'[d].request))
  <2>1. d # c /\ tx'[d] = tx[d] /\ tx[d].at \in {"RESERVED", "CHECKED"}
    BY ZenonT(60), <1>1, <1>9
  <2>2. /\ \A r \in records : r.scope # Scope(tx[d].request)
        /\ \A b \in Clients \ {d} : ~Reserves(tx[b], Scope(tx[d].request))
    BY ZenonT(60), <2>1 DEF RequestInv, Reserving, Reserves
  <2>3. Scope(tx[d].request) # Scope(q)
    BY ZenonT(60), <2>1, <1>5 DEF Exclusive, Reserving
  <2>4. Scope(tx[d].request).kind # "ADMIT"
    BY ZenonT(60), <1>1 DEF Scope, TxType, RequestType, Kinds
  <2>5. \A r \in records' : r.scope # Scope(tx[d].request)
    BY ZenonT(60), <1>3, <1>4, <2>2, <2>3, <2>4
  <2>6. \A b \in Clients \ {d} : ~Reserves(tx'[b], Scope(tx[d].request))
    BY ZenonT(60), <1>1, <2>2 DEF Reserves
  <2> QED  BY ZenonT(60), <2>1, <2>5, <2>6
<1>10. \A d \in Clients : tx'[d].at \in {"RESERVED", "CHECKED"} =>
        /\ \A r \in records' : r.scope # Scope(tx'[d].request)
        /\ \A b \in Clients \ {d} : ~Reserving(b, tx[d].request)'
  BY ZenonT(60), <1>9 DEF Reserving, Reserves
<1> QED  BY ZenonT(60), <1>1, <1>6, <1>7, <1>8, <1>10 DEF RequestInv, Sound

\* What clients may ask for.
LEMMA RequestsAreSound ==
  ASSUME RowInv, NEW q \in Requests
  PROVE  q \in RequestType /\ Sound([at |-> "SENT", request |-> q])
<1>1. CASE q \in SessionRequests
  BY <1>1 DEF SessionRequests, RequestType, Kinds, Keys, Digests, Sound
<1>2. CASE q \in ExecutionRequests
  <2>1. PICK s \in DOMAIN sessions :
          q \in [kind : {"EXECUTION"}, on : {s}, key : ExecutionKeys, digest : 1..sessions[s].version]
    BY ZenonT(60), <1>2 DEF ExecutionRequests
  <2>2. s \in Nat /\ sessions[s].version \in Nat
    <3>1. s \in Nat /\ sessions[s] \in SessionType
      BY DEF RowInv
    <3> QED  BY ZenonT(60), <3>1 DEF SessionType
  <2>3. q.digest \in 1..sessions[s].version
    BY ZenonT(60), <2>1
  <2>4. q.digest \in Nat
    BY <2>2, <2>3
  <2> QED  BY ZenonT(60), <2>1, <2>2, <2>4 DEF RequestType, Kinds, Keys, Digests, Sound
<1>3. CASE q \in SignalRequests
  <2>1. DOMAIN executions \subseteq Nat
    BY DEF RowInv
  <2> QED  BY ZenonT(60), <1>3, <2>1 DEF SignalRequests, RequestType, Kinds, Keys, Digests, Sound
<1> QED  BY ZenonT(60), <1>1, <1>2, <1>3 DEF Requests

\* Send: the request names rows there are.
LEMMA SendKeeps ==
  ASSUME RowInv, RequestInv, NEW c \in Clients, Send(c)
  PROVE  RequestInv' /\ \A d \in Clients : tx'[d].at = "CHECKED" => tx'[d] = tx[d]
<1>1. PICK q \in Requests : tx' = [tx EXCEPT ![c] = [at |-> "SENT", request |-> q]]
  BY ZenonT(60) DEF Send
<1> DEFINE y == [at |-> "SENT", request |-> q]
<1>2. y \in TxType /\ y.at = "SENT" /\ Sound(y)
  BY ZenonT(60), RequestsAreSound DEF TxType
<1>3. UNCHANGED <<records, sessions, executions, answers>> /\ tx' = [tx EXCEPT ![c] = y]
  BY ZenonT(60), <1>1 DEF Send, rowVars
<1> HIDE DEF y
<1>4. RequestInv'
  <2>1. answers' \subseteq records /\ \A a \in answers' : a.scope.kind \in Pinned
    BY ZenonT(60), <1>3 DEF RequestInv
  <2> QED  BY ZenonT(60), <1>2, <1>3, <2>1, RequestMoves
<1> QED  BY ZenonT(60), <1>2, <1>3, <1>4 DEF RequestInv

\* A transaction that ends without a trace.
LEMMA EndKeeps ==
  ASSUME RequestInv, NEW c \in Clients, Ended(c), UNCHANGED <<records, sessions, executions>>,
         answers' \subseteq records, \A a \in answers' : a.scope.kind \in Pinned
  PROVE  RequestInv' /\ \A d \in Clients : tx'[d].at = "CHECKED" => tx'[d] = tx[d]
<1>1. tx' = [tx EXCEPT ![c] = NoTx]
  BY ZenonT(60) DEF Ended
<1>2. RequestInv'
  BY ZenonT(60), <1>1, Idle, RequestMoves
<1> QED  BY ZenonT(60), <1>1, <1>2, Idle DEF RequestInv

\* Reserve: the scope has no record, or its record gives the answer.
LEMMA ReserveKeeps ==
  ASSUME RequestInv, NEW c \in Clients, Reserve(c)
  PROVE  RequestInv' /\ \A d \in Clients : tx'[d].at = "CHECKED" => tx'[d] = tx[d]
<1> DEFINE q == tx[c].request
           known == {r \in records : r.scope = Scope(q)}
<1>1. tx[c].at = "SENT" /\ tx[c] \in TxType /\ Sound(tx[c]) /\ q \in RequestType /\ q.kind \in Pinned
  BY ZenonT(60) DEF Reserve, RequestInv, Sound, TxType, RequestType, Kinds, Pinned
<1>2. UNCHANGED <<records, sessions, executions>>
  BY ZenonT(60) DEF Reserve, rowVars
<1>3. CASE known = {} /\ tx' = [tx EXCEPT ![c].at = "RESERVED"] /\ UNCHANGED answers
  <2> DEFINE y == [tx[c] EXCEPT !.at = "RESERVED"]
  <2>1. y \in TxType /\ y.at = "RESERVED" /\ y.request = q
    BY ZenonT(60), <1>1 DEF TxType
  <2>2. Exclusive(c, q)
    BY ZenonT(60), <1>3 DEF Reserve, Exclusive
  <2>3. tx' = [tx EXCEPT ![c] = y] /\ answers' = answers
    BY ZenonT(60), <1>3
  <2>4. Sound(y)
    BY ZenonT(60), <1>1, <2>1 DEF Sound
  <2>5. answers' \subseteq records /\ \A a \in answers' : a.scope.kind \in Pinned
    BY ZenonT(60), <2>3 DEF RequestInv
  <2> HIDE DEF y, q
  <2>6. RequestInv'
    BY ZenonT(60), <1>2, <2>1, <2>2, <2>3, <2>4, <2>5, RequestMoves
  <2> QED  BY ZenonT(60), <2>1, <2>3, <2>6 DEF RequestInv
<1>4. CASE Ended(c) /\ ((\E r \in known : SameRequest(r, q) /\ Answer(q, r.id)) \/ UNCHANGED answers)
  <2>1. answers' \subseteq records /\ \A a \in answers' : a.scope.kind \in Pinned
    <3>1. CASE \E r \in known : SameRequest(r, q) /\ Answer(q, r.id)
      <4>1. PICK r \in known : /\ r.digest = q.digest
                               /\ answers' = answers \cup {[scope |-> Scope(q), digest |-> q.digest, id |-> r.id]}
        BY ZenonT(60), <3>1 DEF SameRequest, Answer
      <4>2. r \in RecordType /\ r \in records /\ r.scope = Scope(q)
        BY ZenonT(60) DEF RequestInv
      <4>3. r = [scope |-> Scope(q), digest |-> q.digest, id |-> r.id]
        BY ZenonT(60), <4>1, <4>2 DEF RecordType
      <4>4. r.scope.kind \in Pinned
        BY <1>1, <4>2 DEF Scope
      <4>5. answers' = answers \cup {r}
        BY ZenonT(60), <4>1, <4>3
      <4> QED  BY ZenonT(60), <4>2, <4>4, <4>5 DEF RequestInv
    <3>2. CASE UNCHANGED answers
      BY ZenonT(60), <3>2 DEF RequestInv
    <3> QED  BY ZenonT(60), <1>4, <3>1, <3>2
  <2> QED  BY ZenonT(60), <1>2, <1>4, <2>1, EndKeeps
<1> QED  BY ZenonT(60), <1>3, <1>4 DEF Reserve

\* CheckSignal: what it compares stays, because the rows are locked from here.
LEMMA CheckSignalKeeps ==
  ASSUME RowInv, RequestInv, SignalInv, NEW c \in Clients, CheckSignal(c)
  PROVE  RequestInv' /\ SignalInv'
<1>1. /\ tx[c].at = "RESERVED" /\ tx[c].request.kind = "SIGNAL"
      /\ UNCHANGED <<records, sessions, executions, grants, answers>>
      /\ tx \in [Clients -> TxType] /\ answers' \subseteq records /\ \A a \in answers' : a.scope.kind \in Pinned
  BY ZenonT(60) DEF CheckSignal, rowVars, RequestInv
<1>2. \A e \in DOMAIN executions : Steady(e)
  BY ZenonT(60), <1>1 DEF Steady
<1>3. CASE ~TakesSignals(tx[c].request.on)
  <2>1. RequestInv' /\ \A d \in Clients : tx'[d].at = "CHECKED" => tx'[d] = tx[d]
    BY ZenonT(60), <1>1, <1>3, EndKeeps DEF CheckSignal
  <2> QED  BY ZenonT(60), <1>2, <2>1, SignalsStay
<1>4. CASE TakesSignals(tx[c].request.on)
  <2> DEFINE y == [tx[c] EXCEPT !.at = "CHECKED"]
  <2>1. y \in TxType /\ y.at = "CHECKED" /\ y.request = tx[c].request
    BY ZenonT(60), <1>1 DEF TxType
  <2>2. tx' = [tx EXCEPT ![c] = y]
    BY ZenonT(60), <1>4 DEF CheckSignal
  <2>3. Sound(y) /\ Exclusive(c, y.request)
    BY ZenonT(60), <1>1, <2>1 DEF RequestInv, Sound, Exclusive
  <2> HIDE DEF y
  <2>4. RequestInv'
    BY ZenonT(60), <1>1, <2>1, <2>2, <2>3, RequestMoves
  <2>5. SignalInv'
    BY ZenonT(60), <1>1, <1>4, <2>1, <2>2 DEF SignalInv, TakesSignals, InForce
  <2> QED  BY ZenonT(60), <2>4, <2>5
<1> QED  BY ZenonT(60), <1>3, <1>4

-----------------------------------------------------------------------------
(* Creations *)

\* The message of a new resource is the first of its topic and identity.
LEMMA MessageAdded ==
  ASSUME RowInv, MessageInv, ClaimInv, NEW kind \in Pinned, NEW id \in Nat,
         \A r \in records' : r.scope.kind \in Pinned => r \in records \/ (r.scope.kind = kind /\ r.id = id),
         holds' = holds,
         outbox' = Append(outbox, Message(Topic(kind), id)),
         signals' \in Seq([execution : Nat, body : Digests]),
         \A t \in Topics : Count(t, Rows) \in Nat /\ Count(t, Rows') \in Nat /\ Count(t, Rows) <= Count(t, Rows'),
         id = Count(Topic(kind), Rows) + 1, id = Count(Topic(kind), Rows')
  PROVE  MessageInv' /\ ClaimInv'
<1> DEFINE y == Message(Topic(kind), id)
<1>1. Topic(kind) \in Topics
  BY ZenonT(60) DEF Topic, Topics
<1>2. /\ y \in MessageType /\ y.topic = Topic(kind) /\ y.id = id /\ y.state = "PENDING" /\ y.fence = 0 /\ y.decided = 0
  <2>1. 0 \in 0..MaxClaims
    BY BoundsAreNatural
  <2>2. y = [topic |-> Topic(kind), id |-> id, state |-> "PENDING", fence |-> 0, lease |-> "PAST",
             decided |-> 0, received |-> FALSE]
    BY ZenonT(60) DEF Message
  <2> HIDE DEF y
  <2> QED  BY ZenonT(60), <1>1, <2>1, <2>2 DEF MessageType, Leases
<1>3. outbox \in Seq(MessageType) /\ \A m \in DOMAIN outbox : outbox[m].topic \in Topics /\ outbox[m].id \in Nat
  <2>1. outbox \in Seq(MessageType) /\ \A m \in DOMAIN outbox : outbox[m] \in MessageType
    BY DEF MessageInv
  <2> QED  BY ZenonT(60), <2>1 DEF MessageType
<1> HIDE DEF y
<1>4. /\ outbox' \in Seq(MessageType) /\ Len(outbox) \in Nat
      /\ DOMAIN outbox = 1..Len(outbox) /\ DOMAIN outbox' = 1..(Len(outbox) + 1)
      /\ \A m \in DOMAIN outbox : outbox'[m] = outbox[m]
      /\ outbox'[Len(outbox) + 1] = y
  <2>1. outbox' = Append(outbox, y)
    BY ZenonT(60) DEF y
  <2> QED  BY <1>2, <1>3, <2>1, AppendIs
<1>5. ASSUME NEW m \in DOMAIN outbox'
      PROVE  (m \in DOMAIN outbox /\ outbox'[m] = outbox[m]) \/ (m = Len(outbox) + 1 /\ outbox'[m] = y)
  BY <1>4
<1>6. ASSUME NEW m \in DOMAIN outbox' PROVE outbox'[m].id <= Count(outbox'[m].topic, Rows')
  <2>1. CASE outbox'[m] = y
    BY <1>1, <1>2, <2>1
  <2>2. CASE m \in DOMAIN outbox /\ outbox'[m] = outbox[m]
    <3>1. outbox[m].id <= Count(outbox[m].topic, Rows)
      BY ZenonT(60), <2>2 DEF MessageInv
    <3>2. Count(outbox[m].topic, Rows) <= Count(outbox[m].topic, Rows')
      BY ZenonT(60), <1>3, <2>2
    <3> QED  BY <1>3, <2>2, <3>1, <3>2
  <2> QED  BY ZenonT(60), <1>5, <2>1, <2>2
<1>7. ASSUME NEW m \in DOMAIN outbox PROVE ~(outbox[m].topic = y.topic /\ outbox[m].id = y.id)
  <2>1. outbox[m].id <= Count(outbox[m].topic, Rows)
    BY ZenonT(60) DEF MessageInv
  <2> QED  BY <1>1, <1>2, <1>3, <2>1
<1>8. ASSUME NEW m \in DOMAIN outbox', NEW n \in DOMAIN outbox',
             outbox'[m].topic = outbox'[n].topic, outbox'[m].id = outbox'[n].id
      PROVE  m = n
  <2>1. CASE m \in DOMAIN outbox /\ n \in DOMAIN outbox
    BY ZenonT(60), <1>4, <1>8, <2>1 DEF MessageInv
  <2> QED  BY ZenonT(60), <1>5, <1>7, <1>8, <2>1
<1>9. ASSUME NEW r \in records', r.scope.kind \in Pinned
      PROVE  \E m \in DOMAIN outbox' : outbox'[m].topic = Topic(r.scope.kind) /\ outbox'[m].id = r.id
  <2>1. r \in records \/ (r.scope.kind = kind /\ r.id = id)
    BY ZenonT(60), <1>9
  <2>2. CASE r \in records
    <3>1. PICK m \in DOMAIN outbox : outbox[m].topic = Topic(r.scope.kind) /\ outbox[m].id = r.id
      BY ZenonT(60), <1>9, <2>2 DEF MessageInv
    <3>2. m \in DOMAIN outbox'
      BY <1>4
    <3> QED  BY ZenonT(60), <1>4, <3>1, <3>2
  <2>3. CASE r.scope.kind = kind /\ r.id = id
    <3>1. Len(outbox) + 1 \in DOMAIN outbox'
      BY <1>4
    <3> QED  BY ZenonT(60), <1>2, <1>4, <2>3, <3>1
  <2> QED  BY ZenonT(60), <2>1, <2>2, <2>3
<1>10. MessageInv'
  BY ZenonT(60), <1>4, <1>6, <1>8, <1>9 DEF MessageInv
<1>11. ClaimInv'
  <2>1. \A m \in DOMAIN outbox' : Decided(outbox'[m])
    <3>1. Decided(y) /\ \A m \in DOMAIN outbox : Decided(outbox[m])
      BY ZenonT(60), <1>2 DEF ClaimInv, DecidedByLatest, Decided
    <3> QED  BY ZenonT(60), <1>5, <3>1
  <2>2. DOMAIN outbox \subseteq DOMAIN outbox'
    BY <1>4
  <2>3. \A d \in Dispatchers : Holds(d)'
    BY ZenonT(60), <1>4, <2>2 DEF ClaimInv, Holds
  <2> QED  BY ZenonT(60), <2>1, <2>3 DEF ClaimInv, DecidedByLatest, Decided, Holds
<1> QED  BY ZenonT(60), <1>10, <1>11

\* The counts of resources.
LEMMA Counts ==
  ASSUME RowInv, MessageInv
  PROVE  Len(sessions) \in Nat /\ Len(executions) \in Nat /\ Len(signals) \in Nat
  BY DEF RowInv, MessageInv

\* CreateSession: Session, event, message and record appear together.
LEMMA CreateSessionKeeps ==
  ASSUME IInv, NEW c \in Clients, CreateSession(c)
  PROVE  IInv'
<1> USE DEF IInv
<1> DEFINE q == tx[c].request
           s == Len(sessions) + 1
           y == [state |-> "CREATED", version |-> 0, gen |-> 0]
           events == <<Event("session.created", 0, FALSE)>>
<1>1. /\ tx[c].at = "RESERVED" /\ q.kind = "SESSION" /\ UNCHANGED <<who, executions, grants, signals, holds, readers>>
      /\ tx' = [tx EXCEPT ![c] = NoTx]
      /\ sessions' = Append(sessions, y) /\ log' = Append(log, events) /\ records' = Recorded(q, s)
      /\ Answer(q, s) /\ outbox' = Append(outbox, Message("session.provision.v1", s))
  BY ZenonT(60) DEF CreateSession, Ended
<1>2. y \in SessionType /\ y.state = "CREATED" /\ y.gen = 0 /\ y.version = 0
  BY ZenonT(60) DEF SessionType
<1>3. events \in Seq(EventType)
  <2> DEFINE x == Event("session.created", 0, FALSE)
  <2>1. x \in EventType
    BY ZenonT(60) DEF Event, EventType, EventTypes
  <2> HIDE DEF x
  <2>2. <<x>> \in Seq(EventType)
    BY <2>1
  <2> QED  BY ZenonT(60), <2>2 DEF x
<1> HIDE DEF y, events
<1>4. /\ sessions' \in Seq(SessionType) /\ Len(sessions') = s /\ Len(sessions) \in Nat /\ s \in Nat
      /\ DOMAIN sessions = 1..Len(sessions) /\ DOMAIN sessions' = 1..s
      /\ \A t \in DOMAIN sessions : sessions'[t] = sessions[t]
      /\ sessions'[s] = y
  BY <1>1, <1>2, AppendIs DEF RowInv
<1>5. /\ log' \in Seq(Seq(EventType)) /\ Len(log') = Len(log) + 1 /\ DOMAIN log \subseteq DOMAIN log'
      /\ \A t \in DOMAIN log : log'[t] = log[t] /\ Len(log[t]) \in Nat
  <2>1. log \in Seq(Seq(EventType))
    BY ZenonT(60) DEF RowInv
  <2> QED  BY <1>1, <1>3, <2>1, AppendIs
<1>6. ASSUME NEW t \in DOMAIN sessions' PROVE t \in DOMAIN sessions \/ t = s
  BY <1>4
<1>7. ASSUME NEW t \in DOMAIN sessions' PROVE Agrees(t)'
  <2>1. \A u, e : Opens(u, e)' <=> Opens(u, e)
    BY ZenonT(60), <1>1 DEF Opens
  <2>2. CASE t \in DOMAIN sessions
    <3>1. Agrees(t) /\ sessions'[t] = sessions[t] /\ executions' = executions
      BY ZenonT(60), <1>1, <1>4, <2>2 DEF RowInv
    <3> QED  BY ZenonT(60), <2>1, <3>1 DEF Agrees
  <2>3. CASE t = s
    <3>1. \A e \in DOMAIN executions : ~Opens(s, e)
      BY <1>4 DEF RowInv, Opens
    <3> QED  BY ZenonT(60), <1>1, <1>2, <1>4, <2>1, <2>3, <3>1 DEF Agrees
  <2> QED  BY ZenonT(60), <1>6, <2>2, <2>3
<1>8. RowInv'
  <2>1. DOMAIN sessions \subseteq DOMAIN sessions'
    BY <1>4
  <2>2. ASSUME NEW t \in DOMAIN sessions' PROVE sessions'[t].gen <= sessions'[t].version
    <3>1. sessions'[s].gen <= sessions'[s].version
      BY <1>2, <1>4
    <3>2. t \in DOMAIN sessions => sessions'[t].gen <= sessions'[t].version
      BY ZenonT(60), <1>4 DEF RowInv
    <3> QED  BY ZenonT(60), <1>6, <3>1, <3>2
  <2> QED  BY ZenonT(60), <1>1, <1>4, <1>5, <1>7, <2>1, <2>2 DEF RowInv
<1>9. RequestInv'
  <2>1. DOMAIN sessions \subseteq DOMAIN sessions' /\ records' = Recorded(q, s) \cup {}
    BY <1>1, <1>4
  <2>2. {} \in SUBSET RecordType /\ \A r \in {} : r.scope.kind = "ADMIT"
    BY ZenonT(60)
  <2> HIDE DEF s
  <2> QED  BY ZenonT(60), <1>1, <1>4, <2>1, <2>2, RequestCommits
<1>10. MessageInv' /\ ClaimInv'
  <2>1. Topic("SESSION") = "session.provision.v1" /\ "SESSION" \in Pinned
    BY ZenonT(60) DEF Topic, Pinned
  <2>2. Count("session.provision.v1", Rows) + 1 = s /\ Count("session.provision.v1", Rows') = s
    BY ZenonT(60), <1>4 DEF Count, Rows
  <2>3. \A t \in Topics : Count(t, Rows) \in Nat /\ Count(t, Rows') \in Nat /\ Count(t, Rows) <= Count(t, Rows')
    BY <1>1, <1>4, Counts DEF Count, Rows
  <2>4. signals' \in Seq([execution : Nat, body : Digests])
    BY ZenonT(60), <1>1 DEF MessageInv
  <2>5. \A r \in records' : r.scope.kind \in Pinned => r \in records \/ (r.scope.kind = "SESSION" /\ r.id = s)
    BY <1>1 DEF Recorded, Scope
  <2>6. s \in Nat /\ holds' = holds /\ outbox' = Append(outbox, Message(Topic("SESSION"), s))
    BY ZenonT(60), <1>1, <1>4, <2>1
  <2> HIDE DEF s, q
  <2> QED  BY ZenonT(60), <2>1, <2>2, <2>3, <2>4, <2>5, <2>6, MessageAdded
<1>11. SignalInv'
  <2>1. \A e \in DOMAIN executions : Steady(e)
    BY ZenonT(60), <1>1, <1>4 DEF Steady, RowInv
  <2>2. \A d \in Clients : tx'[d].at = "CHECKED" => tx'[d] = tx[d]
    BY ZenonT(60), <1>1, Idle DEF RequestInv
  <2> QED  BY ZenonT(60), <2>1, <2>2, SignalsStay
<1>12. ReaderInv'
  BY <1>1, <1>5, ReadersStay DEF Grows
<1> QED  BY ZenonT(60), <1>1, <1>8, <1>9, <1>10, <1>11, <1>12

\* CreateExecution: an admissible Session has no open Execution.
LEMMA CreateExecutionKeeps ==
  ASSUME IInv, NEW c \in Clients, CreateExecution(c), Admissible(tx[c].request)
  PROVE  IInv'
<1> USE DEF IInv
<1>1. PICK q \in RequestType : q = tx[c].request /\ q.kind = "EXECUTION" /\ tx[c].at = "RESERVED"
  BY ZenonT(60) DEF RequestInv, TxType, CreateExecution
<1>2. PICK s \in DOMAIN sessions : s = q.on /\ s \in Nat /\ sessions \in Seq(SessionType) /\ sessions[s] \in SessionType
  <2>1. q.on \in DOMAIN sessions /\ sessions \in Seq(SessionType)
    BY ZenonT(60), <1>1 DEF RequestInv, RowInv
  <2> QED  BY <2>1
<1>3. PICK e \in Nat : e = Len(executions) + 1 /\ Len(executions) \in Nat
  BY DEF RowInv
<1> DEFINE y == [state |-> "ACTIVE", version |-> sessions[s].version + 1, gen |-> sessions[s].gen + 1]
           z == [session |-> s, gen |-> sessions[s].gen + 1, state |-> "QUEUED"]
           more == <<Event("session.state_changed", 0, FALSE), Event("execution.accepted", e, FALSE)>>
           admit == [scope |-> [Scope(q) EXCEPT !.kind = "ADMIT"], digest |-> q.digest, id |-> e]
<1>4. /\ UNCHANGED <<who, signals, holds, readers>>
      /\ tx' = [tx EXCEPT ![c] = NoTx] /\ SessionFree(s)
      /\ sessions' = [sessions EXCEPT ![s] = y] /\ executions' = Append(executions, z)
      /\ grants' = Append(grants, Granted) /\ log' = [log EXCEPT ![s] = log[s] \o more]
      /\ records' = Recorded(q, e) \cup {admit} /\ Answer(q, e)
      /\ outbox' = Append(outbox, Message("execution.materialize.v1", e))
  BY ZenonT(60), <1>1, <1>2, <1>3 DEF CreateExecution, Ended
<1>5. /\ y \in SessionType /\ y.state = "ACTIVE" /\ y.gen = sessions[s].gen + 1 /\ y.gen <= y.version
      /\ z \in ExecutionType /\ z.session = s /\ z.gen = y.gen /\ z.state = "QUEUED"
  <2>1. sessions[s].version \in Nat /\ sessions[s].gen \in Nat
    BY ZenonT(60), <1>2 DEF SessionType
  <2>2. /\ sessions[s].gen + 1 \in Nat /\ sessions[s].version + 1 \in Nat
        /\ sessions[s].gen + 1 <= sessions[s].version + 1
    BY <2>1 DEF RowInv
  <2> QED  BY ZenonT(60), <1>2, <2>2 DEF SessionType, ExecutionType
<1>6. Granted \in GrantType
  BY ZenonT(60) DEF Granted, GrantType
<1>7. admit \in RecordType /\ admit.scope.kind = "ADMIT"
  <2>1. admit = [scope |-> [kind |-> "ADMIT", on |-> q.on, key |-> q.key], digest |-> q.digest, id |-> e]
    BY DEF Scope
  <2> HIDE DEF admit
  <2> QED  BY ZenonT(60), <1>1, <2>1 DEF RequestType, RecordType, Kinds
<1>8. ~ \E f \in DOMAIN executions : Opens(s, f)
  BY ZenonT(60), <1>1, <1>2 DEF Admissible, RowInv, Agrees
<1> HIDE DEF y, z, more, admit
<1>9. /\ sessions' \in Seq(SessionType) /\ Len(sessions') = Len(sessions) /\ DOMAIN sessions' = DOMAIN sessions
      /\ \A t \in DOMAIN sessions : sessions'[t] = IF t = s THEN y ELSE sessions[t]
  BY ZenonT(60), <1>2, <1>4, <1>5, UpdateIs
<1>10. /\ executions' \in Seq(ExecutionType) /\ Len(executions') = e
       /\ DOMAIN executions = 1..Len(executions) /\ DOMAIN executions' = 1..e
       /\ \A f \in DOMAIN executions : executions'[f] = executions[f]
       /\ executions'[e] = z
  <2>1. executions \in Seq(ExecutionType)
    BY ZenonT(60) DEF RowInv
  <2> QED  BY <1>3, <1>4, <1>5, <2>1, AppendIs
<1>11. /\ grants' \in Seq(GrantType) /\ Len(grants') = Len(grants) + 1
       /\ \A f \in DOMAIN grants : grants'[f] = grants[f]
  <2>1. grants \in Seq(GrantType)
    BY ZenonT(60) DEF RowInv
  <2> QED  BY <1>4, <1>6, <2>1, AppendIs
<1>12. Grows /\ Len(log') = Len(log)
  <2>1. s \in DOMAIN log /\ log[s] \in Seq(EventType)
    BY <1>2 DEF RowInv
  <2> DEFINE x1 == Event("session.state_changed", 0, FALSE)
             x2 == Event("execution.accepted", e, FALSE)
  <2>2. x1 \in EventType /\ x2 \in EventType
    BY ZenonT(60) DEF Event, EventType, EventTypes
  <2>3. more = <<x1, x2>>
    BY ZenonT(60) DEF more
  <2> HIDE DEF x1, x2
  <2>4. more \in Seq(EventType)
    BY <2>2, <2>3
  <2>5. /\ log[s] \o more \in Seq(EventType) /\ Len(log[s]) <= Len(log[s] \o more)
        /\ \A i \in 1..Len(log[s]) : (log[s] \o more)[i] = log[s][i]
    BY <2>1, <2>4
  <2> QED  BY ZenonT(60), <1>4, <2>1, <2>5, LogGrows
<1>13. /\ DOMAIN executions \subseteq DOMAIN executions' /\ e \in DOMAIN executions' /\ e \notin DOMAIN executions
       /\ \A f \in DOMAIN executions' : f \in DOMAIN executions \/ f = e
  BY <1>3, <1>10
<1>14. ASSUME NEW t \in DOMAIN sessions PROVE Agrees(t)'
  <2>1. \A f \in DOMAIN executions : Opens(t, f)' <=> Opens(t, f)
    BY ZenonT(60), <1>10 DEF Opens
  <2>2. Opens(t, e)' <=> t = s
    BY ZenonT(60), <1>5, <1>10 DEF Opens
  <2>3. CASE t = s
    BY ZenonT(60), <1>5, <1>8, <1>9, <1>10, <1>13, <2>1, <2>2, <2>3 DEF Agrees
  <2>4. CASE t # s
    <3>1. Agrees(t)
      BY ZenonT(60) DEF RowInv
    <3> QED  BY ZenonT(60), <1>9, <1>10, <1>13, <2>1, <2>2, <2>4, <3>1 DEF Agrees
  <2> QED  BY ZenonT(60), <2>3, <2>4
<1>15. RowInv'
  <2>1. \A f \in DOMAIN executions' : executions'[f].session \in DOMAIN sessions
    BY ZenonT(60), <1>5, <1>10, <1>13 DEF RowInv
  <2>2. \A t \in DOMAIN sessions : sessions'[t].gen <= sessions'[t].version
    BY ZenonT(60), <1>5, <1>9 DEF RowInv
  <2>3. log' \in Seq(Seq(EventType)) /\ Len(log') = Len(sessions') /\ Len(grants') = Len(executions')
    BY ZenonT(60), <1>3, <1>9, <1>10, <1>11, <1>12 DEF Grows, RowInv
  <2> QED  BY ZenonT(60), <1>9, <1>10, <1>11, <1>14, <2>1, <2>2, <2>3 DEF RowInv
<1>16. RequestInv'
  <2>1. {admit} \in SUBSET RecordType /\ \A r \in {admit} : r.scope.kind = "ADMIT"
    BY ZenonT(60), <1>7
  <2> QED  BY ZenonT(60), <1>1, <1>4, <1>9, <1>13, <2>1, RequestCommits
<1>17. MessageInv' /\ ClaimInv'
  <2>1. Topic("EXECUTION") = "execution.materialize.v1" /\ "EXECUTION" \in Pinned
    BY ZenonT(60) DEF Topic, Pinned
  <2>2. Count("execution.materialize.v1", Rows) + 1 = e /\ Count("execution.materialize.v1", Rows') = e
    BY ZenonT(60), <1>3, <1>10 DEF Count, Rows
  <2>3. \A t \in Topics : Count(t, Rows) \in Nat /\ Count(t, Rows') \in Nat /\ Count(t, Rows) <= Count(t, Rows')
    BY <1>3, <1>4, <1>9, <1>10, Counts DEF Count, Rows
  <2>4. signals' \in Seq([execution : Nat, body : Digests])
    BY ZenonT(60), <1>4 DEF MessageInv
  <2>5. \A r \in records' : r.scope.kind \in Pinned => r \in records \/ (r.scope.kind = "EXECUTION" /\ r.id = e)
    BY <1>1, <1>4, <1>7 DEF Recorded, Scope, Pinned
  <2>6. holds' = holds /\ outbox' = Append(outbox, Message(Topic("EXECUTION"), e))
    BY ZenonT(60), <1>4, <2>1
  <2> QED  BY ZenonT(60), <2>1, <2>2, <2>3, <2>4, <2>5, <2>6, MessageAdded
<1>18. SignalInv'
  <2>1. ASSUME NEW f \in DOMAIN executions, Holding(f) PROVE Steady(f)
    <3>1. executions[f].session \in DOMAIN sessions /\ executions[f].session # s /\ f \in DOMAIN grants
      BY <1>4, <2>1 DEF SessionFree, RowInv
    <3> QED  BY ZenonT(60), <1>9, <1>10, <1>11, <3>1 DEF Steady
  <2>2. \A d \in Clients : tx'[d].at = "CHECKED" => tx'[d] = tx[d]
    BY ZenonT(60), <1>4, Idle DEF RequestInv
  <2> QED  BY ZenonT(60), <2>1, <2>2, SignalsStay
<1>19. ReaderInv'
  BY ZenonT(60), <1>4, <1>12, ReadersStay
<1> QED  BY ZenonT(60), <1>4, <1>15, <1>16, <1>17, <1>18, <1>19

\* AcceptSignal: the signal, its event, message and record appear together.
LEMMA AcceptSignalKeeps ==
  ASSUME IInv, NEW c \in Clients, AcceptSignal(c), StillInForce(tx[c].request.on)
  PROVE  IInv'
<1> USE DEF IInv
<1>1. PICK q \in RequestType : q = tx[c].request /\ q.kind = "SIGNAL" /\ tx[c].at = "CHECKED"
  BY ZenonT(60) DEF RequestInv, TxType, AcceptSignal, SignalInv
<1>2. PICK s \in DOMAIN log : s = executions[q.on].session /\ q.on \in Nat /\ q.digest \in Digests
  <2>1. q.on \in DOMAIN executions
    BY ZenonT(60), <1>1 DEF RequestInv
  <2>2. DOMAIN log = DOMAIN sessions /\ executions[q.on].session \in DOMAIN sessions
    BY <2>1 DEF RowInv
  <2> QED  BY ZenonT(60), <2>2 DEF RequestType
<1>3. PICK n \in Nat : n = Len(signals) + 1 /\ Len(signals) \in Nat
  BY DEF MessageInv
<1> DEFINE y == [execution |-> q.on, body |-> q.digest]
           x == Event("signal.accepted", q.on, FALSE)
<1>4. /\ UNCHANGED <<who, sessions, executions, grants, holds, readers>>
      /\ tx' = [tx EXCEPT ![c] = NoTx] /\ signals' = Append(signals, y)
      /\ log' = [log EXCEPT ![s] = Append(log[s], x)] /\ outbox' = Append(outbox, Message("execution.signal.v1", n))
      /\ records' = Recorded(q, n) /\ Answer(q, n)
  BY ZenonT(60), <1>1, <1>2, <1>3 DEF AcceptSignal, Ended
<1>5. y \in [execution : Nat, body : Digests] /\ x \in EventType
  BY ZenonT(60), <1>2 DEF Event, EventType, EventTypes
<1> HIDE DEF y, x
<1>6. signals' \in Seq([execution : Nat, body : Digests]) /\ Len(signals') = n
  <2>1. signals \in Seq([execution : Nat, body : Digests])
    BY ZenonT(60) DEF MessageInv
  <2> QED  BY ZenonT(60), <1>3, <1>4, <1>5, <2>1, AppendIs
<1>7. Grows /\ Len(log') = Len(log)
  <2>1. log[s] \in Seq(EventType)
    BY DEF RowInv
  <2>2. /\ Append(log[s], x) \in Seq(EventType) /\ Len(log[s]) <= Len(Append(log[s], x))
        /\ \A i \in 1..Len(log[s]) : Append(log[s], x)[i] = log[s][i]
    BY <1>5, <2>1, AppendIs
  <2> QED  BY ZenonT(60), <1>4, <2>2, LogGrows
<1>8. RowInv'
  <2>1. \A t, f : Opens(t, f)' <=> Opens(t, f)
    BY ZenonT(60), <1>4 DEF Opens
  <2>2. \A t \in DOMAIN sessions : Agrees(t)'
    BY ZenonT(60), <1>4, <2>1 DEF RowInv, Agrees
  <2> QED  BY ZenonT(60), <1>4, <1>7, <2>2 DEF RowInv, Grows
<1>9. RequestInv'
  <2>1. records' = Recorded(q, n) \cup {} /\ {} \in SUBSET RecordType /\ \A r \in {} : r.scope.kind = "ADMIT"
    BY ZenonT(60), <1>4
  <2> QED  BY ZenonT(60), <1>1, <1>4, <2>1, RequestCommits
<1>10. MessageInv' /\ ClaimInv'
  <2>1. Topic("SIGNAL") = "execution.signal.v1" /\ "SIGNAL" \in Pinned
    BY ZenonT(60) DEF Topic, Pinned
  <2>2. Count("execution.signal.v1", Rows) + 1 = n /\ Count("execution.signal.v1", Rows') = n
    BY ZenonT(60), <1>3, <1>6 DEF Count, Rows
  <2>3. \A t \in Topics : Count(t, Rows) \in Nat /\ Count(t, Rows') \in Nat /\ Count(t, Rows) <= Count(t, Rows')
    BY <1>3, <1>4, <1>6, Counts DEF Count, Rows
  <2>4. \A r \in records' : r.scope.kind \in Pinned => r \in records \/ (r.scope.kind = "SIGNAL" /\ r.id = n)
    BY <1>1, <1>4 DEF Recorded, Scope
  <2>5. holds' = holds /\ outbox' = Append(outbox, Message(Topic("SIGNAL"), n))
    BY ZenonT(60), <1>4, <2>1
  <2> QED  BY ZenonT(60), <1>6, <2>1, <2>2, <2>3, <2>4, <2>5, MessageAdded
<1>11. SignalInv'
  <2>1. \A f \in DOMAIN executions : Steady(f)
    BY ZenonT(60), <1>4 DEF Steady
  <2>2. \A d \in Clients : tx'[d].at = "CHECKED" => tx'[d] = tx[d]
    BY ZenonT(60), <1>4, Idle DEF RequestInv
  <2> QED  BY ZenonT(60), <2>1, <2>2, SignalsStay
<1>12. ReaderInv'
  BY ZenonT(60), <1>4, <1>7, ReadersStay
<1> QED  BY ZenonT(60), <1>4, <1>8, <1>9, <1>10, <1>11, <1>12

\* The steps of a client.
LEMMA ClientKeeps ==
  ASSUME IInv, NEW c \in Clients, Send(c) \/ ClientStep(c) \/ Denied(c) \/ Rollback(c)
  PROVE  IInv'
<1> USE DEF IInv
<1>1. CASE CreateSession(c)
  BY ZenonT(60), <1>1, CreateSessionKeeps
<1>2. CASE CreateExecution(c) /\ Admissible(tx[c].request)
  BY ZenonT(60), <1>2, CreateExecutionKeeps
<1>3. CASE AcceptSignal(c) /\ StillInForce(tx[c].request.on)
  BY ZenonT(60), <1>3, AcceptSignalKeeps
<1> DEFINE Quiet == UNCHANGED <<who, rowVars, holds, readers>>
<1>4. ASSUME Quiet, RequestInv', SignalInv' PROVE IInv'
  <2>1. UNCHANGED <<who, records, sessions, executions, grants, signals, log, outbox, holds, readers>>
    BY ZenonT(60), <1>4 DEF rowVars
  <2>2. RowInv' /\ ClaimInv'
    BY ZenonT(60), <2>1, RowsStay, ClaimsStay
  <2>3. MessageInv'
    BY ZenonT(60), <2>1 DEF MessageInv, Rows
  <2>4. ReaderInv'
    BY ZenonT(60), <2>1 DEF ReaderInv
  <2> QED  BY ZenonT(60), <1>4, <2>1, <2>2, <2>3, <2>4
<1>5. ASSUME Quiet, RequestInv', \A d \in Clients : tx'[d].at = "CHECKED" => tx'[d] = tx[d] PROVE IInv'
  <2>1. \A e \in DOMAIN executions : Steady(e)
    BY ZenonT(60), <1>5 DEF Steady, rowVars
  <2> QED  BY ZenonT(60), <1>4, <1>5, <2>1, SignalsStay
<1>6. CASE CheckSignal(c)
  BY ZenonT(60), <1>4, <1>6, CheckSignalKeeps DEF CheckSignal
<1>7. CASE Send(c)
  BY ZenonT(60), <1>5, <1>7, SendKeeps DEF Send
<1>8. CASE Reserve(c)
  BY ZenonT(60), <1>5, <1>8, ReserveKeeps DEF Reserve
<1>9. ASSUME Ended(c), Quiet, answers' = answers PROVE IInv'
  <2>1. /\ UNCHANGED <<records, sessions, executions>>
        /\ answers' \subseteq records /\ \A a \in answers' : a.scope.kind \in Pinned
    BY ZenonT(60), <1>9 DEF rowVars, RequestInv
  <2> QED  BY ZenonT(60), <1>5, <1>9, <2>1, EndKeeps
<1>10. CASE Denied(c) \/ Rollback(c)
  BY ZenonT(60), <1>9, <1>10 DEF Denied, Rollback
<1>11. CASE CreateExecution(c) /\ ~Admissible(tx[c].request)
  BY ZenonT(60), <1>9, <1>11 DEF CreateExecution
<1>12. CASE AcceptSignal(c) /\ ~StillInForce(tx[c].request.on)
  BY ZenonT(60), <1>9, <1>12 DEF AcceptSignal, rowVars
<1> QED  BY ZenonT(60), <1>1, <1>2, <1>3, <1>6, <1>7, <1>8, <1>10, <1>11, <1>12 DEF ClientStep

\* The steps of everyone else.
LEMMA OthersKeep ==
  ASSUME IInv, Next, ~ \E c \in who.clients : Send(c) \/ ClientStep(c) \/ Denied(c) \/ Rollback(c)
  PROVE  IInv'
<1> USE DEF IInv
<1>1. ASSUME UNCHANGED <<who, tx, answers, records, signals, outbox, holds, readers>>, RowInv', Grows,
             Len(sessions') = Len(sessions), Len(executions') = Len(executions),
             \A e \in DOMAIN executions : Holding(e) => Steady(e)
      PROVE  IInv'
  <2>1. DOMAIN sessions' = DOMAIN sessions /\ DOMAIN executions' = DOMAIN executions
    BY <1>1 DEF RowInv
  <2>2. RequestInv'
    BY ZenonT(60), <1>1, <2>1, RequestsStay
  <2>3. SameMessages
    BY ZenonT(60), <1>1 DEF SameMessages, MessageInv
  <2>4. MessageInv' /\ ClaimInv'
    BY ZenonT(60), <1>1, <2>3, MessagesStay, ClaimsStay
  <2>5. SignalInv'
    BY ZenonT(60), <1>1, SignalsStay
  <2>6. ReaderInv'
    BY ZenonT(60), <1>1, ReadersStay
  <2> QED  BY ZenonT(60), <1>1, <2>2, <2>4, <2>5, <2>6
<1>2. ASSUME log' = log PROVE Grows
  BY <1>2 DEF Grows, RowInv
<1>3. CASE \E g \in DOMAIN grants : Expires(g) \/ \E cancel \in BOOLEAN : Status(g, cancel)
  <2>1. RowInv' /\ \A e \in DOMAIN executions : Holding(e) => Steady(e)
    BY ZenonT(60), <1>3, GrantKeeps
  <2>2. UNCHANGED <<who, tx, answers, records, sessions, executions, signals, log, outbox, holds, readers>>
    BY ZenonT(60), <1>3 DEF Expires, Status
  <2> QED  BY ZenonT(60), <1>1, <1>2, <2>1, <2>2
<1>4. CASE \E s \in DOMAIN sessions : Provisioned(s)
  <2>1. RowInv' /\ Len(sessions') = Len(sessions) /\ \A e \in DOMAIN executions : Holding(e) => Steady(e)
    BY ZenonT(60), <1>4, ProvisionedKeeps
  <2>2. UNCHANGED <<who, tx, answers, records, executions, signals, log, outbox, holds, readers>>
    BY ZenonT(60), <1>4 DEF Provisioned
  <2> QED  BY ZenonT(60), <1>1, <1>2, <2>1, <2>2
<1>5. CASE \E e \in DOMAIN executions : Started(e)
  <2>1. RowInv' /\ Len(executions') = Len(executions) /\ \A e \in DOMAIN executions : Holding(e) => Steady(e)
    BY ZenonT(60), <1>5, StartedKeeps
  <2>2. UNCHANGED <<who, tx, answers, records, sessions, signals, log, outbox, holds, readers>>
    BY ZenonT(60), <1>5 DEF Started
  <2> QED  BY ZenonT(60), <1>1, <1>2, <2>1, <2>2
<1>6. CASE \E e \in DOMAIN executions : Finished(e)
  <2>1. /\ RowInv' /\ Len(executions') = Len(executions) /\ Len(sessions') = Len(sessions)
        /\ \A e \in DOMAIN executions : Holding(e) => Steady(e)
    BY ZenonT(60), <1>6, FinishedKeeps
  <2>2. UNCHANGED <<who, tx, answers, records, signals, log, outbox, holds, readers>>
    BY ZenonT(60), <1>6 DEF Finished
  <2> QED  BY ZenonT(60), <1>1, <1>2, <2>1, <2>2
<1>7. CASE \E e \in DOMAIN executions : Observed(e)
  <2>1. RowInv' /\ Grows
    BY ZenonT(60), <1>7, ObservedKeeps
  <2>2. UNCHANGED <<who, tx, answers, records, sessions, executions, grants, signals, outbox, holds, readers>>
    BY ZenonT(60), <1>7 DEF Observed
  <2>3. \A e \in DOMAIN executions : Steady(e)
    BY ZenonT(60), <2>2 DEF Steady
  <2> QED  BY ZenonT(60), <1>1, <2>1, <2>2, <2>3
<1>8. ASSUME UNCHANGED <<who, tx, answers, sessions, executions, grants, signals, log>>
      PROVE  RowInv' /\ SignalInv' /\ (readers' = readers => ReaderInv')
  <2>1. \A e \in DOMAIN executions : Steady(e)
    BY ZenonT(60), <1>8 DEF Steady
  <2> QED  BY ZenonT(60), <1>2, <1>8, <2>1, RowsStay, SignalsStay, ReadersStay
<1>9. ASSUME UNCHANGED <<who, tx, answers, records, sessions, executions, grants, signals, log>>, SameMessages
      PROVE  RowInv' /\ SignalInv' /\ RequestInv' /\ MessageInv' /\ (readers' = readers => ReaderInv')
  BY ZenonT(60), <1>8, <1>9, RequestsStay, MessagesStay
<1>10. CASE DeleteExpired
  <2>1. UNCHANGED <<who, tx, answers, sessions, executions, grants, signals, log, outbox, holds, readers>>
    BY ZenonT(60), <1>10 DEF DeleteExpired
  <2>2. records' \subseteq records /\ \A r \in records : r.scope.kind \in Pinned => r \in records'
    BY ZenonT(60), <1>10 DEF DeleteExpired
  <2>3. SameMessages
    BY ZenonT(60), <2>1 DEF SameMessages, MessageInv
  <2> QED  BY ZenonT(60), <1>8, <2>1, <2>2, <2>3, RequestsStay, MessagesStay, ClaimsStay
<1>11. CASE \E s \in DOMAIN log : \E i \in DOMAIN log[s] : Ages(s, i)
  <2>1. UNCHANGED <<who, tx, answers, records, sessions, executions, grants, signals, log, outbox, holds, readers>>
    BY ZenonT(60), <1>11 DEF Ages, rowVars
  <2>2. SameMessages
    BY ZenonT(60), <2>1 DEF SameMessages, MessageInv
  <2> QED  BY ZenonT(60), <1>9, <2>1, <2>2, ClaimsStay
<1>12. CASE \E m \in DOMAIN outbox : Lapses(m)
  <2>1. UNCHANGED <<who, tx, answers, records, sessions, executions, grants, signals, log, readers>>
    BY ZenonT(60), <1>12 DEF Lapses
  <2> QED  BY ZenonT(60), <1>9, <1>12, <2>1, LapsesKeeps
<1>13. CASE \E d \in who.dispatchers : DispatcherStep(d) \/ Crash(d)
  <2>1. PICK d \in Dispatchers : DispatcherStep(d) \/ Crash(d)
    BY ZenonT(60), <1>13, PartOfAll
  <2>2. UNCHANGED <<who, tx, answers, records, sessions, executions, grants, signals, log, readers>>
    BY ZenonT(60), <2>1 DEF DispatcherStep, Claim, Hand, Report, Late, Decide, Crash, rowVars
  <2> QED  BY ZenonT(60), <1>9, <2>1, <2>2, DispatchersKeep
<1>14. CASE \E r \in who.readers : ReaderStep(r) \/ Break(r)
  <2>1. PICK r \in Readers : ReaderStep(r) \/ Break(r)
    BY ZenonT(60), <1>14, PartOfAll
  <2>2. UNCHANGED <<who, tx, answers, records, sessions, executions, grants, signals, log, outbox, holds>>
    BY ZenonT(60), <2>1 DEF ReaderStep, Connect, Read, Receive, Break, rowVars
  <2>3. ReaderInv'
    BY ZenonT(60), <2>1, ConnectKeeps, ReadKeeps, ReceiveKeeps, BreakKeeps DEF ReaderStep
  <2>4. SameMessages
    BY ZenonT(60), <2>2 DEF SameMessages, MessageInv
  <2> QED  BY ZenonT(60), <1>9, <2>2, <2>3, <2>4, ClaimsStay
<1> QED  BY ZenonT(60), <1>3, <1>4, <1>5, <1>6, <1>7, <1>10, <1>11, <1>12, <1>13, <1>14 DEF Next

\* Every step keeps the invariant.
LEMMA StepKeeps == IInv /\ [Next]_vars => IInv'
<1> SUFFICES ASSUME IInv, [Next]_vars PROVE IInv'
  BY ZenonT(60)
<1>1. CASE \E c \in who.clients : Send(c) \/ ClientStep(c) \/ Denied(c) \/ Rollback(c)
  BY ZenonT(60), <1>1, PartOfAll, ClientKeeps DEF IInv
<1>2. CASE Next /\ ~ \E c \in who.clients : Send(c) \/ ClientStep(c) \/ Denied(c) \/ Rollback(c)
  BY ZenonT(60), <1>2, OthersKeep
<1>3. CASE UNCHANGED vars
  <2>1. UNCHANGED <<who, tx, answers, records, sessions, executions, grants, signals, log, outbox, holds, readers>>
    BY ZenonT(60), <1>3 DEF vars, rowVars
  <2>2. RowInv' /\ ClaimInv' /\ RequestInv'
    BY ZenonT(60), <2>1, RowsStay, ClaimsStay, RequestsStay DEF IInv
  <2>3. MessageInv' /\ SignalInv' /\ ReaderInv'
    BY ZenonT(60), <2>1 DEF IInv, MessageInv, Rows, SignalInv, ReaderInv
  <2> QED  BY ZenonT(60), <2>1, <2>2, <2>3 DEF IInv
<1> QED  BY ZenonT(60), <1>1, <1>2, <1>3

-----------------------------------------------------------------------------
(* Theorems *)

\* The inductive invariant holds: reservations are exclusive and their scopes
\* have no record, recorded creations have their message, claims and reports
\* agree, checked signals keep their rows, streams carry what they show.
THEOREM PipelineInvariant == Spec => []IInv
  BY Begins, StepKeeps, PTL DEF Spec

\* Racing requests and dispatchers leave rows that agree, however many there
\* are: a Session is ACTIVE for one open Execution, and its messages were
\* decided by their latest claim.
THEOREM RowsAgree == Spec => []PipelineInv
<1>1. IInv => PipelineInv
  <2> SUFFICES ASSUME IInv PROVE PipelineInv
    BY ZenonT(60)
  <2> USE DEF IInv
  <2>1. OneOpenExecution
    BY DEF RowInv, Agrees, Opens, OneOpenExecution
  <2>2. TypeOK
    <3>1. \A c \in Clients : tx[c].at \in {"IDLE", "SENT", "RESERVED", "CHECKED"}
      BY ZenonT(60) DEF RequestInv, TxType
    <3>2. \A s \in DOMAIN sessions : sessions[s].state \in {"CREATED", "READY", "ACTIVE", "IDLE"}
      <4>1. \A s \in DOMAIN sessions : sessions[s] \in SessionType
        BY DEF RowInv
      <4> QED  BY ZenonT(60), <4>1 DEF SessionType
    <3>3. \A e \in DOMAIN executions : /\ executions[e].state \in {"QUEUED", "RUNNING", "SUCCEEDED"}
                                       /\ grants[e].state \in {"ACTIVE", "EXPIRED", "CANCELLED"}
      <4>1. \A e \in DOMAIN executions : executions[e] \in ExecutionType /\ grants[e] \in GrantType
        BY DEF RowInv
      <4> QED  BY ZenonT(60), <4>1 DEF ExecutionType, GrantType
    <3>4. \A m \in DOMAIN outbox : /\ outbox[m].state \in {"PENDING", "CLAIMED", "DELIVERED", "DEAD_LETTERED"}
                                   /\ outbox[m].fence \in 0..MaxClaims
      <4>1. \A m \in DOMAIN outbox : outbox[m] \in MessageType
        BY DEF MessageInv
      <4> QED  BY ZenonT(60), <4>1 DEF MessageType
    <3>5. \A r \in Readers : readers[r].open => readers[r].on \in DOMAIN sessions
      <4>1. DOMAIN log = DOMAIN sessions
        BY DEF RowInv
      <4> QED  BY ZenonT(60), <4>1 DEF ReaderInv, Follows
    <3> QED  BY <3>1, <3>2, <3>3, <3>4, <3>5 DEF TypeOK, RowInv, ClaimInv
  <2> QED  BY <2>1, <2>2 DEF PipelineInv, ClaimInv
<1> QED  BY <1>1, PipelineInvariant, PTL

\* Whatever is lost, repeated, raced or expired, a key stands for one request
\* and one result, and a client is told only of work that has its record and
\* exactly one outbox message.
THEOREM KeysStandForOne == Spec => []OncePerKey
<1>1. IInv => OncePerKey
  <2> SUFFICES ASSUME IInv, NEW a \in answers
               PROVE  /\ \A b \in answers : a.scope = b.scope => a = b
                      /\ a \in records
                      /\ \E m \in DOMAIN outbox : \A n \in DOMAIN outbox :
                           (outbox[n].topic = Topic(a.scope.kind) /\ outbox[n].id = a.id) <=> n = m
    BY ZenonT(60) DEF OncePerKey, Topic
  <2> USE DEF IInv
  <2>1. a \in records /\ a.scope.kind \in Pinned /\ \A b \in answers : a.scope = b.scope => a = b
    BY ZenonT(60) DEF RequestInv
  <2>2. PICK m \in DOMAIN outbox : outbox[m].topic = Topic(a.scope.kind) /\ outbox[m].id = a.id
    BY ZenonT(60), <2>1 DEF MessageInv
  <2>3. \A n \in DOMAIN outbox : (outbox[n].topic = Topic(a.scope.kind) /\ outbox[n].id = a.id) <=> n = m
    BY <2>2 DEF MessageInv
  <2> QED  BY <2>1, <2>3
<1> QED  BY <1>1, PipelineInvariant, PTL

\* A client that follows a stream through broken connections has every event
\* up to its cursor that the stream shows.
THEOREM GapsAreReported == Spec => []NoSilentGap
<1>1. IInv => NoSilentGap
  BY DEF IInv, ReaderInv, Follows, Sees, NoSilentGap, Shown
<1> QED  BY <1>1, PipelineInvariant, PTL

\* A step that accepts a signal finds the Execution running and its grant in
\* force.
Accepts == \A n \in DOMAIN signals' \ DOMAIN signals : TakesSignals(signals'[n].execution)

\* A signal is accepted only while the grant is in force at that instant, and
\* only for the running Execution of the current generation.
THEOREM SignalsAreInForce == Spec => SignalsInForce
<1>1. IInv /\ [Next]_vars => [Accepts]_vars
  <2> SUFFICES ASSUME IInv, [Next]_vars, signals' # signals PROVE Accepts
    BY ZenonT(60) DEF Accepts
  <2>1. PICK c \in Clients : AcceptSignal(c) /\ StillInForce(tx[c].request.on)
    <3>1. ~ \E d \in who.dispatchers : DispatcherStep(d) \/ Crash(d)
      BY ZenonT(60) DEF rowVars, DispatcherStep, Claim, Hand, Report, Late, Decide, Crash
    <3>2. ASSUME NEW r \in who.readers, ReaderStep(r) \/ Break(r) PROVE FALSE
      <4>1. signals' = signals
        BY ZenonT(60), <3>2 DEF rowVars, ReaderStep, Connect, Read, Receive, Break
      <4> QED  BY ZenonT(60), <4>1
    <3>3. ~ \E g \in DOMAIN grants : Expires(g) \/ \E cancel \in BOOLEAN : Status(g, cancel)
      BY ZenonT(60) DEF Expires, Status
    <3>4. ~ \E e \in DOMAIN executions : Started(e) \/ Finished(e) \/ Observed(e)
      BY ZenonT(60) DEF Started, Finished, Observed
    <3>5. /\ ~DeleteExpired /\ (~ \E m \in DOMAIN outbox : Lapses(m)) /\ (~ \E s \in DOMAIN sessions : Provisioned(s))
          /\ ~ \E s \in DOMAIN log : \E i \in DOMAIN log[s] : Ages(s, i)
      BY ZenonT(60) DEF DeleteExpired, Lapses, Provisioned, Ages, rowVars
    <3>6. PICK c \in who.clients : Send(c) \/ ClientStep(c) \/ Denied(c) \/ Rollback(c)
      BY ZenonT(60), <3>1, <3>2, <3>3, <3>4, <3>5 DEF Next, vars, rowVars
    <3>7. AcceptSignal(c)
      BY ZenonT(60), <3>6 DEF ClientStep, Send, Reserve, CreateSession, CreateExecution, CheckSignal, Denied, Rollback, rowVars
    <3> QED  BY ZenonT(60), <3>7, PartOfAll DEF IInv, AcceptSignal
  <2> DEFINE e == tx[c].request.on
             y == [execution |-> e, body |-> tx[c].request.digest]
  <2>2. tx[c].at = "CHECKED" /\ signals' = Append(signals, y) /\ ~grants[e].due
    BY ZenonT(60), <2>1 DEF AcceptSignal, StillInForce
  <2>3. TakesSignals(e)
    BY ZenonT(60), <2>2 DEF IInv, SignalInv, TakesSignals, InForce
  <2>4. e \in Nat /\ tx[c].request.digest \in Digests
    BY ZenonT(60) DEF IInv, RequestInv, TxType, RequestType
  <2>5. signals \in Seq([execution : Nat, body : Digests]) /\ y \in [execution : Nat, body : Digests]
    BY ZenonT(60), <2>4 DEF IInv, MessageInv
  <2>6. DOMAIN signals' = 1..(Len(signals) + 1) /\ DOMAIN signals = 1..Len(signals) /\ Len(signals) \in Nat
        /\ signals'[Len(signals) + 1] = y
    <3> HIDE DEF y
    <3> QED  BY <2>2, <2>5, AppendIs
  <2>7. \A n \in DOMAIN signals' \ DOMAIN signals : signals'[n].execution = e
    <3> HIDE DEF e
    <3> QED  BY <2>6
  <2> QED  BY <2>3, <2>7 DEF Accepts
<1>2. Spec => [][Accepts]_vars
  BY <1>1, PipelineInvariant, PTL DEF Spec
<1> QED  BY ZenonT(60), <1>2 DEF SignalsInForce, Accepts
=============================================================================
