--------------------------- MODULE CodexTurnProofs ---------------------------
(***************************************************************************)
(* Proofs about CodexTurn for any operations, items and bounds: what the   *)
(* subscriber is given is a true account of the turn, and notifications    *)
(* are normalized in the order in which they were read.                    *)
(***************************************************************************)
EXTENDS CodexTurn, FiniteSetTheorems, TLAPS

-----------------------------------------------------------------------------
(* The inductive invariant *)

\* Events that end a stream.
Outcomes == {"COMPLETED", "FAILED"}

Kinds == Outcomes \cup {"STARTED", "TOOL_STARTED", "DELTA", "OUTPUT", "TOOL_ENDED", "MESSAGE", "USAGE"}

EventType ==
  [kind : Kinds \cup {None}, seq : Nat, item : Items \cup {None}, first : Nat, last : Nat]

FrameType ==
  [kind : {"STARTED", "USAGE", "HINT", "COMPLETED", "FAILED", "ITEM", "DELTA", "ENDED"},
   item : Items \cup {None}, n : Nat]

ItemType ==
  [at : {"NEW", "OPEN", "DONE"}, first : Nat, last : Nat, suppressed : BOOLEAN, deltas : Nat]

StreamType ==
  [opened : BOOLEAN, closed : BOOLEAN, reading : BOOLEAN, started : BOOLEAN, end : BOOLEAN,
   failed : BOOLEAN, usage : BOOLEAN, completion : Outcomes \cup {None}, sequence : Nat,
   items : [Items -> ItemType]]

CallType ==
  [at : {"IDLE", "INIT", "THREAD", "TURN", "RETURN"}, op : Operations \cup {None}, sent : BOOLEAN,
   response : BOOLEAN, notice : BOOLEAN, reads : Nat, expired : BOOLEAN]

\* The client and its calls.
TurnTypes ==
  /\ client \in [attempted : BOOLEAN, initialized : BOOLEAN, thread : {"NONE", "ASKED", "OPEN"},
                 probe : BOOLEAN, operation : Operations \cup {None}, turn : BOOLEAN]
  /\ control \in CallType

NextType ==
  [at : {"IDLE", "WAIT", "FLAGGED", "READ", "FINISH", "RETURN"}, event : EventType, expired : BOOLEAN]

\* The stream and the Next that reads for it.
StreamTypes ==
  /\ stream \in StreamType
  /\ next \in NextType
  /\ delivered \in Seq(EventType)

\* Who holds the gate, and what the call in progress says of itself.
GateInv ==
  /\ pipes \in {"OPEN", "CLOSED"}
  /\ gate \in {"FREE", "CONTROL", "INTERRUPT", "NEXT"}
  /\ gate = "CONTROL" <=> control.at # "IDLE"
  /\ gate = "INTERRUPT" <=> interrupt.at = "READ"
  /\ gate = "NEXT" <=> next.at # "IDLE"

\* At most one operation is asked for, and it is the one that is remembered.
TurnInv ==
  /\ client.operation = None => asked = {} /\ ~client.turn
  /\ asked \subseteq {client.operation}
  /\ client.turn => asked = {client.operation}
  /\ control.op # None =>
       /\ control.op = client.operation
       /\ \/ control.at = "TURN" /\ (control.sent => asked = {control.op})
          \/ control.at = "RETURN" /\ client.turn
  /\ control.at = "TURN" => control.op # None
  /\ \A o \in answered : client.turn /\ o = client.operation

\* An interrupt succeeds only when it was acknowledged.
InterruptInv ==
  /\ interrupt \in [at : {"IDLE", "POLL", "TRY", "READ", "DONE"}, sent : BOOLEAN, acked : BOOLEAN,
                    expired : BOOLEAN, result : {None, "OK", "ERROR"}]
  /\ interrupt.result = "OK" => interrupt.sent /\ interrupt.acked
  /\ interrupt.at # "IDLE" => interrupt.sent

\* Retained frames continue the count of the normalized ones.
FrameInv ==
  /\ pending \in Seq(FrameType) /\ read \in Nat /\ seen \in Nat
  /\ Len(pending) <= MaxRetained
  /\ read = seen + Len(pending)
  /\ \A k \in 1..Len(pending) : pending[k].n = seen + k

\* Events that were given out, or are about to be.
Given == IF next.at = "RETURN" THEN Append(delivered, next.event) ELSE delivered

\* The fragments of an item among the events e.
Parts(e, i) == {d \in DOMAIN e : e[d].kind = "DELTA" /\ e[d].item = i}

\* An item counts its fragments and knows the first and the last of them.
Counts(item, parts) ==
  /\ ~item.suppressed => item.deltas = Cardinality(parts)
  /\ IF item.first = 0 THEN parts = {}
     ELSE {item.first, item.last} \subseteq parts /\ parts \subseteq item.first..item.last

\* A message that was called complete has these fragments and no more.
Closes(e, item) ==
  item.at = "DONE" /\ ~item.suppressed /\ item.first # 0 /\ item.first = e.first /\ item.last = e.last

\* Every message among the events e that was called complete is.
MessageInv(e) ==
  \A k \in DOMAIN e : e[k].kind = "MESSAGE" =>
    e[k].item \in Items /\ Closes(e[k], stream.items[e[k].item])

\* An outcome comes last, and a completed turn leaves no item open.
OutcomeInv(e) ==
  \A k \in DOMAIN e : e[k].kind \in Outcomes =>
    /\ stream.end /\ k = Len(e)
    /\ e[k].kind = "COMPLETED" => Whole

\* What the stream says of the events given out or about to be.
StreamInv ==
  /\ stream.reading <=> next.at \in {"FLAGGED", "READ"}
  /\ stream.failed => next.at = "IDLE"
  /\ next.at \in {"WAIT", "FLAGGED", "READ"} => ~stream.end /\ stream.completion = None
  /\ next.at = "FINISH" => ~stream.end /\ stream.completion # None
  /\ stream.completion = "COMPLETED" => Whole
  /\ ~stream.failed => stream.sequence = Len(Given)
  /\ stream.end /\ ~stream.failed =>
       Len(Given) > 0 /\ Given[Len(Given)].kind \in Outcomes
  /\ next.at = "RETURN" /\ next.event.kind = "DELTA" =>
       next.event.item \in Items /\ stream.items[next.event.item].at = "OPEN"
  /\ eof => delivered # <<>> /\ delivered[Len(delivered)].kind \in Outcomes
  /\ \A k \in DOMAIN Given : Given[k].seq = k
  /\ OutcomeInv(Given) /\ MessageInv(Given)
  /\ \A i \in Items : ~stream.failed \/ stream.items[i].at = "DONE" =>
       Counts(stream.items[i], Parts(Given, i))

\* The inductive invariant.
IInv == TurnTypes /\ StreamTypes /\ GateInv /\ TurnInv /\ InterruptInv /\ FrameInv /\ StreamInv

-----------------------------------------------------------------------------
(* Sequences of events *)

\* One more event is one more fragment of at most one item.
LEMMA PartsOfPrefix ==
  ASSUME NEW e \in Seq(EventType), NEW v \in EventType, NEW i
  PROVE  Parts(Append(e, v), i) =
           Parts(e, i) \cup (IF v.kind = "DELTA" /\ v.item = i THEN {Len(e) + 1} ELSE {})
  BY DEF Parts

\* The fragments of an item are finitely many events.
LEMMA PartsAreFinite ==
  ASSUME NEW e \in Seq(EventType), NEW i
  PROVE  IsFiniteSet(Parts(e, i)) /\ Parts(e, i) \subseteq 1..Len(e)
<1>1. Parts(e, i) \subseteq 1..Len(e)
  BY DEF Parts
<1>2. IsFiniteSet(1..Len(e))
  BY FS_Interval
<1> QED  BY ZenonT(60), <1>1, <1>2, FS_Subset

-----------------------------------------------------------------------------
(* What the invariant gives *)

\* The event that is about to be given out is no fragment of an item that has ended.
LEMMA DoneParts ==
  ASSUME StreamTypes, StreamInv, NEW i \in Items, stream.items[i].at = "DONE"
  PROVE  Parts(Given, i) = Parts(delivered, i)
<1>1. CASE next.at = "RETURN"
  <2>1. ~(next.event.kind = "DELTA" /\ next.event.item = i)
    BY ZenonT(60), <1>1 DEF StreamInv
  <2>2. next.event \in EventType /\ delivered \in Seq(EventType)
    BY ZenonT(60) DEF StreamTypes, NextType
  <2>3. Parts(Append(delivered, next.event), i) = Parts(delivered, i) \cup {}
    BY ZenonT(60), <2>1, <2>2, PartsOfPrefix
  <2> QED  BY ZenonT(60), <1>1, <2>3 DEF Given
<1>2. CASE next.at # "RETURN"
  BY ZenonT(60), <1>2 DEF Given
<1> QED  BY ZenonT(60), <1>1, <1>2

\* The events given out are the first ones of those given out or about to be.
LEMMA GivenExtends ==
  ASSUME StreamTypes
  PROVE  /\ Given \in Seq(EventType) /\ Len(Given) \in {Len(delivered), Len(delivered) + 1}
         /\ Len(Given) = Len(delivered) <=> next.at # "RETURN"
         /\ \A k \in DOMAIN delivered : k \in DOMAIN Given /\ Given[k] = delivered[k]
<1>1. delivered \in Seq(EventType) /\ next.event \in EventType
  BY ZenonT(60) DEF StreamTypes, NextType
<1> QED  BY <1>1 DEF Given

\* The invariant implies that the subscriber has a true account.
LEMMA InvariantIsHonest == IInv => HonestStream
<1> SUFFICES ASSUME IInv PROVE HonestStream
  BY ZenonT(60)
<1> USE DEF IInv
<1>1. TypeOK
  BY ZenonT(60) DEF TypeOK, GateInv, InterruptInv, FrameInv, StreamInv
<1>2. TurnIsExact
  BY ZenonT(60) DEF TurnIsExact, TurnInv
<1>4. Gapless
  BY ZenonT(60), GivenExtends DEF Gapless, StreamInv
<1>5. OutcomeIsLast
  <2> SUFFICES ASSUME NEW k \in DOMAIN delivered, delivered[k].kind \in Outcomes
               PROVE  k = Len(delivered) /\ (delivered[k].kind = "COMPLETED" => Whole)
    BY ZenonT(60) DEF OutcomeIsLast, Outcomes, Whole
  <2>1. k = Len(Given) /\ (delivered[k].kind = "COMPLETED" => Whole)
    BY GivenExtends DEF StreamInv, OutcomeInv
  <2> QED  BY GivenExtends, <2>1 DEF StreamTypes
<1>6. EndIsOutcome
  BY ZenonT(60) DEF EndIsOutcome, StreamInv, Outcomes
<1>7. MessageIsWhole
  <2> SUFFICES ASSUME NEW k \in DOMAIN delivered, delivered[k].kind = "MESSAGE"
               PROVE  LET e == delivered[k]
                          parts == Parts(delivered, e.item)
                      IN  /\ {e.first, e.last} \subseteq parts /\ parts \subseteq e.first..e.last
                          /\ stream.items[e.item].deltas = Cardinality(parts)
    BY ZenonT(60) DEF MessageIsWhole, Parts
  <2> DEFINE e == delivered[k]
             item == stream.items[e.item]
  <2>1. e.item \in Items /\ Closes(e, item)
    BY GivenExtends DEF StreamInv, MessageInv
  <2>2. Counts(item, Parts(Given, e.item))
    BY ZenonT(60), <2>1 DEF StreamInv, Closes
  <2>3. Parts(Given, e.item) = Parts(delivered, e.item)
    BY ZenonT(60), <2>1, DoneParts DEF Closes
  <2> QED  BY ZenonT(60), <2>1, <2>2, <2>3 DEF Counts, Closes
<1> QED  BY ZenonT(60), <1>1, <1>2, <1>4, <1>5, <1>6, <1>7 DEF HonestStream

-----------------------------------------------------------------------------
(* The steps of the calls, the interrupt and the subscriber *)

\* A call leaves the interrupt, the frames and the stream alone.
LEMMA ControlFrame ==
  ControlStep => UNCHANGED <<interrupt, pending, read, seen, frames, stream, closer, next, delivered, eof>>
BY ZenonT(60) DEF ControlStep, Initialize, OpenThread, StartTurn, RepeatTurn, ControlResponse, ThreadStarted,
       ControlHint, ControlFails, ControlExpires, ControlReturns, ControlLeaves

\* An interrupt leaves the turn and the stream alone.
LEMMA InterruptFrame ==
  InterruptStep => UNCHANGED <<client, asked, control, answered, seen, stream, closer, next, delivered, eof>>
BY ZenonT(60) DEF InterruptStep, InterruptTurn, InterruptPoll, InterruptTries, InterruptAcked, InterruptRejects,
       InterruptReadFails, InterruptExpires, InterruptRetains, InterruptAborts, InterruptLeaves

\* A subscriber leaves the turn alone.
LEMMA SubscriberFrame ==
  SubscriberStep => UNCHANGED <<client, asked, control, answered>>
BY ZenonT(60) DEF SubscriberStep, Events, Close, CloseBreaks, NextEnds, NextStarts, NextWaits, NextFlagged,
       NextNormalizes, NextRejects, NextAcked, NextReadFails, NextFinishes, NextReturns, NextExpires,
       NextLeaves, StreamLeaves

\* The end of the vendor process closes the pipes and changes nothing else.
LEMMA ExitFrame ==
  VendorExits => UNCHANGED <<gate, client, asked, control, answered, interrupt, pending, read, seen, frames,
                             stream, closer, next, delivered, eof>>
BY ZenonT(60) DEF VendorExits

-----------------------------------------------------------------------------
(* Initially *)

\* The invariant holds initially.
LEMMA InitIsGood == Init => IInv
<1> SUFFICES ASSUME Init PROVE IInv
  BY ZenonT(60)
<1> USE TurnConstants DEF Init
<1>1. TurnTypes
  BY ZenonT(60) DEF TurnTypes, CallType, NoCall
<1>2. InterruptInv
  BY ZenonT(60) DEF InterruptInv
<1>3. NoEvent \in EventType /\ NoItem \in ItemType
  BY ZenonT(60) DEF NoEvent, EventType, NoItem, ItemType
<1>4. StreamTypes
  <2>1. [i \in Items |-> NoItem] \in [Items -> ItemType]
    BY ZenonT(60), <1>3
  <2>2. stream \in StreamType
    BY ZenonT(60), <2>1 DEF StreamType
  <2>3. next \in NextType
    BY ZenonT(60), <1>3 DEF NextType
  <2>4. delivered \in Seq(EventType)
    OBVIOUS
  <2> QED  BY ZenonT(60), <2>2, <2>3, <2>4 DEF StreamTypes
<1>5. GateInv
  BY ZenonT(60) DEF GateInv, NoCall
<1>6. TurnInv
  BY ZenonT(60) DEF TurnInv, NoCall
<1>7. FrameInv
  BY DEF FrameInv
<1>8. StreamInv
  <2>1. Given = <<>> /\ \A i \in Items : Parts(Given, i) = {}
    BY DEF Given, Parts
  <2>2. Cardinality({}) = 0
    BY ZenonT(60), FS_EmptySet
  <2>3. \A i \in Items : Counts(stream.items[i], Parts(Given, i)) /\ stream.items[i].at = "NEW"
    BY ZenonT(60), <2>1, <2>2 DEF Counts, NoItem
  <2> QED  BY <2>1, <2>3 DEF StreamInv, Whole, OutcomeInv, MessageInv
<1> QED  BY ZenonT(60), <1>1, <1>2, <1>4, <1>5, <1>6, <1>7, <1>8 DEF IInv

-----------------------------------------------------------------------------
(* The turn *)

\* A call that begins differs from the one asked for in whether it was written.
LEMMA BeginsCall ==
  ASSUME NEW call \in CallType, Begins(call)
  PROVE  control' \in CallType /\ \E sent \in BOOLEAN : control' = [call EXCEPT !.sent = sent]
<1>1. (pipes = "OPEN") \in BOOLEAN
  BY ZenonT(60)
<1>2. PICK sent \in {FALSE, pipes = "OPEN"} : control' = [call EXCEPT !.sent = sent]
  BY ZenonT(60) DEF Begins
<1>3. sent \in BOOLEAN
  BY ZenonT(60), <1>1, <1>2
<1> QED  BY ZenonT(60), <1>2, <1>3 DEF CallType

\* Every step keeps the types of the client and its calls.
LEMMA TurnTypesKept == TurnTypes /\ [Next]_vars => TurnTypes'
<1> SUFFICES ASSUME TurnTypes, [Next]_vars PROVE TurnTypes'
  BY ZenonT(60)
<1> USE TurnConstants DEF TurnTypes
<1>0. NoCall \in CallType
  BY ZenonT(60) DEF NoCall, CallType
<1>1. CASE ControlStep
  <2>1. CASE Initialize
    <3>1. [NoCall EXCEPT !.at = "INIT"] \in CallType
      BY ZenonT(60) DEF NoCall, CallType
    <3> QED  BY ZenonT(60), <2>1, <3>1, BeginsCall DEF Initialize
  <2>2. ASSUME NEW kind \in {"NEW", "RESUMED", "PROBE"}, OpenThread(kind) PROVE TurnTypes'
    <3>1. [NoCall EXCEPT !.at = "THREAD", !.notice = kind # "NEW"] \in CallType
      BY ZenonT(60) DEF NoCall, CallType
    <3>2. control' \in CallType
      BY ZenonT(60), <2>2, <3>1, BeginsCall DEF OpenThread
    <3> QED  BY ZenonT(60), <2>2, <3>2 DEF OpenThread
  <2>3. CASE StartTurn(First)
    <3>1. [NoCall EXCEPT !.at = "TURN", !.op = First] \in CallType
      BY ZenonT(60) DEF NoCall, CallType
    <3> QED  BY ZenonT(60), <2>3, <3>1, BeginsCall DEF StartTurn
  <2>4. ASSUME NEW o \in Operations, RepeatTurn(o) PROVE TurnTypes'
    BY ZenonT(60), <2>4 DEF RepeatTurn
  <2>5. CASE ControlResponse
    <3>0. control.reads + 1 \in Nat
      BY DEF CallType
    <3> USE <2>5, <3>0 DEF ControlResponse, Responded, CallType
    <3>1. CASE control.at = "INIT"
      BY ZenonT(60), <3>1
    <3>2. CASE control.at = "TURN"
      BY ZenonT(60), <3>2
    <3>3. CASE control.at = "THREAD" /\ control.notice
      BY ZenonT(60), <3>3
    <3>4. CASE control.at = "THREAD" /\ ~control.notice
      BY ZenonT(60), <3>4
    <3> QED  BY ZenonT(60), <3>1, <3>2, <3>3, <3>4
  <2>6. CASE ThreadStarted
    <3>1. control.reads + 1 \in Nat
      BY DEF CallType
    <3> QED  BY ZenonT(60), <2>6, <3>1 DEF ThreadStarted, CallType
  <2>7. CASE ControlHint
    BY <2>7 DEF ControlHint, CallType
  <2>8. CASE ControlFails \/ ControlExpires \/ ControlReturns
    BY ZenonT(60), <1>0, <2>8 DEF ControlFails, ControlExpires, ControlReturns, CallType
  <2> QED  BY ZenonT(60), <1>1, <2>1, <2>2, <2>3, <2>4, <2>5, <2>6, <2>7, <2>8 DEF ControlStep
<1>2. CASE InterruptStep \/ SubscriberStep \/ VendorExits
  BY ZenonT(60), <1>2, InterruptFrame, SubscriberFrame, ExitFrame
<1>3. CASE UNCHANGED vars
  BY ZenonT(60), <1>3 DEF vars
<1> QED  BY ZenonT(60), <1>1, <1>2, <1>3 DEF Next

\* Every step keeps the turn to the one operation that is remembered.
LEMMA TurnKept == TurnTypes /\ TurnInv /\ [Next]_vars => TurnInv'
<1> SUFFICES ASSUME TurnTypes, TurnInv, [Next]_vars PROVE TurnInv'
  BY ZenonT(60)
<1> USE TurnConstants DEF TurnTypes, CallType, TurnInv
<1>1. CASE ControlStep
  <2>1. CASE Initialize
    BY ZenonT(60), <2>1 DEF Initialize, Begins, NoCall, ControlLeaves
  <2>2. ASSUME NEW kind \in {"NEW", "RESUMED", "PROBE"}, OpenThread(kind) PROVE TurnInv'
    BY ZenonT(60), <2>2 DEF OpenThread, Begins, NoCall, ControlLeaves
  <2>3. CASE StartTurn(First)
    BY <2>3 DEF StartTurn, Begins, NoCall, ControlLeaves
  <2>4. ASSUME NEW o \in Operations, RepeatTurn(o) PROVE TurnInv'
    BY ZenonT(60), <2>4 DEF RepeatTurn, SameOperation
  <2>5. CASE ControlResponse
    <3> USE <2>5 DEF ControlResponse, Responded, ControlLeaves
    <3>1. CASE control.at = "INIT"
      BY ZenonT(60), <3>1
    <3>2. CASE control.at = "TURN"
      <4>1. control' = [control EXCEPT !.response = TRUE, !.at = "RETURN", !.reads = @ + 1]
        BY ZenonT(60), <3>2
      <4>2. client' = [client EXCEPT !.turn = TRUE] /\ asked' = asked /\ answered' = answered
        BY ZenonT(60), <3>2
      <4>3. control.sent /\ control.op # None
        BY ZenonT(60), <3>2 DEF MayRead
      <4>4. /\ control'.op = control.op /\ control'.at = "RETURN"
            /\ client'.turn /\ client'.operation = client.operation
        BY ZenonT(60), <4>1, <4>2
      <4> QED  BY ZenonT(60), <3>2, <4>2, <4>3, <4>4
    <3>3. CASE control.at = "THREAD" /\ control.notice
      <4>1. control' = [control EXCEPT !.response = TRUE, !.at = "RETURN", !.reads = @ + 1]
        BY ZenonT(60), <3>3
      <4>2. client' = [client EXCEPT !.thread = "OPEN"] /\ asked' = asked /\ answered' = answered
        BY ZenonT(60), <3>3
      <4> QED  BY ZenonT(60), <3>3, <4>1, <4>2
    <3>4. CASE control.at = "THREAD" /\ ~control.notice
      BY ZenonT(60), <3>4
    <3> QED  BY ZenonT(60), <3>1, <3>2, <3>3, <3>4
  <2>6. CASE ThreadStarted
    BY ZenonT(60), <2>6 DEF ThreadStarted, ControlLeaves
  <2>7. CASE ControlHint
    BY ZenonT(60), <2>7 DEF ControlHint, ControlLeaves
  <2>8. CASE ControlFails \/ ControlExpires \/ ControlReturns
    BY <2>8 DEF ControlFails, ControlExpires, ControlReturns, NoCall, ControlLeaves
  <2> QED  BY ZenonT(60), <1>1, <2>1, <2>2, <2>3, <2>4, <2>5, <2>6, <2>7, <2>8 DEF ControlStep
<1>2. CASE InterruptStep \/ SubscriberStep \/ VendorExits
  BY ZenonT(60), <1>2, InterruptFrame, SubscriberFrame, ExitFrame
<1>3. CASE UNCHANGED vars
  BY ZenonT(60), <1>3 DEF vars
<1> QED  BY ZenonT(60), <1>1, <1>2, <1>3 DEF Next

-----------------------------------------------------------------------------
(* The interrupt and the frames *)

\* Every step keeps what is known of the interrupt.
LEMMA InterruptKept == InterruptInv /\ [Next]_vars => InterruptInv'
<1> SUFFICES ASSUME InterruptInv, [Next]_vars PROVE InterruptInv'
  BY ZenonT(60)
<1> USE DEF InterruptInv
<1>1. CASE ControlStep \/ VendorExits \/ UNCHANGED vars
  BY ZenonT(60), <1>1, ControlFrame, ExitFrame DEF vars
<1>2. CASE InterruptStep
  <2>1. CASE InterruptTurn
    BY ZenonT(60), <2>1 DEF InterruptTurn
  <2>2. CASE InterruptPoll \/ InterruptTries
    BY ZenonT(60), <2>2 DEF InterruptPoll, InterruptTries, InterruptReturns
  <2>3. CASE InterruptAcked
    BY ZenonT(60), <2>3 DEF InterruptAcked, Acknowledges
  <2>4. CASE InterruptRejects \/ InterruptReadFails
    BY ZenonT(60), <2>4 DEF InterruptRejects, InterruptReadFails, InterruptAborts, InterruptReturns
  <2>5. CASE InterruptExpires
    BY ZenonT(60), <2>5 DEF InterruptExpires
  <2>6. ASSUME NEW f \in Notices(read + 1), InterruptRetains(f) PROVE InterruptInv'
    BY ZenonT(60), <2>6 DEF InterruptRetains
  <2> QED  BY ZenonT(60), <1>2, <2>1, <2>2, <2>3, <2>4, <2>5, <2>6 DEF InterruptStep
<1>3. CASE SubscriberStep
  <2>1. CASE NextAcked
    BY ZenonT(60), <2>1 DEF NextAcked
  <2>2. CASE ~NextAcked
    <3>1. interrupt' = interrupt
      BY ZenonT(60), <1>3, <2>2 DEF SubscriberStep, Events, Close, CloseBreaks, NextEnds, NextStarts, NextWaits,
           NextFlagged, NextNormalizes, NextRejects, NextReadFails, NextFinishes, NextReturns, NextExpires
    <3> QED  BY ZenonT(60), <3>1
  <2> QED  BY ZenonT(60), <2>1, <2>2
<1> QED  BY ZenonT(60), <1>1, <1>2, <1>3 DEF Next

\* The frame that Next takes is the one after the last it has normalized.
LEMMA FrameTaken ==
  ASSUME FrameInv, NEW n \in Nat, NEW f \in Notices(n), Frame(f)
  PROVE  /\ f.n = seen + 1 /\ f.n \in Nat
         /\ pending' \in Seq(FrameType) /\ read' \in Nat
         /\ Len(pending') <= MaxRetained /\ read' = seen + 1 + Len(pending')
         /\ \A k \in 1..Len(pending') : pending'[k].n = seen + 1 + k
<1> USE TurnConstants DEF FrameInv
<1>1. CASE pending # <<>> /\ f = Head(pending) /\ pending' = Tail(pending) /\ UNCHANGED <<read, frames>>
  <2>1. Len(pending) \in Nat \ {0} /\ f = pending[1]
    BY <1>1
  <2>2. pending' \in Seq(FrameType) /\ Len(pending') = Len(pending) - 1
    BY <1>1, <2>1
  <2>3. \A k \in 1..Len(pending') : pending'[k] = pending[k + 1] /\ k + 1 \in 1..Len(pending)
    BY <1>1, <2>1, <2>2
  <2> QED  BY <1>1, <2>1, <2>2, <2>3
<1>2. CASE pending = <<>> /\ Sends /\ f.n = read + 1 /\ read' = read + 1 /\ UNCHANGED pending
  BY <1>2
<1> QED  BY ZenonT(60), <1>1, <1>2 DEF Frame

\* Every step keeps the count of the frames, and normalizes the next frame or none.
LEMMA FramesKept == FrameInv /\ [Next]_vars => FrameInv' /\ (seen' # seen => seen' = seen + 1)
<1> SUFFICES ASSUME FrameInv, [Next]_vars PROVE FrameInv' /\ (seen' # seen => seen' = seen + 1)
  BY ZenonT(60)
<1>1. CASE UNCHANGED <<pending, read, seen>>
  BY ZenonT(60), <1>1 DEF FrameInv
<1>2. ASSUME NEW f \in Notices(read + 1), InterruptRetains(f)
      PROVE  FrameInv' /\ (seen' # seen => seen' = seen + 1)
  <2> USE TurnConstants DEF FrameInv
  <2> DEFINE g == [f EXCEPT !.n = read + 1]
  <2>1. g \in FrameType /\ g.n = read + 1
    BY DEF Notices, FrameType
  <2>3. pending' = Append(pending, g) /\ read' = read + 1 /\ seen' = seen
    BY ZenonT(60), <1>2 DEF InterruptRetains, InterruptLeaves
  <2> HIDE DEF g
  <2>2. pending' \in Seq(FrameType) /\ Len(pending') = Len(pending) + 1
    BY <2>1, <2>3
  <2>4. \A k \in 1..Len(pending') : pending'[k].n = seen + k
    <3> SUFFICES ASSUME NEW k \in 1..Len(pending') PROVE pending'[k].n = seen + k
      BY ZenonT(60)
    <3>1. CASE k = Len(pending) + 1
      BY <2>1, <2>3, <3>1
    <3>2. CASE k \in 1..Len(pending)
      BY <2>3, <3>2
    <3> QED  BY <2>2, <3>1, <3>2
  <2>5. Len(pending') <= MaxRetained
    BY <1>2, <2>2 DEF InterruptRetains, Room
  <2>6. read' \in Nat /\ seen' \in Nat /\ read' = seen' + Len(pending')
    BY <2>2, <2>3
  <2> QED  BY ZenonT(60), <2>2, <2>3, <2>4, <2>5, <2>6
<1>3. ASSUME NEW n \in 1..MaxFrames, NEW f \in Notices(n), NextNormalizes(f) \/ NextRejects(f)
      PROVE  FrameInv' /\ (seen' # seen => seen' = seen + 1)
  <2>1. Frame(f) /\ seen' = f.n
    BY ZenonT(60), <1>3 DEF NextNormalizes, NextRejects
  <2>2. n \in Nat
    BY TurnConstants
  <2>3. /\ f.n = seen + 1 /\ f.n \in Nat
        /\ pending' \in Seq(FrameType) /\ read' \in Nat
        /\ Len(pending') <= MaxRetained /\ read' = seen + 1 + Len(pending')
        /\ \A k \in 1..Len(pending') : pending'[k].n = seen + 1 + k
    BY ZenonT(60), <2>1, <2>2, FrameTaken
  <2> QED  BY ZenonT(60), <2>1, <2>3 DEF FrameInv
<1>4. InterruptStep =>
        UNCHANGED <<pending, read, seen>> \/ \E f \in Notices(read + 1) : InterruptRetains(f)
  BY ZenonT(60) DEF InterruptStep, InterruptTurn, InterruptPoll, InterruptTries, InterruptAcked, InterruptRejects, InterruptReadFails,
         InterruptExpires, InterruptAborts, InterruptLeaves
<1>5. SubscriberStep =>
        \/ UNCHANGED <<pending, read, seen>>
        \/ \E n \in 1..MaxFrames : \E f \in Notices(n) : NextNormalizes(f) \/ NextRejects(f)
  BY ZenonT(60) DEF SubscriberStep, Events, Close, CloseBreaks, NextEnds, NextStarts, NextWaits, NextFlagged, NextAcked,
         NextReadFails, NextFinishes, NextReturns, NextExpires
<1> QED  BY ZenonT(60), <1>1, <1>2, <1>3, <1>4, <1>5, ControlFrame, ExitFrame DEF Next, vars

-----------------------------------------------------------------------------
(* The gate *)

\* Every step leaves the gate with the call that reads.
LEMMA GateKept == TurnTypes /\ StreamTypes /\ InterruptInv /\ GateInv /\ [Next]_vars => GateInv'
<1> SUFFICES ASSUME TurnTypes, StreamTypes, InterruptInv, GateInv, [Next]_vars PROVE GateInv'
  BY ZenonT(60)
<1> USE DEF TurnTypes, StreamTypes, NextType, InterruptInv, GateInv
<1>1. CASE ControlStep
  <2> USE ControlFrame, <1>1
  <2>1. CASE Initialize
    BY ZenonT(60), <2>1 DEF Initialize, Begins, NoCall
  <2>2. ASSUME NEW kind \in {"NEW", "RESUMED", "PROBE"}, OpenThread(kind) PROVE GateInv'
    BY ZenonT(60), <2>2 DEF OpenThread, Begins, NoCall
  <2>3. CASE StartTurn(First)
    BY ZenonT(60), <2>3 DEF StartTurn, Begins, NoCall
  <2>4. ASSUME NEW o \in Operations, RepeatTurn(o) PROVE GateInv'
    BY ZenonT(60), <2>4 DEF RepeatTurn
  <2>5. CASE ControlResponse
    BY ZenonT(60), <2>5 DEF ControlResponse, Responded, CallType
  <2>6. CASE ThreadStarted \/ ControlHint
    BY ZenonT(60), <2>6 DEF ThreadStarted, ControlHint, CallType
  <2>7. CASE ControlFails \/ ControlExpires \/ ControlReturns
    BY <2>7 DEF ControlFails, ControlExpires, ControlReturns, NoCall, CallType
  <2> QED  BY ZenonT(60), <1>1, <2>1, <2>2, <2>3, <2>4, <2>5, <2>6, <2>7 DEF ControlStep
<1>2. CASE InterruptStep
  <2> USE InterruptFrame, <1>2
  <2>1. CASE InterruptTurn
    BY ZenonT(60), <2>1 DEF InterruptTurn
  <2>2. CASE InterruptPoll \/ InterruptTries
    BY ZenonT(60), <2>2 DEF InterruptPoll, InterruptTries, InterruptReturns
  <2>3. CASE InterruptAcked
    BY ZenonT(60), <2>3 DEF InterruptAcked
  <2>4. CASE InterruptRejects \/ InterruptReadFails
    BY ZenonT(60), <2>4 DEF InterruptRejects, InterruptReadFails, InterruptAborts, InterruptReturns
  <2>5. CASE InterruptExpires
    BY ZenonT(60), <2>5 DEF InterruptExpires, Deadline
  <2>6. ASSUME NEW f \in Notices(read + 1), InterruptRetains(f) PROVE GateInv'
    BY ZenonT(60), <2>6 DEF InterruptRetains, InterruptLeaves
  <2> QED  BY ZenonT(60), <1>2, <2>1, <2>2, <2>3, <2>4, <2>5, <2>6 DEF InterruptStep
<1>3. CASE SubscriberStep
  <2> USE SubscriberFrame, <1>3
  <2>1. CASE Events \/ Close \/ CloseBreaks \/ NextEnds
    BY ZenonT(60), <2>1 DEF Events, Close, CloseBreaks, NextEnds
  <2>2. CASE NextStarts
    BY ZenonT(60), <2>2 DEF NextStarts
  <2>3. CASE NextWaits
    BY ZenonT(60), <2>3 DEF NextWaits, NextStops, NextFails, NextIs
  <2>4. CASE NextFlagged
    BY ZenonT(60), <2>4 DEF NextFlagged, Flagged, NextStops, NextFails, NextIs
  <2>5. ASSUME NEW n \in 1..MaxFrames, NEW f \in Notices(n), NextNormalizes(f) PROVE GateInv'
    <3>1. Normalize(f) => next'.at \in {"WAIT", "RETURN"}
      BY ZenonT(60) DEF Normalize, TurnStarted, Usage, ItemStarted, ItemDelta, ItemCompleted, TurnCompleted, Quiet,
             Emits, NextIs
    <3> QED  BY ZenonT(60), <2>5, <3>1 DEF NextNormalizes
  <2>6. ASSUME NEW n \in 1..MaxFrames, NEW f \in Notices(n), NextRejects(f) PROVE GateInv'
    BY ZenonT(60), <2>6 DEF NextRejects, NextFails, NextIs
  <2>7. CASE NextAcked
    BY ZenonT(60), <2>7 DEF NextAcked, Quiet, NextIs
  <2>8. CASE NextReadFails
    BY ZenonT(60), <2>8 DEF NextReadFails, NextFails, NextIs
  <2>9. CASE NextFinishes
    BY ZenonT(60), <2>9 DEF NextFinishes, Emits
  <2>10. CASE NextReturns
    BY ZenonT(60), <2>10 DEF NextReturns, Late, NextFails, NextIs
  <2>11. CASE NextExpires
    BY ZenonT(60), <2>11 DEF NextExpires, Deadline
  <2> QED  BY ZenonT(60), <1>3, <2>1, <2>2, <2>3, <2>4, <2>5, <2>6, <2>7, <2>8, <2>9, <2>10, <2>11 DEF SubscriberStep
<1>4. CASE VendorExits
  BY ZenonT(60), <1>4 DEF VendorExits
<1>5. CASE UNCHANGED vars
  BY ZenonT(60), <1>5 DEF vars
<1> QED  BY ZenonT(60), <1>1, <1>2, <1>3, <1>4, <1>5 DEF Next

-----------------------------------------------------------------------------
(* The stream: a frame that gives no event, and one that does *)

\* A frame is taken that gives no event.
QuietStep ==
  /\ next.at = "READ" /\ next' = [next EXCEPT !.at = "WAIT"] /\ UNCHANGED <<delivered, eof>>
  /\ stream' \in StreamType /\ ~stream'.reading
  /\ stream'.failed = stream.failed /\ stream'.end = stream.end
  /\ stream'.completion = stream.completion /\ stream'.sequence = stream.sequence
  /\ \A i \in Items : stream.items[i].at = "DONE" => stream'.items[i] = stream.items[i]
  /\ \A i \in Items :
       Counts(stream.items[i], Parts(delivered, i)) => Counts(stream'.items[i], Parts(delivered, i))

\* An event is made.
LoudStep ==
  /\ next.at \in {"READ", "FINISH"} /\ next' \in NextType /\ next'.at = "RETURN"
  /\ next'.event.seq = stream.sequence + 1 /\ UNCHANGED <<delivered, eof>>
  /\ stream' \in StreamType /\ ~stream'.reading
  /\ stream'.failed = stream.failed /\ stream'.sequence = stream.sequence + 1
  /\ \A i \in Items : stream.items[i].at = "DONE" => stream'.items[i] = stream.items[i]
  /\ \A i \in Items : Counts(stream.items[i], Parts(delivered, i)) =>
       Counts(stream'.items[i], Parts(Append(delivered, next'.event), i))
  /\ next'.event.kind = "MESSAGE" =>
       next'.event.item \in Items /\ Closes(next'.event, stream'.items[next'.event.item])
  /\ next'.event.kind = "DELTA" =>
       next'.event.item \in Items /\ stream'.items[next'.event.item].at = "OPEN"
  /\ stream'.end <=> next'.event.kind \in Outcomes
  /\ next'.event.kind = "COMPLETED" \/ stream'.completion = "COMPLETED" => Whole'

\* A frame that gives no event keeps the invariant of the stream.
LEMMA QuietKeeps ==
  ASSUME StreamTypes, StreamInv, QuietStep
  PROVE  StreamTypes' /\ StreamInv'
<1> USE DEF StreamTypes
<1>1. StreamTypes'
  BY ZenonT(60) DEF QuietStep, NextType
<1>2. Given = delivered /\ Given' = delivered /\ next'.at = "WAIT"
  BY ZenonT(60) DEF QuietStep, Given, NextType
<1>3. /\ ~stream.failed /\ ~stream.end /\ stream.completion = None
      /\ ~stream'.failed /\ ~stream'.end /\ stream'.completion = None /\ stream'.completion # "COMPLETED"
  BY ZenonT(60), TurnConstants DEF QuietStep, StreamInv, StreamType
<1>4. OutcomeInv(Given)'
  BY ZenonT(60), <1>2, <1>3 DEF StreamInv, OutcomeInv
<1>5. MessageInv(Given)'
  BY <1>2 DEF StreamInv, MessageInv, QuietStep, Closes
<1>6. \A i \in Items : Counts(stream'.items[i], Parts(Given', i))
  BY ZenonT(60), <1>2, <1>3 DEF StreamInv, QuietStep
<1>7. stream'.sequence = Len(Given')
  BY ZenonT(60), <1>2, <1>3 DEF StreamInv, QuietStep
<1>8. \A k \in DOMAIN Given' : Given'[k].seq = k
  BY ZenonT(60), <1>2 DEF StreamInv
<1>9. eof' => delivered' # <<>> /\ delivered'[Len(delivered')].kind \in Outcomes
  BY ZenonT(60) DEF StreamInv, QuietStep
<1>10. ~stream'.reading
  BY ZenonT(60) DEF QuietStep
<1> QED  BY ZenonT(60), <1>1, <1>2, <1>3, <1>4, <1>5, <1>6, <1>7, <1>8, <1>9, <1>10 DEF StreamInv

\* A step that makes an event keeps the invariant of the stream.
LEMMA LoudKeeps ==
  ASSUME StreamTypes, StreamInv, LoudStep
  PROVE  StreamTypes' /\ StreamInv'
<1> DEFINE v == next'.event
<1>1. StreamTypes' /\ v \in EventType
  BY ZenonT(60) DEF LoudStep, StreamTypes, NextType
<1>2. /\ Given = delivered /\ delivered \in Seq(EventType) /\ Given' = Append(delivered, v)
      /\ next'.at = "RETURN" /\ delivered' = delivered /\ eof' = eof
  BY ZenonT(60) DEF LoudStep, Given, StreamTypes
<1>3. ~stream.failed /\ ~stream'.failed /\ ~stream.end /\ ~stream'.reading
  BY ZenonT(60) DEF LoudStep, StreamInv
<1>4. /\ Len(Given') = Len(delivered) + 1 /\ Given'[Len(delivered) + 1] = v
      /\ v.seq = Len(delivered) + 1 /\ stream'.sequence = Len(delivered) + 1
      /\ DOMAIN Given' = 1..(Len(delivered) + 1)
      /\ \A k \in 1..Len(delivered) : Given'[k] = delivered[k]
  <2>1. stream.sequence = Len(delivered)
    BY ZenonT(60), <1>2, <1>3 DEF StreamInv
  <2>2. v.seq = Len(delivered) + 1 /\ stream'.sequence = Len(delivered) + 1
    BY ZenonT(60), <2>1 DEF LoudStep
  <2> QED  BY <1>1, <1>2, <2>2
<1>5. \A k \in DOMAIN delivered : delivered[k].kind \notin Outcomes
  BY ZenonT(60), <1>2, <1>3 DEF StreamInv, OutcomeInv
<1> HIDE DEF v
<1>6. OutcomeInv(Given)'
  <2> SUFFICES ASSUME NEW k \in DOMAIN Given', Given'[k].kind \in Outcomes
               PROVE  stream'.end /\ k = Len(Given') /\ (Given'[k].kind = "COMPLETED" => Whole')
    BY ZenonT(60) DEF OutcomeInv
  <2>1. k = Len(delivered) + 1
    BY <1>2, <1>4, <1>5
  <2> QED  BY ZenonT(60), <1>2, <1>4, <2>1 DEF LoudStep, v
<1>7. MessageInv(Given)'
  <2> SUFFICES ASSUME NEW k \in DOMAIN Given', Given'[k].kind = "MESSAGE"
               PROVE  Given'[k].item \in Items /\ Closes(Given'[k], stream'.items[Given'[k].item])
    BY ZenonT(60) DEF MessageInv
  <2>1. CASE k = Len(delivered) + 1
    BY ZenonT(60), <1>4, <2>1 DEF LoudStep, v
  <2>2. CASE k \in 1..Len(delivered)
    <3>1. Given'[k] = delivered[k] /\ delivered[k].kind = "MESSAGE" /\ k \in DOMAIN Given
      BY <1>2, <1>4, <2>2
    <3>2. delivered[k].item \in Items /\ Closes(delivered[k], stream.items[delivered[k].item])
      BY ZenonT(60), <1>2, <3>1 DEF StreamInv, MessageInv
    <3>3. stream'.items[delivered[k].item] = stream.items[delivered[k].item]
      BY ZenonT(60), <3>2 DEF LoudStep, Closes
    <3> QED  BY ZenonT(60), <3>1, <3>2, <3>3
  <2> QED  BY <1>2, <1>4, <2>1, <2>2
<1>8. \A i \in Items : Counts(stream'.items[i], Parts(Given', i))
  BY ZenonT(60), <1>2, <1>3 DEF StreamInv, LoudStep, v
<1>9. \A k \in DOMAIN Given' : Given'[k].seq = k
  BY <1>2, <1>4 DEF StreamInv
<1>10. eof' => delivered' # <<>> /\ delivered'[Len(delivered')].kind \in Outcomes
  BY ZenonT(60), <1>2 DEF StreamInv
<1>11. stream'.end => Len(Given') > 0 /\ Given'[Len(Given')].kind \in Outcomes
  BY <1>2, <1>4 DEF LoudStep, v
<1>12. v.kind = "DELTA" => v.item \in Items /\ stream'.items[v.item].at = "OPEN"
  BY ZenonT(60) DEF LoudStep, v
<1>13. stream'.completion = "COMPLETED" => Whole'
  BY ZenonT(60) DEF LoudStep
<1> QED  BY ZenonT(60), <1>1, <1>2, <1>3, <1>4, <1>6, <1>7, <1>8, <1>9, <1>10, <1>11, <1>12, <1>13 DEF StreamInv, v

\* Next returns without an event.
BreakStep ==
  /\ next.at # "IDLE" /\ next' = [next EXCEPT !.at = "IDLE"] /\ UNCHANGED <<delivered, eof>>
  /\ stream' \in StreamType /\ ~stream'.reading
  /\ stream'.failed \/ next.at \in {"WAIT", "FLAGGED"}
  /\ stream'.end = stream.end /\ stream'.completion = stream.completion
  /\ stream'.sequence = stream.sequence /\ stream'.items = stream.items

\* A Next that returns without an event keeps the invariant of the stream.
LEMMA BreakKeeps ==
  ASSUME StreamTypes, StreamInv, BreakStep
  PROVE  StreamTypes' /\ StreamInv'
<1>1. StreamTypes'
  BY ZenonT(60) DEF BreakStep, StreamTypes, NextType
<1>2. Given' = delivered /\ next'.at = "IDLE" /\ delivered' = delivered /\ eof' = eof
  BY ZenonT(60) DEF BreakStep, Given, StreamTypes, NextType
<1>3. ~stream.failed
  BY ZenonT(60) DEF BreakStep, StreamInv
<1>4. ~stream'.failed => Given = delivered /\ ~stream.end
  BY ZenonT(60) DEF BreakStep, StreamInv, Given
<1>5. OutcomeInv(Given)'
  BY <1>2, GivenExtends DEF BreakStep, StreamInv, OutcomeInv, Whole, StreamTypes
<1>6. MessageInv(Given)'
  BY ZenonT(60), <1>2, GivenExtends DEF BreakStep, StreamInv, MessageInv
<1>7. \A k \in DOMAIN Given' : Given'[k].seq = k
  BY ZenonT(60), <1>2, GivenExtends DEF StreamInv
<1>8. ASSUME NEW i \in Items, ~stream'.failed \/ stream'.items[i].at = "DONE"
      PROVE  Counts(stream'.items[i], Parts(Given', i))
  <2>1. Counts(stream.items[i], Parts(Given, i))
    BY ZenonT(60), <1>3 DEF StreamInv
  <2>2. Parts(Given, i) = Parts(delivered, i)
    BY ZenonT(60), <1>4, <1>8, DoneParts DEF BreakStep
  <2> QED  BY ZenonT(60), <1>2, <2>1, <2>2 DEF BreakStep
<1>9. eof' => delivered' # <<>> /\ delivered'[Len(delivered')].kind \in Outcomes
  BY ZenonT(60), <1>2 DEF StreamInv
<1>10. stream'.completion = "COMPLETED" => Whole'
  BY ZenonT(60) DEF BreakStep, StreamInv, Whole
<1>11. ~stream'.failed => stream'.sequence = Len(Given') /\ ~stream'.end
  BY ZenonT(60), <1>2, <1>3, <1>4 DEF BreakStep, StreamInv
<1>12. ~stream'.reading
  BY ZenonT(60) DEF BreakStep
<1> QED  BY ZenonT(60), <1>1, <1>2, <1>5, <1>6, <1>7, <1>8, <1>9, <1>10, <1>11, <1>12 DEF StreamInv

\* The events stay as they are.
SameStep ==
  /\ stream' \in StreamType /\ next' \in NextType /\ delivered' \in Seq(EventType) /\ Given' = Given
  /\ stream'.failed = stream.failed /\ stream'.end = stream.end /\ stream'.completion = stream.completion
  /\ stream'.sequence = stream.sequence /\ stream'.items = stream.items
  /\ stream'.reading <=> next'.at \in {"FLAGGED", "READ"}
  /\ stream.failed => next'.at = "IDLE"
  /\ next'.at \in {"WAIT", "FLAGGED", "READ"} => ~stream.end /\ stream.completion = None
  /\ next'.at = "FINISH" => ~stream.end /\ stream.completion # None
  /\ next'.at = "RETURN" => next.at = "RETURN" /\ next'.event = next.event
  /\ eof' => delivered' # <<>> /\ delivered'[Len(delivered')].kind \in Outcomes

\* A step that leaves the events as they are keeps the invariant of the stream.
LEMMA SameKeeps ==
  ASSUME StreamTypes, StreamInv, SameStep
  PROVE  StreamTypes' /\ StreamInv'
<1>1. StreamTypes'
  BY ZenonT(60) DEF SameStep, StreamTypes
<1>2. OutcomeInv(Given)' /\ MessageInv(Given)' /\ (stream'.completion = "COMPLETED" => Whole')
  BY ZenonT(60) DEF SameStep, StreamInv, OutcomeInv, MessageInv, Whole
<1>3. \A i \in Items : ~stream'.failed \/ stream'.items[i].at = "DONE" =>
        Counts(stream'.items[i], Parts(Given', i))
  BY ZenonT(60) DEF SameStep, StreamInv
<1>4. /\ ~stream'.failed => stream'.sequence = Len(Given')
      /\ stream'.end /\ ~stream'.failed => Len(Given') > 0 /\ Given'[Len(Given')].kind \in Outcomes
      /\ \A k \in DOMAIN Given' : Given'[k].seq = k
  BY ZenonT(60) DEF SameStep, StreamInv
<1>5. next'.at = "RETURN" /\ next'.event.kind = "DELTA" =>
        next'.event.item \in Items /\ stream'.items[next'.event.item].at = "OPEN"
  BY ZenonT(60) DEF SameStep, StreamInv
<1>6. /\ stream'.failed => next'.at = "IDLE"
      /\ next'.at \in {"WAIT", "FLAGGED", "READ"} => ~stream'.end /\ stream'.completion = None
      /\ next'.at = "FINISH" => ~stream'.end /\ stream'.completion # None
      /\ stream'.reading <=> next'.at \in {"FLAGGED", "READ"}
      /\ eof' => delivered' # <<>> /\ delivered'[Len(delivered')].kind \in Outcomes
  BY ZenonT(60) DEF SameStep
<1> QED  BY ZenonT(60), <1>1, <1>2, <1>3, <1>4, <1>5, <1>6 DEF StreamInv

\* The stream s differs from the present one in what a frame may change, and in one item at most.
Follows(s) ==
  /\ s \in StreamType /\ s.failed = stream.failed /\ s.sequence = stream.sequence
  /\ \A i \in Items : stream.items[i].at = "DONE" => s.items[i] = stream.items[i]

\* A stream in which one item that has not ended is replaced.
LEMMA ItemSet ==
  ASSUME stream \in StreamType, NEW i \in Items, stream.items[i].at # "DONE", NEW item \in ItemType,
         NEW s, s = [stream EXCEPT !.items[i] = item]
  PROVE  /\ Follows(s) /\ s.end = stream.end /\ s.completion = stream.completion
         /\ s.items[i] = item /\ \A j \in Items \ {i} : s.items[j] = stream.items[j]
<1>1. s.items = [stream.items EXCEPT ![i] = item]
  BY ZenonT(60) DEF StreamType
<1>2. s.items \in [Items -> ItemType]
  BY ZenonT(60), <1>1 DEF StreamType
<1>3. s \in StreamType
  BY ZenonT(60), <1>2 DEF StreamType
<1>4. s.failed = stream.failed /\ s.sequence = stream.sequence /\ s.end = stream.end /\ s.completion = stream.completion
  BY ZenonT(60) DEF StreamType
<1>5. s.items[i] = item /\ \A j \in Items \ {i} : s.items[j] = stream.items[j]
  BY ZenonT(60), <1>1 DEF StreamType
<1> QED  BY ZenonT(60), <1>3, <1>4, <1>5 DEF Follows

\* A stream in which one item that has not ended moves on.
LEMMA ItemMoves ==
  ASSUME stream \in StreamType, NEW i \in Items, stream.items[i].at # "DONE", NEW at \in {"OPEN", "DONE"}
  PROVE  LET s == [stream EXCEPT !.items[i].at = at]
         IN  /\ Follows(s) /\ s.end = stream.end /\ s.completion = stream.completion
             /\ \A j \in Items : s.items[j] = IF j = i THEN [stream.items[i] EXCEPT !.at = at] ELSE stream.items[j]
<1> DEFINE s == [stream EXCEPT !.items[i].at = at]
           y == [stream.items[i] EXCEPT !.at = at]
<1>1. y \in ItemType
  BY ZenonT(60) DEF ItemType, StreamType
<1>2. s = [stream EXCEPT !.items[i] = y]
  BY ZenonT(60)
<1>3. /\ Follows(s) /\ s.end = stream.end /\ s.completion = stream.completion
      /\ s.items[i] = y /\ \A j \in Items \ {i} : s.items[j] = stream.items[j]
  <2> HIDE DEF s, y
  <2>1. s.items = [stream.items EXCEPT ![i] = y]
    BY ZenonT(60), <1>2 DEF StreamType
  <2>2. s.items \in [Items -> ItemType]
    BY ZenonT(60), <1>1, <2>1 DEF StreamType
  <2>3. s \in StreamType
    BY ZenonT(60), <1>2, <2>2 DEF StreamType
  <2>4. s.failed = stream.failed /\ s.sequence = stream.sequence /\ s.end = stream.end /\ s.completion = stream.completion
    BY ZenonT(60), <1>2 DEF StreamType
  <2>5. s.items[i] = y /\ \A j \in Items \ {i} : s.items[j] = stream.items[j]
    BY ZenonT(60), <2>1 DEF StreamType
  <2> QED  BY ZenonT(60), <2>3, <2>4, <2>5 DEF Follows
<1> HIDE DEF s, y
<1>4. \A j \in Items : s.items[j] = IF j = i THEN y ELSE stream.items[j]
  BY ZenonT(60), <1>3
<1>5. /\ Follows(s) /\ s.end = stream.end /\ s.completion = stream.completion
      /\ \A j \in Items : s.items[j] = IF j = i THEN y ELSE stream.items[j]
  BY ZenonT(60), <1>3, <1>4
<1> QED  BY ZenonT(60), <1>5 DEF s, y

\* The stream after an event was made from the stream s.
LEMMA LoudStream ==
  ASSUME NEW s \in StreamType, Loud(s)
  PROVE  /\ stream' \in StreamType /\ ~stream'.reading /\ stream'.failed = s.failed
         /\ stream'.sequence = s.sequence + 1 /\ stream'.items = s.items /\ stream'.end = s.end
         /\ stream'.completion = s.completion
<1>1. stream' = [s EXCEPT !.reading = FALSE, !.sequence = s.sequence + 1]
  BY ZenonT(60) DEF Loud
<1>2. stream' \in StreamType
  <2>1. s.sequence + 1 \in Nat
    BY DEF StreamType
  <2> QED  BY ZenonT(60), <1>1, <2>1 DEF StreamType
<1>3. stream'.reading = FALSE /\ stream'.failed = s.failed /\ stream'.end = s.end
  BY ZenonT(60), <1>1 DEF StreamType
<1>4. stream'.sequence = s.sequence + 1 /\ stream'.items = s.items /\ stream'.completion = s.completion
  BY ZenonT(60), <1>1 DEF StreamType
<1> QED  BY ZenonT(60), <1>2, <1>3, <1>4

\* When a frame gives no event.
LEMMA QuietIsStep ==
  ASSUME StreamTypes, next.at = "READ", UNCHANGED <<delivered, eof>>, NEW s, Follows(s), Quiet(s),
         s.end = stream.end, s.completion = stream.completion,
         \A i \in Items : Counts(stream.items[i], Parts(delivered, i)) => Counts(s.items[i], Parts(delivered, i))
  PROVE  QuietStep
BY ZenonT(60) DEF StreamTypes, NextType, Follows, Quiet, NextIs, QuietStep, StreamType

\* When an event other than a fragment is made.
LEMMA LoudIsStep ==
  ASSUME StreamTypes, next.at \in {"READ", "FINISH"}, UNCHANGED <<delivered, eof>>, NEW s, Follows(s), Loud(s),
         NEW kind \in Kinds, NEW item \in Items \cup {None}, NEW first \in Nat, NEW last \in Nat,
         Emits(kind, item, first, last), kind # "DELTA",
         \A i \in Items : Counts(stream.items[i], Parts(delivered, i)) => Counts(s.items[i], Parts(delivered, i)),
         kind = "MESSAGE" => item \in Items /\ Closes([first |-> first, last |-> last], s.items[item]),
         s.end <=> kind \in Outcomes,
         kind = "COMPLETED" \/ s.completion = "COMPLETED" => \A i \in Items : s.items[i].at # "OPEN"
  PROVE  LoudStep
<1> DEFINE v == [kind |-> kind, seq |-> stream.sequence + 1, item |-> item, first |-> first, last |-> last]
<1>1. v \in EventType
  BY DEF EventType, StreamTypes, StreamType
<1>2. next' = [next EXCEPT !.at = "RETURN", !.event = v]
  BY ZenonT(60) DEF Emits
<1>3. v.kind = kind /\ v.item = item /\ v.first = first /\ v.last = last /\ v.seq = stream.sequence + 1
  BY ZenonT(60)
<1> HIDE DEF v
<1>4. next' \in NextType /\ next'.at = "RETURN" /\ next'.event = v
  BY ZenonT(60), <1>1, <1>2 DEF StreamTypes, NextType
<1>5. /\ stream' \in StreamType /\ ~stream'.reading /\ stream'.failed = stream.failed
      /\ stream'.sequence = stream.sequence + 1 /\ stream'.items = s.items /\ stream'.end = s.end
      /\ stream'.completion = s.completion
  BY ZenonT(60), LoudStream DEF Follows
<1>6. ASSUME NEW i \in Items PROVE Parts(Append(delivered, v), i) = Parts(delivered, i)
  <2>1. delivered \in Seq(EventType) /\ ~(v.kind = "DELTA" /\ v.item = i)
    BY ZenonT(60), <1>3 DEF StreamTypes
  <2>2. Parts(Append(delivered, v), i) = Parts(delivered, i) \cup {}
    BY ZenonT(60), <1>1, <2>1, PartsOfPrefix
  <2> QED  BY ZenonT(60), <2>2
<1>7. v.kind = "MESSAGE" => v.item \in Items /\ Closes(v, stream'.items[v.item])
  BY ZenonT(60), <1>3, <1>5 DEF Closes
<1>8. v.kind = "COMPLETED" \/ stream'.completion = "COMPLETED" => Whole'
  BY ZenonT(60), <1>3, <1>5 DEF Whole
<1> QED  BY ZenonT(60), <1>3, <1>4, <1>5, <1>6, <1>7, <1>8 DEF LoudStep, Follows

\* What a fragment changes in its item.
LEMMA ItemTypes ==
  ASSUME NEW item \in ItemType, NEW n \in Nat
  PROVE  /\ Withheld(item) \in ItemType /\ Withheld(item).suppressed
         /\ Withheld(item).first = item.first /\ Withheld(item).last = item.last
         /\ Published(item, n) \in ItemType /\ Published(item, n).at = item.at
<1>0. item.deltas + 1 \in Nat /\ (IF item.first = 0 THEN n ELSE item.first) \in Nat
  BY DEF ItemType
<1>1. Withheld(item) \in ItemType
  BY ZenonT(60), <1>0 DEF ItemType, Withheld
<1>2. Withheld(item).suppressed = TRUE /\ Withheld(item).first = item.first /\ Withheld(item).last = item.last
  BY ZenonT(60) DEF ItemType, Withheld
<1>3. Published(item, n) \in ItemType
  BY ZenonT(60), <1>0 DEF ItemType, Published
<1>4. Published(item, n).at = item.at
  BY ZenonT(60) DEF ItemType, Published
<1> QED  BY ZenonT(60), <1>1, <1>2, <1>3, <1>4

\* An item that counts its fragments also counts one more that is published.
LEMMA OneMorePart ==
  ASSUME NEW item \in ItemType, NEW n \in Nat, NEW parts, IsFiniteSet(parts), parts \subseteq 1..n,
         Counts(item, parts)
  PROVE  Counts(Published(item, n + 1), parts \cup {n + 1})
<1> DEFINE more == Published(item, n + 1)
<1>1. /\ more.deltas = item.deltas + 1 /\ more.last = n + 1 /\ more.suppressed = item.suppressed
      /\ more.first = IF item.first = 0 THEN n + 1 ELSE item.first
  BY ZenonT(60) DEF ItemType, Published
<1> HIDE DEF more
<1>2. n + 1 \notin parts
  OBVIOUS
<1>3. Cardinality(parts \cup {n + 1}) = Cardinality(parts) + 1
  BY ZenonT(60), <1>2, FS_AddElement
<1>4. ~more.suppressed => more.deltas = Cardinality(parts \cup {n + 1})
  BY ZenonT(60), <1>1, <1>3 DEF Counts
<1>5. CASE item.first = 0
  <2>1. parts = {} /\ more.first = n + 1
    BY ZenonT(60), <1>1, <1>5 DEF Counts
  <2> QED  BY <1>1, <1>4, <2>1 DEF Counts, more
<1>6. CASE item.first # 0
  <2>1. {item.first, item.last} \subseteq parts /\ parts \subseteq item.first..item.last /\ more.first = item.first
    BY ZenonT(60), <1>1, <1>6 DEF Counts
  <2>2. parts \cup {n + 1} \subseteq more.first..more.last /\ more.first # 0
    BY <1>1, <1>6, <2>1 DEF ItemType
  <2> QED  BY ZenonT(60), <1>1, <1>4, <2>1, <2>2 DEF Counts, more
<1> QED  BY ZenonT(60), <1>5, <1>6

\* A notification about an item names it.
LEMMA NoticeNamesItem ==
  ASSUME NEW n \in Nat, NEW f \in Notices(n), f.kind \in {"ITEM", "DELTA", "ENDED"}
  PROVE  f.item \in Items
BY ZenonT(60) DEF Notices

\* Whatever notification Next normalizes, the invariant of the stream is kept.
LEMMA NormalizeKeeps ==
  ASSUME StreamTypes, StreamInv, next.at = "READ", UNCHANGED <<delivered, eof>>,
         NEW n \in Nat, NEW f \in Notices(n), Normalize(f)
  PROVE  StreamTypes' /\ StreamInv'
<1>0. stream \in StreamType /\ ~stream.end /\ ~stream.failed /\ stream.completion = None
  BY ZenonT(60) DEF StreamTypes, StreamInv
<1>1. CASE TurnStarted
  <2> DEFINE s == [stream EXCEPT !.started = TRUE]
  <2>1. Loud(s) /\ Emits("STARTED", None, 0, 0)
    BY ZenonT(60), <1>1 DEF TurnStarted
  <2>2. Follows(s) /\ s.items = stream.items /\ s.end = stream.end /\ s.completion = None
    BY ZenonT(60), <1>0 DEF Follows, StreamType
  <2> HIDE DEF s
  <2>3. LoudStep
    BY ZenonT(60), <1>0, <2>1, <2>2, TurnConstants, LoudIsStep DEF Kinds, Outcomes
  <2> QED  BY ZenonT(60), <2>3, LoudKeeps
<1>2. CASE Usage
  <2> DEFINE s == [stream EXCEPT !.usage = TRUE]
  <2>1. Quiet(s)
    BY ZenonT(60), <1>2 DEF Usage
  <2>2. Follows(s) /\ s.items = stream.items /\ s.end = stream.end /\ s.completion = stream.completion
    BY ZenonT(60), <1>0 DEF Follows, StreamType
  <2> HIDE DEF s
  <2>3. QuietStep
    BY ZenonT(60), <2>1, <2>2, QuietIsStep
  <2> QED  BY ZenonT(60), <2>3, QuietKeeps
<1>3. CASE Quiet(stream)
  <2>1. Follows(stream)
    BY ZenonT(60), <1>0 DEF Follows
  <2>2. QuietStep
    BY ZenonT(60), <1>3, <2>1, QuietIsStep
  <2> QED  BY ZenonT(60), <2>2, QuietKeeps
<1>4. ASSUME NEW i \in Items, ItemStarted(i) PROVE StreamTypes' /\ StreamInv'
  <2> DEFINE s == [stream EXCEPT !.items[i].at = "OPEN"]
  <2>1. CASE stream.items[i].at = "NEW"
    <3>1. /\ Follows(s) /\ s.end = stream.end /\ s.completion = stream.completion
          /\ \A j \in Items : s.items[j] = IF j = i THEN [stream.items[i] EXCEPT !.at = "OPEN"] ELSE stream.items[j]
      <4>1. stream.items[i].at # "DONE"
        BY ZenonT(60), <2>1
      <4> QED  BY ZenonT(60), <1>0, <4>1, ItemMoves
    <3>2. \A j \in Items : Counts(stream.items[j], Parts(delivered, j)) => Counts(s.items[j], Parts(delivered, j))
      BY <1>0, <3>1 DEF Counts, StreamType, ItemType
    <3>3. Quiet(s) \/ (Loud(s) /\ Emits("TOOL_STARTED", i, 0, 0))
      <4>1. stream.items[i].at # "OPEN"
        BY ZenonT(60), <2>1
      <4> QED  BY <1>4, <4>1, Zenon DEF ItemStarted
    <3> HIDE DEF s
    <3>4. CASE Quiet(s)
      BY ZenonT(60), <3>1, <3>2, <3>4, QuietIsStep, QuietKeeps
    <3>5. CASE Loud(s) /\ Emits("TOOL_STARTED", i, 0, 0)
      <4>1. LoudStep
        BY ZenonT(60), <1>0, <3>1, <3>2, <3>5, TurnConstants, LoudIsStep DEF Kinds, Outcomes
      <4> QED  BY ZenonT(60), <4>1, LoudKeeps
    <3> QED  BY ZenonT(60), <3>3, <3>4, <3>5
  <2>2. CASE stream.items[i].at # "NEW"
    BY ZenonT(60), <1>3, <1>4, <2>2 DEF ItemStarted
  <2> QED  BY ZenonT(60), <2>1, <2>2
<1>5. ASSUME NEW i \in Items, ItemCompleted(i) PROVE StreamTypes' /\ StreamInv'
  <2> DEFINE s == [stream EXCEPT !.items[i].at = "DONE"]
             item == stream.items[i]
  <2>1. CASE item.at = "OPEN"
    <3>1. /\ Follows(s) /\ s.end = stream.end /\ s.completion = stream.completion
          /\ \A j \in Items : s.items[j] = IF j = i THEN [item EXCEPT !.at = "DONE"] ELSE stream.items[j]
      <4>1. stream.items[i].at # "DONE"
        BY ZenonT(60), <2>1
      <4> QED  BY ZenonT(60), <1>0, <4>1, ItemMoves
    <3>2. \A j \in Items : Counts(stream.items[j], Parts(delivered, j)) => Counts(s.items[j], Parts(delivered, j))
      BY <1>0, <3>1 DEF Counts, StreamType, ItemType
    <3>3. \/ Quiet(s)
          \/ Loud(s) /\ Emits("TOOL_ENDED", i, 0, 0)
          \/ ~item.suppressed /\ item.first # 0 /\ Loud(s) /\ Emits("MESSAGE", i, item.first, item.last)
      BY ZenonT(60), <1>5, <2>1 DEF ItemCompleted
    <3>4. item.first \in Nat /\ item.last \in Nat
      BY ZenonT(60), <1>0 DEF StreamType, ItemType
    <3>5. ~item.suppressed /\ item.first # 0 =>
            Closes([first |-> item.first, last |-> item.last], s.items[i])
      BY <1>0, <3>1 DEF Closes, StreamType, ItemType
    <3> HIDE DEF s, item
    <3>6. CASE Quiet(s)
      BY ZenonT(60), <3>1, <3>2, <3>6, QuietIsStep, QuietKeeps
    <3>7. CASE Loud(s) /\ Emits("TOOL_ENDED", i, 0, 0)
      <4>1. LoudStep
        BY ZenonT(60), <1>0, <3>1, <3>2, <3>7, TurnConstants, LoudIsStep DEF Kinds, Outcomes
      <4> QED  BY ZenonT(60), <4>1, LoudKeeps
    <3>8. CASE ~item.suppressed /\ item.first # 0 /\ Loud(s) /\ Emits("MESSAGE", i, item.first, item.last)
      <4>1. LoudStep
        BY ZenonT(60), <1>0, <3>1, <3>2, <3>4, <3>5, <3>8, TurnConstants, LoudIsStep DEF Kinds, Outcomes
      <4> QED  BY ZenonT(60), <4>1, LoudKeeps
    <3> QED  BY ZenonT(60), <3>3, <3>6, <3>7, <3>8
  <2>2. CASE item.at # "OPEN"
    BY ZenonT(60), <1>3, <1>5, <2>2 DEF ItemCompleted
  <2> QED  BY ZenonT(60), <2>1, <2>2
<1>6. ASSUME NEW i \in Items, ItemDelta(i) PROVE StreamTypes' /\ StreamInv'
  <2>0. stream.items[i] \in ItemType /\ stream.items[i].at = "OPEN"
    BY ZenonT(60), <1>0, <1>6 DEF StreamType, ItemDelta
  <2>1. CASE Quiet([stream EXCEPT !.items[i] = Withheld(stream.items[i])])
    <3> DEFINE item == Withheld(stream.items[i])
               s == [stream EXCEPT !.items[i] = item]
    <3>1. /\ item \in ItemType /\ item.suppressed /\ item.first = stream.items[i].first
          /\ item.last = stream.items[i].last
      BY ZenonT(60), <2>0, ItemTypes
    <3> HIDE DEF item
    <3>2. /\ Follows(s) /\ s.end = stream.end /\ s.completion = stream.completion
          /\ s.items[i] = item /\ \A j \in Items \ {i} : s.items[j] = stream.items[j]
      BY <1>0, <2>0, <3>1, ItemSet
    <3>3. Quiet(s)
      BY ZenonT(60), <2>1 DEF item
    <3> HIDE DEF s
    <3>4. \A j \in Items : Counts(stream.items[j], Parts(delivered, j)) => Counts(s.items[j], Parts(delivered, j))
      BY <3>1, <3>2 DEF Counts
    <3>5. QuietStep
      BY ZenonT(60), <3>2, <3>3, <3>4, QuietIsStep
    <3> QED  BY ZenonT(60), <3>5, QuietKeeps
  <2>2. CASE /\ Loud([stream EXCEPT !.items[i] = Published(stream.items[i], stream.sequence + 1)])
             /\ Emits("DELTA", i, 0, 0)
    <3> DEFINE item == Published(stream.items[i], stream.sequence + 1)
               s == [stream EXCEPT !.items[i] = item]
               v == [kind |-> "DELTA", seq |-> stream.sequence + 1, item |-> i, first |-> 0, last |-> 0]
    <3>1. stream.sequence = Len(delivered) /\ delivered \in Seq(EventType) /\ Given = delivered
      BY ZenonT(60), <1>0 DEF StreamInv, StreamTypes, Given
    <3>2. v \in EventType /\ v.kind = "DELTA" /\ v.item = i /\ v.seq = stream.sequence + 1
      BY <1>0 DEF EventType, StreamType, Kinds
    <3>3. next' = [next EXCEPT !.at = "RETURN", !.event = v]
      BY ZenonT(60), <2>2 DEF Emits
    <3>4. /\ Follows(s) /\ s.end = stream.end /\ s.completion = stream.completion
          /\ s.items[i].at = "OPEN" /\ s.items[i] = item
          /\ \A j \in Items \ {i} : s.items[j] = stream.items[j]
      <4>0. stream.sequence + 1 \in Nat
        BY <3>1
      <4>1. item \in ItemType /\ item.at = "OPEN"
        BY ZenonT(60), <2>0, <4>0, ItemTypes
      <4> HIDE DEF item
      <4>2. /\ Follows(s) /\ s.end = stream.end /\ s.completion = stream.completion
            /\ s.items[i] = item /\ \A j \in Items \ {i} : s.items[j] = stream.items[j]
        BY <1>0, <2>0, <4>1, ItemSet
      <4> HIDE DEF s
      <4> QED  BY ZenonT(60), <4>1, <4>2
    <3> HIDE DEF s, v
    <3>5. /\ stream' \in StreamType /\ ~stream'.reading /\ stream'.failed = stream.failed
          /\ stream'.sequence = stream.sequence + 1 /\ stream'.items = s.items /\ stream'.end = s.end
          /\ stream'.completion = s.completion
      <4>1. Loud(s)
        BY ZenonT(60), <2>2 DEF s
      <4> QED  BY ZenonT(60), <3>4, <4>1, LoudStream DEF Follows
    <3>6. next' \in NextType /\ next'.at = "RETURN" /\ next'.event = v
      BY ZenonT(60), <3>2, <3>3 DEF StreamTypes, NextType
    <3>7. ASSUME NEW j \in Items, Counts(stream.items[j], Parts(delivered, j))
          PROVE  Counts(stream'.items[j], Parts(Append(delivered, v), j))
      <4>1. CASE j = i
        <5>1. Parts(Append(delivered, v), i) = Parts(delivered, i) \cup {Len(delivered) + 1}
          BY ZenonT(60), <3>1, <3>2, PartsOfPrefix
        <5>2. IsFiniteSet(Parts(delivered, i)) /\ Parts(delivered, i) \subseteq 1..Len(delivered)
          BY ZenonT(60), <3>1, PartsAreFinite
        <5>3. stream.items[i] \in ItemType /\ Len(delivered) \in Nat
          BY ZenonT(60), <1>0, <3>1 DEF StreamType
        <5>4. Counts(item, Parts(delivered, i) \cup {Len(delivered) + 1})
          BY ZenonT(60), <3>1, <3>7, <4>1, <5>2, <5>3, OneMorePart
        <5> QED  BY ZenonT(60), <3>4, <3>5, <4>1, <5>1, <5>4
      <4>2. CASE j # i
        <5>1. Parts(Append(delivered, v), j) = Parts(delivered, j) \cup {}
          BY ZenonT(60), <3>1, <3>2, <4>2, PartsOfPrefix
        <5> QED  BY ZenonT(60), <3>4, <3>5, <3>7, <4>2, <5>1
      <4> QED  BY ZenonT(60), <4>1, <4>2
    <3>8. LoudStep
      BY ZenonT(60), <1>0, <3>2, <3>4, <3>5, <3>6, <3>7, TurnConstants DEF LoudStep, Follows, Outcomes
    <3> QED  BY ZenonT(60), <3>8, LoudKeeps
  <2>3. CASE Loud(stream) /\ Emits("OUTPUT", i, 0, 0)
    <3>1. Follows(stream)
      BY ZenonT(60), <1>0 DEF Follows
    <3>2. LoudStep
      BY ZenonT(60), <1>0, <2>3, <3>1, TurnConstants, LoudIsStep DEF Kinds, Outcomes
    <3> QED  BY ZenonT(60), <3>2, LoudKeeps
  <2> QED  BY ZenonT(60), <1>3, <1>6, <2>1, <2>2, <2>3 DEF ItemDelta
<1>7. ASSUME NEW outcome \in Outcomes, TurnCompleted(outcome) PROVE StreamTypes' /\ StreamInv'
  <2>1. outcome = "COMPLETED" => Whole
    BY ZenonT(60), <1>7 DEF TurnCompleted
  <2>2. CASE stream.usage
    <3> DEFINE s == [stream EXCEPT !.completion = outcome]
    <3>1. Loud(s) /\ Emits("USAGE", None, 0, 0)
      BY ZenonT(60), <1>7, <2>2 DEF TurnCompleted
    <3>2. Follows(s) /\ s.items = stream.items /\ s.end = stream.end /\ s.completion = outcome
      BY ZenonT(60), <1>0 DEF Follows, StreamType
    <3> HIDE DEF s
    <3>3. LoudStep
      BY ZenonT(60), <1>0, <2>1, <3>1, <3>2, LoudIsStep DEF Kinds, Outcomes, Whole
    <3> QED  BY ZenonT(60), <3>3, LoudKeeps
  <2>3. CASE ~stream.usage
    <3> DEFINE s == [stream EXCEPT !.end = TRUE]
    <3>1. Loud(s) /\ Emits(outcome, None, 0, 0)
      BY ZenonT(60), <1>7, <2>3 DEF TurnCompleted
    <3>2. Follows(s) /\ s.items = stream.items /\ s.end /\ s.completion = None
      BY ZenonT(60), <1>0 DEF Follows, StreamType
    <3> HIDE DEF s
    <3>3. LoudStep
      BY ZenonT(60), <1>0, <2>1, <3>1, <3>2, TurnConstants, LoudIsStep DEF Kinds, Outcomes, Whole
    <3> QED  BY ZenonT(60), <3>3, LoudKeeps
  <2> QED  BY ZenonT(60), <2>2, <2>3
<1> QED  BY ZenonT(60), <1>1, <1>2, <1>3, <1>4, <1>5, <1>6, <1>7, NoticeNamesItem DEF Normalize, Outcomes

\* Every step keeps the invariant of the stream.
LEMMA StreamKept == StreamTypes /\ StreamInv /\ [Next]_vars => StreamTypes' /\ StreamInv'
<1> SUFFICES ASSUME StreamTypes, StreamInv, [Next]_vars PROVE StreamTypes' /\ StreamInv'
  BY ZenonT(60)
<1>0. stream \in StreamType /\ next \in NextType /\ delivered \in Seq(EventType)
  BY ZenonT(60) DEF StreamTypes
<1>1. CASE UNCHANGED <<stream, next, delivered, eof>>
  BY ZenonT(60), <1>1 DEF StreamTypes, StreamInv, Given, OutcomeInv, MessageInv, Whole
<1>2. CASE Events \/ Close \/ CloseBreaks
  <2>1. /\ stream' \in StreamType /\ UNCHANGED <<next, delivered, eof>>
        /\ stream'.failed = stream.failed /\ stream'.end = stream.end /\ stream'.reading = stream.reading
        /\ stream'.completion = stream.completion /\ stream'.sequence = stream.sequence
        /\ stream'.items = stream.items
    <3>1. CASE Events
      BY ZenonT(60), <1>0, <3>1 DEF Events, StreamType
    <3>2. CASE Close
      BY ZenonT(60), <1>0, <3>2 DEF Close, StreamType
    <3>3. CASE CloseBreaks
      BY ZenonT(60), <1>0, <3>3 DEF CloseBreaks
    <3> QED  BY ZenonT(60), <1>2, <3>1, <3>2, <3>3
  <2>2. SameStep
    BY ZenonT(60), <1>0, <2>1 DEF StreamInv, SameStep, Given
  <2> QED  BY ZenonT(60), <2>2, SameKeeps
<1>3. CASE NextEnds
  <2>1. delivered # <<>> /\ delivered[Len(delivered)].kind \in Outcomes
    <3>1. stream.end /\ ~stream.failed /\ Given = delivered
      BY ZenonT(60), <1>3 DEF NextEnds, Over, Given
    <3>2. Len(delivered) > 0 /\ delivered[Len(delivered)].kind \in Outcomes
      BY ZenonT(60), <3>1 DEF StreamInv
    <3> QED  BY <1>0, <3>2
  <2>2. SameStep
    BY ZenonT(60), <1>0, <1>3, <2>1 DEF NextEnds, StreamInv, SameStep, Given
  <2> QED  BY ZenonT(60), <2>2, SameKeeps
<1>4. CASE NextStarts
  <2>1. NoEvent \in EventType
    BY ZenonT(60) DEF NoEvent, EventType
  <2>2. next' \in NextType /\ next'.at \in {"WAIT", "FINISH"} /\ (next'.at = "WAIT" <=> stream.completion = None)
    BY ZenonT(60), <1>4, <2>1 DEF NextStarts, NextType
  <2>3. SameStep
    BY ZenonT(60), <1>0, <1>4, <2>2 DEF NextStarts, StreamInv, SameStep, Given
  <2> QED  BY ZenonT(60), <2>3, SameKeeps
<1>5. ASSUME next.at \in {"WAIT", "FLAGGED"}, NextStops, UNCHANGED <<delivered, eof>>
      PROVE  StreamTypes' /\ StreamInv'
  <2>1. stream' \in StreamType
    BY ZenonT(60), <1>0, <1>5 DEF NextStops, StreamType, NextType
  <2>2. BreakStep
    BY ZenonT(60), <1>0, <1>5, <2>1 DEF NextStops, NextIs, BreakStep, StreamType
  <2> QED  BY ZenonT(60), <2>2, BreakKeeps
<1>6. ASSUME next.at # "IDLE", NextFails, UNCHANGED eof PROVE StreamTypes' /\ StreamInv'
  <2>1. stream' \in StreamType
    BY ZenonT(60), <1>0, <1>6 DEF NextFails, StreamType
  <2>2. BreakStep
    BY ZenonT(60), <1>0, <1>6, <2>1 DEF NextFails, NextIs, BreakStep, StreamType
  <2> QED  BY ZenonT(60), <2>2, BreakKeeps
<1>7. CASE NextWaits
  <2>1. CASE NextIs("FLAGGED") /\ stream' = [stream EXCEPT !.reading = TRUE] /\ UNCHANGED delivered
    <3>1. SameStep
      BY ZenonT(60), <1>0, <1>7, <2>1 DEF NextWaits, NextIs, NextLeaves, StreamInv, SameStep, StreamType, NextType, Given
    <3> QED  BY ZenonT(60), <3>1, SameKeeps
  <2> QED  BY ZenonT(60), <1>5, <1>6, <1>7, <2>1 DEF NextWaits, NextLeaves
<1>8. CASE NextFlagged
  <2>1. CASE NextIs("READ") /\ UNCHANGED <<stream, delivered>>
    <3>1. SameStep
      BY ZenonT(60), <1>0, <1>8, <2>1 DEF NextFlagged, NextIs, NextLeaves, StreamInv, SameStep, StreamType, NextType, Given
    <3> QED  BY ZenonT(60), <3>1, SameKeeps
  <2> QED  BY ZenonT(60), <1>5, <1>6, <1>8, <2>1 DEF NextFlagged, Flagged, NextLeaves
<1>9. ASSUME NEW n \in 1..MaxFrames, NEW f \in Notices(n), NextNormalizes(f) PROVE StreamTypes' /\ StreamInv'
  <2>1. n \in Nat
    BY TurnConstants
  <2> QED  BY ZenonT(60), <1>9, <2>1, NormalizeKeeps DEF NextNormalizes, NextLeaves
<1>10. ASSUME NEW n \in 1..MaxFrames, NEW f \in Notices(n), NextRejects(f) PROVE StreamTypes' /\ StreamInv'
  BY ZenonT(60), <1>6, <1>10 DEF NextRejects, NextLeaves
<1>11. CASE NextAcked
  <2>1. Follows(stream)
    BY ZenonT(60), <1>0 DEF Follows
  <2>2. QuietStep
    BY ZenonT(60), <1>11, <2>1, QuietIsStep DEF NextAcked, NextLeaves
  <2> QED  BY ZenonT(60), <2>2, QuietKeeps
<1>12. CASE NextReadFails
  BY ZenonT(60), <1>6, <1>12 DEF NextReadFails, NextLeaves
<1>13. CASE NextFinishes
  <2> DEFINE s == [stream EXCEPT !.end = TRUE, !.completion = None]
  <2>1. Loud(s) /\ Emits(stream.completion, None, 0, 0) /\ UNCHANGED <<delivered, eof>> /\ next.at = "FINISH"
    BY ZenonT(60), <1>13 DEF NextFinishes, NextLeaves
  <2>2. stream.completion \in Outcomes /\ (stream.completion = "COMPLETED" => Whole)
    BY ZenonT(60), <1>0, <2>1 DEF StreamInv, StreamType
  <2>3. Follows(s) /\ s.items = stream.items /\ s.end /\ s.completion = None
    BY ZenonT(60), <1>0 DEF Follows, StreamType
  <2> HIDE DEF s
  <2>4. /\ stream.completion \in Kinds /\ stream.completion \notin {"DELTA", "MESSAGE"}
        /\ s.completion # "COMPLETED"
    BY ZenonT(60), <2>2, <2>3, TurnConstants DEF Kinds, Outcomes
  <2>5. stream.completion = "COMPLETED" => \A i \in Items : s.items[i].at # "OPEN"
    BY ZenonT(60), <2>2, <2>3 DEF Whole
  <2>6. LoudStep
    BY ZenonT(60), <2>1, <2>2, <2>3, <2>4, <2>5, LoudIsStep
  <2> QED  BY ZenonT(60), <2>6, LoudKeeps
<1>14. CASE NextReturns
  <2>1. CASE ~next.expired /\ delivered' = Append(delivered, next.event) /\ NextIs("IDLE") /\ UNCHANGED stream
    <3>1. next' \in NextType /\ next'.at = "IDLE" /\ next.event \in EventType /\ next.at = "RETURN" /\ eof' = eof
      BY ZenonT(60), <1>0, <1>14, <2>1 DEF NextReturns, NextIs, NextType, NextLeaves
    <3>2. delivered' \in Seq(EventType) /\ Given' = Given
      BY <1>0, <2>1, <3>1 DEF Given
    <3>3. ~eof
      <4> SUFFICES ASSUME eof PROVE FALSE
        BY ZenonT(60)
      <4>0. delivered # <<>> /\ delivered[Len(delivered)].kind \in Outcomes
        BY ZenonT(60), <1>0 DEF StreamInv
      <4>1. Len(delivered) \in DOMAIN delivered /\ delivered[Len(delivered)].kind \in Outcomes
        BY <1>0, <4>0
      <4>2. Len(delivered) = Len(Given)
        BY ZenonT(60), <4>1, GivenExtends DEF StreamInv, OutcomeInv
      <4> QED  BY ZenonT(60), <3>1, <4>2, GivenExtends
    <3>4. SameStep
      BY ZenonT(60), <1>0, <2>1, <3>1, <3>2, <3>3 DEF StreamInv, SameStep
    <3> QED  BY ZenonT(60), <3>4, SameKeeps
  <2>2. CASE next.expired /\ Late
    BY ZenonT(60), <1>6, <1>14, <2>2 DEF NextReturns, Late, NextLeaves
  <2> QED  BY ZenonT(60), <1>14, <2>1, <2>2 DEF NextReturns
<1>15. CASE NextExpires
  <2>1. SameStep
    BY ZenonT(60), <1>0, <1>15 DEF NextExpires, NextLeaves, StreamInv, SameStep, NextType, Given
  <2> QED  BY ZenonT(60), <2>1, SameKeeps
<1>16. CASE SubscriberStep
  BY ZenonT(60), <1>2, <1>3, <1>4, <1>7, <1>8, <1>9, <1>10, <1>11, <1>12, <1>13, <1>14, <1>15, <1>16 DEF SubscriberStep
<1> QED  BY ZenonT(60), <1>1, <1>16, ControlFrame, InterruptFrame, ExitFrame DEF Next, vars

-----------------------------------------------------------------------------
(* The theorems *)

\* The client, its calls, the interrupt, the retained frames and the stream keep
\* to their invariant in every step.
THEOREM TurnInvariant == Spec => []IInv
<1>1. Init => IInv
  BY ZenonT(60), InitIsGood
<1>2. IInv /\ [Next]_vars => IInv'
  BY TurnTypesKept, TurnKept, InterruptKept, FramesKept, GateKept, StreamKept DEF IInv
<1> QED  BY <1>1, <1>2, PTL DEF Spec

\* What the subscriber is given is a true account of the one turn, for any
\* items, frames and bounds.
THEOREM StreamIsHonest == Spec => []HonestStream
BY TurnInvariant, InvariantIsHonest, PTL

\* Notifications are normalized in the order in which they were read, however
\* an interrupt and the subscriber take turns at the pipe.
THEOREM OrderIsKept == Spec => FramesInOrder
<1>1. IInv /\ [Next]_vars => [seen' # seen => seen' = seen + 1]_vars
  BY FramesKept DEF IInv
<1> QED  BY <1>1, TurnInvariant, PTL DEF Spec, FramesInOrder
=============================================================================
