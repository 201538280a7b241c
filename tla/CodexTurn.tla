------------------------------ MODULE CodexTurn ------------------------------
(***************************************************************************)
(* The client of the vendor process that runs a turn, and its one stream   *)
(* of events.  The calls that start the protocol, the turn, an interrupt   *)
(* and a subscriber share one pair of pipes: whoever holds the gate reads  *)
(* frames.  An interrupt retains what it reads for the subscriber.         *)
(*                                                                         *)
(* The vendor sends any frames in any order.  A read takes the vendor's    *)
(* next frame, and waits when it does not come; frames that the reader has *)
(* buffered can be read after the pipes were closed.                       *)
(***************************************************************************)
EXTENDS Naturals, Sequences, FiniteSets

CONSTANTS
  Operations,  \* operations that a caller may start a turn for
  First,       \* the one it asks for first: they are interchangeable
  Messages,    \* items that are messages of the vendor
  Tools,       \* items that are commands and tool calls
  None,
  MaxFrames,   \* frames of the vendor after the turn was accepted
  MaxReads,    \* frames openThread and StartTurn may read: 32 in the code
  MaxRetained  \* frames an interrupt may retain: 32 in the code

ASSUME TurnConstants ==
  /\ First \in Operations /\ None \notin Operations /\ Messages \cap Tools = {}
  /\ None \notin {"OK", "COMPLETED", "FAILED"}
  /\ {MaxFrames, MaxReads, MaxRetained} \subseteq Nat

VARIABLES
  pipes,     \* "OPEN", or "CLOSED" by either end
  gate,      \* who reads: "FREE", "CONTROL", "INTERRUPT" or "NEXT"
  client,    \* what Client remembers of its one start, thread and turn
  asked,     \* the operations of the turns asked of the vendor
  control,   \* the running Initialize, openThread or StartTurn
  answered,  \* operations whose StartTurn has succeeded
  interrupt, \* the one InterruptTurn
  pending,   \* frames it has retained
  read,      \* notifications read
  seen,      \* number of the last notification that was normalized
  frames,    \* frames the vendor has sent since the turn was accepted
  stream,    \* the eventStream
  closer,    \* its Close
  next,      \* the running Next
  delivered, \* events given to the subscriber
  eof        \* Next has told the subscriber that an open stream is over

vars == <<pipes, gate, client, asked, control, answered, interrupt, pending, read, seen,
          frames, stream, closer, next, delivered, eof>>

Items == Messages \cup Tools

NoItem == [at |-> "NEW", first |-> 0, last |-> 0, suppressed |-> FALSE, deltas |-> 0]
NoEvent == [kind |-> None, seq |-> 0, item |-> None, first |-> 0, last |-> 0]
NoCall == [at |-> "IDLE", op |-> None, sent |-> FALSE, response |-> FALSE, notice |-> FALSE, reads |-> 0,
           expired |-> FALSE]

-----------------------------------------------------------------------------
(* Start of the protocol, the thread and the turn *)

\* A call takes the gate or is refused.  Its request is written or fails.
Begins(call) ==
  /\ gate = "FREE" /\ control.at = "IDLE" /\ gate' = "CONTROL"
  /\ \E sent \in {FALSE, pipes = "OPEN"} : control' = [call EXCEPT !.sent = sent]

ControlLeaves ==
  UNCHANGED <<answered, interrupt, pending, read, seen, frames, stream, closer, next, delivered, eof>>

Initialize ==
  /\ ~client.attempted
  /\ client' = [client EXCEPT !.attempted = TRUE]
  /\ Begins([NoCall EXCEPT !.at = "INIT"])
  /\ ControlLeaves /\ UNCHANGED <<pipes, asked>>

\* StartThread, ResumeThread or ResumeThreadForInfrastructure, asked for once.
OpenThread(kind) ==
  /\ client.initialized /\ client.thread = "NONE"
  /\ client' = [client EXCEPT !.thread = "ASKED", !.probe = kind = "PROBE"]
  /\ Begins([NoCall EXCEPT !.at = "THREAD", !.notice = kind # "NEW"])
  /\ ControlLeaves /\ UNCHANGED <<pipes, asked>>

\* The operation and its input were asked for before.
SameOperation(o) == client.operation = o

\* The operation is remembered before the request is written.
StartTurn(o) ==
  /\ client.thread = "OPEN" /\ ~client.probe /\ client.operation = None
  /\ client' = [client EXCEPT !.operation = o]
  /\ Begins([NoCall EXCEPT !.at = "TURN", !.op = o])
  /\ asked' = IF control'.sent THEN asked \cup {o} ELSE asked
  /\ ControlLeaves /\ UNCHANGED pipes

\* The same operation again is answered from memory.
RepeatTurn(o) ==
  /\ gate = "FREE" /\ control.at = "IDLE" /\ client.operation # None
  /\ SameOperation(o) /\ client.turn
  /\ answered' = answered \cup {o}
  /\ UNCHANGED <<pipes, gate, client, asked, control, interrupt, pending, read, seen, frames, stream,
                 closer, next, delivered, eof>>

\* A thread or a turn is given up after a bounded number of frames.
MayRead == control.sent /\ (control.at = "INIT" \/ control.reads < MaxReads)

Responded(c) == control' = [control EXCEPT !.response = TRUE, !.at = c, !.reads = @ + 1]

\* The answer to Initialize or StartTurn ends the call; a new thread has an
\* answer and a notification, in either order.
ControlResponse ==
  /\ MayRead /\ ~control.response
  /\ \/ control.at = "INIT" /\ pipes = "OPEN" /\ Responded("RETURN") /\ client' = [client EXCEPT !.initialized = TRUE]
     \/ control.at = "TURN" /\ Responded("RETURN") /\ client' = [client EXCEPT !.turn = TRUE]
     \/ control.at = "THREAD" /\ control.notice /\ Responded("RETURN")
        /\ client' = [client EXCEPT !.thread = "OPEN"]
     \/ control.at = "THREAD" /\ ~control.notice /\ Responded("THREAD") /\ UNCHANGED client
  /\ ControlLeaves /\ UNCHANGED <<pipes, gate, asked>>

ThreadStarted ==
  /\ control.at = "THREAD" /\ MayRead /\ ~control.notice
  /\ control' = [control EXCEPT !.notice = TRUE, !.at = IF control.response THEN "RETURN" ELSE "THREAD",
                                !.reads = @ + 1]
  /\ client' = IF control.response THEN [client EXCEPT !.thread = "OPEN"] ELSE client
  /\ ControlLeaves /\ UNCHANGED <<pipes, gate, asked>>

\* Hints may come before the answer.
ControlHint ==
  /\ control.at \in {"THREAD", "TURN"} /\ MayRead
  /\ control' = [control EXCEPT !.reads = @ + 1]
  /\ ControlLeaves /\ UNCHANGED <<pipes, gate, client, asked>>

\* A failed write or read, every other frame and one too many end the call and
\* the pipes.
ControlFails ==
  /\ control.at \in {"INIT", "THREAD", "TURN"}
  /\ pipes' = "CLOSED" /\ gate' = "FREE" /\ control' = NoCall
  /\ ControlLeaves /\ UNCHANGED <<client, asked>>

\* The context ends: the pipes are closed, and the call will report that its
\* outcome is unknown.
ControlExpires ==
  /\ control.at # "IDLE" /\ ~control.expired
  /\ pipes' = "CLOSED" /\ control' = [control EXCEPT !.expired = TRUE]
  /\ ControlLeaves /\ UNCHANGED <<gate, client, asked>>

ControlReturns ==
  /\ control.at = "RETURN"
  /\ answered' = IF ~control.expired /\ control.op # None THEN answered \cup {control.op} ELSE answered
  /\ gate' = "FREE" /\ control' = NoCall
  /\ UNCHANGED <<pipes, client, asked, interrupt, pending, read, seen, frames, stream, closer, next,
                 delivered, eof>>

-----------------------------------------------------------------------------
(* Interrupt *)

\* The vendor sends a frame.
Sends == frames < MaxFrames /\ frames' = frames + 1

InterruptLeaves ==
  UNCHANGED <<client, asked, control, answered, seen, stream, closer, next, delivered, eof>>

InterruptReturns(result) == interrupt' = [interrupt EXCEPT !.at = "DONE", !.result = result]

InterruptTurn ==
  /\ interrupt.at = "IDLE" /\ client.turn
  /\ \/ pipes = "OPEN" /\ interrupt' = [interrupt EXCEPT !.at = "POLL", !.sent = TRUE]
     \/ pipes = "CLOSED" /\ interrupt' = [interrupt EXCEPT !.at = "DONE", !.sent = TRUE, !.result = "ERROR"]
  /\ InterruptLeaves /\ UNCHANGED <<pipes, gate, pending, read, frames>>

\* The loop: acknowledged, given up, or ...
InterruptPoll ==
  /\ interrupt.at = "POLL"
  /\ \/ interrupt.acked /\ UNCHANGED <<pipes, gate>>
        /\ InterruptReturns(IF interrupt.expired THEN "ERROR" ELSE "OK")
     \/ ~interrupt.acked /\ interrupt.expired /\ InterruptReturns("ERROR")
        /\ pipes' = "CLOSED" /\ UNCHANGED gate
     \/ ~interrupt.acked /\ ~interrupt.expired /\ interrupt' = [interrupt EXCEPT !.at = "TRY"]
        /\ UNCHANGED <<pipes, gate>>
  /\ InterruptLeaves /\ UNCHANGED <<pending, read, frames>>

\* Mutant: the acknowledgement is not looked at again.
AckedMeanwhileMutant == FALSE

\* The subscriber has read the acknowledgement before it let go of the gate.
AckedMeanwhile == interrupt.acked

\* ... the turn of this call to read, unless the gate is taken or the answer was
\* read in the meantime.
InterruptTries ==
  /\ interrupt.at = "TRY"
  /\ \/ gate = "FREE" /\ ~AckedMeanwhile /\ gate' = "INTERRUPT"
        /\ interrupt' = [interrupt EXCEPT !.at = "READ"] /\ UNCHANGED pipes
     \/ (gate = "FREE" => AckedMeanwhile) /\ interrupt' = [interrupt EXCEPT !.at = "POLL"]
        /\ UNCHANGED <<pipes, gate>>
     \/ gate # "FREE" /\ interrupt.expired /\ InterruptReturns("ERROR")
        /\ pipes' = "CLOSED" /\ UNCHANGED gate
  /\ InterruptLeaves /\ UNCHANGED <<pending, read, frames>>

\* interruptResponse: one acknowledgement, and only after the request.
Acknowledges == interrupt.sent /\ ~interrupt.acked

InterruptAcked ==
  /\ interrupt.at = "READ" /\ Sends /\ Acknowledges
  /\ interrupt' = [interrupt EXCEPT !.at = "POLL", !.acked = TRUE]
  /\ gate' = "FREE"
  /\ InterruptLeaves /\ UNCHANGED <<pipes, pending, read>>

Room == Len(pending) < MaxRetained

\* A notification is retained for the subscriber.
InterruptRetains(f) ==
  /\ interrupt.at = "READ" /\ Sends /\ Room
  /\ pending' = Append(pending, [f EXCEPT !.n = read + 1]) /\ read' = read + 1
  /\ interrupt' = [interrupt EXCEPT !.at = "POLL"] /\ gate' = "FREE"
  /\ InterruptLeaves /\ UNCHANGED pipes

InterruptAborts ==
  /\ interrupt.at = "READ"
  /\ pipes' = "CLOSED" /\ gate' = "FREE" /\ InterruptReturns("ERROR")
  /\ InterruptLeaves /\ UNCHANGED <<pending, read>>

\* The frame is malformed, or there is no room for it.
InterruptRejects == Sends /\ InterruptAborts

InterruptReadFails == pipes = "CLOSED" /\ InterruptAborts /\ UNCHANGED frames

\* Mutant: the deadline of the call leaves the pipes alone.
DeadlineMutant == UNCHANGED pipes

\* A context that ends closes the pipes.
Deadline == pipes' = "CLOSED"

InterruptExpires ==
  /\ interrupt.at \in {"POLL", "TRY", "READ"} /\ ~interrupt.expired
  /\ Deadline /\ interrupt' = [interrupt EXCEPT !.expired = TRUE]
  /\ InterruptLeaves /\ UNCHANGED <<gate, pending, read, frames>>

-----------------------------------------------------------------------------
(* Events *)

StreamLeaves == UNCHANGED <<client, asked, control, answered>>

\* One subscription, for the operation of the accepted turn.
Events ==
  /\ gate = "FREE" /\ client.turn /\ ~stream.opened
  /\ stream' = [stream EXCEPT !.opened = TRUE]
  /\ StreamLeaves
  /\ UNCHANGED <<pipes, gate, interrupt, pending, read, seen, frames, closer, next, delivered, eof>>

\* Close marks the stream closed ...
Close ==
  /\ stream.opened /\ closer = "IDLE"
  /\ closer' = "MARKED" /\ stream' = [stream EXCEPT !.closed = TRUE]
  /\ StreamLeaves
  /\ UNCHANGED <<pipes, gate, interrupt, pending, read, seen, frames, next, delivered, eof>>

\* ... and breaks off a read that is under way.
CloseBreaks ==
  /\ closer = "MARKED" /\ closer' = "DONE"
  /\ pipes' = IF stream.reading THEN "CLOSED" ELSE pipes
  /\ StreamLeaves
  /\ UNCHANGED <<gate, interrupt, pending, read, seen, frames, stream, next, delivered, eof>>

\* The terminal event was given out.
Over == ~stream.failed /\ ~stream.closed /\ stream.end

NextEnds ==
  /\ next.at = "IDLE" /\ stream.opened /\ Over
  /\ eof' = TRUE
  /\ StreamLeaves
  /\ UNCHANGED <<pipes, gate, interrupt, pending, read, seen, frames, stream, closer, next, delivered>>

NextStarts ==
  /\ next.at = "IDLE" /\ stream.opened /\ ~stream.failed /\ ~stream.closed /\ ~stream.end
  /\ gate = "FREE" /\ gate' = "NEXT"
  /\ next' = [at |-> IF stream.completion = None THEN "WAIT" ELSE "FINISH", event |-> NoEvent, expired |-> FALSE]
  /\ StreamLeaves
  /\ UNCHANGED <<pipes, interrupt, pending, read, seen, frames, stream, closer, delivered, eof>>

NextLeaves == StreamLeaves /\ UNCHANGED <<closer, eof>>

NextIs(at) == next' = [next EXCEPT !.at = at]

\* Next returns without an event because the stream was closed.
NextStops ==
  /\ gate' = "FREE" /\ NextIs("IDLE")
  /\ stream' = [stream EXCEPT !.reading = FALSE, !.failed = next.expired]

\* Next fails, and with it the stream and the pipes.
NextFails ==
  /\ gate' = "FREE" /\ NextIs("IDLE") /\ pipes' = "CLOSED"
  /\ stream' = [stream EXCEPT !.reading = FALSE, !.failed = TRUE]
  /\ UNCHANGED delivered

\* The pace of the stream; then the read is announced.
NextWaits ==
  /\ next.at = "WAIT"
  /\ \/ stream.closed /\ NextStops /\ UNCHANGED <<pipes, delivered>>
     \/ next.expired /\ NextFails
     \/ /\ NextIs("FLAGGED") /\ stream' = [stream EXCEPT !.reading = TRUE]
        /\ UNCHANGED <<pipes, gate, delivered>>
  /\ NextLeaves /\ UNCHANGED <<interrupt, pending, read, seen, frames>>

\* Mutant: whether the stream is closed is not asked again.
FlaggedMutant == NextIs("READ") /\ UNCHANGED <<pipes, gate, stream, delivered>>

\* Only then it is asked whether the stream is closed.
Flagged ==
  \/ stream.closed /\ NextStops /\ UNCHANGED <<pipes, delivered>>
  \/ next.expired /\ NextFails
  \/ ~stream.closed /\ ~next.expired /\ NextIs("READ") /\ UNCHANGED <<pipes, gate, stream, delivered>>

NextFlagged ==
  /\ next.at = "FLAGGED" /\ Flagged
  /\ NextLeaves /\ UNCHANGED <<interrupt, pending, read, seen, frames>>

\* Mutant: what an interrupt has retained comes last.
FrameMutant(f) ==
  Sends /\ f.n = read + 1 /\ read' = read + 1 /\ UNCHANGED pending

\* readEventFrame: what an interrupt has retained comes first.
Frame(f) ==
  \/ pending # <<>> /\ f = Head(pending) /\ pending' = Tail(pending) /\ UNCHANGED <<read, frames>>
  \/ pending = <<>> /\ Sends /\ f.n = read + 1 /\ read' = read + 1 /\ UNCHANGED pending

Emits(kind, item, first, last) ==
  /\ next' = [next EXCEPT !.at = "RETURN",
       !.event = [kind |-> kind, seq |-> stream.sequence + 1, item |-> item, first |-> first, last |-> last]]

\* The stream after a frame that gave no event, and after one that did.
Quiet(s) == stream' = [s EXCEPT !.reading = FALSE] /\ NextIs("WAIT")
Loud(s) == stream' = [s EXCEPT !.reading = FALSE, !.sequence = @ + 1]

TurnStarted ==
  /\ ~stream.started
  /\ Loud([stream EXCEPT !.started = TRUE]) /\ Emits("STARTED", None, 0, 0)

\* Usage is kept until the turn has ended.
Usage == stream.started /\ Quiet([stream EXCEPT !.usage = TRUE])

\* A message begins silently, a command or tool call with an event; the same
\* start again says nothing.
ItemStarted(i) ==
  /\ stream.started
  /\ \/ stream.items[i].at = "OPEN" /\ Quiet(stream)
     \/ stream.items[i].at = "NEW" /\ i \in Messages /\ Quiet([stream EXCEPT !.items[i].at = "OPEN"])
     \/ stream.items[i].at = "NEW" /\ i \in Tools
        /\ Loud([stream EXCEPT !.items[i].at = "OPEN"]) /\ Emits("TOOL_STARTED", i, 0, 0)

\* The policy withholds a fragment: the message will not be called complete.
Withheld(item) == [item EXCEPT !.deltas = @ + 1, !.suppressed = TRUE]

\* The fragment is event number seq.
Published(item, seq) ==
  [item EXCEPT !.deltas = @ + 1, !.last = seq, !.first = IF @ = 0 THEN seq ELSE @]

ItemDelta(i) ==
  /\ stream.started /\ stream.items[i].at = "OPEN"
  /\ \/ i \in Messages /\ Quiet([stream EXCEPT !.items[i] = Withheld(stream.items[i])])
     \/ i \in Messages /\ Emits("DELTA", i, 0, 0)
        /\ Loud([stream EXCEPT !.items[i] = Published(stream.items[i], stream.sequence + 1)])
     \/ i \in Tools /\ Quiet(stream)
     \/ i \in Tools /\ Loud(stream) /\ Emits("OUTPUT", i, 0, 0)

\* A message is completed with the range of its fragments.
ItemCompleted(i) ==
  LET item == stream.items[i]
      done == [stream EXCEPT !.items[i].at = "DONE"]
  IN  /\ stream.started
      /\ \/ item.at = "DONE" /\ Quiet(stream)
         \/ item.at = "OPEN" /\ i \in Tools /\ Loud(done) /\ Emits("TOOL_ENDED", i, 0, 0)
         \/ item.at = "OPEN" /\ i \in Messages
            /\ IF item.suppressed \/ item.first = 0 THEN Quiet(done)
               ELSE Loud(done) /\ Emits("MESSAGE", i, item.first, item.last)

Whole == \A i \in Items : stream.items[i].at # "OPEN"

\* complete: usage is given out first, and the outcome by the next Next.
TurnCompleted(outcome) ==
  /\ stream.started /\ (outcome = "COMPLETED" => Whole)
  /\ IF stream.usage
     THEN Loud([stream EXCEPT !.completion = outcome]) /\ Emits("USAGE", None, 0, 0)
     ELSE Loud([stream EXCEPT !.end = TRUE]) /\ Emits(outcome, None, 0, 0)

Normalize(f) ==
  \/ f.kind = "STARTED" /\ TurnStarted
  \/ f.kind = "USAGE" /\ Usage
  \/ f.kind = "HINT" /\ Quiet(stream)
  \/ f.kind = "ITEM" /\ ItemStarted(f.item)
  \/ f.kind = "DELTA" /\ ItemDelta(f.item)
  \/ f.kind = "ENDED" /\ ItemCompleted(f.item)
  \/ f.kind \in {"COMPLETED", "FAILED"} /\ TurnCompleted(f.kind)

NextNormalizes(f) ==
  /\ next.at = "READ" /\ Frame(f) /\ Normalize(f)
  /\ seen' = f.n
  /\ NextLeaves /\ UNCHANGED <<pipes, gate, interrupt, delivered>>

\* The frame is malformed, out of place, or its event is too large.
NextRejects(f) ==
  /\ next.at = "READ" /\ Frame(f) /\ NextFails /\ seen' = f.n
  /\ NextLeaves /\ UNCHANGED interrupt

\* The subscriber reads the answer to an interrupt.
NextAcked ==
  /\ next.at = "READ" /\ pending = <<>> /\ Sends /\ Acknowledges
  /\ interrupt' = [interrupt EXCEPT !.acked = TRUE] /\ Quiet(stream)
  /\ NextLeaves /\ UNCHANGED <<pipes, gate, pending, read, seen, delivered>>

NextReadFails ==
  /\ next.at = "READ" /\ pending = <<>> /\ pipes = "CLOSED" /\ NextFails
  /\ NextLeaves /\ UNCHANGED <<interrupt, pending, read, seen, frames>>

\* The outcome that was put off.
NextFinishes ==
  /\ next.at = "FINISH"
  /\ Loud([stream EXCEPT !.end = TRUE, !.completion = None]) /\ Emits(stream.completion, None, 0, 0)
  /\ NextLeaves /\ UNCHANGED <<pipes, gate, interrupt, pending, read, seen, frames, delivered>>

\* Mutant: an event that was not given out in time is forgotten unless it is the last.
LateMutant ==
  IF stream.end THEN NextFails
  ELSE gate' = "FREE" /\ NextIs("IDLE") /\ UNCHANGED <<pipes, stream, delivered>>

\* An event that was not given out in time fails the stream.
Late == NextFails

NextReturns ==
  /\ next.at = "RETURN"
  /\ \/ /\ ~next.expired /\ delivered' = Append(delivered, next.event)
        /\ gate' = "FREE" /\ NextIs("IDLE") /\ UNCHANGED <<pipes, stream>>
     \/ next.expired /\ Late
  /\ NextLeaves /\ UNCHANGED <<interrupt, pending, read, seen, frames>>

NextExpires ==
  /\ next.at # "IDLE" /\ ~next.expired
  /\ Deadline /\ next' = [next EXCEPT !.expired = TRUE]
  /\ NextLeaves /\ UNCHANGED <<gate, interrupt, pending, read, seen, frames, stream, delivered>>

-----------------------------------------------------------------------------

\* The process ends, by itself or because agentd stops it.
VendorExits ==
  /\ pipes = "OPEN" /\ pipes' = "CLOSED"
  /\ UNCHANGED <<gate, client, asked, control, answered, interrupt, pending, read, seen, frames, stream,
                 closer, next, delivered, eof>>

\* Notifications with number n.  FAILED stands for an interrupted turn too.
Notices(n) ==
  [kind : {"STARTED", "USAGE", "HINT", "COMPLETED", "FAILED"}, item : {None}, n : {n}]
  \cup [kind : {"ITEM", "DELTA", "ENDED"}, item : Items, n : {n}]

Init ==
  /\ pipes = "OPEN" /\ gate = "FREE" /\ asked = {} /\ answered = {}
  /\ client = [attempted |-> FALSE, initialized |-> FALSE, thread |-> "NONE", probe |-> FALSE,
               operation |-> None, turn |-> FALSE]
  /\ control = NoCall
  /\ interrupt = [at |-> "IDLE", sent |-> FALSE, acked |-> FALSE, expired |-> FALSE, result |-> None]
  /\ pending = <<>> /\ read = 0 /\ seen = 0 /\ frames = 0
  /\ stream = [opened |-> FALSE, closed |-> FALSE, reading |-> FALSE, started |-> FALSE, end |-> FALSE,
               failed |-> FALSE, usage |-> FALSE, completion |-> None, sequence |-> 0,
               items |-> [i \in Items |-> NoItem]]
  /\ closer = "IDLE" /\ next = [at |-> "IDLE", event |-> NoEvent, expired |-> FALSE]
  /\ delivered = <<>> /\ eof = FALSE

ControlStep ==
  \/ Initialize
  \/ \E kind \in {"NEW", "RESUMED", "PROBE"} : OpenThread(kind)
  \/ StartTurn(First) \/ \E o \in Operations : RepeatTurn(o)
  \/ ControlResponse \/ ThreadStarted \/ ControlHint \/ ControlFails \/ ControlExpires \/ ControlReturns

InterruptStep ==
  \/ InterruptTurn \/ InterruptPoll \/ InterruptTries \/ InterruptAcked \/ InterruptRejects \/ InterruptReadFails \/ InterruptExpires
  \/ \E f \in Notices(read + 1) : InterruptRetains(f)

SubscriberStep ==
  \/ Events \/ Close \/ CloseBreaks \/ NextEnds \/ NextStarts \/ NextWaits \/ NextFlagged
  \/ \E n \in 1..MaxFrames : \E f \in Notices(n) : NextNormalizes(f) \/ NextRejects(f)
  \/ NextAcked \/ NextReadFails \/ NextFinishes \/ NextReturns \/ NextExpires

Next == ControlStep \/ InterruptStep \/ SubscriberStep \/ VendorExits

Spec == Init /\ [][Next]_vars

NextTakesRetained ==
  pending # <<>> /\ (NextNormalizes(Head(pending)) \/ NextRejects(Head(pending)))

\* Calls that do not wait for the vendor go on, and the interrupt has a
\* deadline of its own.
Fairness ==
  /\ WF_vars(CloseBreaks)
  /\ WF_vars(NextWaits \/ NextFlagged \/ NextTakesRetained \/ NextReadFails \/ NextFinishes \/ NextReturns)
  /\ WF_vars(InterruptPoll \/ InterruptTries) /\ WF_vars(InterruptReadFails) /\ WF_vars(InterruptExpires)

FairSpec == Spec /\ Fairness

-----------------------------------------------------------------------------
(* Properties *)

\* The gate has the holder that the calls in progress suggest, retained frames
\* keep to their bound, and only a Next that is about to read says so.
TypeOK ==
  /\ pipes \in {"OPEN", "CLOSED"}
  /\ gate = "CONTROL" <=> control.at # "IDLE"
  /\ gate = "INTERRUPT" <=> interrupt.at = "READ"
  /\ gate = "NEXT" <=> next.at # "IDLE"
  /\ stream.reading <=> next.at \in {"FLAGGED", "READ"}
  /\ Len(pending) <= MaxRetained
  /\ interrupt.result = "OK" => interrupt.sent /\ interrupt.acked

\* A process works on one operation: every StartTurn that succeeds, also a
\* repeated one, was for the turn that the vendor was asked for.
TurnIsExact ==
  \A o \in answered : asked = {o}

\* Notifications reach normalize in the order in which they were read from the
\* pipe, each once and none left out, although an interrupt may have read them.
FramesInOrder ==
  [][seen' # seen => seen' = seen + 1]_vars

\* The events of a stream are numbered without gaps: an event that was lost on
\* its way to the subscriber is followed by no other.
Gapless ==
  \A k \in DOMAIN delivered : delivered[k].seq = k

\* A completed message names the first and the last of its fragments, and the
\* subscriber has every fragment that the vendor sent for it.
MessageIsWhole ==
  \A k \in DOMAIN delivered :
    LET e == delivered[k]
        parts == {d \in DOMAIN delivered : delivered[d].kind = "DELTA" /\ delivered[d].item = e.item}
    IN  e.kind = "MESSAGE" =>
          /\ {e.first, e.last} \subseteq parts /\ parts \subseteq e.first..e.last
          /\ stream.items[e.item].deltas = Cardinality(parts)

\* A turn is only reported completed when every item that began has ended, and
\* an outcome is the last event of its stream.
OutcomeIsLast ==
  \A k \in DOMAIN delivered : delivered[k].kind \in {"COMPLETED", "FAILED"} =>
    /\ k = Len(delivered)
    /\ delivered[k].kind = "COMPLETED" => \A i \in Items : stream.items[i].at # "OPEN"

\* The subscriber of a stream that nobody closed is told of its end only after
\* it was given the outcome of the turn.
EndIsOutcome ==
  eof => delivered # <<>> /\ delivered[Len(delivered)].kind \in {"COMPLETED", "FAILED"}

\* What the subscriber was given is a true account of the one turn: it starts
\* at the first event, has no gap, vouches for whole messages only, and ends
\* with the outcome or with an error.
HonestStream == TypeOK /\ TurnIsExact /\ Gapless /\ MessageIsWhole /\ OutcomeIsLast /\ EndIsOutcome

\* Close ends a Next that is under way, even when the vendor says nothing and
\* no deadline passes.
CloseEndsNext == stream.closed ~> next.at = "IDLE"

\* An interrupt is answered, whoever holds the gate and whether or not the
\* vendor acknowledges it; and it never waits for an acknowledgement that the
\* subscriber has read.
InterruptEnds ==
  [](/\ interrupt.at = "READ" => ~interrupt.acked
     /\ interrupt.at # "IDLE" => <>(interrupt.at = "DONE"))
=============================================================================
