----------------------- MODULE AgentdConnectionProofs -----------------------
(***************************************************************************)
(* Proofs about the connection of agentd, for every plan and any number of *)
(* streams, credentials, failures and heartbeats: the credential row, the  *)
(* frames AR accepts, the processes of a sandbox without a stream, and the *)
(* dispatch of the plan (CommandDispatch).                                 *)
(*                                                                         *)
(* The argument follows a claimed command.  It is in one place: on its way *)
(* down the stream it was claimed for, with agentd's worker, or answered   *)
(* by a report on its way up.  Its journal entry is PENDING until AR       *)
(* receives the final report, which is the last frame of the stream that   *)
(* is about the command.                                                   *)
(***************************************************************************)
EXTENDS AgentdConnection, TLAPS

ServingStates == {"open", "renew", "commit", "reply", "settle"}
ServerStates == {"none", "hello", "admitted", "checked", "closing", "closed"} \cup ServingStates
Places == {0} \cup Operations
UpFrames == [kind : AgentFrames, seq : Nat, op : Places, val : Nat]
DownFrames == [kind : ServerFrames, seq : Nat, op : Places, val : Nat]
ServerType ==
  [pc : ServerStates, cred : Nat, proof : BOOLEAN, epoch : Nat, index : Nat, pending : Places,
   sent : Nat, got : Nat, inbox : Seq(UpFrames), grant : Nat]
AgentType ==
  [pc : {"dial", "hello", "serve", "cleanup", "exit", "dead"}, stream : 0..MaxDials, cred : Nat,
   proof : BOOLEAN, epoch : Nat, failures : Nat, in : Nat, out : Nat, busy : Places,
   renewal : {"no", "due", "asked"}, beats : Nat]
WorkerType ==
  [op : Places, stream : 0..MaxDials, seq : Nat, stage : {"idle", "begin", "wait", "ok", "failed"}]
GateType == [op : Places, stage : {"free", "launch", "init", "turn", "stop"}]
JournalType ==
  [outcome : {"ABSENT", "PENDING", "ACKNOWLEDGED", "UNKNOWN"}, epoch : Nat, seq : Nat]
RowType ==
  [version : Nat, latest : 1..MaxCredentials, consumed : BOOLEAN, epoch : Nat, open : BOOLEAN,
   cred : 0..MaxCredentials, deadline : {"none", "live", "capped", "past"}]

RowTypes == row \in RowType /\ expired \in 0..MaxCredentials /\ authorised \in BOOLEAN
StreamTypes ==
  /\ srv \in [Streams -> ServerType] /\ active \in {0} \cup Streams
  /\ up \in [Streams -> Seq(UpFrames)] /\ down \in [Streams -> Seq(DownFrames)]
JournalTypes == journal \in [Operations -> JournalType] /\ bound \in BOOLEAN
AgentTypes ==
  /\ agent \in AgentType /\ worker \in WorkerType /\ gate \in GateType
  /\ proc \in {"none", "starting", "running", "stopped"} /\ handle \in BOOLEAN
  /\ ledger \in [Operations -> {"NONE", "FAILED", "DONE"}]
  /\ effects \in [Operations -> Nat]
Types == RowTypes /\ StreamTypes /\ JournalTypes /\ AgentTypes

\* The credential row by itself.
RowInv ==
  /\ row.open <=> row.deadline # "none"
  /\ row.open <=> row.cred # 0
  /\ SupersededIsCapped

\* The stream has been admitted and its handler has not returned, or has
\* returned and not yet closed the connection; the handler has served it.
Accepted(r) == srv[r].pc \in {"admitted", "checked"} \/ Reading(r)
Numbered(r) == Accepted(r) \/ srv[r].pc = "closing"
Begun(r) == Reading(r) \/ srv[r].pc \in {"closing", "closed"}

\* Admitted streams have epochs of their own, and the row is the newest one's.
Epochs ==
  /\ \A r \in Streams : Numbered(r) => srv[r].epoch <= row.epoch
  /\ \A q, r \in Streams :
       q # r /\ Numbered(q) /\ Numbered(r) => srv[q].epoch # srv[r].epoch
  /\ \A r \in Streams : Accepted(r) /\ srv[r].epoch = row.epoch
                          => row.open /\ row.cred = srv[r].cred
  /\ active # 0 => Reading(active) \/ srv[active].pc = "closing"

\* A stream is silent before its handler serves it and after it returned, and
\* agentd has at most the newest one.
Lifecycle(r) ==
  /\ ~Reading(r) => /\ srv[r].inbox = <<>> /\ up[r] = <<>>
                    /\ srv[r].pending = 0 /\ srv[r].sent = 0 /\ srv[r].got = 0
  /\ down[r] # <<>> => OnStream(r) /\ Begun(r)
  /\ Serving /\ agent.stream = r => Begun(r)
  /\ r > agent.stream => srv[r].pc = "none"

\* The sequence numbers of both ends agree.
Counters(r) ==
  Reading(r) =>
    /\ \A i \in DOMAIN up[r] :
         /\ up[r][i].seq = srv[r].got + i
         /\ up[r][i].kind = "heartbeat" => up[r][i].val <= srv[r].sent
    /\ \A i \in DOMAIN down[r] : down[r][i].seq <= srv[r].sent
    /\ OnStream(r) => agent.out = srv[r].got + Len(up[r]) /\ agent.in <= srv[r].sent

Reports == {"thread", "ack", "failure"}

\* Nothing on the stream answers its command yet.
Unanswered(r) ==
  /\ \A i \in DOMAIN up[r] : up[r][i].kind \notin Reports
  /\ \A i \in DOMAIN srv[r].inbox : srv[r].inbox[i].kind # "ack"

\* Operation o is what the handler of stream r waits for.
Awaits(r, o) ==
  srv[r].pending = o /\ journal[o].outcome = "PENDING" /\ journal[o].epoch = srv[r].epoch

\* The command of operation o is on its way down.
Carried(o) ==
  \E r \in Streams : \E i \in DOMAIN down[r] : down[r][i].kind = "command" /\ down[r][i].op = o

\* The command of operation o is with the worker.
Working(o) == worker.stage # "idle" /\ worker.op = o

\* A command on its way down is alone, and nothing has been done about it.
DownInv(r) ==
  \A i \in DOMAIN down[r] : down[r][i].kind = "command" =>
    LET o == down[r][i].op IN
    /\ o \in Operations /\ journal[o].outcome = "PENDING" /\ ledger[o] = "NONE"
    /\ ~Working(o) /\ agent.busy = 0
    /\ \A j \in DOMAIN down[r] : down[r][j].kind = "command" => j = i
    /\ Reading(r) => Awaits(r, o) /\ journal[o].seq = down[r][i].seq /\ Unanswered(r)

\* A report on its way up is true, and the final one ends the command.
UpInv(r) ==
  \A i \in DOMAIN up[r] :
    LET f == up[r][i] IN
    /\ f.op # 0 => Awaits(r, f.op)
    /\ f.kind \in Reports => f.op # 0 /\ ~Working(f.op) /\ ~Carried(f.op)
    /\ f.kind = "ack" =>
         /\ ledger[f.op] = "DONE" /\ f.val = journal[f.op].seq
         /\ Plan[f.op] = "START" => bound \/ \E j \in DOMAIN up[r] : j < i /\ up[r][j].kind = "thread"
    /\ f.kind = "failure" => ledger[f.op] = "FAILED"
    /\ f.kind \in {"ack", "failure"} => \A j \in DOMAIN up[r] : j > i => up[r][j].op = 0

\* The handler's place in the plan is past what was claimed and next to what
\* it waits for; an acknowledgement it has not yet seen is the answer to that.
HandlerInv(r) ==
  Reading(r) =>
    /\ srv[r].index >= 1 /\ (srv[r].pending # 0 => srv[r].pending = srv[r].index)
    /\ srv[r].index <= Len(Plan) =>
         \A p \in Operations : p < srv[r].index => journal[p].outcome # "ABSENT"
    /\ \A i \in DOMAIN srv[r].inbox : srv[r].inbox[i].kind = "ack" =>
         /\ srv[r].pending # 0 /\ journal[srv[r].pending].outcome # "ABSENT"
         /\ \A j \in DOMAIN srv[r].inbox : srv[r].inbox[j].kind = "ack" => j = i
         /\ \A j \in DOMAIN up[r] : up[r][j].op = 0

StreamInv(r) == Lifecycle(r) /\ Counters(r) /\ DownInv(r) /\ UpInv(r) /\ HandlerInv(r)

\* agentd counts and works only while it serves a stream.
AgentInv ==
  /\ OnStream(agent.stream) => agent.stream \in Streams
  /\ ~Serving => agent.in = 0 /\ agent.out = 0 /\ agent.busy = 0 /\ agent.renewal = "no"

\* The worker has the command agentd is busy with, or one whose stream is gone
\* and that it has not looked at.
WorkerInv ==
  /\ worker.stage \in {"wait", "ok", "failed"} => Serving
  /\ Serving /\ worker.stage # "idle" => worker.stream = agent.stream /\ agent.busy = worker.op
  /\ Serving /\ agent.busy # 0 => worker.stage # "idle"

\* The worker's command is claimed, and reserved as failed until it succeeds.
CommandInv ==
  worker.stage # "idle" =>
    /\ worker.op \in Operations /\ worker.stream \in Streams /\ Begun(worker.stream)
    /\ journal[worker.op].outcome = "PENDING"
    /\ worker.stage = "begin" => ledger[worker.op] = "NONE"
    /\ worker.stage = "ok" => ledger[worker.op] = "DONE"
    /\ worker.stage \in {"wait", "failed"} => ledger[worker.op] = "FAILED"
    /\ Reading(worker.stream) =>
         /\ Awaits(worker.stream, worker.op) /\ journal[worker.op].seq = worker.seq
         /\ Unanswered(worker.stream)

\* The journal, the ledger and the effects of an operation.
LedgerInv ==
  \A o \in Operations :
    /\ journal[o].outcome = "ABSENT" => ledger[o] = "NONE"
    /\ effects[o] = IF ledger[o] = "NONE" THEN 0 ELSE 1

\* Only a caller that is served brings a process to run.
ProcessInv ==
  /\ proc = "starting" => gate.stage = "init"
  /\ proc = "running" => agent.pc \notin {"dial", "hello"}

IInv ==
  /\ Types /\ RowInv /\ Epochs /\ AgentInv /\ WorkerInv /\ CommandInv /\ LedgerInv /\ ProcessInv
  /\ \A r \in Streams : StreamInv(r)

\* A leaf that names no prover is Zenon's; the ones that need arithmetic or
\* records name SMT.
USE ZenonT(120)

-----------------------------------------------------------------------------
(* Plans, frames and sequences *)

\* The operations are numbered from 1.
LEMMA PlanIs ==
  /\ Operations = 1..Len(Plan) /\ Len(Plan) \in Nat /\ 0 \notin Operations
  /\ \A o \in Operations : Plan[o] \in Kinds
  BY SMT, ConnectionConstants DEF Operations

\* A frame put at the end of a queue.
LEMMA AppendIs ==
  ASSUME NEW S, NEW s \in Seq(S), NEW f \in S
  PROVE  LET t == Append(s, f) IN
         /\ t \in Seq(S) /\ t # <<>> /\ Len(t) = Len(s) + 1 /\ Len(s) \in Nat
         /\ DOMAIN t = DOMAIN s \cup {Len(s) + 1} /\ t[Len(s) + 1] = f
         /\ \A i \in DOMAIN s : i \in Nat /\ i < Len(s) + 1 /\ t[i] = s[i]
<1> DEFINE t == Append(s, f)
<1>1. t \in Seq(S) /\ t # <<>> /\ Len(t) = Len(s) + 1 /\ Len(s) \in Nat
  BY SMT
<1>2. DOMAIN t = 1..Len(s) + 1 /\ DOMAIN s = 1..Len(s)
  BY SMT, <1>1
<1>3. t[Len(s) + 1] = f /\ \A i \in 1..Len(s) : t[i] = s[i]
  BY SMT
<1> HIDE DEF t
<1>4. 1..Len(s) + 1 = 1..Len(s) \cup {Len(s) + 1}
  BY SMT, <1>1
<1>5. \A i \in DOMAIN s : i \in Nat /\ i < Len(s) + 1
  BY SMT, <1>1, <1>2
<1> QED  BY <1>1, <1>2, <1>3, <1>4, <1>5 DEF t

\* The first frame of a queue, and what is left without it.
LEMMA TailIs ==
  ASSUME NEW S, NEW s \in Seq(S), s # <<>>
  PROVE  LET t == Tail(s) IN
         /\ t \in Seq(S) /\ Len(t) = Len(s) - 1 /\ Len(s) \in Nat
         /\ 1 \in DOMAIN s /\ Head(s) = s[1] /\ Head(s) \in S
         /\ \A i \in DOMAIN t : i \in Nat /\ i + 1 \in DOMAIN s /\ i + 1 > 1 /\ t[i] = s[i + 1]
<1>1. Tail(s) \in Seq(S) /\ Len(Tail(s)) = Len(s) - 1 /\ Len(s) \in Nat /\ Len(s) > 0
  BY SMT
<1>2. 1 \in DOMAIN s /\ Head(s) = s[1] /\ Head(s) \in S
  BY SMT, <1>1
<1>3. \A i \in DOMAIN Tail(s) : i \in Nat /\ i + 1 \in DOMAIN s /\ i + 1 > 1 /\ Tail(s)[i] = s[i + 1]
  BY SMT, <1>1
<1> QED  BY <1>1, <1>2, <1>3

\* Two queues joined.
LEMMA ConcatIs ==
  ASSUME NEW S, NEW s \in Seq(S), NEW t \in Seq(S)
  PROVE  /\ s \o t \in Seq(S) /\ Len(s \o t) = Len(s) + Len(t)
         /\ DOMAIN (s \o t) = 1..Len(s) + Len(t)
         /\ \A i \in 1..Len(s) : (s \o t)[i] = s[i]
         /\ \A i \in 1..Len(t) : (s \o t)[Len(s) + i] = t[i]
<1>1. s \o t \in Seq(S) /\ Len(s \o t) = Len(s) + Len(t) /\ Len(s) \in Nat /\ Len(t) \in Nat
  BY SMT
<1>2. \A i \in 1..Len(s) + Len(t) : (s \o t)[i] = IF i <= Len(s) THEN s[i] ELSE t[i - Len(s)]
  BY SMT
<1>3. \A i \in 1..Len(s) : (s \o t)[i] = s[i]
  BY SMT, <1>1, <1>2
<1>4. ASSUME NEW i \in 1..Len(t) PROVE (s \o t)[Len(s) + i] = t[i]
  <2>1. Len(s) + i \in 1..Len(s) + Len(t) /\ ~(Len(s) + i <= Len(s)) /\ (Len(s) + i) - Len(s) = i
    BY SMT, <1>1
  <2> QED  BY <1>2, <2>1
<1> QED  BY SMT, <1>1, <1>3, <1>4

\* Bounds, for comparing them.
LEMMA Bounds ==
  /\ \A x, y \in Nat : x + y \in Nat /\ (x + y) + 1 = x + (y + 1)
  /\ \A x, y, z \in Nat : x <= y /\ y <= z => x <= z
  /\ \A n, m \in Nat : n >= 1 /\ n <= m => n \in 1..m
  /\ \A n \in Nat : 0 \in 0..n /\ (2 \in 1..n => 1 \in 1..n)
  /\ 1 < 2 /\ 1 \in Nat /\ 1 >= 1
  BY SMT

\* The queue t is s without its first frame.
Shorter(t, s) ==
  /\ 1 \in DOMAIN s /\ Head(s) = s[1]
  /\ \A i \in DOMAIN t : i \in Nat /\ i + 1 \in DOMAIN s /\ i + 1 > 1 /\ t[i] = s[i + 1]

\* A queue without its first frame.
LEMMA ShorterIs ==
  ASSUME NEW s, s \in Seq(UpFrames) \/ s \in Seq(DownFrames), s # <<>>
  PROVE  Shorter(Tail(s), s)
  BY TailIs DEF Shorter

\* The empty queue.
LEMMA EmptyIs == ASSUME NEW S PROVE <<>> \in Seq(S) /\ Len(<<>>) = 0 /\ DOMAIN <<>> = {}
  BY SMT

-----------------------------------------------------------------------------
(* What a step leaves alone *)

\* The step is not about stream q: agentd stays as it is, or has left q.
Apart(q) ==
  /\ srv'[q] = srv[q] /\ up'[q] = up[q]
  /\ \/ /\ agent' = agent /\ down'[q] = down[q]
        /\ \A o \in Operations : Working(o)' => Working(o)
     \/ ~OnStream(q)' /\ down'[q] = <<>> /\ (q > agent'.stream => q > agent.stream)
  /\ \A o \in Operations : Carried(o)' => Carried(o) \/ journal[o].outcome = "ABSENT"
  /\ \A o \in Operations : Working(o)' => Working(o) \/ Carried(o)
  /\ \A o \in Operations : ledger'[o] = ledger[o] \/ Working(o)
  /\ bound => bound'
  /\ \A o \in Operations : Carried(o) \/ (Reading(q) /\ Awaits(q, o)) => journal'[o] = journal[o]
  /\ \A o \in Operations : journal[o].outcome # "ABSENT" => journal'[o].outcome # "ABSENT"

\* The worker's command is one of stream q.
OnWorker(q) == worker.stage # "idle" /\ worker.stream = q

\* What a step of AR may do to the journal: claim an operation, or settle one
\* that is with neither agentd nor the stream q.
Journalled(q) ==
  \A o \in Operations :
    \/ journal'[o] = journal[o]
    \/ journal[o].outcome = "ABSENT" /\ journal'[o].outcome # "ABSENT"
    \/ /\ journal[o].outcome # "ABSENT" /\ journal'[o].outcome # "ABSENT"
       /\ ~Carried(o) /\ ~Working(o) /\ ~(Reading(q) /\ journal[o].epoch = srv[q].epoch)

\* Frames on their way up from other streams keep their meaning.
LEMMA UpKept ==
  ASSUME NEW q \in Streams, Types, StreamInv(q), Apart(q)
  PROVE  UpInv(q)'
<1>1. srv'[q] = srv[q] /\ up'[q] = up[q]
  BY DEF Apart
<1>2. SUFFICES ASSUME NEW i \in DOMAIN up[q], NEW f, f = up[q][i]
               PROVE  /\ f.op # 0 => Awaits(q, f.op)'
                      /\ f.kind \in Reports => f.op # 0 /\ ~Working(f.op)' /\ ~Carried(f.op)'
                      /\ f.kind = "ack" =>
                           /\ ledger'[f.op] = "DONE" /\ f.val = journal'[f.op].seq
                           /\ Plan[f.op] = "START" =>
                                bound' \/ \E j \in DOMAIN up[q] : j < i /\ up[q][j].kind = "thread"
                      /\ f.kind = "failure" => ledger'[f.op] = "FAILED"
                      /\ f.kind \in {"ack", "failure"} => \A j \in DOMAIN up[q] : j > i => up[q][j].op = 0
  BY SMT, <1>1 DEF UpInv, Awaits, Working, Carried
<1>3. f \in UpFrames
  BY SMT, <1>2 DEF Types, StreamTypes
<1>4. f.op \in Operations \/ f.op = 0
  BY <1>3 DEF UpFrames, Places
<1>5. Reading(q)
  BY EmptyIs DEF StreamInv, Lifecycle
<1>6. /\ f.op # 0 => Awaits(q, f.op)
      /\ f.kind \in Reports => f.op # 0 /\ ~Working(f.op) /\ ~Carried(f.op)
      /\ f.kind = "ack" =>
           /\ ledger[f.op] = "DONE" /\ f.val = journal[f.op].seq
           /\ Plan[f.op] = "START" =>
                bound \/ \E j \in DOMAIN up[q] : j < i /\ up[q][j].kind = "thread"
      /\ f.kind = "failure" => ledger[f.op] = "FAILED"
      /\ f.kind \in {"ack", "failure"} => \A j \in DOMAIN up[q] : j > i => up[q][j].op = 0
  BY <1>2 DEF StreamInv, UpInv
<1>7. f.op # 0 => journal'[f.op] = journal[f.op] /\ Awaits(q, f.op)'
  <2>1. f.op # 0 => journal'[f.op] = journal[f.op]
    BY <1>4, <1>5, <1>6 DEF Apart
  <2> QED  BY <1>1, <1>6, <2>1 DEF Awaits
<1>8. f.kind \in Reports => ~Working(f.op)' /\ ~Carried(f.op)' /\ ledger'[f.op] = ledger[f.op]
  <2>1. f.op # 0 => journal[f.op].outcome # "ABSENT"
    <3>1. f.op # 0 => journal[f.op].outcome = "PENDING"
      BY <1>6 DEF Awaits
    <3> QED  BY <3>1
  <2> QED  BY <1>4, <1>6, <2>1 DEF Apart
<1>9. f.kind \in {"ack", "failure"} => f.kind \in Reports
  BY DEF Reports
<1>10. bound => bound'
  BY DEF Apart
<1> QED  BY <1>6, <1>7, <1>8, <1>9, <1>10

\* So does the handler's place in the plan.
LEMMA HandlerKept ==
  ASSUME NEW q \in Streams, Types, StreamInv(q), Apart(q)
  PROVE  HandlerInv(q)'
<1>1. srv'[q] = srv[q] /\ up'[q] = up[q] /\ (Reading(q)' <=> Reading(q))
  BY DEF Apart, Reading
<1>2. srv[q].pending = 0 \/ srv[q].pending \in Operations
  BY DEF Types, StreamTypes, ServerType, Places
<1>3. \A o \in Operations : journal[o].outcome # "ABSENT" => journal'[o].outcome # "ABSENT"
  BY DEF Apart
<1>4. HandlerInv(q)
  BY DEF StreamInv
<1> QED  BY <1>1, <1>2, <1>3, <1>4 DEF HandlerInv

\* Such a step keeps the stream's invariant.
LEMMA StreamKept ==
  ASSUME NEW q \in Streams, Types, StreamInv(q), Apart(q)
  PROVE  StreamInv(q)'
<1>0. /\ srv'[q] = srv[q] /\ up'[q] = up[q] /\ (Reading(q)' <=> Reading(q)) /\ (Begun(q)' <=> Begun(q))
      /\ (Unanswered(q) => Unanswered(q)')
  BY DEF Apart, Reading, Begun, Unanswered
<1>1. CASE agent' = agent /\ down'[q] = down[q] /\ \A o \in Operations : Working(o)' => Working(o)
  <2>1. Lifecycle(q)' /\ Counters(q)'
    BY <1>0, <1>1 DEF StreamInv, Lifecycle, Counters, OnStream, Serving
  <2>2. DownInv(q)'
    <3>1. SUFFICES ASSUME NEW i \in DOMAIN down[q], down[q][i].kind = "command"
                   PROVE  LET o == down[q][i].op IN
                          /\ o \in Operations /\ journal'[o].outcome = "PENDING" /\ ledger'[o] = "NONE"
                          /\ ~Working(o)' /\ agent'.busy = 0
                          /\ \A j \in DOMAIN down[q] : down[q][j].kind = "command" => j = i
                          /\ Reading(q) => Awaits(q, o)' /\ journal'[o].seq = down[q][i].seq /\ Unanswered(q)'
      BY <1>0, <1>1 DEF DownInv
    <3>2. PICK o \in Operations : o = down[q][i].op
      BY <3>1 DEF StreamInv, DownInv
    <3>3. /\ journal[o].outcome = "PENDING" /\ ledger[o] = "NONE" /\ ~Working(o) /\ agent.busy = 0
          /\ \A j \in DOMAIN down[q] : down[q][j].kind = "command" => j = i
          /\ Reading(q) => Awaits(q, o) /\ journal[o].seq = down[q][i].seq /\ Unanswered(q)
      BY <3>1, <3>2 DEF StreamInv, DownInv
    <3>4. Carried(o)
      BY <3>1, <3>2 DEF Carried
    <3>5. journal'[o] = journal[o] /\ ledger'[o] = ledger[o] /\ ~Working(o)'
      BY <1>1, <3>3, <3>4 DEF Apart
    <3>6. Reading(q) => Awaits(q, o)'
      BY <1>0, <3>3, <3>5 DEF Awaits
    <3> QED  BY <1>0, <1>1, <3>2, <3>3, <3>5, <3>6
  <2> QED  BY <2>1, <2>2, UpKept, HandlerKept DEF StreamInv
<1>2. CASE ~OnStream(q)' /\ down'[q] = <<>> /\ (q > agent'.stream => q > agent.stream)
  <2>1. Lifecycle(q)'
    BY <1>0, <1>2 DEF StreamInv, Lifecycle, OnStream, Serving
  <2>2. Counters(q)' /\ DownInv(q)'
    BY <1>0, <1>2, EmptyIs DEF StreamInv, Counters, DownInv
  <2> QED  BY <2>1, <2>2, UpKept, HandlerKept DEF StreamInv
<1> QED  BY <1>1, <1>2 DEF Apart

\* No stream is admitted by the step, and the row keeps its connection.
LEMMA EpochsKept ==
  ASSUME Epochs, row'.epoch = row.epoch, row'.open = row.open, row'.cred = row.cred,
         \A q \in Streams : /\ Numbered(q)' => Numbered(q) /\ srv'[q].epoch = srv[q].epoch
                            /\ Accepted(q)' => Accepted(q) /\ srv'[q].cred = srv[q].cred,
         active' # 0 => (Reading(active) \/ srv[active].pc = "closing")'
  PROVE  Epochs'
<1>1. \A r \in Streams : Numbered(r)' => srv'[r].epoch <= row'.epoch
  BY DEF Epochs
<1>2. \A q, r \in Streams : q # r /\ Numbered(q)' /\ Numbered(r)' => srv'[q].epoch # srv'[r].epoch
  BY SMT DEF Epochs
<1>3. \A r \in Streams : Accepted(r)' /\ srv'[r].epoch = row'.epoch
                           => row'.open /\ row'.cred = srv'[r].cred
  BY DEF Epochs, Numbered
<1> QED  BY <1>1, <1>2, <1>3 DEF Epochs

\* A step that leaves the database alone.
LEMMA DurableKept ==
  ASSUME IInv, UNCHANGED durable
  PROVE  /\ row' = row /\ expired' = expired /\ authorised' = authorised
         /\ journal' = journal /\ bound' = bound
         /\ RowTypes' /\ JournalTypes' /\ RowInv' /\ \A q \in Streams : Journalled(q)
<1>1. row' = row /\ expired' = expired /\ authorised' = authorised /\ journal' = journal /\ bound' = bound
  BY DEF durable
<1> QED  BY <1>1 DEF IInv, Types, RowTypes, JournalTypes, RowInv, SupersededIsCapped, Journalled

\* A stream before it is dialled.
LEMMA FreshIs ==
  /\ Fresh \in ServerType /\ Fresh.epoch = 0 /\ Fresh.inbox = <<>> /\ Fresh.pending = 0
  /\ Fresh.sent = 0 /\ Fresh.got = 0 /\ Fresh.pc = "none"
  BY SMT DEF Fresh, ServerType, ServerStates, Places

\* What is left of a stream that is refused or closed.
LEMMA ClosedIs ==
  LET c == [Fresh EXCEPT !.pc = "closed"] IN
  /\ c \in ServerType /\ c.pc = "closed" /\ c.epoch = 0
  /\ c.inbox = <<>> /\ c.pending = 0 /\ c.sent = 0 /\ c.got = 0
<1>1. "closed" \in ServerStates
  BY DEF ServerStates
<1> QED  BY <1>1, FreshIs DEF ServerType

-----------------------------------------------------------------------------
(* Steps of AR *)

\* The queue t is s with f at the end.
Longer(t, s, f) ==
  /\ DOMAIN t = DOMAIN s \cup {Len(s) + 1} /\ t[Len(s) + 1] = f
  /\ \A i \in DOMAIN s : t[i] = s[i]

\* Every step of AR keeps the invariant, and so does what time and the operator
\* do to the credential row.
LEMMA ServerSideKeeps == IInv /\ (Environment \/ \E r \in Streams : Server(r)) => IInv'

  \* Sequence numbers, for counting frames.
<1>Sums.
  /\ \A g, i \in Nat : g + (i + 1) = (g + 1) + i
  /\ \A g, l \in Nat : g + l = (g + 1) + (l - 1)
  /\ \A g, l, m, s, i \in Nat : m = g + l /\ s = m + 1 /\ i = l + 1 => s = g + i /\ g + i = m + 1
  BY SMT

  \* A queue with a frame put at its end.
<1>LongerIs.
  ASSUME NEW s \in Seq(DownFrames), NEW f \in DownFrames
  PROVE  Longer(Append(s, f), s, f)
  BY SMT, <1>LongerIs, AppendIs DEF Longer

  \* A stream that is silent after the step.
<1>SilentKept.
  ASSUME NEW r \in Streams, Types, StreamInv(r),
         ~Reading(r)', srv'[r].inbox = <<>>, srv'[r].pending = 0, srv'[r].sent = 0, srv'[r].got = 0,
         up'[r] = <<>>, down'[r] = down[r], agent' = agent, worker' = worker, ledger' = ledger,
         journal' = journal, Begun(r) => Begun(r)', r > agent.stream => srv'[r].pc = "none"
  PROVE  StreamInv(r)'
  <2> USE <1>SilentKept
  <2>1. Lifecycle(r)'
    BY DEF StreamInv, Lifecycle, OnStream, Serving
  <2>2. Counters(r)' /\ HandlerInv(r)'
    BY DEF Counters, HandlerInv
  <2>3. DownInv(r)'
    <3>1. DownInv(r) /\ \A o : Working(o)' <=> Working(o)
      BY DEF StreamInv, Working
    <3> QED  BY SMT, <3>1 DEF DownInv
  <2>4. UpInv(r)'
    BY EmptyIs DEF UpInv
  <2> QED  BY <2>1, <2>2, <2>3, <2>4 DEF StreamInv

  \* A step of AR that keeps the invariants of the row and of the streams T it
  \* is about keeps everything.
<1>ServerKept.
  ASSUME NEW T \in SUBSET Streams, IInv, UNCHANGED local,
         RowTypes', StreamTypes', JournalTypes', RowInv', Epochs', bound => bound',
         \A q \in T : StreamInv(q)',
         \A q \in Streams \ T : srv'[q] = srv[q] /\ up'[q] = up[q] /\ down'[q] = down[q] /\ Journalled(q),
         \A o \in Operations : Carried(o)' => Carried(o) \/ journal[o].outcome = "ABSENT",
         \A o \in Operations : Working(o) => journal'[o] = journal[o],
         \A o \in Operations : journal'[o].outcome = "ABSENT" => journal[o].outcome = "ABSENT",
         \A q \in T : OnWorker(q) =>
           /\ Begun(q)'
           /\ Reading(q)' => /\ Reading(q) /\ srv'[q].pending = srv[q].pending
                             /\ srv'[q].epoch = srv[q].epoch /\ (Unanswered(q) => Unanswered(q)')
  PROVE  IInv'
  <2> USE <1>ServerKept
  <2>1. /\ agent' = agent /\ worker' = worker /\ gate' = gate /\ proc' = proc /\ handle' = handle
        /\ ledger' = ledger /\ effects' = effects
    BY DEF local
  <2>2. \A o \in Operations : Working(o)' <=> Working(o)
    BY <2>1 DEF Working
  <2>3. Types' /\ AgentInv' /\ WorkerInv' /\ ProcessInv'
    <3>1. Types'
      BY <2>1 DEF IInv, Types, AgentTypes
    <3>2. AgentInv' /\ WorkerInv' /\ ProcessInv'
      BY <2>1 DEF IInv, AgentInv, WorkerInv, ProcessInv, OnStream, Serving
    <3> QED  BY <3>1, <3>2
  <2>4. LedgerInv'
    BY <2>1 DEF IInv, LedgerInv
  <2>5. ASSUME NEW q \in Streams PROVE StreamInv(q)'
    <3>1. CASE q \in T
      BY <3>1
    <3>2. CASE q \notin T
      <4>1. srv'[q] = srv[q] /\ up'[q] = up[q] /\ down'[q] = down[q] /\ Journalled(q)
        BY <3>2
      <4>2. StreamInv(q) /\ \A p \in Streams : DownInv(p)
        BY DEF IInv, StreamInv
      <4>3. ASSUME NEW o \in Operations, Carried(o) PROVE journal[o].outcome = "PENDING"
        <5>1. PICK p \in Streams : \E i \in DOMAIN down[p] : down[p][i].kind = "command" /\ down[p][i].op = o
          BY <4>3 DEF Carried
        <5> QED  BY SMT, <4>2, <5>1 DEF DownInv
      <4>4. ASSUME NEW o \in Operations, Carried(o) \/ (Reading(q) /\ Awaits(q, o))
            PROVE  journal'[o] = journal[o]
        <5>1. journal[o].outcome = "PENDING"
          BY <4>3, <4>4 DEF Awaits
        <5>2. journal[o].outcome # "ABSENT"
          BY <5>1
        <5> QED  BY <4>1, <4>4, <5>2 DEF Journalled, Awaits
      <4>5. Apart(q)
        BY <2>1, <2>2, <4>1, <4>4 DEF Apart
      <4> QED  BY <4>2, <4>5, StreamKept DEF IInv
    <3> QED  BY <3>1, <3>2
  <2>6. CommandInv'
    <3>1. SUFFICES ASSUME worker.stage # "idle" PROVE CommandInv'
      BY <2>1 DEF CommandInv
    <3>2. PICK o \in Operations, s \in Streams : o = worker.op /\ s = worker.stream
      BY <3>1 DEF IInv, CommandInv
    <3>3. Working(o) /\ OnWorker(s)
      BY <3>1, <3>2 DEF Working, OnWorker
    <3>4. /\ Begun(s)' /\ journal'[o] = journal[o]
          /\ Reading(s)' => /\ Reading(s) /\ srv'[s].pending = srv[s].pending
                            /\ srv'[s].epoch = srv[s].epoch /\ (Unanswered(s) => Unanswered(s)')
      <4>1. CASE s \in T
        BY <3>3, <4>1
      <4>2. CASE s \notin T
        <5>1. srv'[s] = srv[s] /\ up'[s] = up[s]
          BY <4>2
        <5>2. Begun(s)
          BY <3>1, <3>2 DEF IInv, CommandInv
        <5> QED  BY <3>3, <5>1, <5>2 DEF Begun, Reading, Unanswered
      <4> QED  BY <4>1, <4>2
    <3>5. Reading(s)' => Awaits(s, o)' /\ journal'[o].seq = worker.seq /\ Unanswered(s)'
      BY <3>1, <3>2, <3>4 DEF IInv, CommandInv, Awaits
    <3>6. /\ journal[o].outcome = "PENDING"
          /\ worker.stage = "begin" => ledger[o] = "NONE"
          /\ worker.stage = "ok" => ledger[o] = "DONE"
          /\ worker.stage \in {"wait", "failed"} => ledger[o] = "FAILED"
      BY <3>1, <3>2 DEF IInv, CommandInv
    <3> QED  BY <2>1, <3>2, <3>4, <3>5, <3>6 DEF CommandInv
  <2> QED  BY <2>3, <2>4, <2>5, <2>6 DEF IInv

  \* So does what time and the operator do to the credential row.
<1>EnvironmentKeeps.
  ASSUME IInv, Environment
  PROVE  IInv'
  <2> USE <1>EnvironmentKeeps
  <2>1. Types /\ RowInv /\ Epochs
    BY DEF IInv
  <2>2. row \in RowType /\ expired \in 0..MaxCredentials
    BY <2>1 DEF Types, RowTypes
  <2>3. /\ journal' = journal /\ bound' = bound /\ srv' = srv /\ active' = active /\ up' = up /\ down' = down
        /\ UNCHANGED local
    BY DEF Environment
  <2>4. PICK d \in {row.deadline, "past"} :
          /\ row' = [row EXCEPT !.deadline = d] /\ (d = "past" => row.open)
    <3>1. [row EXCEPT !.deadline = row.deadline] = row
      BY <2>2 DEF RowType
    <3>2. CASE Revoke /\ UNCHANGED <<row, expired>>
      <4>1. row.deadline = "past" => row.open
        BY <2>1 DEF RowInv
      <4> QED  BY <3>1, <3>2, <4>1
    <3>3. CASE Expire
      <4>1. row.deadline = "past" => row.open
        BY <2>1 DEF RowInv
      <4> QED  BY <3>3, <4>1 DEF Expire
    <3>4. CASE CapPasses
      <4>1. row.deadline = "capped" => row.open
        BY <2>1 DEF RowInv
      <4> QED  BY <3>4, <4>1 DEF CapPasses
    <3> QED  BY <3>2, <3>3, <3>4 DEF Environment
  <2>5. /\ row'.open = row.open /\ row'.epoch = row.epoch /\ row'.cred = row.cred
        /\ row'.latest = row.latest /\ row'.deadline = d
    BY <2>2, <2>4 DEF RowType
  <2>6. row' \in RowType
    <3>1. d \in {"none", "live", "capped", "past"}
      BY <2>2, <2>4 DEF RowType
    <3> QED  BY <2>2, <2>4, <3>1 DEF RowType
  <2>7. expired' \in 0..MaxCredentials /\ authorised' \in BOOLEAN
    <3>1. CASE Revoke /\ UNCHANGED <<row, expired>>
      BY <2>2, <3>1 DEF Revoke
    <3>2. CASE Expire /\ UNCHANGED authorised
      <4>1. expired' = expired + 1 /\ expired < row.latest /\ row.latest \in 1..MaxCredentials
        BY <2>2, <3>2 DEF Expire, RowType
      <4>2. expired' \in 0..MaxCredentials
        BY SMT, <2>2, <4>1, ConnectionConstants
      <4> QED  BY <2>1, <3>2, <4>2 DEF Types, RowTypes
    <3>3. CASE CapPasses /\ UNCHANGED <<expired, authorised>>
      BY <2>1, <3>3 DEF Types, RowTypes
    <3> QED  BY <3>1, <3>2, <3>3 DEF Environment
  <2>8. RowTypes' /\ JournalTypes' /\ StreamTypes'
    BY <2>1, <2>3, <2>6, <2>7 DEF Types, RowTypes, JournalTypes, StreamTypes
  <2>9. RowInv'
    <3>1. CASE d = row.deadline
      BY <2>1, <2>5, <3>1 DEF RowInv, SupersededIsCapped
    <3>2. CASE d = "past"
      <4>1. "past" # "none" /\ "past" \in {"capped", "past"}
        OBVIOUS
      <4> QED  BY <2>1, <2>4, <2>5, <3>2, <4>1 DEF RowInv, SupersededIsCapped
    <3> QED  BY <2>4, <3>1, <3>2
  <2>10. Epochs'
    <3>1. \A q \in Streams : (Numbered(q)' <=> Numbered(q)) /\ (Accepted(q)' <=> Accepted(q))
      BY <2>3 DEF Numbered, Accepted, Reading
    <3>2. active' # 0 => (Reading(active) \/ srv[active].pc = "closing")'
      BY <2>1, <2>3 DEF Epochs, Reading
    <3> QED  BY <2>1, <2>3, <2>5, <3>1, <3>2, EpochsKept
  <2>11. \A o \in Operations : Carried(o)' => Carried(o)
    BY <2>3 DEF Carried
  <2>12. \A q \in Streams : Journalled(q)
    BY <2>3 DEF Journalled
  <2>13. {} \in SUBSET Streams
    OBVIOUS
  <2> QED  BY <2>3, <2>8, <2>9, <2>10, <2>11, <2>12, <2>13, <1>ServerKept

  \* A step of AR that is about one stream.
<1>OneKept.
  ASSUME NEW r \in Streams, IInv, UNCHANGED local,
         RowTypes', StreamTypes', JournalTypes', RowInv', Epochs', bound => bound', StreamInv(r)',
         \A q \in Streams \ {r} : srv'[q] = srv[q] /\ up'[q] = up[q] /\ down'[q] = down[q] /\ Journalled(q),
         \A o \in Operations : Carried(o)' => Carried(o) \/ journal[o].outcome = "ABSENT",
         \A o \in Operations : Working(o) => journal'[o] = journal[o],
         \A o \in Operations : journal'[o].outcome = "ABSENT" => journal[o].outcome = "ABSENT",
         OnWorker(r) =>
           /\ Begun(r)'
           /\ Reading(r)' => /\ Reading(r) /\ srv'[r].pending = srv[r].pending
                             /\ srv'[r].epoch = srv[r].epoch /\ (Unanswered(r) => Unanswered(r)')
  PROVE  IInv'
  <2> USE <1>OneKept
  <2>1. PICK T \in SUBSET Streams : T = {r}
    OBVIOUS
  <2>2. \A q \in T : q = r
    BY <2>1
  <2>3. \A q \in T : StreamInv(q)'
    BY <2>2
  <2>4. \A q \in T : OnWorker(q) =>
          /\ Begun(q)'
          /\ Reading(q)' => /\ Reading(q) /\ srv'[q].pending = srv[q].pending
                            /\ srv'[q].epoch = srv[q].epoch /\ (Unanswered(q) => Unanswered(q)')
    BY <2>2
  <2>5. \A q \in Streams \ T : srv'[q] = srv[q] /\ up'[q] = up[q] /\ down'[q] = down[q] /\ Journalled(q)
    BY <2>1
  <2> QED  BY <2>3, <2>4, <2>5, <1>ServerKept

  \* A handler that goes on serving without touching the journal: it takes a
  \* frame that is not an acknowledgement, skips an operation, or sends a frame
  \* that is not a command.
<1>ServingKept.
  ASSUME NEW r \in Streams, IInv, UNCHANGED local, journal' = journal, bound' = bound,
         Reading(r), Reading(r)', up'[r] = up[r], srv'[r].epoch = srv[r].epoch,
         srv'[r].pending = srv[r].pending, srv'[r].got = srv[r].got, srv'[r].sent \in Nat,
         srv[r].sent <= srv'[r].sent, \A o \in Operations : Carried(o)' => Carried(o),
         \/ down'[r] = down[r]
         \/ /\ OnStream(r)
            /\ \E f \in DownFrames : /\ f.kind # "command" /\ f.seq <= srv'[r].sent
                                     /\ down'[r] = Append(down[r], f),
         \/ srv'[r].inbox = srv[r].inbox
         \/ srv[r].inbox # <<>> /\ srv'[r].inbox = Tail(srv[r].inbox),
         \/ srv'[r].index = srv[r].index
         \/ /\ srv[r].pending = 0 /\ srv'[r].index = srv[r].index + 1
            /\ srv[r].index \in Operations => journal[srv[r].index].outcome # "ABSENT"
  PROVE  StreamInv(r)' /\ (Unanswered(r) => Unanswered(r)')
  <2> USE <1>ServingKept
  <2>1. agent' = agent /\ worker' = worker /\ ledger' = ledger
    BY DEF local
  <2>2. StreamInv(r) /\ Types
    BY DEF IInv
  <2>3. /\ srv[r].inbox \in Seq(UpFrames) /\ srv[r].sent \in Nat /\ srv[r].got \in Nat
        /\ srv[r].index \in Nat /\ srv[r].pending \in Places
        /\ up[r] \in Seq(UpFrames) /\ down[r] \in Seq(DownFrames)
    BY <2>2 DEF Types, StreamTypes, ServerType
  <2>4. \A i \in DOMAIN srv'[r].inbox : \E k \in DOMAIN srv[r].inbox :
          srv'[r].inbox[i] = srv[r].inbox[k]
    <3>1. CASE srv[r].inbox # <<>> /\ srv'[r].inbox = Tail(srv[r].inbox)
      <4>1. \A i \in DOMAIN srv'[r].inbox : i + 1 \in DOMAIN srv[r].inbox /\ srv'[r].inbox[i] = srv[r].inbox[i + 1]
        <5>1. Shorter(Tail(srv[r].inbox), srv[r].inbox)
          BY <2>3, <3>1, ShorterIs
        <5>2. Shorter(srv'[r].inbox, srv[r].inbox)
          BY <3>1, <5>1
        <5> QED  BY <5>2 DEF Shorter
      <4> QED  BY <4>1
    <3> QED  BY <3>1
  <2>5. Unanswered(r) => Unanswered(r)'
    BY <2>4 DEF Unanswered
  <2>6. \A i \in DOMAIN down'[r] :
          \/ i \in DOMAIN down[r] /\ down'[r][i] = down[r][i]
          \/ down'[r][i].kind # "command" /\ down'[r][i].seq <= srv'[r].sent
    <3>1. CASE \E f \in DownFrames : /\ f.kind # "command" /\ f.seq <= srv'[r].sent
                                     /\ down'[r] = Append(down[r], f)
      <4>1. PICK f \in DownFrames : /\ f.kind # "command" /\ f.seq <= srv'[r].sent
                                    /\ down'[r] = Append(down[r], f)
        BY <3>1
      <4>2. /\ DOMAIN down'[r] = DOMAIN down[r] \cup {Len(down[r]) + 1} /\ down'[r][Len(down[r]) + 1] = f
            /\ \A i \in DOMAIN down[r] : down'[r][i] = down[r][i]
        <5>1. Longer(Append(down[r], f), down[r], f)
          BY <2>3, <4>1, <1>LongerIs
        <5>2. Longer(down'[r], down[r], f)
          BY <4>1, <5>1
        <5> QED  BY <5>2 DEF Longer
      <4> QED  BY <4>1, <4>2
    <3> QED  BY <3>1
  <2>7. Lifecycle(r)'
    <3>1. Lifecycle(r) /\ Begun(r)'
      BY <2>2 DEF StreamInv, Begun
    <3>2. r > agent.stream => srv'[r].pc = "none"
      <4>1. ~(r > agent.stream)
        BY <3>1 DEF Lifecycle, Reading
      <4> QED  BY <4>1
    <3> QED  BY <2>1, <3>1, <3>2 DEF Lifecycle, OnStream, Serving
  <2>8. Counters(r)'
    <3>1. ASSUME NEW i \in DOMAIN up[r], up[r][i].kind = "heartbeat" PROVE up[r][i].val <= srv'[r].sent
      <4>1. up[r][i].val <= srv[r].sent
        BY <2>2, <3>1 DEF StreamInv, Counters
      <4>2. up[r][i].val \in Nat
        <5>1. up[r][i] \in UpFrames
          BY SMT, <2>3
        <5> QED  BY <5>1 DEF UpFrames
      <4> QED  BY SMT, <2>3, <4>1, <4>2
    <3>2. ASSUME NEW i \in DOMAIN down'[r] PROVE down'[r][i].seq <= srv'[r].sent
      <4>1. CASE i \in DOMAIN down[r] /\ down'[r][i] = down[r][i]
        <5>1. down[r][i].seq <= srv[r].sent
          BY <2>2, <4>1 DEF StreamInv, Counters
        <5>2. down[r][i].seq \in Nat
          <6>1. down[r][i] \in DownFrames
            BY SMT, <2>3, <4>1
          <6> QED  BY <6>1 DEF DownFrames
        <5> QED  BY <2>3, <4>1, <5>1, <5>2, Bounds
      <4> QED  BY <2>6, <4>1
    <3>3. OnStream(r) => agent.out = srv[r].got + Len(up[r]) /\ agent.in <= srv'[r].sent
      <4>1. agent.in \in Nat
        BY <2>2 DEF Types, AgentTypes, AgentType
      <4>2. OnStream(r) => agent.out = srv[r].got + Len(up[r]) /\ agent.in <= srv[r].sent
        BY <2>2 DEF StreamInv, Counters
      <4> QED  BY SMT, <2>3, <4>1, <4>2
    <3>4. \A i \in DOMAIN up[r] : up[r][i].seq = srv[r].got + i
      BY <2>2 DEF StreamInv, Counters
    <3> QED  BY <2>1, <3>1, <3>2, <3>3, <3>4 DEF Counters, OnStream
  <2>9. DownInv(r)'
    <3>1. \A i \in DOMAIN down'[r] : down'[r][i].kind = "command" =>
            i \in DOMAIN down[r] /\ down'[r][i] = down[r][i]
      BY <2>6
    <3>2. \A o : Awaits(r, o)' <=> Awaits(r, o)
      BY DEF Awaits
    <3>3. \A o : Working(o)' <=> Working(o)
      BY <2>1 DEF Working
    <3>4. DownInv(r)
      BY <2>2 DEF StreamInv
    <3>5. ASSUME NEW i \in DOMAIN down'[r], down'[r][i].kind = "command", NEW o, o = down'[r][i].op
          PROVE  /\ o \in Operations /\ journal'[o].outcome = "PENDING" /\ ledger'[o] = "NONE"
                 /\ ~Working(o)' /\ agent'.busy = 0
                 /\ \A j \in DOMAIN down'[r] : down'[r][j].kind = "command" => j = i
                 /\ Awaits(r, o)' /\ journal'[o].seq = down'[r][i].seq /\ Unanswered(r)'
      <4>1. i \in DOMAIN down[r] /\ down'[r][i] = down[r][i]
        BY <3>1, <3>5
      <4>2. /\ o \in Operations /\ journal[o].outcome = "PENDING" /\ ledger[o] = "NONE"
            /\ ~Working(o) /\ agent.busy = 0
            /\ \A j \in DOMAIN down[r] : down[r][j].kind = "command" => j = i
            /\ Awaits(r, o) /\ journal[o].seq = down[r][i].seq /\ Unanswered(r)
        BY <3>4, <3>5, <4>1 DEF DownInv
      <4>3. \A j \in DOMAIN down'[r] : down'[r][j].kind = "command" => j = i
        BY <3>1, <4>2
      <4> QED  BY <2>1, <2>5, <3>2, <3>3, <4>1, <4>2, <4>3
    <3> QED  BY SMT, <3>5 DEF DownInv, Awaits, Working
  <2>10. UpInv(r)'
    <3>1. \A o : Awaits(r, o)' <=> Awaits(r, o)
      BY DEF Awaits
    <3>2. \A o : Working(o)' <=> Working(o)
      BY <2>1 DEF Working
    <3>3. ASSUME NEW i \in DOMAIN up[r], NEW f, f = up[r][i]
          PROVE  /\ f.op # 0 => Awaits(r, f.op)'
                 /\ f.kind \in Reports => f.op # 0 /\ ~Working(f.op)' /\ ~Carried(f.op)'
                 /\ f.kind = "ack" =>
                      /\ ledger'[f.op] = "DONE" /\ f.val = journal'[f.op].seq
                      /\ Plan[f.op] = "START" =>
                           bound' \/ \E j \in DOMAIN up[r] : j < i /\ up[r][j].kind = "thread"
                 /\ f.kind = "failure" => ledger'[f.op] = "FAILED"
                 /\ f.kind \in {"ack", "failure"} => \A j \in DOMAIN up[r] : j > i => up[r][j].op = 0
      <4>1. /\ f.op # 0 => Awaits(r, f.op)
            /\ f.kind \in Reports => f.op # 0 /\ ~Working(f.op) /\ ~Carried(f.op)
            /\ f.kind = "ack" =>
                 /\ ledger[f.op] = "DONE" /\ f.val = journal[f.op].seq
                 /\ Plan[f.op] = "START" =>
                      bound \/ \E j \in DOMAIN up[r] : j < i /\ up[r][j].kind = "thread"
            /\ f.kind = "failure" => ledger[f.op] = "FAILED"
            /\ f.kind \in {"ack", "failure"} => \A j \in DOMAIN up[r] : j > i => up[r][j].op = 0
        BY <2>2, <3>3 DEF StreamInv, UpInv
      <4>2. f \in UpFrames
        BY SMT, <2>3, <3>3
      <4>3. f.op # 0 => f.op \in Operations
        BY <4>2 DEF UpFrames, Places
      <4> QED  BY <2>1, <3>1, <3>2, <4>1, <4>3
    <3> QED  BY SMT, <3>3 DEF UpInv, Awaits, Working, Carried
  <2>11. HandlerInv(r)'
    <3>1. HandlerInv(r)
      BY <2>2 DEF StreamInv
    <3>2. srv'[r].index >= 1 /\ (srv'[r].pending # 0 => srv'[r].pending = srv'[r].index)
      <4>1. srv[r].index >= 1 /\ (srv[r].pending # 0 => srv[r].pending = srv[r].index)
        BY <3>1 DEF HandlerInv
      <4>2. srv[r].index + 1 >= 1
        BY SMT, <2>3
      <4> QED  BY <4>1, <4>2
    <3>3. ASSUME srv'[r].index <= Len(Plan), NEW p \in Operations, p < srv'[r].index
          PROVE  journal[p].outcome # "ABSENT"
      <4>1. CASE srv'[r].index = srv[r].index
        BY <3>1, <3>3, <4>1 DEF HandlerInv
      <4>2. CASE srv'[r].index = srv[r].index + 1 /\ (srv[r].index \in Operations => journal[srv[r].index].outcome # "ABSENT")
        <5>1. srv[r].index <= Len(Plan) /\ (p < srv[r].index \/ p = srv[r].index)
          BY SMT, <2>3, <3>3, <4>2, PlanIs
        <5> QED  BY <3>1, <4>2, <5>1 DEF HandlerInv
      <4> QED  BY <4>1, <4>2
    <3>4. ASSUME NEW i \in DOMAIN srv'[r].inbox, srv'[r].inbox[i].kind = "ack"
          PROVE  /\ srv[r].pending # 0 /\ journal[srv[r].pending].outcome # "ABSENT"
                 /\ \A j \in DOMAIN srv'[r].inbox : srv'[r].inbox[j].kind = "ack" => j = i
                 /\ \A j \in DOMAIN up[r] : up[r][j].op = 0
      <4>1. CASE srv'[r].inbox = srv[r].inbox
        BY <3>1, <3>4, <4>1 DEF HandlerInv
      <4>2. CASE srv[r].inbox # <<>> /\ srv'[r].inbox = Tail(srv[r].inbox)
        <5>1. \A j \in DOMAIN srv'[r].inbox :
                j \in Nat /\ j + 1 \in DOMAIN srv[r].inbox /\ srv'[r].inbox[j] = srv[r].inbox[j + 1]
          <6>1. Shorter(Tail(srv[r].inbox), srv[r].inbox)
            BY <2>3, <4>2, ShorterIs
          <6>2. Shorter(srv'[r].inbox, srv[r].inbox)
            BY <4>2, <6>1
          <6> QED  BY <6>2 DEF Shorter
        <5>2. \A j, k \in Nat : j + 1 = k + 1 => j = k
          BY SMT
        <5>3. /\ srv[r].pending # 0 /\ journal[srv[r].pending].outcome # "ABSENT"
              /\ \A j \in DOMAIN srv[r].inbox : srv[r].inbox[j].kind = "ack" => j = i + 1
              /\ \A j \in DOMAIN up[r] : up[r][j].op = 0
          BY <3>1, <3>4, <5>1 DEF HandlerInv
        <5> QED  BY <3>4, <5>1, <5>2, <5>3
      <4> QED  BY <4>1, <4>2
    <3> QED  BY <3>2, <3>3, <3>4 DEF HandlerInv
  <2> QED  BY <2>5, <2>7, <2>8, <2>9, <2>10, <2>11 DEF StreamInv

  \* What is left of a stream whose handler has returned.
<1>EndedIs.
  ASSUME NEW s \in ServerType
  PROVE  /\ Ended(s) \in ServerType /\ Ended(s).pc = "closing" /\ Ended(s).epoch = s.epoch
         /\ Ended(s).inbox = <<>> /\ Ended(s).pending = 0 /\ Ended(s).sent = 0 /\ Ended(s).got = 0
  <2> USE <1>EndedIs
  <2>1. s.epoch \in Nat
    BY DEF ServerType
  <2>2. "closing" \in ServerStates
    BY DEF ServerStates
  <2> QED  BY <2>1, <2>2, FreshIs DEF Ended, ServerType

  \* The handler returns.
<1>ReturnKeeps.
  ASSUME NEW r \in Streams, IInv, UNCHANGED local, Accepted(r), Return(r)
  PROVE  IInv'
  <2> USE <1>ReturnKeeps
  <2>1. Types /\ StreamInv(r) /\ Epochs
    BY DEF IInv
  <2>2. srv \in [Streams -> ServerType] /\ srv[r] \in ServerType /\ up \in [Streams -> Seq(UpFrames)]
    BY <2>1 DEF Types, StreamTypes
  <2>3. /\ srv' = [srv EXCEPT ![r] = Ended(srv[r])] /\ up' = [up EXCEPT ![r] = <<>>]
        /\ active' = active /\ down' = down /\ UNCHANGED durable
    BY DEF Return
  <2>4. /\ srv'[r] = Ended(srv[r]) /\ up'[r] = <<>> /\ down'[r] = down[r]
        /\ \A q \in Streams \ {r} : srv'[q] = srv[q] /\ up'[q] = up[q] /\ down'[q] = down[q]
    BY <2>2, <2>3
  <2>5. /\ row' = row /\ journal' = journal /\ bound' = bound
        /\ RowTypes' /\ JournalTypes' /\ RowInv' /\ \A q \in Streams : Journalled(q)
    BY <2>3, DurableKept
  <2>6. /\ srv'[r] \in ServerType /\ srv'[r].pc = "closing" /\ srv'[r].epoch = srv[r].epoch
        /\ srv'[r].inbox = <<>> /\ srv'[r].pending = 0 /\ srv'[r].sent = 0 /\ srv'[r].got = 0
    BY SMT, <2>2, <2>4, <1>EndedIs
  <2>7. ~Reading(r)' /\ ~Accepted(r)' /\ Begun(r)'
    BY <2>6 DEF Reading, Accepted, Begun
  <2>8. StreamTypes'
    BY <2>1, <2>2, <2>3, <2>4, <2>6, EmptyIs DEF Types, StreamTypes
  <2>9. StreamInv(r)'
    <3>1. r > agent.stream => FALSE
      <4>1. r > agent.stream => srv[r].pc = "none"
        BY <2>1 DEF StreamInv, Lifecycle
      <4>2. srv[r].pc # "none"
        BY DEF Accepted, Reading
      <4> QED  BY <4>1, <4>2
    <3> QED  BY <2>1, <2>4, <2>5, <2>6, <2>7, <3>1, <1>SilentKept DEF local
  <2>10. Epochs'
    <3>1. ASSUME NEW q \in Streams, q # r
          PROVE  /\ Numbered(q)' => Numbered(q) /\ srv'[q].epoch = srv[q].epoch
                 /\ Accepted(q)' => Accepted(q) /\ srv'[q].cred = srv[q].cred
      BY <2>4, <3>1 DEF Numbered, Accepted, Reading
    <3>2. active' # 0 => (Reading(active) \/ srv[active].pc = "closing")'
      <4>1. CASE active = r
        BY <2>3, <2>6, <4>1
      <4>2. CASE active # r /\ active # 0
        <5>1. active \in Streams /\ srv'[active] = srv[active]
          BY <2>1, <2>4, <4>2 DEF Types, StreamTypes
        <5> QED  BY <2>1, <2>3, <4>2, <5>1 DEF Epochs, Reading
      <4> QED  BY <2>3, <4>1, <4>2
    <3>3. ASSUME NEW q \in Streams
          PROVE  /\ Numbered(q)' => Numbered(q) /\ srv'[q].epoch = srv[q].epoch
                 /\ Accepted(q)' => Accepted(q) /\ srv'[q].cred = srv[q].cred
      BY <2>6, <2>7, <3>1 DEF Numbered
    <3> QED  BY <2>1, <2>5, <3>2, <3>3, EpochsKept
  <2>11. \A o \in Operations : Carried(o)' => Carried(o)
    BY <2>3 DEF Carried
  <2> QED  BY <2>4, <2>5, <2>7, <2>8, <2>9, <2>10, <2>11, <1>OneKept

  \* A hello is refused, or its stream ends before it was answered.
<1>RejectKeeps.
  ASSUME NEW r \in Streams, IInv, UNCHANGED local, srv[r].pc = "hello", Reject(r)
  PROVE  IInv'
  <2> USE <1>RejectKeeps
  <2>1. Types /\ StreamInv(r) /\ Epochs
    BY DEF IInv
  <2>2. srv \in [Streams -> ServerType] /\ srv[r] \in ServerType
    BY <2>1 DEF Types, StreamTypes
  <2>3. /\ srv' = [srv EXCEPT ![r] = [Fresh EXCEPT !.pc = "closed"]] /\ up' = up
        /\ active' = active /\ down' = down /\ UNCHANGED durable
    BY DEF Reject
  <2>4. /\ srv'[r] = [Fresh EXCEPT !.pc = "closed"]
        /\ \A q \in Streams \ {r} : srv'[q] = srv[q]
    BY <2>2, <2>3
  <2>5. /\ row' = row /\ journal' = journal /\ bound' = bound
        /\ RowTypes' /\ JournalTypes' /\ RowInv' /\ \A q \in Streams : Journalled(q)
    BY <2>3, DurableKept
  <2>6. /\ srv'[r] \in ServerType /\ srv'[r].pc = "closed"
        /\ srv'[r].inbox = <<>> /\ srv'[r].pending = 0 /\ srv'[r].sent = 0 /\ srv'[r].got = 0
    BY <2>4, ClosedIs
  <2>7. /\ ~Reading(r)' /\ ~Accepted(r)' /\ ~Numbered(r)' /\ Begun(r)'
        /\ ~Reading(r) /\ srv[r].pc # "closing" /\ srv[r].pc # "none"
    BY <2>6 DEF Reading, Accepted, Numbered, Begun
  <2>8. StreamTypes'
    BY <2>1, <2>2, <2>3, <2>4, <2>6 DEF Types, StreamTypes
  <2>9. StreamInv(r)'
    <3>1. up'[r] = <<>> /\ down'[r] = down[r] /\ ~(r > agent.stream)
      BY <2>1, <2>3, <2>7 DEF StreamInv, Lifecycle
    <3> QED  BY <2>1, <2>5, <2>6, <2>7, <3>1, <1>SilentKept DEF local
  <2>10. Epochs'
    <3>1. ASSUME NEW q \in Streams
          PROVE  /\ Numbered(q)' => Numbered(q) /\ srv'[q].epoch = srv[q].epoch
                 /\ Accepted(q)' => Accepted(q) /\ srv'[q].cred = srv[q].cred
      <4>1. CASE q = r
        BY <2>7, <4>1
      <4>2. CASE q # r
        BY <2>4, <4>2 DEF Numbered, Accepted, Reading
      <4> QED  BY <4>1, <4>2
    <3>2. active' # 0 => (Reading(active) \/ srv[active].pc = "closing")'
      <4>1. active # 0 => active \in Streams /\ active # r
        BY <2>1, <2>7 DEF Types, StreamTypes, Epochs
      <4> QED  BY SMT, <2>1, <2>3, <2>4, <4>1 DEF Epochs, Reading
    <3> QED  BY <2>1, <2>5, <3>1, <3>2, EpochsKept
  <2>11. \A o \in Operations : Carried(o)' => Carried(o)
    BY <2>3 DEF Carried
  <2> QED  BY <2>3, <2>4, <2>5, <2>7, <2>8, <2>9, <2>10, <2>11, <1>OneKept

  \* A hello is admitted: the row moves to the epoch of this stream.
<1>AdmitKeeps.
  ASSUME NEW r \in Streams, IInv, UNCHANGED local, Admit(r)
  PROVE  IInv'
  <2> USE <1>AdmitKeeps
  <2>0. srv[r].pc = "hello" /\ (~Admissible(srv[r]) => Reject(r))
    BY DEF Admit
  <2>a. CASE ~Admissible(srv[r])
    BY <2>0, <2>a, <1>RejectKeeps
  <2>b. CASE Admissible(srv[r])
    <3>1. Types /\ StreamInv(r) /\ Epochs /\ RowInv
      BY DEF IInv
    <3>2. srv \in [Streams -> ServerType] /\ srv[r] \in ServerType /\ row \in RowType
      BY <3>1 DEF Types, StreamTypes, RowTypes
    <3>3. /\ row' = NextEpoch(srv[r])
          /\ srv' = [srv EXCEPT ![r].pc = "admitted", ![r].epoch = row'.epoch]
          /\ expired' = expired /\ authorised' = authorised /\ journal' = journal /\ bound' = bound
          /\ active' = active /\ up' = up /\ down' = down
      BY <2>b DEF Admit
    <3>4. srv[r].cred = row.latest /\ srv[r].cred \in 1..MaxCredentials /\ srv[r].cred # 0
      BY SMT, <2>b, <3>2 DEF Admissible, RowType
    <3>5. /\ row'.epoch = row.epoch + 1 /\ row'.open = TRUE /\ row'.cred = srv[r].cred
          /\ row'.deadline = "live" /\ row'.latest = row.latest
      BY <3>2, <3>3 DEF NextEpoch, RowType
    <3>6. row' \in RowType
      <4>1. row.version + 1 \in Nat /\ row.epoch + 1 \in Nat /\ (row.consumed \/ srv[r].proof) \in BOOLEAN
            /\ srv[r].cred \in 0..MaxCredentials /\ "live" \in {"none", "live", "capped", "past"}
        BY SMT, <3>2, <3>4, ConnectionConstants DEF RowType
      <4> QED  BY <3>2, <3>3, <4>1 DEF NextEpoch, RowType
    <3>7. RowTypes' /\ JournalTypes' /\ RowInv'
      <4>1. RowTypes' /\ JournalTypes'
        BY <3>1, <3>3, <3>6 DEF Types, RowTypes, JournalTypes
      <4>2. row'.deadline # "none"
        BY <3>5
      <4> QED  BY <3>4, <3>5, <4>1, <4>2 DEF RowInv, SupersededIsCapped
    <3>8. /\ srv'[r] = [srv[r] EXCEPT !.pc = "admitted", !.epoch = row'.epoch]
          /\ \A q \in Streams \ {r} : srv'[q] = srv[q]
      BY <3>2, <3>3
    <3>9. /\ srv'[r].pc = "admitted" /\ srv'[r].epoch = row.epoch + 1 /\ srv'[r].cred = srv[r].cred
          /\ srv'[r].inbox = srv[r].inbox /\ srv'[r].pending = srv[r].pending
          /\ srv'[r].sent = srv[r].sent /\ srv'[r].got = srv[r].got
      BY SMT, <3>2, <3>5, <3>8 DEF ServerType
    <3>10. srv'[r] \in ServerType
      <4>1. row'.epoch \in Nat /\ "admitted" \in ServerStates
        BY <3>6 DEF RowType, ServerStates
      <4> QED  BY <3>2, <3>8, <4>1 DEF ServerType
    <3>11. /\ ~Reading(r)' /\ Accepted(r)' /\ ~Begun(r)' /\ ~Begun(r) /\ ~Reading(r)
           /\ srv[r].pc # "none" /\ srv[r].pc # "closing"
      BY <2>0, <3>9 DEF Reading, Accepted, Begun
    <3>12. StreamTypes'
      BY <3>1, <3>2, <3>3, <3>8, <3>10 DEF Types, StreamTypes
    <3>13. StreamInv(r)'
      <4>1. /\ up'[r] = <<>> /\ down'[r] = down[r] /\ ~(r > agent.stream)
            /\ srv[r].inbox = <<>> /\ srv[r].pending = 0 /\ srv[r].sent = 0 /\ srv[r].got = 0
        BY <3>1, <3>3, <3>11 DEF StreamInv, Lifecycle
      <4> QED  BY <3>1, <3>3, <3>9, <3>11, <4>1, <1>SilentKept DEF local
    <3>14. Epochs'
      <4>1. \A q \in Streams \ {r} : /\ Numbered(q)' <=> Numbered(q)
                                     /\ Accepted(q)' => srv'[q].epoch = srv[q].epoch
        BY <3>8 DEF Numbered, Accepted, Reading
      <4>2. row.epoch \in Nat /\ \A q \in Streams : srv[q].epoch \in Nat
        BY <3>2 DEF RowType, ServerType
      <4>3. ASSUME NEW q \in Streams, q # r, Numbered(q)' PROVE srv'[q].epoch <= row.epoch /\ srv'[q].epoch \in Nat
        BY <3>1, <3>8, <4>1, <4>2, <4>3 DEF Epochs
      <4>4. ASSUME NEW q \in Streams, q # r, Numbered(q)'
            PROVE  /\ srv'[q].epoch <= row'.epoch /\ srv'[q].epoch # row'.epoch
        BY SMT, <3>5, <4>2, <4>3, <4>4
      <4>5. srv'[r].epoch = row'.epoch /\ row'.epoch <= row'.epoch
        BY SMT, <3>5, <3>9, <4>2
      <4>6. \A q \in Streams : Numbered(q)' => srv'[q].epoch <= row'.epoch
        BY <4>4, <4>5
      <4>7. \A p, q \in Streams : p # q /\ Numbered(p)' /\ Numbered(q)' => srv'[p].epoch # srv'[q].epoch
        <5>1. SUFFICES ASSUME NEW p \in Streams, NEW q \in Streams, p # q, Numbered(p)', Numbered(q)'
                       PROVE  srv'[p].epoch # srv'[q].epoch
          OBVIOUS
        <5>2. CASE p = r
          BY <4>4, <4>5, <5>1, <5>2
        <5>3. CASE q = r
          BY <4>4, <4>5, <5>1, <5>3
        <5>4. CASE p # r /\ q # r
          BY SMT, <3>1, <3>8, <4>1, <5>1, <5>4 DEF Epochs
        <5> QED  BY <5>2, <5>3, <5>4
      <4>8. \A q \in Streams : Accepted(q)' /\ srv'[q].epoch = row'.epoch => row'.open /\ row'.cred = srv'[q].cred
        BY <3>5, <3>9, <4>4 DEF Numbered
      <4>9. active' # 0 => (Reading(active) \/ srv[active].pc = "closing")'
        <5>1. active # 0 => active \in Streams /\ active # r
          BY <3>1, <3>11 DEF Types, StreamTypes, Epochs
        <5> QED  BY <3>1, <3>3, <3>8, <5>1 DEF Epochs, Reading
      <4> QED  BY <4>6, <4>7, <4>8, <4>9 DEF Epochs
    <3>15. \A o \in Operations : Carried(o)' => Carried(o)
      BY <3>3 DEF Carried
    <3>16. ~OnWorker(r)
      BY <3>11 DEF OnWorker, IInv, CommandInv
    <3>17. \A q \in Streams : Journalled(q)
      BY <3>3 DEF Journalled
    <3> QED  BY <3>3, <3>7, <3>8, <3>12, <3>13, <3>14, <3>15, <3>16, <3>17, <1>OneKept
  <2> QED  BY <2>a, <2>b

  \* The admission is checked again.
<1>RecheckKeeps.
  ASSUME NEW r \in Streams, IInv, UNCHANGED local, Recheck(r)
  PROVE  IInv'
  <2> USE <1>RecheckKeeps
  <2>0. srv[r].pc = "admitted" /\ ~Reading(r) /\ ~Begun(r) /\ Accepted(r) /\ srv[r].pc # "none"
    BY DEF Recheck, Reading, Begun, Accepted
  <2>a. CASE ~Current(srv[r])
    BY <2>0, <2>a, <1>ReturnKeeps DEF Recheck
  <2>b. CASE Current(srv[r])
    <3>1. Types /\ StreamInv(r) /\ Epochs
      BY DEF IInv
    <3>2. srv \in [Streams -> ServerType] /\ srv[r] \in ServerType
      BY <3>1 DEF Types, StreamTypes
    <3>3. /\ srv' = [srv EXCEPT ![r].pc = "checked"] /\ up' = up
          /\ active' = active /\ down' = down /\ UNCHANGED durable
      BY <2>b DEF Recheck
    <3>4. /\ srv'[r] = [srv[r] EXCEPT !.pc = "checked"]
          /\ \A q \in Streams \ {r} : srv'[q] = srv[q]
      BY <3>2, <3>3
    <3>5. /\ row' = row /\ journal' = journal /\ bound' = bound
          /\ RowTypes' /\ JournalTypes' /\ RowInv' /\ \A q \in Streams : Journalled(q)
      BY <3>3, DurableKept
    <3>6. /\ srv'[r].pc = "checked" /\ srv'[r].epoch = srv[r].epoch /\ srv'[r].cred = srv[r].cred
          /\ srv'[r].inbox = srv[r].inbox /\ srv'[r].pending = srv[r].pending
          /\ srv'[r].sent = srv[r].sent /\ srv'[r].got = srv[r].got
      BY <3>2, <3>4 DEF ServerType
    <3>7. srv'[r] \in ServerType
      <4>1. "checked" \in ServerStates
        BY DEF ServerStates
      <4> QED  BY <3>2, <3>4, <4>1 DEF ServerType
    <3>8. ~Reading(r)' /\ Accepted(r)'
      BY <3>6 DEF Reading, Accepted
    <3>9. StreamTypes'
      BY <3>1, <3>2, <3>3, <3>4, <3>7 DEF Types, StreamTypes
    <3>10. StreamInv(r)'
      <4>1. /\ up'[r] = <<>> /\ down'[r] = down[r] /\ ~(r > agent.stream)
            /\ srv[r].inbox = <<>> /\ srv[r].pending = 0 /\ srv[r].sent = 0 /\ srv[r].got = 0
        BY <2>0, <3>1, <3>3 DEF StreamInv, Lifecycle
      <4> QED  BY <2>0, <3>1, <3>5, <3>6, <3>8, <4>1, <1>SilentKept DEF local
    <3>11. Epochs'
      <4>1. ASSUME NEW q \in Streams
            PROVE  /\ Numbered(q)' => Numbered(q) /\ srv'[q].epoch = srv[q].epoch
                   /\ Accepted(q)' => Accepted(q) /\ srv'[q].cred = srv[q].cred
        <5>1. CASE q = r
          BY <2>0, <3>6, <5>1 DEF Numbered
        <5>2. CASE q # r
          BY <3>4, <5>2 DEF Numbered, Accepted, Reading
        <5> QED  BY <5>1, <5>2
      <4>2. active' # 0 => (Reading(active) \/ srv[active].pc = "closing")'
        <5>1. srv[r].pc # "closing"
          BY <2>0
        <5>2. active # 0 => active \in Streams /\ active # r
          BY <2>0, <3>1, <5>1 DEF Types, StreamTypes, Epochs
        <5> QED  BY SMT, <3>1, <3>3, <3>4, <5>2 DEF Epochs, Reading
      <4> QED  BY <3>1, <3>5, <4>1, <4>2, EpochsKept
    <3>12. \A o \in Operations : Carried(o)' => Carried(o)
      BY <3>3 DEF Carried
    <3>13. ~OnWorker(r)
      BY <2>0 DEF OnWorker, IInv, CommandInv
    <3> QED  BY <3>3, <3>4, <3>5, <3>9, <3>10, <3>11, <3>12, <3>13, <1>OneKept
  <2> QED  BY <2>a, <2>b

  \* The handler leaves the active map, and closes the connection if it can.
<1>FinishKeeps.
  ASSUME NEW r \in Streams, IInv, UNCHANGED local, Finish(r)
  PROVE  IInv'
  <2> USE <1>FinishKeeps
  <2>1. Types /\ StreamInv(r) /\ Epochs /\ RowInv
    BY DEF IInv
  <2>2. srv \in [Streams -> ServerType] /\ srv[r] \in ServerType /\ row \in RowType
    BY <2>1 DEF Types, StreamTypes, RowTypes
  <2>3. /\ srv[r].pc = "closing" /\ srv' = [srv EXCEPT ![r] = [Fresh EXCEPT !.pc = "closed"]]
        /\ active' = (IF active = r THEN 0 ELSE active) /\ row' \in {row, ClosedBy(srv[r])}
        /\ expired' = expired /\ authorised' = authorised /\ journal' = journal /\ bound' = bound
        /\ up' = up /\ down' = down
    BY DEF Finish
  <2>4. /\ srv'[r] = [Fresh EXCEPT !.pc = "closed"]
        /\ \A q \in Streams \ {r} : srv'[q] = srv[q]
    BY <2>2, <2>3
  <2>5. /\ srv'[r] \in ServerType /\ srv'[r].pc = "closed"
        /\ srv'[r].inbox = <<>> /\ srv'[r].pending = 0 /\ srv'[r].sent = 0 /\ srv'[r].got = 0
    BY <2>4, ClosedIs
  <2>6. /\ ~Reading(r)' /\ ~Accepted(r)' /\ ~Numbered(r)' /\ Begun(r)'
        /\ ~Reading(r) /\ Numbered(r) /\ srv[r].pc # "none"
    BY <2>3, <2>5 DEF Reading, Accepted, Numbered, Begun
  <2>7. \/ row' = row
        \/ /\ row.epoch = srv[r].epoch
           /\ row' = [row EXCEPT !.version = @ + 1, !.open = FALSE, !.cred = 0, !.deadline = "none"]
    BY <2>3 DEF ClosedBy
  <2>8. RowTypes' /\ RowInv' /\ JournalTypes' /\ row'.epoch = row.epoch
    <3>1. CASE row' = row
      BY <2>1, <2>3, <3>1 DEF Types, RowTypes, JournalTypes, RowInv, SupersededIsCapped
    <3>2. CASE row' = [row EXCEPT !.version = @ + 1, !.open = FALSE, !.cred = 0, !.deadline = "none"]
      <4>1. /\ row'.open = FALSE /\ row'.cred = 0 /\ row'.deadline = "none" /\ row'.epoch = row.epoch
        BY <2>2, <3>2 DEF RowType
      <4>2. row' \in RowType
        <5>1. row.version + 1 \in Nat /\ 0 \in 0..MaxCredentials /\ FALSE \in BOOLEAN
              /\ "none" \in {"none", "live", "capped", "past"}
          BY SMT, <2>2, ConnectionConstants DEF RowType
        <5> QED  BY <2>2, <3>2, <5>1 DEF RowType
      <4> QED  BY <2>1, <2>3, <4>1, <4>2 DEF Types, RowTypes, JournalTypes, RowInv, SupersededIsCapped
    <3> QED  BY <2>7, <3>1, <3>2
  <2>9. StreamTypes'
    <3>1. active' \in {0} \cup Streams
      BY <2>1, <2>3 DEF Types, StreamTypes
    <3> QED  BY <2>1, <2>2, <2>3, <2>4, <2>5, <3>1 DEF Types, StreamTypes
  <2>10. StreamInv(r)'
    <3>1. up'[r] = <<>> /\ down'[r] = down[r] /\ ~(r > agent.stream)
      BY <2>1, <2>3, <2>6 DEF StreamInv, Lifecycle
    <3> QED  BY <2>1, <2>3, <2>5, <2>6, <3>1, <1>SilentKept DEF local
  <2>11. Epochs'
    <3>1. \A q \in Streams \ {r} : /\ Numbered(q)' <=> Numbered(q)
                                   /\ Accepted(q)' <=> Accepted(q)
      BY <2>4 DEF Numbered, Accepted, Reading
    <3>2. \A q \in Streams : Numbered(q)' => srv'[q].epoch <= row'.epoch
      BY <2>1, <2>4, <2>6, <2>8, <3>1 DEF Epochs
    <3>3. \A p, q \in Streams : p # q /\ Numbered(p)' /\ Numbered(q)' => srv'[p].epoch # srv'[q].epoch
      BY SMT, <2>1, <2>4, <2>6, <3>1 DEF Epochs
    <3>4. ASSUME NEW q \in Streams, Accepted(q)', srv'[q].epoch = row'.epoch
          PROVE  row'.open /\ row'.cred = srv'[q].cred
      <4>1. q # r /\ srv'[q] = srv[q] /\ Accepted(q) /\ Numbered(q)
        BY <2>4, <2>6, <3>1, <3>4 DEF Numbered
      <4>2. row.epoch # srv[r].epoch
        BY <2>1, <2>6, <2>8, <3>4, <4>1 DEF Epochs
      <4>3. row' = row
        BY <2>7, <4>2
      <4> QED  BY <2>1, <3>4, <4>1, <4>3 DEF Epochs
    <3>5. active' # 0 => (Reading(active) \/ srv[active].pc = "closing")'
      <4>1. SUFFICES ASSUME active' # 0 PROVE Reading(active)' \/ srv'[active'].pc = "closing"
        OBVIOUS
      <4>2. active' = active /\ active # r /\ active \in Streams
        BY <2>1, <2>3, <4>1 DEF Types, StreamTypes
      <4>3. Reading(active) \/ srv[active].pc = "closing"
        BY <2>1, <4>1, <4>2 DEF Epochs
      <4>4. srv'[active'] = srv[active]
        BY <2>4, <4>2
      <4> QED  BY <4>3, <4>4 DEF Reading
    <3> QED  BY <3>2, <3>3, <3>4, <3>5 DEF Epochs
  <2>12. \A o \in Operations : Carried(o)' => Carried(o)
    BY <2>3 DEF Carried
  <2>13. \A q \in Streams : Journalled(q)
    BY <2>3 DEF Journalled
  <2> QED  BY <2>3, <2>4, <2>6, <2>8, <2>9, <2>10, <2>11, <2>12, <2>13, <1>OneKept

  \* What a frame sent by AR changes.
<1>DeliverIs.
  ASSUME NEW r \in Streams, NEW f \in DownFrames, Types, Deliver(r, f)
  PROVE  /\ down' \in [Streams -> Seq(DownFrames)]
         /\ down'[r] = (IF OnStream(r) THEN Append(down[r], f) ELSE down[r])
         /\ \A q \in Streams \ {r} : down'[q] = down[q]
         /\ f.kind # "command" => \A o : Carried(o)' => Carried(o)
  <2> USE <1>DeliverIs
  <2>1. down \in [Streams -> Seq(DownFrames)] /\ down[r] \in Seq(DownFrames)
    BY DEF Types, StreamTypes
  <2>2. /\ down'[r] = (IF OnStream(r) THEN Append(down[r], f) ELSE down[r])
        /\ \A q \in Streams \ {r} : down'[q] = down[q]
    BY <2>1 DEF Deliver
  <2>3. down'[r] \in Seq(DownFrames)
    BY SMT, <2>1, <2>2, AppendIs
  <2>4. down' \in [Streams -> Seq(DownFrames)]
    BY <2>1, <2>3 DEF Deliver
  <2>5. ASSUME f.kind # "command", NEW o, Carried(o)' PROVE Carried(o)
    <3>0. PICK q \in Streams : \E i \in DOMAIN down'[q] : down'[q][i].kind = "command" /\ down'[q][i].op = o
      BY <2>5 DEF Carried
    <3>1. PICK i \in DOMAIN down'[q] : down'[q][i].kind = "command" /\ down'[q][i].op = o
      BY <3>0
    <3>2. i \in DOMAIN down[q] /\ down'[q][i] = down[q][i]
      <4>1. CASE q # r
        BY <2>2, <4>1
      <4>2. CASE q = r /\ OnStream(r)
        <5>1. /\ DOMAIN Append(down[r], f) = DOMAIN down[r] \cup {Len(down[r]) + 1}
              /\ Append(down[r], f)[Len(down[r]) + 1] = f
              /\ \A j \in DOMAIN down[r] : Append(down[r], f)[j] = down[r][j]
          BY SMT, <2>1, AppendIs
        <5> QED  BY <2>2, <2>5, <3>1, <4>2, <5>1
      <4>3. CASE q = r /\ ~OnStream(r)
        BY <2>2, <3>1, <4>3
      <4> QED  BY <4>1, <4>2, <4>3
    <3> QED  BY <3>1, <3>2 DEF Carried
  <2> QED  BY <2>2, <2>4, <2>5

  \* A checked stream takes the place of an older one and is served.
<1>InstallKeeps.
  ASSUME NEW r \in Streams, IInv, UNCHANGED local, Install(r)
  PROVE  IInv'
  <2> USE <1>InstallKeeps
  <2>0. srv[r].pc = "checked" /\ ~Reading(r) /\ ~Begun(r) /\ Accepted(r) /\ srv[r].pc # "none" /\ srv[r].pc # "closing"
    BY DEF Install, Reading, Begun, Accepted
  <2>a. CASE ~Newer(srv[r])
    BY <2>0, <2>a, <1>ReturnKeeps DEF Install
  <2>b. CASE Newer(srv[r])
    <3>1. Types /\ StreamInv(r) /\ Epochs /\ AgentInv /\ \A q \in Streams : StreamInv(q)
      BY DEF IInv
    <3>2. /\ srv \in [Streams -> ServerType] /\ srv[r] \in ServerType
          /\ up \in [Streams -> Seq(UpFrames)] /\ active \in {0} \cup Streams
      BY <3>1 DEF Types, StreamTypes
    <3> DEFINE w == Frame("welcome", 0, 0, srv[r].epoch)
    <3>3. /\ srv' = [q \in Streams |->
               IF q = r THEN [srv[r] EXCEPT !.pc = "open", !.index = FirstIndex(srv[r])]
               ELSE IF q = active THEN Ended(srv[q]) ELSE srv[q]]
          /\ up' = [q \in Streams |-> IF q = active THEN <<>> ELSE up[q]]
          /\ active' = r /\ Deliver(r, w) /\ UNCHANGED durable
      BY <2>b DEF Install
    <3>4. w \in DownFrames /\ w.kind = "welcome" /\ w.seq = 0 /\ w.kind # "command"
      <4>1. w = [kind |-> "welcome", seq |-> 0, op |-> 0, val |-> srv[r].epoch]
        BY DEF Frame
      <4>2. srv[r].epoch \in Nat /\ "welcome" \in ServerFrames /\ 0 \in Places
        BY <3>2 DEF ServerType, ServerFrames, Places
      <4> QED  BY SMT, <4>1, <4>2 DEF DownFrames
    <3> HIDE DEF w
    <3>5. active # r /\ (active # 0 => Begun(active) /\ Numbered(active) /\ active \in Streams)
      <4>1. active # 0 => Reading(active) \/ srv[active].pc = "closing"
        BY <3>1 DEF Epochs
      <4>2. r # 0 /\ (active # 0 => active \in Streams)
        BY SMT, <3>2 DEF Streams
      <4>3. active # r
        BY <2>0, <4>1, <4>2
      <4> QED  BY <4>1, <4>2, <4>3 DEF Begun, Numbered, Accepted
    <3>6. /\ srv'[r] = [srv[r] EXCEPT !.pc = "open", !.index = FirstIndex(srv[r])] /\ up'[r] = up[r]
          /\ active # 0 => srv'[active] = Ended(srv[active]) /\ up'[active] = <<>>
          /\ \A q \in Streams \ {r, active} : srv'[q] = srv[q] /\ up'[q] = up[q]
      BY <3>3, <3>5
    <3>7. /\ down' \in [Streams -> Seq(DownFrames)]
          /\ down'[r] = (IF OnStream(r) THEN Append(down[r], w) ELSE down[r])
          /\ \A q \in Streams \ {r} : down'[q] = down[q]
          /\ \A o : Carried(o)' => Carried(o)
      BY <3>1, <3>3, <3>4, <1>DeliverIs
    <3>8. /\ row' = row /\ journal' = journal /\ bound' = bound
          /\ RowTypes' /\ JournalTypes' /\ RowInv' /\ \A q \in Streams : Journalled(q)
      BY <3>3, DurableKept
    <3>9. /\ srv'[r].pc = "open" /\ srv'[r].index = FirstIndex(srv[r]) /\ srv'[r].epoch = srv[r].epoch
          /\ srv'[r].cred = srv[r].cred /\ srv'[r].inbox = srv[r].inbox /\ srv'[r].pending = srv[r].pending
          /\ srv'[r].sent = srv[r].sent /\ srv'[r].got = srv[r].got
      BY <3>2, <3>6 DEF ServerType
    <3>10. FirstIndex(srv[r]) \in Nat /\ FirstIndex(srv[r]) >= 1 /\ (FirstIndex(srv[r]) <= Len(Plan) => FirstIndex(srv[r]) = 1)
      BY SMT, PlanIs DEF FirstIndex
    <3>11. srv'[r] \in ServerType
      <4>1. "open" \in ServerStates
        BY DEF ServerStates, ServingStates
      <4> QED  BY <3>2, <3>6, <3>10, <4>1 DEF ServerType
    <3>12. Reading(r)' /\ Accepted(r)' /\ Begun(r)'
      BY <3>9 DEF Reading, Accepted, Begun
    <3>13. active # 0 => /\ srv'[active] \in ServerType /\ srv'[active].pc = "closing"
                         /\ srv'[active].epoch = srv[active].epoch /\ srv'[active].inbox = <<>>
                         /\ srv'[active].pending = 0 /\ srv'[active].sent = 0 /\ srv'[active].got = 0
      BY SMT, <3>2, <3>5, <3>6, <1>EndedIs
    <3>14. StreamTypes'
      <4>1. \A q \in Streams : srv'[q] \in ServerType /\ up'[q] \in Seq(UpFrames)
        <5>1. <<>> \in Seq(UpFrames)
          BY EmptyIs
        <5>2. ASSUME NEW q \in Streams, q = active PROVE q # 0
          BY SMT DEF Streams
        <5> QED  BY <3>2, <3>6, <3>11, <3>13, <5>1, <5>2
      <4>2. srv' \in [Streams -> ServerType] /\ up' \in [Streams -> Seq(UpFrames)]
        BY <3>3, <4>1
      <4> QED  BY <3>3, <3>7, <4>2 DEF StreamTypes
    <3>15. PICK T \in SUBSET Streams : T = {q \in Streams : q = r \/ q = active}
      OBVIOUS
    <3>16. ASSUME NEW v \in Streams, v = active, v # r
           PROVE  /\ ~Reading(v)' /\ ~Accepted(v)' /\ Begun(v)' /\ Numbered(v) /\ Begun(v)
                  /\ srv'[v].epoch = srv[v].epoch /\ StreamInv(v)'
      <4>0. v # 0
        BY SMT, <3>16 DEF Streams
      <4>1. /\ srv'[v].pc = "closing" /\ srv'[v].epoch = srv[v].epoch /\ srv'[v].inbox = <<>>
            /\ srv'[v].pending = 0 /\ srv'[v].sent = 0 /\ srv'[v].got = 0 /\ up'[v] = <<>>
            /\ down'[v] = down[v]
        BY <3>6, <3>7, <3>13, <3>16, <4>0
      <4>2. ~Reading(v)' /\ ~Accepted(v)' /\ Begun(v)'
        BY <4>1 DEF Reading, Accepted, Begun
      <4>3. Begun(v) /\ Numbered(v) /\ StreamInv(v)
        BY <3>1, <3>5, <3>16, <4>0
      <4>4. srv[v].pc # "none"
        BY <4>3 DEF Begun, Reading
      <4>5. ~(v > agent.stream)
        BY <4>3, <4>4 DEF StreamInv, Lifecycle
      <4>6. StreamInv(v)'
        BY <3>1, <3>8, <4>1, <4>2, <4>3, <4>5, <1>SilentKept DEF local
      <4> QED  BY <4>1, <4>2, <4>3, <4>6
    <3>17. StreamInv(r)'
      <4>1. /\ srv[r].inbox = <<>> /\ srv[r].pending = 0 /\ srv[r].sent = 0 /\ srv[r].got = 0
            /\ up'[r] = <<>> /\ down[r] = <<>> /\ ~(Serving /\ agent.stream = r) /\ ~(r > agent.stream)
        BY <2>0, <3>1, <3>6 DEF StreamInv, Lifecycle
      <4>2. /\ srv'[r].inbox = <<>> /\ srv'[r].pending = 0 /\ srv'[r].sent = 0 /\ srv'[r].got = 0
        BY <3>9, <4>1
      <4>3. agent' = agent
        BY DEF local
      <4>4. Lifecycle(r)'
        BY <3>7, <3>12, <4>1, <4>3 DEF Lifecycle, OnStream, Serving
      <4>5. \A i \in DOMAIN down'[r] : down'[r][i] = w
        BY SMT, <3>4, <3>7, <4>1, EmptyIs, AppendIs
      <4>6. Counters(r)'
        <5>1. OnStream(r) => agent.out = 0 /\ agent.in = 0
          BY <3>1, <4>1 DEF OnStream, AgentInv, Serving
        <5>2. 0 <= 0 /\ 0 + Len(<<>>) = 0
          BY SMT
        <5> QED  BY <3>4, <4>1, <4>2, <4>3, <4>5, <5>1, <5>2, EmptyIs DEF Counters, OnStream
      <4>7. DownInv(r)' /\ UpInv(r)'
        BY <3>4, <4>1, <4>5, EmptyIs DEF DownInv, UpInv
      <4>8. HandlerInv(r)'
        <5>1. ASSUME srv'[r].index <= Len(Plan), NEW p \in Operations, p < srv'[r].index PROVE FALSE
          BY SMT, <3>9, <3>10, <5>1, PlanIs
        <5> QED  BY <3>9, <3>10, <4>2, <5>1, EmptyIs DEF HandlerInv
      <4> QED  BY <4>4, <4>6, <4>7, <4>8 DEF StreamInv
    <3>18. Epochs'
      <4>1. ASSUME NEW q \in Streams
            PROVE  /\ Numbered(q)' => Numbered(q) /\ srv'[q].epoch = srv[q].epoch
                   /\ Accepted(q)' => Accepted(q) /\ srv'[q].cred = srv[q].cred
        <5>1. CASE q = r
          BY <2>0, <3>9, <5>1 DEF Numbered
        <5>2. CASE q = active /\ q # r
          BY <3>16, <5>2
        <5>3. CASE q # active /\ q # r
          BY <3>6, <5>3 DEF Numbered, Accepted, Reading
        <5> QED  BY <5>1, <5>2, <5>3
      <4>2. (Reading(active) \/ srv[active].pc = "closing")'
        BY <3>3, <3>12 DEF Reading
      <4> QED  BY <3>1, <3>8, <4>1, <4>2, EpochsKept
    <3>19. \A q \in T : StreamInv(q)'
      BY <3>15, <3>16, <3>17
    <3>20. \A q \in Streams \ T : srv'[q] = srv[q] /\ up'[q] = up[q] /\ down'[q] = down[q] /\ Journalled(q)
      BY <3>6, <3>7, <3>8, <3>15
    <3>21. \A q \in T : OnWorker(q) => Begun(q)' /\ ~Reading(q)'
      <4>1. ~OnWorker(r)
        BY <2>0 DEF OnWorker, IInv, CommandInv
      <4> QED  BY <3>15, <3>16, <4>1
    <3> QED  BY <3>7, <3>8, <3>14, <3>18, <3>19, <3>20, <3>21, <1>ServerKept
  <2> QED  BY <2>a, <2>b

  \* The stream's context ends.
<1>LeaveKeeps.
  ASSUME NEW r \in Streams, IInv, UNCHANGED local, Leave(r)
  PROVE  IInv'
  <2> USE <1>LeaveKeeps
  <2>1. CASE srv[r].pc = "hello" /\ Reject(r)
    BY <2>1, <1>RejectKeeps
  <2>2. CASE (srv[r].pc \in {"admitted", "checked"} \/ Reading(r)) /\ Return(r)
    BY <2>2, <1>ReturnKeeps DEF Accepted
  <2> QED  BY <2>1, <2>2 DEF Leave

  \* A handler that goes on serving its connection.
<1>ServingStep.
  ASSUME NEW r \in Streams, NEW s \in ServerType, IInv, UNCHANGED local,
         UNCHANGED <<expired, authorised, active>>, JournalTypes', bound => bound',
         srv' = [srv EXCEPT ![r] = s], s.pc \in ServingStates, Reading(r),
         s.epoch = srv[r].epoch, s.cred = srv[r].cred,
         row' \in RowType, RowInv', row'.epoch = row.epoch, row'.open = row.open, row'.cred = row.cred,
         up' \in [Streams -> Seq(UpFrames)], down' \in [Streams -> Seq(DownFrames)],
         \A q \in Streams \ {r} : up'[q] = up[q] /\ down'[q] = down[q] /\ Journalled(q),
         \A o \in Operations : Carried(o)' => Carried(o) \/ journal[o].outcome = "ABSENT",
         \A o \in Operations : Working(o) => journal'[o] = journal[o],
         \A o \in Operations : journal'[o].outcome = "ABSENT" => journal[o].outcome = "ABSENT",
         StreamInv(r)', OnWorker(r) => s.pending = srv[r].pending /\ (Unanswered(r) => Unanswered(r)')
  PROVE  IInv'
  <2> USE <1>ServingStep
  <2>1. Types /\ Epochs
    BY DEF IInv
  <2>2. srv \in [Streams -> ServerType] /\ srv[r] \in ServerType
    BY <2>1 DEF Types, StreamTypes
  <2>3. /\ srv'[r] = s /\ \A q \in Streams \ {r} : srv'[q] = srv[q]
    BY <2>2
  <2>4. expired' = expired /\ authorised' = authorised /\ active' = active
    OBVIOUS
  <2>5. Reading(r)' /\ Accepted(r)' /\ Begun(r)' /\ Accepted(r)
    BY <2>3 DEF Reading, Accepted, Begun, ServingStates
  <2>6. StreamTypes'
    BY <2>1, <2>2, <2>3, <2>4 DEF Types, StreamTypes
  <2>7. RowTypes'
    BY <2>1, <2>4 DEF Types, RowTypes
  <2>8. Epochs'
    <3>1. ASSUME NEW q \in Streams
          PROVE  /\ Numbered(q)' => Numbered(q) /\ srv'[q].epoch = srv[q].epoch
                 /\ Accepted(q)' => Accepted(q) /\ srv'[q].cred = srv[q].cred
      <4>1. CASE q = r
        BY <2>3, <2>5, <4>1 DEF Numbered
      <4>2. CASE q # r
        BY <2>3, <4>2 DEF Numbered, Accepted, Reading
      <4> QED  BY <4>1, <4>2
    <3>2. active' # 0 => (Reading(active) \/ srv[active].pc = "closing")'
      <4>1. CASE active = r
        BY <2>4, <2>5, <4>1 DEF Reading
      <4>2. CASE active # r /\ active # 0
        <5>1. active \in Streams /\ srv'[active] = srv[active]
          BY <2>1, <2>3, <4>2 DEF Types, StreamTypes
        <5> QED  BY <2>1, <2>4, <4>2, <5>1 DEF Epochs, Reading
      <4> QED  BY <2>4, <4>1, <4>2
    <3> QED  BY <2>1, <3>1, <3>2, EpochsKept
  <2> QED  BY <2>3, <2>5, <2>6, <2>7, <2>8, <1>OneKept

  \* A step of a handler that goes on serving, as ServingKept describes it.
<1>HandlerStep.
  ASSUME NEW r \in Streams, NEW s \in ServerType, IInv, UNCHANGED local,
         UNCHANGED <<expired, authorised, journal, bound, active, up>>,
         srv' = [srv EXCEPT ![r] = s], s.pc \in ServingStates, Reading(r),
         s.epoch = srv[r].epoch, s.cred = srv[r].cred, s.pending = srv[r].pending, s.got = srv[r].got,
         row' \in RowType, RowInv', row'.epoch = row.epoch, row'.open = row.open, row'.cred = row.cred,
         \/ down' = down /\ s.sent = srv[r].sent
         \/ \E f \in DownFrames : /\ f.kind # "command" /\ f.seq = srv[r].sent + 1
                                  /\ s.sent = f.seq /\ Deliver(r, f),
         \/ s.inbox = srv[r].inbox
         \/ srv[r].inbox # <<>> /\ s.inbox = Tail(srv[r].inbox),
         \/ s.index = srv[r].index
         \/ /\ srv[r].pending = 0 /\ s.index = srv[r].index + 1
            /\ srv[r].index \in Operations => journal[srv[r].index].outcome # "ABSENT"
  PROVE  IInv'
  <2> USE <1>HandlerStep
  <2>1. Types /\ StreamInv(r) /\ Epochs
    BY DEF IInv
  <2>2. /\ srv \in [Streams -> ServerType] /\ srv[r] \in ServerType
        /\ up \in [Streams -> Seq(UpFrames)] /\ down \in [Streams -> Seq(DownFrames)]
    BY <2>1 DEF Types, StreamTypes
  <2>3. /\ srv'[r] = s /\ \A q \in Streams \ {r} : srv'[q] = srv[q]
    BY <2>2
  <2>4. expired' = expired /\ authorised' = authorised /\ journal' = journal /\ bound' = bound
        /\ active' = active /\ up' = up
    OBVIOUS
  <2>5. Reading(r)' /\ Accepted(r)' /\ Begun(r)' /\ Accepted(r)
    BY <2>3 DEF Reading, Accepted, Begun, ServingStates
  <2>6. /\ down' \in [Streams -> Seq(DownFrames)]
        /\ \A q \in Streams \ {r} : down'[q] = down[q]
        /\ \A o : Carried(o)' => Carried(o)
        /\ \/ down'[r] = down[r] /\ s.sent = srv[r].sent
           \/ down'[r] = down[r] /\ s.sent = srv[r].sent + 1
           \/ /\ OnStream(r) /\ s.sent = srv[r].sent + 1
              /\ \E f \in DownFrames : /\ f.kind # "command" /\ f.seq = s.sent
                                       /\ down'[r] = Append(down[r], f)
    <3>1. CASE down' = down /\ s.sent = srv[r].sent
      BY <2>2, <3>1 DEF Carried
    <3>2. CASE \E f \in DownFrames : /\ f.kind # "command" /\ f.seq = srv[r].sent + 1
                                     /\ s.sent = f.seq /\ Deliver(r, f)
      <4>1. PICK f \in DownFrames : f.kind # "command" /\ f.seq = srv[r].sent + 1 /\ s.sent = f.seq /\ Deliver(r, f)
        BY <3>2
      <4>2. /\ down' \in [Streams -> Seq(DownFrames)]
            /\ down'[r] = (IF OnStream(r) THEN Append(down[r], f) ELSE down[r])
            /\ \A q \in Streams \ {r} : down'[q] = down[q]
            /\ \A o : Carried(o)' => Carried(o)
        BY <2>1, <4>1, <1>DeliverIs
      <4> QED  BY <4>1, <4>2
    <3> QED  BY <3>1, <3>2
  <2>7. srv[r].sent \in Nat /\ s.sent \in Nat
    BY <2>2 DEF ServerType
  <2>8. srv[r].sent <= s.sent /\ s.sent <= s.sent
    BY SMT, <2>6, <2>7
  <2>9. StreamInv(r)' /\ (Unanswered(r) => Unanswered(r)')
    <3>1. \/ down'[r] = down[r]
          \/ /\ OnStream(r)
             /\ \E f \in DownFrames : /\ f.kind # "command" /\ f.seq <= srv'[r].sent
                                      /\ down'[r] = Append(down[r], f)
      BY <2>3, <2>6, <2>8
    <3>2. srv'[r].sent \in Nat /\ srv[r].sent <= srv'[r].sent /\ up'[r] = up[r]
          /\ srv'[r].epoch = srv[r].epoch /\ srv'[r].pending = srv[r].pending /\ srv'[r].got = srv[r].got
      BY <2>3, <2>4, <2>7, <2>8
    <3>3. \/ srv'[r].inbox = srv[r].inbox
          \/ srv[r].inbox # <<>> /\ srv'[r].inbox = Tail(srv[r].inbox)
      BY <2>3
    <3>4. \/ srv'[r].index = srv[r].index
          \/ /\ srv[r].pending = 0 /\ srv'[r].index = srv[r].index + 1
             /\ srv[r].index \in Operations => journal[srv[r].index].outcome # "ABSENT"
      BY <2>3
    <3> QED  BY <2>4, <2>5, <2>6, <3>1, <3>2, <3>3, <3>4, <1>ServingKept
  <2>10. JournalTypes' /\ \A q \in Streams : Journalled(q)
    BY <2>1, <2>4 DEF Types, JournalTypes, Journalled
  <2>11. /\ UNCHANGED <<expired, authorised, active>> /\ (bound => bound') /\ up' \in [Streams -> Seq(UpFrames)]
         /\ \A q \in Streams \ {r} : up'[q] = up[q] /\ down'[q] = down[q] /\ Journalled(q)
         /\ \A o \in Operations : Carried(o)' => Carried(o) \/ journal[o].outcome = "ABSENT"
         /\ \A o \in Operations : Working(o) => journal'[o] = journal[o]
         /\ \A o \in Operations : journal'[o].outcome = "ABSENT" => journal[o].outcome = "ABSENT"
         /\ OnWorker(r) => s.pending = srv[r].pending /\ (Unanswered(r) => Unanswered(r)')
    BY SMT, <2>2, <2>4, <2>6, <2>9, <2>10
  <2> QED  BY <2>6, <2>9, <2>10, <2>11, <1>ServingStep

  \* The handler takes an acknowledgement and goes on in the plan.
<1>AckKeeps.
  ASSUME NEW r \in Streams, IInv, UNCHANGED local, UNCHANGED <<durable, active, up, down>>,
         Reading(r), srv[r].inbox # <<>>, Head(srv[r].inbox).kind = "ack",
         srv' = [srv EXCEPT ![r] = [Taken(r) EXCEPT !.pending = 0, !.index = @ + 1]]
  PROVE  IInv'
  <2> USE <1>AckKeeps
  <2>1. Types /\ StreamInv(r) /\ CommandInv /\ HandlerInv(r)
    BY DEF IInv, StreamInv
  <2>2. srv \in [Streams -> ServerType] /\ srv[r] \in ServerType
    BY <2>1 DEF Types, StreamTypes
  <2> DEFINE s == [Taken(r) EXCEPT !.pending = 0, !.index = @ + 1]
  <2>3. /\ srv[r].inbox \in Seq(UpFrames) /\ srv[r].index \in Nat /\ srv[r].pc \in ServerStates
    BY <2>2 DEF ServerType
  <2>4. s.pc = srv[r].pc /\ s.epoch = srv[r].epoch /\ s.cred = srv[r].cred /\ s.got = srv[r].got
        /\ s.sent = srv[r].sent /\ s.pending = 0 /\ s.index = srv[r].index + 1 /\ s.inbox = Tail(srv[r].inbox)
    BY <2>2 DEF ServerType, Taken
  <2>5. s \in ServerType
    <3>1. srv[r].index + 1 \in Nat /\ 0 \in Places /\ Tail(srv[r].inbox) \in Seq(UpFrames)
      BY SMT, <2>3, TailIs DEF Places
    <3> QED  BY <2>2, <3>1 DEF ServerType, Taken
  <2> HIDE DEF s
  <2>6. srv' = [srv EXCEPT ![r] = s] /\ srv'[r] = s
    BY <2>2 DEF s
  <2>7. /\ row' = row /\ expired' = expired /\ authorised' = authorised /\ journal' = journal /\ bound' = bound
        /\ RowTypes' /\ JournalTypes' /\ RowInv' /\ \A q \in Streams : Journalled(q)
    BY DurableKept
  <2>8. active' = active /\ up' = up /\ down' = down /\ agent' = agent /\ worker' = worker /\ ledger' = ledger
    BY DEF local
  <2>9. /\ 1 \in DOMAIN srv[r].inbox /\ srv[r].inbox[1].kind = "ack"
        /\ \A j \in DOMAIN s.inbox : j \in Nat /\ j + 1 \in DOMAIN srv[r].inbox /\ j + 1 > 1
                                     /\ s.inbox[j] = srv[r].inbox[j + 1]
    BY SMT, <2>3, <2>4, TailIs
  <2>10. /\ srv[r].pending # 0 /\ journal[srv[r].pending].outcome # "ABSENT" /\ srv[r].pending = srv[r].index
         /\ \A j \in DOMAIN srv[r].inbox : srv[r].inbox[j].kind = "ack" => j = 1
         /\ \A j \in DOMAIN up[r] : up[r][j].op = 0
         /\ srv[r].index <= Len(Plan) =>
              \A p \in Operations : p < srv[r].index => journal[p].outcome # "ABSENT"
    BY <2>1, <2>9 DEF HandlerInv
  <2>11. ~Unanswered(r)
    BY <2>9 DEF Unanswered
  <2>12. ~OnWorker(r)
    BY <2>1, <2>11 DEF CommandInv, OnWorker
  <2>13. Reading(r)' /\ Begun(r)' /\ s.pc \in ServingStates
    BY <2>4, <2>6 DEF Reading, Begun, ServingStates
  <2>14. Lifecycle(r)'
    <3>1. srv[r].pc # "none"
      BY DEF Reading
    <3>2. ~(r > agent.stream)
      BY <2>1, <3>1 DEF StreamInv, Lifecycle
    <3> QED  BY <2>1, <2>8, <2>13, <3>2 DEF StreamInv, Lifecycle, OnStream, Serving
  <2>15. Counters(r)'
    BY <2>1, <2>4, <2>6, <2>8 DEF StreamInv, Counters, OnStream
  <2>16. DownInv(r)'
    BY <2>1, <2>8, <2>11 DEF StreamInv, DownInv
  <2>17. UpInv(r)'
    <3>1. \A i \in DOMAIN up[r] : up[r][i].op = 0 /\ up[r][i].kind \notin Reports
      BY <2>1, <2>10 DEF StreamInv, UpInv
    <3>2. "ack" \in Reports /\ "failure" \in Reports
      BY DEF Reports
    <3> QED  BY <2>8, <3>1, <3>2 DEF UpInv
  <2>18. HandlerInv(r)'
    <3>1. \A i \in DOMAIN s.inbox : s.inbox[i].kind # "ack"
      <4>1. \A j \in Nat : j + 1 > 1 => j + 1 # 1
        BY SMT
      <4> QED  BY <2>9, <2>10, <4>1
    <3>2. ASSUME s.index <= Len(Plan), NEW p \in Operations, p < s.index PROVE journal[p].outcome # "ABSENT"
      <4>1. srv[r].index <= Len(Plan) /\ (p < srv[r].index \/ p = srv[r].index)
        BY SMT, <2>3, <2>4, <3>2, PlanIs
      <4> QED  BY <2>10, <4>1
    <3>3. s.index >= 1
      BY SMT, <2>3, <2>4
    <3> QED  BY <2>4, <2>6, <2>7, <3>1, <3>2, <3>3 DEF HandlerInv
  <2>19. StreamInv(r)'
    BY <2>14, <2>15, <2>16, <2>17, <2>18 DEF StreamInv
  <2>20. \A o \in Operations : Carried(o)' => Carried(o)
    BY <2>8 DEF Carried
  <2> QED  BY <2>1, <2>4, <2>5, <2>6, <2>7, <2>8, <2>12, <2>13, <2>19, <2>20, <1>ServingStep
              DEF Types, StreamTypes, RowTypes

  \* The handler takes a received frame.
<1>HandleKeeps.
  ASSUME NEW r \in Streams, IInv, UNCHANGED local, Handle(r)
  PROVE  IInv'
  <2> USE <1>HandleKeeps
  <2>1. srv[r].pc = "open" /\ srv[r].inbox # <<>> /\ Reading(r) /\ Accepted(r)
    BY DEF Handle, Reading, Accepted
  <2>2. Types
    BY DEF IInv
  <2>3. srv \in [Streams -> ServerType] /\ srv[r] \in ServerType
    BY <2>2 DEF Types, StreamTypes
  <2>4. srv[r].inbox \in Seq(UpFrames) /\ srv[r].sent \in Nat
    BY <2>3 DEF ServerType
  <2>5. Tail(srv[r].inbox) \in Seq(UpFrames)
    BY <2>1, <2>4, TailIs
  <2>6. CASE Return(r)
    BY <2>1, <2>6, <1>ReturnKeeps
  <2>7. CASE /\ srv' = [srv EXCEPT ![r] = [Taken(r) EXCEPT !.pc = "renew"]]
             /\ UNCHANGED <<durable, active, up, down>>
    <3> DEFINE s == [Taken(r) EXCEPT !.pc = "renew"]
    <3>1. /\ s.pc = "renew" /\ s.epoch = srv[r].epoch /\ s.cred = srv[r].cred /\ s.got = srv[r].got
          /\ s.sent = srv[r].sent /\ s.pending = srv[r].pending /\ s.index = srv[r].index
          /\ s.inbox = Tail(srv[r].inbox)
      BY <2>3 DEF ServerType, Taken
    <3>2. "renew" \in ServerStates /\ "renew" \in ServingStates
      BY DEF ServerStates, ServingStates
    <3>3. s \in ServerType
      BY <2>3, <2>5, <3>2 DEF ServerType, Taken
    <3>4. srv' = [srv EXCEPT ![r] = s] /\ active' = active /\ up' = up /\ down' = down
      BY <2>7
    <3> HIDE DEF s
    <3>5. /\ row' = row /\ expired' = expired /\ authorised' = authorised /\ journal' = journal /\ bound' = bound
          /\ RowTypes' /\ RowInv'
      BY <2>7, DurableKept
    <3> QED  BY <2>1, <3>1, <3>2, <3>3, <3>4, <3>5, <1>HandlerStep DEF RowTypes
  <2>8. CASE /\ Send(r, Taken(r), Frame("receipt", srv[r].sent + 1, 0, 0))
             /\ UNCHANGED durable
    <3> DEFINE f == Frame("receipt", srv[r].sent + 1, 0, 0)
               s == [Taken(r) EXCEPT !.sent = f.seq]
    <3>0. f = [kind |-> "receipt", seq |-> srv[r].sent + 1, op |-> 0, val |-> 0]
      BY DEF Frame
    <3>1. f \in DownFrames /\ f.kind = "receipt" /\ f.kind # "command" /\ f.seq = srv[r].sent + 1 /\ f.seq \in Nat
      <4>1. "receipt" \in ServerFrames /\ 0 \in Places /\ srv[r].sent + 1 \in Nat /\ "receipt" # "command"
        BY SMT, <2>4 DEF ServerFrames, Places
      <4> QED  BY SMT, <3>0, <4>1 DEF DownFrames
    <3>2. srv' = [srv EXCEPT ![r] = s] /\ Deliver(r, f) /\ active' = active /\ up' = up
      BY <2>8 DEF Send
    <3> HIDE DEF f
    <3>3. /\ s.pc = srv[r].pc /\ s.epoch = srv[r].epoch /\ s.cred = srv[r].cred /\ s.got = srv[r].got
          /\ s.sent = f.seq /\ s.pending = srv[r].pending /\ s.index = srv[r].index
          /\ s.inbox = Tail(srv[r].inbox)
      BY <2>3 DEF ServerType, Taken
    <3>4. s \in ServerType /\ "open" \in ServingStates
      <4>1. "open" \in ServingStates
        BY DEF ServingStates
      <4> QED  BY <2>3, <2>5, <3>1, <4>1 DEF ServerType, Taken
    <3> HIDE DEF s
    <3>5. /\ row' = row /\ expired' = expired /\ authorised' = authorised /\ journal' = journal /\ bound' = bound
          /\ RowTypes' /\ RowInv'
      BY <2>8, DurableKept
    <3> QED  BY <2>1, <3>1, <3>2, <3>3, <3>4, <3>5, <1>HandlerStep DEF RowTypes
  <2>9. CASE /\ Head(srv[r].inbox).kind = "ack"
             /\ srv' = [srv EXCEPT ![r] = [Taken(r) EXCEPT !.pending = 0, !.index = @ + 1]]
             /\ UNCHANGED <<durable, active, up, down>>
    BY <2>1, <2>9, <1>AckKeeps
  <2> QED  BY <2>6, <2>7, <2>8, <2>9 DEF Handle

  \* The handler claims the next operation and sends its command.
<1>ClaimKeeps.
  ASSUME NEW r \in Streams, NEW o \in Operations, NEW n \in Nat, IInv, UNCHANGED local,
         Reading(r), srv[r].pending = 0, o = srv[r].index, n = srv[r].sent + 1,
         journal[o].outcome = "ABSENT",
         journal' = [journal EXCEPT ![o] = [outcome |-> "PENDING", epoch |-> srv[r].epoch, seq |-> n]],
         Send(r, [srv[r] EXCEPT !.pending = o], Frame("command", n, o, 0)),
         UNCHANGED <<row, expired, authorised, bound>>
  PROVE  IInv'
  <2> USE <1>ClaimKeeps
  <2>1. Types /\ StreamInv(r) /\ CommandInv /\ LedgerInv /\ RowInv /\ AgentInv /\ WorkerInv
    BY DEF IInv
  <2>2. /\ srv \in [Streams -> ServerType] /\ srv[r] \in ServerType /\ journal \in [Operations -> JournalType]
        /\ up \in [Streams -> Seq(UpFrames)] /\ up[r] \in Seq(UpFrames) /\ down[r] \in Seq(DownFrames)
    BY <2>1 DEF Types, StreamTypes, JournalTypes
  <2>3. /\ srv[r].sent \in Nat /\ srv[r].got \in Nat /\ srv[r].epoch \in Nat /\ srv[r].index \in Nat
    BY <2>2 DEF ServerType
  <2>4. 0 \notin Operations /\ o # 0
    BY PlanIs
  <2> DEFINE f == Frame("command", n, o, 0)
             s == [[srv[r] EXCEPT !.pending = o] EXCEPT !.sent = f.seq]
  <2>5. f = [kind |-> "command", seq |-> n, op |-> o, val |-> 0]
    BY DEF Frame
  <2>6. f \in DownFrames /\ f.kind = "command" /\ f.seq = n /\ f.op = o
    <3>1. "command" \in ServerFrames /\ o \in Places /\ 0 \in Nat
      BY DEF ServerFrames, Places
    <3> QED  BY SMT, <2>5, <3>1 DEF DownFrames
  <2>7. srv' = [srv EXCEPT ![r] = s] /\ Deliver(r, f) /\ active' = active /\ up' = up
    BY DEF Send
  <2> HIDE DEF f
  <2>8. /\ s.pc = srv[r].pc /\ s.epoch = srv[r].epoch /\ s.cred = srv[r].cred /\ s.got = srv[r].got
        /\ s.sent = n /\ s.pending = o /\ s.index = srv[r].index /\ s.inbox = srv[r].inbox
    BY <2>2, <2>6 DEF ServerType
  <2>9. s \in ServerType
    <3>1. o \in Places
      BY DEF Places
    <3> QED  BY <2>2, <2>6, <3>1 DEF ServerType
  <2> HIDE DEF s
  <2>10. /\ srv'[r] = s /\ \A q \in Streams \ {r} : srv'[q] = srv[q]
    BY <2>2, <2>7
  <2>11. /\ down' \in [Streams -> Seq(DownFrames)]
         /\ down'[r] = (IF OnStream(r) THEN Append(down[r], f) ELSE down[r])
         /\ \A q \in Streams \ {r} : down'[q] = down[q]
    BY <2>1, <2>6, <2>7, <1>DeliverIs
  <2>12. /\ journal'[o].outcome = "PENDING" /\ journal'[o].epoch = srv[r].epoch /\ journal'[o].seq = n
         /\ \A p \in Operations \ {o} : journal'[p] = journal[p]
    BY <2>2
  <2>13. JournalTypes'
    <3>1. [outcome |-> "PENDING", epoch |-> srv[r].epoch, seq |-> n] \in JournalType
      BY <2>3 DEF JournalType
    <3> QED  BY <2>1, <2>2, <3>1 DEF Types, JournalTypes
  <2>14. "PENDING" # "ABSENT"
    OBVIOUS
  \* Nothing else of the stream is under way.
  <2>15. \A i \in DOMAIN up[r] : up[r][i].op = 0 /\ up[r][i].kind \notin Reports
    <3>1. SUFFICES ASSUME NEW i \in DOMAIN up[r] PROVE up[r][i].op = 0
      BY <2>1 DEF StreamInv, UpInv
    <3> QED  BY <2>1 DEF StreamInv, UpInv, Awaits
  <2>16. \A i \in DOMAIN srv[r].inbox : srv[r].inbox[i].kind # "ack"
    BY <2>1 DEF StreamInv, HandlerInv
  <2>17. \A i \in DOMAIN down[r] : down[r][i].kind # "command"
    BY <2>1, <2>4 DEF StreamInv, DownInv, Awaits
  <2>18. ~OnWorker(r)
    BY <2>1, <2>4 DEF OnWorker, CommandInv, Awaits
  <2>19. ~Working(o) /\ \A p \in Operations : Working(p) => journal'[p] = journal[p]
    <3>1. \A p \in Operations : Working(p) => journal[p].outcome = "PENDING"
      BY <2>1 DEF Working, CommandInv
    <3> QED  BY <2>12, <2>14, <3>1
  <2>20. OnStream(r) => agent.busy = 0
    BY <2>1, <2>18 DEF OnStream, AgentInv, WorkerInv, Serving, OnWorker
  <2>21. agent' = agent /\ worker' = worker /\ ledger' = ledger
    BY DEF local
  <2>22. Reading(r)' /\ Begun(r)' /\ s.pc \in ServingStates
    BY <2>8, <2>10 DEF Reading, Begun, ServingStates
  <2>23. \A i \in DOMAIN down'[r] :
           \/ i \in DOMAIN down[r] /\ down'[r][i] = down[r][i] /\ down'[r][i].kind # "command"
           \/ OnStream(r) /\ i = Len(down[r]) + 1 /\ down'[r][i] = f
    BY SMT, <2>2, <2>6, <2>11, <2>17, AppendIs
  <2>24. Unanswered(r)'
    BY <2>7, <2>8, <2>10, <2>15, <2>16 DEF Unanswered
  <2>25. Lifecycle(r)'
    <3>1. down'[r] # <<>> => OnStream(r)
      BY <2>1, <2>11 DEF StreamInv, Lifecycle
    <3>2. ~(r > agent.stream)
      <4>1. srv[r].pc # "none"
        BY DEF Reading
      <4> QED  BY <2>1, <4>1 DEF StreamInv, Lifecycle
    <3> QED  BY <2>21, <2>22, <3>1, <3>2 DEF Lifecycle, OnStream, Serving
  <2>26. Counters(r)'
    <3>1. \A m \in Nat : m <= srv[r].sent => m <= n
      BY SMT, <2>3
    <3>2. n <= n
      BY SMT
    <3>3. Counters(r)
      BY <2>1 DEF StreamInv
    <3>4. /\ \A i \in DOMAIN up[r] : up[r][i].val \in Nat
          /\ \A i \in DOMAIN down[r] : down[r][i].seq \in Nat
          /\ agent.in \in Nat
      <4>1. /\ \A i \in DOMAIN up[r] : up[r][i] \in UpFrames
            /\ \A i \in DOMAIN down[r] : down[r][i] \in DownFrames
        BY SMT, <2>2
      <4> QED  BY <2>1, <4>1 DEF UpFrames, DownFrames, Types, AgentTypes, AgentType
    <3>5. \A i \in DOMAIN down'[r] : down'[r][i].seq <= n
      BY <2>6, <2>23, <3>1, <3>2, <3>3, <3>4 DEF Counters
    <3>6. /\ \A i \in DOMAIN up[r] : /\ up[r][i].seq = srv[r].got + i
                                     /\ up[r][i].kind = "heartbeat" => up[r][i].val <= n
          /\ OnStream(r) => agent.out = srv[r].got + Len(up[r]) /\ agent.in <= n
      BY <3>1, <3>3, <3>4 DEF Counters
    <3> QED  BY <2>7, <2>8, <2>10, <2>21, <3>5, <3>6 DEF Counters, OnStream
  <2>27. DownInv(r)'
    <3>1. SUFFICES ASSUME NEW i \in DOMAIN down'[r], down'[r][i].kind = "command", NEW p, p = down'[r][i].op
                   PROVE  /\ p \in Operations /\ journal'[p].outcome = "PENDING" /\ ledger'[p] = "NONE"
                          /\ ~Working(p)' /\ agent'.busy = 0
                          /\ \A j \in DOMAIN down'[r] : down'[r][j].kind = "command" => j = i
                          /\ Awaits(r, p)' /\ journal'[p].seq = down'[r][i].seq /\ Unanswered(r)'
      BY SMT DEF DownInv, Awaits, Working
    <3>2. i = Len(down[r]) + 1 /\ down'[r][i] = f /\ OnStream(r)
      BY <2>23, <3>1
    <3>3. \A j \in DOMAIN down'[r] : down'[r][j].kind = "command" => j = i
      BY <2>23, <3>2
    <3>4. Awaits(r, o)'
      BY <2>8, <2>10, <2>12 DEF Awaits
    <3>5. ledger'[o] = "NONE" /\ ~Working(o)'
      BY <2>1, <2>19, <2>21 DEF LedgerInv, Working
    <3>6. p = o /\ down'[r][i].seq = n
      BY <2>6, <3>1, <3>2
    <3> QED  BY <2>12, <2>20, <2>21, <2>24, <3>2, <3>3, <3>4, <3>5, <3>6
  <2>28. UpInv(r)'
    <3>1. "ack" \in Reports /\ "failure" \in Reports
      BY DEF Reports
    <3> QED  BY <2>7, <2>15, <3>1 DEF UpInv
  <2>29. HandlerInv(r)'
    <3>1. HandlerInv(r)
      BY <2>1 DEF StreamInv
    <3>2. \A p \in Operations : journal[p].outcome # "ABSENT" => journal'[p].outcome # "ABSENT"
      BY <2>12
    <3> QED  BY <2>8, <2>10, <2>16, <3>1, <3>2 DEF HandlerInv
  <2>30. StreamInv(r)'
    BY <2>25, <2>26, <2>27, <2>28, <2>29 DEF StreamInv
  <2>31. ASSUME NEW p \in Operations, Carried(p)' PROVE Carried(p) \/ journal[p].outcome = "ABSENT"
    <3>1. PICK q \in Streams : \E i \in DOMAIN down'[q] : down'[q][i].kind = "command" /\ down'[q][i].op = p
      BY <2>31 DEF Carried
    <3>2. CASE q # r
      BY <2>11, <3>1, <3>2 DEF Carried
    <3>3. CASE q = r
      BY <2>6, <2>23, <3>1, <3>3
    <3> QED  BY <3>2, <3>3
  <2>32. \A q \in Streams : Journalled(q)
    BY <2>12, <2>14 DEF Journalled
  <2>33. RowInv' /\ row' \in RowType
    BY <2>1 DEF RowInv, SupersededIsCapped, Types, RowTypes
  <2>34. \A p \in Operations : journal'[p].outcome = "ABSENT" => journal[p].outcome = "ABSENT"
    BY <2>12
  <2> QED  BY <2>2, <2>7, <2>8, <2>9, <2>11, <2>13, <2>18, <2>19, <2>22, <2>30, <2>31, <2>32,
              <2>33, <2>34, <1>ServingStep

  \* The ticker: the next operation of the plan is skipped, or claimed, or ends
  \* the stream.
<1>TickKeeps.
  ASSUME NEW r \in Streams, IInv, UNCHANGED local, Tick(r)
  PROVE  IInv'
  <2> USE <1>TickKeeps
  <2>1. srv[r].pc = "open" /\ srv[r].pending = 0 /\ srv[r].index <= Len(Plan) /\ Reading(r) /\ Accepted(r)
    BY DEF Tick, Reading, Accepted
  <2>2. Types /\ StreamInv(r)
    BY DEF IInv
  <2>3. srv \in [Streams -> ServerType] /\ srv[r] \in ServerType
    BY <2>2 DEF Types, StreamTypes
  <2>4. srv[r].index \in Nat /\ srv[r].sent \in Nat /\ srv[r].index >= 1
    BY <2>1, <2>2, <2>3 DEF ServerType, StreamInv, HandlerInv
  <2>5. srv[r].index \in Operations /\ srv[r].sent + 1 \in Nat
    BY SMT, <2>1, <2>4, PlanIs
  <2>6. CASE Return(r)
    BY <2>1, <2>6, <1>ReturnKeeps
  <2>7. CASE /\ journal[srv[r].index].outcome = "ACKNOWLEDGED"
             /\ srv' = [srv EXCEPT ![r].index = @ + 1]
             /\ UNCHANGED <<durable, active, up, down>>
    <3> DEFINE s == [srv[r] EXCEPT !.index = @ + 1]
    <3>1. /\ s.pc = srv[r].pc /\ s.epoch = srv[r].epoch /\ s.cred = srv[r].cred /\ s.got = srv[r].got
          /\ s.sent = srv[r].sent /\ s.pending = srv[r].pending /\ s.index = srv[r].index + 1
          /\ s.inbox = srv[r].inbox
      BY <2>3 DEF ServerType
    <3>2. s \in ServerType
      <4>1. srv[r].index + 1 \in Nat
        BY SMT, <2>4
      <4> QED  BY <2>3, <4>1 DEF ServerType
    <3>3. srv' = [srv EXCEPT ![r] = s] /\ active' = active /\ up' = up /\ down' = down
      BY <2>3, <2>7
    <3> HIDE DEF s
    <3>4. /\ row' = row /\ expired' = expired /\ authorised' = authorised /\ journal' = journal /\ bound' = bound
          /\ RowTypes' /\ RowInv'
      BY <2>7, DurableKept
    <3>5. journal[srv[r].index].outcome # "ABSENT" /\ s.pc \in ServingStates
      BY <2>1, <2>7, <3>1 DEF ServingStates
    <3> QED  BY <2>1, <3>1, <3>2, <3>3, <3>4, <3>5, <1>HandlerStep DEF RowTypes
  <2>8. CASE /\ journal[srv[r].index].outcome = "ABSENT"
             /\ journal' = [journal EXCEPT ![srv[r].index] =
                  [outcome |-> "PENDING", epoch |-> srv[r].epoch, seq |-> srv[r].sent + 1]]
             /\ Send(r, [srv[r] EXCEPT !.pending = srv[r].index],
                     Frame("command", srv[r].sent + 1, srv[r].index, 0))
             /\ UNCHANGED <<row, expired, authorised, bound>>
    <3>1. PICK o \in Operations, n \in Nat : o = srv[r].index /\ n = srv[r].sent + 1
      BY <2>5
    <3> QED  BY <2>1, <2>8, <3>1, <1>ClaimKeeps
  <2> QED  BY <2>6, <2>7, <2>8 DEF Tick

  \* The handler's reader takes the first frame: the numbers go on.
<1>CountersTaken.
  ASSUME NEW r \in Streams, Counters(r), Reading(r), up[r] \in Seq(UpFrames), up[r] # <<>>,
         up'[r] = Tail(up[r]), srv[r].got \in Nat, srv'[r].got \in Nat, srv'[r].got = Head(up[r]).seq,
         srv'[r].sent = srv[r].sent, agent' = agent, down'[r] = down[r]
  PROVE  Counters(r)'
  <2> USE <1>CountersTaken
  <2>1. /\ 1 \in DOMAIN up[r] /\ Head(up[r]) = up[r][1] /\ Len(up'[r]) = Len(up[r]) - 1 /\ Len(up[r]) \in Nat
        /\ \A i \in DOMAIN up'[r] : i \in Nat /\ i + 1 \in DOMAIN up[r] /\ up'[r][i] = up[r][i + 1]
    BY SMT, TailIs
  <2>2. srv'[r].got = srv[r].got + 1
    BY <2>1 DEF Counters
  <2>3. ASSUME NEW i \in DOMAIN up'[r]
        PROVE  /\ up'[r][i].seq = srv'[r].got + i
               /\ up'[r][i].kind = "heartbeat" => up'[r][i].val <= srv[r].sent
    <3>1. /\ up[r][i + 1].seq = srv[r].got + (i + 1)
          /\ up[r][i + 1].kind = "heartbeat" => up[r][i + 1].val <= srv[r].sent
      BY <2>1 DEF Counters
    <3>2. srv[r].got + (i + 1) = srv'[r].got + i
      <4>1. srv[r].got + (i + 1) = (srv[r].got + 1) + i
        BY <2>1, <1>Sums
      <4> QED  BY <2>2, <4>1
    <3> QED  BY <2>1, <3>1, <3>2
  <2>4. srv[r].got + Len(up[r]) = srv'[r].got + Len(up'[r])
    <3>1. srv[r].got + Len(up[r]) = (srv[r].got + 1) + (Len(up[r]) - 1)
      BY <2>1, <1>Sums
    <3> QED  BY <2>1, <2>2, <3>1
  <2> QED  BY <2>3, <2>4 DEF Counters, OnStream

  \* Commands on their way down while their entries and their stream stay.
<1>DownKept.
  ASSUME NEW r \in Streams, DownInv(r), agent' = agent, worker' = worker, ledger' = ledger, journal' = journal,
         down'[r] = down[r], srv'[r].pending = srv[r].pending, srv'[r].epoch = srv[r].epoch,
         Reading(r)' <=> Reading(r), Unanswered(r) => Unanswered(r)'
  PROVE  DownInv(r)'
  <2> USE <1>DownKept
  <2>1. \A o : Awaits(r, o)' <=> Awaits(r, o)
    BY DEF Awaits
  <2>2. \A o : Working(o)' <=> Working(o)
    BY DEF Working
  <2>3. ASSUME NEW i \in DOMAIN down'[r], down'[r][i].kind = "command", NEW o, o = down'[r][i].op
        PROVE  /\ o \in Operations /\ journal'[o].outcome = "PENDING" /\ ledger'[o] = "NONE"
               /\ ~Working(o)' /\ agent'.busy = 0
               /\ \A j \in DOMAIN down'[r] : down'[r][j].kind = "command" => j = i
               /\ Reading(r)' => Awaits(r, o)' /\ journal'[o].seq = down'[r][i].seq /\ Unanswered(r)'
    BY <2>1, <2>2, <2>3 DEF DownInv
  <2> QED  BY <2>3 DEF DownInv, Awaits, Working

  \* The reader accepts the next frame.
<1>AcceptKeeps.
  ASSUME NEW r \in Streams, NEW f \in UpFrames, IInv, UNCHANGED local, Reading(r), up[r] # <<>>, f = Head(up[r]),
         srv' = [srv EXCEPT ![r].got = f.seq, ![r].inbox = Append(@, f)],
         up' = [up EXCEPT ![r] = Tail(@)],
         journal' = (IF f.kind \in {"ack", "failure"}
                     THEN [journal EXCEPT ![f.op].outcome = Outcome(f)] ELSE journal),
         bound' = (bound \/ PersistsThread(f)),
         UNCHANGED <<row, expired, authorised, active, down>>
  PROVE  IInv'
  <2> USE <1>AcceptKeeps
  <2>1. Types /\ StreamInv(r) /\ CommandInv /\ RowInv /\ Epochs
    BY DEF IInv
  <2>2. /\ srv \in [Streams -> ServerType] /\ srv[r] \in ServerType /\ journal \in [Operations -> JournalType]
        /\ up \in [Streams -> Seq(UpFrames)] /\ up[r] \in Seq(UpFrames) /\ bound \in BOOLEAN
    BY <2>1 DEF Types, StreamTypes, JournalTypes
  <2>3. /\ srv[r].inbox \in Seq(UpFrames) /\ srv[r].got \in Nat /\ f.seq \in Nat /\ f.op \in Places
    BY <2>2 DEF ServerType, UpFrames
  <2> DEFINE s == [srv[r] EXCEPT !.got = f.seq, !.inbox = Append(@, f)]
  <2>4. /\ s.pc = srv[r].pc /\ s.epoch = srv[r].epoch /\ s.cred = srv[r].cred /\ s.got = f.seq
        /\ s.sent = srv[r].sent /\ s.pending = srv[r].pending /\ s.index = srv[r].index
        /\ s.inbox = Append(srv[r].inbox, f)
    BY <2>2 DEF ServerType
  <2>5. s \in ServerType
    <3>1. Append(srv[r].inbox, f) \in Seq(UpFrames)
      BY <2>3, AppendIs
    <3> QED  BY <2>2, <2>3, <3>1 DEF ServerType
  <2>6. srv' = [srv EXCEPT ![r] = s]
    BY <2>2
  <2> HIDE DEF s
  <2>7. /\ srv'[r] = s /\ \A q \in Streams \ {r} : srv'[q] = srv[q]
    BY <2>2, <2>6
  <2>8. /\ up'[r] = Tail(up[r]) /\ \A q \in Streams \ {r} : up'[q] = up[q]
        /\ up' \in [Streams -> Seq(UpFrames)]
    <3>1. Tail(up[r]) \in Seq(UpFrames)
      BY <2>2, TailIs
    <3> QED  BY <2>2, <3>1
  <2>9. /\ 1 \in DOMAIN up[r] /\ f = up[r][1] /\ Len(up'[r]) = Len(up[r]) - 1 /\ Len(up[r]) \in Nat
        /\ \A i \in DOMAIN up'[r] : i \in Nat /\ i + 1 \in DOMAIN up[r] /\ i + 1 > 1 /\ up'[r][i] = up[r][i + 1]
    BY SMT, <2>2, <2>8, TailIs
  <2>10. /\ agent' = agent /\ worker' = worker /\ ledger' = ledger /\ down' = down /\ active' = active
         /\ row' = row /\ expired' = expired /\ authorised' = authorised
    BY DEF local
  <2>11. Reading(r)' /\ Begun(r)' /\ s.pc \in ServingStates
    BY <2>4, <2>7 DEF Reading, Begun, ServingStates
  <2>12. /\ f.op # 0 => Awaits(r, f.op) /\ f.op \in Operations
         /\ f.kind \in Reports => f.op # 0 /\ ~Working(f.op) /\ ~Carried(f.op)
         /\ f.kind \in {"ack", "failure"} => \A j \in DOMAIN up[r] : j > 1 => up[r][j].op = 0
    <3>1. f.op # 0 => f.op \in Operations
      BY <2>3 DEF Places
    <3> QED  BY <2>1, <2>9, <3>1 DEF StreamInv, UpInv
  <2>13. "ack" \in Reports /\ "failure" \in Reports /\ "thread" \in Reports
         /\ "ack" \in {"ack", "failure"} /\ {"ack", "failure"} \subseteq Reports
    BY DEF Reports
  <2>14. ~Unanswered(r) \/ f.kind \notin Reports
    BY <2>9 DEF Unanswered
  \* What happens to the journal.
  <2>15. f.kind \notin {"ack", "failure"} => journal' = journal
    OBVIOUS
  <2>16. f.kind \in {"ack", "failure"} =>
           /\ f.op \in Operations /\ journal[f.op].outcome = "PENDING"
           /\ journal'[f.op] = [journal[f.op] EXCEPT !.outcome = Outcome(f)]
           /\ Outcome(f) \in {"ACKNOWLEDGED", "UNKNOWN"}
           /\ journal'[f.op].outcome = Outcome(f)
           /\ \A p \in Operations \ {f.op} : journal'[p] = journal[p]
    <3>1. SUFFICES ASSUME f.kind \in {"ack", "failure"}
                   PROVE  /\ f.op \in Operations /\ journal[f.op].outcome = "PENDING"
                          /\ journal'[f.op] = [journal[f.op] EXCEPT !.outcome = Outcome(f)]
                          /\ Outcome(f) \in {"ACKNOWLEDGED", "UNKNOWN"}
                          /\ journal'[f.op].outcome = Outcome(f)
                          /\ \A p \in Operations \ {f.op} : journal'[p] = journal[p]
      OBVIOUS
    <3>2. f.op \in Operations /\ journal[f.op].outcome = "PENDING"
      BY <2>12, <2>13, <3>1 DEF Awaits
    <3>3. Outcome(f) \in {"ACKNOWLEDGED", "UNKNOWN"}
      BY SMT, <3>1 DEF Outcome
    <3>4. journal[f.op] \in JournalType
      BY <2>2, <3>2
    <3>5. journal' = [journal EXCEPT ![f.op].outcome = Outcome(f)]
      BY <3>1
    <3>6. /\ journal'[f.op] = [journal[f.op] EXCEPT !.outcome = Outcome(f)]
          /\ \A p \in Operations \ {f.op} : journal'[p] = journal[p]
      BY <2>2, <3>2, <3>5
    <3>7. journal'[f.op].outcome = Outcome(f)
      BY SMT, <3>4, <3>6 DEF JournalType
    <3> QED  BY <3>2, <3>3, <3>6, <3>7
  <2>17. \A p \in Operations : /\ journal[p].outcome # "ABSENT" => journal'[p].outcome # "ABSENT"
                               /\ journal'[p].outcome = "ABSENT" => journal[p].outcome = "ABSENT"
    <3>1. \A x \in {"ACKNOWLEDGED", "UNKNOWN"} : x # "ABSENT"
      OBVIOUS
    <3>2. "PENDING" # "ABSENT"
      OBVIOUS
    <3> QED  BY <2>15, <2>16, <3>1, <3>2
  <2>18. JournalTypes' /\ (bound => bound') /\ (f.kind = "thread" => bound')
    <3>1. bound' \in BOOLEAN /\ (bound => bound') /\ (f.kind = "thread" => bound')
      BY DEF PersistsThread
    <3>2. CASE f.kind \notin {"ack", "failure"}
      BY <2>2, <2>15, <3>1, <3>2 DEF JournalTypes
    <3>3. CASE f.kind \in {"ack", "failure"}
      <4>1. journal[f.op] \in JournalType /\ f.op \in Operations
        BY <2>2, <2>16, <3>3
      <4>2. Outcome(f) \in {"ABSENT", "PENDING", "ACKNOWLEDGED", "UNKNOWN"}
        BY <2>16, <3>3
      <4>3. [journal[f.op] EXCEPT !.outcome = Outcome(f)] \in JournalType
        BY <4>1, <4>2 DEF JournalType
      <4>4. journal' = [journal EXCEPT ![f.op] = [journal[f.op] EXCEPT !.outcome = Outcome(f)]]
        BY <2>2, <3>3, <4>1
      <4>5. journal' \in [Operations -> JournalType]
        BY <2>2, <4>1, <4>3, <4>4
      <4> QED  BY <3>1, <4>5 DEF JournalTypes
    <3> QED  BY <3>1, <3>2, <3>3
  \* The stream.
  <2>19. Unanswered(r) => Unanswered(r)'
    <3>1. SUFFICES ASSUME Unanswered(r) PROVE Unanswered(r)'
      OBVIOUS
    <3>2. f.kind # "ack"
      BY <2>13, <2>14, <3>1
    <3>3. \A i \in DOMAIN s.inbox : s.inbox[i].kind # "ack"
      BY SMT, <2>3, <2>4, <3>1, <3>2, AppendIs DEF Unanswered
    <3> QED  BY <2>7, <2>9, <3>1, <3>3 DEF Unanswered
  <2>20. Lifecycle(r)'
    <3>1. srv[r].pc # "none"
      BY DEF Reading
    <3>2. ~(r > agent.stream) /\ Lifecycle(r)
      BY <2>1, <3>1 DEF StreamInv, Lifecycle
    <3> QED  BY <2>10, <2>11, <3>2 DEF Lifecycle, OnStream, Serving
  <2>21. Counters(r)'
    <3>1. Counters(r) /\ srv'[r].got = Head(up[r]).seq /\ srv'[r].got \in Nat /\ srv'[r].sent = srv[r].sent /\ down'[r] = down[r]
      BY <2>1, <2>3, <2>4, <2>7, <2>10 DEF StreamInv
    <3> QED  BY <2>2, <2>3, <2>8, <2>10, <3>1, <1>CountersTaken
  <2>22. DownInv(r)'
    <3>1. DownInv(r)
      BY <2>1 DEF StreamInv
    <3>2. CASE \E i \in DOMAIN down[r] : down[r][i].kind = "command"
      <4>1. journal' = journal
        BY <2>13, <2>14, <2>15, <3>1, <3>2 DEF DownInv
      <4>2. /\ down'[r] = down[r] /\ srv'[r].pending = srv[r].pending /\ srv'[r].epoch = srv[r].epoch
            /\ (Reading(r)' <=> Reading(r))
        BY <2>4, <2>7, <2>10, <2>11
      <4> QED  BY <2>10, <2>19, <3>1, <4>1, <4>2, <1>DownKept
    <3>3. CASE \A i \in DOMAIN down[r] : down[r][i].kind # "command"
      BY <2>10, <3>3 DEF DownInv
    <3> QED  BY <3>2, <3>3
  <2>23. UpInv(r)'
    <3>1. CASE f.kind \in {"ack", "failure"}
      <4>1. \A i \in DOMAIN up[r] : up[r][i].op = 0 => up[r][i].kind \notin Reports
        BY <2>1 DEF StreamInv, UpInv
      <4>2. \A i \in DOMAIN up'[r] : up'[r][i].op = 0 /\ up'[r][i].kind \notin Reports
        BY <2>9, <2>12, <3>1, <4>1
      <4> QED  BY <2>13, <4>2 DEF UpInv
    <3>2. CASE f.kind \notin {"ack", "failure"}
      <4>1. journal' = journal
        BY <2>15, <3>2
      <4>2. \A o : (Awaits(r, o)' <=> Awaits(r, o)) /\ (Working(o)' <=> Working(o)) /\ (Carried(o)' <=> Carried(o))
        <5>1. \A o : Awaits(r, o)' <=> Awaits(r, o)
          BY <2>4, <2>7, <4>1 DEF Awaits
        <5>2. \A o : (Working(o)' <=> Working(o)) /\ (Carried(o)' <=> Carried(o))
          BY <2>10 DEF Working, Carried
        <5> QED  BY <5>1, <5>2
      <4>3. ASSUME NEW i \in DOMAIN up'[r], NEW g, g = up'[r][i]
            PROVE  /\ g.op # 0 => Awaits(r, g.op)'
                   /\ g.kind \in Reports => g.op # 0 /\ ~Working(g.op)' /\ ~Carried(g.op)'
                   /\ g.kind = "ack" =>
                        /\ ledger'[g.op] = "DONE" /\ g.val = journal'[g.op].seq
                        /\ Plan[g.op] = "START" =>
                             bound' \/ \E j \in DOMAIN up'[r] : j < i /\ up'[r][j].kind = "thread"
                   /\ g.kind = "failure" => ledger'[g.op] = "FAILED"
                   /\ g.kind \in {"ack", "failure"} => \A j \in DOMAIN up'[r] : j > i => up'[r][j].op = 0
        <5>1. i \in Nat /\ i + 1 \in DOMAIN up[r] /\ g = up[r][i + 1]
          BY <2>9, <4>3
        <5>2. /\ g.op # 0 => Awaits(r, g.op)
              /\ g.kind \in Reports => g.op # 0 /\ ~Working(g.op) /\ ~Carried(g.op)
              /\ g.kind = "ack" =>
                   /\ ledger[g.op] = "DONE" /\ g.val = journal[g.op].seq
                   /\ Plan[g.op] = "START" =>
                        bound \/ \E j \in DOMAIN up[r] : j < i + 1 /\ up[r][j].kind = "thread"
              /\ g.kind = "failure" => ledger[g.op] = "FAILED"
              /\ g.kind \in {"ack", "failure"} => \A j \in DOMAIN up[r] : j > i + 1 => up[r][j].op = 0
          BY <2>1, <5>1 DEF StreamInv, UpInv
        <5>3. ASSUME NEW j \in DOMAIN up[r], j < i + 1, up[r][j].kind = "thread"
              PROVE  bound' \/ \E k \in DOMAIN up'[r] : k < i /\ up'[r][k].kind = "thread"
          <6>1. CASE j = 1
            BY <2>9, <2>18, <5>3, <6>1
          <6>2. CASE j # 1
            <7>1. DOMAIN up[r] = 1..Len(up[r]) /\ DOMAIN up'[r] = 1..Len(up'[r])
              BY SMT, <2>2, <2>8
            <7>2. j - 1 \in DOMAIN up'[r] /\ j - 1 < i /\ (j - 1) + 1 = j
              BY SMT, <2>9, <5>1, <5>3, <6>2, <7>1
            <7>3. up'[r][j - 1].kind = "thread"
              BY <2>9, <5>3, <7>2
            <7> QED  BY <7>2, <7>3
          <6> QED  BY <6>1, <6>2
        <5>4. g.kind = "ack" /\ Plan[g.op] = "START" =>
                bound' \/ \E j \in DOMAIN up'[r] : j < i /\ up'[r][j].kind = "thread"
          BY <2>18, <5>2, <5>3
        <5>5. ASSUME g.kind \in {"ack", "failure"}, NEW j \in DOMAIN up'[r], j > i PROVE up'[r][j].op = 0
          <6>1. j \in Nat /\ j + 1 \in DOMAIN up[r] /\ up'[r][j] = up[r][j + 1]
            BY <2>9
          <6>2. j + 1 > i + 1
            BY SMT, <5>1, <5>5, <6>1
          <6> QED  BY <5>2, <5>5, <6>1, <6>2
        <5> QED  BY <2>10, <4>1, <4>2, <5>2, <5>4, <5>5
      <4> QED  BY <4>3 DEF UpInv, Awaits, Working, Carried
    <3> QED  BY <3>1, <3>2
  <2>24. HandlerInv(r)'
    <3>1. HandlerInv(r)
      BY <2>1 DEF StreamInv
    <3>2. srv[r].pending = 0 \/ srv[r].pending \in Operations
      BY <2>2 DEF ServerType, Places
    <3>3. ASSUME NEW i \in DOMAIN s.inbox, s.inbox[i].kind = "ack"
          PROVE  /\ s.pending # 0 /\ journal'[s.pending].outcome # "ABSENT"
                 /\ \A j \in DOMAIN s.inbox : s.inbox[j].kind = "ack" => j = i
                 /\ \A j \in DOMAIN up'[r] : up'[r][j].op = 0
      <4>1. CASE f.kind = "ack"
        <5>1. f.op # 0 /\ srv[r].pending = f.op /\ journal[f.op].outcome = "PENDING"
          BY <2>12, <2>13, <4>1 DEF Awaits
        <5>2. "PENDING" # "ABSENT"
          OBVIOUS
        <5>3. journal'[s.pending].outcome # "ABSENT"
          BY <2>4, <2>12, <2>17, <5>1, <5>2
        <5>4. \A j \in DOMAIN srv[r].inbox : srv[r].inbox[j].kind # "ack"
          BY <2>9, <3>1, <5>1 DEF HandlerInv
        <5>5. \A j \in DOMAIN s.inbox : s.inbox[j].kind = "ack" => j = Len(srv[r].inbox) + 1
          BY SMT, <2>3, <2>4, <5>4, AppendIs
        <5>6. \A j \in DOMAIN up'[r] : up'[r][j].op = 0
          BY <2>9, <2>12, <2>13, <4>1
        <5> QED  BY <2>4, <3>3, <5>1, <5>3, <5>5, <5>6
      <4>2. CASE f.kind # "ack"
        <5>1. \A j \in DOMAIN s.inbox : s.inbox[j].kind = "ack" =>
                j \in DOMAIN srv[r].inbox /\ srv[r].inbox[j].kind = "ack"
          BY SMT, <2>3, <2>4, <4>2, AppendIs
        <5>2. /\ srv[r].pending # 0 /\ journal[srv[r].pending].outcome # "ABSENT"
              /\ \A j \in DOMAIN srv[r].inbox : srv[r].inbox[j].kind = "ack" => j = i
              /\ \A j \in DOMAIN up[r] : up[r][j].op = 0
          BY <3>1, <3>3, <5>1 DEF HandlerInv
        <5> QED  BY <2>4, <2>9, <2>17, <3>2, <5>1, <5>2
      <4> QED  BY <4>1, <4>2
    <3> QED  BY <2>4, <2>7, <2>17, <3>1, <3>3 DEF HandlerInv
  <2>25. StreamInv(r)'
    BY <2>20, <2>21, <2>22, <2>23, <2>24 DEF StreamInv
  \* Everything else.
  <2>26. ASSUME NEW q \in Streams \ {r} PROVE Journalled(q)
    <3>1. CASE f.kind \notin {"ack", "failure"}
      BY <2>15, <3>1 DEF Journalled
    <3>2. CASE f.kind \in {"ack", "failure"}
      <4>1. ~Carried(f.op) /\ ~Working(f.op) /\ journal[f.op].epoch = srv[r].epoch
        BY <2>12, <2>13, <3>2 DEF Awaits
      <4>2. Reading(q) => srv[q].epoch # srv[r].epoch
        BY <2>1, <2>26 DEF Epochs, Numbered, Accepted
      <4>3. "PENDING" # "ABSENT"
        OBVIOUS
      <4> QED  BY <2>16, <2>17, <3>2, <4>1, <4>2, <4>3 DEF Journalled
    <3> QED  BY <3>1, <3>2
  <2>27. \A o \in Operations : /\ Carried(o)' => Carried(o)
                               /\ Working(o) => journal'[o] = journal[o]
    <3>1. \A o \in Operations : Carried(o)' => Carried(o)
      BY <2>10 DEF Carried
    <3>2. \A o \in Operations : Working(o) => journal'[o] = journal[o]
      BY <2>12, <2>13, <2>15, <2>16
    <3> QED  BY <3>1, <3>2
  <2>28. RowInv' /\ row' \in RowType
    BY <2>1, <2>10 DEF RowInv, SupersededIsCapped, Types, RowTypes
  <2>29. down' \in [Streams -> Seq(DownFrames)]
    BY <2>1, <2>10 DEF Types, StreamTypes
  <2> QED  BY <2>4, <2>5, <2>6, <2>8, <2>10, <2>11, <2>17, <2>18, <2>19, <2>25, <2>26, <2>27,
              <2>28, <2>29, <1>ServingStep

  \* The reader accepts or refuses the next frame.
<1>RecvKeeps.
  ASSUME NEW r \in Streams, IInv, UNCHANGED local, Recv(r)
  PROVE  IInv'
  <2> USE <1>RecvKeeps
  <2>1. up[r] \in Seq(UpFrames) /\ Reading(r) /\ up[r] # <<>>
    BY DEF IInv, Types, StreamTypes, Recv
  <2>2. PICK f \in UpFrames : f = Head(up[r])
    BY <2>1, TailIs
  <2>3. CASE Return(r)
    BY <2>1, <2>3, <1>ReturnKeeps DEF Accepted
  <2>4. CASE ~Return(r)
    BY <2>1, <2>2, <2>4, <1>AcceptKeeps DEF Recv
  <2> QED  BY <2>3, <2>4

  \* A renewal is authorised.
<1>RenewAuthorizeKeeps.
  ASSUME NEW r \in Streams, IInv, UNCHANGED local, RenewAuthorize(r)
  PROVE  IInv'
  <2> USE <1>RenewAuthorizeKeeps
  <2>1. srv[r].pc = "renew" /\ Reading(r) /\ Accepted(r)
    BY DEF RenewAuthorize, Reading, Accepted
  <2>2. Types
    BY DEF IInv
  <2>3. srv \in [Streams -> ServerType] /\ srv[r] \in ServerType /\ row.version \in Nat
    BY <2>2 DEF Types, StreamTypes, RowTypes, RowType
  <2>4. CASE Return(r)
    BY <2>1, <2>4, <1>ReturnKeeps
  <2>5. CASE /\ srv' = [srv EXCEPT ![r].pc = "commit", ![r].grant = row.version]
             /\ UNCHANGED <<durable, active, up, down>>
    <3> DEFINE s == [srv[r] EXCEPT !.pc = "commit", !.grant = row.version]
    <3>1. /\ s.pc = "commit" /\ s.epoch = srv[r].epoch /\ s.cred = srv[r].cred /\ s.got = srv[r].got
          /\ s.sent = srv[r].sent /\ s.pending = srv[r].pending /\ s.index = srv[r].index
          /\ s.inbox = srv[r].inbox
      BY <2>3 DEF ServerType
    <3>2. "commit" \in ServerStates /\ "commit" \in ServingStates
      BY DEF ServerStates, ServingStates
    <3>3. s \in ServerType
      BY <2>3, <3>2 DEF ServerType
    <3>4. srv' = [srv EXCEPT ![r] = s] /\ active' = active /\ up' = up /\ down' = down
      BY <2>3, <2>5
    <3> HIDE DEF s
    <3>5. /\ row' = row /\ expired' = expired /\ authorised' = authorised /\ journal' = journal /\ bound' = bound
          /\ RowTypes' /\ RowInv'
      BY <2>5, DurableKept
    <3> QED  BY <2>1, <3>1, <3>2, <3>3, <3>4, <3>5, <1>HandlerStep DEF RowTypes
  <2> QED  BY <2>4, <2>5 DEF RenewAuthorize

  \* A successor is registered.
<1>RenewCommitKeeps.
  ASSUME NEW r \in Streams, IInv, UNCHANGED local, RenewCommit(r)
  PROVE  IInv'
  <2> USE <1>RenewCommitKeeps
  <2>1. srv[r].pc = "commit" /\ Reading(r) /\ Accepted(r)
    BY DEF RenewCommit, Reading, Accepted
  <2>2. Types /\ RowInv
    BY DEF IInv
  <2>3. srv \in [Streams -> ServerType] /\ srv[r] \in ServerType /\ row \in RowType
    BY <2>2 DEF Types, StreamTypes, RowTypes
  <2>4. CASE Return(r)
    BY <2>1, <2>4, <1>ReturnKeeps
  <2>5. CASE /\ row.latest < MaxCredentials /\ row' = Registered
             /\ srv' = [srv EXCEPT ![r].pc = "reply", ![r].grant = row'.latest]
             /\ UNCHANGED <<expired, authorised, journal, bound, active, up, down>>
    <3>1. /\ row'.open = row.open /\ row'.epoch = row.epoch /\ row'.cred = row.cred
          /\ row'.deadline = (IF row.deadline = "live" THEN "capped" ELSE row.deadline)
          /\ row'.latest = row.latest + 1
      BY <2>3, <2>5 DEF Registered, RowType
    <3>2. row' \in RowType
      <4>1. row.version + 1 \in Nat /\ row.latest + 1 \in 1..MaxCredentials
            /\ (IF row.deadline = "live" THEN "capped" ELSE row.deadline) \in {"none", "live", "capped", "past"}
        BY SMT, <2>3, <2>5, ConnectionConstants DEF RowType
      <4> QED  BY <2>3, <2>5, <4>1 DEF Registered, RowType
    <3>3. RowInv'
      <4>1. row.deadline \in {"none", "live", "capped", "past"}
        BY <2>3 DEF RowType
      <4>2. row.open <=> row.deadline # "none"
        BY <2>2 DEF RowInv
      <4>3. /\ row'.deadline # "none" <=> row.deadline # "none"
            /\ row.deadline # "none" => row'.deadline \in {"capped", "past"}
        BY <3>1, <4>1
      <4> QED  BY <2>2, <3>1, <4>2, <4>3 DEF RowInv, SupersededIsCapped
    <3> DEFINE s == [srv[r] EXCEPT !.pc = "reply", !.grant = row'.latest]
    <3>4. /\ s.pc = "reply" /\ s.epoch = srv[r].epoch /\ s.cred = srv[r].cred /\ s.got = srv[r].got
          /\ s.sent = srv[r].sent /\ s.pending = srv[r].pending /\ s.index = srv[r].index
          /\ s.inbox = srv[r].inbox
      BY <2>3 DEF ServerType
    <3>5. "reply" \in ServerStates /\ "reply" \in ServingStates /\ row'.latest \in Nat
      BY SMT, <3>2, ConnectionConstants DEF ServerStates, ServingStates, RowType
    <3>6. s \in ServerType
      BY <2>3, <3>5 DEF ServerType
    <3>7. srv' = [srv EXCEPT ![r] = s] /\ active' = active /\ up' = up /\ down' = down
          /\ expired' = expired /\ authorised' = authorised /\ journal' = journal /\ bound' = bound
      BY <2>3, <2>5
    <3> HIDE DEF s
    <3> QED  BY <2>1, <3>1, <3>2, <3>3, <3>4, <3>5, <3>6, <3>7, <1>HandlerStep
  <2> QED  BY <2>4, <2>5 DEF RenewCommit

  \* The successor is sent.
<1>RenewReplyKeeps.
  ASSUME NEW r \in Streams, IInv, UNCHANGED local, RenewReply(r)
  PROVE  IInv'
  <2> USE <1>RenewReplyKeeps
  <2>1. srv[r].pc = "reply" /\ Reading(r) /\ Accepted(r)
    BY DEF RenewReply, Reading, Accepted
  <2>2. Types
    BY DEF IInv
  <2>3. srv \in [Streams -> ServerType] /\ srv[r] \in ServerType /\ srv[r].sent \in Nat /\ srv[r].grant \in Nat
    BY <2>2 DEF Types, StreamTypes, ServerType
  <2>4. CASE Return(r)
    BY <2>1, <2>4, <1>ReturnKeeps
  <2>5. CASE /\ Send(r, [srv[r] EXCEPT !.pc = "settle"], Frame("issued", srv[r].sent + 1, 0, srv[r].grant))
             /\ UNCHANGED durable
    <3> DEFINE f == Frame("issued", srv[r].sent + 1, 0, srv[r].grant)
               s == [[srv[r] EXCEPT !.pc = "settle"] EXCEPT !.sent = f.seq]
    <3>0. f = [kind |-> "issued", seq |-> srv[r].sent + 1, op |-> 0, val |-> srv[r].grant]
      BY DEF Frame
    <3>1. f \in DownFrames /\ f.kind # "command" /\ f.seq = srv[r].sent + 1 /\ f.seq \in Nat
      <4>1. "issued" \in ServerFrames /\ 0 \in Places /\ srv[r].sent + 1 \in Nat /\ "issued" # "command"
        BY SMT, <2>3 DEF ServerFrames, Places
      <4> QED  BY SMT, <2>3, <3>0, <4>1 DEF DownFrames
    <3>2. srv' = [srv EXCEPT ![r] = s] /\ Deliver(r, f) /\ active' = active /\ up' = up
      BY <2>5 DEF Send
    <3> HIDE DEF f
    <3>3. /\ s.pc = "settle" /\ s.epoch = srv[r].epoch /\ s.cred = srv[r].cred /\ s.got = srv[r].got
          /\ s.sent = f.seq /\ s.pending = srv[r].pending /\ s.index = srv[r].index
          /\ s.inbox = srv[r].inbox
      BY <2>3 DEF ServerType
    <3>4. "settle" \in ServerStates /\ "settle" \in ServingStates
      BY DEF ServerStates, ServingStates
    <3>5. s \in ServerType
      BY <2>3, <3>1, <3>4 DEF ServerType
    <3> HIDE DEF s
    <3>6. /\ row' = row /\ expired' = expired /\ authorised' = authorised /\ journal' = journal /\ bound' = bound
          /\ RowTypes' /\ RowInv'
      BY <2>5, DurableKept
    <3> QED  BY <2>1, <3>1, <3>2, <3>3, <3>4, <3>5, <3>6, <1>HandlerStep DEF RowTypes
  <2> QED  BY <2>4, <2>5 DEF RenewReply

  \* Every step of AR keeps the invariant.
<1>ServerKeeps.
  ASSUME NEW r \in Streams, IInv, Server(r)
  PROVE  IInv'
  <2> USE <1>ServerKeeps
  <2>1. UNCHANGED local
    BY DEF Server
  <2> QED  BY <2>1, <1>AdmitKeeps, <1>RecheckKeeps, <1>InstallKeeps, <1>FinishKeeps, <1>LeaveKeeps,
              <1>RecvKeeps,
              <1>HandleKeeps, <1>TickKeeps, <1>RenewAuthorizeKeeps, <1>RenewCommitKeeps, <1>RenewReplyKeeps DEF Server
<1> QED  BY <1>EnvironmentKeeps, <1>ServerKeeps

-----------------------------------------------------------------------------
(* Steps of agentd *)

\* A step of agentd leaves the database and the handlers alone.
LEMMA AgentKept ==
  ASSUME IInv, UNCHANGED <<durable, active, srv>>, AgentTypes', AgentInv', WorkerInv', CommandInv',
         LedgerInv', ProcessInv', up' \in [Streams -> Seq(UpFrames)],
         down' \in [Streams -> Seq(DownFrames)], \A q \in Streams : StreamInv(q)'
  PROVE  IInv'
<1>1. active' = active /\ srv' = srv
  OBVIOUS
<1>2. row' = row /\ RowTypes' /\ JournalTypes' /\ RowInv'
  BY DurableKept
<1>3. StreamTypes'
  BY <1>1 DEF IInv, Types, StreamTypes
<1>4. Epochs'
  <2>1. Epochs
    BY DEF IInv
  <2>2. \A q \in Streams : (Numbered(q)' <=> Numbered(q)) /\ (Accepted(q)' <=> Accepted(q))
    BY <1>1 DEF Numbered, Accepted, Reading
  <2>3. active' # 0 => (Reading(active) \/ srv[active].pc = "closing")'
    BY <1>1, <2>1 DEF Epochs, Reading
  <2> QED  BY <1>1, <1>2, <2>1, <2>2, <2>3, EpochsKept
<1> QED  BY <1>2, <1>3, <1>4 DEF IInv, Types

\* Streams that agentd is not on after the step.
LEMMA OffStream ==
  ASSUME NEW q \in Streams, IInv, UNCHANGED durable, srv' = srv, up'[q] = up[q],
         ~OnStream(q)', down'[q] = <<>>, agent'.stream = agent.stream,
         \A o \in Operations : Carried(o)' => Carried(o),
         \A o \in Operations : Working(o)' => Working(o) \/ Carried(o),
         \A o \in Operations : ledger'[o] = ledger[o] \/ Working(o)
  PROVE  StreamInv(q)'
<1>1. journal' = journal /\ bound' = bound
  BY DurableKept
<1>2. Apart(q)
  BY <1>1 DEF Apart
<1> QED  BY <1>2, StreamKept DEF IInv

\* Nothing is on its way down where agentd is not.
LEMMA DownIsOurs ==
  ASSUME IInv, NEW q \in Streams, ~OnStream(q)
  PROVE  down[q] = <<>>
  BY DEF IInv, StreamInv, Lifecycle

\* The worker's command while its stream is not answered.
LEMMA CommandKept ==
  ASSUME IInv, UNCHANGED durable, srv' = srv, ledger' = ledger,
         worker' = worker \/ worker'.stage = "idle",
         \A q \in Streams : Unanswered(q) => Unanswered(q)'
  PROVE  CommandInv'
<1>1. journal' = journal
  BY DurableKept
<1>2. SUFFICES ASSUME worker' = worker, worker.stage # "idle" PROVE CommandInv'
  BY DEF CommandInv
<1>3. PICK o \in Operations, s \in Streams : o = worker.op /\ s = worker.stream
  BY <1>2 DEF IInv, CommandInv
<1>4. CommandInv
  BY DEF IInv
<1>5. (Begun(s)' <=> Begun(s)) /\ (Reading(s)' <=> Reading(s)) /\ (Awaits(s, o)' <=> Awaits(s, o))
  BY <1>1 DEF Begun, Reading, Awaits
<1>6. /\ Begun(s) /\ journal[o].outcome = "PENDING"
      /\ worker.stage = "begin" => ledger[o] = "NONE"
      /\ worker.stage = "ok" => ledger[o] = "DONE"
      /\ worker.stage \in {"wait", "failed"} => ledger[o] = "FAILED"
      /\ Reading(s) => Awaits(s, o) /\ journal[o].seq = worker.seq /\ Unanswered(s)
  BY <1>2, <1>3, <1>4 DEF CommandInv
<1>7. /\ worker'.op = o /\ worker'.stream = s
  BY <1>2, <1>3
<1>8. Reading(s)' => Awaits(s, o)' /\ journal'[o].seq = worker'.seq /\ Unanswered(s)'
  BY <1>1, <1>2, <1>5, <1>6
<1> QED  BY <1>1, <1>2, <1>3, <1>5, <1>6, <1>7, <1>8 DEF CommandInv, Begun, Reading, Awaits, Unanswered

\* The types of agentd's own state.
LEMMA AgentHas ==
  ASSUME IInv
  PROVE  /\ agent \in AgentType /\ worker \in WorkerType /\ gate \in GateType
         /\ proc \in {"none", "starting", "running", "stopped"} /\ agent.failures \in Nat
         /\ agent.out \in Nat /\ agent.in \in Nat /\ agent.busy \in Places /\ agent.beats \in Nat
  BY DEF IInv, Types, AgentTypes, AgentType

-----------------------------------------------------------------------------
(* The answer to a command *)

\* K is the queue A, then the two frames of B, the first at place k, then C.
Joined(K, k, A, B, C) ==
  /\ K \in Seq(AgentFrames) /\ k \in DOMAIN K /\ k \in Nat /\ K[k] = B[1]
  /\ \A i \in DOMAIN K : /\ i \in Nat
                         /\ i < k => i \in 1..Len(A) /\ K[i] = A[i]
                         /\ i > k => K[i] = B[2] \/ (1 \in 1..Len(C) /\ K[i] = C[1])

\* The queue u is s, then t.
Linked(u, s, t) ==
  /\ u \in Seq(AgentFrames) /\ Len(u) = Len(s) + Len(t) /\ DOMAIN u = 1..Len(s) + Len(t)
  /\ \A i \in 1..Len(s) : u[i] = s[i]
  /\ \A i \in 1..Len(t) : u[Len(s) + i] = t[i]

\* The frames of an answer, with the final report at place k.
Answer(w, k) ==
  /\ Reply \in Seq(UpFrames) /\ k \in DOMAIN Reply /\ k \in Nat
  /\ \A i \in DOMAIN Reply :
       /\ i \in Nat /\ Reply[i].seq = agent.out + i
       /\ i < k => Reply[i].kind = "thread" /\ Reply[i].op = w.op
       /\ i > k => /\ Reply[i].kind \in {"heartbeat", "request"} /\ Reply[i].op = 0
                   /\ Reply[i].kind = "heartbeat" => Reply[i].val = agent.in
  /\ Reply[k].op = w.op /\ Reply[k].kind \in {"ack", "failure"}
  /\ Reply[k].kind = "ack" => w.stage = "ok" /\ Reply[k].val = w.seq
  /\ Reply[k].kind = "failure" => w.stage = "failed"
  /\ Reply[k].kind = "ack" /\ Plan[w.op] = "START" =>
       \E j \in DOMAIN Reply : j < k /\ Reply[j].kind = "thread"

\* The queue u is s followed by t.
Follows(u, s, t) ==
  /\ u \in Seq(UpFrames) /\ Len(u) = Len(s) + Len(t) /\ Len(s) \in Nat /\ Len(t) \in Nat
  /\ \A i \in DOMAIN u : \/ i \in DOMAIN s /\ u[i] = s[i]
                        \/ \E j \in DOMAIN t : i = Len(s) + j /\ u[i] = t[j]
  /\ \A j \in DOMAIN t : j \in Nat /\ Len(s) + j \in DOMAIN u /\ u[Len(s) + j] = t[j]
  /\ \A i \in DOMAIN s, j \in DOMAIN t : ~(i > Len(s) + j)
  /\ \A i, j \in DOMAIN t : (Len(s) + i > Len(s) + j => i > j) /\ (i < j => Len(s) + i < Len(s) + j)

\* The reports of a command are numbered, correlated and accepted as AR expects.
LEMMA ReportKeeps == IInv /\ Result => IInv'

  \* A queue of one.
<1>OneIs.
  ASSUME NEW S, NEW e \in S
  PROVE  <<e>> \in Seq(S) /\ Len(<<e>>) = 1 /\ \A i \in 1..Len(<<e>>) : <<e>>[i] = e
  <2> USE <1>OneIs
  <2>1. <<e>> \in Seq(S)
    BY SMT
  <2>2. Len(<<e>>) = 1
    OBVIOUS
  <2>3. \A i \in 1..Len(<<e>>) : <<e>>[i] = e
    BY SMT
  <2> QED  BY <2>1, <2>2, <2>3

  \* A queue of two.
<1>TwoIs.
  ASSUME NEW S, NEW e \in S, NEW g \in S
  PROVE  <<e, g>> \in Seq(S) /\ Len(<<e, g>>) = 2 /\ <<e, g>>[1] = e /\ <<e, g>>[2] = g
  <2> USE <1>TwoIs
  <2>1. <<e, g>> \in Seq(S)
    BY SMT
  <2>2. Len(<<e, g>>) = 2
    OBVIOUS
  <2>3. <<e, g>>[1] = e
    OBVIOUS
  <2>4. <<e, g>>[2] = g
    OBVIOUS
  <2> QED  BY <2>1, <2>2, <2>3, <2>4

  \* The places in three short queues.
<1>Places3.
  \A a, c \in {0, 1} : \A d \in Nat : d = a + 2 =>
    /\ a + 1 \in Nat /\ a + 1 \in 1..d + c /\ a + 1 \in 1..d /\ 1 \in 1..2 /\ 2 \in 1..2
    /\ \A i \in 1..d + c :
         /\ i \in Nat
         /\ \/ i \in 1..a /\ i \in 1..d /\ ~(i > a + 1)
            \/ i = a + 1 /\ ~(i < a + 1) /\ ~(i > a + 1)
            \/ i = a + 2 /\ i \in 1..d /\ ~(i < a + 1)
            \/ i = d + 1 /\ 1 \in 1..c /\ ~(i < a + 1)
  BY SMT

  \* The kinds agentd sends, and the empty queue.
<1>KindsAre.
  /\ Len(<<>>) = 0 /\ 1..0 = {} /\ 0 \in {0, 1} /\ 1 \in {0, 1} /\ 1 + 1 = 2
  /\ "thread" \in AgentFrames /\ "heartbeat" \in AgentFrames /\ "request" \in AgentFrames
  /\ "ack" \in AgentFrames /\ "failure" \in AgentFrames
  BY SMT DEF AgentFrames

  \* Two queues joined.
<1>LinkedIs.
  ASSUME NEW s \in Seq(AgentFrames), NEW t \in Seq(AgentFrames)
  PROVE  Linked(s \o t, s, t)
  BY SMT, <1>LinkedIs, ConcatIs DEF Linked

  \* Three short queues joined.
<1>JoinIs.
  ASSUME NEW A \in Seq(AgentFrames), NEW B \in Seq(AgentFrames), NEW C \in Seq(AgentFrames),
         Len(A) \in {0, 1}, Len(B) = 2, Len(C) \in {0, 1}
  PROVE  Joined(A \o B \o C, Len(A) + 1, A, B, C)
  <2> USE <1>JoinIs
  <2> DEFINE D == A \o B
             K == D \o C
             k == Len(A) + 1
  <2>1. /\ D \in Seq(AgentFrames) /\ Len(D) = Len(A) + Len(B)
        /\ \A i \in 1..Len(A) : D[i] = A[i]
        /\ \A i \in 1..Len(B) : D[Len(A) + i] = B[i]
    BY <1>LinkedIs DEF Linked
  <2> HIDE DEF D
  <2>2. /\ K \in Seq(AgentFrames) /\ DOMAIN K = 1..Len(D) + Len(C)
        /\ \A i \in 1..Len(D) : K[i] = D[i]
        /\ \A i \in 1..Len(C) : K[Len(D) + i] = C[i]
    <3>1. D \in Seq(AgentFrames)
      BY <2>1
    <3> QED  BY <3>1, <1>LinkedIs DEF Linked
  <2> HIDE DEF K
  <2>a. /\ k \in Nat /\ k \in 1..Len(D) + Len(C) /\ k \in 1..Len(D) /\ 1 \in 1..2 /\ 2 \in 1..2
        /\ \A i \in 1..Len(D) + Len(C) :
             /\ i \in Nat
             /\ \/ i \in 1..Len(A) /\ i \in 1..Len(D) /\ ~(i > k)
                \/ i = k /\ ~(i < k) /\ ~(i > k)
                \/ i = Len(A) + 2 /\ i \in 1..Len(D) /\ ~(i < k)
                \/ i = Len(D) + 1 /\ 1 \in 1..Len(C) /\ ~(i < k)
    <3>1. Len(D) \in Nat /\ Len(D) = Len(A) + 2
      BY SMT, <2>1
    <3>2. PICK a \in {0, 1}, c \in {0, 1}, d \in Nat : a = Len(A) /\ c = Len(C) /\ d = Len(D)
      BY <3>1
    <3>3. d = a + 2 /\ k = a + 1
      BY <3>1, <3>2
    <3>4. /\ a + 1 \in Nat /\ a + 1 \in 1..d + c /\ a + 1 \in 1..d /\ 1 \in 1..2 /\ 2 \in 1..2
          /\ \A i \in 1..d + c :
               /\ i \in Nat
               /\ \/ i \in 1..a /\ i \in 1..d /\ ~(i > a + 1)
                  \/ i = a + 1 /\ ~(i < a + 1) /\ ~(i > a + 1)
                  \/ i = a + 2 /\ i \in 1..d /\ ~(i < a + 1)
                  \/ i = d + 1 /\ 1 \in 1..c /\ ~(i < a + 1)
      BY SMT, <3>3, <1>Places3
    <3> HIDE DEF k
    <3> QED  BY <3>2, <3>3, <3>4
  <2>3. /\ k \in Nat /\ k \in 1..Len(D) + Len(C) /\ k \in 1..Len(D) /\ 1 \in 1..Len(B) /\ 2 \in 1..Len(B)
    BY <2>a
  <2>4. K[k] = B[1]
    BY <2>1, <2>2, <2>3
  <2>5. ASSUME NEW i \in DOMAIN K
        PROVE  /\ i \in Nat
               /\ i < k => i \in 1..Len(A) /\ K[i] = A[i]
               /\ i > k => K[i] = B[2] \/ (1 \in 1..Len(C) /\ K[i] = C[1])
    <3>1. i \in 1..Len(D) + Len(C)
      BY <2>2
    <3>2. /\ i \in Nat
          /\ \/ i \in 1..Len(A) /\ i \in 1..Len(D) /\ ~(i > k)
             \/ i = k /\ ~(i < k) /\ ~(i > k)
             \/ i = Len(A) + 2 /\ i \in 1..Len(D) /\ 2 \in 1..Len(B) /\ ~(i < k)
             \/ i = Len(D) + 1 /\ 1 \in 1..Len(C) /\ ~(i < k)
      BY <2>a, <2>3, <3>1
    <3> HIDE DEF k
    <3>3. CASE i \in 1..Len(A) /\ i \in 1..Len(D) /\ ~(i > k)
      BY <2>1, <2>2, <3>2, <3>3
    <3>4. CASE i = Len(A) + 2 /\ i \in 1..Len(D) /\ 2 \in 1..Len(B) /\ ~(i < k)
      BY <2>1, <2>2, <3>2, <3>4
    <3>5. CASE i = Len(D) + 1 /\ 1 \in 1..Len(C) /\ ~(i < k)
      BY <2>2, <3>2, <3>5
    <3> QED  BY <3>2, <3>3, <3>4, <3>5
  <2>6. K = A \o B \o C
    BY DEF K, D
  <2>7. k \in DOMAIN K
    BY <2>2, <2>3
  <2> HIDE DEF k
  <2>8. Joined(K, k, A, B, C)
    BY <2>2, <2>3, <2>4, <2>5, <2>7 DEF Joined
  <2> QED  BY <2>6, <2>8 DEF k

  \* What agentd sends when a command is finished.
<1>ReplyIs.
  ASSUME Types, worker.stage \in {"ok", "failed"}, worker.op \in Operations
  PROVE  \E k \in Nat : Answer(worker, k)
  <2> USE <1>ReplyIs
  <2> DEFINE o == worker.op
             A == IF worker.stage = "ok" /\ Plan[o] = "START" THEN <<"thread">> ELSE <<>>
             x == IF worker.stage = "ok" THEN "ack" ELSE "failure"
             C == IF agent.renewal = "due" THEN <<"request">> ELSE <<>>
             K == A \o <<x, "heartbeat">> \o C
             F(i) == IF K[i] = "heartbeat" THEN Heartbeat(agent.out + i, 0)
                     ELSE Frame(K[i], agent.out + i, IF K[i] = "request" THEN 0 ELSE o,
                                IF K[i] = "ack" THEN worker.seq ELSE 0)
  <2>1. Reply = [i \in DOMAIN K |-> F(i)]
    BY DEF Reply
  <2>2. /\ x \in {"ack", "failure"} /\ (x = "ack" => worker.stage = "ok") /\ (x = "failure" => worker.stage = "failed")
    OBVIOUS
  <2>3. /\ A \in Seq(AgentFrames) /\ Len(A) \in {0, 1} /\ (\A i \in 1..Len(A) : A[i] = "thread")
        /\ (x = "ack" /\ Plan[o] = "START" => Len(A) = 1)
    <3>1. CASE worker.stage = "ok" /\ Plan[o] = "START"
      <4>1. A = <<"thread">>
        BY <3>1
      <4> HIDE DEF A
      <4> QED  BY <4>1, <1>OneIs, <1>KindsAre, EmptyIs
    <3>2. CASE ~(worker.stage = "ok" /\ Plan[o] = "START")
      <4>1. A = <<>>
        BY <3>2
      <4>2. x = "ack" /\ Plan[o] = "START" => FALSE
        BY <2>2, <3>2
      <4> HIDE DEF A, x
      <4> QED  BY <4>1, <4>2, <1>KindsAre, EmptyIs
    <3> QED  BY <3>1, <3>2
  <2>4. C \in Seq(AgentFrames) /\ Len(C) \in {0, 1} /\ \A i \in 1..Len(C) : C[i] = "request"
    <3>1. C = <<"request">> \/ C = <<>>
      OBVIOUS
    <3> HIDE DEF C
    <3>2. CASE C = <<"request">>
      BY <3>2, <1>OneIs, <1>KindsAre
    <3>3. CASE C = <<>>
      BY <3>3, <1>KindsAre, EmptyIs
    <3> QED  BY <3>1, <3>2, <3>3
  <2> HIDE DEF A, x, C
  <2> DEFINE B == <<x, "heartbeat">>
             k == Len(A) + 1
  <2>5. B \in Seq(AgentFrames) /\ Len(B) = 2 /\ B[1] = x /\ B[2] = "heartbeat"
    <3>1. x \in AgentFrames
      BY <2>2, <1>KindsAre
    <3> QED  BY <3>1, <1>TwoIs, <1>KindsAre, EmptyIs
  <2>6. K = A \o B \o C
    OBVIOUS
  <2> HIDE DEF K, B
  <2>7. /\ K \in Seq(AgentFrames) /\ k \in DOMAIN K /\ k \in Nat /\ K[k] = B[1]
        /\ \A i \in DOMAIN K : /\ i \in Nat
                               /\ i < k => i \in 1..Len(A) /\ K[i] = A[i]
                               /\ i > k => K[i] = B[2] \/ (1 \in 1..Len(C) /\ K[i] = C[1])
    <3>0. /\ A \in Seq(AgentFrames) /\ B \in Seq(AgentFrames) /\ C \in Seq(AgentFrames)
          /\ Len(A) \in {0, 1} /\ Len(B) = 2 /\ Len(C) \in {0, 1}
      BY <2>3, <2>4, <2>5
    <3> HIDE DEF A, B, C
    <3>1. Joined(K, k, A, B, C)
      BY <2>6, <3>0, <1>JoinIs
    <3> QED  BY <3>1 DEF Joined
  <2>8. x = "ack" /\ Plan[o] = "START" => k = 2
    BY <2>3, <1>KindsAre
  <2> HIDE DEF k
  <2>9. agent.out \in Nat /\ agent.in \in Nat /\ worker.seq \in Nat /\ o \in Places /\ 0 \in Places
    <3>1. agent.out \in Nat /\ agent.in \in Nat /\ worker.seq \in Nat
      BY DEF Types, AgentTypes, AgentType, WorkerType
    <3> QED  BY <3>1 DEF Places
  <2>10. DOMAIN Reply = DOMAIN K /\ \A i \in DOMAIN K : Reply[i] = F(i)
    BY <2>1
  <2>11. ASSUME NEW i \in DOMAIN K
        PROVE  /\ i \in Nat /\ agent.out + i \in Nat
               /\ K[i] \in {"thread", "ack", "failure", "heartbeat", "request"}
               /\ i < k => K[i] = "thread"
               /\ i = k => K[i] = x
               /\ i > k => K[i] \in {"heartbeat", "request"}
    <3>1. i \in Nat /\ k \in Nat /\ (i < k \/ i = k \/ i > k)
      BY SMT, <2>7
    <3>2. i < k => K[i] = "thread"
      BY <2>3, <2>7
    <3>3. i = k => K[i] = x
      BY <2>5, <2>7
    <3>4. i > k => K[i] \in {"heartbeat", "request"}
      BY <2>4, <2>5, <2>7
    <3>5. agent.out + i \in Nat
      BY <2>9, <3>1, Bounds
    <3> QED  BY <2>2, <3>1, <3>2, <3>3, <3>4, <3>5
  <2>12. ASSUME NEW i \in DOMAIN K
        PROVE  /\ Reply[i] \in UpFrames /\ Reply[i].kind = K[i] /\ Reply[i].seq = agent.out + i
               /\ Reply[i].op = (IF K[i] \in {"heartbeat", "request"} THEN 0 ELSE o)
               /\ K[i] = "heartbeat" => Reply[i].val = agent.in
               /\ K[i] = "ack" => Reply[i].val = worker.seq
    <3>1. K[i] \in AgentFrames /\ agent.out + i \in Nat
      BY <2>11 DEF AgentFrames
    <3>2. CASE K[i] = "heartbeat"
      <4>1. Reply[i] = [kind |-> K[i], seq |-> agent.out + i, op |-> 0, val |-> agent.in]
        BY <2>10, <3>2 DEF Heartbeat, Frame
      <4> QED  BY SMT, <2>9, <3>1, <3>2, <4>1 DEF UpFrames
    <3>3. CASE K[i] # "heartbeat"
      <4> DEFINE p == IF K[i] = "request" THEN 0 ELSE o
                 v == IF K[i] = "ack" THEN worker.seq ELSE 0
      <4>1. Reply[i] = [kind |-> K[i], seq |-> agent.out + i, op |-> p, val |-> v]
        BY <2>10, <3>3 DEF Frame
      <4>2. p \in Places /\ v \in Nat /\ p = (IF K[i] \in {"heartbeat", "request"} THEN 0 ELSE o)
            /\ (K[i] = "ack" => v = worker.seq)
        BY <2>9, <3>3
      <4> HIDE DEF p, v
      <4> QED  BY SMT, <3>1, <3>3, <4>1, <4>2 DEF UpFrames
    <3> QED  BY <3>2, <3>3
  <2>13. Reply \in Seq(UpFrames)
    <3>1. Len(K) \in Nat /\ DOMAIN K = 1..Len(K)
      BY SMT, <2>7
    <3>2. Reply \in [1..Len(K) -> UpFrames]
      BY <2>1, <2>10, <2>12, <3>1
    <3> QED  BY SMT, <3>1, <3>2
  <2>14. ASSUME NEW i \in DOMAIN Reply
         PROVE  /\ i \in Nat /\ Reply[i].seq = agent.out + i
                /\ i < k => Reply[i].kind = "thread" /\ Reply[i].op = worker.op
                /\ i > k => /\ Reply[i].kind \in {"heartbeat", "request"} /\ Reply[i].op = 0
                            /\ Reply[i].kind = "heartbeat" => Reply[i].val = agent.in
    <3>1. i \in DOMAIN K
      BY <2>10
    <3>2. "thread" \notin {"heartbeat", "request"}
      OBVIOUS
    <3> QED  BY <2>11, <2>12, <3>1, <3>2
  <2>15. /\ Reply[k].op = worker.op /\ Reply[k].kind = x /\ (x = "ack" => Reply[k].val = worker.seq)
    <3>1. k \in DOMAIN K /\ K[k] = x
      BY <2>5, <2>7
    <3>2. x \notin {"heartbeat", "request"}
      BY <2>2
    <3> QED  BY <2>12, <3>1, <3>2
  <2>16. x = "ack" /\ Plan[worker.op] = "START" => \E j \in DOMAIN Reply : j < k /\ Reply[j].kind = "thread"
    <3>1. SUFFICES ASSUME x = "ack", Plan[worker.op] = "START"
                   PROVE  \E j \in DOMAIN Reply : j < k /\ Reply[j].kind = "thread"
      OBVIOUS
    <3>2. k = 2
      BY <2>8, <3>1
    <3>3. Len(K) \in Nat /\ DOMAIN K = 1..Len(K)
      BY SMT, <2>7
    <3>4. 1 \in DOMAIN Reply /\ 1 < k
      BY <2>7, <2>10, <3>2, <3>3, Bounds
    <3> QED  BY <2>14, <3>4
  <2>17. k \in Nat /\ k \in DOMAIN Reply
    BY <2>7, <2>10
  <2>18. Answer(worker, k)
    BY <2>2, <2>13, <2>14, <2>15, <2>16, <2>17 DEF Answer
  <2> QED  BY <2>17, <2>18

  \* The places of two queues that are joined.
<1>PlacesAre.
  ASSUME NEW s \in Seq(UpFrames), NEW t \in Seq(UpFrames)
  PROVE  Follows(s \o t, s, t)
  <2> USE <1>PlacesAre
  <2>1. /\ s \o t \in Seq(UpFrames) /\ Len(s \o t) = Len(s) + Len(t)
        /\ DOMAIN (s \o t) = 1..Len(s) + Len(t)
        /\ \A i \in 1..Len(s) : (s \o t)[i] = s[i]
        /\ \A i \in 1..Len(t) : (s \o t)[Len(s) + i] = t[i]
    BY SMT, ConcatIs
  <2>2. Len(s) \in Nat /\ Len(t) \in Nat /\ DOMAIN s = 1..Len(s) /\ DOMAIN t = 1..Len(t)
    BY SMT
  <2>3. \A l, m \in Nat :
          /\ \A j \in 1..m : j \in Nat /\ l + j \in 1..l + m
          /\ \A i \in 1..l, j \in 1..m : ~(i > l + j)
          /\ \A i, j \in 1..m : (l + i > l + j => i > j) /\ (i < j => l + i < l + j)
    BY SMT
  <2>4. ASSUME NEW i \in DOMAIN (s \o t)
        PROVE  \/ i \in DOMAIN s /\ (s \o t)[i] = s[i]
               \/ \E j \in DOMAIN t : i = Len(s) + j /\ (s \o t)[i] = t[j]
    <3>0. i \in 1..Len(s) + Len(t)
      BY <2>1
    <3>1. i \in 1..Len(s) \/ \E j \in 1..Len(t) : i = Len(s) + j
      <4>1. \A l, m \in Nat : \A n \in 1..l + m : n \in 1..l \/ (n - l \in 1..m /\ n = l + (n - l))
        BY SMT
      <4>2. i \in 1..Len(s) \/ (i - Len(s) \in 1..Len(t) /\ i = Len(s) + (i - Len(s)))
        BY <2>2, <3>0, <4>1
      <4> QED  BY <4>2
    <3> QED  BY <2>1, <2>2, <3>1
  <2>5. ASSUME NEW j \in DOMAIN t PROVE j \in Nat /\ Len(s) + j \in DOMAIN (s \o t) /\ (s \o t)[Len(s) + j] = t[j]
    BY <2>1, <2>2, <2>3
  <2>6. /\ \A i \in DOMAIN s, j \in DOMAIN t : ~(i > Len(s) + j)
        /\ \A i, j \in DOMAIN t : (Len(s) + i > Len(s) + j => i > j) /\ (i < j => Len(s) + i < Len(s) + j)
    BY <2>2, <2>3
  <2> QED  BY <2>1, <2>2, <2>4, <2>5, <2>6 DEF Follows

  \* The numbers of the frames after an answer.
<1>CountersAnswered.
  ASSUME NEW a \in Streams, NEW k \in Nat, Counters(a), Reading(a), OnStream(a), Answer(worker, k),
         up[a] \in Seq(UpFrames), up'[a] = up[a] \o Reply, srv' = srv, down' = down, srv[a].got \in Nat,
         agent'.out = agent.out + Len(Reply), agent'.in = agent.in
  PROVE  Counters(a)'
  <2> USE <1>CountersAnswered
  <2> DEFINE l == Len(up[a])
  <2>1. agent.out = srv[a].got + l /\ agent.in <= srv[a].sent
    BY DEF Counters
  <2>2. /\ Len(up'[a]) = l + Len(Reply) /\ l \in Nat /\ Len(Reply) \in Nat
        /\ \A i \in DOMAIN up'[a] :
             \/ i \in DOMAIN up[a] /\ up'[a][i] = up[a][i]
             \/ \E j \in DOMAIN Reply : i = l + j /\ up'[a][i] = Reply[j]
    <3>1. Reply \in Seq(UpFrames)
      BY DEF Answer
    <3>2. Follows(up'[a], up[a], Reply)
      BY <3>1, <1>PlacesAre
    <3> QED  BY <3>2 DEF Follows
  <2> HIDE DEF l
  <2>3. \A g, m, j \in Nat : (g + m) + j = g + (m + j)
    BY SMT
  <2>4. ASSUME NEW i \in DOMAIN up'[a]
        PROVE  /\ up'[a][i].seq = srv[a].got + i
               /\ up'[a][i].kind = "heartbeat" => up'[a][i].val <= srv[a].sent
    <3>1. CASE i \in DOMAIN up[a] /\ up'[a][i] = up[a][i]
      BY <3>1 DEF Counters
    <3>2. ASSUME NEW j \in DOMAIN Reply, i = l + j, up'[a][i] = Reply[j]
          PROVE  /\ up'[a][i].seq = srv[a].got + i
                 /\ up'[a][i].kind = "heartbeat" => up'[a][i].val <= srv[a].sent
      <4>1. j \in Nat /\ Reply[j].seq = agent.out + j
        BY DEF Answer
      <4>2. Reply[j].seq = srv[a].got + i
        <5>1. (srv[a].got + l) + j = srv[a].got + (l + j)
          BY <2>2, <2>3, <4>1
        <5> QED  BY <2>1, <3>2, <4>1, <5>1
      <4>3. j < k \/ j = k \/ j > k
        BY SMT, <4>1
      <4>4. "thread" # "heartbeat" /\ "heartbeat" \notin {"ack", "failure"}
        OBVIOUS
      <4>5. Reply[j].kind = "heartbeat" => Reply[j].val = agent.in
        BY <4>3, <4>4 DEF Answer
      <4> QED  BY <2>1, <3>2, <4>2, <4>5
    <3> QED  BY <2>2, <3>1, <3>2
  <2>5. agent'.out = srv[a].got + Len(up'[a])
    <3>1. (srv[a].got + l) + Len(Reply) = srv[a].got + (l + Len(Reply))
      BY <2>2, <2>3
    <3> QED  BY <2>1, <2>2, <3>1
  <2>6. \A i \in DOMAIN down'[a] : down'[a][i].seq <= srv[a].sent
    BY DEF Counters
  <2> QED  BY <2>1, <2>4, <2>5, <2>6 DEF Counters

  \* The stream of a command that is answered.
<1>AnswerKeeps.
  ASSUME NEW a \in Streams, NEW k \in Nat, IInv, UNCHANGED durable, srv' = srv, ledger' = ledger, down' = down,
         Serving, agent.stream = a, agent'.stream = a, agent'.pc = "serve", worker.stage \in {"ok", "failed"},
         Answer(worker, k), Reading(a), up'[a] = up[a] \o Reply, worker'.stage = "idle",
         agent'.out = agent.out + Len(Reply), agent'.in = agent.in
  PROVE  StreamInv(a)'
  <2> USE <1>AnswerKeeps
  <2>1. Types /\ StreamInv(a) /\ WorkerInv /\ CommandInv
    BY DEF IInv
  <2>2. up[a] \in Seq(UpFrames) /\ srv[a].got \in Nat
    BY <2>1 DEF Types, StreamTypes, ServerType
  <2>3. journal' = journal /\ bound' = bound
    BY DurableKept
  <2>4. OnStream(a) /\ OnStream(a)' /\ Reading(a)' /\ Begun(a)' /\ ~(a > agent'.stream)
    <3>1. OnStream(a) /\ OnStream(a)'
      BY DEF OnStream, Serving
    <3>2. ~(a > a)
      BY SMT DEF Streams
    <3> QED  BY <3>1, <3>2 DEF Reading, Begun
  <2>5. PICK o \in Operations : o = worker.op
    <3>1. worker.stage # "idle"
      OBVIOUS
    <3> QED  BY <2>1, <3>1 DEF CommandInv
  <2>6. /\ worker.stage # "idle" /\ agent.busy = o /\ o # 0 /\ Working(o)
        /\ Awaits(a, o) /\ journal[o].seq = worker.seq /\ Unanswered(a)
        /\ worker.stage = "ok" => ledger[o] = "DONE"
        /\ worker.stage = "failed" => ledger[o] = "FAILED"
    <3>1. worker.stage # "idle" /\ (worker.stage = "failed" => worker.stage \in {"wait", "failed"})
      OBVIOUS
    <3>2. worker.stream = a /\ agent.busy = o
      BY <2>1, <2>5, <3>1 DEF WorkerInv
    <3>3. o # 0
      BY PlanIs
    <3> QED  BY <2>1, <2>5, <3>1, <3>2, <3>3 DEF CommandInv, Working
  <2>7. \A i \in DOMAIN down[a] : down[a][i].kind # "command"
    BY <2>1, <2>6 DEF StreamInv, DownInv
  <2>8. ~Carried(o)'
    <3>1. ASSUME NEW q \in Streams PROVE DownInv(q)
      BY DEF IInv, StreamInv
    <3>2. ~Carried(o)
      BY <2>6, <3>1 DEF Carried, DownInv
    <3> QED  BY <3>2 DEF Carried
  <2>9. \A p : ~Working(p)' /\ (Awaits(a, p)' <=> Awaits(a, p))
    BY <2>3 DEF Working, Awaits
  <2>10. Lifecycle(a)'
    BY <2>4 DEF Lifecycle
  <2>11. Counters(a)'
    BY <2>1, <2>2, <2>4, <1>CountersAnswered DEF StreamInv
  <2>12. DownInv(a)'
    BY <2>7 DEF DownInv
  <2>13. HandlerInv(a)'
    <3>1. HandlerInv(a)
      BY <2>1 DEF StreamInv
    <3> QED  BY <2>3, <2>4, <2>6, <3>1 DEF HandlerInv, Unanswered
  <2> DEFINE l == Len(up[a])
  <2>14. /\ \A i \in DOMAIN up'[a] :
              \/ i \in DOMAIN up[a] /\ up'[a][i] = up[a][i]
              \/ \E j \in DOMAIN Reply : i = l + j /\ up'[a][i] = Reply[j]
         /\ \A j \in DOMAIN Reply : j \in Nat /\ l + j \in DOMAIN up'[a] /\ up'[a][l + j] = Reply[j]
         /\ \A i \in DOMAIN up[a], j \in DOMAIN Reply : ~(i > l + j)
         /\ \A i, j \in DOMAIN Reply : (l + i > l + j => i > j) /\ (i < j => l + i < l + j)
    <3>1. Reply \in Seq(UpFrames)
      BY DEF Answer
    <3>2. Follows(up'[a], up[a], Reply)
      BY <2>2, <3>1, <1>PlacesAre
    <3> QED  BY <3>2 DEF Follows
  <2> HIDE DEF l
  <2>15. ASSUME NEW i \in DOMAIN up'[a], NEW g, g = up'[a][i]
         PROVE  /\ g.op # 0 => Awaits(a, g.op)'
                /\ g.kind \in Reports => g.op # 0 /\ ~Working(g.op)' /\ ~Carried(g.op)'
                /\ g.kind = "ack" =>
                     /\ ledger'[g.op] = "DONE" /\ g.val = journal'[g.op].seq
                     /\ Plan[g.op] = "START" =>
                          bound' \/ \E j \in DOMAIN up'[a] : j < i /\ up'[a][j].kind = "thread"
                /\ g.kind = "failure" => ledger'[g.op] = "FAILED"
                /\ g.kind \in {"ack", "failure"} => \A j \in DOMAIN up'[a] : j > i => up'[a][j].op = 0
    <3>0. /\ "ack" \in Reports /\ "failure" \in Reports /\ "thread" \notin {"ack", "failure"}
          /\ "thread" # "ack" /\ "thread" # "failure"
          /\ \A x \in {"heartbeat", "request"} : x \notin Reports
      BY DEF Reports
    <3>1. CASE i \in DOMAIN up[a] /\ g = up[a][i]
      <4>1. g.kind \notin Reports /\ (g.op # 0 => Awaits(a, g.op))
        BY <2>1, <2>6, <3>1 DEF StreamInv, UpInv, Unanswered
      <4> QED  BY <2>9, <3>0, <4>1
    <3>2. ASSUME NEW j \in DOMAIN Reply, i = l + j, g = Reply[j], j < k
          PROVE  g.kind = "thread" /\ g.op = o
      BY <2>5, <3>2 DEF Answer
    <3>3. ASSUME NEW j \in DOMAIN Reply, i = l + j, g = Reply[j], j > k
          PROVE  g.kind \notin Reports /\ g.op = 0
      BY <3>0, <3>3 DEF Answer
    <3>4. ASSUME i = l + k, g = Reply[k]
          PROVE  /\ g.op = o
                 /\ g.kind = "ack" =>
                      /\ ledger'[o] = "DONE" /\ g.val = journal'[o].seq
                      /\ Plan[o] = "START" => \E j \in DOMAIN up'[a] : j < i /\ up'[a][j].kind = "thread"
                 /\ g.kind = "failure" => ledger'[o] = "FAILED"
                 /\ \A j \in DOMAIN up'[a] : j > i => up'[a][j].op = 0
      <4>1. /\ k \in DOMAIN Reply /\ Reply[k].op = o
            /\ Reply[k].kind = "ack" => worker.stage = "ok" /\ Reply[k].val = worker.seq
            /\ Reply[k].kind = "failure" => worker.stage = "failed"
            /\ Reply[k].kind = "ack" /\ Plan[o] = "START" =>
                 \E j \in DOMAIN Reply : j < k /\ Reply[j].kind = "thread"
            /\ \A j \in DOMAIN Reply : j > k => Reply[j].op = 0
        BY <2>5 DEF Answer
      <4>2. Reply[k].kind = "ack" /\ Plan[o] = "START" =>
              \E j \in DOMAIN up'[a] : j < i /\ up'[a][j].kind = "thread"
        <5>1. SUFFICES ASSUME NEW j \in DOMAIN Reply, j < k, Reply[j].kind = "thread"
                       PROVE  \E m \in DOMAIN up'[a] : m < i /\ up'[a][m].kind = "thread"
          BY <4>1
        <5>2. l + j \in DOMAIN up'[a] /\ up'[a][l + j] = Reply[j] /\ l + j < l + k
          BY <2>14, <4>1, <5>1
        <5> QED  BY <3>4, <5>1, <5>2
      <4>3. \A j \in DOMAIN up'[a] : j > i => up'[a][j].op = 0
        <5>1. ASSUME NEW j \in DOMAIN Reply, l + j > i PROVE Reply[j].op = 0
          BY <2>14, <3>4, <4>1, <5>1
        <5>2. \A j \in DOMAIN up[a] : ~(j > i)
          BY <2>14, <3>4, <4>1
        <5> QED  BY SMT, <2>14, <5>1, <5>2
      <4> QED  BY <2>3, <2>6, <3>4, <4>1, <4>2, <4>3
    <3>5. ASSUME NEW j \in DOMAIN Reply, i = l + j, g = Reply[j] PROVE j < k \/ j = k \/ j > k
      <4>1. j \in Nat
        BY <2>14
      <4> QED  BY SMT, <4>1
    <3>6. CASE g.kind = "thread" /\ g.op = o
      BY <2>6, <2>8, <2>9, <3>0, <3>6
    <3>7. CASE g.kind \notin Reports /\ g.op = 0
      BY <3>0, <3>7
    <3>8. CASE i = l + k /\ g = Reply[k]
      BY <2>6, <2>8, <2>9, <3>4, <3>8
    <3> QED  BY <2>14, <3>1, <3>2, <3>3, <3>5, <3>6, <3>7, <3>8, <2>15
  <2>16. UpInv(a)'
    BY <2>15 DEF UpInv, Awaits, Working, Carried
  <2> QED  BY <2>10, <2>11, <2>12, <2>13, <2>16 DEF StreamInv

  \* agentd reports the result of a command.
<1>ResultKeeps.
  ASSUME IInv, Result
  PROVE  IInv'
  <2> USE <1>ResultKeeps
  <2>1. Types /\ AgentInv /\ WorkerInv /\ CommandInv /\ LedgerInv /\ ProcessInv
    BY DEF IInv
  <2>2. /\ Serving /\ worker.stage \in {"ok", "failed"} /\ Transmit(Reply) /\ worker' = Idle
        /\ agent' = [agent EXCEPT !.busy = 0, !.out = @ + Len(Reply),
                                  !.renewal = IF @ = "due" THEN "asked" ELSE @]
        /\ UNCHANGED <<Kept, srv, down, gate, proc>>
    BY DEF Result
  <2>3. /\ UNCHANGED <<durable, active, srv>> /\ UNCHANGED durable /\ srv' = srv /\ down' = down
        /\ gate' = gate /\ proc' = proc /\ ledger' = ledger /\ effects' = effects /\ handle' = handle
    BY <2>2 DEF Kept
  <2>4. PICK a \in Streams : a = agent.stream /\ OnStream(a)
    <3>1. OnStream(agent.stream)
      BY <2>2 DEF OnStream, Serving
    <3> QED  BY <2>1, <3>1 DEF AgentInv
  <2>5. worker.stage # "idle" /\ worker.op \in Operations
    <3>1. worker.stage # "idle"
      BY <2>2
    <3> QED  BY <2>1, <3>1 DEF CommandInv
  <2>6. PICK k \in Nat : Answer(worker, k)
    BY <2>1, <2>2, <2>5, <1>ReplyIs
  <2>7. Reply \in Seq(UpFrames) /\ Len(Reply) \in Nat
    <3>1. Reply \in Seq(UpFrames)
      BY <2>6 DEF Answer
    <3> QED  BY SMT, <3>1
  <2>8. /\ agent \in AgentType /\ worker'.stage = "idle" /\ worker' \in WorkerType
    <3>1. Idle \in WorkerType /\ Idle.stage = "idle"
      BY SMT, ConnectionConstants DEF Idle, WorkerType, Places
    <3> QED  BY <2>1, <2>2, <3>1 DEF Types, AgentTypes
  <2>9. /\ agent' \in AgentType /\ agent'.pc = agent.pc /\ agent'.stream = agent.stream /\ agent'.in = agent.in
        /\ agent'.busy = 0 /\ agent'.out = agent.out + Len(Reply)
    <3>1. agent.out \in Nat /\ agent.renewal \in {"no", "due", "asked"}
      BY <2>8 DEF AgentType
    <3>2. /\ agent.out + Len(Reply) \in Nat /\ 0 \in Places
          /\ (IF agent.renewal = "due" THEN "asked" ELSE agent.renewal) \in {"no", "due", "asked"}
      BY SMT, <2>7, <3>1 DEF Places
    <3> QED  BY <2>2, <2>8, <3>2 DEF AgentType
  <2>10. AgentTypes'
    BY <2>1, <2>3, <2>8, <2>9 DEF Types, AgentTypes
  <2>11. OnStream(a)' /\ AgentInv' /\ WorkerInv' /\ CommandInv' /\ LedgerInv' /\ ProcessInv'
    <3>1. agent'.pc = "serve"
      BY <2>2, <2>9 DEF Serving
    <3>2. OnStream(a)' /\ agent'.stream \in Streams
      BY <2>4, <2>9, <3>1 DEF OnStream
    <3>3. AgentInv'
      BY <3>1, <3>2 DEF AgentInv, Serving
    <3>4. "idle" \notin {"wait", "ok", "failed"}
      OBVIOUS
    <3>5. WorkerInv' /\ CommandInv'
      BY <2>8, <2>9, <3>4 DEF WorkerInv, CommandInv
    <3>6. journal' = journal
      BY <2>3, DurableKept
    <3>7. LedgerInv'
      BY <2>1, <2>3, <3>6 DEF LedgerInv
    <3>8. "serve" \notin {"dial", "hello"}
      OBVIOUS
    <3>9. ProcessInv'
      BY <2>1, <2>3, <3>1, <3>8 DEF ProcessInv
    <3> QED  BY <3>2, <3>3, <3>5, <3>7, <3>9
  <2>12. /\ up' \in [Streams -> Seq(UpFrames)] /\ \A q \in Streams \ {a} : up'[q] = up[q]
         /\ up'[a] = (IF Reading(a) THEN up[a] \o Reply ELSE up[a])
    <3>1. up \in [Streams -> Seq(UpFrames)] /\ up[a] \in Seq(UpFrames)
      BY <2>1 DEF Types, StreamTypes
    <3>2. up[a] \o Reply \in Seq(UpFrames)
      BY <2>7, <3>1, <1>PlacesAre DEF Follows
    <3>3. up' = [up EXCEPT ![a] = IF Reading(a) THEN up[a] \o Reply ELSE up[a]]
      BY <2>2, <2>4, <3>1 DEF Transmit
    <3> QED  BY <3>1, <3>2, <3>3
  <2>13. \A o : ~Working(o)' /\ (Carried(o)' <=> Carried(o))
    BY <2>3, <2>8 DEF Working, Carried
  <2>14. StreamInv(a)'
    <3>1. CASE Reading(a)
      <4>1. agent'.pc = "serve" /\ up'[a] = up[a] \o Reply /\ agent'.stream = a /\ agent.stream = a
        BY <2>2, <2>4, <2>9, <2>12, <3>1 DEF Serving
      <4> QED  BY <2>2, <2>3, <2>6, <2>8, <2>9, <3>1, <4>1, <1>AnswerKeeps
    <3>2. CASE ~Reading(a)
      <4>1. StreamInv(a) /\ up[a] = <<>> /\ up'[a] = <<>> /\ ~Reading(a)' /\ (Begun(a)' <=> Begun(a))
        BY <2>3, <2>12, <3>2 DEF IInv, StreamInv, Lifecycle, Reading, Begun
      <4>2. agent'.stream = agent.stream /\ agent'.pc = agent.pc
        BY <2>9
      <4>3. Lifecycle(a)'
        BY <2>3, <3>2, <4>1, <4>2 DEF StreamInv, Lifecycle, OnStream, Serving
      <4>4. agent.busy # 0
        <5>1. agent.busy = worker.op
          BY <2>1, <2>2, <2>5 DEF WorkerInv
        <5> QED  BY <2>5, <5>1, PlanIs
      <4>5. DownInv(a)'
        BY <2>3, <4>1, <4>4 DEF StreamInv, DownInv
      <4>6. UpInv(a)' /\ Counters(a)' /\ HandlerInv(a)'
        BY <4>1, EmptyIs DEF UpInv, Counters, HandlerInv
      <4> QED  BY <4>3, <4>5, <4>6 DEF StreamInv
    <3> QED  BY <3>1, <3>2
  <2>15. ASSUME NEW q \in Streams \ {a} PROVE StreamInv(q)'
    <3>1. ~OnStream(q) /\ ~OnStream(q)'
      BY <2>4, <2>9 DEF OnStream
    <3>2. down'[q] = <<>> /\ up'[q] = up[q]
      BY <2>3, <2>12, <3>1, DownIsOurs
    <3> QED  BY <2>3, <2>9, <2>13, <3>1, <3>2, OffStream
  <2>16. \A q \in Streams : StreamInv(q)'
    BY <2>14, <2>15
  <2>17. down' \in [Streams -> Seq(DownFrames)]
    BY <2>1, <2>3 DEF Types, StreamTypes
  <2> QED  BY <2>3, <2>10, <2>11, <2>12, <2>16, <2>17, AgentKept
<1> QED  BY <1>ResultKeeps

-----------------------------------------------------------------------------
(* The worker and the processes *)

\* A step of the worker or of the child leaves the streams alone.
LEMMA WorkKept ==
  ASSUME IInv, UNCHANGED <<durable, srv, active, up, down, agent>>,
         AgentTypes', WorkerInv', CommandInv', LedgerInv', ProcessInv',
         \A o \in Operations : Working(o)' => Working(o),
         \A o \in Operations : ledger'[o] = ledger[o] \/ Working(o)
  PROVE  IInv'
<1>1. /\ UNCHANGED <<durable, active, srv>> /\ UNCHANGED durable /\ srv' = srv /\ up' = up /\ down' = down
      /\ agent' = agent
  OBVIOUS
<1>2. journal' = journal /\ bound' = bound
  BY <1>1, DurableKept
<1>3. AgentInv'
  BY <1>1 DEF IInv, AgentInv, OnStream, Serving
<1>4. \A o : Carried(o)' <=> Carried(o)
  BY <1>1 DEF Carried
<1>5. ASSUME NEW q \in Streams PROVE StreamInv(q)'
  <2>1. Apart(q)
    BY <1>1, <1>2, <1>4 DEF Apart
  <2> QED  BY <2>1, StreamKept DEF IInv
<1>6. up' \in [Streams -> Seq(UpFrames)] /\ down' \in [Streams -> Seq(DownFrames)]
  BY <1>1 DEF IInv, Types, StreamTypes
<1> QED  BY <1>1, <1>3, <1>5, <1>6, AgentKept

\* What the supervision of the child does to the worker and to the ledger: a
\* command that waits is finished with outcome x, or nothing happens.
Finished(x) ==
  /\ worker.stage = "wait" /\ worker' = [worker EXCEPT !.stage = x]
  /\ ledger' = IF x = "ok" THEN [ledger EXCEPT ![worker.op] = "DONE"] ELSE ledger

\* The end of an operation finishes the command that waits for it.
LEMMA ReleasedIs ==
  ASSUME NEW b \in BOOLEAN, IInv, Released(b)
  PROVE  /\ gate' \in GateType
         /\ \/ worker' = worker /\ ledger' = ledger
            \/ \E x \in {"ok", "failed"} : Finished(x)
<1>1. gate' \in GateType
  BY DEF Released, Free, GateType, Places
<1>2. CASE ~Awaited
  BY <1>1, <1>2 DEF Released
<1>3. CASE Awaited
  <2> DEFINE x == IF b THEN "ok" ELSE "failed"
  <2>1. x \in {"ok", "failed"} /\ (x = "ok" <=> b)
    OBVIOUS
  <2>2. /\ worker.stage = "wait" /\ worker.op = gate.op
        /\ worker' = [worker EXCEPT !.stage = x]
        /\ ledger' = IF b THEN [ledger EXCEPT ![gate.op] = "DONE"] ELSE ledger
    BY <1>3 DEF Released, Awaited
  <2> HIDE DEF x
  <2>3. Finished(x)
    BY <2>1, <2>2 DEF Finished
  <2> QED  BY <1>1, <2>1, <2>3
<1> QED  BY <1>2, <1>3

\* The worker and the supervision of the child.
LEMMA WorkKeeps == IInv /\ (Execute \/ Supervise) => IInv'

  \* The worker goes on with its command, or is rid of it.
<1>WorkerStep.
  ASSUME IInv, UNCHANGED <<durable, srv, active, up, down, agent>>, worker.stage # "idle",
         worker'.op = worker.op, worker'.stream = worker.stream, worker'.seq = worker.seq,
         worker'.stage \in {"wait", "ok", "failed"},
         ledger'[worker.op] = (IF worker'.stage = "ok" THEN "DONE" ELSE "FAILED")
  PROVE  CommandInv'
  <2> USE <1>WorkerStep
  <2>1. srv' = srv /\ up' = up /\ UNCHANGED durable
    OBVIOUS
  <2>2. journal' = journal
    BY <2>1, DurableKept
  <2>3. PICK o \in Operations, s \in Streams : o = worker.op /\ s = worker.stream
    BY DEF IInv, CommandInv
  <2>4. /\ Begun(s) /\ journal[o].outcome = "PENDING"
        /\ Reading(s) => Awaits(s, o) /\ journal[o].seq = worker.seq /\ Unanswered(s)
    BY <2>3 DEF IInv, CommandInv
  <2>5. /\ Begun(s)' /\ journal'[o].outcome = "PENDING"
        /\ Reading(s)' => Awaits(s, o)' /\ journal'[o].seq = worker'.seq /\ Unanswered(s)'
    BY <2>1, <2>2, <2>4 DEF Begun, Reading, Awaits, Unanswered
  <2>6. /\ worker'.stage # "begin" /\ (worker'.stage = "ok" => ledger'[o] = "DONE")
        /\ (worker'.stage \in {"wait", "failed"} => ledger'[o] = "FAILED")
    BY <2>3
  <2>7. worker'.op = o /\ worker'.stream = s
    BY <2>3
  <2> QED  BY <2>3, <2>5, <2>6, <2>7 DEF CommandInv, Begun, Reading, Awaits, Unanswered

  \* The worker looks at its command and reserves it in the ledger.
<1>ExecuteKeeps.
  ASSUME IInv, Execute
  PROVE  IInv'
  <2> USE <1>ExecuteKeeps
  <2>1. Types /\ WorkerInv /\ CommandInv /\ LedgerInv /\ ProcessInv
    BY DEF IInv
  <2>2. /\ UNCHANGED <<durable, srv, active, up, down, agent>> /\ UNCHANGED durable /\ agent' = agent /\ proc' = proc
        /\ worker.stage = "begin"
    BY DEF Execute
  <2>3. worker.stage # "idle"
    BY <2>2
  <2>4. PICK o \in Operations : o = worker.op
    BY <2>1, <2>3 DEF CommandInv
  <2>5. ledger[o] = "NONE" /\ journal[o].outcome = "PENDING"
    BY <2>1, <2>2, <2>3, <2>4 DEF CommandInv
  <2>6. /\ agent \in AgentType /\ worker \in WorkerType /\ gate \in GateType
        /\ handle \in BOOLEAN /\ ledger \in [Operations -> {"NONE", "FAILED", "DONE"}]
        /\ effects \in [Operations -> Nat] /\ Idle \in WorkerType /\ Idle.stage = "idle"
    <3>1. Idle \in WorkerType /\ Idle.stage = "idle"
      BY SMT, ConnectionConstants DEF Idle, WorkerType, Places
    <3> QED  BY <2>1, <3>1 DEF Types, AgentTypes
  <2> DEFINE cancelled == ~(Serving /\ agent.stream = worker.stream)
             what == Requested(o)
             stage == IF what \in {"ok", "failed"} THEN what
                      ELSE IF cancelled \/ gate # Free THEN "failed" ELSE "wait"
  <2>7. /\ worker' = IF cancelled THEN Idle ELSE [worker EXCEPT !.stage = stage]
        /\ gate' = IF stage = "wait" THEN [op |-> o, stage |-> what] ELSE gate
        /\ ledger' = [ledger EXCEPT ![o] = IF stage = "ok" THEN "DONE" ELSE "FAILED"]
        /\ effects' = [effects EXCEPT ![o] = @ + 1]
        /\ handle' = (handle \/ (ledger[o] = "NONE" /\ Plan[o] = "START"))
    BY <2>4, <2>5 DEF Execute
  <2>8. what \in {"launch", "turn", "stop", "ok", "failed"}
    BY DEF Requested
  <2> HIDE DEF what
  <2>9. /\ stage \in {"ok", "failed", "wait"}
        /\ stage = "wait" => what \in {"launch", "turn", "stop"} /\ gate = Free
    BY <2>8
  <2> HIDE DEF stage
  <2>10. /\ ledger' \in [Operations -> {"NONE", "FAILED", "DONE"}]
         /\ ledger'[o] = (IF stage = "ok" THEN "DONE" ELSE "FAILED")
         /\ ledger'[o] # "NONE"
         /\ \A p \in Operations \ {o} : ledger'[p] = ledger[p]
    BY <2>6, <2>7
  <2>11. effects[o] = 0 /\ effects'[o] = 1 /\ effects' \in [Operations -> Nat]
         /\ \A p \in Operations \ {o} : effects'[p] = effects[p]
    <3>1. effects[o] = 0
      BY <2>1, <2>5 DEF LedgerInv
    <3> QED  BY SMT, <2>6, <2>7, <3>1
  <2>12. gate' \in GateType
    <3>1. CASE stage = "wait"
      <4>1. gate' = [op |-> o, stage |-> what] /\ o \in Places /\ what \in {"free", "launch", "init", "turn", "stop"}
        BY <2>7, <2>9, <3>1 DEF Places
      <4> QED  BY <4>1 DEF GateType
    <3>2. CASE stage # "wait"
      BY <2>6, <2>7, <3>2
    <3> QED  BY <3>1, <3>2
  <2>13. handle' \in BOOLEAN
    BY <2>7
  <2>14. ASSUME cancelled
         PROVE  /\ worker' \in WorkerType /\ WorkerInv' /\ CommandInv'
                /\ worker'.stage # "idle" => worker'.op = worker.op
    <3>1. worker' = Idle /\ worker'.stage = "idle" /\ worker' \in WorkerType
      BY <2>6, <2>7, <2>14
    <3>2. ~Serving
      BY <2>1, <2>3, <2>14 DEF WorkerInv
    <3>3. "idle" \notin {"wait", "ok", "failed"}
      OBVIOUS
    <3>4. WorkerInv' /\ CommandInv'
      BY <2>2, <3>1, <3>2, <3>3 DEF WorkerInv, CommandInv, Serving
    <3> QED  BY <3>1, <3>4
  <2>15. ASSUME ~cancelled
         PROVE  /\ worker' \in WorkerType /\ WorkerInv' /\ CommandInv'
                /\ worker'.stage # "idle" => worker'.op = worker.op
    <3>1. worker' = [worker EXCEPT !.stage = stage]
      BY <2>7, <2>15
    <3>2. stage \in {"idle", "begin", "wait", "ok", "failed"} /\ stage # "idle" /\ stage \in {"wait", "ok", "failed"}
      BY <2>9
    <3>3. /\ worker' \in WorkerType /\ worker'.op = worker.op /\ worker'.stream = worker.stream
          /\ worker'.seq = worker.seq /\ worker'.stage = stage
      BY <2>6, <3>1, <3>2 DEF WorkerType
    <3>4. WorkerInv'
      BY <2>1, <2>2, <2>3, <2>15, <3>2, <3>3 DEF WorkerInv, Serving
    <3>5. ledger'[worker.op] = (IF worker'.stage = "ok" THEN "DONE" ELSE "FAILED")
      BY <2>4, <2>10, <3>3
    <3>6. CommandInv'
      BY <2>2, <2>3, <3>2, <3>3, <3>5, <1>WorkerStep
    <3> QED  BY <3>2, <3>3, <3>4, <3>6
  <2>16. /\ worker' \in WorkerType /\ WorkerInv' /\ CommandInv'
         /\ worker'.stage # "idle" => worker'.op = worker.op
    BY <2>14, <2>15
  <2>17. AgentTypes'
    BY <2>1, <2>2, <2>10, <2>11, <2>12, <2>13, <2>16 DEF Types, AgentTypes
  <2>18. LedgerInv'
    <3>1. journal' = journal
      BY <2>2, DurableKept
    <3>2. "PENDING" # "ABSENT"
      OBVIOUS
    <3>3. ASSUME NEW p \in Operations
          PROVE  /\ journal'[p].outcome = "ABSENT" => ledger'[p] = "NONE"
                 /\ effects'[p] = IF ledger'[p] = "NONE" THEN 0 ELSE 1
      <4>1. CASE p = o
        BY <2>5, <2>10, <2>11, <3>1, <3>2, <4>1
      <4>2. CASE p # o
        BY <2>1, <2>10, <2>11, <3>1, <4>2 DEF LedgerInv
      <4> QED  BY <4>1, <4>2
    <3> QED  BY <3>3 DEF LedgerInv
  <2>19. ProcessInv'
    <3>1. Free.stage # "init"
      BY DEF Free
    <3> QED  BY <2>1, <2>2, <2>7, <2>9, <3>1 DEF ProcessInv
  <2>20. \A p \in Operations : (Working(p)' => Working(p)) /\ (ledger'[p] = ledger[p] \/ Working(p))
    BY <2>3, <2>4, <2>10, <2>16 DEF Working
  <2> QED  BY <2>2, <2>16, <2>17, <2>18, <2>19, <2>20, WorkKept

  \* Such a step keeps the invariant.
<1>FinishedKeeps.
  ASSUME IInv, UNCHANGED <<durable, srv, active, up, down, agent, handle, effects>>, gate' \in GateType,
         proc' \in {"none", "starting", "running", "stopped"}, ProcessInv',
         \/ worker' = worker /\ ledger' = ledger
         \/ \E x \in {"ok", "failed"} : Finished(x)
  PROVE  IInv'
  <2> USE <1>FinishedKeeps
  <2>1. Types /\ WorkerInv /\ CommandInv /\ LedgerInv
    BY DEF IInv
  <2>2. /\ UNCHANGED <<durable, srv, active, up, down, agent>> /\ UNCHANGED durable /\ agent' = agent
        /\ srv' = srv /\ up' = up /\ handle' = handle /\ effects' = effects
    OBVIOUS
  <2>3. journal' = journal
    BY <2>2, DurableKept
  <2>4. worker \in WorkerType /\ ledger \in [Operations -> {"NONE", "FAILED", "DONE"}]
    BY <2>1 DEF Types, AgentTypes
  <2>5. CASE worker' = worker /\ ledger' = ledger
    <3>1. AgentTypes' /\ WorkerInv' /\ LedgerInv'
      BY <2>1, <2>2, <2>3, <2>5 DEF Types, AgentTypes, WorkerInv, LedgerInv, Serving
    <3>2. \A q \in Streams : Unanswered(q) => Unanswered(q)'
      BY <2>2 DEF Unanswered
    <3>3. CommandInv'
      BY <2>2, <2>5, <3>2, CommandKept
    <3>4. \A p \in Operations : Working(p)' => Working(p)
      BY <2>5 DEF Working
    <3> QED  BY <2>2, <2>5, <3>1, <3>3, <3>4, WorkKept
  <2>6. ASSUME NEW x \in {"ok", "failed"}, Finished(x) PROVE IInv'
    <3>1. /\ worker.stage = "wait" /\ worker' = [worker EXCEPT !.stage = x]
          /\ ledger' = IF x = "ok" THEN [ledger EXCEPT ![worker.op] = "DONE"] ELSE ledger
      BY <2>6 DEF Finished
    <3>2. /\ worker.stage # "idle" /\ worker.stage \in {"wait", "failed"} /\ worker.stage \in {"wait", "ok", "failed"}
          /\ x \in {"idle", "begin", "wait", "ok", "failed"} /\ x # "idle" /\ x \in {"wait", "ok", "failed"}
      BY <3>1
    <3>3. /\ worker' \in WorkerType /\ worker'.op = worker.op /\ worker'.stream = worker.stream
          /\ worker'.seq = worker.seq /\ worker'.stage = x
      BY <2>4, <3>1, <3>2 DEF WorkerType
    <3>4. PICK o \in Operations : o = worker.op
      BY <2>1, <3>2 DEF CommandInv
    <3>5. ledger[o] = "FAILED"
      BY <2>1, <3>2, <3>4 DEF CommandInv
    <3>6. /\ ledger' \in [Operations -> {"NONE", "FAILED", "DONE"}]
          /\ ledger'[o] = (IF x = "ok" THEN "DONE" ELSE "FAILED")
          /\ \A p \in Operations \ {o} : ledger'[p] = ledger[p]
      BY <2>4, <3>1, <3>4, <3>5
    <3>7. AgentTypes'
      BY <2>1, <2>2, <3>3, <3>6 DEF Types, AgentTypes
    <3>8. WorkerInv'
      BY <2>1, <2>2, <3>2, <3>3 DEF WorkerInv, Serving
    <3>9. CommandInv'
      <4>1. ledger'[worker.op] = (IF worker'.stage = "ok" THEN "DONE" ELSE "FAILED")
        BY <3>3, <3>4, <3>6
      <4> QED  BY <2>2, <3>2, <3>3, <4>1, <1>WorkerStep
    <3>10. LedgerInv'
      <4>1. /\ ledger[o] # "NONE" /\ ledger'[o] # "NONE" 
        BY <3>5, <3>6
      <4>2. ASSUME NEW p \in Operations
            PROVE  /\ journal'[p].outcome = "ABSENT" => ledger'[p] = "NONE"
                   /\ effects'[p] = IF ledger'[p] = "NONE" THEN 0 ELSE 1
        <5>1. /\ journal[p].outcome = "ABSENT" => ledger[p] = "NONE"
              /\ effects[p] = IF ledger[p] = "NONE" THEN 0 ELSE 1
          BY <2>1 DEF LedgerInv
        <5>2. CASE p = o
          BY <2>2, <2>3, <4>1, <5>1, <5>2
        <5>3. CASE p # o
          BY <2>2, <2>3, <3>6, <5>1, <5>3
        <5> QED  BY <5>2, <5>3
      <4> QED  BY <4>2 DEF LedgerInv
    <3>11. \A p \in Operations : (Working(p)' => Working(p)) /\ (ledger'[p] = ledger[p] \/ Working(p))
      BY <3>2, <3>3, <3>4, <3>6 DEF Working
    <3> QED  BY <2>2, <3>7, <3>8, <3>9, <3>10, <3>11, WorkKept
  <2> QED  BY <2>5, <2>6

  \* The child and the operations on it.
<1>SuperviseKeeps.
  ASSUME IInv, Supervise
  PROVE  IInv'
  <2> USE <1>SuperviseKeeps
  <2>1. Types /\ ProcessInv /\ WorkerInv
    BY DEF IInv
  <2>2. /\ UNCHANGED <<durable, srv, active, up, down, agent, handle, effects>> /\ agent' = agent
        /\ gate \in GateType /\ proc \in {"none", "starting", "running", "stopped"}
    BY <2>1 DEF Supervise, Types, AgentTypes
  <2>3. /\ \A p \in {"none", "stopped"} : p # "starting" /\ p # "running" /\ p \in {"none", "starting", "running", "stopped"}
        /\ "stopped" \in {"none", "stopped"}
    OBVIOUS
  <2>4. CASE Launch
    <3>1. CASE Released(FALSE) /\ proc' \in {"none", "stopped"}
      <4>1. ProcessInv' /\ proc' \in {"none", "starting", "running", "stopped"}
        BY <2>3, <3>1 DEF ProcessInv
      <4>2. FALSE \in BOOLEAN
        OBVIOUS
      <4> QED  BY <2>2, <3>1, <4>1, <4>2, ReleasedIs, <1>FinishedKeeps
    <3>2. CASE proc' = "starting" /\ gate' = [gate EXCEPT !.stage = "init"] /\ UNCHANGED <<worker, ledger>>
      <4>1. gate' \in GateType /\ gate'.stage = "init"
        BY <2>2, <3>2 DEF GateType
      <4>2. ProcessInv' /\ proc' \in {"none", "starting", "running", "stopped"}
        BY <3>2, <4>1 DEF ProcessInv
      <4> QED  BY <2>2, <3>2, <4>1, <4>2, <1>FinishedKeeps
    <3> QED  BY <2>4, <3>1, <3>2 DEF Launch
  <2>5. ASSUME Released(FALSE), proc' = "stopped" PROVE IInv'
    <3>1. ProcessInv' /\ proc' \in {"none", "starting", "running", "stopped"}
      BY <2>3, <2>5 DEF ProcessInv
    <3>2. FALSE \in BOOLEAN
      OBVIOUS
    <3> QED  BY <2>2, <2>5, <3>1, <3>2, ReleasedIs, <1>FinishedKeeps
  <2>6. CASE Initialized
    <3>1. CASE Awaited /\ Released(TRUE) /\ proc' = "running"
      <4>1. agent.pc = "serve"
        <5>1. worker.stage \in {"wait", "ok", "failed"}
          BY <3>1 DEF Awaited
        <5> QED  BY <2>1, <5>1 DEF WorkerInv, Serving
      <4>2. ProcessInv' /\ proc' \in {"none", "starting", "running", "stopped"}
        BY <2>2, <3>1, <4>1 DEF ProcessInv
      <4>3. TRUE \in BOOLEAN
        OBVIOUS
      <4> QED  BY <2>2, <3>1, <4>2, <4>3, ReleasedIs, <1>FinishedKeeps
    <3> QED  BY <2>5, <2>6, <3>1 DEF Initialized
  <2>7. CASE TurnStarted
    <3>1. CASE proc = "running" /\ Released(TRUE) /\ UNCHANGED proc
      <4>1. ProcessInv' /\ proc' \in {"none", "starting", "running", "stopped"}
        BY <2>1, <2>2, <3>1 DEF ProcessInv
      <4>2. TRUE \in BOOLEAN
        OBVIOUS
      <4> QED  BY <2>2, <3>1, <4>1, <4>2, ReleasedIs, <1>FinishedKeeps
    <3> QED  BY <2>5, <2>7, <3>1 DEF TurnStarted
  <2>8. CASE ProcessStopped
    <3>1. PICK b \in BOOLEAN : Released(b) /\ proc' = "stopped"
      BY <2>8 DEF ProcessStopped
    <3>2. ProcessInv' /\ proc' \in {"none", "starting", "running", "stopped"}
      BY <2>3, <3>1 DEF ProcessInv
    <3> QED  BY <2>2, <3>1, <3>2, ReleasedIs, <1>FinishedKeeps
  <2>9. CASE OperationTimeout
    <3>1. gate' = gate /\ proc' = proc /\ Finished("failed")
      <4>1. "failed" # "ok"
        OBVIOUS
      <4> QED  BY <2>9, <4>1 DEF OperationTimeout, Finished
    <3>2. ProcessInv'
      BY <2>1, <2>2, <3>1 DEF ProcessInv
    <3>3. "failed" \in {"ok", "failed"}
      OBVIOUS
    <3> QED  BY <2>2, <3>1, <3>2, <3>3, <1>FinishedKeeps
  <2>10. CASE ProcessExits
    <3>1. proc' = "stopped" /\ gate' = gate /\ worker' = worker /\ ledger' = ledger
      BY <2>10 DEF ProcessExits
    <3>2. ProcessInv' /\ proc' \in {"none", "starting", "running", "stopped"}
      BY <2>3, <3>1 DEF ProcessInv
    <3> QED  BY <2>2, <3>1, <3>2, <1>FinishedKeeps
  <2> QED  BY <2>4, <2>6, <2>7, <2>8, <2>9, <2>10 DEF Supervise, Operation
<1> QED  BY <1>ExecuteKeeps, <1>SuperviseKeeps

-----------------------------------------------------------------------------
(* The stream *)

\* agentd dials: the handler of the new stream has not started yet.
LEMMA DialKeeps ==
  ASSUME IInv, Dial
  PROVE  IInv'
<1>1. Types /\ AgentInv /\ WorkerInv /\ LedgerInv /\ ProcessInv /\ Epochs /\ CommandInv
  BY DEF IInv
<1>2. /\ agent.pc = "dial" /\ agent.stream < MaxDials
      /\ agent' = [agent EXCEPT !.pc = "hello", !.stream = @ + 1, !.proof = FALSE]
      /\ up' = up /\ down' = down /\ worker' = worker /\ gate' = gate /\ proc' = proc
      /\ ledger' = ledger /\ effects' = effects /\ handle' = handle /\ active' = active /\ UNCHANGED durable
  BY DEF Dial, Kept
<1>3. agent \in AgentType /\ agent.stream \in 0..MaxDials /\ MaxDials \in Nat /\ agent.cred \in Nat
      /\ agent.proof \in BOOLEAN
  <2>1. agent \in AgentType
    BY AgentHas
  <2>2. MaxDials \in Nat
    BY ConnectionConstants
  <2> QED  BY <2>1, <2>2 DEF AgentType
<1>4. /\ agent'.pc = "hello" /\ agent'.stream = agent.stream + 1 /\ agent'.in = agent.in
      /\ agent'.out = agent.out /\ agent'.busy = agent.busy /\ agent'.renewal = agent.renewal
  BY <1>2, <1>3 DEF AgentType
<1>5. PICK n \in Streams : n = agent.stream + 1
  BY SMT, <1>2, <1>3 DEF Streams
<1>6. n \in 0..MaxDials /\ n > agent.stream /\ ~(n > n) /\ \A q \in Streams : q > n => q > agent.stream
  BY SMT, <1>3, <1>5 DEF Streams
<1>7. agent' \in AgentType
  <2>1. "hello" \in {"dial", "hello", "serve", "cleanup", "exit", "dead"}
    OBVIOUS
  <2> QED  BY <1>2, <1>3, <1>5, <1>6, <2>1 DEF AgentType
<1>8. /\ StreamInv(n) /\ srv[n].pc = "none" /\ down[n] = <<>>
      /\ \A q \in Streams : down[q] = <<>> /\ ~OnStream(q)
  <2>1. \A q \in Streams : ~OnStream(q)
    BY <1>2 DEF OnStream
  <2>2. StreamInv(n)
    BY DEF IInv
  <2> QED  BY <1>6, <2>1, <2>2, DownIsOurs DEF StreamInv, Lifecycle
<1>9. ~Reading(n) /\ ~Numbered(n) /\ ~Begun(n)
  BY <1>8 DEF Reading, Numbered, Accepted, Begun
<1> DEFINE s == [Fresh EXCEPT !.pc = "hello", !.cred = agent.cred, !.proof = agent.proof]
<1>10. srv' = [srv EXCEPT ![n] = s]
  BY <1>4, <1>5 DEF Dial
<1>11. /\ s \in ServerType /\ s.pc = "hello" /\ s.inbox = <<>> /\ s.pending = 0 /\ s.sent = 0 /\ s.got = 0
  <2>1. "hello" \in ServerStates
    BY DEF ServerStates
  <2> QED  BY <1>3, <2>1, FreshIs DEF ServerType
<1> HIDE DEF s
<1>12. srv' \in [Streams -> ServerType] /\ srv'[n] = s /\ \A q \in Streams \ {n} : srv'[q] = srv[q]
  BY <1>1, <1>10, <1>11 DEF Types, StreamTypes
<1>13. ~Reading(n)' /\ ~Numbered(n)' /\ ~Accepted(n)'
  <2>1. srv'[n].pc = "hello"
    BY <1>11, <1>12
  <2> QED  BY <2>1 DEF Reading, Numbered, Accepted
<1>14. /\ row' = row /\ journal' = journal /\ bound' = bound /\ RowTypes' /\ JournalTypes' /\ RowInv'
  BY <1>2, DurableKept
<1>15. Epochs'
  <2>1. \A q \in Streams : /\ Numbered(q)' => Numbered(q) /\ srv'[q].epoch = srv[q].epoch
                           /\ Accepted(q)' => Accepted(q) /\ srv'[q].cred = srv[q].cred
    BY <1>12, <1>13 DEF Numbered, Accepted, Reading
  <2>2. active' # 0 => (Reading(active) \/ srv[active].pc = "closing")'
    <3>1. SUFFICES ASSUME active # 0 PROVE (Reading(active) \/ srv[active].pc = "closing")'
      BY <1>2
    <3>2. active \in Streams
      BY <1>1, <3>1 DEF Types, StreamTypes
    <3>3. Numbered(active)
      BY <1>1, <3>1 DEF Epochs, Numbered, Accepted
    <3>4. srv'[active] = srv[active]
      BY <1>9, <1>12, <3>2, <3>3
    <3> QED  BY <1>1, <1>2, <3>1, <3>4 DEF Epochs, Reading
  <2> QED  BY <1>1, <1>14, <2>1, <2>2, EpochsKept
<1>16. StreamInv(n)'
  <2>1. up'[n] = <<>> /\ down'[n] = <<>>
    BY <1>2, <1>8, <1>9 DEF StreamInv, Lifecycle
  <2>2. ~Serving'
    BY <1>4 DEF Serving
  <2>3. Lifecycle(n)'
    BY <1>4, <1>5, <1>6, <1>11, <1>12, <2>1, <2>2 DEF Lifecycle
  <2>4. Counters(n)' /\ HandlerInv(n)'
    BY <1>13 DEF Counters, HandlerInv
  <2>5. DownInv(n)' /\ UpInv(n)'
    BY <2>1, EmptyIs DEF DownInv, UpInv
  <2> QED  BY <2>3, <2>4, <2>5 DEF StreamInv
<1>17. ASSUME NEW q \in Streams \ {n} PROVE StreamInv(q)'
  <2>1. ~OnStream(q)' /\ down'[q] = <<>>
    BY <1>2, <1>4, <1>5, <1>8 DEF OnStream
  <2>2. \A o : (Carried(o)' => Carried(o)) /\ (Working(o)' => Working(o))
    BY <1>2 DEF Carried, Working
  <2>3. Apart(q)
    BY <1>2, <1>4, <1>5, <1>6, <1>12, <1>14, <2>1, <2>2 DEF Apart
  <2> QED  BY <2>3, StreamKept DEF IInv
<1>18. AgentInv' /\ WorkerInv'
  <2>1. ~Serving /\ ~Serving'
    BY <1>2, <1>4 DEF Serving
  <2> QED  BY <1>1, <1>2, <1>4, <1>5, <2>1 DEF AgentInv, WorkerInv
<1>19. CommandInv'
  <2>1. SUFFICES ASSUME worker.stage # "idle" PROVE CommandInv'
    BY <1>2 DEF CommandInv
  <2>2. PICK o \in Operations, t \in Streams : o = worker.op /\ t = worker.stream
    BY <1>1, <2>1 DEF CommandInv
  <2>3. Begun(t)
    BY <1>1, <2>1, <2>2 DEF CommandInv
  <2>4. srv'[t] = srv[t] /\ up'[t] = up[t]
    BY <1>2, <1>9, <1>12, <2>3
  <2> QED  BY <1>1, <1>2, <1>14, <2>1, <2>2, <2>4
             DEF CommandInv, Begun, Reading, Awaits, Unanswered
<1>20. LedgerInv' /\ ProcessInv'
  <2>1. proc # "running"
    BY <1>1, <1>2 DEF ProcessInv
  <2> QED  BY <1>1, <1>2, <1>14, <2>1 DEF LedgerInv, ProcessInv
<1>21. Types'
  BY <1>1, <1>2, <1>7, <1>12, <1>14 DEF Types, StreamTypes, AgentTypes
<1> QED  BY <1>14, <1>15, <1>16, <1>17, <1>18, <1>19, <1>20, <1>21 DEF IInv

\* No command reaches the worker, or there is no report on the way up.
NoNews(a) ==
  \/ \A o : (Working(o)' => Working(o)) /\ (Carried(o)' => Carried(o))
  \/ \A i \in DOMAIN up[a] : up[a][i].kind \notin Reports

\* Every step of agentd keeps the invariant: the loss of a stream, the credentials,
\* the frames and, by the lemmas above, the commands.
LEMMA AgentSideKeeps == IInv /\ Agentd => IInv'

  \* What a frame sent by agentd changes.
<1>TransmitIs.
  ASSUME NEW a \in Streams, NEW f \in UpFrames, Types, a = agent.stream, Transmit(<<f>>)
  PROVE  /\ up' \in [Streams -> Seq(UpFrames)]
         /\ up'[a] = (IF Reading(a) THEN Append(up[a], f) ELSE up[a])
         /\ \A q \in Streams \ {a} : up'[q] = up[q]
  <2> USE <1>TransmitIs
  <2>1. up \in [Streams -> Seq(UpFrames)] /\ up[a] \in Seq(UpFrames)
    BY DEF Types, StreamTypes
  <2>2. up[a] \o <<f>> = Append(up[a], f)
    BY SMT, <2>1
  <2>3. Append(up[a], f) \in Seq(UpFrames)
    BY <2>1, AppendIs
  <2>4. up' = [up EXCEPT ![a] = IF Reading(a) THEN up[a] \o <<f>> ELSE up[a]]
    BY <2>1 DEF Transmit
  <2> QED  BY <2>1, <2>2, <2>3, <2>4

  \* agentd puts a frame on its stream that is no report: the stream's counters
  \* and whatever answers its command agree as before.
<1>PlainFrame.
  ASSUME NEW a \in Streams, NEW f \in UpFrames, IInv, UNCHANGED durable, srv' = srv, ledger' = ledger,
         Serving, agent.stream = a, agent'.stream = a, Reading(a), up'[a] = Append(up[a], f),
         f.kind \notin Reports, f.seq = agent.out + 1, f.op \in {0, agent.busy},
         f.kind = "heartbeat" => f.val = agent.in,
         \/ /\ agent'.pc = "serve" /\ agent'.out = agent.out + 1 /\ agent'.in = agent.in
            /\ agent'.busy = agent.busy /\ down' = down /\ worker' = worker
         \/ /\ agent'.pc \notin {"hello", "serve"} /\ \A q \in Streams : down'[q] = <<>>
            /\ \A o \in Operations : Working(o)' => Working(o)
  PROVE  StreamInv(a)' /\ (Unanswered(a) => Unanswered(a)')
  <2> USE <1>PlainFrame
  <2>1. Types /\ StreamInv(a) /\ WorkerInv /\ CommandInv
    BY DEF IInv
  <2>2. /\ up[a] \in Seq(UpFrames) /\ srv[a].inbox \in Seq(UpFrames) /\ srv[a].got \in Nat
        /\ agent.out \in Nat /\ agent.busy \in Places
    BY <2>1 DEF Types, StreamTypes, ServerType, AgentTypes, AgentType
  <2>3. journal' = journal /\ bound' = bound
    BY DurableKept
  <2>4. OnStream(a) /\ Reading(a)' /\ Begun(a)' /\ ~(a > agent'.stream)
    <3>1. OnStream(a)
      BY DEF OnStream, Serving
    <3>2. ~(a > a)
      BY SMT DEF Streams
    <3> QED  BY <3>1, <3>2 DEF Reading, Begun
  <2>5. /\ \A i \in DOMAIN up'[a] :
             \/ i \in DOMAIN up[a] /\ i \in Nat /\ i < Len(up[a]) + 1 /\ up'[a][i] = up[a][i]
             \/ i = Len(up[a]) + 1 /\ up'[a][i] = f
        /\ DOMAIN up[a] \subseteq DOMAIN up'[a] /\ Len(up'[a]) = Len(up[a]) + 1 /\ Len(up[a]) \in Nat
        /\ \A i \in DOMAIN up[a] : up'[a][i] = up[a][i]
    BY SMT, <2>2, AppendIs
  <2>6. agent.busy # 0 => Awaits(a, agent.busy) /\ Unanswered(a)
    BY <2>1 DEF WorkerInv, CommandInv
  <2>7. f.op # 0 => f.op = agent.busy
    OBVIOUS
  <2>8. Unanswered(a) => Unanswered(a)'
    BY <2>5 DEF Unanswered
  <2>9. \A o : Awaits(a, o)' <=> Awaits(a, o)
    BY <2>3 DEF Awaits
  <2>10. \A o \in Operations : (Working(o)' => Working(o)) /\ (Carried(o)' => Carried(o))
    BY EmptyIs DEF Working, Carried
  <2>11. Lifecycle(a)'
    <3>1. CASE agent'.pc = "serve" /\ down' = down
      BY <2>4, <3>1 DEF Lifecycle, OnStream
    <3>2. CASE agent'.pc \notin {"hello", "serve"} /\ \A q \in Streams : down'[q] = <<>>
      BY <2>4, <3>2 DEF Lifecycle, OnStream
    <3> QED  BY <3>1, <3>2
  <2>12. Counters(a)'
    <3>1. Counters(a)
      BY <2>1 DEF StreamInv
    <3>2. agent.out = srv[a].got + Len(up[a]) /\ agent.in <= srv[a].sent
      BY <2>4, <3>1 DEF Counters
    <3>3. ASSUME NEW i \in DOMAIN up'[a]
          PROVE  /\ up'[a][i].seq = srv[a].got + i
                 /\ up'[a][i].kind = "heartbeat" => up'[a][i].val <= srv[a].sent
      <4>1. CASE i \in DOMAIN up[a] /\ up'[a][i] = up[a][i]
        BY <3>1, <4>1 DEF Counters
      <4>2. CASE i = Len(up[a]) + 1 /\ up'[a][i] = f
        <5>1. f.seq = srv[a].got + i
          <6>1. srv[a].got \in Nat /\ Len(up[a]) \in Nat
            BY SMT, <2>2
          <6>2. (srv[a].got + Len(up[a])) + 1 = srv[a].got + (Len(up[a]) + 1)
            BY <6>1, Bounds
          <6>3. f.seq = (srv[a].got + Len(up[a])) + 1 /\ i = Len(up[a]) + 1
            BY <2>5, <3>2, <4>2
          <6> QED  BY <6>2, <6>3
        <5> QED  BY <3>2, <4>2, <5>1
      <4> QED  BY <2>5, <4>1, <4>2
    <3>4. \A i \in DOMAIN down'[a] : down'[a][i].seq <= srv[a].sent
      BY <3>1, EmptyIs DEF Counters
    <3>5. OnStream(a)' => agent'.out = srv[a].got + Len(up'[a]) /\ agent'.in <= srv[a].sent
      <4>1. srv[a].got + Len(up'[a]) = agent.out + 1
        <5>1. srv[a].got \in Nat /\ Len(up[a]) \in Nat
          BY SMT, <2>2
        <5>2. (srv[a].got + Len(up[a])) + 1 = srv[a].got + (Len(up[a]) + 1)
          BY <5>1, Bounds
        <5> QED  BY <2>5, <3>2, <5>2
      <4> QED  BY <3>2, <4>1 DEF OnStream
    <3> QED  BY <3>3, <3>4, <3>5 DEF Counters
  <2>13. DownInv(a)'
    <3>1. CASE agent'.busy = agent.busy /\ down' = down /\ worker' = worker
      <4>1. \A o : Working(o)' <=> Working(o)
        BY <3>1 DEF Working
      <4>2. DownInv(a)
        BY <2>1 DEF StreamInv
      <4> QED  BY <2>3, <2>8, <2>9, <3>1, <4>1, <4>2 DEF DownInv, Reading
    <3>2. CASE down'[a] = <<>>
      BY <3>2, EmptyIs DEF DownInv
    <3> QED  BY <3>1, <3>2
  <2>14. UpInv(a)'
    <3>1. ASSUME NEW i \in DOMAIN up'[a], NEW g, g = up'[a][i]
          PROVE  /\ g.op # 0 => Awaits(a, g.op)'
                 /\ g.kind \in Reports => g.op # 0 /\ ~Working(g.op)' /\ ~Carried(g.op)'
                 /\ g.kind = "ack" =>
                      /\ ledger'[g.op] = "DONE" /\ g.val = journal'[g.op].seq
                      /\ Plan[g.op] = "START" =>
                           bound' \/ \E j \in DOMAIN up'[a] : j < i /\ up'[a][j].kind = "thread"
                 /\ g.kind = "failure" => ledger'[g.op] = "FAILED"
                 /\ g.kind \in {"ack", "failure"} => \A j \in DOMAIN up'[a] : j > i => up'[a][j].op = 0
      <4>0. "ack" \in Reports /\ "failure" \in Reports
        BY DEF Reports
      <4>1. CASE i = Len(up[a]) + 1 /\ g = f
        BY <2>6, <2>7, <2>9, <4>0, <4>1
      <4>2. CASE i \in DOMAIN up[a] /\ g = up[a][i]
        <5>1. /\ g.op # 0 => Awaits(a, g.op)
              /\ g.kind \in Reports => g.op # 0 /\ ~Working(g.op) /\ ~Carried(g.op)
              /\ g.kind = "ack" =>
                   /\ ledger[g.op] = "DONE" /\ g.val = journal[g.op].seq
                   /\ Plan[g.op] = "START" =>
                        bound \/ \E j \in DOMAIN up[a] : j < i /\ up[a][j].kind = "thread"
              /\ g.kind = "failure" => ledger[g.op] = "FAILED"
              /\ g.kind \in {"ack", "failure"} => \A j \in DOMAIN up[a] : j > i => up[a][j].op = 0
          BY <2>1, <4>2 DEF StreamInv, UpInv
        <5>2. g \in UpFrames
          BY SMT, <2>2, <4>2
        <5>3. g.op # 0 => g.op \in Operations
          BY <5>2 DEF UpFrames, Places
        <5>4. g.kind \in {"ack", "failure"} => f.op = 0
          BY <2>6, <2>7, <4>0, <4>2 DEF Unanswered
        <5>5. g.kind \in {"ack", "failure"} => \A j \in DOMAIN up'[a] : j > i => up'[a][j].op = 0
          BY <2>5, <5>1, <5>4
        <5>6. g.kind = "ack" /\ Plan[g.op] = "START" =>
                bound \/ \E j \in DOMAIN up'[a] : j < i /\ up'[a][j].kind = "thread"
          BY <2>5, <5>1
        <5> QED  BY <2>3, <2>9, <2>10, <5>1, <5>3, <5>5, <5>6
      <4> QED  BY <2>5, <3>1, <4>1, <4>2
    <3> QED  BY <3>1 DEF UpInv, Awaits, Working, Carried
  <2>15. HandlerInv(a)'
    <3>1. HandlerInv(a)
      BY <2>1 DEF StreamInv
    <3>2. \A i \in DOMAIN srv[a].inbox : srv[a].inbox[i].kind = "ack" => f.op = 0
      BY <2>6, <2>7 DEF Unanswered
    <3> QED  BY <2>3, <2>5, <3>1, <3>2 DEF HandlerInv, Reading
  <2> QED  BY <2>8, <2>11, <2>12, <2>13, <2>14, <2>15 DEF StreamInv

  \* agentd leaves its stream, if it has one, perhaps after a last frame.
<1>DepartKeeps.
  ASSUME NEW b \in AgentType, IInv, Depart(b), b.stream = agent.stream, b.pc \in {"cleanup", "exit"},
         UNCHANGED Kept, srv' = srv, gate' = gate, proc' \in {"none", "starting", "running", "stopped"},
         proc' = "starting" => proc = "starting",
         \/ up' = up
         \/ /\ Serving
            /\ \E f \in UpFrames : /\ f.op = 0 /\ f.kind \in {"stopped", "unresolved"}
                                   /\ f.seq = agent.out + 1 /\ Transmit(<<f>>)
  PROVE  IInv'
  <2> USE <1>DepartKeeps
  <2>1. Types /\ AgentInv /\ WorkerInv /\ ProcessInv /\ LedgerInv
    BY DEF IInv
  <2>2. /\ agent' = [b EXCEPT !.busy = 0, !.in = 0, !.out = 0, !.beats = 0, !.renewal = "no"]
        /\ down' = [r \in Streams |-> IF r = agent.stream THEN <<>> ELSE down[r]]
        /\ worker' = IF worker.stage = "begin" THEN worker ELSE Idle
    BY DEF Depart
  <2>3. /\ agent'.pc = b.pc /\ agent'.stream = agent.stream /\ agent'.in = 0 /\ agent'.out = 0
        /\ agent'.busy = 0 /\ agent'.renewal = "no"
    BY <2>2 DEF AgentType
  <2>4. agent' \in AgentType
    <3>1. 0 \in Places /\ 0 \in Nat /\ "no" \in {"no", "due", "asked"}
      BY DEF Places
    <3> QED  BY <2>2, <3>1 DEF AgentType
  <2>5. agent'.pc # "serve" /\ agent'.pc # "hello" /\ agent'.pc # "dial"
    BY <2>3
  <2>6. UNCHANGED durable /\ active' = active /\ ledger' = ledger /\ effects' = effects /\ handle' = handle
        /\ journal' = journal
    BY DEF Kept, durable
  <2>7. worker' \in WorkerType /\ (worker' = worker \/ worker'.stage = "idle") /\ worker'.stage \in {"idle", "begin"}
    <3>1. Idle \in WorkerType /\ Idle.stage = "idle"
      BY SMT, ConnectionConstants DEF Idle, WorkerType, Places
    <3>2. worker \in WorkerType
      BY <2>1 DEF Types, AgentTypes
    <3> QED  BY <2>2, <3>1, <3>2
  <2>8. AgentTypes'
    BY <2>1, <2>4, <2>6, <2>7 DEF Types, AgentTypes
  <2>9. AgentInv'
    BY <2>3, <2>5 DEF AgentInv, OnStream, Serving
  <2>10. WorkerInv'
    <3>1. worker'.stage \notin {"wait", "ok", "failed"}
      BY <2>7
    <3> QED  BY <2>5, <3>1 DEF WorkerInv, Serving
  <2>11. LedgerInv' /\ ProcessInv'
    BY <2>1, <2>5, <2>6 DEF LedgerInv, ProcessInv
  <2>12. \A o : Working(o)' => Working(o)
    BY <2>7 DEF Working
  <2>13. \A q \in Streams : down'[q] = <<>> /\ ~OnStream(q)'
    <3>1. \A q \in Streams : q # agent.stream => down[q] = <<>>
      BY DownIsOurs DEF OnStream
    <3> QED  BY <2>2, <2>5, <3>1 DEF OnStream
  <2>14. \A o : Carried(o)' => Carried(o)
    BY <2>13, EmptyIs DEF Carried
  <2>15. down' \in [Streams -> Seq(DownFrames)]
    BY <2>2, <2>13, EmptyIs
  <2>16. CASE up' = up
    <3>1. \A q \in Streams : StreamInv(q)'
      BY <2>3, <2>6, <2>12, <2>13, <2>14, <2>16, OffStream
    <3>2. \A q \in Streams : Unanswered(q) => Unanswered(q)'
      BY <2>16 DEF Unanswered
    <3>3. CommandInv'
      BY <2>6, <2>7, <3>2, CommandKept
    <3>4. up' \in [Streams -> Seq(UpFrames)]
      BY <2>1, <2>16 DEF Types, StreamTypes
    <3> QED  BY <2>6, <2>8, <2>9, <2>10, <2>11, <2>15, <3>1, <3>3, <3>4, AgentKept
  <2>17. CASE /\ Serving
              /\ \E f \in UpFrames : /\ f.op = 0 /\ f.kind \in {"stopped", "unresolved"}
                                     /\ f.seq = agent.out + 1 /\ Transmit(<<f>>)
    <3>1. PICK f \in UpFrames : /\ f.op = 0 /\ f.kind \in {"stopped", "unresolved"}
                                /\ f.seq = agent.out + 1 /\ Transmit(<<f>>)
      BY <2>17
    <3>2. PICK a \in Streams : a = agent.stream
      BY <2>1, <2>17 DEF AgentInv, OnStream, Serving
    <3>3. /\ up' \in [Streams -> Seq(UpFrames)]
          /\ up'[a] = (IF Reading(a) THEN Append(up[a], f) ELSE up[a])
          /\ \A q \in Streams \ {a} : up'[q] = up[q]
      BY <2>1, <3>1, <3>2, <1>TransmitIs
    <3>4. ASSUME NEW q \in Streams PROVE StreamInv(q)' /\ (Unanswered(q) => Unanswered(q)')
      <4>1. CASE up'[q] = up[q]
        <5>1. Unanswered(q) => Unanswered(q)'
          BY <4>1 DEF Unanswered
        <5> QED  BY <2>3, <2>6, <2>12, <2>13, <2>14, <4>1, <5>1, OffStream
      <4>2. CASE q = a /\ Reading(a)
        <5>1. f.kind \notin Reports /\ f.kind # "heartbeat" /\ f.op \in {0, agent.busy}
          BY <3>1 DEF Reports
        <5>2. agent'.pc \notin {"hello", "serve"}
          BY <2>5
        <5> QED  BY <2>3, <2>6, <2>12, <2>13, <2>17, <3>1, <3>2, <3>3, <4>2, <5>1, <5>2, <1>PlainFrame
      <4> QED  BY <3>3, <4>1, <4>2
    <3>5. CommandInv'
      BY <2>6, <2>7, <3>4, CommandKept
    <3> QED  BY <2>6, <2>8, <2>9, <2>10, <2>11, <2>15, <3>3, <3>4, <3>5, AgentKept
  <2> QED  BY <2>16, <2>17

  \* agentd changes its mind between streams, and its processes.
<1>BetweenStreams.
  ASSUME NEW b \in AgentType, IInv, agent' = b, b.stream = agent.stream, b.pc \notin {"hello", "serve"},
         agent.pc \notin {"hello", "serve"}, b.in = agent.in, b.out = agent.out, b.busy = agent.busy,
         b.renewal = agent.renewal, UNCHANGED <<Kept, srv, up, down>>,
         worker' = worker \/ worker' = Idle, gate' \in GateType,
         proc' \in {"none", "starting", "running", "stopped"}, ProcessInv'
  PROVE  IInv'
  <2> USE <1>BetweenStreams
  <2>1. Types /\ AgentInv /\ WorkerInv /\ LedgerInv
    BY DEF IInv
  <2>2. UNCHANGED durable /\ active' = active /\ ledger' = ledger /\ effects' = effects /\ handle' = handle
        /\ srv' = srv /\ up' = up /\ down' = down /\ journal' = journal
    BY DEF Kept, durable
  <2>3. worker' \in WorkerType /\ (worker' = worker \/ worker'.stage = "idle")
    <3>1. Idle \in WorkerType /\ Idle.stage = "idle"
      BY SMT, ConnectionConstants DEF Idle, WorkerType, Places
    <3> QED  BY <2>1, <3>1 DEF Types, AgentTypes
  <2>4. AgentTypes'
    BY <2>1, <2>2, <2>3 DEF Types, AgentTypes
  <2>5. agent.pc # "serve" /\ agent'.pc # "serve" /\ agent'.pc # "hello"
    OBVIOUS
  <2>6. AgentInv'
    BY <2>1, <2>5 DEF AgentInv, OnStream, Serving
  <2>7. WorkerInv'
    <3>1. worker.stage \notin {"wait", "ok", "failed"} /\ "idle" \notin {"wait", "ok", "failed"}
      <4>1. "idle" \notin {"wait", "ok", "failed"}
        OBVIOUS
      <4> QED  BY <2>1, <2>5, <4>1 DEF WorkerInv, Serving
    <3> QED  BY <2>3, <2>5, <3>1 DEF WorkerInv, Serving
  <2>8. LedgerInv'
    BY <2>1, <2>2 DEF LedgerInv
  <2>9. \A o : (Working(o)' => Working(o)) /\ (Carried(o)' => Carried(o))
    BY <2>2, <2>3 DEF Working, Carried
  <2>10. \A q \in Streams : ~OnStream(q)' /\ down'[q] = <<>>
    <3>1. \A q \in Streams : ~OnStream(q) /\ ~OnStream(q)'
      BY DEF OnStream
    <3> QED  BY <2>2, <3>1, DownIsOurs
  <2>11. \A q \in Streams : StreamInv(q)'
    BY <2>2, <2>9, <2>10, OffStream
  <2>12. \A q \in Streams : Unanswered(q) => Unanswered(q)'
    BY <2>2 DEF Unanswered
  <2>13. CommandInv'
    BY <2>2, <2>3, <2>12, CommandKept
  <2>14. up' \in [Streams -> Seq(UpFrames)] /\ down' \in [Streams -> Seq(DownFrames)]
    BY <2>1, <2>2 DEF Types, StreamTypes
  <2> QED  BY <2>2, <2>4, <2>6, <2>7, <2>8, <2>11, <2>13, <2>14, AgentKept

  \* The credential agentd would dial with has expired.
<1>CredentialExpiredKeeps.
  ASSUME IInv, CredentialExpired
  PROVE  IInv'
  <2> USE <1>CredentialExpiredKeeps
  <2>1. agent \in AgentType /\ ProcessInv
    BY AgentHas DEF IInv
  <2> DEFINE b == [agent EXCEPT !.pc = "exit"]
  <2>2. /\ b.pc = "exit" /\ b.stream = agent.stream /\ b.in = agent.in /\ b.out = agent.out
        /\ b.busy = agent.busy /\ b.renewal = agent.renewal
    BY <2>1 DEF AgentType
  <2>3. b \in AgentType
    <3>1. "exit" \in {"dial", "hello", "serve", "cleanup", "exit", "dead"}
      OBVIOUS
    <3> QED  BY <2>1, <3>1 DEF AgentType
  <2>4. /\ agent.pc = "dial" /\ agent' = b /\ UNCHANGED <<Kept, srv, up, down>>
        /\ worker' = worker /\ gate' = gate /\ proc' = proc
    BY DEF CredentialExpired
  <2> HIDE DEF b
  <2>5. b.pc \notin {"dial", "hello", "serve"} /\ agent.pc \notin {"hello", "serve"}
    BY <2>2, <2>4
  <2>6. b.pc \notin {"dial", "hello"} /\ b.pc \notin {"hello", "serve"}
    BY <2>5
  <2>7. ProcessInv'
    BY <2>1, <2>4, <2>6 DEF ProcessInv
  <2> QED  BY <2>2, <2>3, <2>4, <2>5, <2>6, <2>7, AgentHas, <1>BetweenStreams

  \* The end of a round of runConnections.
<1>CleanupKeeps.
  ASSUME IInv, Cleanup
  PROVE  IInv'
  <2> USE <1>CleanupKeeps
  <2>1. agent \in AgentType /\ ProcessInv /\ agent.failures \in Nat
        /\ proc \in {"none", "starting", "running", "stopped"} /\ gate \in GateType
    BY AgentHas DEF IInv
  <2>2. PICK err \in BOOLEAN :
          /\ Stopped(err)
          /\ agent' = IF err THEN [agent EXCEPT !.pc = "exit"]
                      ELSE [agent EXCEPT !.failures = @ + 1,
                              !.pc = IF agent.failures + 1 >= MaxFailures THEN "exit" ELSE "dial"]
    BY DEF Cleanup
  <2>3. /\ agent.pc = "cleanup" /\ UNCHANGED <<Kept, srv, up, down>> /\ worker' = worker /\ gate' = gate
    BY DEF Cleanup
  <2>4. PICK p \in {"exit", "dial"}, n \in Nat :
          /\ agent' = [agent EXCEPT !.failures = n, !.pc = p]
          /\ p = "dial" => err = FALSE
    <3>1. CASE err = TRUE
      <4>1. [agent EXCEPT !.pc = "exit"] = [agent EXCEPT !.failures = agent.failures, !.pc = "exit"]
        BY <2>1 DEF AgentType
      <4>2. "exit" \in {"exit", "dial"} /\ "exit" # "dial"
        OBVIOUS
      <4> QED  BY <2>1, <2>2, <3>1, <4>1, <4>2
    <3>2. CASE err = FALSE
      <4>1. agent.failures + 1 \in Nat /\ (IF agent.failures + 1 >= MaxFailures THEN "exit" ELSE "dial") \in {"exit", "dial"}
        BY SMT, <2>1
      <4>2. agent' = [agent EXCEPT !.failures = agent.failures + 1,
                        !.pc = IF agent.failures + 1 >= MaxFailures THEN "exit" ELSE "dial"]
        BY <2>2, <3>2
      <4> QED  BY <3>2, <4>1, <4>2
    <3> QED  BY <3>1, <3>2
  <2> DEFINE b == [agent EXCEPT !.failures = n, !.pc = p]
  <2>5. /\ b.pc = p /\ b.stream = agent.stream /\ b.in = agent.in /\ b.out = agent.out
        /\ b.busy = agent.busy /\ b.renewal = agent.renewal
    BY <2>1 DEF AgentType
  <2>6. b \in AgentType
    <3>1. p \in {"dial", "hello", "serve", "cleanup", "exit", "dead"}
      BY <2>4
    <3> QED  BY <2>1, <3>1 DEF AgentType
  <2> HIDE DEF b
  <2>7. b.pc \notin {"hello", "serve"} /\ agent.pc \notin {"hello", "serve"} /\ (b.pc = "dial" => err = FALSE)
    BY <2>3, <2>4, <2>5
  <2>8. /\ proc' \in {"none", "starting", "running", "stopped"}
        /\ proc' = proc \/ proc' = "stopped"
        /\ err = FALSE => proc' \in {"none", "stopped"}
    BY <2>1, <2>2 DEF Stopped
  <2>9. ProcessInv'
    <3>1. proc' = "starting" => proc = "starting"
      BY <2>8
    <3>2. proc' = "running" => b.pc \notin {"dial", "hello"}
      BY <2>7, <2>8
    <3> QED  BY <2>1, <2>3, <2>4, <3>1, <3>2 DEF ProcessInv, b
  <2>10. agent' = b
    BY <2>4 DEF b
  <2> QED  BY <2>1, <2>3, <2>5, <2>6, <2>7, <2>8, <2>9, <2>10, <1>BetweenStreams

  \* The end of the container.
<1>ExitKeeps.
  ASSUME IInv, Exit
  PROVE  IInv'
  <2> USE <1>ExitKeeps
  <2>1. agent \in AgentType /\ proc \in {"none", "starting", "running", "stopped"}
    BY AgentHas
  <2> DEFINE b == [agent EXCEPT !.pc = "dead"]
  <2>2. /\ b.pc = "dead" /\ b.stream = agent.stream /\ b.in = agent.in /\ b.out = agent.out
        /\ b.busy = agent.busy /\ b.renewal = agent.renewal
    BY <2>1 DEF AgentType
  <2>3. b \in AgentType
    <3>1. "dead" \in {"dial", "hello", "serve", "cleanup", "exit", "dead"}
      OBVIOUS
    <3> QED  BY <2>1, <3>1 DEF AgentType
  <2>4. /\ agent.pc = "exit" /\ agent' = b /\ UNCHANGED <<Kept, srv, up, down>>
        /\ worker' = Idle /\ gate' = Free /\ proc' = IF proc = "none" THEN proc ELSE "stopped"
    BY DEF Exit
  <2> HIDE DEF b
  <2>5. b.pc \notin {"hello", "serve"} /\ agent.pc \notin {"hello", "serve"}
        /\ proc' \in {"none", "stopped"}
    BY <2>2, <2>4
  <2>6. proc' \in {"none", "starting", "running", "stopped"} /\ proc' # "starting" /\ proc' # "running"
    BY <2>5
  <2>7. ProcessInv'
    BY <2>6 DEF ProcessInv
  <2>8. Free \in GateType
    BY DEF Free, GateType, Places
  <2> QED  BY <2>2, <2>3, <2>4, <2>5, <2>6, <2>7, <2>8, <1>BetweenStreams

  \* The stream fails before the handshake.
<1>DialFailsKeeps.
  ASSUME IInv, DialFails
  PROVE  IInv'
  <2> USE <1>DialFailsKeeps
  <2>1. agent \in AgentType /\ proc \in {"none", "starting", "running", "stopped"}
    BY AgentHas
  <2> DEFINE b == [agent EXCEPT !.pc = "cleanup"]
  <2>2. b.stream = agent.stream /\ b.pc = "cleanup"
    BY <2>1 DEF AgentType
  <2>3. b \in AgentType
    <3>1. "cleanup" \in {"dial", "hello", "serve", "cleanup", "exit", "dead"}
      OBVIOUS
    <3> QED  BY <2>1, <3>1 DEF AgentType
  <2>4. Depart(b) /\ UNCHANGED Kept /\ srv' = srv /\ up' = up /\ gate' = gate /\ proc' = proc
    BY DEF DialFails
  <2> HIDE DEF b
  <2> QED  BY <2>1, <2>2, <2>3, <2>4, <1>DepartKeeps

  \* agentd drops its stream, perhaps with a new credential and after a last
  \* frame, and the process may have been stopped.
<1>DropKeeps.
  ASSUME IInv, Drop, UNCHANGED <<Kept, srv, gate>>, proc' = proc \/ proc' = "stopped",
         \/ up' = up
         \/ /\ Serving
            /\ \E f \in UpFrames : /\ f.op = 0 /\ f.kind \in {"stopped", "unresolved"}
                                   /\ f.seq = agent.out + 1 /\ Transmit(<<f>>)
  PROVE  IInv'
  <2> USE <1>DropKeeps
  <2>1. agent \in AgentType /\ proc \in {"none", "starting", "running", "stopped"} /\ agent.failures \in Nat
    BY AgentHas
  <2>2. PICK n \in {0, agent.failures} : Depart([agent EXCEPT !.pc = "cleanup", !.failures = n])
    BY DEF Drop
  <2>3. n \in Nat /\ "cleanup" \in {"dial", "hello", "serve", "cleanup", "exit", "dead"}
        /\ proc' \in {"none", "starting", "running", "stopped"} /\ (proc' = "starting" => proc = "starting")
    BY SMT, <2>1
  <2> DEFINE b == [agent EXCEPT !.pc = "cleanup", !.failures = n]
  <2>4. b.stream = agent.stream /\ b.pc = "cleanup" /\ b \in AgentType
    BY <2>1, <2>3 DEF AgentType
  <2>5. Depart(b) /\ UNCHANGED Kept /\ srv' = srv /\ gate' = gate
    BY <2>2
  <2> HIDE DEF b
  <2> QED  BY <2>3, <2>4, <2>5, <1>DepartKeeps

  \* The stream is lost.
<1>LostKeeps.
  ASSUME IInv, Lost
  PROVE  IInv'
  BY <1>LostKeeps, <1>DropKeeps DEF Lost

  \* The last frame of a stream that agentd ends itself.
<1>LastFrame.
  ASSUME IInv, Serving, NEW k \in {"stopped", "unresolved"}, Transmit(<<Frame(k, agent.out + 1, 0, 0)>>)
  PROVE  \E f \in UpFrames : /\ f.op = 0 /\ f.kind \in {"stopped", "unresolved"}
                             /\ f.seq = agent.out + 1 /\ Transmit(<<f>>)
  <2> USE <1>LastFrame
  <2> DEFINE f == Frame(k, agent.out + 1, 0, 0)
  <2>1. f = [kind |-> k, seq |-> agent.out + 1, op |-> 0, val |-> 0]
    BY DEF Frame
  <2>2. k \in AgentFrames /\ agent.out + 1 \in Nat /\ 0 \in Places /\ 0 \in Nat
    BY SMT, AgentHas DEF AgentFrames, Places
  <2>3. f \in UpFrames /\ f.op = 0 /\ f.kind \in {"stopped", "unresolved"} /\ f.seq = agent.out + 1
    BY SMT, <2>1, <2>2 DEF UpFrames
  <2> QED  BY <2>3

  \* The deadline of the stream.
<1>DeadlineNearKeeps.
  ASSUME IInv, DeadlineNear
  PROVE  IInv'
  <2> USE <1>DeadlineNearKeeps
  <2>1. Serving /\ Drop /\ UNCHANGED <<Kept, srv, gate>>
    BY DEF DeadlineNear
  <2>2. PICK err \in BOOLEAN :
          /\ Stopped(err)
          /\ Transmit(<<Frame(IF err \/ agent.busy # 0 THEN "unresolved" ELSE "stopped", agent.out + 1, 0, 0)>>)
    BY DEF DeadlineNear
  <2>3. (IF err \/ agent.busy # 0 THEN "unresolved" ELSE "stopped") \in {"stopped", "unresolved"}
    OBVIOUS
  <2>4. proc' = proc \/ proc' = "stopped"
    BY <2>2 DEF Stopped
  <2> QED  BY <2>1, <2>2, <2>3, <2>4, <1>LastFrame, <1>DropKeeps

  \* The supervisor is signalled.
<1>TerminateKeeps.
  ASSUME IInv, Terminate
  PROVE  IInv'
  <2> USE <1>TerminateKeeps
  <2>1. agent \in AgentType /\ proc \in {"none", "starting", "running", "stopped"}
    BY AgentHas
  <2> DEFINE b == [agent EXCEPT !.pc = "exit"]
  <2>2. b.stream = agent.stream /\ b.pc = "exit"
    BY <2>1 DEF AgentType
  <2>3. b \in AgentType
    <3>1. "exit" \in {"dial", "hello", "serve", "cleanup", "exit", "dead"}
      OBVIOUS
    <3> QED  BY <2>1, <3>1 DEF AgentType
  <2>4. Depart(b) /\ UNCHANGED Kept /\ srv' = srv /\ gate' = gate
    BY DEF Terminate
  <2> HIDE DEF b
  <2>5. CASE ~Serving
    BY <2>1, <2>2, <2>3, <2>4, <2>5, <1>DepartKeeps DEF Terminate
  <2>6. CASE Serving
    <3>1. PICK err \in BOOLEAN :
            /\ IF gate = Free THEN proc' = IF proc = "none" THEN proc ELSE "stopped"
               ELSE err /\ UNCHANGED proc
            /\ Transmit(<<Frame(IF err \/ agent.busy # 0 THEN "unresolved" ELSE "stopped", agent.out + 1, 0, 0)>>)
      BY <2>6 DEF Terminate
    <3>2. (IF err \/ agent.busy # 0 THEN "unresolved" ELSE "stopped") \in {"stopped", "unresolved"}
      OBVIOUS
    <3>3. proc' = proc \/ proc' = "stopped"
      BY <3>1
    <3>4. proc' \in {"none", "starting", "running", "stopped"} /\ (proc' = "starting" => proc = "starting")
      BY <2>1, <3>3
    <3>5. \E f \in UpFrames : /\ f.op = 0 /\ f.kind \in {"stopped", "unresolved"}
                              /\ f.seq = agent.out + 1 /\ Transmit(<<f>>)
      BY <2>6, <3>1, <3>2, <1>LastFrame
    <3> QED  BY <2>2, <2>3, <2>4, <2>6, <3>4, <3>5, <1>DepartKeeps
  <2> QED  BY <2>5, <2>6

  \* The frames on their way up keep their meaning when they, the journal and
  \* the ledger stay.
<1>UpSame.
  ASSUME NEW a \in Streams, UpInv(a), srv' = srv, up'[a] = up[a], ledger' = ledger, journal' = journal,
         bound' = bound, NoNews(a)
  PROVE  UpInv(a)'
  <2> USE <1>UpSame
  <2>1. ASSUME NEW i \in DOMAIN up'[a], NEW f, f = up'[a][i]
        PROVE  /\ f.op # 0 => Awaits(a, f.op)'
               /\ f.kind \in Reports => f.op # 0 /\ ~Working(f.op)' /\ ~Carried(f.op)'
               /\ f.kind = "ack" =>
                    /\ ledger'[f.op] = "DONE" /\ f.val = journal'[f.op].seq
                    /\ Plan[f.op] = "START" =>
                         bound' \/ \E j \in DOMAIN up'[a] : j < i /\ up'[a][j].kind = "thread"
               /\ f.kind = "failure" => ledger'[f.op] = "FAILED"
               /\ f.kind \in {"ack", "failure"} => \A j \in DOMAIN up'[a] : j > i => up'[a][j].op = 0
    <3>1. i \in DOMAIN up[a] /\ f = up[a][i]
      BY <2>1
    <3>2. /\ f.op # 0 => Awaits(a, f.op)
          /\ f.kind \in Reports => f.op # 0 /\ ~Working(f.op) /\ ~Carried(f.op)
          /\ f.kind = "ack" =>
               /\ ledger[f.op] = "DONE" /\ f.val = journal[f.op].seq
               /\ Plan[f.op] = "START" =>
                    bound \/ \E j \in DOMAIN up[a] : j < i /\ up[a][j].kind = "thread"
          /\ f.kind = "failure" => ledger[f.op] = "FAILED"
          /\ f.kind \in {"ack", "failure"} => \A j \in DOMAIN up[a] : j > i => up[a][j].op = 0
      BY <3>1 DEF UpInv
    <3>3. Awaits(a, f.op) => Awaits(a, f.op)'
      BY DEF Awaits
    <3>4. f.kind \in Reports => ~Working(f.op)' /\ ~Carried(f.op)'
      BY <3>1, <3>2 DEF NoNews
    <3> QED  BY <3>2, <3>3, <3>4
  <2> QED  BY <2>1 DEF UpInv, Awaits, Working, Carried

  \* agentd takes the first frame of its stream.
<1>TakeKept.
  ASSUME NEW a \in Streams, IInv, UNCHANGED durable, srv' = srv, up' = up, ledger' = ledger,
         OnStream(a), agent'.stream = a, agent'.pc = "serve", agent'.out = agent.out, agent'.in \in Nat,
         down[a] # <<>>, down'[a] = Tail(down[a]), \A q \in Streams \ {a} : down'[q] = down[q],
         agent'.in = agent.in \/ agent'.in = Head(down[a]).seq,
         \/ worker' = worker /\ agent'.busy = agent.busy
         \/ Head(down[a]).kind = "command" /\ \A o \in Operations : Working(o)' => o = Head(down[a]).op
  PROVE  \A q \in Streams : StreamInv(q)'
  <2> USE <1>TakeKept
  <2>1. Types /\ StreamInv(a)
    BY DEF IInv
  <2>2. /\ down[a] \in Seq(DownFrames) /\ up[a] \in Seq(UpFrames) /\ srv[a].sent \in Nat /\ agent.in \in Nat
    BY <2>1, AgentHas DEF Types, StreamTypes, ServerType
  <2>3. journal' = journal /\ bound' = bound
    BY DurableKept
  <2>4. /\ 1 \in DOMAIN down[a] /\ Head(down[a]) = down[a][1]
        /\ \A i \in DOMAIN down'[a] : i \in Nat /\ i + 1 \in DOMAIN down[a] /\ i + 1 > 1 /\ down'[a][i] = down[a][i + 1]
    <3>1. Shorter(Tail(down[a]), down[a])
      BY <2>2, ShorterIs
    <3>2. Shorter(down'[a], down[a])
      BY <3>1
    <3> QED  BY <3>2 DEF Shorter
  <2>5. OnStream(a)' /\ Begun(a)' /\ (Reading(a)' <=> Reading(a)) /\ ~(a > agent'.stream)
    <3>1. OnStream(a)'
      BY DEF OnStream
    <3>2. Begun(a)
      BY <2>1 DEF StreamInv, Lifecycle
    <3>3. ~(a > a)
      BY SMT DEF Streams
    <3> QED  BY <3>1, <3>2, <3>3 DEF Begun, Reading
  <2>6. \A o : Carried(o)' => Carried(o)
    <3>1. ASSUME NEW o, NEW q \in Streams, NEW i \in DOMAIN down'[q],
                 down'[q][i].kind = "command", down'[q][i].op = o
          PROVE  Carried(o)
      <4>1. CASE q = a
        <5>1. PICK j \in DOMAIN down[a] : j = i + 1 /\ down'[a][i] = down[a][j]
          BY <2>4, <3>1, <4>1
        <5> QED  BY <3>1, <4>1, <5>1 DEF Carried
      <4>2. CASE q # a
        BY <3>1, <4>2 DEF Carried
      <4> QED  BY <4>1, <4>2
    <3> QED  BY <3>1 DEF Carried
  <2>7. Lifecycle(a)'
    <3>1. Lifecycle(a)
      BY <2>1 DEF StreamInv
    <3> QED  BY <2>5, <3>1 DEF Lifecycle
  <2>8. Counters(a)'
    <3>1. Counters(a)
      BY <2>1 DEF StreamInv
    <3>2. Reading(a) => agent'.in <= srv[a].sent
      BY <2>4, <3>1 DEF Counters
    <3> QED  BY <2>4, <2>5, <3>1, <3>2 DEF Counters
  <2>9. DownInv(a)
    BY <2>1 DEF StreamInv
  <2>10. Unanswered(a)' <=> Unanswered(a)
    BY DEF Unanswered
  <2>11. \A o : Awaits(a, o)' <=> Awaits(a, o)
    BY <2>3 DEF Awaits
  <2>12. CASE worker' = worker /\ agent'.busy = agent.busy
    <3>1. \A o : Working(o)' <=> Working(o)
      BY <2>12 DEF Working
    <3>2. ASSUME NEW i \in DOMAIN down'[a], down'[a][i].kind = "command", NEW o, o = down'[a][i].op
          PROVE  /\ o \in Operations /\ journal'[o].outcome = "PENDING" /\ ledger'[o] = "NONE"
                 /\ ~Working(o)' /\ agent'.busy = 0
                 /\ \A j \in DOMAIN down'[a] : down'[a][j].kind = "command" => j = i
                 /\ Reading(a)' => Awaits(a, o)' /\ journal'[o].seq = down'[a][i].seq /\ Unanswered(a)'
      <4>1. i \in Nat /\ i + 1 \in DOMAIN down[a] /\ down[a][i + 1].kind = "command" /\ o = down[a][i + 1].op
            /\ down'[a][i] = down[a][i + 1]
        BY <2>4, <3>2
      <4>2. /\ o \in Operations /\ journal[o].outcome = "PENDING" /\ ledger[o] = "NONE"
            /\ ~Working(o) /\ agent.busy = 0
            /\ \A j \in DOMAIN down[a] : down[a][j].kind = "command" => j = i + 1
            /\ Reading(a) => Awaits(a, o) /\ journal[o].seq = down[a][i + 1].seq /\ Unanswered(a)
        BY <2>9, <4>1 DEF DownInv
      <4>3. \A j \in DOMAIN down'[a] : down'[a][j].kind = "command" => j + 1 = i + 1 /\ j \in Nat
        BY <2>4, <4>2
      <4>4. \A j \in Nat : j + 1 = i + 1 => j = i
        BY SMT, <4>1
      <4> QED  BY <2>3, <2>5, <2>10, <2>11, <2>12, <3>1, <4>1, <4>2, <4>3, <4>4
    <3>3. DownInv(a)'
      BY <3>2 DEF DownInv, Awaits, Working
    <3>4. UpInv(a)' /\ HandlerInv(a)'
      <4>1. UpInv(a) /\ HandlerInv(a)
        BY <2>1 DEF StreamInv
      <4>2. UpInv(a)'
        BY <2>3, <2>6, <3>1, <4>1, <1>UpSame DEF NoNews
      <4> QED  BY <2>3, <2>5, <4>1, <4>2 DEF HandlerInv
    <3>5. StreamInv(a)'
      BY <2>7, <2>8, <3>3, <3>4 DEF StreamInv
    <3>6. ASSUME NEW q \in Streams \ {a} PROVE StreamInv(q)'
      <4>1. ~OnStream(q) /\ ~OnStream(q)'
        BY DEF OnStream
      <4>2. agent'.stream = agent.stream
        BY DEF OnStream
      <4> QED  BY <2>6, <3>1, <4>1, <4>2, DownIsOurs, OffStream
    <3> QED  BY <3>5, <3>6
  <2>13. CASE Head(down[a]).kind = "command" /\ \A o \in Operations : Working(o)' => o = Head(down[a]).op
    <3>1. PICK p \in Operations : p = Head(down[a]).op
      <4>1. 1 \in DOMAIN down[a] /\ Head(down[a]) = down[a][1] /\ down[a][1].kind = "command"
        BY <2>4, <2>13
      <4>2. down[a][1].op \in Operations
        BY <2>9, <4>1 DEF DownInv
      <4> QED  BY <4>1, <4>2
    <3>2. /\ Carried(p) /\ (Reading(a) => Unanswered(a))
          /\ \A j \in DOMAIN down[a] : down[a][j].kind = "command" => j = 1
      <4>1. 1 \in DOMAIN down[a] /\ down[a][1].op = p /\ down[a][1].kind = "command"
        BY <2>4, <2>13, <3>1
      <4>2. Carried(p)
        BY <4>1 DEF Carried
      <4>3. /\ Reading(a) => Unanswered(a)
            /\ \A j \in DOMAIN down[a] : down[a][j].kind = "command" => j = 1
        BY <2>9, <4>1 DEF DownInv
      <4> QED  BY <4>2, <4>3
    <3>3. ASSUME NEW i \in DOMAIN down'[a] PROVE down'[a][i].kind # "command"
      <4>1. i + 1 # 1 /\ i \in Nat
        <5>1. i \in Nat /\ i + 1 > 1
          BY <2>4
        <5> QED  BY SMT, <5>1
      <4> QED  BY <2>4, <3>2, <4>1
    <3>4. DownInv(a)'
      BY <3>3 DEF DownInv
    <3>5. UpInv(a)'
      <4>1. ASSUME NEW i \in DOMAIN up[a] PROVE up[a][i].kind \notin Reports
        <5>1. Reading(a)
          BY <2>1, EmptyIs DEF StreamInv, Lifecycle
        <5> QED  BY <3>2, <5>1 DEF Unanswered
      <4>2. "ack" \in Reports /\ "failure" \in Reports
        BY DEF Reports
      <4>3. UpInv(a)
        BY <2>1 DEF StreamInv
      <4> QED  BY <2>3, <4>1, <4>3, <1>UpSame DEF NoNews
    <3>6. HandlerInv(a)'
      <4>1. HandlerInv(a)
        BY <2>1 DEF StreamInv
      <4> QED  BY <2>3, <2>5, <4>1 DEF HandlerInv
    <3>7. StreamInv(a)'
      BY <2>7, <2>8, <3>4, <3>5, <3>6 DEF StreamInv
    <3>8. ASSUME NEW q \in Streams \ {a} PROVE StreamInv(q)'
      <4>1. ~OnStream(q) /\ ~OnStream(q)'
        BY DEF OnStream
      <4>2. agent'.stream = agent.stream
        BY DEF OnStream
      <4>3. \A o \in Operations : Working(o)' => Carried(o)
        BY <2>13, <3>1, <3>2
      <4> QED  BY <2>6, <4>1, <4>2, <4>3, DownIsOurs, OffStream
    <3> QED  BY <3>7, <3>8
  <2> QED  BY <2>12, <2>13

  \* The handshake is over.
<1>ConnectedKeeps.
  ASSUME IInv, Connected
  PROVE  IInv'
  <2> USE <1>ConnectedKeeps
  <2>1. Types /\ AgentInv /\ WorkerInv /\ LedgerInv /\ ProcessInv
    BY DEF IInv
  <2>2. /\ agent.pc = "hello" /\ worker.stage # "begin" /\ UNCHANGED <<Kept, srv>>
        /\ up' = up /\ worker' = worker /\ gate' = gate /\ proc' = proc
    BY DEF Connected
  <2>3. UNCHANGED <<durable, active, srv>> /\ UNCHANGED durable /\ srv' = srv
        /\ ledger' = ledger /\ effects' = effects /\ handle' = handle
    BY <2>2 DEF Kept
  <2>4. ~Serving /\ worker.stage = "idle"
    <3>1. ~Serving
      BY <2>2 DEF Serving
    <3>2. worker.stage \in {"idle", "begin", "wait", "ok", "failed"}
      BY <2>1 DEF Types, AgentTypes, WorkerType
    <3> QED  BY <2>1, <2>2, <3>1, <3>2 DEF WorkerInv
  <2>5. PICK a \in Streams : a = agent.stream /\ OnStream(a)
    <3>1. OnStream(agent.stream)
      BY <2>2 DEF OnStream
    <3> QED  BY <2>1, <3>1 DEF AgentInv
  <2>6. down[a] \in Seq(DownFrames) /\ down[a] # <<>>
    BY <2>1, <2>5 DEF Connected, Types, StreamTypes
  <2>7. Head(down[a]).val \in Nat
    <3>1. Head(down[a]) \in DownFrames
      BY <2>6, TailIs
    <3> QED  BY <3>1 DEF DownFrames
  <2>8. agent' = [agent EXCEPT !.epoch = Head(down[a]).val,
                    !.pc = IF Head(down[a]).val <= agent.epoch THEN "exit"
                           ELSE IF gate # Free THEN "cleanup" ELSE "serve"]
    BY <2>5 DEF Connected
  <2>9. PICK p \in {"exit", "cleanup", "serve"} : agent' = [agent EXCEPT !.epoch = Head(down[a]).val, !.pc = p]
    <3>1. (IF Head(down[a]).val <= agent.epoch THEN "exit"
             ELSE IF gate # Free THEN "cleanup" ELSE "serve") \in {"exit", "cleanup", "serve"}
      OBVIOUS
    <3> QED  BY <2>8, <3>1
  <2>10. /\ agent'.pc = p /\ agent'.stream = a /\ agent'.in = agent.in /\ agent'.out = agent.out
         /\ agent'.busy = agent.busy /\ agent'.renewal = agent.renewal
    BY <2>5, <2>9, AgentHas DEF AgentType
  <2>11. agent' \in AgentType
    <3>1. p \in {"dial", "hello", "serve", "cleanup", "exit", "dead"}
      BY <2>9
    <3> QED  BY <2>7, <2>9, <3>1, AgentHas DEF AgentType
  <2>12. /\ down'[a] = IF p = "serve" THEN Tail(down[a]) ELSE <<>>
         /\ \A q \in Streams \ {a} : down'[q] = down[q]
         /\ down' \in [Streams -> Seq(DownFrames)]
    <3>1. down \in [Streams -> Seq(DownFrames)]
      BY <2>1 DEF Types, StreamTypes
    <3>2. down' = [down EXCEPT ![a] = IF p = "serve" THEN Tail(down[a]) ELSE <<>>]
      BY <2>5, <2>10, <3>1 DEF Connected
    <3>3. Tail(down[a]) \in Seq(DownFrames) /\ <<>> \in Seq(DownFrames)
      BY <2>6, TailIs, EmptyIs
    <3> QED  BY <3>1, <3>2, <3>3
  <2>13. AgentTypes'
    BY <2>1, <2>2, <2>3, <2>11 DEF Types, AgentTypes
  <2>14. AgentInv' /\ WorkerInv'
    <3>1. agent.in = 0 /\ agent.out = 0 /\ agent.busy = 0 /\ agent.renewal = "no"
      BY <2>1, <2>4 DEF AgentInv
    <3>2. "idle" \notin {"wait", "ok", "failed"}
      OBVIOUS
    <3> QED  BY <2>2, <2>4, <2>10, <3>1, <3>2 DEF AgentInv, WorkerInv
  <2>15. LedgerInv' /\ ProcessInv'
    <3>1. agent'.pc \notin {"dial", "hello"}
      BY <2>9, <2>10
    <3>2. journal' = journal
      BY <2>3, DurableKept
    <3> QED  BY <2>1, <2>2, <2>3, <3>1, <3>2 DEF LedgerInv, ProcessInv
  <2>16. CommandInv'
    BY <2>2, <2>4 DEF CommandInv
  <2>17. \A q \in Streams : StreamInv(q)'
    <3>1. CASE p = "serve"
      <4>1. agent'.in \in Nat
        BY <2>10, AgentHas
      <4> QED  BY <2>2, <2>3, <2>5, <2>6, <2>10, <2>12, <3>1, <4>1, <1>TakeKept
    <3>2. CASE p # "serve"
      <4>1. p \notin {"hello", "serve"}
        BY <2>9, <3>2
      <4>2. ASSUME NEW q \in Streams PROVE ~OnStream(q)' /\ down'[q] = <<>>
        <5>1. q # a => down[q] = <<>>
          BY <2>5, DownIsOurs DEF OnStream
        <5> QED  BY <2>10, <2>12, <3>2, <4>1, <5>1 DEF OnStream
      <4>3. \A o : (Working(o)' => Working(o)) /\ (Carried(o)' => Carried(o))
        BY <2>2, <4>2, EmptyIs DEF Working, Carried
      <4> QED  BY <2>2, <2>3, <2>5, <2>10, <4>2, <4>3, OffStream
    <3> QED  BY <3>1, <3>2
  <2>18. up' \in [Streams -> Seq(UpFrames)]
    BY <2>1, <2>2 DEF Types, StreamTypes
  <2> QED  BY <2>3, <2>12, <2>13, <2>14, <2>15, <2>16, <2>17, <2>18, AgentKept

  \* agentd goes on serving, and may have sent a frame that is no report.
<1>StayKeeps.
  ASSUME IInv, Serving, UNCHANGED <<Kept, srv, down, worker, gate, proc>>, agent' \in AgentType,
         agent'.pc = "serve", agent'.stream = agent.stream, agent'.in = agent.in, agent'.busy = agent.busy,
         \/ up' = up /\ agent'.out = agent.out
         \/ /\ agent'.out = agent.out + 1
            /\ \E f \in UpFrames : /\ f.kind \notin Reports /\ f.seq = agent.out + 1
                                   /\ f.op \in {0, agent.busy} /\ (f.kind = "heartbeat" => f.val = agent.in)
                                   /\ Transmit(<<f>>)
  PROVE  IInv'
  <2> USE <1>StayKeeps
  <2>1. Types /\ AgentInv /\ WorkerInv /\ LedgerInv /\ ProcessInv
    BY DEF IInv
  <2>2. /\ UNCHANGED <<durable, active, srv>> /\ UNCHANGED durable /\ srv' = srv /\ down' = down /\ worker' = worker
        /\ gate' = gate /\ proc' = proc /\ ledger' = ledger /\ effects' = effects /\ handle' = handle
    BY DEF Kept
  <2>3. PICK a \in Streams : a = agent.stream /\ OnStream(a) /\ OnStream(a)'
    <3>1. OnStream(agent.stream) /\ OnStream(agent.stream)'
      BY DEF OnStream, Serving
    <3> QED  BY <2>1, <3>1 DEF AgentInv
  <2>4. journal' = journal /\ bound' = bound
    BY <2>2, DurableKept
  <2>5. Serving'
    BY DEF Serving
  <2>6. AgentTypes' /\ AgentInv' /\ WorkerInv' /\ LedgerInv'
    <3>1. AgentTypes'
      BY <2>1, <2>2 DEF Types, AgentTypes
    <3>2. AgentInv' /\ WorkerInv' /\ LedgerInv'
      BY <2>1, <2>2, <2>3, <2>4, <2>5 DEF AgentInv, WorkerInv, LedgerInv
    <3> QED  BY <3>1, <3>2
  <2>7. ProcessInv'
    <3>1. agent'.pc \notin {"dial", "hello"}
      OBVIOUS
    <3> QED  BY <2>1, <2>2, <3>1 DEF ProcessInv
  <2>8. \A o : (Working(o)' <=> Working(o)) /\ (Carried(o)' <=> Carried(o))
    BY <2>2 DEF Working, Carried
  <2>9. /\ up' \in [Streams -> Seq(UpFrames)]
        /\ \A q \in Streams \ {a} : up'[q] = up[q]
        /\ \/ up'[a] = up[a] /\ (Reading(a) => agent'.out = agent.out)
           \/ /\ Reading(a) /\ agent'.out = agent.out + 1
              /\ \E f \in UpFrames : /\ f.kind \notin Reports /\ f.seq = agent.out + 1
                                     /\ f.op \in {0, agent.busy} /\ (f.kind = "heartbeat" => f.val = agent.in)
                                     /\ up'[a] = Append(up[a], f)
    <3>1. CASE up' = up /\ agent'.out = agent.out
      BY <2>1, <3>1 DEF Types, StreamTypes
    <3>2. CASE agent'.out = agent.out + 1 /\
               \E f \in UpFrames : /\ f.kind \notin Reports /\ f.seq = agent.out + 1
                                   /\ f.op \in {0, agent.busy} /\ (f.kind = "heartbeat" => f.val = agent.in)
                                   /\ Transmit(<<f>>)
      <4>1. PICK f \in UpFrames : /\ f.kind \notin Reports /\ f.seq = agent.out + 1
                                  /\ f.op \in {0, agent.busy} /\ (f.kind = "heartbeat" => f.val = agent.in)
                                  /\ Transmit(<<f>>)
        BY <3>2
      <4>2. /\ up' \in [Streams -> Seq(UpFrames)]
            /\ up'[a] = (IF Reading(a) THEN Append(up[a], f) ELSE up[a])
            /\ \A q \in Streams \ {a} : up'[q] = up[q]
        BY <2>1, <2>3, <4>1, <1>TransmitIs
      <4> QED  BY <3>2, <4>1, <4>2
    <3> QED  BY <3>1, <3>2
  <2>10. StreamInv(a)' /\ (Unanswered(a) => Unanswered(a)')
    <3>1. CASE up'[a] = up[a] /\ (Reading(a) => agent'.out = agent.out)
      <4>1. StreamInv(a) /\ (Reading(a)' <=> Reading(a)) /\ (Begun(a)' <=> Begun(a))
        BY <2>2 DEF IInv, Reading, Begun
      <4>2. Unanswered(a)' <=> Unanswered(a)
        BY <2>2, <3>1 DEF Unanswered
      <4>3. \A o : Awaits(a, o)' <=> Awaits(a, o)
        BY <2>2, <2>4 DEF Awaits
      <4>4. Lifecycle(a)' /\ Counters(a)'
        BY <2>2, <2>3, <2>5, <3>1, <4>1 DEF StreamInv, Lifecycle, Counters
      <4>5. DownInv(a)'
        BY <2>2, <2>4, <2>8, <4>1, <4>2, <4>3 DEF StreamInv, DownInv
      <4>6. UpInv(a)'
        BY <2>2, <2>4, <2>8, <3>1, <4>1, <1>UpSame DEF StreamInv, NoNews
      <4>7. HandlerInv(a)'
        BY <2>2, <2>4, <3>1, <4>1 DEF StreamInv, HandlerInv
      <4> QED  BY <4>2, <4>4, <4>5, <4>6, <4>7 DEF StreamInv
    <3>2. CASE /\ Reading(a) /\ agent'.out = agent.out + 1
               /\ \E f \in UpFrames : /\ f.kind \notin Reports /\ f.seq = agent.out + 1
                                      /\ f.op \in {0, agent.busy} /\ (f.kind = "heartbeat" => f.val = agent.in)
                                      /\ up'[a] = Append(up[a], f)
      BY <2>2, <2>3, <3>2, <1>PlainFrame
    <3> QED  BY <2>9, <3>1, <3>2
  <2>11. ASSUME NEW q \in Streams \ {a} PROVE StreamInv(q)' /\ (Unanswered(q) => Unanswered(q)')
    <3>1. ~OnStream(q) /\ ~OnStream(q)'
      BY <2>3 DEF OnStream
    <3>2. down'[q] = <<>> /\ up'[q] = up[q]
      BY <2>2, <2>9, <3>1, DownIsOurs
    <3>3. StreamInv(q)'
      BY <2>2, <2>8, <3>1, <3>2, OffStream
    <3> QED  BY <2>2, <3>2, <3>3 DEF Unanswered
  <2>12. \A q \in Streams : StreamInv(q)' /\ (Unanswered(q) => Unanswered(q)')
    BY <2>10, <2>11
  <2>13. CommandInv'
    BY <2>2, <2>12, CommandKept
  <2>14. down' \in [Streams -> Seq(DownFrames)]
    BY <2>1, <2>2 DEF Types, StreamTypes
  <2> QED  BY <2>2, <2>6, <2>7, <2>9, <2>12, <2>13, <2>14, AgentKept

  \* The renewal of the credential is due.
<1>RenewalDueKeeps.
  ASSUME IInv, RenewalDue
  PROVE  IInv'
  <2> USE <1>RenewalDueKeeps
  <2>1. /\ agent \in AgentType /\ agent.out \in Nat /\ Serving
        /\ UNCHANGED <<Kept, srv, down, worker, gate, proc>>
    BY AgentHas DEF RenewalDue
  <2>2. "asked" \in {"no", "due", "asked"} /\ "due" \in {"no", "due", "asked"} /\ agent.out + 1 \in Nat
    BY SMT, <2>1
  <2>3. CASE agent.busy = 0
    <3>1. /\ agent' = [agent EXCEPT !.renewal = "asked", !.out = @ + 1]
          /\ Transmit(<<Frame("request", agent.out + 1, 0, 0)>>)
      BY <2>3 DEF RenewalDue
    <3>2. /\ agent' \in AgentType /\ agent'.pc = agent.pc /\ agent'.stream = agent.stream
          /\ agent'.in = agent.in /\ agent'.busy = agent.busy /\ agent'.out = agent.out + 1
      BY <2>1, <2>2, <3>1 DEF AgentType
    <3> DEFINE f == Frame("request", agent.out + 1, 0, 0)
    <3>3. f = [kind |-> "request", seq |-> agent.out + 1, op |-> 0, val |-> 0]
      BY DEF Frame
    <3>4. "request" \in AgentFrames /\ "request" \notin Reports /\ "request" # "heartbeat" /\ 0 \in Places /\ 0 \in Nat
      BY DEF AgentFrames, Reports, Places
    <3>5. f \in UpFrames /\ f.kind = "request" /\ f.seq = agent.out + 1 /\ f.op = 0
      BY SMT, <2>2, <3>3, <3>4 DEF UpFrames
    <3> HIDE DEF f
    <3>6. Transmit(<<f>>)
      BY <3>1 DEF f
    <3> QED  BY <2>1, <3>2, <3>4, <3>5, <3>6, <1>StayKeeps DEF Serving
  <2>4. CASE agent.busy # 0
    <3>1. agent' = [agent EXCEPT !.renewal = "due"] /\ up' = up
      BY <2>4 DEF RenewalDue
    <3>2. /\ agent' \in AgentType /\ agent'.pc = agent.pc /\ agent'.stream = agent.stream
          /\ agent'.in = agent.in /\ agent'.busy = agent.busy /\ agent'.out = agent.out
      BY <2>1, <2>2, <3>1 DEF AgentType
    <3> QED  BY <2>1, <3>1, <3>2, <1>StayKeeps DEF Serving
  <2> QED  BY <2>3, <2>4

  \* A heartbeat.
<1>BeatKeeps.
  ASSUME IInv, Beat
  PROVE  IInv'
  <2> USE <1>BeatKeeps
  <2>1. /\ agent \in AgentType /\ agent.out \in Nat /\ agent.beats \in Nat /\ agent.in \in Nat
        /\ agent.busy \in Places /\ Serving /\ UNCHANGED <<Kept, srv, down, worker, gate, proc>>
        /\ agent' = [agent EXCEPT !.beats = @ + 1, !.out = @ + 1]
        /\ Transmit(<<Heartbeat(agent.out + 1, agent.busy)>>)
    BY AgentHas DEF Beat
  <2>2. agent.beats + 1 \in Nat /\ agent.out + 1 \in Nat
    BY SMT, <2>1
  <2>3. /\ agent' \in AgentType /\ agent'.pc = agent.pc /\ agent'.stream = agent.stream
        /\ agent'.in = agent.in /\ agent'.busy = agent.busy /\ agent'.out = agent.out + 1
    BY <2>1, <2>2 DEF AgentType
  <2> DEFINE f == Heartbeat(agent.out + 1, agent.busy)
  <2>4. f = [kind |-> "heartbeat", seq |-> agent.out + 1, op |-> agent.busy, val |-> agent.in]
    BY DEF Heartbeat, Frame
  <2>5. "heartbeat" \in AgentFrames /\ "heartbeat" \notin Reports
    BY DEF AgentFrames, Reports
  <2>6. f \in UpFrames /\ f.kind = "heartbeat" /\ f.seq = agent.out + 1 /\ f.op = agent.busy /\ f.val = agent.in
    BY SMT, <2>1, <2>2, <2>4, <2>5 DEF UpFrames
  <2> HIDE DEF f
  <2>7. Transmit(<<f>>)
    BY <2>1 DEF f
  <2> QED  BY <2>1, <2>3, <2>5, <2>6, <2>7, <1>StayKeeps DEF Serving

  \* agentd takes a receipt or a command off its stream.
<1>TakeKeeps.
  ASSUME NEW a \in Streams, IInv, Serving, a = agent.stream, UNCHANGED <<Kept, srv, up, gate, proc>>,
         down[a] # <<>>, down' = [down EXCEPT ![a] = Tail(@)],
         \/ agent' = [agent EXCEPT !.in = Head(down[a]).seq] /\ worker' = worker
         \/ /\ Head(down[a]).kind = "command"
            /\ agent' = [agent EXCEPT !.in = Head(down[a]).seq, !.busy = Head(down[a]).op]
            /\ worker' = [op |-> Head(down[a]).op, stream |-> a, seq |-> Head(down[a]).seq, stage |-> "begin"]
  PROVE  IInv'
  <2> USE <1>TakeKeeps
  <2>1. Types /\ AgentInv /\ WorkerInv /\ LedgerInv /\ ProcessInv /\ DownInv(a) /\ Lifecycle(a)
    BY DEF IInv, StreamInv
  <2>2. /\ UNCHANGED <<durable, active, srv>> /\ UNCHANGED durable /\ srv' = srv /\ up' = up
        /\ gate' = gate /\ proc' = proc /\ ledger' = ledger /\ effects' = effects /\ handle' = handle
    BY DEF Kept
  <2> DEFINE f == Head(down[a])
  <2>3. down[a] \in Seq(DownFrames) /\ Tail(down[a]) \in Seq(DownFrames) /\ f \in DownFrames
        /\ 1 \in DOMAIN down[a] /\ f = down[a][1]
    <3>1. down[a] \in Seq(DownFrames)
      BY <2>1 DEF Types, StreamTypes
    <3> QED  BY <3>1, TailIs
  <2>4. f.seq \in Nat /\ f.op \in Places
    BY <2>3 DEF DownFrames
  <2>5. /\ down'[a] = Tail(down[a]) /\ \A q \in Streams \ {a} : down'[q] = down[q]
        /\ down' \in [Streams -> Seq(DownFrames)]
    BY <2>1, <2>3 DEF Types, StreamTypes
  <2>6. journal' = journal /\ bound' = bound
    BY <2>2, DurableKept
  <2>7. OnStream(a) /\ Begun(a)
    <3>1. OnStream(a)
      BY DEF OnStream, Serving
    <3> QED  BY <2>1, <3>1 DEF Lifecycle
  <2>8. agent \in AgentType /\ worker \in WorkerType
    BY AgentHas
  <2> HIDE DEF f
  <2>9. /\ agent' \in AgentType /\ agent'.pc = "serve" /\ agent'.stream = a /\ agent'.out = agent.out
        /\ agent'.in = f.seq
    <3>1. CASE agent' = [agent EXCEPT !.in = f.seq]
      BY <2>4, <2>8, <3>1 DEF AgentType, Serving
    <3>2. CASE agent' = [agent EXCEPT !.in = f.seq, !.busy = f.op]
      BY <2>4, <2>8, <3>2 DEF AgentType, Serving
    <3> QED  BY <3>1, <3>2 DEF f
  <2>10. Serving' /\ ProcessInv' /\ LedgerInv'
    <3>1. agent'.pc \notin {"dial", "hello"}
      BY <2>9
    <3> QED  BY <2>1, <2>2, <2>6, <2>9, <3>1 DEF ProcessInv, LedgerInv, Serving
  <2>11. AgentInv'
    BY <2>9, <2>10 DEF AgentInv
  <2>12. up' \in [Streams -> Seq(UpFrames)]
    BY <2>1, <2>2 DEF Types, StreamTypes
  <2>13. CASE agent' = [agent EXCEPT !.in = f.seq] /\ worker' = worker
    <3>1. agent'.busy = agent.busy
      BY <2>8, <2>13 DEF AgentType
    <3>2. WorkerInv' /\ AgentTypes'
      BY <2>1, <2>2, <2>9, <2>10, <2>13, <3>1 DEF WorkerInv, Types, AgentTypes
    <3>3. \A q \in Streams : StreamInv(q)'
      BY <2>2, <2>4, <2>5, <2>7, <2>9, <2>13, <3>1, <1>TakeKept DEF f
    <3>4. \A q \in Streams : Unanswered(q) => Unanswered(q)'
      BY <2>2 DEF Unanswered
    <3>5. CommandInv'
      BY <2>2, <2>13, <3>4, CommandKept
    <3> QED  BY <2>2, <2>5, <2>10, <2>11, <2>12, <3>2, <3>3, <3>5, AgentKept
  <2>14. CASE /\ f.kind = "command" /\ agent' = [agent EXCEPT !.in = f.seq, !.busy = f.op]
              /\ worker' = [op |-> f.op, stream |-> a, seq |-> f.seq, stage |-> "begin"]
    <3>1. /\ f.op \in Operations /\ journal[f.op].outcome = "PENDING" /\ ledger[f.op] = "NONE"
          /\ Reading(a) => Awaits(a, f.op) /\ journal[f.op].seq = f.seq /\ Unanswered(a)
      BY <2>1, <2>3, <2>14 DEF DownInv
    <3>2. agent'.busy = f.op
      BY <2>8, <2>14 DEF AgentType
    <3>3. worker'.op = f.op /\ worker'.stream = a /\ worker'.seq = f.seq /\ worker'.stage = "begin"
      BY <2>14
    <3>4. worker'.stage # "idle" /\ worker'.stage \notin {"wait", "ok", "failed"} /\ worker'.stage # "ok"
          /\ worker'.stage \notin {"wait", "failed"}
      BY <3>3
    <3>5. worker' \in WorkerType
      <4>1. "begin" \in {"idle", "begin", "wait", "ok", "failed"} /\ a \in 0..MaxDials
        BY SMT DEF Streams
      <4> QED  BY <2>4, <2>14, <4>1 DEF WorkerType
    <3>6. WorkerInv' /\ AgentTypes'
      BY <2>1, <2>2, <2>9, <2>10, <3>2, <3>3, <3>4, <3>5 DEF WorkerInv, Types, AgentTypes
    <3>7. CommandInv'
      BY <2>2, <2>6, <2>7, <3>1, <3>3, <3>4 DEF CommandInv, Begun, Reading, Awaits, Unanswered
    <3>8. \A o \in Operations : Working(o)' => o = f.op
      BY <3>3 DEF Working
    <3>9. \A q \in Streams : StreamInv(q)'
      BY <2>2, <2>4, <2>5, <2>7, <2>9, <2>14, <3>8, <1>TakeKept DEF f
    <3> QED  BY <2>2, <2>5, <2>10, <2>11, <2>12, <3>6, <3>7, <3>9, AgentKept
  <2> QED  BY <2>13, <2>14 DEF f

  \* agentd receives a frame.
<1>ReceiveKeeps.
  ASSUME IInv, Receive
  PROVE  IInv'
  <2> USE <1>ReceiveKeeps
  <2>1. PICK a \in Streams : a = agent.stream
    BY DEF IInv, AgentInv, OnStream, Receive, Serving
  <2>2. Serving /\ down[a] # <<>> /\ UNCHANGED <<Kept, srv, up, gate, proc>>
    BY <2>1 DEF Receive
  <2>3. CASE Drop
    BY <2>2, <2>3, <1>DropKeeps
  <2>4. CASE Depart([Renewed(Head(down[a]).val) EXCEPT !.pc = "cleanup"])
    <3>1. agent \in AgentType /\ proc \in {"none", "starting", "running", "stopped"}
      BY AgentHas
    <3>2. Head(down[a]).val \in Nat /\ 0 \in Nat
      <4>1. down[a] \in Seq(DownFrames)
        BY DEF IInv, Types, StreamTypes
      <4>2. Head(down[a]) \in DownFrames
        BY <2>2, <4>1, TailIs
      <4> QED  BY <4>2 DEF DownFrames
    <3> DEFINE b == [Renewed(Head(down[a]).val) EXCEPT !.pc = "cleanup"]
    <3>3. "cleanup" \in {"dial", "hello", "serve", "cleanup", "exit", "dead"}
      OBVIOUS
    <3>4. b \in AgentType /\ b.stream = agent.stream /\ b.pc = "cleanup"
      BY <3>1, <3>2, <3>3 DEF AgentType, Renewed
    <3> HIDE DEF b
    <3>5. Depart(b) /\ UNCHANGED Kept /\ srv' = srv /\ gate' = gate /\ proc' = proc /\ up' = up
      BY <2>2, <2>4 DEF b
    <3> QED  BY <3>1, <3>4, <3>5, <1>DepartKeeps
  <2>5. CASE /\ agent' = [agent EXCEPT !.in = Head(down[a]).seq] /\ worker' = worker
             /\ down' = [down EXCEPT ![a] = Tail(@)]
    BY <2>1, <2>2, <2>5, <1>TakeKeeps
  <2>6. CASE /\ Head(down[a]).kind = "command"
             /\ agent' = [agent EXCEPT !.in = Head(down[a]).seq, !.busy = Head(down[a]).op]
             /\ worker' = [op |-> Head(down[a]).op, stream |-> a, seq |-> Head(down[a]).seq, stage |-> "begin"]
             /\ down' = [down EXCEPT ![a] = Tail(@)]
    BY <2>1, <2>2, <2>6, <1>TakeKeeps
  <2> QED  BY <2>1, <2>3, <2>4, <2>5, <2>6 DEF Receive
<1> QED  BY <1>CredentialExpiredKeeps, <1>DialFailsKeeps, <1>ConnectedKeeps, <1>CleanupKeeps, <1>ExitKeeps,
            <1>LostKeeps, <1>RenewalDueKeeps, <1>BeatKeeps, <1>ReceiveKeeps, <1>DeadlineNearKeeps,
            <1>TerminateKeeps, DialKeeps, ReportKeeps, WorkKeeps DEF Agentd

-----------------------------------------------------------------------------
(* The invariant *)

\* The bootstrap credential is registered, and nothing else has happened.
LEMMA InitKeeps ==
  ASSUME Init
  PROVE  IInv
<1>1. /\ row = [version |-> 2, latest |-> 1, consumed |-> FALSE, epoch |-> 0,
                open |-> FALSE, cred |-> 0, deadline |-> "none"]
      /\ expired = 0 /\ authorised = TRUE /\ journal = [o \in Operations |-> Unclaimed] /\ bound = FALSE
      /\ srv = [r \in Streams |-> Fresh] /\ active = 0
      /\ up = [r \in Streams |-> <<>>] /\ down = [r \in Streams |-> <<>>]
      /\ agent = [pc |-> "dial", stream |-> 0, cred |-> 1, proof |-> TRUE,
                  epoch |-> 0, failures |-> 0, in |-> 0, out |-> 0, busy |-> 0, renewal |-> "no", beats |-> 0]
      /\ worker = Idle /\ gate = Free /\ proc = "none" /\ handle = FALSE
      /\ ledger = [o \in Operations |-> "NONE"] /\ effects = [o \in Operations |-> 0]
  BY DEF Init
<1>2. /\ MaxDials \in Nat /\ MaxCredentials \in Nat /\ MaxCredentials >= 1
      /\ 0 \in 0..MaxDials /\ 0 \in 0..MaxCredentials /\ 1 \in 1..MaxCredentials
  <2>1. MaxDials \in Nat /\ MaxCredentials \in Nat /\ MaxCredentials >= 1
    BY ConnectionConstants
  <2>2. \A n \in Nat : n >= 1 => 1 <= n
    OBVIOUS
  <2> QED  BY <2>1, <2>2, Bounds
<1>3. /\ row \in RowType /\ row.deadline = "none" /\ ~row.open /\ row.cred = 0
  BY <1>1, <1>2 DEF RowType
<1>4. Unclaimed \in JournalType /\ Unclaimed.outcome = "ABSENT"
  BY DEF Unclaimed, JournalType
<1>5. /\ Idle \in WorkerType /\ Idle.stage = "idle"
  BY <1>2 DEF Idle, WorkerType, Places
<1>6. /\ agent \in AgentType /\ agent.pc = "dial" /\ agent.stream = 0 /\ agent.in = 0 /\ agent.out = 0
      /\ agent.busy = 0 /\ agent.renewal = "no"
  BY <1>1, <1>2 DEF AgentType, Places
<1>7. Free \in GateType
  BY DEF Free, GateType, Places
<1>8. /\ <<>> \in Seq(UpFrames) /\ <<>> \in Seq(DownFrames) /\ DOMAIN <<>> = {}
  BY EmptyIs
<1>9. Types
  <2>1. RowTypes
    BY <1>1, <1>2, <1>3 DEF RowTypes
  <2>2. srv \in [Streams -> ServerType]
    BY <1>1, FreshIs
  <2>3. up \in [Streams -> Seq(UpFrames)] /\ down \in [Streams -> Seq(DownFrames)]
    BY <1>1, <1>8
  <2>4. active \in {0} \cup Streams
    BY <1>1
  <2>5. JournalTypes
    <3>1. bound \in BOOLEAN
      BY <1>1
    <3> QED  BY <1>1, <1>4, <3>1 DEF JournalTypes
  <2>6. /\ proc \in {"none", "starting", "running", "stopped"} /\ handle \in BOOLEAN
        /\ ledger \in [Operations -> {"NONE", "FAILED", "DONE"}] /\ effects \in [Operations -> Nat]
    BY <1>1
  <2> QED  BY <1>1, <1>5, <1>6, <1>7, <2>1, <2>2, <2>3, <2>4, <2>5, <2>6 DEF Types, StreamTypes, AgentTypes
<1>10. RowInv
  BY <1>3 DEF RowInv, SupersededIsCapped
<1>11. \A r \in Streams : srv[r] = Fresh /\ srv[r].pc = "none" /\ up[r] = <<>> /\ down[r] = <<>>
  BY <1>1, FreshIs
<1>12. \A r \in Streams : ~Reading(r) /\ ~Numbered(r) /\ ~Accepted(r)
  BY <1>11 DEF Reading, Numbered, Accepted
<1>13. Epochs
  BY <1>1, <1>12 DEF Epochs
<1>14. ~Serving /\ \A r : ~OnStream(r)
  BY <1>6 DEF Serving, OnStream
<1>15. AgentInv
  BY <1>6, <1>14 DEF AgentInv
<1>16. worker.stage = "idle" /\ worker.stage \notin {"wait", "ok", "failed"}
  BY <1>1, <1>5
<1>17. WorkerInv /\ CommandInv
  BY <1>14, <1>16 DEF WorkerInv, CommandInv
<1>18. LedgerInv
  BY <1>1 DEF LedgerInv
<1>19. ProcessInv
  BY <1>1 DEF ProcessInv
<1>20. ASSUME NEW r \in Streams PROVE StreamInv(r)
  <2>1. DOMAIN up[r] = {} /\ DOMAIN down[r] = {}
    BY <1>8, <1>11
  <2>2. Lifecycle(r)
    BY <1>11, <1>14, FreshIs DEF Lifecycle
  <2>3. Counters(r) /\ HandlerInv(r)
    BY <1>12 DEF Counters, HandlerInv
  <2>4. DownInv(r) /\ UpInv(r)
    BY <2>1 DEF DownInv, UpInv
  <2> QED  BY <2>2, <2>3, <2>4 DEF StreamInv
<1> QED  BY <1>9, <1>10, <1>13, <1>15, <1>17, <1>18, <1>19, <1>20 DEF IInv

\* A step that changes nothing.
LEMMA StutterKeeps ==
  ASSUME IInv, UNCHANGED vars
  PROVE  IInv'
<1>1. /\ UNCHANGED <<durable, srv, active, up, down, agent>> /\ UNCHANGED durable
      /\ agent' = agent /\ worker' = worker /\ gate' = gate /\ proc' = proc /\ handle' = handle
      /\ ledger' = ledger /\ effects' = effects /\ srv' = srv /\ up' = up
  BY DEF vars, durable
<1>2. journal' = journal
  BY <1>1, DurableKept
<1>3. AgentTypes' /\ WorkerInv' /\ LedgerInv' /\ ProcessInv'
  BY <1>1, <1>2 DEF IInv, Types, AgentTypes, WorkerInv, LedgerInv, ProcessInv, Serving
<1>4. \A q \in Streams : Unanswered(q) => Unanswered(q)'
  BY <1>1 DEF Unanswered
<1>5. CommandInv'
  BY <1>1, <1>4, CommandKept
<1>6. \A o \in Operations : Working(o)' => Working(o)
  BY <1>1 DEF Working
<1> QED  BY <1>1, <1>3, <1>5, <1>6, WorkKept

\* The inductive invariant, for every plan and any number of streams,
\* credentials, failures and heartbeats.
THEOREM ConnectionInvariant == Spec => []IInv
<1>1. Init => IInv
  BY InitKeeps
<1>2. IInv /\ [Next]_vars => IInv'
  BY ServerSideKeeps, AgentSideKeeps, StutterKeeps DEF Next
<1> QED  BY <1>1, <1>2, PTL DEF Spec

-----------------------------------------------------------------------------
(* What follows from it *)

\* Through closes, take-overs and renewals that race, the credential row
\* belongs to the connection served under its epoch, and a credential with a
\* registered successor stays capped.
THEOREM ConnectionHolds == Spec => []ConnectionInv
<1>1. ASSUME IInv PROVE ConnectionInv
  <2>1. Types /\ RowInv /\ Epochs
    BY <1>1 DEF IInv
  <2>2. \A r \in Streams :
          /\ srv[r].pc \in {"none", "hello", "admitted", "checked", "open",
                            "renew", "commit", "reply", "settle", "closing", "closed"}
          /\ \A i \in DOMAIN up[r] : up[r][i].kind \in AgentFrames
          /\ \A i \in DOMAIN down[r] : down[r][i].kind \in ServerFrames
    <3>1. ASSUME NEW r \in Streams
          PROVE  srv[r].pc \in {"none", "hello", "admitted", "checked", "open",
                                "renew", "commit", "reply", "settle", "closing", "closed"}
      <4>1. srv[r].pc \in ServerStates
        BY <2>1 DEF Types, StreamTypes, ServerType
      <4> QED  BY <4>1 DEF ServerStates, ServingStates
    <3>2. ASSUME NEW r \in Streams, NEW i \in DOMAIN up[r] PROVE up[r][i].kind \in AgentFrames
      <4>1. up[r][i] \in UpFrames
        BY SMT, <2>1 DEF Types, StreamTypes
      <4> QED  BY <4>1 DEF UpFrames
    <3>3. ASSUME NEW r \in Streams, NEW i \in DOMAIN down[r] PROVE down[r][i].kind \in ServerFrames
      <4>1. down[r][i] \in DownFrames
        BY SMT, <2>1 DEF Types, StreamTypes
      <4> QED  BY <4>1 DEF DownFrames
    <3> QED  BY <3>1, <3>2, <3>3
  <2>3. /\ agent.pc \in {"dial", "hello", "serve", "cleanup", "exit", "dead"}
        /\ worker.stage \in {"idle", "begin", "wait", "ok", "failed"}
        /\ gate.stage \in {"free", "launch", "init", "turn", "stop"}
    BY <2>1 DEF Types, AgentTypes, AgentType, WorkerType, GateType
  <2>4. TypeOK
    BY <2>1, <2>2, <2>3 DEF TypeOK, Types, RowTypes, RowType, StreamTypes, JournalTypes, JournalType,
       AgentTypes, RowInv
  <2>5. ReplacementKept
    BY <2>1 DEF ReplacementKept, Epochs, Accepted
  <2> QED  BY <2>1, <2>4, <2>5 DEF ConnectionInv, RowInv
<1> QED  BY <1>1, ConnectionInvariant, PTL

\* AR never refuses the next frame of a connection that is still current,
\* whatever was sent before on this stream or on others.
THEOREM FramesHold == Spec => []FramesAccepted
<1>1. ASSUME IInv PROVE FramesAccepted
  <2>1. SUFFICES ASSUME NEW r \in Streams, Reading(r), up[r] # <<>>, Current(srv[r])
                 PROVE  Authorized(Head(up[r]), srv[r])
    BY DEF FramesAccepted
  <2>2. Types /\ StreamInv(r)
    BY <1>1 DEF IInv
  <2>3. up[r] \in Seq(UpFrames)
    BY <2>2 DEF Types, StreamTypes
  <2>4. /\ 1 \in DOMAIN up[r] /\ Head(up[r]) = up[r][1] /\ Head(up[r]) \in UpFrames
    BY <2>1, <2>3, TailIs
  <2>5. ~\E j \in DOMAIN up[r] : j < 1
    BY SMT, <2>3
  <2>6. PICK f \in UpFrames : f = up[r][1] /\ f = Head(up[r])
    BY <2>4
  <2>7. f.seq = srv[r].got + 1 /\ (f.kind = "heartbeat" => f.val <= srv[r].sent)
    BY <2>1, <2>2, <2>4, <2>6 DEF StreamInv, Counters
  <2>8. /\ f.op # 0 => Awaits(r, f.op)
        /\ f.kind \in Reports => f.op # 0
        /\ f.kind = "ack" => f.val = journal[f.op].seq /\ (Plan[f.op] = "START" => bound)
    BY <2>2, <2>4, <2>5, <2>6 DEF StreamInv, UpInv
  <2>9. /\ f.op # 0 => Pending(f.op, srv[r])
        /\ f.op # 0 => /\ Report(f, srv[r]) /\ journal[f.op].outcome \in {"PENDING", "ACKNOWLEDGED"}
                       /\ journal[f.op].outcome \in {"PENDING", "UNKNOWN"}
    <3>1. "PENDING" # "ABSENT" /\ "PENDING" \in {"PENDING", "ACKNOWLEDGED"} /\ "PENDING" \in {"PENDING", "UNKNOWN"}
      OBVIOUS
    <3> QED  BY <2>8, <3>1 DEF Awaits, Pending, Report
  <2>10. f.kind \in {"thread", "ack", "failure"} => f.op # 0
    BY <2>8 DEF Reports
  <2>11. Authorized(f, srv[r])
    BY <2>1, <2>7, <2>8, <2>9, <2>10 DEF Authorized
  <2> QED  BY <2>6, <2>11
<1> QED  BY <1>1, ConnectionInvariant, PTL

\* While agentd is without a stream, the only process that can be left is one
\* whose launch still holds the gate and has lost its caller.
THEOREM NoWorkHolds == Spec => []NoAutonomousWork
<1>1. ASSUME IInv PROVE NoAutonomousWork
  <2>1. WorkerInv /\ ProcessInv
    BY <1>1 DEF IInv
  <2>2. agent.pc \in {"dial", "hello"} => ~Serving
    BY DEF Serving
  <2>3. agent.pc \in {"dial", "hello"} => ~Awaited
    <3>1. Awaited => worker.stage \in {"wait", "ok", "failed"}
      BY DEF Awaited
    <3> QED  BY <2>1, <2>2, <3>1 DEF WorkerInv
  <2> QED  BY <2>1, <2>3 DEF NoAutonomousWork, ProcessInv
<1> QED  BY <1>1, ConnectionInvariant, PTL

\* What a step of agentd leaves alone: the database, and the ledger unless the
\* worker or the child is at work.
LEMMA AgentdIs ==
  ASSUME Agentd
  PROVE  /\ active' = active /\ journal' = journal
         /\ (ledger' = ledger /\ effects' = effects) \/ Execute \/ Supervise
<1>1. ASSUME UNCHANGED Kept
      PROVE  active' = active /\ journal' = journal /\ ledger' = ledger /\ effects' = effects
  BY <1>1 DEF Kept, durable
<1>2. CASE Dial \/ CredentialExpired \/ DialFails \/ Connected
  <2>1. UNCHANGED Kept
    BY <1>2 DEF Dial, CredentialExpired, DialFails, Connected, Kept
  <2> QED  BY <1>1, <2>1
<1>3. CASE Cleanup \/ Exit \/ Lost \/ RenewalDue \/ Beat
  <2>1. UNCHANGED Kept
    BY <1>3 DEF Cleanup, Exit, Lost, RenewalDue, Beat, Kept
  <2> QED  BY <1>1, <2>1
<1>4. CASE Receive \/ Result \/ DeadlineNear \/ Terminate
  <2>1. UNCHANGED Kept
    BY <1>4 DEF Receive, Result, DeadlineNear, Terminate, Kept
  <2> QED  BY <1>1, <2>1
<1>5. CASE Execute
  BY <1>5 DEF Execute, durable
<1>6. CASE Supervise
  BY <1>6 DEF Supervise, durable
<1> QED  BY <1>2, <1>3, <1>4, <1>5, <1>6 DEF Agentd

\* What a step of AR leaves alone: the ledger, the journal unless a report is
\* received or a command claimed, and the active map unless a stream enters or
\* leaves it.
LEMMA ServerIs ==
  ASSUME NEW r \in Streams, Server(r)
  PROVE  /\ ledger' = ledger /\ effects' = effects
         /\ journal' = journal \/ Recv(r) \/ Tick(r)
         /\ active' = active \/ Install(r) \/ Finish(r)
<1>1. ledger' = ledger /\ effects' = effects
  BY DEF Server, local
<1>2. ASSUME Return(r) \/ Reject(r) PROVE journal' = journal /\ active' = active
  BY <1>2 DEF Return, Reject, durable
<1>3. CASE Admit(r) \/ Recheck(r) \/ Leave(r)
  BY <1>1, <1>2, <1>3 DEF Admit, Recheck, Leave, durable
<1>4. CASE Install(r)
  BY <1>1, <1>2, <1>4 DEF Install, durable
<1>5. CASE Finish(r)
  BY <1>1, <1>5 DEF Finish
<1>6. CASE Recv(r)
  <2>1. active' = active
    BY <1>2, <1>6 DEF Recv
  <2> QED  BY <1>1, <1>6, <2>1
<1>7. CASE Handle(r)
  BY <1>1, <1>2, <1>7 DEF Handle, Send, durable
<1>8. CASE Tick(r)
  <2>1. active' = active
    BY <1>2, <1>8 DEF Tick, Send
  <2> QED  BY <1>1, <1>8, <2>1
<1>9. CASE RenewAuthorize(r) \/ RenewCommit(r) \/ RenewReply(r)
  BY <1>1, <1>2, <1>9 DEF RenewAuthorize, RenewCommit, RenewReply, Send, durable
<1> QED  BY <1>3, <1>4, <1>5, <1>6, <1>7, <1>8, <1>9 DEF Server

\* Connect never ends the stream with the newest epoch in favour of another
\* one: the epoch of the stream it installs is at most the row's.
THEOREM NewestHolds == Spec => NewestNotDisplaced
<1> DEFINE P == \A r \in Streams :
                  Reading(r) /\ srv[r].epoch = row.epoch /\ srv'[r].pc = "closing" => active' = active
<1>1. ASSUME IInv, Next PROVE P
  <2>1. SUFFICES ASSUME NEW r \in Streams, Reading(r), srv[r].epoch = row.epoch, srv'[r].pc = "closing"
                 PROVE  active' = active
    OBVIOUS
  <2>2. Types /\ Epochs
    BY <1>1 DEF IInv
  <2>3. srv[r].pc # "closing"
    BY <2>1 DEF Reading
  <2>4. ASSUME NEW q \in Streams, Install(q) PROVE active' = active
    <3>1. CASE Return(q)
      BY <3>1 DEF Return
    <3>2. ASSUME srv[q].pc = "checked", Newer(srv[q]),
                 srv' = [s \in Streams |->
                          IF s = q THEN [srv[q] EXCEPT !.pc = "open", !.index = FirstIndex(srv[q])]
                          ELSE IF s = active THEN Ended(srv[s]) ELSE srv[s]]
          PROVE  FALSE
      <4>1. r # q
        BY <2>1, <3>2 DEF Reading
      <4>2. r = active
        BY <2>1, <2>3, <3>2, <4>1
      <4>3. srv[r].epoch < srv[q].epoch
        <5>1. active # 0
          BY SMT, <4>2 DEF Streams
        <5> QED  BY <3>2, <4>2, <5>1 DEF Newer
      <4>4. srv[q].epoch <= row.epoch
        <5>1. Numbered(q)
          BY <3>2 DEF Numbered, Accepted
        <5> QED  BY <2>2, <5>1 DEF Epochs
      <4>5. srv[q].epoch \in Nat /\ row.epoch \in Nat
        BY <2>2 DEF Types, StreamTypes, ServerType, RowTypes, RowType
      <4>6. \A a, b \in Nat : a <= b => ~(b < a)
        BY SMT
      <4> QED  BY <2>1, <4>3, <4>4, <4>5, <4>6
    <3> QED  BY <2>4, <3>1, <3>2 DEF Install
  <2>5. ASSUME NEW q \in Streams, Finish(q) PROVE active' = active
    <3>1. srv' = [srv EXCEPT ![q] = [Fresh EXCEPT !.pc = "closed"]] /\ srv \in [Streams -> ServerType]
      BY <2>2, <2>5 DEF Finish, Types, StreamTypes
    <3>2. srv'[r].pc = "closed" \/ srv'[r] = srv[r]
      BY <3>1, ClosedIs
    <3> QED  BY <2>1, <2>3, <3>2
  <2>6. CASE Environment
    BY <2>6 DEF Environment
  <2>7. CASE \E q \in Streams : Server(q)
    BY <2>4, <2>5, <2>7, ServerIs
  <2>8. CASE Agentd
    BY <2>8, AgentdIs
  <2> QED  BY <1>1, <2>6, <2>7, <2>8 DEF Next
<1>2. IInv /\ [Next]_vars => [P]_vars
  BY <1>1
<1> QED  BY <1>2, ConnectionInvariant, PTL DEF Spec, NewestNotDisplaced

-----------------------------------------------------------------------------
(* The dispatch of the plan *)

\* Whatever happens to streams, credentials and processes, the plan is
\* dispatched as CommandDispatch promises: in order, one command at a time, at
\* most one effect each, acknowledged only if agentd succeeded.
THEOREM DispatchHolds == Spec => ImplementsDispatch

  \* A step that changes neither outcomes nor ledger is invisible.
<1>Invisible.
  ASSUME journal' = journal, ledger' = ledger, effects' = effects
  PROVE  UNCHANGED Dispatch!vars
  BY <1>Invisible DEF Dispatch!vars

  \* A tick claims the next command of the plan, and only after all before it
  \* have been acknowledged.
<1>TickDispatches.
  ASSUME NEW r \in Streams, IInv, Tick(r), ledger' = ledger, effects' = effects
  PROVE  [Dispatch!Next]_Dispatch!vars
  <2> USE <1>TickDispatches
  <2>1. CASE journal' = journal
    BY <2>1, <1>Invisible
  <2>2. ASSUME NEW o, o = srv[r].index, srv[r].pc = "open", o <= Len(Plan), journal[o].outcome = "ABSENT",
               Claimable(o, srv[r]),
               journal' = [journal EXCEPT ![o] =
                            [outcome |-> "PENDING", epoch |-> srv[r].epoch, seq |-> srv[r].sent + 1]]
        PROVE  Dispatch!Next
    <3>1. Types /\ HandlerInv(r) /\ Reading(r)
      <4>1. Reading(r)
        BY <2>2 DEF Reading
      <4> QED  BY <4>1 DEF IInv, StreamInv
    <3>2. o \in Operations
      <4>1. o >= 1 /\ o \in Nat
        BY <2>2, <3>1 DEF HandlerInv, Types, StreamTypes, ServerType
      <4> QED  BY <2>2, <4>1, PlanIs, Bounds
    <3>3. \A p \in Operations : p < o => journal[p].outcome = "ACKNOWLEDGED"
      <4>1. \A p \in Operations : p < o => journal[p].outcome # "ABSENT"
        BY <2>2, <3>1 DEF HandlerInv
      <4>2. \A p \in Operations : journal[p].outcome \in {"ABSENT", "ACKNOWLEDGED"}
        BY <2>2 DEF Claimable
      <4> QED  BY <4>1, <4>2
    <3>4. journal \in [Operations -> JournalType]
      BY <3>1 DEF Types, JournalTypes
    <3>5. [p \in Operations |-> journal'[p].outcome] = [[p \in Operations |-> journal[p].outcome] EXCEPT ![o] = "PENDING"]
      BY <2>2, <3>2, <3>4
    <3>6. Dispatch!Claim(o)
      BY <2>2, <3>2, <3>3, <3>5 DEF Dispatch!Claim
    <3> QED  BY <3>2, <3>6 DEF Dispatch!Next
  <2>3. CASE Return(r)
    BY <2>1, <2>3 DEF Return, durable
  <2> QED  BY <2>1, <2>2, <2>3 DEF Tick, durable

  \* A report AR accepts settles its command as agentd's ledger says.
<1>RecvDispatches.
  ASSUME NEW r \in Streams, IInv, Recv(r), ledger' = ledger, effects' = effects
  PROVE  [Dispatch!Next]_Dispatch!vars
  <2> USE <1>RecvDispatches
  <2>1. CASE journal' = journal
    BY <2>1, <1>Invisible
  <2>2. ASSUME NEW f, f = Head(up[r]), up[r] # <<>>, f.kind \in {"ack", "failure"},
               journal' = [journal EXCEPT ![f.op].outcome = Outcome(f)]
        PROVE  Dispatch!Next
    <3>1. Types /\ UpInv(r) /\ LedgerInv
      BY DEF IInv, StreamInv
    <3>2. up[r] \in Seq(UpFrames) /\ journal \in [Operations -> JournalType]
      BY <3>1 DEF Types, StreamTypes, JournalTypes
    <3>3. 1 \in DOMAIN up[r] /\ f = up[r][1] /\ f \in UpFrames
      BY <2>2, <3>2, TailIs
    <3>4. f.kind \in Reports
      BY <2>2 DEF Reports
    <3>5. /\ f.op # 0 /\ Awaits(r, f.op)
          /\ f.kind = "ack" => ledger[f.op] = "DONE"
          /\ f.kind = "failure" => ledger[f.op] = "FAILED"
      BY <3>1, <3>3, <3>4 DEF UpInv
    <3>6. PICK o \in Operations : o = f.op
      BY <3>3, <3>5 DEF UpFrames, Places
    <3>7. Outcome(f) = (IF o \in {p \in Operations : ledger[p] = "DONE"} THEN "ACKNOWLEDGED" ELSE "UNKNOWN")
      BY SMT, <2>2, <3>5, <3>6 DEF Outcome
    <3>8. journal[o].outcome = "PENDING"
      BY <3>5, <3>6 DEF Awaits
    <3>9. effects[o] = 1
      <4>1. ledger[o] # "NONE"
        BY <2>2, <3>5, <3>6
      <4> QED  BY <3>1, <4>1 DEF LedgerInv
    <3>10. [p \in Operations |-> journal'[p].outcome]
             = [[p \in Operations |-> journal[p].outcome] EXCEPT ![o] = Outcome(f)]
      <4>1. PICK x : x = Outcome(f)
        OBVIOUS
      <4>2. journal' = [journal EXCEPT ![o].outcome = x]
        BY <2>2, <3>6, <4>1
      <4>3. journal'[o].outcome = x /\ \A p \in Operations \ {o} : journal'[p] = journal[p]
        BY <3>2, <4>2 DEF JournalType
      <4>4. [p \in Operations |-> journal'[p].outcome] = [[p \in Operations |-> journal[p].outcome] EXCEPT ![o] = x]
        BY <4>3
      <4> QED  BY <4>1, <4>4
    <3>11. Dispatch!Settle(o)
      BY <3>7, <3>8, <3>9, <3>10 DEF Dispatch!Settle
    <3> QED  BY <3>11 DEF Dispatch!Next
  <2>3. CASE Return(r)
    BY <2>1, <2>3 DEF Return, durable
  <2> QED  BY <2>1, <2>2, <2>3 DEF Recv

  \* The worker acts on a command once.
<1>ExecuteDispatches.
  ASSUME IInv, Execute
  PROVE  Dispatch!Next
  <2> USE <1>ExecuteDispatches
  <2>1. Types /\ CommandInv /\ LedgerInv
    BY DEF IInv
  <2>2. worker.stage = "begin" /\ worker.stage # "idle" /\ journal' = journal
    BY DEF Execute, durable
  <2>3. PICK o \in Operations : o = worker.op
    BY <2>1, <2>2 DEF CommandInv
  <2>4. ledger[o] = "NONE" /\ journal[o].outcome = "PENDING"
    BY <2>1, <2>2, <2>3 DEF CommandInv
  <2>5. effects[o] = 0
    BY <2>1, <2>4 DEF LedgerInv
  <2>6. ledger \in [Operations -> {"NONE", "FAILED", "DONE"}] /\ effects \in [Operations -> Nat]
    BY <2>1 DEF Types, AgentTypes
  <2>7. PICK x \in {"DONE", "FAILED"} : ledger' = [ledger EXCEPT ![o] = x]
    BY <2>3 DEF Execute
  <2>8. effects' = [effects EXCEPT ![o] = 1]
    <3>1. effects' = [effects EXCEPT ![o] = @ + 1]
      BY <2>3, <2>4 DEF Execute
    <3> QED  BY SMT, <2>5, <2>6, <3>1
  <2>9. {p \in Operations : ledger'[p] = "DONE"} \in
          {{p \in Operations : ledger[p] = "DONE"}, {p \in Operations : ledger[p] = "DONE"} \cup {o}}
    <3>1. CASE x = "DONE"
      <4>1. {p \in Operations : ledger'[p] = "DONE"} = {p \in Operations : ledger[p] = "DONE"} \cup {o}
        BY <2>6, <2>7, <3>1
      <4> QED  BY <4>1
    <3>2. CASE x = "FAILED"
      <4>1. {p \in Operations : ledger'[p] = "DONE"} = {p \in Operations : ledger[p] = "DONE"}
        BY <2>4, <2>6, <2>7, <3>2
      <4> QED  BY <4>1
    <3> QED  BY <2>7, <3>1, <3>2
  <2>10. Dispatch!Act(o)
    BY <2>2, <2>4, <2>5, <2>8, <2>9 DEF Dispatch!Act
  <2> QED  BY <2>10 DEF Dispatch!Next

  \* The supervision of the child finishes the waiting command or leaves it.
<1>SuperviseIs.
  ASSUME IInv, Supervise
  PROVE  /\ journal' = journal /\ effects' = effects
         /\ ledger' = ledger \/ \E x \in {"ok", "failed"} : Finished(x)
  <2> USE <1>SuperviseIs
  <2>1. journal' = journal /\ effects' = effects
    BY DEF Supervise, durable
  <2>2. ASSUME NEW b \in BOOLEAN, Released(b)
        PROVE  ledger' = ledger \/ \E x \in {"ok", "failed"} : Finished(x)
    BY <2>2, ReleasedIs
  <2>3. TRUE \in BOOLEAN /\ FALSE \in BOOLEAN
    OBVIOUS
  <2>4. ASSUME Operation
        PROVE  ledger' = ledger \/ \E x \in {"ok", "failed"} : Finished(x)
    BY <2>2, <2>3, <2>4 DEF Operation, Launch, Initialized, TurnStarted, ProcessStopped
  <2>5. ASSUME OperationTimeout \/ ProcessExits PROVE ledger' = ledger
    BY <2>5 DEF OperationTimeout, ProcessExits
  <2> QED  BY <2>1, <2>4, <2>5 DEF Supervise

  \* A finished command succeeds while its outcome is pending.
<1>SuperviseDispatches.
  ASSUME IInv, Supervise
  PROVE  [Dispatch!Next]_Dispatch!vars
  <2> USE <1>SuperviseDispatches
  <2>1. journal' = journal /\ effects' = effects /\ (ledger' = ledger \/ \E x \in {"ok", "failed"} : Finished(x))
    BY <1>SuperviseIs
  <2>2. CASE ledger' = ledger
    BY <2>1, <2>2, <1>Invisible
  <2>3. ASSUME NEW x \in {"ok", "failed"}, Finished(x), ledger' # ledger PROVE Dispatch!Next
    <3>1. worker.stage = "wait" /\ ledger' = [ledger EXCEPT ![worker.op] = "DONE"]
      BY <2>3 DEF Finished
    <3>2. worker.stage # "idle" /\ worker.stage \in {"wait", "failed"}
      BY <3>1
    <3>3. Types /\ CommandInv /\ LedgerInv
      BY DEF IInv
    <3>4. PICK o \in Operations : o = worker.op
      BY <3>2, <3>3 DEF CommandInv
    <3>5. journal[o].outcome = "PENDING" /\ ledger[o] = "FAILED"
      BY <3>2, <3>3, <3>4 DEF CommandInv
    <3>6. effects[o] = 1
      <4>1. ledger[o] # "NONE"
        BY <3>5
      <4> QED  BY <3>3, <4>1 DEF LedgerInv
    <3>7. ledger \in [Operations -> {"NONE", "FAILED", "DONE"}]
      BY <3>3 DEF Types, AgentTypes
    <3>8. {p \in Operations : ledger'[p] = "DONE"} = {p \in Operations : ledger[p] = "DONE"} \cup {o}
      BY <3>1, <3>4, <3>7
    <3>9. Dispatch!Succeed(o)
      BY <2>1, <3>5, <3>6, <3>8 DEF Dispatch!Succeed
    <3> QED  BY <3>9 DEF Dispatch!Next
  <2> QED  BY <2>1, <2>2, <2>3
<1>1. Init => Dispatch!Init
  <2>1. SUFFICES ASSUME Init PROVE Dispatch!Init
    OBVIOUS
  <2>2. /\ journal = [o \in Operations |-> Unclaimed] /\ Unclaimed.outcome = "ABSENT"
        /\ ledger = [o \in Operations |-> "NONE"] /\ effects = [o \in Operations |-> 0]
    BY <2>1 DEF Init, Unclaimed
  <2>3. [o \in Operations |-> journal[o].outcome] = [o \in Operations |-> "ABSENT"]
    BY <2>2
  <2>4. {o \in Operations : ledger[o] = "DONE"} = {}
    BY <2>2
  <2> QED  BY <2>2, <2>3, <2>4 DEF Dispatch!Init
<1>2. IInv /\ [Next]_vars => [Dispatch!Next]_Dispatch!vars
  <2>1. ASSUME IInv, Environment PROVE UNCHANGED Dispatch!vars
    BY <2>1, <1>Invisible DEF Environment, local
  <2>2. ASSUME IInv, NEW r \in Streams, Server(r) PROVE [Dispatch!Next]_Dispatch!vars
    BY <2>2, ServerIs, <1>Invisible, <1>TickDispatches, <1>RecvDispatches
  <2>3. ASSUME IInv, Agentd PROVE [Dispatch!Next]_Dispatch!vars
    BY <2>3, AgentdIs, <1>Invisible, <1>ExecuteDispatches, <1>SuperviseDispatches
  <2>4. ASSUME UNCHANGED vars PROVE UNCHANGED Dispatch!vars
    BY <2>4, <1>Invisible DEF vars
  <2> QED  BY <2>1, <2>2, <2>3, <2>4 DEF Next
<1> QED  BY <1>1, <1>2, ConnectionInvariant, PTL DEF Spec, Dispatch!Spec, ImplementsDispatch

=============================================================================
