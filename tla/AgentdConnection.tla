-------------------------- MODULE AgentdConnection --------------------------
(***************************************************************************)
(* Commands of an operator's plan travel from the service (AR) to the      *)
(* agentd process of one sandbox, over streams that agentd dials again and *)
(* again.  Modelled: the credential row and the command journal in         *)
(* PostgreSQL, the stream handlers of AR, agentd's connection loop, its    *)
(* command worker and its child process.                                   *)
(*                                                                         *)
(* Streams are numbered by the dial that opened them.  The handler of an   *)
(* abandoned stream may live on and race its successor.  A stream is FIFO  *)
(* and loses what is in flight when an end leaves.  Either end may leave   *)
(* at any time: this stands for lost connections, quiet peers, refused     *)
(* checks, failed queries and, with a lost Close, for a crash of AR.       *)
(*                                                                         *)
(* Credentials are numbered in the order of registration; 1 is the         *)
(* bootstrap credential.  A later one never expires before an earlier one. *)
(* A connection identifier is fresh with every epoch, so the epoch stands  *)
(* for both.                                                               *)
(***************************************************************************)
EXTENDS Naturals, Sequences

CONSTANTS
  Plan,            \* the operator's commands: a sequence of command kinds
  MaxDials,        \* bound on streams (unbounded in the code)
  MaxCredentials,  \* bound on rotations (unbounded in the code)
  MaxFailures,     \* reconnect attempts of a failing burst: 8 in the code
  MaxBeats         \* bound on timed heartbeats of a stream

InboxSize == 2     \* one frame in the channel, one held by the reader

Operations == DOMAIN Plan
Streams == 1..MaxDials
Kinds == {"START", "EXECUTE", "STATUS", "STOP"}

ASSUME ConnectionConstants ==
  /\ Plan \in Seq(Kinds)
  /\ {MaxDials, MaxCredentials, MaxFailures, MaxBeats} \subseteq Nat
  /\ MaxCredentials >= 1

VARIABLES
  row,         \* agentd_credential_state, with the bootstrap's consumed_at
  expired,     \* credentials up to this one have expired
  authorised,  \* fence, admission, deadline and provider facts all hold
  journal,     \* agentd_commands
  bound,       \* a harness binding of the Session is stored
  srv,         \* per stream, its handler in AR
  active,      \* the stream in Server.active, or 0
  up, down,    \* per stream, frames in flight to AR and to agentd
  agent,       \* agentd's connection loop and Serve loop
  worker,      \* the goroutine in execute, for the Serve loop's command
  gate,        \* the goroutine that holds Processes.gate
  proc,        \* the child: none (no identity), starting, running, stopped
  handle,      \* ProcessControl.handle is set
  ledger,      \* ProcessControl.operations: NONE, FAILED or DONE
  effects      \* history: how often each operation reached the dispatcher

durable == <<row, expired, authorised, journal, bound>>
local == <<agent, worker, gate, proc, handle, ledger, effects>>
vars == <<row, expired, authorised, journal, bound, srv, active, up, down,
          agent, worker, gate, proc, handle, ledger, effects>>

Unclaimed == [outcome |-> "ABSENT", epoch |-> 0, seq |-> 0]
Fresh == [pc |-> "none", cred |-> 0, proof |-> FALSE, epoch |-> 0,
          index |-> 0, pending |-> 0, sent |-> 0, got |-> 0,
          inbox |-> <<>>, grant |-> 0]
Idle == [op |-> 0, stream |-> 0, seq |-> 0, stage |-> "idle"]
Free == [op |-> 0, stage |-> "free"]

Frame(kind, seq, op, val) ==
  [kind |-> kind, seq |-> seq, op |-> op, val |-> val]

AgentFrames == {"heartbeat", "request", "thread", "ack", "failure",
                "stopped", "unresolved"}
ServerFrames == {"welcome", "command", "receipt", "issued"}

\* The bootstrap credential is registered and delivered; agentd has loaded it.
Init ==
  /\ row = [version |-> 2, latest |-> 1, consumed |-> FALSE, epoch |-> 0,
            open |-> FALSE, cred |-> 0, deadline |-> "none"]
  /\ expired = 0 /\ authorised = TRUE
  /\ journal = [o \in Operations |-> Unclaimed]
  /\ bound = FALSE
  /\ srv = [r \in Streams |-> Fresh]
  /\ active = 0
  /\ up = [r \in Streams |-> <<>>] /\ down = [r \in Streams |-> <<>>]
  /\ agent = [pc |-> "dial", stream |-> 0, cred |-> 1, proof |-> TRUE,
              epoch |-> 0, failures |-> 0, in |-> 0, out |-> 0, busy |-> 0,
              renewal |-> "no", beats |-> 0]
  /\ worker = Idle /\ gate = Free /\ proc = "none" /\ handle = FALSE
  /\ ledger = [o \in Operations |-> "NONE"]
  /\ effects = [o \in Operations |-> 0]

TypeOK ==
  /\ row \in [version: Nat, latest: 1..MaxCredentials, consumed: BOOLEAN,
              epoch: Nat, open: BOOLEAN, cred: 0..MaxCredentials,
              deadline: {"none", "live", "capped", "past"}]
  /\ row.open <=> row.deadline # "none"
  /\ row.open <=> row.cred # 0
  /\ expired \in 0..MaxCredentials /\ authorised \in BOOLEAN
  /\ journal \in [Operations ->
       [outcome: {"ABSENT", "PENDING", "ACKNOWLEDGED", "UNKNOWN"},
        epoch: Nat, seq: Nat]]
  /\ bound \in BOOLEAN /\ handle \in BOOLEAN
  /\ active \in {0} \cup Streams
  /\ \A r \in Streams :
       /\ srv[r].pc \in {"none", "hello", "admitted", "checked", "open",
                         "renew", "commit", "reply", "settle", "closing", "closed"}
       /\ \A i \in DOMAIN up[r] : up[r][i].kind \in AgentFrames
       /\ \A i \in DOMAIN down[r] : down[r][i].kind \in ServerFrames
  /\ agent.pc \in {"dial", "hello", "serve", "cleanup", "exit", "dead"}
  /\ worker.stage \in {"idle", "begin", "wait", "ok", "failed"}
  /\ gate.stage \in {"free", "launch", "init", "turn", "stop"}
  /\ proc \in {"none", "starting", "running", "stopped"}
  /\ ledger \in [Operations -> {"NONE", "FAILED", "DONE"}]
  /\ effects \in [Operations -> Nat]

-----------------------------------------------------------------------------
(* The credential row.                                                     *)

\* checkAgentdConnection, under the aggregate fence of transaction.
Current(s) ==
  /\ authorised
  /\ row.open /\ row.epoch = s.epoch /\ row.cred = s.cred
  /\ row.deadline # "past" /\ s.cred > expired

\* ConsumeBootstrap with a proof, Reconnect without one.
Admissible(s) ==
  /\ authorised
  /\ s.cred = row.latest /\ s.cred > expired
  /\ IF s.proof THEN s.cred = 1 /\ ~row.consumed /\ ~row.open
                ELSE s.cred = 1 => row.consumed

NextEpoch(s) ==
  [row EXCEPT !.version = @ + 1, !.consumed = @ \/ s.proof,
              !.open = TRUE, !.epoch = @ + 1, !.cred = s.cred,
              !.deadline = "live"]

\* Mutant: the callback of an old connection clears whatever is open.
ClosedByMutant(s) ==
  IF row.open
  THEN [row EXCEPT !.version = @ + 1, !.open = FALSE, !.cred = 0,
                   !.deadline = "none"]
  ELSE row

\* CloseConnection.
ClosedBy(s) ==
  IF row.open /\ row.epoch = s.epoch
  THEN [row EXCEPT !.version = @ + 1, !.open = FALSE, !.cred = 0,
                   !.deadline = "none"]
  ELSE row

\* Register, for a renewal: the predecessor keeps at most 30 seconds.
Registered ==
  [row EXCEPT !.version = @ + 1, !.latest = @ + 1,
              !.deadline = IF @ = "live" THEN "capped" ELSE @]

Revoke == authorised /\ authorised' = FALSE

Expire ==
  /\ expired < row.latest
  /\ expired' = expired + 1
  /\ row' = [row EXCEPT !.deadline = IF row.open /\ row.cred <= expired'
                                     THEN "past" ELSE @]

CapPasses == row.deadline = "capped" /\ row' = [row EXCEPT !.deadline = "past"]

\* What time and the operator do to the durable state.
Environment ==
  /\ \/ Revoke /\ UNCHANGED <<row, expired>>
     \/ Expire /\ UNCHANGED authorised
     \/ CapPasses /\ UNCHANGED <<expired, authorised>>
  /\ UNCHANGED <<journal, bound, srv, active, up, down, local>>

-----------------------------------------------------------------------------
(* The frame policy and the command journal.                               *)

Pending(o, s) == journal[o].outcome = "PENDING" /\ journal[o].epoch = s.epoch

Report(f, s) ==
  journal[f.op].outcome # "ABSENT" /\ journal[f.op].epoch = s.epoch

\* AuthorizeFrame, for a frame received from agentd.
Authorized(f, s) ==
  /\ Current(s)
  /\ f.seq = s.got + 1
  /\ f.kind = "heartbeat" =>
       f.val <= s.sent /\ (f.op # 0 => Pending(f.op, s))
  /\ f.kind = "thread" =>
       Report(f, s) /\ journal[f.op].outcome \in {"PENDING", "ACKNOWLEDGED"}
  /\ f.kind = "ack" =>
       /\ Report(f, s) /\ f.val = journal[f.op].seq
       /\ Plan[f.op] = "START" => bound
       /\ journal[f.op].outcome \in {"PENDING", "ACKNOWLEDGED"}
  /\ f.kind = "failure" =>
       Report(f, s) /\ journal[f.op].outcome \in {"PENDING", "UNKNOWN"}

\* Mutant: a failed command is released for another attempt.
OutcomeMutant(f) == [ack |-> "ACKNOWLEDGED", failure |-> "ABSENT"][f.kind]

\* The durable outcome an accepted report sets.
Outcome(f) == [ack |-> "ACKNOWLEDGED", failure |-> "UNKNOWN"][f.kind]

\* persistThread: the thread of a START binds the harness.
PersistsThread(f) == f.kind = "thread"

\* AuthorizeFrame, for a command: the claim that is committed before Send.
Claimable(o, s) ==
  /\ Current(s)
  /\ journal[o].outcome = "ABSENT"
  /\ \A p \in Operations : journal[p].outcome \in {"ABSENT", "ACKNOWLEDGED"}
  /\ Plan[o] = "START" => ~bound
  /\ Plan[o] = "EXECUTE" =>
       /\ bound
       /\ \E p \in Operations :
            Plan[p] = "START" /\ journal[p].outcome = "ACKNOWLEDGED"

-----------------------------------------------------------------------------
(* AR: Connect, Admit, and the handler's Serve loop of stream r.           *)

Reading(r) == srv[r].pc \in {"open", "renew", "commit", "reply", "settle"}
OnStream(r) == agent.stream = r /\ agent.pc \in {"hello", "serve"}

Deliver(r, f) == down' = [down EXCEPT ![r] = IF OnStream(r) THEN Append(@, f)
                                                            ELSE @]
Ended(s) == [Fresh EXCEPT !.pc = "closing", !.epoch = s.epoch]

\* The handler returns; its deferred calls follow in Finish.
Return(r) ==
  /\ srv' = [srv EXCEPT ![r] = Ended(@)]
  /\ up' = [up EXCEPT ![r] = <<>>]
  /\ UNCHANGED <<durable, active, down>>

Reject(r) ==
  /\ srv' = [srv EXCEPT ![r] = [Fresh EXCEPT !.pc = "closed"]]
  /\ UNCHANGED <<durable, active, up, down>>

\* Service.Admit up to the registry: the connection exists from here on.
Admit(r) ==
  /\ srv[r].pc = "hello"
  /\ IF Admissible(srv[r])
     THEN /\ row' = NextEpoch(srv[r])
          /\ srv' = [srv EXCEPT ![r].pc = "admitted", ![r].epoch = row'.epoch]
          /\ UNCHANGED <<expired, authorised, journal, bound, active, up,
                         down>>
     ELSE Reject(r)

\* Mutant: any admitted stream takes the place of the active one.
NewerMutant(s) == TRUE

Newer(s) == active = 0 \/ srv[active].epoch < s.epoch

\* The recheck at the end of Service.Admit.
Recheck(r) ==
  /\ srv[r].pc = "admitted"
  /\ IF Current(srv[r])
     THEN /\ srv' = [srv EXCEPT ![r].pc = "checked"]
          /\ UNCHANGED <<durable, active, up, down>>
     ELSE Return(r)

\* The host's plan, which is empty until a session credential is in use.
FirstIndex(s) == IF s.cred = 1 THEN Len(Plan) + 1 ELSE 1

\* Connect: the active map, Welcome and the start of the handler.
Install(r) ==
  /\ srv[r].pc = "checked"
  /\ IF Newer(srv[r])
     THEN /\ srv' = [q \in Streams |->
               IF q = r THEN [srv[r] EXCEPT
                 !.pc = "open", !.index = FirstIndex(srv[r])]
               ELSE IF q = active THEN Ended(srv[q]) ELSE srv[q]]
          /\ up' = [q \in Streams |-> IF q = active THEN <<>> ELSE up[q]]
          /\ active' = r
          /\ Deliver(r, Frame("welcome", 0, 0, srv[r].epoch))
          /\ UNCHANGED durable
     ELSE Return(r)

\* The deferred calls: leave the active map, then CloseConnection, which may
\* be lost.
Finish(r) ==
  /\ srv[r].pc = "closing"
  /\ srv' = [srv EXCEPT ![r] = [Fresh EXCEPT !.pc = "closed"]]
  /\ active' = IF active = r THEN 0 ELSE active
  /\ row' \in {row, ClosedBy(srv[r])}
  /\ UNCHANGED <<expired, authorised, journal, bound, up, down>>

\* The stream context ends: peer gone, quiet, cancelled, or past its deadline.
Leave(r) ==
  \/ srv[r].pc = "hello" /\ Reject(r)
  \/ (srv[r].pc \in {"admitted", "checked"} \/ Reading(r)) /\ Return(r)

\* Session.Recv: the reader authorises a frame before the handler sees it.
Recv(r) ==
  /\ Reading(r) /\ up[r] # <<>> /\ Len(srv[r].inbox) < InboxSize
  /\ LET f == Head(up[r]) IN
     IF Authorized(f, srv[r])
     THEN /\ srv' = [srv EXCEPT ![r].got = f.seq,
                                ![r].inbox = Append(@, f)]
          /\ up' = [up EXCEPT ![r] = Tail(@)]
          /\ journal' = IF f.kind \in {"ack", "failure"}
                        THEN [journal EXCEPT ![f.op].outcome = Outcome(f)]
                        ELSE journal
          /\ bound' = (bound \/ PersistsThread(f))
          /\ UNCHANGED <<row, expired, authorised, active, down>>
     ELSE Return(r)

Taken(r) == [srv[r] EXCEPT !.inbox = Tail(@)]

\* The handler's send, after AuthorizeFrame has stored the sequence.
Send(r, s, f) ==
  /\ srv' = [srv EXCEPT ![r] = [s EXCEPT !.sent = f.seq]]
  /\ Deliver(r, f)
  /\ UNCHANGED <<up, active>>

\* The case of the select that takes a received frame.
Handle(r) ==
  /\ srv[r].pc = "open" /\ srv[r].inbox # <<>>
  /\ LET f == Head(srv[r].inbox) IN
     \/ /\ f.kind = "request"
        /\ IF srv[r].pending # 0 THEN Return(r)
           ELSE /\ srv' = [srv EXCEPT ![r] = [Taken(r) EXCEPT !.pc = "renew"]]
                /\ UNCHANGED <<durable, active, up, down>>
     \/ /\ f.kind = "failure"
        /\ Return(r)
     \/ /\ f.kind = "ack"
        /\ srv' = [srv EXCEPT ![r] = [Taken(r) EXCEPT !.pending = 0,
                                                      !.index = @ + 1]]
        /\ UNCHANGED <<durable, active, up, down>>
     \/ /\ f.kind \in {"heartbeat", "thread", "stopped", "unresolved"}
        /\ IF Current(srv[r])
           THEN /\ Send(r, Taken(r), Frame("receipt", srv[r].sent + 1, 0, 0))
                /\ UNCHANGED durable
           ELSE Return(r)

\* The case of the ticker: skip what is acknowledged, stop at what is
\* ambiguous, otherwise claim and send.
Tick(r) ==
  /\ srv[r].pc = "open" /\ srv[r].pending = 0 /\ srv[r].index <= Len(Plan)
  /\ LET o == srv[r].index
         seq == srv[r].sent + 1 IN
     \/ /\ journal[o].outcome = "ACKNOWLEDGED"
        /\ srv' = [srv EXCEPT ![r].index = @ + 1]
        /\ UNCHANGED <<durable, active, up, down>>
     \/ /\ journal[o].outcome \in {"PENDING", "UNKNOWN"}
        /\ Return(r)
     \/ /\ journal[o].outcome = "ABSENT"
        /\ IF Claimable(o, srv[r])
           THEN /\ journal' = [journal EXCEPT ![o] =
                     [outcome |-> "PENDING", epoch |-> srv[r].epoch,
                      seq |-> seq]]
                /\ Send(r, [srv[r] EXCEPT !.pending = o],
                        Frame("command", seq, o, 0))
                /\ UNCHANGED <<row, expired, authorised, bound>>
           ELSE Return(r)

\* Rotate: AuthorizeCredential reads the version ...
RenewAuthorize(r) ==
  /\ srv[r].pc = "renew"
  /\ IF Current(srv[r])
     THEN /\ srv' = [srv EXCEPT ![r].pc = "commit", ![r].grant = row.version]
          /\ UNCHANGED <<durable, active, up, down>>
     ELSE Return(r)

\* ... CommitCredential compares it and registers the successor ...
RenewCommit(r) ==
  /\ srv[r].pc = "commit"
  /\ IF Current(srv[r]) /\ row.version = srv[r].grant
          /\ row.latest = srv[r].cred /\ row.latest < MaxCredentials
     THEN /\ row' = Registered
          /\ srv' = [srv EXCEPT ![r].pc = "reply", ![r].grant = row'.latest]
          /\ UNCHANGED <<expired, authorised, journal, bound, active, up,
                         down>>
     ELSE Return(r)

\* ... and the handler sends it, then waits for agentd to install it.
RenewReply(r) ==
  /\ srv[r].pc = "reply"
  /\ IF Current(srv[r])
     THEN /\ Send(r, [srv[r] EXCEPT !.pc = "settle"],
                  Frame("issued", srv[r].sent + 1, 0, srv[r].grant))
          /\ UNCHANGED durable
     ELSE Return(r)

Server(r) ==
  /\ \/ Admit(r) \/ Recheck(r) \/ Install(r) \/ Finish(r) \/ Leave(r)
     \/ Recv(r) \/ Handle(r) \/ Tick(r)
     \/ RenewAuthorize(r) \/ RenewCommit(r) \/ RenewReply(r)
  /\ UNCHANGED local

-----------------------------------------------------------------------------
(* agentd: the connection loop of runConnections.                          *)

Serving == agent.pc = "serve"

\* Leaving a stream drops what is in flight to agentd; leaving Serve cancels
\* the executing command.
Depart(a) ==
  /\ agent' = [a EXCEPT !.busy = 0, !.in = 0, !.out = 0, !.beats = 0,
                        !.renewal = "no"]
  /\ down' = [r \in Streams |-> IF r = agent.stream THEN <<>> ELSE down[r]]
  /\ worker' = IF worker.stage = "begin" THEN worker ELSE Idle

Kept == <<durable, active, ledger, effects, handle>>

Dial ==
  /\ agent.pc = "dial" /\ agent.stream < MaxDials
  /\ agent.cred > expired
  /\ agent' = [agent EXCEPT !.pc = "hello", !.stream = @ + 1, !.proof = FALSE]
  /\ srv' = [srv EXCEPT ![agent'.stream] =
               [Fresh EXCEPT !.pc = "hello", !.cred = agent.cred,
                             !.proof = agent.proof]]
  /\ UNCHANGED <<Kept, up, down, worker, gate, proc>>

\* No recovery bootstrap is configured.
CredentialExpired ==
  /\ agent.pc = "dial" /\ agent.cred <= expired
  /\ agent' = [agent EXCEPT !.pc = "exit"]
  /\ UNCHANGED <<Kept, srv, up, down, worker, gate, proc>>

DialFails ==
  /\ agent.pc = "hello"
  /\ Depart([agent EXCEPT !.pc = "cleanup"])
  /\ UNCHANGED <<Kept, srv, up, gate, proc>>

\* Connected, and the start of Serve, which needs the process gate.  A command
\* goroutine is taken to run before the next handshake has completed.
Connected ==
  /\ agent.pc = "hello" /\ down[agent.stream] # <<>>
  /\ worker.stage # "begin"
  /\ LET epoch == Head(down[agent.stream]).val IN
     agent' = [agent EXCEPT
       !.epoch = epoch,
       !.pc = IF epoch <= agent.epoch THEN "exit"
              ELSE IF gate # Free THEN "cleanup" ELSE "serve"]
  /\ down' = [down EXCEPT ![agent.stream] = IF agent'.pc = "serve"
                                            THEN Tail(@) ELSE <<>>]
  /\ UNCHANGED <<Kept, srv, up, worker, gate, proc>>

\* Processes.Stop as Disconnected calls it.  A process without identity is not
\* touched; a held gate is an error; so is a kill that is not reaped in time.
Stopped(err) ==
  \/ proc = "none" /\ err = FALSE /\ UNCHANGED proc
  \/ proc # "none" /\ gate # Free /\ err = TRUE /\ UNCHANGED proc
  \/ proc # "none" /\ gate = Free /\ proc' = "stopped"

\* Mutant: the process survives the disconnect.
CleanupMutant ==
  /\ agent.pc = "cleanup"
  /\ agent' = [agent EXCEPT !.failures = @ + 1, !.pc = "dial"]
  /\ UNCHANGED <<Kept, srv, up, down, worker, gate, proc>>

\* The end of a round of runConnections.
Cleanup ==
  /\ agent.pc = "cleanup"
  /\ \E err \in BOOLEAN :
       /\ Stopped(err)
       /\ agent' = IF err THEN [agent EXCEPT !.pc = "exit"]
                   ELSE [agent EXCEPT !.failures = @ + 1,
                           !.pc = IF agent.failures + 1 >= MaxFailures
                                  THEN "exit" ELSE "dial"]
  /\ UNCHANGED <<Kept, srv, up, down, worker, gate>>

\* Shutdown and the end of the container.
Exit ==
  /\ agent.pc = "exit"
  /\ agent' = [agent EXCEPT !.pc = "dead"]
  /\ worker' = Idle /\ gate' = Free
  /\ proc' = IF proc = "none" THEN proc ELSE "stopped"
  /\ UNCHANGED <<Kept, srv, up, down>>

-----------------------------------------------------------------------------
(* agentd: the Serve loop.                                                 *)

Transmit(fs) == up' = [up EXCEPT ![agent.stream] = IF Reading(agent.stream)
                                                   THEN @ \o fs ELSE @]

Heartbeat(seq, op) == Frame("heartbeat", seq, op, agent.in)

\* A session of a second or more resets the count of failures.
Drop ==
  \E n \in {0, agent.failures} :
    Depart([agent EXCEPT !.pc = "cleanup", !.failures = n])

\* The stream is lost.
Lost ==
  /\ Serving /\ Drop
  /\ UNCHANGED <<Kept, srv, up, gate, proc>>

RenewalDue ==
  /\ Serving /\ agent.renewal = "no"
  /\ IF agent.busy = 0
     THEN /\ Transmit(<<Frame("request", agent.out + 1, 0, 0)>>)
          /\ agent' = [agent EXCEPT !.renewal = "asked", !.out = @ + 1]
     ELSE agent' = [agent EXCEPT !.renewal = "due"] /\ UNCHANGED up
  /\ UNCHANGED <<Kept, srv, down, worker, gate, proc>>

Beat ==
  /\ Serving /\ agent.beats < MaxBeats
  /\ Transmit(<<Heartbeat(agent.out + 1, agent.busy)>>)
  /\ agent' = [agent EXCEPT !.beats = @ + 1, !.out = @ + 1]
  /\ UNCHANGED <<Kept, srv, down, worker, gate, proc>>

Unexpected(f) ==
  \/ f.seq # agent.in + 1
  \/ f.kind = "issued" /\ (agent.renewal # "asked" \/ agent.busy # 0)
  \/ f.kind = "command" /\ (agent.renewal = "asked" \/ agent.busy # 0)

\* InstallRotation; a new credential ends the burst of failures.
Renewed(cred) == [agent EXCEPT !.cred = cred, !.failures = 0]

Receive ==
  /\ Serving /\ down[agent.stream] # <<>>
  /\ LET f == Head(down[agent.stream])
         rest == [down EXCEPT ![agent.stream] = Tail(@)] IN
     \/ Unexpected(f) /\ Drop
     \/ /\ ~Unexpected(f) /\ f.kind = "issued"
        /\ Depart([Renewed(f.val) EXCEPT !.pc = "cleanup"])
     \/ /\ ~Unexpected(f) /\ f.kind = "receipt"
        /\ agent' = [agent EXCEPT !.in = f.seq]
        /\ down' = rest /\ UNCHANGED worker
     \/ /\ ~Unexpected(f) /\ f.kind = "command"
        /\ agent' = [agent EXCEPT !.in = f.seq, !.busy = f.op]
        /\ worker' = [op |-> f.op, stream |-> agent.stream, seq |-> f.seq,
                      stage |-> "begin"]
        /\ down' = rest
  /\ UNCHANGED <<Kept, srv, up, gate, proc>>

\* Mutant: the acknowledgement overtakes the thread it rests on.
ReplyMutant ==
  LET op == worker.op
      kinds == <<IF worker.stage = "ok" THEN "ack" ELSE "failure">>
               \o (IF worker.stage = "ok" /\ Plan[op] = "START"
                   THEN <<"thread">> ELSE <<>>)
               \o <<"heartbeat">>
               \o (IF agent.renewal = "due" THEN <<"request">> ELSE <<>>) IN
  [i \in DOMAIN kinds |->
     IF kinds[i] = "heartbeat" THEN Heartbeat(agent.out + i, 0)
     ELSE Frame(kinds[i], agent.out + i,
                IF kinds[i] = "request" THEN 0 ELSE op,
                IF kinds[i] = "ack" THEN worker.seq ELSE 0)]

\* The frames of a finished command, numbered from the last one sent.
Reply ==
  LET op == worker.op
      kinds == (IF worker.stage = "ok" /\ Plan[op] = "START"
                THEN <<"thread">> ELSE <<>>)
               \o <<IF worker.stage = "ok" THEN "ack" ELSE "failure",
                    "heartbeat">>
               \o (IF agent.renewal = "due" THEN <<"request">> ELSE <<>>) IN
  [i \in DOMAIN kinds |->
     IF kinds[i] = "heartbeat" THEN Heartbeat(agent.out + i, 0)
     ELSE Frame(kinds[i], agent.out + i,
                IF kinds[i] = "request" THEN 0 ELSE op,
                IF kinds[i] = "ack" THEN worker.seq ELSE 0)]

Result ==
  /\ Serving /\ worker.stage \in {"ok", "failed"}
  /\ Transmit(Reply)
  /\ agent' = [agent EXCEPT !.busy = 0, !.out = @ + Len(Reply),
                            !.renewal = IF @ = "due" THEN "asked" ELSE @]
  /\ worker' = Idle
  /\ UNCHANGED <<Kept, srv, down, gate, proc>>

\* The stream's deadline: stop the process, report, leave.
DeadlineNear ==
  /\ Serving
  /\ \E err \in BOOLEAN :
       /\ Stopped(err)
       /\ Transmit(<<Frame(IF err \/ agent.busy # 0 THEN "unresolved"
                                                    ELSE "stopped",
                           agent.out + 1, 0, 0)>>)
  /\ Drop
  /\ UNCHANGED <<Kept, srv, gate>>

\* The supervisor is signalled: Shutdown instead of Disconnected, which waits
\* for the gate.
Terminate ==
  /\ agent.pc \in {"dial", "hello", "serve", "cleanup"}
  /\ IF Serving
     THEN \E err \in BOOLEAN :
            /\ IF gate = Free
               THEN proc' = IF proc = "none" THEN proc ELSE "stopped"
               ELSE err /\ UNCHANGED proc
            /\ Transmit(<<Frame(IF err \/ agent.busy # 0 THEN "unresolved"
                                                         ELSE "stopped",
                                agent.out + 1, 0, 0)>>)
     ELSE UNCHANGED <<proc, up>>
  /\ Depart([agent EXCEPT !.pc = "exit"])
  /\ UNCHANGED <<Kept, srv, gate>>

-----------------------------------------------------------------------------
(* agentd: execute, the process operations and the child.                  *)

\* What the kind of command asks for, once it is reserved: the operation it
\* starts under the gate, "ok" at once, or "failed".
Requested(o) ==
  CASE Plan[o] = "START" /\ ~handle -> "launch"
    [] Plan[o] = "EXECUTE" /\ handle /\ proc = "running" -> "turn"
    [] Plan[o] = "STOP" /\ handle /\ proc # "none" -> "stop"
    [] Plan[o] = "STATUS" -> "ok"
    [] OTHER -> "failed"

\* execute: the ledger answers a repeated operation; otherwise it is reserved
\* as failed before anything happens.
Execute ==
  /\ worker.stage = "begin"
  /\ LET o == worker.op
         cancelled == ~(Serving /\ agent.stream = worker.stream)
         what == Requested(o)
         stage == IF ledger[o] # "NONE"
                  THEN IF ledger[o] = "DONE" THEN "ok" ELSE "failed"
                  ELSE IF what \in {"ok", "failed"} THEN what
                  ELSE IF cancelled \/ gate # Free THEN "failed" ELSE "wait" IN
     /\ worker' = IF cancelled THEN Idle ELSE [worker EXCEPT !.stage = stage]
     /\ gate' = IF stage = "wait" THEN [op |-> o, stage |-> what] ELSE gate
     /\ ledger' = [ledger EXCEPT ![o] = IF stage = "ok" THEN "DONE"
                                                       ELSE "FAILED"]
     /\ effects' = [effects EXCEPT ![o] = IF ledger[o] = "NONE" THEN @ + 1
                                                               ELSE @]
     /\ handle' = (handle \/ (ledger[o] = "NONE" /\ Plan[o] = "START"))
  /\ UNCHANGED <<durable, srv, active, up, down, agent, proc>>

\* The caller waits for the result, or has been cancelled.
Awaited == worker.stage = "wait" /\ worker.op = gate.op

\* The operation is over and the gate is released.
Released(success) ==
  /\ gate' = Free
  /\ worker' = IF ~Awaited THEN worker
               ELSE [worker EXCEPT !.stage = IF success THEN "ok"
                                                        ELSE "failed"]
  /\ ledger' = IF Awaited /\ success THEN [ledger EXCEPT ![gate.op] = "DONE"]
               ELSE ledger

\* start, up to the launch of the process.
Launch ==
  /\ gate.stage = "launch"
  /\ \/ Released(FALSE) /\ proc' \in {"none", "stopped"}
     \/ /\ proc' = "starting"
        /\ gate' = [gate EXCEPT !.stage = "init"]
        /\ UNCHANGED <<worker, ledger>>

\* Mutant: a launch that was cancelled under way still counts as started.
InitializedMutant ==
  /\ gate.stage = "init"
  /\ \/ proc = "starting" /\ Released(TRUE) /\ proc' = "running"
     \/ Released(FALSE) /\ proc' = "stopped"

\* start, after the handshake with the adapter: success, or a stop.
Initialized ==
  /\ gate.stage = "init"
  /\ \/ proc = "starting" /\ Awaited /\ Released(TRUE) /\ proc' = "running"
     \/ Released(FALSE) /\ proc' = "stopped"

\* startTurn: a turn whose result is not delivered stops the process.
TurnStarted ==
  /\ gate.stage = "turn"
  /\ \/ proc = "running" /\ Awaited /\ Released(TRUE) /\ UNCHANGED proc
     \/ Released(FALSE) /\ proc' = "stopped"

ProcessStopped ==
  /\ gate.stage = "stop"
  /\ \E success \in BOOLEAN : Released(success)
  /\ proc' = "stopped"

\* The deadline of the command or of the operation: the caller returns, the
\* operation keeps the gate.
OperationTimeout ==
  /\ worker.stage = "wait"
  /\ worker' = [worker EXCEPT !.stage = "failed"]
  /\ UNCHANGED <<gate, ledger, proc>>

\* The child exits by itself and is reaped.
ProcessExits ==
  /\ proc \in {"starting", "running"}
  /\ proc' = "stopped"
  /\ UNCHANGED <<gate, worker, ledger>>

Operation == Launch \/ Initialized \/ TurnStarted \/ ProcessStopped

Supervise ==
  /\ Operation \/ OperationTimeout \/ ProcessExits
  /\ UNCHANGED <<durable, srv, active, up, down, agent, handle, effects>>

Agentd ==
  \/ Dial \/ CredentialExpired \/ DialFails \/ Connected \/ Cleanup \/ Exit
  \/ Lost \/ RenewalDue \/ Beat \/ Receive \/ Result
  \/ DeadlineNear \/ Terminate \/ Execute \/ Supervise

Next == Environment \/ (\E r \in Streams : Server(r)) \/ Agentd

Spec == Init /\ [][Next]_vars

\* Streams have a finite deadline, handshakes and process operations a finite
\* budget, and goroutines run.  Nothing is assumed of AR or of the network.
Fairness ==
  /\ WF_vars(DeadlineNear) /\ WF_vars(DialFails) /\ WF_vars(Cleanup)
  /\ WF_vars(Exit) /\ WF_vars(Execute)
  /\ WF_vars(Operation
             /\ UNCHANGED <<durable, srv, active, up, down, agent, handle,
                            effects>>)

FairSpec == Spec /\ Fairness

-----------------------------------------------------------------------------
(* Properties.                                                             *)

Dispatch == INSTANCE CommandDispatch WITH
  outcome <- [o \in Operations |-> journal[o].outcome],
  succeeded <- {o \in Operations : ledger[o] = "DONE"}

\* Whatever happens to streams, credentials and processes, the commands of the
\* plan are dispatched as CommandDispatch promises: in order, one at a time,
\* at most one effect each, and acknowledged only if agentd succeeded.
ImplementsDispatch == Dispatch!Spec

\* AR never refuses the next frame agentd has sent on a connection that is
\* still current: counters, active operation, the thread before its
\* acknowledgement, and final reports all agree with the frame policy.
FramesAccepted ==
  \A r \in Streams :
    Reading(r) /\ up[r] # <<>> /\ Current(srv[r])
      => Authorized(Head(up[r]), srv[r])

\* As long as no later connection is accepted, the row belongs to the stream
\* that is served under its epoch: the delayed CloseConnection of an earlier
\* stream cannot erase its replacement.
ReplacementKept ==
  \A r \in Streams :
    Reading(r) /\ srv[r].epoch = row.epoch
      => row.open /\ row.cred = srv[r].cred

\* Connect never ends the stream that holds the newest epoch in favour of
\* another one, however late an older admission reaches the active map.
NewestNotDisplaced ==
  [][\A r \in Streams :
       Reading(r) /\ srv[r].epoch = row.epoch /\ srv'[r].pc = "closing"
         => active' = active]_vars

\* While agentd is without a stream, no process runs on its behalf: what is
\* left is a launch whose caller is gone, which still holds the gate and stops
\* the process itself.
NoAutonomousWork ==
  agent.pc \in {"dial", "hello"} /\ proc \in {"starting", "running"}
    => gate.stage = "init" /\ ~Awaited

\* A credential that has a registered successor never has more than the short
\* remainder Register left it, through any sequence of lost replies and
\* reconnects.
SupersededIsCapped ==
  row.open /\ row.cred # row.latest => row.deadline \in {"capped", "past"}

\* The credential row through closes, take-overs and renewals that race: it
\* belongs to the connection served under its epoch, and it keeps superseded
\* credentials capped.
ConnectionInv == TypeOK /\ ReplacementKept /\ SupersededIsCapped

\* Once admission is revoked, the sandbox comes to rest: from some point on no
\* process of agentd runs, although agentd is never told.
RevokedWorkEnds == ~authorised ~> [](proc \notin {"starting", "running"})

\* The final report "stopped" on a current connection means that no process
\* runs ("Busy or unresolved stop reports `unresolved`", ADR-0043).
StoppedReportsAreTrue ==
  \A r \in Streams : Current(srv[r]) =>
    \A i \in DOMAIN up[r] :
      up[r][i].kind = "stopped" => proc \notin {"starting", "running"}
=============================================================================
