----------------------------- MODULE Lifecycle -----------------------------
(***************************************************************************)
(* The legal lifecycle edges of the three aggregates that carry authority: *)
(* Session, Execution and Attempt (internal/domain).  They are the tables  *)
(* that Transition consults before it writes a new state and advances the  *)
(* aggregate's state version.                                              *)
(***************************************************************************)

SessionStates == {"PROVISIONING", "READY", "ACTIVE", "IDLE", "SUSPENDED",
                  "DEGRADED", "CLOSING", "CLOSED"}

ExecutionStates == {"QUEUED", "MATERIALIZING", "RUNNING", "CANCELLING",
                    "TIMING_OUT", "SUCCEEDED", "FAILED", "CANCELLED",
                    "TIMED_OUT"}

AttemptStates == {"PENDING", "ACQUIRING", "STARTING", "RUNNING",
                  "INTERRUPTING", "SUCCEEDED", "FAILED", "CANCELLED",
                  "TIMED_OUT", "REPLACED"}

\* Session.canTransition: the edges that do not depend on the recovery state.
SessionTable ==
  {<<"PROVISIONING", "READY">>, <<"PROVISIONING", "DEGRADED">>,
   <<"READY", "ACTIVE">>, <<"READY", "SUSPENDED">>, <<"READY", "DEGRADED">>,
   <<"ACTIVE", "IDLE">>, <<"ACTIVE", "DEGRADED">>,
   <<"IDLE", "ACTIVE">>, <<"IDLE", "SUSPENDED">>, <<"IDLE", "DEGRADED">>,
   <<"SUSPENDED", "READY">>, <<"SUSPENDED", "IDLE">>,
   <<"SUSPENDED", "DEGRADED">>, <<"CLOSING", "CLOSED">>}

\* A degraded Session returns only to the state it was degraded from; any
\* Session that is not CLOSED may start closing.
SessionEdge(state, recovery, next) ==
  /\ next # state
  /\ \/ state # "CLOSED" /\ next = "CLOSING"
     \/ state = "DEGRADED" /\ next = recovery
     \/ state # "DEGRADED" /\ <<state, next>> \in SessionTable

ExecutionTable ==
  {<<"QUEUED", "MATERIALIZING">>, <<"QUEUED", "CANCELLING">>,
   <<"QUEUED", "TIMING_OUT">>, <<"QUEUED", "FAILED">>,
   <<"MATERIALIZING", "RUNNING">>, <<"MATERIALIZING", "CANCELLING">>,
   <<"MATERIALIZING", "TIMING_OUT">>, <<"MATERIALIZING", "FAILED">>,
   <<"RUNNING", "MATERIALIZING">>, <<"RUNNING", "CANCELLING">>,
   <<"RUNNING", "TIMING_OUT">>, <<"RUNNING", "SUCCEEDED">>,
   <<"RUNNING", "FAILED">>, <<"CANCELLING", "CANCELLED">>,
   <<"CANCELLING", "FAILED">>, <<"TIMING_OUT", "TIMED_OUT">>,
   <<"TIMING_OUT", "FAILED">>}

\* Mutant: a succeeded Execution may run again.
ExecutionEdgeMutant(state, next) ==
  <<state, next>> \in ExecutionTable \cup {<<"SUCCEEDED", "RUNNING">>}

ExecutionEdge(state, next) == <<state, next>> \in ExecutionTable

AttemptTable ==
  {<<"PENDING", "ACQUIRING">>, <<"PENDING", "FAILED">>,
   <<"PENDING", "INTERRUPTING">>,
   <<"ACQUIRING", "STARTING">>, <<"ACQUIRING", "FAILED">>,
   <<"ACQUIRING", "INTERRUPTING">>,
   <<"STARTING", "RUNNING">>, <<"STARTING", "FAILED">>,
   <<"STARTING", "INTERRUPTING">>,
   <<"RUNNING", "SUCCEEDED">>, <<"RUNNING", "FAILED">>,
   <<"RUNNING", "INTERRUPTING">>,
   <<"INTERRUPTING", "CANCELLED">>, <<"INTERRUPTING", "TIMED_OUT">>,
   <<"INTERRUPTING", "REPLACED">>, <<"INTERRUPTING", "FAILED">>}

AttemptEdge(state, next) == <<state, next>> \in AttemptTable

\* executions_one_mutable_per_session_idx names exactly these states.
MutableExecution == {"QUEUED", "MATERIALIZING", "RUNNING", "CANCELLING",
                     "TIMING_OUT"}

TerminalExecution == {"SUCCEEDED", "FAILED", "CANCELLED", "TIMED_OUT"}

TerminalAttempt == {"SUCCEEDED", "FAILED", "CANCELLED", "TIMED_OUT",
                    "REPLACED"}
=============================================================================
