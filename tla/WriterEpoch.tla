---------------------------- MODULE WriterEpoch -----------------------------
(***************************************************************************)
(* The single-writer promise of a Session, without rows, versions, copies  *)
(* or triggers.  At most one writer (an Execution, named by its epoch)     *)
(* exists; each writer gets an epoch of its own; at most one agent (an     *)
(* Attempt) acts for the writer at a time, an agent never returns once it  *)
(* stopped, and while the writer is paused nothing about the agent changes *)
(* unless the same step replaces it and unpauses the writer.               *)
(***************************************************************************)
EXTENDS Integers

CONSTANT Attempts

VARIABLES
  epoch,    \* the epoch of the latest writer, 0 before the first
  writer,   \* 0, or the epoch of the writer that may act
  paused,   \* the writer exists and may not act
  agents,   \* the agents that act for the writer: none or one
  used      \* every agent that ever acted

abstract == <<epoch, writer, paused, agents, used>>

Init ==
  /\ epoch = 0
  /\ writer = 0
  /\ paused = FALSE
  /\ agents = {}
  /\ used = {}

\* A new writer gets the next epoch, and only when there is none.
Admit ==
  /\ writer = 0
  /\ epoch' = epoch + 1
  /\ writer' = epoch + 1
  /\ UNCHANGED <<paused, agents, used>>

\* The writer ends, and its agent with it.
Retire ==
  /\ writer # 0
  /\ ~paused
  /\ writer' = 0
  /\ agents' = {}
  /\ UNCHANGED <<epoch, paused, used>>

Pause ==
  /\ writer # 0
  /\ ~paused
  /\ paused' = TRUE
  /\ UNCHANGED <<epoch, writer, agents, used>>

Unpause ==
  /\ paused
  /\ paused' = FALSE
  /\ UNCHANGED <<epoch, writer, agents, used>>

\* A fresh agent starts to act for the writer.
Attach(a) ==
  /\ writer # 0
  /\ ~paused
  /\ agents = {}
  /\ a \notin used
  /\ agents' = {a}
  /\ used' = used \cup {a}
  /\ UNCHANGED <<epoch, writer, paused>>

\* The agent stops acting.
Detach ==
  /\ writer # 0
  /\ ~paused
  /\ agents # {}
  /\ agents' = {}
  /\ UNCHANGED <<epoch, writer, paused, used>>

\* A paused writer goes on with a fresh agent in place of the lost one.
Replace(a) ==
  /\ paused
  /\ agents # {}
  /\ a \notin used
  /\ agents' = {a}
  /\ used' = used \cup {a}
  /\ paused' = FALSE
  /\ UNCHANGED <<epoch, writer>>

Next ==
  \/ Admit
  \/ Retire
  \/ Pause
  \/ Unpause
  \/ \E a \in Attempts : Attach(a)
  \/ Detach
  \/ \E a \in Attempts : Replace(a)

Spec == Init /\ [][Next]_abstract
=============================================================================
