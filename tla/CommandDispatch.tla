--------------------------- MODULE CommandDispatch ---------------------------
(***************************************************************************)
(* What dispatch of a plan of commands to a sandbox promises, whatever     *)
(* happens to connections and credentials: commands are claimed in the     *)
(* order of the plan, one outstanding at a time; a claimed command takes   *)
(* effect at most once; it is acknowledged only after it succeeded; and an *)
(* outcome, once recorded, is final.  A claim without an outcome is        *)
(* ambiguous and is never claimed again.                                   *)
(***************************************************************************)
EXTENDS Naturals

CONSTANT Operations   \* an initial segment of the positive naturals

VARIABLES
  outcome,    \* per operation: ABSENT, PENDING, ACKNOWLEDGED or UNKNOWN
  effects,    \* per operation, how often the sandbox acted on it
  succeeded   \* the operations that succeeded in the sandbox

vars == <<outcome, effects, succeeded>>

Init ==
  /\ outcome = [o \in Operations |-> "ABSENT"]
  /\ effects = [o \in Operations |-> 0]
  /\ succeeded = {}

Claim(o) ==
  /\ outcome[o] = "ABSENT"
  /\ \A p \in Operations : p < o => outcome[p] = "ACKNOWLEDGED"
  /\ outcome' = [outcome EXCEPT ![o] = "PENDING"]
  /\ UNCHANGED <<effects, succeeded>>

Act(o) ==
  /\ outcome[o] = "PENDING"
  /\ effects[o] = 0
  /\ effects' = [effects EXCEPT ![o] = 1]
  /\ succeeded' \in {succeeded, succeeded \cup {o}}
  /\ UNCHANGED outcome

Succeed(o) ==
  /\ effects[o] = 1
  /\ outcome[o] = "PENDING"
  /\ succeeded' = succeeded \cup {o}
  /\ UNCHANGED <<outcome, effects>>

Settle(o) ==
  /\ outcome[o] = "PENDING"
  /\ effects[o] = 1
  /\ outcome' = [outcome EXCEPT ![o] =
                   IF o \in succeeded THEN "ACKNOWLEDGED" ELSE "UNKNOWN"]
  /\ UNCHANGED <<effects, succeeded>>

Next == \E o \in Operations : Claim(o) \/ Act(o) \/ Succeed(o) \/ Settle(o)

Spec == Init /\ [][Next]_vars
=============================================================================
