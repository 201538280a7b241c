------------------------- MODULE MCRequestPipeline -------------------------
(* The instance of RequestPipeline that TLC checks: clients that race, one   *)
(* client with two dispatchers, and one client with a reader.                *)
EXTENDS RequestPipeline

CONSTANTS c1, c2, d1, d2, r1

Racing == [clients |-> {c1, c2}, dispatchers |-> {}, readers |-> {},
           requests |-> 4, events |-> 0, ends |-> TRUE]
Dispatched == [clients |-> {c1}, dispatchers |-> {d1, d2}, readers |-> {},
               requests |-> 1, events |-> 0, ends |-> FALSE]
Followed == [clients |-> {c1}, dispatchers |-> {}, readers |-> {r1},
             requests |-> 2, events |-> 5, ends |-> FALSE]

MCPopulations == {Racing, Dispatched, Followed}
=============================================================================
