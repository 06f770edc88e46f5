---------------------------- MODULE MCTargetBody ----------------------------
(* Instances of TargetBody: a target with everything, one whose remediations *)
(* try again, one that owes nothing, one without a body of its own.          *)
EXTENDS TargetBody

Everything == [gate |-> FALSE, effects |-> 2, retries |-> 1, recover |-> 1,
               delay |-> TRUE, checks |-> 2]
Plain == [gate |-> FALSE, effects |-> 1, retries |-> 2, recover |-> 0,
          delay |-> FALSE, checks |-> 1]
Bare == [gate |-> FALSE, effects |-> 0, retries |-> 0, recover |-> 0,
         delay |-> FALSE, checks |-> 0]
Gate == [gate |-> TRUE, effects |-> 2, retries |-> 0, recover |-> 0,
         delay |-> FALSE, checks |-> 0]

AllShapes == {Everything, Plain, Bare, Gate}
=============================================================================
