----------------------------- MODULE MCRunLocks -----------------------------
(* Instances of RunLocks: a run with a gate and two parallel targets, and a *)
(* second run that wants one of its keys.                                   *)
EXTENDS RunLocks, TLC

CONSTANTS runA, runB, t1, t2, u1, k1, k2

Owner == [t \in {t1, t2, u1} |-> IF t = u1 THEN runB ELSE runA]

ForRun(k) == [key |-> k, holdForRun |-> TRUE, polls |-> 0]
ForBody(k, n) == [key |-> k, holdForRun |-> FALSE, polls |-> n]

Declared(d1, d2, d3) == (t1 :> d1) @@ (t2 :> d2) @@ (u1 :> d3)

(* Siblings that share a key for the run; one that takes it for its body;   *)
(* two keys of one run, one of which the other run may take meanwhile.      *)
AllDecls ==
  {Declared(ForRun(k1), ForRun(k1), ForBody(k1, 1)),
   Declared(ForRun(k1), ForBody(k1, 1), ForRun(k1)),
   Declared(ForRun(k1), ForRun(k2), ForBody(k2, 0))}
=============================================================================
