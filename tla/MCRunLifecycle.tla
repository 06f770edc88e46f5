--------------------------- MODULE MCRunLifecycle ---------------------------
(* Instances of RunLifecycle for TLC. *)
EXTENDS RunLifecycle, TLC

(* Processes run the same program; for runs of invariants only. *)
Processes == Permutations(Proc)
=============================================================================
