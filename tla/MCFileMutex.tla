---------------------------- MODULE MCFileMutex ----------------------------
(* Processes for model-checking FileMutex. *)
EXTENDS FileMutex, TLC

CONSTANTS p1, p2, p3

TwoProcs == {p1, p2}
ThreeProcs == {p1, p2, p3}
Symmetry == Permutations(Proc)
============================================================================
