---------------------------- MODULE PlanGraph ----------------------------
(***************************************************************************)
(* The plan one run executes: what `planGraph`, the target builders and    *)
(* the execute options hand to the scheduler.  A target is named by its    *)
(* position in the plan's topological order, so "every predecessor comes   *)
(* earlier" is what `topoOrder` guarantees.                                *)
(*                                                                         *)
(* This module declares constants and helpers only; Scheduler and the      *)
(* abstract TaskGraph share it.                                            *)
(***************************************************************************)
EXTENDS Naturals

CONSTANTS
  N,      \* how many targets the plan has
  Plans   \* the plans a run may be given

Target == 1..N

(***************************************************************************)
(* preds    predecessors of each target, hard and soft edges alike          *)
(* always   targets declared `.always()`                                   *)
(* lenient  targets declared `.proceedAfterFailure()`                      *)
(* gates    targets declared `.waitsFor(...)`                              *)
(* cancels  targets whose `.onFailure(...)` cancels the run                *)
(* skip     names in the run's skip set                                    *)
(* recorded the row of each target as the record came, of an earlier       *)
(*          process if this is a resume                                    *)
(* group    the overlap group of each target, 0 for none                   *)
(* parallel whether `--parallel` lets everything overlap                   *)
(* limit    how many targets may be in flight                              *)
(***************************************************************************)
FinalRow == {"succeeded", "failed", "skipped"}
Row == FinalRow \cup {"pending", "running", "waiting"}

IsPlan(pl) ==
  /\ pl.preds \in [Target -> SUBSET Target]
  /\ \A t \in Target : \A p \in pl.preds[t] : p < t
  /\ {pl.always, pl.lenient, pl.gates, pl.cancels, pl.skip} \subseteq SUBSET Target
  /\ pl.recorded \in [Target -> Row]
  /\ pl.group \in [Target -> Nat]
  /\ pl.parallel \in BOOLEAN
  /\ pl.limit \in Nat \ {0}

ASSUME NAssumption == N \in Nat
ASSUME PlansAssumption == \A pl \in Plans : IsPlan(pl)

(* Whether two targets may be in flight together: `canOverlap`. *)
CanOverlap(pl, a, b) ==
  pl.parallel \/ (pl.group[a] # 0 /\ pl.group[a] = pl.group[b])

(* On a resume: only what the record calls succeeded is not run again. *)
Prior(pl) == {t \in Target : pl.recorded[t] = "succeeded"}

(* Targets that count as completed before anything is launched. *)
Preset(pl) == pl.skip \cup Prior(pl)
=============================================================================
