---------------------------- MODULE TaskGraph ----------------------------
(***************************************************************************)
(* What a run promises about its targets, whatever the scheduler's limit,  *)
(* groups and launching order: a target is launched once and only on       *)
(* completed predecessors, is dropped only for a reason, and the run       *)
(* closes only when nothing is in flight and nothing more can be.          *)
(***************************************************************************)
EXTENDS PlanGraph

VARIABLES
  plan,
  status,     \* where each target is
  aborted,    \* the run was told to stop
  closed      \* the run is over

graphVars == <<plan, status, aborted, closed>>

(* "todo"    not launched           "active"  launched, not over yet       *)
(* "done"    unblocks dependents    "failed"  ran and failed               *)
(* "dropped" will never be launched "parked"  a gate waiting for its event *)
Status == {"todo", "active", "done", "failed", "dropped", "parked"}
Over == {"done", "failed", "dropped"}

GraphInit ==
  /\ plan \in Plans
  /\ status = [t \in Target |-> IF t \in Preset(plan) THEN "done" ELSE "todo"]
  /\ aborted \in BOOLEAN
  /\ closed = FALSE

failing == {t \in Target : status[t] = "failed"}

(* A failed or aborted run cannot be resumed; a failure that is not lenient *)
(* also ends the launching of ordinary work.                                *)
doomed == aborted \/ failing # {}
stopping == aborted \/ ~(failing \subseteq plan.lenient)

LaunchTarget(t) ==
  /\ ~closed
  /\ status[t] = "todo"
  /\ IF t \in plan.always
     THEN \A p \in plan.preds[t] : status[p] \in Over
     ELSE ~stopping /\ \A p \in plan.preds[t] : status[p] = "done"
  /\ status' = [status EXCEPT ![t] = "active"]
  /\ UNCHANGED <<plan, aborted, closed>>

(* Teardown is never dropped. *)
DropTarget(t) ==
  /\ ~closed
  /\ status[t] = "todo"
  /\ t \notin plan.always
  /\ \/ stopping
     \/ \E p \in plan.preds[t] :
          \/ status[p] \in {"failed", "dropped"}
          \/ doomed /\ status[p] = "parked"
  /\ status' = [status EXCEPT ![t] = "dropped"]
  /\ UNCHANGED <<plan, aborted, closed>>

FinishTarget(t) ==
  /\ status[t] = "active"
  /\ \/ /\ status' = [status EXCEPT ![t] = "done"]
        /\ UNCHANGED aborted
     \/ /\ status' = [status EXCEPT ![t] = "failed"]
        /\ aborted' = (aborted \/ t \in plan.cancels)
     \/ /\ t \in plan.gates
        /\ status' = [status EXCEPT ![t] = "parked"]
        /\ UNCHANGED aborted
  /\ UNCHANGED <<plan, closed>>

AbortRun ==
  /\ ~closed
  /\ ~aborted
  /\ aborted' = TRUE
  /\ UNCHANGED <<plan, status, closed>>

(* Only a parked gate, directly or through others, may still hold a target  *)
(* back; a failed run gives up on it all, a suspended one keeps it.         *)
CloseRun ==
  LET heldBack == {t \in Target : status[t] \in {"todo", "parked"}} IN
  /\ ~closed
  /\ \A t \in Target : status[t] # "active"
  /\ \A t \in Target : status[t] = "todo" =>
       \E p \in plan.preds[t] : p \in heldBack
  /\ closed' = TRUE
  /\ status' = [t \in Target |-> IF t \in heldBack /\ failing # {} THEN "dropped"
                                 ELSE status[t]]
  /\ UNCHANGED <<plan, aborted>>

GraphNext ==
  \/ \E t \in Target : LaunchTarget(t) \/ DropTarget(t) \/ FinishTarget(t)
  \/ AbortRun
  \/ CloseRun

GraphSafety == GraphInit /\ [][GraphNext]_graphVars

(* Every run closes. *)
GraphSpec == GraphSafety /\ <>closed
=============================================================================
