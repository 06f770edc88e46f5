------------------------- MODULE Scheduler_proofs -------------------------
(***************************************************************************)
(* Proofs about `runScheduled` for every plan: any number of targets, any  *)
(* wiring, any limit, groups, gates, skips and past.                       *)
(*                                                                         *)
(* The safety properties are not inductive by themselves.  They rest on    *)
(* how the loop's sets nest (Ledger), on what is known of a target that    *)
(* was not started or is in flight (Untouched), on what started targets    *)
(* became while the pump may still run (Accounted), and on what the        *)
(* current pass of the pump has already ruled out (Passed).                *)
(***************************************************************************)
EXTENDS Scheduler, FiniteSetTheorems, TLAPS

(* The sets nest, and launching respected them. *)
Ledger ==
  /\ done \subseteq settled
  /\ settled \subseteq started
  /\ launched \subseteq started
  /\ runningSet \subseteq launched
  /\ runningSet \cap settled = {}
  /\ phase # "preset" => Preset(plan) \subseteq done
  /\ \A t \in launched : plan.preds[t] \subseteq settled
  /\ \A t \in launched \ plan.always : plan.preds[t] \subseteq done
  /\ \A t \in done : /\ outcomes[t] \in {"passed", "cached", "skipped"}
                     /\ t \in launched \cup Preset(plan)

(* Of a target that is not over there is no outcome, and once the run has    *)
(* counted what is done the record calls it succeeded only while its output *)
(* could not be shown.                                                      *)
Untouched ==
  /\ \A t \in Target : t \notin started \/ t \in runningSet =>
       /\ outcomes[t] = "none"
       /\ rows[t] = "succeeded" => phase = "preset" \/ stage[t] = "told"
  /\ \A t \in Target : outcomes[t] = "waiting" =>
       t \in launched /\ t \notin settled /\ rows[t] = "waiting"
  /\ \A t \in Target : t \notin runningSet => stage[t] = "none"
  /\ phase = "preset" => started = {} /\ rows = plan.recorded

(* While the pump may still run, a started target is settled, in flight or  *)
(* parked, and teardown was started only by launching it.                   *)
Accounted ==
  /\ phase # "pumping" => cursor = 0
  /\ phase = "pumping" =>
       /\ \A t \in started \ settled : t \in runningSet \/ outcomes[t] = "waiting"
       /\ \A t \in started \cap plan.always : t \in launched \cup Preset(plan)

(* With nothing in flight, a target the current pass left behind can be     *)
(* neither launched nor abandoned by the rest of the pass.                  *)
Passed ==
  phase = "pumping" /\ runningSet = {} =>
    \A t \in Target \ started : t < cursor => ~ready(t) /\ ~stranded(t)

IInv == TypeOK /\ Ledger /\ Untouched /\ Accounted /\ Passed

-----------------------------------------------------------------------------
(* Facts about plans. *)

LEMMA PlanFacts ==
  ASSUME NEW pl, IsPlan(pl)
  PROVE  /\ \A t \in Target : pl.preds[t] \subseteq Target
         /\ \A t \in Target : \A p \in pl.preds[t] : p < t /\ p # t
         /\ Preset(pl) \subseteq Target
         /\ pl.skip \subseteq Target /\ Prior(pl) \subseteq Target
         /\ pl.always \subseteq Target /\ pl.gates \subseteq Target
         /\ pl.limit \in Nat \ {0}
  BY NAssumption DEF IsPlan, Target, Preset, Prior

LEMMA InitEstablishes == Init => IInv
<1> SUFFICES ASSUME Init PROVE IInv
  OBVIOUS
<1>0. IsPlan(plan)
  BY PlansAssumption DEF Init
<1>1. TypeOK
  <2>1. rows \in [Target -> Row]
    BY <1>0 DEF Init, IsPlan
  <2>2. outcomes \in [Target -> Outcome \cup {"none"}]
    BY DEF Init
  <2>3. cursor \in 0 .. N + 1
    BY NAssumption DEF Init
  <2> QED
    BY <1>0, <2>1, <2>2, <2>3, PlanFacts DEF Init, TypeOK
<1>2. Ledger
  BY <1>0, PlanFacts DEF Init, Ledger, Preset
<1>3. Untouched
  BY DEF Init, Untouched
<1>4. Accounted /\ Passed
  BY DEF Init, Accounted, Passed
<1> QED
  BY <1>1, <1>2, <1>3, <1>4 DEF IInv

-----------------------------------------------------------------------------
(* The steps, one lemma for each kind. *)

(* The loop before the first pump. *)
LEMMA CountStep ==
  ASSUME IInv, CountCompleted
  PROVE  IInv'
<1>0. IsPlan(plan) /\ Preset(plan) \subseteq Target /\ plan.skip \subseteq Target
  BY PlanFacts DEF IInv, TypeOK
<1>1. /\ started = {} /\ done = {} /\ launched = {} /\ runningSet = {}
      /\ rows = plan.recorded
  BY DEF CountCompleted, IInv, Ledger, Untouched
<1>2. TypeOK'
  <2>1. outcomes' \in [Target -> Outcome \cup {"none"}]
    BY DEF CountCompleted, Outcome
  <2>2. rows' \in [Target -> Row]
    BY DEF CountCompleted, IInv, TypeOK, Row, FinalRow
  <2> QED
    BY <1>0, <2>1, <2>2, NAssumption DEF CountCompleted, IInv, TypeOK
<1>3. Ledger'
  <2>1. \A t \in Preset(plan) : outcomes'[t] \in {"passed", "cached", "skipped"}
    BY <1>0 DEF CountCompleted, Preset
  <2> QED
    BY <1>0, <1>1, <2>1 DEF CountCompleted, Ledger, Preset, Prior
<1>4. Untouched'
  <2>1. \A t \in Target : outcomes'[t] # "waiting"
    BY DEF CountCompleted
  <2>2. \A t \in Target \ Preset(plan) : outcomes'[t] = "none" /\ rows'[t] # "succeeded"
    BY <1>1 DEF CountCompleted, Preset, Prior
  <2> QED
    BY <1>1, <2>1, <2>2 DEF CountCompleted, IInv, Untouched
<1>5. Accounted'
  BY DEF CountCompleted, Accounted, Preset, Prior
<1>6. Passed'
  BY NAssumption DEF CountCompleted, Passed, Target
<1> QED
  BY <1>2, <1>3, <1>4, <1>5, <1>6 DEF IInv

(* Steps that only move the loop on. *)
LEMMA CursorSteps ==
  ASSUME IInv,
         SlotsFull \/ PumpYields \/ \E t \in Target : PassOver(t)
  PROVE  IInv'
<1>0. /\ UNCHANGED <<plan, outcomes, done, settled, started, runningSet, anyFailed,
                     anyWaiting, halted, aborted, phase, rows, stage, launched>>
      /\ cursor # 0 /\ phase = "pumping"
  BY NAssumption DEF SlotsFull, PumpYields, PassOver, AtTarget, Target, IInv,
     Accounted, TypeOK
<1>1. TypeOK'
  <2>1. cursor' \in 0 .. N + 1
    BY NAssumption DEF SlotsFull, PumpYields, PassOver, AtTarget, Target
  <2> QED
    BY <1>0, <2>1 DEF IInv, TypeOK
<1>2. Ledger' /\ Untouched' /\ Accounted'
  BY <1>0 DEF IInv, Ledger, Untouched, Accounted
<1>3. Passed'
  <2> SUFFICES ASSUME runningSet = {}, NEW u \in Target \ started, u < cursor'
               PROVE  ~ready(u) /\ ~stranded(u)
    BY <1>0 DEF Passed, ready, stranded, mayStillResume
  <2>1. ~SlotsFull
    BY FS_EmptySet, PlanFacts DEF SlotsFull, IInv, TypeOK
  <2>2. ~PumpYields
    BY DEF PumpYields
  <2>3. PICK t \in Target : PassOver(t)
    BY <2>1, <2>2
  <2>4. CASE u = t
    BY <2>3, <2>4 DEF PassOver, overlaps
  <2>5. CASE u # t
    <3>1. u < cursor
      BY <2>3, <2>5, NAssumption DEF PassOver, AtTarget, Target
    <3> QED
      BY <3>1, <1>0 DEF IInv, Passed
  <2> QED
    BY <2>4, <2>5
<1> QED
  BY <1>1, <1>2, <1>3 DEF IInv

LEMMA AbandonStep ==
  ASSUME IInv, NEW t \in Target, Abandon(t)
  PROVE  IInv'
<1>0. /\ phase = "pumping" /\ cursor = t /\ t \notin started
      /\ t \notin plan.always /\ cursor' = t + 1
  BY NAssumption DEF Abandon, AtTarget, stranded, IInv, Accounted, Target
<1>1. TypeOK'
  <2>1. cursor' \in 0 .. N + 1
    BY <1>0, NAssumption DEF Target
  <2> QED
    BY <2>1 DEF Abandon, IInv, TypeOK, Outcome, Row, FinalRow
<1>2. Ledger'
  BY DEF Abandon, IInv, Ledger, TypeOK
<1>3. Untouched'
  BY <1>0 DEF Abandon, IInv, Ledger, Untouched, TypeOK
<1>4. Accounted'
  BY <1>0 DEF Abandon, IInv, Accounted, TypeOK
<1>5. Passed'
  <2> SUFFICES ASSUME runningSet = {}, NEW u \in Target \ started', u < cursor'
               PROVE  ~ready(u)' /\ ~stranded(u)'
    BY DEF Passed, Abandon
  <2>1. u < t /\ u \notin started /\ u # t
    BY <1>0 DEF Abandon, Target
  <2>2. ~ready(u) /\ ~stranded(u)
    BY <2>1, <1>0 DEF IInv, Passed
  <2>3. \A p \in plan.preds[u] : p # t /\ p \in Target
    BY <2>1, PlanFacts, NAssumption DEF IInv, TypeOK, Target
  <2> QED
    BY <2>2, <2>3 DEF ready, stranded, mayStillResume, Abandon, IInv, TypeOK
<1> QED
  BY <1>1, <1>2, <1>3, <1>4, <1>5 DEF IInv

LEMMA LaunchStep ==
  ASSUME IInv, NEW t \in Target, Launch(t)
  PROVE  IInv'
<1>0. /\ phase = "pumping" /\ cursor = t /\ t \notin started
      /\ cursor' = t + 1 /\ ready(t)
  BY NAssumption DEF Launch, AtTarget, IInv, Accounted, Target
<1>1. TypeOK'
  <2>1. cursor' \in 0 .. N + 1
    BY <1>0, NAssumption DEF Target
  <2> QED
    BY <2>1 DEF Launch, IInv, TypeOK
<1>2. Ledger'
  BY <1>0 DEF Launch, IInv, Ledger, ready
<1>3. Untouched'
  BY <1>0 DEF Launch, IInv, Untouched
<1>4. Accounted'
  BY <1>0 DEF Launch, IInv, Accounted
<1>5. Passed'
  BY DEF Launch, Passed
<1> QED
  BY <1>1, <1>2, <1>3, <1>4, <1>5 DEF IInv

LEMMA ResolveStep ==
  ASSUME IInv, PumpResolves
  PROVE  IInv'
<1> USE DEF PumpResolves, Sweep
<1>1. TypeOK'
  <2>1. outcomes' \in [Target -> Outcome \cup {"none"}]
    BY DEF IInv, TypeOK, Outcome
  <2>2. rows' \in [Target -> Row]
    BY DEF IInv, TypeOK, Row, FinalRow
  <2> QED
    BY <2>1, <2>2, NAssumption DEF IInv, TypeOK
<1>2. Ledger'
  <2>1. \A t \in done : outcomes'[t] = outcomes[t]
    BY DEF IInv, Ledger, TypeOK
  <2>2. phase = "pumping"
    BY NAssumption DEF IInv, TypeOK, Accounted
  <2> QED
    BY <2>1, <2>2 DEF IInv, Ledger, TypeOK
<1>3. Untouched'
  BY NAssumption DEF IInv, Untouched, Ledger, TypeOK, Accounted
<1>4. Accounted' /\ Passed'
  BY DEF Accounted, Passed
<1> QED
  BY <1>1, <1>2, <1>3, <1>4 DEF IInv

LEMMA BodyStartsStep ==
  ASSUME IInv, NEW t \in Target, BodyStarts(t)
  PROVE  IInv'
<1> USE DEF BodyStarts, Idle
<1>1. TypeOK'
  BY DEF IInv, TypeOK, Row
<1>2. Ledger' /\ Accounted'
  BY DEF IInv, Ledger, Accounted
<1>3. Untouched'
  BY DEF IInv, Untouched, TypeOK, FinalRow
<1>4. Passed'
  BY NAssumption DEF Passed, Target
<1> QED
  BY <1>1, <1>2, <1>3, <1>4 DEF IInv

LEMMA FlushFailsStep ==
  ASSUME IInv, NEW t \in Target, FlushFails(t)
  PROVE  IInv'
<1> USE DEF FlushFails, Idle
<1>1. PICK o \in Outcome : rows' = [rows EXCEPT ![t] = recordStatusOf(o)]
  OBVIOUS
<1>2. recordStatusOf(o) \in Row
  BY DEF recordStatusOf, Outcome, Row, FinalRow
<1>3. TypeOK'
  BY <1>1, <1>2 DEF IInv, TypeOK
<1>4. Ledger' /\ Accounted'
  BY DEF IInv, Ledger, Accounted
<1>5. Untouched'
  <2>1. outcomes[t] = "none" /\ stage'[t] = "told"
    BY DEF IInv, Untouched, TypeOK
  <2>2. \A u \in Target \ {t} : rows'[u] = rows[u] /\ stage'[u] = stage[u]
    BY <1>1 DEF IInv, TypeOK
  <2> QED
    BY <2>1, <2>2 DEF IInv, Untouched
<1>6. Passed'
  BY NAssumption DEF Passed, Target
<1> QED
  BY <1>3, <1>4, <1>5, <1>6 DEF IInv

LEMMA LeavesSteps ==
  ASSUME IInv, NEW t \in Target, Ends(t)
  PROVE  IInv'
<1>0. PICK o \in Outcome : Leaves(t, o)
  BY DEF Ends, Completes, Fails, Parks, Outcome
<1>1. /\ phase = "pumping" /\ phase' = "pumping" /\ cursor' = 1
      /\ t \in runningSet /\ t \in launched /\ t \in started /\ t \notin settled
  BY <1>0 DEF Leaves, Idle, IInv, Ledger
<1>2. \/ Completes(t) /\ settled' = settled \cup {t} /\ done' = done \cup {t}
      \/ Fails(t) /\ settled' = settled \cup {t} /\ done' = done
      \/ Parks(t) /\ settled' = settled /\ done' = done
  BY DEF Ends, Completes, Fails, Parks
<1>3. TypeOK'
  <2>1. recordStatusOf(o) \in Row
    BY <1>0 DEF recordStatusOf, Outcome, Row, FinalRow
  <2>2. /\ outcomes' \in [Target -> Outcome \cup {"none"}]
        /\ rows' \in [Target -> Row]
    BY <1>0, <2>1 DEF Leaves, IInv, TypeOK
  <2>3. anyFailed' \in BOOLEAN /\ anyWaiting' \in BOOLEAN
    BY DEF Ends, Completes, Fails, Parks, IInv, TypeOK
  <2>4. halted' \in BOOLEAN /\ aborted' \in BOOLEAN
    BY DEF Ends, Completes, Fails, Parks, IInv, TypeOK
  <2> QED
    BY <1>0, <1>1, <1>2, <2>2, <2>3, <2>4, NAssumption DEF Leaves, IInv, TypeOK
<1>4. Ledger'
  <2>1. \A u \in done : outcomes'[u] = outcomes[u]
    BY <1>0, <1>1 DEF Leaves, IInv, Ledger, TypeOK
  <2>2. Completes(t) => outcomes'[t] \in {"passed", "cached", "skipped"}
    BY DEF Completes, Leaves, IInv, TypeOK
  <2> QED
    BY <1>0, <1>1, <1>2, <2>1, <2>2 DEF Leaves, IInv, Ledger, TypeOK
<1>5. Untouched'
  <2>1. /\ \A u \in Target \ {t} : outcomes'[u] = outcomes[u] /\ rows'[u] = rows[u]
                                    /\ stage'[u] = stage[u]
        /\ stage'[t] = "none"
    BY <1>0 DEF Leaves, IInv, TypeOK
  <2>2. outcomes'[t] = "waiting" => rows'[t] = "waiting" /\ settled' = settled
    BY <1>0, <1>2
    DEF Completes, Fails, Parks, Leaves, recordStatusOf, IInv, TypeOK
  <2> QED
    BY <1>0, <1>1, <1>2, <2>1, <2>2 DEF Leaves, IInv, Untouched, Ledger
<1>6. Accounted'
  <2>1. Parks(t) => outcomes'[t] = "waiting"
    BY DEF Parks, Leaves, IInv, TypeOK
  <2> QED
    BY <1>0, <1>1, <1>2, <2>1 DEF Leaves, IInv, Accounted, TypeOK
<1>7. Passed'
  BY <1>1, NAssumption DEF Passed, Target
<1> QED
  BY <1>3, <1>4, <1>5, <1>6, <1>7 DEF IInv

LEMMA AbortStep ==
  ASSUME IInv, Abort
  PROVE  IInv'
<1>1. TypeOK' /\ Ledger' /\ Untouched' /\ Accounted'
  BY DEF Abort, IInv, TypeOK, Ledger, Untouched, Accounted
<1>2. Passed'
  BY NAssumption DEF Abort, Idle, Passed, Target
<1> QED
  BY <1>1, <1>2 DEF IInv

LEMMA ReturnsStep ==
  ASSUME IInv, Returns
  PROVE  IInv'
<1> DEFINE parked == {t \in Target : anyFailed /\ anyWaiting /\ outcomes[t] = "waiting"}
<1>1. /\ phase = "resolved" /\ phase' = "returned" /\ cursor = 0
      /\ outcomes' = [t \in Target |-> IF t \in parked THEN "skipped" ELSE outcomes[t]]
      /\ rows' = [t \in Target |-> IF t \in parked THEN "skipped" ELSE rows[t]]
      /\ UNCHANGED <<plan, done, settled, started, runningSet, anyFailed, anyWaiting,
                     halted, aborted, cursor, stage, launched>>
  BY DEF Returns, IInv, Accounted
<1>2. \A t \in parked : t \in launched /\ t \notin settled
                        /\ t \in started /\ t \notin runningSet
  BY DEF IInv, Untouched, Ledger
<1>3. TypeOK'
  BY <1>1 DEF IInv, TypeOK, Outcome, Row, FinalRow
<1>4. Ledger'
  <2>1. \A t \in done : outcomes'[t] = outcomes[t]
    BY <1>1, <1>2 DEF IInv, Ledger, TypeOK
  <2> QED
    BY <1>1, <2>1 DEF IInv, Ledger
<1>5. Untouched'
  BY <1>1, <1>2 DEF IInv, Untouched
<1>6. Accounted' /\ Passed'
  BY <1>1 DEF Accounted, Passed
<1> QED
  BY <1>3, <1>4, <1>5, <1>6 DEF IInv

LEMMA StepPreserves == IInv /\ [Next]_vars => IInv'
<1> SUFFICES ASSUME IInv, [Next]_vars PROVE IInv'
  OBVIOUS
<1>1. CASE UNCHANGED vars
  BY <1>1 DEF vars, IInv, TypeOK, Ledger, Untouched, Accounted, Passed, ready,
     stranded, mayStillResume
<1>2. CASE SlotsFull \/ PumpYields \/ \E t \in Target : PassOver(t)
  BY <1>2, CursorSteps
<1>3. CASE PumpResolves
  BY <1>3, ResolveStep
<1>4. ASSUME NEW t \in Target, Abandon(t) PROVE IInv'
  BY <1>4, AbandonStep
<1>5. ASSUME NEW t \in Target, Launch(t) PROVE IInv'
  BY <1>5, LaunchStep
<1>6. ASSUME NEW t \in Target, BodyStarts(t) \/ FlushFails(t) PROVE IInv'
  BY <1>6, BodyStartsStep, FlushFailsStep
<1>7. ASSUME NEW t \in Target, Ends(t) PROVE IInv'
  BY <1>7, LeavesSteps
<1>8. CASE Abort
  BY <1>8, AbortStep
<1>9. CASE Returns
  BY <1>9, ReturnsStep
<1>10. CASE CountCompleted
  BY <1>10, CountStep
<1> QED
  BY <1>1, <1>2, <1>3, <1>4, <1>5, <1>6, <1>7, <1>8, <1>9, <1>10
  DEF Next, Pump, Iterate, Finished

(* The bookkeeping of the loop is an invariant of every run of every plan.  *)
THEOREM Inductive == Spec => []IInv
  BY InitEstablishes, StepPreserves, PTL DEF Spec

(* Every state of every run is well typed: the loop's position stays within *)
(* the plan, rows and outcomes within their vocabularies.                   *)
THEOREM TypeCorrect == Spec => []TypeOK
<1>1. IInv => TypeOK
  BY DEF IInv
<1> QED
  BY <1>1, Inductive, PTL

(* Whatever the plan and the order of completions, nothing but teardown is  *)
(* launched on a predecessor that failed, was abandoned or is parked.       *)
THEOREM RestsOnSuccess == Spec => []WorkRestsOnSuccess
<1>1. IInv => WorkRestsOnSuccess
  BY DEF IInv, Ledger, WorkRestsOnSuccess
<1> QED
  BY <1>1, Inductive, PTL

(* Whatever the plan, teardown is launched only behind predecessors that    *)
(* have all stopped.                                                        *)
THEOREM TeardownLast == Spec => []TeardownRunsLast
<1>1. IInv => TeardownRunsLast
  BY DEF IInv, TypeOK, Ledger, TeardownRunsLast
<1> QED
  BY <1>1, Inductive, PTL

(* Whatever the plan, when nothing is in flight and the pass is over, every *)
(* target that was not looked after is behind a parked gate or behind       *)
(* another such target: the final sweep never takes one that could run.     *)
LEMMA PassIsComplete ==
  ASSUME IInv, phase = "pumping", cursor = N + 1, runningSet = {},
         NEW t \in Target \ started
  PROVE  \E p \in plan.preds[t] \ settled :
           \/ outcomes[p] = "waiting" /\ (t \in plan.always \/ mayStillResume)
           \/ p \notin started
<1>1. ~ready(t) /\ ~stranded(t)
  BY NAssumption DEF IInv, Passed, Target
<1>2. PICK p \in plan.preds[t] : p \notin settled
  BY <1>1 DEF ready, stranded
<1>3. p \in started => outcomes[p] = "waiting"
  BY <1>2 DEF IInv, Accounted
<1>4. outcomes[p] = "waiting" => t \in plan.always \/ mayStillResume
  BY <1>1, <1>2 DEF stranded
<1> QED
  BY <1>2, <1>3, <1>4

THEOREM GatesHoldBack == Spec => []OnlyGatesHoldBack
<1>1. IInv => OnlyGatesHoldBack
  <2> SUFFICES ASSUME IInv, cursor = N + 1, runningSet = {},
                      NEW t \in Target \ started
               PROVE  \E p \in plan.preds[t] :
                        outcomes[p] = "waiting" \/ p \notin started
    BY DEF OnlyGatesHoldBack
  <2>1. phase = "pumping"
    BY NAssumption DEF IInv, Accounted, TypeOK
  <2> QED
    BY <2>1, PassIsComplete
<1> QED
  BY <1>1, Inductive, PTL

(* Whatever the plan, a parked gate cannot make a doomed run forget more    *)
(* than the teardown directly behind it.                                    *)
THEOREM TeardownReached == Spec => []TeardownRuns
<1>1. Init => TeardownRuns
  BY DEF Init, TeardownRuns
<1>2. IInv /\ TeardownRuns /\ [Next]_vars => TeardownRuns'
  <2> SUFFICES ASSUME IInv, TeardownRuns, [Next]_vars,
                      phase' = "resolved", ~mayStillResume'
               PROVE  TeardownRuns'
    BY DEF TeardownRuns
  <2>1. CASE PumpResolves
    <3> SUFFICES ASSUME NEW t \in Target \ (launched \cup settled)
                 PROVE  \E p \in plan.preds[t] \ settled :
                          \/ p \notin launched
                          \/ t \in plan.always /\ outcomes'[p] = "waiting"
      BY <2>1 DEF TeardownRuns, PumpResolves, Sweep
    <3>1. phase = "pumping" /\ cursor = N + 1 /\ runningSet = {} /\ ~mayStillResume
      BY <2>1, NAssumption
      DEF PumpResolves, Sweep, IInv, Accounted, TypeOK, mayStillResume
    <3>2. t \notin started
      BY <3>1 DEF IInv, Accounted, Untouched
    <3>3. PICK p \in plan.preds[t] \ settled :
            \/ outcomes[p] = "waiting" /\ t \in plan.always
            \/ p \notin started
      BY <3>1, <3>2, PassIsComplete
    <3>4. CASE p \notin started
      BY <3>3, <3>4 DEF IInv, Ledger
    <3>5. CASE p \in started
      <4>1. p \in Target
        BY PlanFacts DEF IInv, TypeOK
      <4>2. outcomes'[p] = outcomes[p]
        BY <2>1, <3>5, <4>1 DEF PumpResolves, Sweep
      <4> QED
        BY <3>3, <3>5, <4>2
    <3> QED
      BY <3>4, <3>5
  <2>2. CASE UNCHANGED vars
    BY <2>2 DEF vars, TeardownRuns, mayStillResume
  <2>3. PumpResolves \/ UNCHANGED vars
    <3>1. phase = "resolved" => UNCHANGED vars
      BY NAssumption
      DEF Next, vars, Pump, Iterate, SlotsFull, PassOver, Abandon, Launch, AtTarget,
          PumpYields, PumpResolves, Sweep, BodyStarts, FlushFails, CountCompleted, Ends, Completes, Fails, Parks,
          Leaves, Idle, Abort, Returns, Finished, IInv, Accounted, Target
    <3>2. phase # "resolved" => PumpResolves
      BY DEF Next, vars, Pump, Iterate, SlotsFull, PassOver, Abandon, Launch, AtTarget,
          PumpYields, BodyStarts, FlushFails, CountCompleted, Ends, Completes, Fails, Parks, Leaves, Idle, Abort,
          Returns, Finished
    <3> QED
      BY <3>1, <3>2
  <2> QED
    BY <2>1, <2>2, <2>3
<1> QED
  BY <1>1, <1>2, Inductive, PTL DEF Spec

-----------------------------------------------------------------------------
(* Rows. *)

(* What a step may do to the row and the outcome of one target. *)
Stands(t) ==
  /\ outcomes[t] \notin {"none", "waiting"} => outcomes'[t] = outcomes[t] /\ rows'[t] = rows[t]
  /\ rows[t] = "succeeded" /\ rows'[t] # rows[t] =>
       \/ phase = "preset" /\ t \in plan.skip
       \/ stage[t] = "told" /\ outcomes'[t] = "failed"

LEMMA OutcomeStands ==
  ASSUME IInv, [Next]_vars, NEW t \in Target
  PROVE  Stands(t)
<1> USE DEF Stands
<1>1. ASSUME NEW u \in Target, Abandon(u) PROVE Stands(t)
  <2>1. phase # "preset" /\ outcomes[u] = "none" /\ rows[u] # "succeeded"
    BY <1>1, NAssumption
    DEF Abandon, AtTarget, IInv, Ledger, Untouched, Accounted, Target
  <2> QED
    BY <1>1, <2>1 DEF Abandon, IInv, TypeOK
<1>2. ASSUME NEW u \in Target, Ends(u) PROVE Stands(t)
  <2>0. PICK o \in Outcome : Leaves(u, o)
    BY <1>2 DEF Ends, Completes, Fails, Parks, Outcome
  <2>1. /\ outcomes[u] = "none" /\ outcomes'[u] = o
        /\ rows[u] = "succeeded" => stage[u] = "told"
    BY <2>0 DEF Leaves, Idle, IInv, Untouched, TypeOK
  <2>2. stage[u] = "told" => o = "failed"
    BY <1>2, <2>1 DEF Ends, Completes, Fails, Parks, MayEndAs, Leaves, IInv, TypeOK
  <2> QED
    BY <2>0, <2>1, <2>2 DEF Leaves, IInv, TypeOK
<1>3. ASSUME NEW u \in Target, BodyStarts(u) \/ FlushFails(u) PROVE Stands(t)
  <2>1. outcomes[u] = "none" /\ rows[u] # "succeeded" /\ UNCHANGED outcomes
    BY <1>3 DEF BodyStarts, FlushFails, MayEndAs, Idle, IInv, Untouched
  <2>2. \A v \in Target \ {u} : rows'[v] = rows[v]
    BY <1>3 DEF BodyStarts, FlushFails, IInv, TypeOK
  <2> QED
    BY <2>1, <2>2
<1>4. CASE PumpResolves
  <2>1. t \notin started => outcomes[t] = "none" /\ rows[t] # "succeeded"
    BY <1>4, NAssumption DEF PumpResolves, Sweep, IInv, Ledger, Untouched, Accounted
  <2> QED
    BY <1>4, <2>1 DEF PumpResolves, Sweep
<1>5. CASE Returns
  BY <1>5 DEF Returns, IInv, Untouched
<1>6. CASE CountCompleted
  <2>1. outcomes[t] = "none"
    BY <1>6 DEF CountCompleted, IInv, Untouched
  <2> QED
    BY <1>6, <2>1 DEF CountCompleted
<1>7. CASE UNCHANGED <<outcomes, rows>>
  BY <1>7
<1> QED
  BY <1>1, <1>2, <1>3, <1>4, <1>5, <1>6, <1>7
  DEF Next, vars, Pump, Iterate, SlotsFull, PassOver, Launch, PumpYields, Abort, Finished

(* Whatever the plan and whatever an earlier process left in the record, no *)
(* step takes back an outcome of this run, and none a recorded success but   *)
(* a skip decided at the start or a failure to show what succeeded.          *)
THEOREM NothingTakenBack == Spec => OutcomesStand
<1>1. IInv /\ [Next]_vars => [\A t \in Target : Stands(t)]_vars
  BY OutcomeStands
<1> QED
  BY <1>1, Inductive, PTL DEF Spec, OutcomesStand, Stands

-----------------------------------------------------------------------------
(* The slots. *)

LEMMA OverlapIsSymmetric ==
  ASSUME NEW pl, NEW a, NEW b, CanOverlap(pl, a, b)
  PROVE  CanOverlap(pl, b, a)
  BY DEF CanOverlap

(* Whatever the plan and its limit, the targets in flight fit the limit and *)
(* any two of them may share the console.                                   *)
THEOREM SlotsRespected == Spec => []InFlightMayOverlap
<1>1. Init => InFlightMayOverlap
  <2>1. Init => IsPlan(plan)
    BY PlansAssumption DEF Init
  <2> QED
    BY <2>1, PlanFacts, FS_EmptySet DEF Init, InFlightMayOverlap
<1>2. IInv /\ InFlightMayOverlap /\ [Next]_vars => InFlightMayOverlap'
  <2> SUFFICES ASSUME IInv, InFlightMayOverlap, [Next]_vars
               PROVE  InFlightMayOverlap'
    OBVIOUS
  <2>1. /\ IsFiniteSet(runningSet) /\ Cardinality(runningSet) \in Nat
        /\ plan.limit \in Nat
    <3>1. IsFiniteSet(Target)
      BY FS_Interval, NAssumption DEF Target
    <3>2. IsFiniteSet(runningSet)
      BY <3>1, FS_Subset DEF IInv, TypeOK
    <3> QED
      BY <3>2, FS_CardinalityType, PlanFacts DEF IInv, TypeOK
  <2>2. ASSUME NEW t \in Target, Launch(t) PROVE InFlightMayOverlap'
    <3>1. t \notin runningSet
      BY <2>2 DEF Launch, IInv, Ledger
    <3>2. Cardinality(runningSet \cup {t}) = Cardinality(runningSet) + 1
      BY <2>1, <3>1, FS_AddElement, Zenon
    <3>3. Cardinality(runningSet') <= plan.limit'
      <4>1. Cardinality(runningSet) < plan.limit
        BY <2>2 DEF Launch, AtTarget
      <4>2. runningSet' = runningSet \cup {t} /\ plan' = plan
        BY <2>2 DEF Launch
      <4> QED
        BY <2>1, <3>2, <4>1, <4>2
    <3>4. \A r \in runningSet : CanOverlap(plan, t, r) /\ CanOverlap(plan, r, t)
      BY <2>2, OverlapIsSymmetric DEF Launch, overlaps
    <3>5. \A a, b \in runningSet' : a # b => CanOverlap(plan', a, b)
      BY <2>2, <3>4 DEF Launch, InFlightMayOverlap
    <3> QED
      BY <3>3, <3>5 DEF InFlightMayOverlap
  <2>3. ASSUME NEW t \in Target, Ends(t) PROVE InFlightMayOverlap'
    <3>1. runningSet' = runningSet \ {t} /\ plan' = plan
      BY <2>3 DEF Ends, Completes, Fails, Parks, Leaves
    <3>2. Cardinality(runningSet') <= Cardinality(runningSet)
      BY <2>1, <3>1, FS_Subset
    <3>3. Cardinality(runningSet') \in Nat
      BY <2>1, <3>1, FS_Subset, FS_CardinalityType
    <3>4. Cardinality(runningSet') <= plan.limit'
      BY <2>1, <3>1, <3>2, <3>3 DEF InFlightMayOverlap
    <3>5. \A a, b \in runningSet' : a # b => CanOverlap(plan', a, b)
      BY <3>1 DEF InFlightMayOverlap
    <3> QED
      BY <3>4, <3>5 DEF InFlightMayOverlap
  <2>4. CASE UNCHANGED <<runningSet, plan>>
    BY <2>4 DEF InFlightMayOverlap
  <2> QED
    BY <2>2, <2>3, <2>4
    DEF Next, vars, Pump, Iterate, SlotsFull, PassOver, Abandon, PumpYields,
        PumpResolves, Sweep, BodyStarts, FlushFails, CountCompleted, Abort, Returns, Finished
<1> QED
  BY <1>1, <1>2, Inductive, PTL DEF Spec

-----------------------------------------------------------------------------
(* How the run ends. *)

(* The three flags say what the outcomes say, and what is settled, swept or   *)
(* given up on has a final row.                                             *)
Reported ==
  /\ anyFailed <=> \E t \in Target : outcomes[t] = "failed"
  /\ \A t \in Target : outcomes[t] = "failed" => t \in settled
  /\ halted <=> \E t \in Target \ plan.lenient : outcomes[t] = "failed"
  /\ phase # "returned" => (anyWaiting <=> \E t \in Target : outcomes[t] = "waiting")
  /\ phase = "returned" => (resultSuspended <=> \E t \in Target : outcomes[t] = "waiting")
  /\ \A t \in settled : rows[t] \in FinalRow
  /\ phase = "resolved" /\ ~resultSuspended =>
       \A t \in Target : outcomes[t] = "waiting" \/ rows[t] \in FinalRow
  /\ EndedRunsAreSettled

LEMMA ReportedInit == Init => Reported
<1> SUFFICES ASSUME Init PROVE Reported
  OBVIOUS
<1>0. IsPlan(plan)
  BY PlansAssumption DEF Init
<1>1. \A t \in Target : outcomes[t] \notin {"failed", "waiting"}
  BY DEF Init
<1>2. \A t \in settled : rows[t] \in FinalRow
  BY DEF Init
<1> QED
  BY <1>1, <1>2 DEF Init, Reported, EndedRunsAreSettled

LEMMA ReportedLeaves ==
  ASSUME IInv, Reported, NEW t \in Target, Ends(t)
  PROVE  Reported'
<1>0. PICK o \in Outcome : Leaves(t, o)
  BY DEF Ends, Completes, Fails, Parks, Outcome
<1>1. /\ phase = "pumping" /\ phase' = "pumping" /\ t \notin settled
      /\ outcomes[t] = "none"
      /\ outcomes'[t] = o /\ rows'[t] = recordStatusOf(o)
      /\ \A u \in Target \ {t} : outcomes'[u] = outcomes[u] /\ rows'[u] = rows[u]
  BY <1>0 DEF Leaves, Idle, IInv, TypeOK, Ledger, Untouched
<1>2. \/ /\ o \in {"passed", "skipped", "cached"}
         /\ settled' = settled \cup {t} /\ UNCHANGED <<anyFailed, anyWaiting, halted>>
      \/ /\ o = "failed" /\ settled' = settled \cup {t}
         /\ anyFailed' = TRUE /\ halted' = (halted \/ t \notin plan.lenient)
         /\ UNCHANGED anyWaiting
      \/ /\ o = "waiting" /\ anyWaiting' = TRUE
         /\ UNCHANGED <<settled, anyFailed, halted>>
  BY <1>1 DEF Ends, Completes, Fails, Parks, Leaves, IInv, TypeOK
<1>3. o # "waiting" => recordStatusOf(o) \in FinalRow
  BY <1>0 DEF recordStatusOf, Outcome, FinalRow
<1>4. /\ anyFailed' <=> \E u \in Target : outcomes'[u] = "failed"
      /\ anyWaiting' <=> \E u \in Target : outcomes'[u] = "waiting"
  BY <1>1, <1>2 DEF Reported
<1>5. \A u \in Target : outcomes'[u] = "failed" => u \in settled'
  BY <1>1, <1>2 DEF Reported
<1>6. \A u \in settled' : rows'[u] \in FinalRow
  BY <1>1, <1>2, <1>3 DEF Reported, IInv, TypeOK
<1>7. plan' = plan
  BY <1>0 DEF Leaves
<1>8. halted' <=> \E u \in Target \ plan.lenient : outcomes'[u] = "failed"
  <2>1. halted <=> \E u \in Target \ plan.lenient : outcomes[u] = "failed"
    BY DEF Reported
  <2>2. halted' <=> halted \/ (o = "failed" /\ t \notin plan.lenient)
    <3>1. CASE o = "failed"
      BY <1>2, <3>1
    <3>2. CASE o # "failed"
      BY <1>2, <3>2
    <3> QED
      BY <3>1, <3>2
  <2> QED
    BY <1>1, <2>1, <2>2
<1> QED
  BY <1>1, <1>4, <1>5, <1>6, <1>7, <1>8 DEF Reported, EndedRunsAreSettled

LEMMA ReportedStep == IInv /\ Reported /\ [Next]_vars => Reported'
<1> SUFFICES ASSUME IInv, Reported, [Next]_vars PROVE Reported'
  OBVIOUS
<1>1. ASSUME NEW t \in Target, Ends(t) PROVE Reported'
  BY <1>1, ReportedLeaves
<1>2. ASSUME NEW t \in Target, Abandon(t) PROVE Reported'
  <2>1. /\ phase = "pumping" /\ outcomes[t] = "none"
        /\ outcomes'[t] = "skipped" /\ rows'[t] = "skipped"
        /\ \A u \in Target \ {t} : outcomes'[u] = outcomes[u] /\ rows'[u] = rows[u]
    BY <1>2, NAssumption
    DEF Abandon, AtTarget, IInv, TypeOK, Untouched, Accounted, Target
  <2>2. /\ settled' = settled \cup {t}
        /\ UNCHANGED <<plan, anyFailed, anyWaiting, halted, phase>>
    BY <1>2 DEF Abandon
  <2>3. /\ anyFailed' <=> \E u \in Target : outcomes'[u] = "failed"
        /\ anyWaiting' <=> \E u \in Target : outcomes'[u] = "waiting"
    BY <2>1, <2>2 DEF Reported
  <2>4. halted' <=> \E u \in Target \ plan.lenient : outcomes'[u] = "failed"
    BY <2>1, <2>2 DEF Reported
  <2>5. /\ \A u \in Target : outcomes'[u] = "failed" => u \in settled'
        /\ \A u \in settled' : rows'[u] \in FinalRow
    BY <2>1, <2>2 DEF Reported, FinalRow, IInv, TypeOK
  <2> QED
    BY <2>1, <2>2, <2>3, <2>4, <2>5 DEF Reported, EndedRunsAreSettled
<1>3. ASSUME NEW t \in Target, BodyStarts(t) \/ FlushFails(t) PROVE Reported'
  <2>1. phase = "pumping" /\ t \notin settled
    BY <1>3 DEF BodyStarts, FlushFails, Idle, IInv, Ledger
  <2>2. /\ \A u \in Target \ {t} : rows'[u] = rows[u]
        /\ UNCHANGED <<plan, phase, outcomes, settled, anyFailed, anyWaiting, halted>>
    BY <1>3 DEF BodyStarts, FlushFails, IInv, TypeOK
  <2> QED
    BY <2>1, <2>2 DEF Reported, EndedRunsAreSettled, IInv, TypeOK
<1>4. CASE PumpResolves
  <2>1. phase = "pumping" /\ phase' = "resolved" /\ runningSet = {}
    BY <1>4, NAssumption DEF PumpResolves, Sweep, IInv, TypeOK, Accounted
  <2>2. /\ \A t \in Target : t \in started => outcomes'[t] = outcomes[t]
                                          /\ rows'[t] = rows[t]
        /\ \A t \in Target : t \notin started => outcomes'[t] = "skipped"
        /\ ~resultSuspended =>
             \A t \in Target : t \notin started => rows'[t] = "skipped"
        /\ UNCHANGED <<plan, settled, anyFailed, anyWaiting, halted>>
    BY <1>4 DEF PumpResolves, Sweep, resultSuspended, IInv, TypeOK
  <2>3. \A t \in Target : t \notin started => outcomes[t] = "none"
    BY DEF IInv, Untouched
  <2>4. /\ anyFailed' <=> \E t \in Target : outcomes'[t] = "failed"
        /\ anyWaiting' <=> \E t \in Target : outcomes'[t] = "waiting"
    BY <2>1, <2>2, <2>3 DEF Reported
  <2>5. \A t \in settled : t \in Target /\ t \in started
    BY DEF IInv, TypeOK, Ledger
  <2>6. ~resultSuspended =>
          \A t \in Target : outcomes'[t] = "waiting" \/ rows'[t] \in FinalRow
    BY <2>1, <2>2 DEF Reported, IInv, Accounted, FinalRow
  <2>7. resultSuspended' <=> resultSuspended
    BY <2>2 DEF resultSuspended
  <2>8. /\ \A t \in Target : outcomes'[t] = "failed" => t \in settled'
        /\ \A t \in settled' : rows'[t] \in FinalRow
    BY <2>2, <2>3, <2>5 DEF Reported
  <2>9. halted' <=> \E t \in Target \ plan.lenient : outcomes'[t] = "failed"
    BY <2>2, <2>3 DEF Reported
  <2> QED
    BY <2>1, <2>2, <2>4, <2>6, <2>7, <2>8, <2>9 DEF Reported, EndedRunsAreSettled
<1>5. CASE Returns
  <2>1. /\ phase = "resolved" /\ phase' = "returned"
        /\ UNCHANGED <<plan, settled, anyFailed, anyWaiting, halted>>
        /\ \A t \in Target :
             IF anyFailed /\ anyWaiting /\ outcomes[t] = "waiting"
             THEN outcomes'[t] = "skipped" /\ rows'[t] = "skipped"
             ELSE outcomes'[t] = outcomes[t] /\ rows'[t] = rows[t]
    BY <1>5 DEF Returns
  <2>2. resultSuspended' <=> resultSuspended
    BY <2>1 DEF resultSuspended
  <2>3. anyFailed' <=> \E t \in Target : outcomes'[t] = "failed"
    BY <2>1 DEF Reported
  <2>4. resultSuspended' <=> \E t \in Target : outcomes'[t] = "waiting"
    BY <2>1 DEF Reported, resultSuspended
  <2>5. /\ \A t \in Target : outcomes'[t] = "failed" => t \in settled'
        /\ \A t \in settled' : rows'[t] \in FinalRow
    BY <2>1 DEF Reported, IInv, TypeOK, FinalRow
  <2>6. ~resultSuspended' => \A t \in Target : rows'[t] \in FinalRow
    BY <2>1, <2>4 DEF Reported, resultSuspended, FinalRow
  <2>7. halted' <=> \E t \in Target \ plan.lenient : outcomes'[t] = "failed"
    BY <2>1 DEF Reported
  <2> QED
    BY <2>1, <2>3, <2>4, <2>5, <2>6, <2>7 DEF Reported, EndedRunsAreSettled
<1>6. CASE UNCHANGED <<plan, phase, outcomes, rows, settled, anyFailed, anyWaiting, halted>>
  BY <1>6 DEF Reported, EndedRunsAreSettled, resultSuspended
<1>7. CASE CountCompleted
  <2>1. /\ \A t \in Target : outcomes[t] = "none" /\ outcomes'[t] \in {"skipped", "cached", "none"}
        /\ phase' = "pumping" /\ phase = "preset" /\ rows = plan.recorded
        /\ UNCHANGED <<plan, anyFailed, anyWaiting, halted>>
    BY <1>7 DEF CountCompleted, IInv, Untouched
  <2>2. \A t \in settled' : rows'[t] \in FinalRow
    BY <1>7, <2>1, PlanFacts DEF CountCompleted, Preset, Prior, FinalRow, IInv, TypeOK
  <2> QED
    BY <2>1, <2>2 DEF Reported, EndedRunsAreSettled
<1> QED
  BY <1>1, <1>2, <1>3, <1>4, <1>5, <1>6, <1>7
  DEF Next, vars, Pump, Iterate, SlotsFull, PassOver, Launch, PumpYields, Abort, Finished

LEMMA ReportedAlways == Spec => []Reported
  BY ReportedInit, ReportedStep, Inductive, PTL DEF Spec

(* Whatever the plan, a run that ends for good leaves every row final.      *)
THEOREM EndedSettled == Spec => []EndedRunsAreSettled
<1>1. Reported => EndedRunsAreSettled
  BY DEF Reported
<1> QED
  BY <1>1, ReportedAlways, PTL

(* Whatever the plan, the verdict returned is the one the targets add up to.*)
THEOREM VerdictCorrect == Spec => []VerdictMatchesOutcomes
<1>1. Reported => VerdictMatchesOutcomes
  BY DEF Reported, VerdictMatchesOutcomes, resultAborted
<1> QED
  BY <1>1, ReportedAlways, PTL

-----------------------------------------------------------------------------
(* What a fan-out may conclude. *)

(* A run without gates that neither failed nor was cancelled: all that is   *)
(* over is done, and a pass with nothing in flight starts all it comes by.  *)
Kept ==
  plan.gates = {} /\ mayStillResume =>
    /\ settled \subseteq done
    /\ \A t \in Target : outcomes[t] # "waiting"
    /\ phase = "pumping" /\ runningSet = {} =>
         \A t \in Target : t < cursor => t \in started
    /\ phase \in {"resolved", "returned"} => Target \subseteq done

LEMMA KeptInit == Init => Kept
  BY NAssumption DEF Init, Kept, Target

LEMMA KeptStep == IInv /\ Reported /\ Kept /\ [Next]_vars => Kept'
<1> SUFFICES ASSUME IInv, Reported, Kept, [Next]_vars,
                    plan'.gates = {}, mayStillResume'
             PROVE  Kept'
  BY DEF Kept
<1>0. plan' = plan
  BY DEF Next, vars, Pump, Iterate, SlotsFull, PassOver, Abandon, Launch, PumpYields,
     PumpResolves, Sweep, BodyStarts, FlushFails, CountCompleted, Ends, Completes, Fails, Parks, Leaves, Abort,
     Returns, Finished
<1>1. mayStillResume
  BY DEF Next, vars, Pump, Iterate, SlotsFull, PassOver, Abandon, Launch, PumpYields,
     PumpResolves, Sweep, BodyStarts, FlushFails, CountCompleted, Ends, Completes, Fails, Parks, Leaves, Abort,
     Returns, Finished, mayStillResume
<1>2. /\ settled \subseteq done
      /\ \A t \in Target : outcomes[t] # "waiting"
      /\ phase = "pumping" /\ runningSet = {} =>
           \A t \in Target : t < cursor => t \in started
      /\ phase \in {"resolved", "returned"} => Target \subseteq done
  BY <1>0, <1>1 DEF Kept
<1>3. ~stopped
  BY <1>1 DEF Reported, stopped, mayStillResume
<1>4. \A t \in Target : ~stranded(t)
  BY <1>1, <1>2 DEF stranded
<1>5. phase = "pumping" /\ runningSet = {} => started \subseteq settled
  BY <1>2 DEF IInv, TypeOK, Accounted
<1>6. CASE SlotsFull
  <2>1. Cardinality(runningSet) >= plan.limit /\ plan.limit \in Nat \ {0}
    BY <1>6, PlanFacts DEF SlotsFull, IInv, TypeOK
  <2>2. runningSet # {}
    BY <2>1, FS_EmptySet
  <2> QED
    BY <1>2, <1>6, <2>2 DEF SlotsFull, Kept
<1>7. ASSUME NEW t \in Target, PassOver(t) PROVE Kept'
  <2>1. ASSUME phase = "pumping", runningSet = {} PROVE t \in started
    <3>1. \A p \in plan.preds[t] : p \in Target /\ p < cursor
      BY <1>7, PlanFacts DEF PassOver, AtTarget, IInv, TypeOK
    <3>2. plan.preds[t] \subseteq done /\ plan.preds[t] \subseteq settled
      BY <1>2, <1>5, <2>1, <3>1
    <3>3. ready(t) /\ overlaps(t)
      BY <2>1, <3>2 DEF ready, overlaps
    <3> QED
      BY <1>7, <3>3 DEF PassOver
  <2>2. cursor = t /\ cursor' = t + 1 /\ UNCHANGED <<plan, done, settled, outcomes,
          started, runningSet, phase, anyFailed, aborted>>
    BY <1>7 DEF PassOver, AtTarget
  <2>3. phase = "pumping" /\ runningSet = {} =>
          \A u \in Target : u < cursor' => u \in started
    BY <1>2, <2>1, <2>2, NAssumption DEF Target
  <2> QED
    BY <1>2, <2>2, <2>3 DEF Kept
<1>8. ASSUME NEW t \in Target, Abandon(t) PROVE Kept'
  BY <1>3, <1>4, <1>8 DEF Abandon
<1>9. ASSUME NEW t \in Target, Launch(t) PROVE Kept'
  BY <1>2, <1>9 DEF Launch, Kept
<1>10. CASE PumpYields
  BY <1>2, <1>10 DEF PumpYields, Kept
<1>11. CASE PumpResolves
  <2>1. phase = "pumping" /\ cursor = N + 1 /\ runningSet = {}
    BY <1>11, NAssumption DEF PumpResolves, Sweep, IInv, Accounted, TypeOK
  <2>2. Target \subseteq started
    BY <1>2, <2>1, NAssumption DEF Target
  <2>3. Target \subseteq done
    BY <1>2, <1>5, <2>1, <2>2
  <2> QED
    BY <1>2, <1>11, <2>2, <2>3 DEF PumpResolves, Sweep, Kept
<1>12. ASSUME NEW t \in Target, BodyStarts(t) \/ FlushFails(t) PROVE Kept'
  BY <1>2, <1>12 DEF BodyStarts, FlushFails, Idle, Kept
<1>13. ASSUME NEW t \in Target, Ends(t) PROVE Kept'
  <2>1. Completes(t)
    BY <1>0, <1>13 DEF Ends, Fails, Parks, MayEndAs, mayStillResume
  <2>2. PICK o \in {"passed", "skipped", "cached"} : Leaves(t, o)
    BY <2>1 DEF Completes
  <2>3. /\ settled' = settled \cup {t} /\ done' = done \cup {t}
        /\ cursor' = 1 /\ phase' = "pumping"
        /\ \A u \in Target : outcomes'[u] # "waiting"
    BY <1>2, <2>1, <2>2 DEF Completes, Leaves, Idle, IInv, TypeOK
  <2>4. \A u \in Target : ~(u < cursor')
    BY <2>3, NAssumption DEF Target
  <2> QED
    BY <1>2, <2>3, <2>4 DEF Kept
<1>14. CASE Abort
  BY <1>14 DEF Abort, mayStillResume
<1>15. CASE Returns
  <2>1. phase = "resolved" /\ phase' = "returned" /\ done' = done /\ settled' = settled
    BY <1>15 DEF Returns
  <2>2. \A t \in Target : outcomes'[t] # "waiting"
    BY <1>2, <1>15 DEF Returns
  <2> QED
    BY <1>2, <2>1, <2>2 DEF Kept
<1>16. CASE UNCHANGED vars
  BY <1>2, <1>16 DEF vars, Kept
<1>17. CASE CountCompleted
  BY <1>17, NAssumption DEF CountCompleted, Kept, Target
<1> QED
  BY <1>6, <1>7, <1>8, <1>9, <1>10, <1>11, <1>12, <1>13, <1>14, <1>15, <1>16, <1>17
  DEF Next, Pump, Iterate, Finished

(* Whatever the items and their stages, a fan-out is reported passed only   *)
(* if every one of its sub-targets ran and came out well.                   *)
THEOREM FanOutsAreWhole == Spec => []FanOutsPassWhole
<1>1. IInv /\ Reported /\ Kept => FanOutsPassWhole
  <2> SUFFICES ASSUME IInv, Kept, phase = "returned", plan.gates = {},
                      Preset(plan) = {}, fanOutPasses
               PROVE  launched = Target /\ done = Target
    BY DEF FanOutsPassWhole
  <2>1. Target \subseteq done
    BY DEF Kept, mayStillResume, fanOutPasses, resultAborted
  <2>2. done \subseteq launched
    BY DEF IInv, Ledger
  <2> QED
    BY <2>1, <2>2 DEF IInv, TypeOK
<1> QED
  BY <1>1, Inductive, ReportedAlways, KeptInit, KeptStep, PTL DEF Spec

-----------------------------------------------------------------------------
(* What a suspended run keeps. *)

(* Only gates park.  While the run can still be resumed nothing was given   *)
(* up on, and until the sweep of a run without a parked gate the record     *)
(* says of what was not launched what it said at the start.                 *)
Resumable ==
  /\ \A t \in Target : outcomes[t] = "waiting" => t \in plan.gates
  /\ mayStillResume =>
       /\ settled \subseteq done
       /\ phase \in {"preset", "pumping"} \/ anyWaiting =>
            \A t \in Target \ (launched \cup Preset(plan)) : rows[t] = plan.recorded[t]

LEMMA ResumableInit == Init => Resumable
  BY DEF Init, Resumable

LEMMA ResumableStep == IInv /\ Reported /\ Resumable /\ [Next]_vars => Resumable'
<1> SUFFICES ASSUME IInv, Reported, Resumable, [Next]_vars PROVE Resumable'
  OBVIOUS
<1>0. mayStillResume => ~stopped /\ \A t \in Target : ~stranded(t)
  BY DEF Reported, Resumable, stopped, mayStillResume, stranded
<1>1. ASSUME NEW t \in Target, Abandon(t) PROVE Resumable'
  <2>1. ~mayStillResume /\ ~mayStillResume'
    BY <1>0, <1>1 DEF Abandon, mayStillResume
  <2> QED
    BY <1>1, <2>1 DEF Abandon, Resumable, IInv, TypeOK
<1>2. ASSUME NEW t \in Target, Launch(t) PROVE Resumable'
  BY <1>2 DEF Launch, Resumable, mayStillResume, Preset
<1>3. ASSUME NEW t \in Target, BodyStarts(t) \/ FlushFails(t) PROVE Resumable'
  <2>1. t \in launched
    BY <1>3 DEF BodyStarts, FlushFails, IInv, Ledger
  <2>2. \A u \in Target \ {t} : rows'[u] = rows[u]
    BY <1>3 DEF BodyStarts, FlushFails, IInv, TypeOK
  <2> QED
    BY <1>3, <2>1, <2>2 DEF BodyStarts, FlushFails, Idle, Resumable, mayStillResume
<1>4. ASSUME NEW t \in Target, Ends(t) PROVE Resumable'
  <2>0. PICK o \in Outcome : Leaves(t, o)
    BY <1>4 DEF Ends, Completes, Fails, Parks, Outcome
  <2>1. /\ t \in launched /\ phase = "pumping" /\ UNCHANGED <<plan, launched>>
        /\ outcomes'[t] = o
        /\ \A u \in Target \ {t} : outcomes'[u] = outcomes[u] /\ rows'[u] = rows[u]
    BY <2>0 DEF Leaves, Idle, IInv, Ledger, TypeOK
  <2>2. o = "waiting" => t \in plan.gates
    BY <1>4, <2>1 DEF Ends, Completes, Fails, Parks, MayEndAs, Leaves, IInv, TypeOK
  <2>3. mayStillResume' =>
          /\ mayStillResume
          /\ \/ UNCHANGED <<done, settled>>
             \/ done' = done \cup {t} /\ settled' = settled \cup {t}
    BY <1>4 DEF Ends, Completes, Fails, Parks, mayStillResume
  <2> QED
    BY <2>1, <2>2, <2>3 DEF Resumable
<1>5. CASE PumpResolves
  <2>1. phase = "pumping" /\ phase' = "resolved"
    BY <1>5, NAssumption DEF PumpResolves, Sweep, IInv, TypeOK, Accounted
  <2>2. anyWaiting /\ ~anyFailed => \A t \in Target : rows'[t] = rows[t]
    BY <1>5 DEF PumpResolves, Sweep
  <2> QED
    BY <1>5, <2>1, <2>2 DEF PumpResolves, Sweep, Resumable, mayStillResume
<1>6. CASE Returns
  <2>1. ~anyFailed => \A t \in Target : rows'[t] = rows[t] /\ outcomes'[t] = outcomes[t]
    BY <1>6 DEF Returns
  <2> QED
    BY <1>6, <2>1 DEF Returns, Resumable, mayStillResume
<1>7. CASE Abort
  BY <1>7 DEF Abort, Resumable, mayStillResume
<1>8. CASE UNCHANGED <<plan, outcomes, done, settled, anyFailed, anyWaiting, aborted, phase,
                       rows, launched>>
  BY <1>8 DEF Resumable, mayStillResume
<1>9. CASE CountCompleted
  BY <1>9 DEF CountCompleted, Resumable, mayStillResume, Preset, IInv, Untouched
<1> QED
  BY <1>1, <1>2, <1>3, <1>4, <1>5, <1>6, <1>7, <1>8, <1>9
  DEF Next, vars, Pump, Iterate, SlotsFull, PassOver, PumpYields, Finished

LEMMA ResumableAlways == Spec => []Resumable
  BY Inductive, ReportedAlways, ResumableInit, ResumableStep, PTL DEF Spec

(* Whatever the plan, a run that suspends leaves a parked gate and, for all *)
(* it did not launch, the rows a resume goes by.                            *)
THEOREM SuspensionKeeps == Spec => []SuspendedRunsKeepTheirWork
<1>1. Reported /\ Resumable => SuspendedRunsKeepTheirWork
  BY DEF Reported, Resumable, SuspendedRunsKeepTheirWork, resultSuspended, mayStillResume
<1> QED
  BY <1>1, ReportedAlways, ResumableAlways, PTL

-----------------------------------------------------------------------------
(* The abstract run. *)

LEMMA SameNames == Graph!Target = Target /\ \A pl : Graph!Preset(pl) = Preset(pl)
  BY DEF Graph!Target, Target, Graph!Preset, Preset, Graph!Prior, Prior

(* How the bookkeeping reads as a status, without the order of the questions.*)
StatusTable ==
  \A t \in Target :
    /\ StatusOf(t) \in Graph!Status
    /\ StatusOf(t) = "done" <=> t \in done \/ (phase = "preset" /\ t \in Preset(plan))
    /\ StatusOf(t) = "active" <=> t \in runningSet
    /\ StatusOf(t) = "failed" <=> outcomes[t] = "failed"
    /\ StatusOf(t) = "parked" <=> outcomes[t] = "waiting"
    /\ StatusOf(t) = "dropped" <=>
         /\ t \notin runningSet \cup done /\ outcomes[t] \notin {"failed", "waiting"}
         /\ t \in settled \/ (phase = "returned" /\ anyFailed)

LEMMA StatusFacts == IInv /\ Reported => StatusTable
<1> SUFFICES ASSUME IInv, Reported, NEW t \in Target
             PROVE  StatusTable!(t)
  BY DEF StatusTable
<1>1. /\ t \in done => t \in settled /\ t \notin runningSet
                       /\ outcomes[t] \notin {"failed", "waiting"}
      /\ t \in runningSet => t \notin settled /\ outcomes[t] = "none"
      /\ outcomes[t] = "waiting" => t \notin settled
      /\ phase = "preset" => t \notin runningSet \cup settled /\ outcomes[t] = "none"
  BY DEF IInv, Ledger, Untouched
<1> QED
  BY <1>1 DEF StatusOf, Graph!Status

LEMMA NextStatusFacts == (IInv /\ Reported)' => StatusTable'
  BY StatusFacts, PTL

(* The sweep leaves behind only what something unsettled holds back.        *)
HeldBack ==
  phase \in {"resolved", "returned"} =>
    /\ runningSet = {}
    /\ \A t \in Target \ settled :
         \/ phase = "returned" \/ outcomes[t] = "waiting"
         \/ \E p \in plan.preds[t] : p \notin settled

LEMMA HeldBackAlways == Spec => []HeldBack
<1>1. Init => HeldBack
  BY DEF Init, HeldBack
<1>2. IInv /\ HeldBack /\ [Next]_vars => HeldBack'
  <2> SUFFICES ASSUME IInv, HeldBack, [Next]_vars PROVE HeldBack'
    OBVIOUS
  <2>1. CASE PumpResolves
    <3>1. /\ phase = "pumping" /\ cursor = N + 1 /\ runningSet = {}
          /\ UNCHANGED <<plan, settled, runningSet>>
          /\ \A t \in started : t \in Target => outcomes'[t] = outcomes[t]
      BY <2>1, NAssumption DEF PumpResolves, Sweep, IInv, Accounted, TypeOK
    <3>2. \A t \in Target \ settled :
            outcomes'[t] = "waiting" \/ \E p \in plan.preds[t] : p \notin settled
      BY <3>1, PassIsComplete DEF IInv, Accounted
    <3> QED
      BY <3>1, <3>2 DEF HeldBack
  <2>2. CASE Returns
    BY <2>2 DEF Returns, HeldBack
  <2>3. CASE phase' = "pumping"
    BY <2>3 DEF HeldBack
  <2>4. CASE UNCHANGED vars
    BY <2>4 DEF vars, HeldBack
  <2> QED
    BY <2>1, <2>2, <2>3, <2>4, NAssumption
    DEF Next, vars, Pump, Iterate, SlotsFull, PassOver, Abandon, Launch, AtTarget,
        PumpYields, BodyStarts, FlushFails, CountCompleted, Ends, Completes, Fails, Parks,
        Leaves, Idle, Abort, Finished, IInv, Accounted, Target
<1> QED
  BY <1>1, <1>2, Inductive, PTL DEF Spec

(* The flags of the loop are what the abstract run reads off its statuses.  *)
LEMMA FlagFacts ==
  ASSUME IInv, Reported
  PROVE  /\ Graph!doomed <=> ~mayStillResume
         /\ Graph!stopping <=> stopped
         /\ anyFailed <=> Graph!failing # {}
<1>1. StatusTable
  BY StatusFacts
<1>2. \A t \in Target : t \in Graph!failing <=> outcomes[t] = "failed"
  BY <1>1, SameNames DEF StatusTable, Graph!failing
<1>3. \A t \in Graph!failing : t \in Target
  BY SameNames DEF Graph!failing
<1> QED
  BY <1>2, <1>3 DEF Reported, Graph!doomed, Graph!stopping, mayStillResume, stopped

(* A step that moves one target's status. *)
LEMMA Moves ==
  ASSUME NEW t \in Target, NEW s,
         StatusOf(t)' = s, \A u \in Target \ {t} : StatusOf(u)' = StatusOf(u)
  PROVE  [u \in Target |-> StatusOf(u)]' = [[u \in Target |-> StatusOf(u)] EXCEPT ![t] = s]
  OBVIOUS

LEMMA AbandonMaps ==
  ASSUME IInv, Reported, StatusTable, StatusTable', NEW t \in Target, Abandon(t)
  PROVE  Graph!DropTarget(t)
<1>1. /\ phase = "pumping" /\ outcomes[t] = "none" /\ t \notin started
      /\ t \notin done \cup settled \cup runningSet
      /\ outcomes'[t] = "skipped" /\ \A u \in Target \ {t} : outcomes'[u] = outcomes[u]
      /\ settled' = settled \cup {t}
      /\ UNCHANGED <<plan, done, runningSet, anyFailed, aborted, phase>>
  BY NAssumption DEF Abandon, AtTarget, IInv, TypeOK, Ledger, Untouched, Accounted, Target
<1>2. StatusOf(t) = "todo" /\ StatusOf(t)' = "dropped"
  BY <1>1 DEF StatusTable, Graph!Status
<1>3. \A u \in Target \ {t} : StatusOf(u)' = StatusOf(u)
  BY <1>1 DEF StatusTable, Graph!Status
<1>4. t \notin plan.always
  BY DEF Abandon, stranded
<1>5. \/ Graph!stopping
      \/ \E p \in plan.preds[t] :
           \/ StatusOf(p) \in {"failed", "dropped"}
           \/ Graph!doomed /\ StatusOf(p) = "parked"
  <2>1. CASE stranded(t)
    <3>1. PICK p \in plan.preds[t] :
            p \in settled \ done \/ (~mayStillResume /\ outcomes[p] = "waiting")
      BY <2>1 DEF stranded
    <3>2. p \in Target /\ p \notin settled \cap runningSet
      BY PlanFacts DEF IInv, TypeOK, Ledger
    <3> QED
      BY <3>1, <3>2, FlagFacts DEF StatusTable, IInv, Untouched
  <2>2. CASE stopped
    BY <2>2, FlagFacts
  <2> QED
    BY <2>1, <2>2 DEF Abandon
<1>6. \A p \in plan.preds[t] : p \in Target
  BY PlanFacts DEF IInv, TypeOK
<1> QED
  BY <1>1, <1>2, <1>3, <1>4, <1>5, <1>6, Moves DEF Graph!DropTarget

LEMMA LaunchMaps ==
  ASSUME IInv, Reported, StatusTable, StatusTable', NEW t \in Target, Launch(t)
  PROVE  Graph!LaunchTarget(t)
<1>1. /\ phase = "pumping" /\ outcomes[t] = "none" /\ t \notin started
      /\ t \notin done \cup settled \cup runningSet
      /\ runningSet' = runningSet \cup {t}
      /\ UNCHANGED <<plan, outcomes, done, settled, anyFailed, aborted, phase>>
  BY NAssumption DEF Launch, AtTarget, IInv, TypeOK, Ledger, Untouched, Accounted, Target
<1>2. StatusOf(t) = "todo" /\ StatusOf(t)' = "active"
  BY <1>1 DEF StatusTable, Graph!Status
<1>3. \A u \in Target \ {t} : StatusOf(u)' = StatusOf(u)
  BY <1>1 DEF StatusTable, Graph!Status
<1>4. \A p \in plan.preds[t] : p \in Target
  BY PlanFacts DEF IInv, TypeOK
<1>5. CASE t \in plan.always
  <2>1. \A p \in plan.preds[t] : StatusOf(p) \in Graph!Over
    <3> SUFFICES ASSUME NEW p \in plan.preds[t] PROVE StatusOf(p) \in Graph!Over
      OBVIOUS
    <3>1. p \in settled /\ p \in Target
      BY <1>4, <1>5 DEF Launch, ready
    <3> QED
      BY <3>1 DEF StatusTable, IInv, Ledger, Untouched, Graph!Over
  <2> QED
    BY <1>1, <1>2, <1>3, <1>4, <1>5, <2>1, Moves DEF Graph!LaunchTarget
<1>6. CASE t \notin plan.always
  <2>1. ~Graph!stopping
    BY <1>6, FlagFacts DEF Launch
  <2>2. \A p \in plan.preds[t] : StatusOf(p) = "done"
    BY <1>4, <1>6 DEF Launch, ready, StatusTable
  <2> QED
    BY <1>1, <1>2, <1>3, <1>4, <1>6, <2>1, <2>2, Moves DEF Graph!LaunchTarget
<1> QED
  BY <1>5, <1>6

LEMMA EndMaps ==
  ASSUME IInv, Reported, StatusTable, StatusTable', NEW t \in Target, Ends(t)
  PROVE  Graph!FinishTarget(t)
<1>0. PICK o \in Outcome : Leaves(t, o)
  BY DEF Ends, Completes, Fails, Parks, Outcome
<1>1. /\ phase = "pumping" /\ t \in runningSet /\ t \notin done \cup settled
      /\ outcomes'[t] = o /\ \A u \in Target \ {t} : outcomes'[u] = outcomes[u]
      /\ runningSet' = runningSet \ {t}
      /\ UNCHANGED <<plan, phase>>
  BY <1>0 DEF Leaves, Idle, IInv, TypeOK, Ledger
<1>2. \/ /\ Completes(t) /\ done' = done \cup {t} /\ settled' = settled \cup {t}
         /\ UNCHANGED aborted
      \/ /\ Fails(t) /\ o = "failed" /\ done' = done /\ settled' = settled \cup {t}
         /\ aborted' = (aborted \/ t \in plan.cancels)
      \/ /\ Parks(t) /\ o = "waiting" /\ t \in plan.gates /\ UNCHANGED <<done, settled, aborted>>
  BY <1>1 DEF Ends, Completes, Fails, Parks, MayEndAs, Leaves, IInv, TypeOK
<1>3. StatusOf(t) = "active"
  BY <1>1 DEF StatusTable
<1>4. \A u \in Target \ {t} : StatusOf(u)' = StatusOf(u)
  BY <1>1, <1>2 DEF StatusTable, Graph!Status
<1>5. \/ StatusOf(t)' = "done" /\ UNCHANGED aborted
      \/ StatusOf(t)' = "failed" /\ aborted' = (aborted \/ t \in plan.cancels)
      \/ StatusOf(t)' = "parked" /\ t \in plan.gates /\ UNCHANGED aborted
  BY <1>1, <1>2 DEF StatusTable
<1> QED
  BY <1>1, <1>3, <1>4, <1>5, Moves DEF Graph!FinishTarget

LEMMA ReturnMaps ==
  ASSUME IInv, Reported, HeldBack, StatusTable, StatusTable', Returns
  PROVE  Graph!CloseRun
<1> DEFINE S == [t \in Target |-> StatusOf(t)]
           H == {t \in Target : S[t] \in {"todo", "parked"}}
<1>1. /\ phase = "resolved" /\ phase' = "returned" /\ runningSet = {}
      /\ UNCHANGED <<plan, done, settled, runningSet, anyFailed, aborted>>
      /\ \A t \in Target : IF anyFailed /\ outcomes[t] = "waiting"
                           THEN outcomes'[t] = "skipped" ELSE outcomes'[t] = outcomes[t]
  BY DEF Returns, HeldBack, Reported
<1>2. \A t \in Target : S[t] # "active"
  BY <1>1 DEF StatusTable
<1>3. \A t \in H : t \notin settled
  BY <1>1 DEF StatusTable, IInv, Untouched
<1>4. \A t \in Target : t \notin settled => t \in H
  BY <1>1 DEF StatusTable, Graph!Status, Reported, IInv, Ledger
<1>5. ASSUME NEW t \in Target, S[t] = "todo" PROVE \E p \in plan.preds[t] : p \in H
  <2>1. t \notin settled /\ outcomes[t] # "waiting"
    BY <1>3, <1>5 DEF StatusTable
  <2>2. PICK p \in plan.preds[t] : p \notin settled
    BY <1>1, <2>1 DEF HeldBack
  <2>3. p \in Target
    BY PlanFacts DEF IInv, TypeOK
  <2> QED
    BY <1>4, <2>2, <2>3
<1>6. \A t \in Target : StatusOf(t)' = IF t \in H /\ anyFailed THEN "dropped" ELSE StatusOf(t)
  <2> SUFFICES ASSUME NEW t \in Target
               PROVE  StatusOf(t)' = IF t \in H /\ anyFailed THEN "dropped" ELSE StatusOf(t)
    OBVIOUS
  <2>1. CASE t \in H /\ anyFailed
    BY <1>1, <1>3, <2>1 DEF StatusTable, IInv, Ledger
  <2>2. CASE t \in H /\ ~anyFailed
    BY <1>1, <1>3, <2>2 DEF StatusTable, Graph!Status
  <2>3. CASE t \notin H
    <3>1. t \in settled
      BY <1>4, <2>3
    <3> QED
      BY <1>1, <3>1 DEF StatusTable, Graph!Status, IInv, Untouched
  <2> QED
    BY <2>1, <2>2, <2>3
<1>7. S' = [t \in Target |-> IF t \in H /\ Graph!failing # {} THEN "dropped" ELSE S[t]]
  BY <1>6, FlagFacts
<1> QED
  BY <1>1, <1>2, <1>5, <1>7, SameNames DEF Graph!CloseRun

LEMMA StepMaps ==
  IInv /\ Reported /\ HeldBack /\ (IInv /\ Reported)' /\ [Next]_vars
    => [Graph!GraphNext]_(Graph!graphVars)
<1> SUFFICES ASSUME IInv, Reported, HeldBack, (IInv /\ Reported)', [Next]_vars
             PROVE  [Graph!GraphNext]_(Graph!graphVars)
  OBVIOUS
<1>0. StatusTable /\ StatusTable'
  BY StatusFacts, NextStatusFacts
<1>1. ASSUME NEW t \in Target, Abandon(t) PROVE Graph!GraphNext
  BY <1>0, <1>1, AbandonMaps, SameNames DEF Graph!GraphNext
<1>2. ASSUME NEW t \in Target, Launch(t) PROVE Graph!GraphNext
  BY <1>0, <1>2, LaunchMaps, SameNames DEF Graph!GraphNext
<1>3. ASSUME NEW t \in Target, Ends(t) PROVE Graph!GraphNext
  BY <1>0, <1>3, EndMaps, SameNames DEF Graph!GraphNext
<1>4. CASE Returns
  BY <1>0, <1>4, ReturnMaps, SameNames DEF Graph!GraphNext
<1>5. CASE PumpResolves
  <2>1. /\ phase = "pumping" /\ phase' = "resolved"
        /\ UNCHANGED <<plan, done, settled, runningSet, anyFailed, aborted>>
        /\ \A t \in Target : IF t \in started THEN outcomes'[t] = outcomes[t]
                             ELSE outcomes[t] = "none" /\ outcomes'[t] = "skipped"
    BY <1>5, NAssumption DEF PumpResolves, Sweep, IInv, Untouched, Accounted, TypeOK
  <2>2. \A t \in Target : StatusOf(t)' = StatusOf(t)
    BY <1>0, <2>1 DEF StatusTable, Graph!Status
  <2> QED
    BY <2>1, <2>2 DEF Graph!graphVars
<1>6. CASE Abort
  <2>1. \A t \in Target : StatusOf(t)' = StatusOf(t)
    BY <1>6 DEF Abort, StatusOf
  <2> QED
    BY <1>6, <2>1 DEF Abort, Idle, Graph!GraphNext, Graph!AbortRun
<1>8. CASE CountCompleted
  <2>1. \A t \in Target : StatusOf(t)' = StatusOf(t)
    <3>1. /\ phase = "preset" /\ phase' = "pumping" /\ runningSet' = runningSet
          /\ runningSet = {} /\ done = {} /\ settled = {}
          /\ done' = Preset(plan) /\ settled' = Preset(plan)
          /\ \A t \in Target : outcomes[t] = "none"
                               /\ outcomes'[t] \notin {"failed", "waiting"}
      BY <1>8 DEF CountCompleted, IInv, Ledger, Untouched
    <3> QED
      BY <3>1 DEF StatusOf
  <2> QED
    BY <1>8, <2>1 DEF CountCompleted, Graph!graphVars
<1>7. CASE UNCHANGED <<plan, outcomes, done, settled, runningSet, anyFailed, aborted, phase>>
  <2>1. \A t \in Target : StatusOf(t)' = StatusOf(t)
    BY <1>7 DEF StatusOf
  <2> QED
    BY <1>7, <2>1 DEF Graph!graphVars
<1> QED
  BY <1>1, <1>2, <1>3, <1>4, <1>5, <1>6, <1>7, <1>8
  DEF Next, vars, Pump, Iterate, SlotsFull, PassOver, PumpYields, BodyStarts, FlushFails, Finished

(* Whatever the plan, the loop with its limit, groups and order implements  *)
(* the abstract run: each of its steps is a step of TaskGraph or none.      *)
THEOREM RefinesTaskGraph == Spec => Graph!GraphSafety
<1>1. Init => Graph!GraphInit
  <2> SUFFICES ASSUME Init PROVE Graph!GraphInit
    OBVIOUS
  <2>1. \A t \in Target : StatusOf(t) = IF t \in Preset(plan) THEN "done" ELSE "todo"
    BY DEF Init, StatusOf
  <2> QED
    BY <2>1, SameNames DEF Init, Graph!GraphInit
<1> QED
  BY <1>1, StepMaps, Inductive, ReportedAlways, HeldBackAlways, PTL
     DEF Spec, Graph!GraphSafety

-----------------------------------------------------------------------------
(* The properties as the run checks them. *)

(* Whatever the plan and the order of completions, nothing is launched      *)
(* before what it needs has ended the way it needs, or beside what excludes *)
(* it.                                                                      *)
THEOREM LaunchesOrdered == Spec => []LaunchesAreDue
  BY RestsOnSuccess, TeardownLast, SlotsRespected, PTL DEF LaunchesAreDue

(* Whatever the plan, the pump leaves out only what a parked gate holds.    *)
THEOREM NothingForgotten == Spec => []NothingIsForgotten
  BY GatesHoldBack, TeardownReached, PTL DEF NothingIsForgotten

(* Whatever the plan, the verdict, the rows left behind and a fan-out's     *)
(* conclusion agree with what happened.                                     *)
THEOREM EndingsCorrect == Spec => []EndingsAddUp
  BY EndedSettled, VerdictCorrect, FanOutsAreWhole, PTL DEF EndingsAddUp
=============================================================================
