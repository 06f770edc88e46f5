---------------------------- MODULE Scheduler ----------------------------
(***************************************************************************)
(* `runScheduled` (packages/core/src/scheduler.ts): the loop that launches *)
(* a plan's targets, at most `limit` at a time, as their predecessors      *)
(* complete.                                                               *)
(*                                                                         *)
(* The scheduler runs on one JavaScript thread.  Its `pump` is a           *)
(* synchronous loop over the plan; `cursor` is the loop's position, each   *)
(* iteration is one step here, and nothing else happens while a pump is    *)
(* under way.  Between two pumps the bodies of the launched targets        *)
(* progress, park or complete, and the run's abort signal may fire.        *)
(***************************************************************************)
EXTENDS PlanGraph, FiniteSets

VARIABLES
  plan,        \* the plan this run executes (never changes)
  outcomes,    \* the status each target reached, "none" until it has one
  done,        \* targets that unblock their dependents
  settled,     \* targets that reached a terminal status
  started,     \* targets the pump need not look at again
  runningSet,  \* targets in flight
  anyFailed, anyWaiting, halted,
  aborted,     \* env.signal.aborted: the run is being cancelled
  cursor,      \* position of the pump's loop, 0 when no pump is under way
  phase,       \* "preset", "pumping", "resolved" (the promise), "returned"
  rows,        \* the run record's row of each target, as last written
  stage,       \* of a target in flight: body "opened"; outcome "told", not shown
  launched     \* history: targets handed to runTarget

vars == <<plan, outcomes, done, settled, started, runningSet, anyFailed,
          anyWaiting, halted, aborted, cursor, phase, rows, stage, launched>>

Outcome == {"passed", "failed", "skipped", "cached", "waiting"}

(* `recordStatusOf`: the record's word for a target's outcome. *)
recordStatusOf(o) ==
  CASE o \in {"passed", "cached"} -> "succeeded"
    [] o = "failed" -> "failed"
    [] o = "skipped" -> "skipped"
    [] o = "waiting" -> "waiting"

-----------------------------------------------------------------------------
(* The pump's questions about a target. *)

(* Mutant: teardown does not wait for its predecessors to settle. *)
readyEagerTeardown(t) == t \in plan.always \/ plan.preds[t] \subseteq done

ready(t) ==
  plan.preds[t] \subseteq (IF t \in plan.always THEN settled ELSE done)

mayStillResume == ~anyFailed /\ ~aborted

(* Mutant: a gate parked before the failure goes on holding its dependents. *)
strandedWhenSettled(t) ==
  t \notin plan.always /\ \E p \in plan.preds[t] : p \in settled \ done

stranded(t) ==
  /\ t \notin plan.always
  /\ \E p \in plan.preds[t] :
       \/ p \in settled \ done
       \/ ~mayStillResume /\ outcomes[p] = "waiting"

(* Mutant: any grouped target may join what is running. *)
overlapsAnyGroup(t) == runningSet = {} \/ plan.parallel \/ plan.group[t] # 0

overlaps(t) == \A r \in runningSet : CanOverlap(plan, t, r)

stopped == halted \/ aborted

-----------------------------------------------------------------------------
(* A run starts from the record as it came: all pending, or what an earlier *)
(* process left, be it parked, killed or given up.                          *)
Init ==
  /\ plan \in Plans
  /\ outcomes = [t \in Target |-> "none"]
  /\ rows = plan.recorded
  /\ done = {} /\ settled = {} /\ started = {}
  /\ runningSet = {}
  /\ anyFailed = FALSE /\ anyWaiting = FALSE /\ halted = FALSE
  /\ aborted \in BOOLEAN
  /\ cursor = 0
  /\ phase = "preset"
  /\ stage = [t \in Target |-> "none"]
  /\ launched = {}

(* The loop before the first pump: skipped targets, and those an earlier    *)
(* process completed, count as done.  A skip is recorded even over a        *)
(* success, since a resume asks the skip conditions again.                  *)
CountCompleted ==
  /\ phase = "preset"
  /\ phase' = "pumping" /\ cursor' = 1
  /\ outcomes' = [t \in Target |-> IF t \in plan.skip THEN "skipped"
                                   ELSE IF t \in Prior(plan) THEN "cached"
                                   ELSE "none"]
  /\ rows' = [t \in Target |-> IF t \in plan.skip THEN "skipped" ELSE rows[t]]
  /\ done' = Preset(plan) /\ settled' = Preset(plan) /\ started' = Preset(plan)
  /\ UNCHANGED <<plan, runningSet, anyFailed, anyWaiting, halted, aborted, stage, launched>>

-----------------------------------------------------------------------------
(* One iteration of the pump's loop, at target `t`. *)

(* Mutant: the loop advances twice. *)
AtTargetTwice(t) ==
  /\ cursor = t
  /\ Cardinality(runningSet) < plan.limit
  /\ cursor' = t + 2

AtTarget(t) ==
  /\ cursor = t
  /\ Cardinality(runningSet) < plan.limit
  /\ cursor' = t + 1

(* The loop breaks once every slot is taken. *)
SlotsFull ==
  /\ cursor \in Target
  /\ Cardinality(runningSet) >= plan.limit
  /\ cursor' = N + 1
  /\ UNCHANGED <<plan, outcomes, done, settled, started, runningSet, anyFailed,
                 anyWaiting, halted, aborted, phase, rows, stage, launched>>

(* Already started, or not runnable yet: look at the next one. *)
PassOver(t) ==
  /\ AtTarget(t)
  /\ \/ t \in started
     \/ ~stranded(t) /\ ~(ready(t) /\ overlaps(t))
  /\ UNCHANGED <<plan, outcomes, done, settled, started, runningSet, anyFailed,
                 anyWaiting, halted, aborted, phase, rows, stage, launched>>

(* Settle a target this run will never launch: its prerequisites are out    *)
(* of reach, or the run has stopped launching ordinary work.                *)
Abandon(t) ==
  /\ AtTarget(t)
  /\ t \notin started
  /\ \/ stranded(t)
     \/ ready(t) /\ overlaps(t) /\ stopped /\ t \notin plan.always
  /\ outcomes' = [outcomes EXCEPT ![t] = "skipped"]
  /\ started' = started \cup {t}
  /\ settled' = settled \cup {t}
  /\ rows' = [rows EXCEPT ![t] = "skipped"]
  /\ UNCHANGED <<plan, done, runningSet, anyFailed, anyWaiting, halted, aborted,
                 phase, stage, launched>>

(* Mutant: a halted or cancelled run keeps launching. *)
LaunchAnyway(t) ==
  /\ AtTarget(t)
  /\ t \notin started
  /\ ~stranded(t)
  /\ ready(t) /\ overlaps(t)
  /\ started' = started \cup {t}
  /\ runningSet' = runningSet \cup {t}
  /\ launched' = launched \cup {t}
  /\ UNCHANGED <<plan, outcomes, done, settled, anyFailed, anyWaiting, halted,
                 aborted, phase, rows, stage>>

Launch(t) ==
  /\ AtTarget(t)
  /\ t \notin started
  /\ ~stranded(t)
  /\ ready(t) /\ overlaps(t)
  /\ ~stopped \/ t \in plan.always
  /\ started' = started \cup {t}
  /\ runningSet' = runningSet \cup {t}
  /\ launched' = launched \cup {t}
  /\ UNCHANGED <<plan, outcomes, done, settled, anyFailed, anyWaiting, halted,
                 aborted, phase, rows, stage>>

(* The loop is over with work in flight: wait for a completion. *)
PumpYields ==
  /\ cursor = N + 1
  /\ runningSet # {}
  /\ cursor' = 0
  /\ UNCHANGED <<plan, outcomes, done, settled, started, runningSet, anyFailed,
                 anyWaiting, halted, aborted, phase, rows, stage, launched>>

(* The sweep: give up on `swept`, recording those `write` allows.           *)
Sweep(swept, write) ==
  /\ cursor = N + 1
  /\ runningSet = {}
  /\ cursor' = 0
  /\ phase' = "resolved"
  /\ outcomes' = [t \in Target |-> IF t \in swept THEN "skipped" ELSE outcomes[t]]
  /\ started' = Target
  /\ rows' = [t \in Target |-> IF t \in swept /\ write THEN "skipped" ELSE rows[t]]
  /\ UNCHANGED <<plan, done, settled, runningSet, anyFailed, anyWaiting, halted,
                 aborted, stage, launched>>

(* Mutants: a suspending run closes the rows behind its gate; everything    *)
(* that is not done is swept.                                               *)
PumpResolvesClosingRows == Sweep(Target \ started, TRUE)
PumpResolvesSweepingFailures == Sweep(Target \ done, ~anyWaiting \/ anyFailed)

(* The loop is over with nothing in flight: sweep what never started and    *)
(* resolve.  A run that suspends leaves the swept rows for a resume.        *)
PumpResolves == Sweep(Target \ started, ~anyWaiting \/ anyFailed)

-----------------------------------------------------------------------------
(* Between pumps: bodies run, complete, fail or park; the run may abort.    *)

Idle == phase = "pumping" /\ cursor = 0

(* The body is under way.  A gate has no body, and a target that is forced, *)
(* conditioned away or cached settles without getting here.                 *)
BodyStarts(t) ==
  /\ Idle
  /\ t \in runningSet \ plan.gates
  /\ stage[t] = "none"
  /\ stage' = [stage EXCEPT ![t] = "opened"]
  /\ rows' = [rows EXCEPT ![t] = "running"]
  /\ UNCHANGED <<plan, outcomes, done, settled, started, runningSet, anyFailed,
                 anyWaiting, halted, aborted, cursor, phase, launched>>

(* Whether a target's output is held back until it is over: `mayOverlap`.    *)
buffered(t) == plan.limit > 1 /\ \E b \in Target \ {t} : CanOverlap(plan, t, b)

(* The outcomes a target can come back with from where its body is.          *)
MayEndAs(t, o) ==
  /\ stage[t] # "told"
  /\ o # "passed" => stage[t] = "none"
  /\ o = "waiting" => t \in plan.gates

(* The row of a target that came off is written before its buffered output  *)
(* is, and that write throws: the promise rejects, so that it fails after   *)
(* all, a turn later.                                                       *)
FlushFails(t) ==
  /\ Idle
  /\ t \in runningSet
  /\ buffered(t)
  /\ \E o \in Outcome \ {"failed"} :
       /\ MayEndAs(t, o)
       /\ rows' = [rows EXCEPT ![t] = recordStatusOf(o)]
  /\ stage' = [stage EXCEPT ![t] = "told"]
  /\ UNCHANGED <<plan, outcomes, done, settled, started, runningSet, anyFailed,
                 anyWaiting, halted, aborted, cursor, phase, launched>>

(* A target's promise fulfilled or rejected: free the slot, pump again.     *)
Leaves(t, o) ==
  /\ Idle
  /\ t \in runningSet
  /\ outcomes' = [outcomes EXCEPT ![t] = o]
  /\ rows' = [rows EXCEPT ![t] = recordStatusOf(o)]
  /\ runningSet' = runningSet \ {t}
  /\ stage' = [stage EXCEPT ![t] = "none"]
  /\ cursor' = 1
  /\ UNCHANGED <<plan, started, phase, launched>>

Completes(t) ==
  /\ \E o \in {"passed", "skipped", "cached"} :
       /\ MayEndAs(t, o)
       /\ Leaves(t, o)
  /\ done' = done \cup {t}
  /\ settled' = settled \cup {t}
  /\ UNCHANGED <<anyFailed, anyWaiting, halted, aborted>>

(* Settling a failure consults `.onFailure(...)`, which may cancel the run; *)
(* a lifecycle hook that throws turns any outcome into this one.            *)
Fails(t) ==
  /\ Leaves(t, "failed")
  /\ settled' = settled \cup {t}
  /\ anyFailed' = TRUE
  /\ halted' = (halted \/ t \notin plan.lenient)
  /\ aborted' = (aborted \/ t \in plan.cancels)
  /\ UNCHANGED <<done, anyWaiting>>

(* The gate's trigger is not satisfied yet: neither done nor settled.       *)
Parks(t) ==
  /\ MayEndAs(t, "waiting")
  /\ Leaves(t, "waiting")
  /\ anyWaiting' = TRUE
  /\ UNCHANGED <<done, settled, anyFailed, halted, aborted>>

Ends(t) == Completes(t) \/ Fails(t) \/ Parks(t)

(* Ctrl-C, a cancellation seen in the store, or a lost lease.               *)
Abort ==
  /\ Idle
  /\ ~aborted
  /\ aborted' = TRUE
  /\ UNCHANGED <<plan, outcomes, done, settled, started, runningSet, anyFailed,
                 anyWaiting, halted, cursor, phase, rows, stage, launched>>

(* After the promise: a failed run never resumes, so nothing stays parked.  *)
Returns ==
  LET parked == {t \in Target : anyFailed /\ anyWaiting /\ outcomes[t] = "waiting"} IN
  /\ phase = "resolved"
  /\ phase' = "returned"
  /\ outcomes' = [t \in Target |-> IF t \in parked THEN "skipped" ELSE outcomes[t]]
  /\ rows' = [t \in Target |-> IF t \in parked THEN "skipped" ELSE rows[t]]
  /\ UNCHANGED <<plan, done, settled, started, runningSet, anyFailed, anyWaiting,
                 halted, aborted, cursor, stage, launched>>

Finished == phase = "returned" /\ UNCHANGED vars

-----------------------------------------------------------------------------
Iterate(t) == PassOver(t) \/ Abandon(t) \/ Launch(t)

Pump ==
  CountCompleted \/ SlotsFull \/ (\E t \in Target : Iterate(t)) \/ PumpYields \/ PumpResolves

Next ==
  \/ Pump
  \/ \E t \in Target : BodyStarts(t) \/ FlushFails(t) \/ Ends(t)
  \/ Abort
  \/ Returns
  \/ Finished

Spec == Init /\ [][Next]_vars

(* The event loop keeps turning, and every launched target's promise ends:  *)
(* a body that hangs forever is outside what the scheduler promises.        *)
Fairness ==
  /\ WF_vars(Pump)
  /\ WF_vars(Returns)
  /\ \A t \in Target : WF_vars(Ends(t))

FairSpec == Spec /\ Fairness

-----------------------------------------------------------------------------
(* What runScheduled returns. *)
resultAborted == anyFailed
resultSuspended == anyWaiting /\ ~anyFailed

(* Mutant: the fan-out reads the nested verdict only.                       *)
fanOutPassesUnlessFailed == ~resultAborted

(* The verdict of a `.forEach(...)` target on the nested run of its items.  *)
fanOutPasses == ~resultAborted /\ ~aborted

-----------------------------------------------------------------------------
(* Every variable has its type; a status in a set of targets agrees with    *)
(* `outcomes` being a function over the plan.                               *)
TypeOK ==
  /\ IsPlan(plan)
  /\ outcomes \in [Target -> Outcome \cup {"none"}]
  /\ rows \in [Target -> Row]
  /\ done \subseteq Target /\ settled \subseteq Target /\ started \subseteq Target
  /\ runningSet \subseteq Target /\ launched \subseteq Target
  /\ anyFailed \in BOOLEAN /\ anyWaiting \in BOOLEAN
  /\ halted \in BOOLEAN /\ aborted \in BOOLEAN
  /\ cursor \in 0 .. N + 1
  /\ phase \in {"preset", "pumping", "resolved", "returned"}
  /\ stage \in [Target -> {"none", "opened", "told"}]

(* Work never rests on something that did not happen: whatever `runTarget`  *)
(* was called for, except teardown, has every predecessor in a state that   *)
(* counts as done, and no failed, abandoned or parked target ever is.       *)
WorkRestsOnSuccess ==
  /\ \A t \in launched \ plan.always : plan.preds[t] \subseteq done
  /\ \A t \in done :
       /\ outcomes[t] \in {"passed", "cached", "skipped"}
       /\ t \in launched \cup Preset(plan)

(* Teardown never runs under the feet of the work it cleans up: everything  *)
(* an `always` target was launched behind has stopped for good.             *)
TeardownRunsLast ==
  \A t \in launched : \A p \in plan.preds[t] :
    p \in settled /\ p \notin runningSet

(* Never more than `limit` targets in flight, and never two that may not    *)
(* share the console: without `--parallel`, only members of one group.      *)
InFlightMayOverlap ==
  /\ Cardinality(runningSet) <= plan.limit
  /\ \A a, b \in runningSet : a # b => CanOverlap(plan, a, b)

(* Nothing is launched before its time: work behind success only, teardown  *)
(* behind anything that is over, and nothing beside what excludes it.       *)
LaunchesAreDue == WorkRestsOnSuccess /\ TeardownRunsLast /\ InFlightMayOverlap

(* When nothing is in flight any more, the only targets that were never     *)
(* looked after are the ones a parked gate holds back, directly or through  *)
(* others it holds back.  In particular a run without a parked gate has     *)
(* launched or settled everything.                                          *)
OnlyGatesHoldBack ==
  cursor = N + 1 /\ runningSet = {} =>
    \A t \in Target \ started :
      \E p \in plan.preds[t] : outcomes[p] = "waiting" \/ p \notin started

(* Once a run can no longer resume, a parked gate holds back nothing but     *)
(* the teardown directly behind it: whatever else was never reached is      *)
(* behind something that was never reached either.                          *)
TeardownRuns ==
  phase = "resolved" /\ ~mayStillResume =>
    \A t \in Target \ (launched \cup settled) :
      \E p \in plan.preds[t] \ settled :
        p \notin launched \/ (t \in plan.always /\ outcomes[p] = "waiting")

(* The pump strands nothing: work is left out for a parked gate only, and   *)
(* teardown only for one in its own way.                                    *)
NothingIsForgotten == OnlyGatesHoldBack /\ TeardownRuns

(* A run that ends for good leaves no row a sweep would visit again: every  *)
(* row of a failed or completed run is final.                               *)
EndedRunsAreSettled ==
  phase = "returned" /\ ~resultSuspended => \A t \in Target : rows[t] \in FinalRow

(* A run that suspends loses nothing: what it did not get to is still       *)
(* recorded as waiting for a resume, and something parked holds it back.    *)
SuspendedRunsKeepTheirWork ==
  phase = "returned" /\ resultSuspended /\ ~aborted =>
    /\ \E g \in plan.gates : outcomes[g] = "waiting"
    /\ \A t \in Target \ (launched \cup Preset(plan)) :
         rows[t] = plan.recorded[t]

(* The verdict runScheduled returns is the one the targets add up to, also  *)
(* when a failure and a parked gate meet.                                   *)
VerdictMatchesOutcomes ==
  phase = "returned" =>
    /\ resultAborted <=> \E t \in Target : outcomes[t] = "failed"
    /\ resultSuspended <=> \E t \in Target : outcomes[t] = "waiting"

(* A fan-out is a success only if every stage of every item was run and     *)
(* came out well: a batch whose items a cancellation abandoned did not, and *)
(* a rollback must not undo it.  (A nested run has no gates and no past.)   *)
FanOutsPassWhole ==
  phase = "returned" /\ plan.gates = {} /\ Preset(plan) = {} /\ fanOutPasses =>
    launched = Target /\ done = Target

(* What a run reports is what happened in it: its verdict, the rows it      *)
(* leaves behind and the verdict a fan-out draws from them agree.           *)
EndingsAddUp == EndedRunsAreSettled /\ VerdictMatchesOutcomes /\ FanOutsPassWhole

(* What this run found of a target stands, in its outcome and in the record, *)
(* whatever ends, parks or is swept later; and no success, of this process  *)
(* or an earlier one, is taken back in the record but by a skip that is     *)
(* decided as the run starts (scheduler.ts:994) or by a target whose output *)
(* could not be written and which has failed for that (scheduler.ts:1182).  *)
OutcomesStand ==
  [][\A t \in Target :
       /\ outcomes[t] \notin {"none", "waiting"} =>
            outcomes'[t] = outcomes[t] /\ rows'[t] = rows[t]
       /\ rows[t] = "succeeded" /\ rows'[t] # rows[t] =>
            \/ phase = "preset" /\ t \in plan.skip
            \/ stage[t] = "told" /\ outcomes'[t] = "failed"]_vars

-----------------------------------------------------------------------------
(* How the scheduler's bookkeeping reads as the abstract run of TaskGraph:  *)
(* a target swept as the promise resolves stays "todo" until the failed run *)
(* gives up on it, because a suspended run leaves it to a resume.           *)
StatusOf(t) ==
  IF t \in done \/ (phase = "preset" /\ t \in Preset(plan)) THEN "done"
  ELSE IF t \in runningSet THEN "active"
  ELSE IF outcomes[t] = "failed" THEN "failed"
  ELSE IF outcomes[t] = "waiting" THEN "parked"
  ELSE IF t \in settled \/ (phase = "returned" /\ anyFailed) THEN "dropped"
  ELSE "todo"

Graph == INSTANCE TaskGraph WITH
  status <- [t \in Target |-> StatusOf(t)],
  closed <- phase = "returned"

(* The pump, its limit, its groups and its loop order implement the         *)
(* abstract run: launches rest on completed predecessors, only justified    *)
(* targets are dropped, teardown never is, and every run closes.            *)
ImplementsTaskGraph == Graph!GraphSpec
=============================================================================
