----------------------------- MODULE TargetBody -----------------------------
(***************************************************************************)
(* One target from launch to verdict (scheduler.ts, runTarget): its lock   *)
(* and checks before, its body with retries and remediations, the checks   *)
(* that run during the body (validate_during.ts), its durable effects and  *)
(* the checks after; with cancellation, a settlement by another process,   *)
(* throwing store calls, and crashes from which a resume launches the      *)
(* target again.                                                           *)
(*                                                                         *)
(* Three activities run at once and meet in promises: runTarget itself     *)
(* (`pc`), the body (`chain`) and the rounds of checks (`timer`, `check`). *)
(* A timed-out attempt counts as over: its code may go on, but what comes  *)
(* of it is discarded.                                                     *)
(***************************************************************************)
EXTENDS Naturals

CONSTANTS
  NEffects,    \* a target declares at most so many effects
  Shapes,      \* the targets to check, see `shape`
  MaxCrashes,  \* bound: processes killed
  MaxFaults    \* bound: strict writes that throw although the run is `running`

Effect == 1..NEffects

ASSUME NEffectsAssumption == NEffects \in Nat
ASSUME ShapesAssumption ==
  Shapes \subseteq [gate : BOOLEAN, effects : 0..NEffects, retries : Nat, recover : Nat,
                    delay : BOOLEAN, checks : Nat]
ASSUME BoundsAssumption == MaxCrashes \in Nat /\ MaxFaults \in Nat

VARIABLES
  shape,         \* what the target declares
  run,           \* the run's record is "running", or somebody "settled" it
  row,           \* the target's row in it
  effect,        \* the effects' rows in it
  pc,            \* where runTarget is; "down" from a crash or a suspension to the resume
  at,            \* the effect being driven
  aborted,       \* env.signal.aborted
  chain,         \* the body: runBodyWithRecovery's promise
  tries, heals,  \* retries left of this runBody, remediations left
  race,          \* what settled the race of body and checks first
  settled,       \* runWhileValidating's `settled`
  timer,         \* a round is scheduled
  check,         \* the check that runs, 0 for none
  checkFailure,  \* a check threw: in time to stop the body, or late
  performed,     \* history: how often each effect's function took effect
  crashes, faults

recordVars == <<run, row, effect>>
bodyVars == <<chain, tries, heals>>
checkVars == <<settled, timer, check, checkFailure>>
vars == <<shape, recordVars, pc, at, aborted, bodyVars, race, checkVars, performed,
          crashes, faults>>

(* The signal the body gets: the run's, or its own that a check aborted.    *)
signalAborted == aborted \/ checkFailure = "stops"

Working == {"running", "delaying", "healing"}
Driving == {"intending", "performing", "marking"}
Sections == {"locking", "before", "driving", "rounds", "after"} \cup Driving

NoChecks == settled = FALSE /\ timer = FALSE /\ check = 0 /\ checkFailure = "none"

Init ==
  /\ shape \in Shapes
  /\ run = "running" /\ row = "pending"
  /\ effect = [e \in Effect |-> "none"]
  /\ pc = "idle" /\ at = 0 /\ aborted = FALSE
  /\ chain = "none" /\ tries = 0 /\ heals = 0 /\ race = "none"
  /\ NoChecks
  /\ performed = [e \in Effect |-> 0]
  /\ crashes = 0 /\ faults = 0

Goes(to) == pc' = to

-----------------------------------------------------------------------------
(* runTarget before the body. *)

(* Forced by an operator, declined by a condition, found up to date.  What  *)
(* has effects is not called succeeded that way, which would drop them.     *)
Skips ==
  /\ pc = "idle"
  /\ Goes("settled")
  /\ row' \in {"skipped"} \cup (IF shape.effects = 0 THEN {"succeeded"} ELSE {})
  /\ UNCHANGED <<shape, run, effect, at, aborted, bodyVars, race, checkVars, performed,
                 crashes, faults>>

(* A parameter it requires is missing, or asking its gate's trigger throws. *)
FailsEarly ==
  /\ pc = "idle"
  /\ Goes("settled") /\ row' = "failed"
  /\ UNCHANGED <<shape, run, effect, at, aborted, bodyVars, race, checkVars, performed,
                 crashes, faults>>

Launch ==
  /\ pc = "idle" /\ ~shape.gate
  /\ Goes("locking") /\ row' = "running"
  /\ UNCHANGED <<shape, run, effect, at, aborted, bodyVars, race, checkVars, performed,
                 crashes, faults>>

(* A gate whose trigger is satisfied has no body, but effects.              *)
Opens ==
  /\ pc = "idle" /\ shape.gate
  /\ Goes("intending") /\ at' = 1
  /\ UNCHANGED <<shape, recordVars, aborted, bodyVars, race, checkVars, performed, crashes, faults>>

(* A gate not satisfied yet parks, and its run suspends: the process ends.  *)
(* Asked again after it has opened it is taken to be open still.            *)
Waits ==
  /\ pc = "idle" /\ shape.gate
  /\ \A e \in Effect : effect[e] = "none"
  /\ Goes("down") /\ row' = "waiting" /\ aborted' = FALSE
  /\ UNCHANGED <<shape, run, effect, at, bodyVars, race, checkVars, performed, crashes, faults>>

(* The lock and `validateBefore`: each refuses the target or lets it on.    *)
Prepares ==
  /\ \/ pc = "locking" /\ pc' \in {"before", "failing"}
     \/ pc = "before" /\ Goes("failing")
  /\ UNCHANGED <<shape, recordVars, at, aborted, bodyVars, race, checkVars, performed, crashes, faults>>

StartsBody ==
  /\ pc = "before" /\ Goes("driving")
  /\ chain' = "running" /\ tries' = shape.retries /\ heals' = shape.recover
  /\ timer' = (shape.checks > 0)
  /\ UNCHANGED <<shape, recordVars, at, aborted, race, settled, check, checkFailure, performed,
                 crashes, faults>>

-----------------------------------------------------------------------------
(* The body: runBodyWithRecovery around runBody around the attempts.        *)

(* The promise settles; the race has a winner if it had none.               *)
BodySettles(how) ==
  /\ chain' = how
  /\ race' = IF race = "none" THEN "body" ELSE race

AttemptPasses ==
  /\ chain = "running"
  /\ BodySettles("resolved")
  /\ UNCHANGED <<shape, recordVars, pc, at, aborted, tries, heals, checkVars, performed,
                 crashes, faults>>

(* Mutant: the count of retries is never spent. *)
MayRetryUnspent == ~signalAborted

MayRetry == tries > 0 /\ ~signalAborted
MayHeal == heals > 0 /\ ~signalAborted

(* It threw or timed out: retry at once, after the delay, or be healed.     *)
AttemptFails ==
  /\ chain = "running"
  /\ \/ /\ MayRetry
        /\ chain' = IF shape.delay THEN "delaying" ELSE "running"
        /\ tries' = tries - 1
        /\ UNCHANGED <<heals, race>>
     \/ /\ ~MayRetry /\ MayHeal
        /\ chain' = "healing" /\ heals' = heals - 1
        /\ UNCHANGED <<tries, race>>
     \/ /\ ~MayRetry /\ ~MayHeal
        /\ BodySettles("rejected")
        /\ UNCHANGED <<tries, heals>>
  /\ UNCHANGED <<shape, recordVars, pc, at, aborted, checkVars, performed, crashes, faults>>

DelayEnds ==
  /\ chain = "delaying"
  /\ chain' = "running"
  /\ UNCHANGED <<shape, recordVars, pc, at, aborted, tries, heals, race, checkVars, performed,
                 crashes, faults>>

(* Every remediation had its turn; one of them asks for a retry, or none.   *)
Healed ==
  /\ chain = "healing"
  /\ \/ chain' = "running" /\ tries' = shape.retries /\ UNCHANGED race
     \/ BodySettles("rejected") /\ UNCHANGED tries
  /\ UNCHANGED <<shape, recordVars, pc, at, aborted, heals, checkVars, performed,
                 crashes, faults>>

BodyStep == AttemptPasses \/ AttemptFails \/ DelayEnds \/ Healed

-----------------------------------------------------------------------------
(* The checks during the body: round after round, each check after another. *)

RoundStarts ==
  /\ timer
  /\ timer' = FALSE /\ check' = 1
  /\ UNCHANGED <<shape, recordVars, pc, at, aborted, bodyVars, race, settled, checkFailure,
                 performed, crashes, faults>>

CheckPasses ==
  /\ check > 0
  /\ check' = IF check < shape.checks /\ ~settled THEN check + 1 ELSE 0
  /\ timer' = (check = shape.checks /\ ~settled)
  /\ UNCHANGED <<shape, recordVars, pc, at, aborted, bodyVars, race, settled, checkFailure,
                 performed, crashes, faults>>

(* The failure is kept; unless the body was first, it ends the race and     *)
(* aborts the body's signal.                                                *)
CheckFails ==
  /\ check > 0
  /\ check' = 0 /\ checkFailure' = IF settled THEN "late" ELSE "stops"
  /\ settled' = TRUE
  /\ race' = IF ~settled /\ race = "none" THEN "check" ELSE race
  /\ UNCHANGED <<shape, recordVars, pc, at, aborted, bodyVars, timer, performed, crashes, faults>>

CheckStep == CheckPasses \/ CheckFails

(* Mutant: the wait for the round ignores the signal. *)
RoundAwaitedThrough == check = 0

(* settledOrAborted(round, signal) *)
RoundAwaited == check = 0 \/ signalAborted

(* What the race came to: a body that passed still waits for the round in   *)
(* flight.                                                                  *)
RaceReturns ==
  /\ pc = "driving" /\ race # "none"
  /\ settled' = TRUE /\ timer' = FALSE
  /\ Goes(IF race = "body" /\ chain = "resolved" THEN "rounds" ELSE "failing")
  /\ UNCHANGED <<shape, recordVars, at, aborted, bodyVars, race, check, checkFailure, performed,
                 crashes, faults>>

(* Mutant: the body's success is the verdict. *)
RoundsOverUnasked ==
  /\ pc = "rounds" /\ RoundAwaited
  /\ Goes("intending") /\ at' = 1
  /\ UNCHANGED <<shape, recordVars, aborted, bodyVars, race, checkVars, performed, crashes, faults>>

RoundsOver ==
  /\ pc = "rounds" /\ RoundAwaited
  /\ Goes(IF checkFailure # "none" THEN "failing" ELSE "intending") /\ at' = 1
  /\ UNCHANGED <<shape, recordVars, aborted, bodyVars, race, checkVars, performed, crashes, faults>>

-----------------------------------------------------------------------------
(* driveEffects, one after another.  A strict write lands, is refused       *)
(* because the run is not `running`, or throws, landed or not.              *)

Refuses == run # "running" /\ aborted' = TRUE /\ UNCHANGED <<effect, faults>>

Throws(e, status) ==
  /\ run = "running" /\ faults < MaxFaults /\ faults' = faults + 1
  /\ effect' \in {effect, [effect EXCEPT ![e] = status]}
  /\ UNCHANGED aborted

Lands(e, status) ==
  run = "running" /\ effect' = [effect EXCEPT ![e] = status] /\ UNCHANGED <<aborted, faults>>

NoEffectLeft ==
  /\ pc = "intending" /\ at > shape.effects
  /\ Goes(IF shape.gate THEN "passing" ELSE "after")
  /\ UNCHANGED <<shape, recordVars, at, aborted, bodyVars, race, checkVars, performed, crashes, faults>>

(* Mutant: a completed effect is armed again. *)
IntendsAgain ==
  /\ pc = "intending" /\ at \in 1..shape.effects
  /\ \/ Lands(at, "pending") /\ Goes("performing")
     \/ (Refuses \/ Throws(at, "pending")) /\ Goes("failing")
  /\ UNCHANGED <<shape, run, row, at, bodyVars, race, checkVars, performed, crashes>>

(* beginEffect: skip what is done; else the intent first, then the effect.  *)
Intends ==
  /\ pc = "intending" /\ at \in 1..shape.effects
  /\ \/ /\ effect[at] = "done" /\ run = "running"
        /\ at' = at + 1
        /\ UNCHANGED <<pc, aborted, effect, faults>>
     \/ effect[at] # "done" /\ Lands(at, "pending") /\ Goes("performing") /\ UNCHANGED at
     \/ (Refuses \/ Throws(at, IF effect[at] = "done" THEN "done" ELSE "pending"))
          /\ Goes("failing") /\ UNCHANGED at
  /\ UNCHANGED <<shape, run, row, bodyVars, race, checkVars, performed, crashes>>

(* The effect's function, which may fail before or after it took effect.    *)
Performs ==
  /\ pc = "performing"
  /\ Goes("marking")
  /\ performed' = [performed EXCEPT ![at] = @ + 1]
  /\ UNCHANGED <<shape, recordVars, at, aborted, bodyVars, race, checkVars, crashes, faults>>

(* The failure is recorded if it can be, and fails the target either way.   *)
EffectFails ==
  /\ pc = "performing"
  /\ Goes("failing")
  /\ performed' \in {performed, [performed EXCEPT ![at] = @ + 1]}
  /\ Lands(at, "failed") \/ Throws(at, "failed") \/ Refuses
  /\ UNCHANGED <<shape, run, row, at, bodyVars, race, checkVars, crashes>>

(* markEffectSettled: `done`, or the target fails although it was performed.*)
Marks ==
  /\ pc = "marking"
  /\ \/ Lands(at, "done") /\ Goes("intending") /\ at' = at + 1
     \/ (Throws(at, "done") \/ Refuses) /\ Goes("failing") /\ UNCHANGED at
  /\ UNCHANGED <<shape, run, row, bodyVars, race, checkVars, performed, crashes>>

EffectStep == NoEffectLeft \/ Intends \/ Performs \/ EffectFails \/ Marks

-----------------------------------------------------------------------------
(* The verdict: `validateAfter`, then the lock is released and the row      *)
(* settled.                                                                 *)

ValidatesAfter ==
  /\ pc = "after" /\ pc' \in {"passing", "failing"}
  /\ UNCHANGED <<shape, recordVars, at, aborted, bodyVars, race, checkVars, performed, crashes, faults>>

Settles ==
  /\ pc \in {"passing", "failing"}
  /\ Goes("settled")
  /\ row' = IF pc = "passing" THEN "succeeded" ELSE "failed"
  /\ UNCHANGED <<shape, run, effect, at, aborted, bodyVars, race, checkVars, performed,
                 crashes, faults>>

-----------------------------------------------------------------------------
(* Around the target. *)

(* Ctrl-C, a failing sibling that cancels the run, or a write that met a    *)
(* settled run.                                                             *)
Abort ==
  /\ pc # "down" /\ ~aborted
  /\ aborted' = TRUE
  /\ UNCHANGED <<shape, recordVars, pc, at, bodyVars, race, checkVars, performed, crashes, faults>>

(* A canceller or a sweep in another process settles the run. *)
SettledElsewhere ==
  /\ run = "running" /\ run' = "settled"
  /\ UNCHANGED <<shape, row, effect, pc, at, aborted, bodyVars, race, checkVars, performed,
                 crashes, faults>>

Crash ==
  /\ pc \notin {"down", "settled"} /\ crashes < MaxCrashes
  /\ crashes' = crashes + 1
  /\ Goes("down") /\ at' = 0 /\ aborted' = FALSE
  /\ chain' = "none" /\ tries' = 0 /\ heals' = 0 /\ race' = "none"
  /\ settled' = FALSE /\ timer' = FALSE /\ check' = 0 /\ checkFailure' = "none"
  /\ UNCHANGED <<shape, recordVars, performed, faults>>

(* Mutant: a resume only launches what had not begun. *)
ResumeUnbegun ==
  /\ pc = "down" /\ run = "running" /\ row = "pending"
  /\ Goes("idle")
  /\ UNCHANGED <<shape, recordVars, at, aborted, bodyVars, race, checkVars, performed, crashes, faults>>

(* A sweep hands the run back and a resume takes it up: what has no final   *)
(* row is launched again.                                                   *)
Resume ==
  /\ pc = "down" /\ run = "running"
  /\ Goes("idle")
  /\ UNCHANGED <<shape, recordVars, at, aborted, bodyVars, race, checkVars, performed, crashes, faults>>

TargetStep ==
  \/ Skips \/ FailsEarly \/ Launch \/ Opens \/ Waits \/ Prepares \/ StartsBody \/ RaceReturns \/ RoundsOver
  \/ EffectStep \/ ValidatesAfter \/ Settles

Over == pc = "settled" /\ chain \notin Working /\ check = 0 /\ UNCHANGED vars
Lost == pc = "down" /\ run # "running" /\ UNCHANGED vars

Next ==
  \/ TargetStep \/ BodyStep \/ RoundStarts \/ CheckStep
  \/ Abort \/ SettledElsewhere \/ Crash \/ Resume
  \/ Over \/ Lost

Spec == Init /\ [][Next]_vars

(* The process works on, bodies end by themselves or by their timeout, and  *)
(* somebody resumes a run whose process died.  A check ends too, unless the *)
(* run is cancelled: nobody has to wait for it then.                        *)
FairSpec ==
  /\ Spec
  /\ WF_vars(TargetStep) /\ WF_vars(BodyStep)
  /\ WF_vars(~aborted /\ CheckStep)
  /\ WF_vars(Resume)

-----------------------------------------------------------------------------
TypeOK ==
  /\ shape \in Shapes
  /\ run \in {"running", "settled"}
  /\ row \in {"pending", "waiting", "running", "skipped", "succeeded", "failed"}
  /\ effect \in [Effect -> {"none", "pending", "done", "failed"}]
  /\ pc \in Sections \cup {"idle", "passing", "failing", "settled", "down"}
  /\ at \in 0 .. NEffects + 1
  /\ aborted \in BOOLEAN
  /\ chain \in Working \cup {"none", "resolved", "rejected"}
  /\ tries \in 0 .. shape.retries /\ heals \in 0 .. shape.recover
  /\ race \in {"none", "body", "check"}
  /\ settled \in BOOLEAN /\ timer \in BOOLEAN
  /\ check \in 0 .. shape.checks
  /\ checkFailure \in {"none", "stops", "late"}
  /\ performed \in [Effect -> 0 .. MaxCrashes + 1]
  /\ crashes \in 0 .. MaxCrashes /\ faults \in 0 .. MaxFaults

(* Effects and the verdict `succeeded` rest on a body that has ended well   *)
(* and on checks of which none had failed when the last round was over; the *)
(* wait for that round is only cut short by the run's own cancellation      *)
(* (validate_during.ts:155).                                                *)
SuccessWasValidated ==
  pc \in Driving \cup {"after", "passing"} /\ ~shape.gate =>
    /\ chain = "resolved"
    /\ checkFailure = "none" \/ aborted
    /\ check = 0 \/ aborted

(* A target recorded succeeded has performed all its effects and says so:   *)
(* no lost answer, refusal or crash leaves one owed behind a success.       *)
SuccessOwesNothing ==
  row = "succeeded" =>
    \A e \in 1..shape.effects : effect[e] = "done" /\ performed[e] > 0

(* A success was earned: nothing of it is missing or was found wrong.       *)
SuccessIsEarned == SuccessWasValidated /\ SuccessOwesNothing

(* An effect is only performed while the record says it is owed, so that a  *)
(* resume after a kill in the middle drives it again (scheduler.ts:313);    *)
(* and one recorded done is never owed again, by whichever process.         *)
OnlyOwedEffectsArePerformed ==
  [][\A e \in Effect :
       /\ performed'[e] # performed[e] => effect[e] = "pending"
       /\ effect[e] = "done" => effect'[e] = "done"]_vars

(* An owed effect is driven to an outcome, whatever process dies over it,   *)
(* unless its target fails or is skipped or the run is settled elsewhere.   *)
OwedEffectsAreDriven ==
  \A e \in Effect :
    effect[e] = "pending" ~>
      effect[e] \in {"done", "failed"} \/ row \in {"failed", "skipped"} \/ run = "settled"

(* A cancelled target ends: its retries stop, and no check that ignores the *)
(* signal holds it up (validate_during.ts:92).                              *)
CancelledTargetsEnd == aborted /\ pc \in Sections ~> pc \notin Sections

(* Neither a kill nor a cancellation leaves a target between two states.    *)
NothingIsLeftHanging == OwedEffectsAreDriven /\ CancelledTargetsEnd
=============================================================================
