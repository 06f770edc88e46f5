-------------------------- MODULE TargetBody_proofs --------------------------
(***************************************************************************)
(* Proofs about one target, whatever it declares: any number of effects,   *)
(* retries, remediations and checks, any number of crashes and of writes   *)
(* that throw.                                                             *)
(*                                                                         *)
(* `SuccessIsEarned` speaks of the verdict; what makes it hold was settled *)
(* steps before, so the invariant carries it along: what is known of the   *)
(* body and its checks from the race on (Validated), how far the drive of  *)
(* the effects has come (Driven), and how often an effect can have been    *)
(* performed by a process that is where this one is (Counted).             *)
(***************************************************************************)
EXTENDS TargetBody, TLAPS

Earned == Driving \cup {"after", "passing"}

(* From the end of the race on the body stays resolved and no round begins. *)
Validated ==
  /\ timer => shape.checks > 0
  /\ pc \in Earned \cup {"rounds"} /\ ~shape.gate =>
       chain = "resolved" /\ settled /\ ~timer
  /\ SuccessWasValidated

AllDone == \A e \in 1..shape.effects : effect[e] = "done"

(* What the drive left behind is done, and what it is at was intended.      *)
Driven ==
  /\ pc \in Driving =>
       /\ at \in 1 .. shape.effects + 1
       /\ \A e \in 1..shape.effects : e < at => effect[e] = "done"
  /\ pc \in {"performing", "marking"} => at <= shape.effects /\ effect[at] = "pending"
  /\ pc = "marking" => performed[at] > 0
  /\ pc \in {"after", "passing"} => AllDone
  /\ row = "succeeded" => pc = "settled" /\ AllDone

(* This process has not performed e yet. *)
Ahead(e) ==
  \/ pc \in {"idle", "locking", "before", "driving", "rounds", "down"}
  \/ pc \in {"intending", "performing"} /\ e >= at
  \/ pc = "marking" /\ e > at

(* Each process performs an effect at most once, and before it is done.     *)
Counted ==
  \A e \in Effect :
    /\ effect[e] = "done" => performed[e] > 0
    /\ performed[e] <= crashes + 1
    /\ Ahead(e) => performed[e] <= crashes

IInv == TypeOK /\ Validated /\ Driven /\ Counted

-----------------------------------------------------------------------------
LEMMA ShapeFacts ==
  ASSUME shape \in Shapes
  PROVE  /\ shape.gate \in BOOLEAN /\ shape.delay \in BOOLEAN
         /\ shape.effects \in Nat /\ shape.effects <= NEffects
         /\ shape.retries \in Nat /\ shape.recover \in Nat /\ shape.checks \in Nat
         /\ 1..shape.effects \subseteq Effect
         /\ NEffects \in Nat /\ MaxCrashes \in Nat /\ MaxFaults \in Nat
  BY NEffectsAssumption, ShapesAssumption, BoundsAssumption DEF Effect

LEMMA InitEstablishes == Init => IInv
<1> SUFFICES ASSUME Init PROVE IInv
  OBVIOUS
<1> USE ShapeFacts DEF Init, NoChecks
<1>1. TypeOK
  <2>1. (aborted \in BOOLEAN /\ settled \in BOOLEAN /\ timer \in BOOLEAN)
    BY DEF TypeOK
  <2> QED
    BY <2>1 DEF TypeOK, Sections, Working
<1>2. Validated
  BY DEF Validated, Earned, SuccessWasValidated, Driving
<1>3. Driven
  BY DEF Driven, Driving
<1>4. Counted
  BY DEF Counted
<1> QED
  BY <1>1, <1>2, <1>3, <1>4 DEF IInv

-----------------------------------------------------------------------------
(* The steps, one lemma for each kind. *)

(* Nothing but runTarget's place and its row moves before the body.         *)
LEMMA BeforeSteps ==
  ASSUME IInv, Skips \/ FailsEarly \/ Launch \/ Opens \/ Waits \/ Prepares \/ StartsBody \/ Resume
  PROVE  IInv'
<1> USE ShapeFacts DEF IInv, Skips, FailsEarly, Launch, Opens, Waits, Prepares, StartsBody,
                       Resume, Goes, recordVars, bodyVars, checkVars
<1>1. TypeOK'
  <2>1. (aborted \in BOOLEAN /\ settled \in BOOLEAN /\ timer \in BOOLEAN)'
    <3>1. (aborted \in BOOLEAN /\ settled \in BOOLEAN)'
      BY DEF TypeOK
    <3>2. timer' = timer \/ timer' = (shape.checks > 0)
      OBVIOUS
    <3>3. timer \in BOOLEAN /\ (shape.checks > 0) \in BOOLEAN
      BY DEF TypeOK
    <3> QED
      BY <3>1, <3>2, <3>3
  <2> QED
    BY <2>1 DEF TypeOK, Sections, Working, Driving
<1>2. Validated'
  BY DEF TypeOK, Validated, Earned, SuccessWasValidated, Driving
<1>3. Driven'
  BY DEF TypeOK, Driven, Driving, AllDone
<1>4. Counted'
  BY DEF TypeOK, Counted, Ahead
<1> QED
  BY <1>1, <1>2, <1>3, <1>4

LEMMA BodySteps ==
  ASSUME IInv, BodyStep
  PROVE  IInv'
<1> USE ShapeFacts DEF IInv, BodyStep, AttemptPasses, AttemptFails, DelayEnds, Healed,
                       BodySettles, recordVars, bodyVars, checkVars
<1>1. TypeOK'
  <2>1. (aborted \in BOOLEAN /\ settled \in BOOLEAN /\ timer \in BOOLEAN)'
    BY DEF TypeOK
  <2> QED
    BY <2>1 DEF TypeOK, Working, MayRetry, MayHeal
<1>2. Validated'
  BY DEF TypeOK, Validated, Earned, SuccessWasValidated, Driving
<1>3. Driven'
  BY DEF TypeOK, Driven, AllDone
<1>4. Counted'
  BY DEF TypeOK, Counted, Ahead
<1> QED
  BY <1>1, <1>2, <1>3, <1>4

LEMMA CheckSteps ==
  ASSUME IInv, RoundStarts \/ CheckStep
  PROVE  IInv'
<1> USE ShapeFacts DEF IInv, RoundStarts, CheckStep, CheckPasses, CheckFails,
                       recordVars, bodyVars, checkVars
<1>1. TypeOK'
  <2>1. (aborted \in BOOLEAN /\ settled \in BOOLEAN /\ timer \in BOOLEAN)'
    BY DEF TypeOK
  <2> QED
    BY <2>1 DEF TypeOK, Validated
<1>2. Validated'
  BY DEF TypeOK, Validated, Earned, SuccessWasValidated, Driving
<1>3. Driven'
  BY DEF TypeOK, Driven, AllDone
<1>4. Counted'
  BY DEF TypeOK, Counted, Ahead
<1> QED
  BY <1>1, <1>2, <1>3, <1>4

(* The race and the wait for the last round, up to the effects.             *)
LEMMA RaceSteps ==
  ASSUME IInv, RaceReturns \/ RoundsOver
  PROVE  IInv'
<1> USE ShapeFacts DEF IInv, RaceReturns, RoundsOver, Goes, RoundAwaited, signalAborted,
                       recordVars, bodyVars, checkVars
<1>1. TypeOK'
  <2>1. (aborted \in BOOLEAN /\ settled \in BOOLEAN /\ timer \in BOOLEAN)'
    BY DEF TypeOK
  <2> QED
    BY <2>1 DEF TypeOK, Sections, Driving
<1>2. Validated'
  BY DEF TypeOK, Validated, Earned, SuccessWasValidated, Driving
<1>3. Driven'
  BY DEF TypeOK, Driven, Driving, AllDone
<1>4. Counted'
  BY DEF TypeOK, Counted, Ahead
<1> QED
  BY <1>1, <1>2, <1>3, <1>4

LEMMA VerdictSteps ==
  ASSUME IInv, NoEffectLeft \/ ValidatesAfter \/ Settles
  PROVE  IInv'
<1> USE ShapeFacts DEF IInv, NoEffectLeft, ValidatesAfter, Settles, Goes,
                       recordVars, bodyVars, checkVars
<1>1. TypeOK'
  <2>1. (aborted \in BOOLEAN /\ settled \in BOOLEAN /\ timer \in BOOLEAN)'
    BY DEF TypeOK
  <2> QED
    BY <2>1 DEF TypeOK, Sections, Driving
<1>2. Validated'
  BY DEF TypeOK, Validated, Earned, SuccessWasValidated, Driving
<1>3. Driven'
  BY DEF TypeOK, Driven, Driving, AllDone
<1>4. Counted'
  BY DEF TypeOK, Counted, Ahead
<1> QED
  BY <1>1, <1>2, <1>3, <1>4

(* What happens around the target, whatever it is doing.                    *)
LEMMA OutsideSteps ==
  ASSUME IInv, Abort \/ SettledElsewhere \/ Crash
  PROVE  IInv'
<1> USE ShapeFacts DEF IInv, Abort, SettledElsewhere, Crash, Goes,
                       recordVars, bodyVars, checkVars
<1>1. TypeOK'
  <2>1. (aborted \in BOOLEAN /\ settled \in BOOLEAN /\ timer \in BOOLEAN)'
    BY DEF TypeOK
  <2> QED
    BY <2>1 DEF TypeOK, Working
<1>2. Validated'
  BY DEF TypeOK, Validated, Earned, SuccessWasValidated, Driving
<1>3. Driven'
  BY DEF TypeOK, Driven, Driving, AllDone
<1>4. Counted'
  BY DEF TypeOK, Counted, Ahead
<1> QED
  BY <1>1, <1>2, <1>3, <1>4

-----------------------------------------------------------------------------
(* The drive of the effects. *)

(* A strict write of e's row ends in one of three ways; in none of them     *)
(* another effect's row changes.                                            *)
LEMMA WriteFacts ==
  ASSUME IInv, NEW e \in Effect, NEW status \in {"none", "pending", "done", "failed"},
         Lands(e, status) \/ Throws(e, status) \/ Refuses
  PROVE  /\ effect' \in {effect, [effect EXCEPT ![e] = status]}
         /\ effect' \in [Effect -> {"none", "pending", "done", "failed"}]
         /\ \A f \in Effect : effect'[f] = effect[f] \/ (f = e /\ effect'[f] = status)
         /\ aborted => aborted'
         /\ aborted' \in BOOLEAN /\ faults' \in 0 .. MaxFaults
<1>1. aborted' \in BOOLEAN /\ (aborted => aborted')
  BY DEF Lands, Throws, Refuses, IInv, TypeOK
<1>2. effect' \in {effect, [effect EXCEPT ![e] = status]}
  BY DEF Lands, Throws, Refuses
<1>3. faults' \in 0 .. MaxFaults
  BY BoundsAssumption DEF Lands, Throws, Refuses, IInv, TypeOK
<1>4. effect' \in [Effect -> {"none", "pending", "done", "failed"}]
  BY <1>2 DEF IInv, TypeOK
<1>5. effect \in [Effect -> {"none", "pending", "done", "failed"}]
  BY DEF IInv, TypeOK
<1>6. \A f \in Effect : effect'[f] = effect[f] \/ (f = e /\ effect'[f] = status)
  BY <1>2, <1>5
<1> QED
  BY <1>1, <1>2, <1>3, <1>4, <1>6

LEMMA IntendSteps ==
  ASSUME IInv, Intends
  PROVE  IInv'
<1> USE ShapeFacts DEF IInv, Intends, Goes, bodyVars, checkVars
<1>0. /\ pc = "intending" /\ at \in 1..shape.effects /\ at \in Effect
      /\ effect[at] \in {"none", "pending", "done", "failed"}
  BY DEF TypeOK
<1>1. CASE effect[at] = "done" /\ run = "running" /\ at' = at + 1
           /\ UNCHANGED <<pc, aborted, effect, faults>>
  <2>1. TypeOK'
    BY <1>0, <1>1 DEF TypeOK
  <2>2. Validated'
    BY <1>1 DEF Validated, Earned, SuccessWasValidated, Driving
  <2>3. Driven'
    BY <1>0, <1>1 DEF TypeOK, Driven, Driving, AllDone
  <2>4. Counted'
    BY <1>0, <1>1 DEF TypeOK, Counted, Ahead
  <2> QED
    BY <2>1, <2>2, <2>3, <2>4
<1>2. CASE effect[at] # "done" /\ Lands(at, "pending") /\ pc' = "performing" /\ UNCHANGED at
  <2>0. /\ effect' = [effect EXCEPT ![at] = "pending"] /\ UNCHANGED <<aborted, faults>>
    BY <1>2 DEF Lands
  <2>1. TypeOK'
    <3>1. (aborted \in BOOLEAN /\ settled \in BOOLEAN /\ timer \in BOOLEAN)'
      BY <2>0 DEF TypeOK
    <3> QED
      BY <1>0, <1>2, <2>0, <3>1 DEF TypeOK, Sections, Driving
  <2>2. Validated'
    BY <1>0, <1>2, <2>0 DEF Validated, Earned, SuccessWasValidated, Driving
  <2>3. Driven'
    BY <1>0, <1>2, <2>0 DEF TypeOK, Driven, Driving, AllDone
  <2>4. Counted'
    BY <1>0, <1>2, <2>0 DEF TypeOK, Counted, Ahead
  <2> QED
    BY <2>1, <2>2, <2>3, <2>4
<1>3. CASE /\ Refuses \/ Throws(at, IF effect[at] = "done" THEN "done" ELSE "pending")
           /\ pc' = "failing" /\ UNCHANGED at
  <2> DEFINE status == IF effect[at] = "done" THEN "done" ELSE "pending"
  <2>0. /\ \A f \in Effect : effect'[f] = effect[f] \/ (f = at /\ effect'[f] = status)
        /\ effect' \in [Effect -> {"none", "pending", "done", "failed"}]
        /\ faults' \in 0 .. MaxFaults
    BY <1>0, <1>3, WriteFacts
  <2>1. TypeOK'
    <3>1. (aborted \in BOOLEAN /\ settled \in BOOLEAN /\ timer \in BOOLEAN)'
      BY <1>0, <1>3, WriteFacts DEF TypeOK
    <3> QED
      BY <1>3, <2>0, <3>1 DEF TypeOK
  <2>2. Validated'
    BY <1>3 DEF Validated, Earned, SuccessWasValidated, Driving
  <2>3. Driven'
    BY <1>0, <1>3 DEF TypeOK, Driven, Driving, AllDone
  <2>4. Counted'
    BY <1>0, <1>3, <2>0 DEF TypeOK, Counted, Ahead
  <2> QED
    BY <2>1, <2>2, <2>3, <2>4
<1> QED
  BY <1>1, <1>2, <1>3

(* The function ran, or failed before or after it took effect; only the     *)
(* count at `at` moves.                                                     *)
LEMMA PerformSteps ==
  ASSUME IInv, Performs \/ EffectFails
  PROVE  IInv'
<1> USE ShapeFacts DEF IInv, bodyVars, checkVars
<1>0. /\ pc = "performing" /\ pc' \in {"marking", "failing"}
      /\ at \in 1..shape.effects /\ at \in Effect /\ effect[at] = "pending"
      /\ UNCHANGED <<shape, run, row, at, bodyVars, race, checkVars, crashes>>
  BY DEF Performs, EffectFails, Goes, recordVars, TypeOK, Driven, Driving
<1>1. /\ performed' \in {performed, [performed EXCEPT ![at] = performed[at] + 1]}
      /\ pc' = "marking" => performed' = [performed EXCEPT ![at] = performed[at] + 1]
                            /\ UNCHANGED <<effect, aborted, faults>>
      /\ pc' = "failing" => Lands(at, "failed") \/ Throws(at, "failed") \/ Refuses
  BY <1>0 DEF Performs, EffectFails, Goes, recordVars
<1>2. /\ aborted => aborted'
      /\ aborted' \in BOOLEAN
  <2>1. CASE UNCHANGED aborted
    BY <2>1 DEF TypeOK
  <2> QED
    BY <1>0, <1>1, <2>1, WriteFacts
<1>3. /\ \A f \in Effect : effect'[f] = effect[f] \/ (f = at /\ effect'[f] = "failed")
      /\ effect' \in [Effect -> {"none", "pending", "done", "failed"}]
      /\ faults' \in 0 .. MaxFaults
  <2>1. CASE UNCHANGED <<effect, faults>>
    BY <2>1 DEF TypeOK
  <2> QED
    BY <1>0, <1>1, <2>1, WriteFacts
<1>4. performed' \in [Effect -> 0 .. MaxCrashes + 1]
  <2>1. performed[at] + 1 \in 0 .. MaxCrashes + 1
    BY <1>0 DEF Counted, Ahead, TypeOK
  <2> QED
    BY <1>0, <1>1, <2>1 DEF TypeOK
<1>5. TypeOK'
  <2>1. (aborted \in BOOLEAN /\ settled \in BOOLEAN /\ timer \in BOOLEAN)'
    BY <1>0, <1>2 DEF TypeOK
  <2> QED
    BY <1>0, <1>3, <1>4, <2>1 DEF TypeOK, Sections, Driving
<1>6. Validated'
  BY <1>0, <1>2 DEF Validated, Earned, SuccessWasValidated, Driving
<1>7. Driven'
  BY <1>0, <1>1, <1>3 DEF TypeOK, Driven, Driving, AllDone, recordVars
<1>8. Counted'
  BY <1>0, <1>1, <1>3 DEF TypeOK, Counted, Ahead
<1> QED
  BY <1>5, <1>6, <1>7, <1>8

LEMMA MarkSteps ==
  ASSUME IInv, Marks
  PROVE  IInv'
<1> USE ShapeFacts DEF IInv, bodyVars, checkVars
<1>0. /\ pc = "marking" /\ at \in 1..shape.effects /\ at \in Effect
      /\ effect[at] = "pending" /\ performed[at] > 0
      /\ UNCHANGED <<shape, run, row, bodyVars, race, checkVars, performed, crashes>>
      /\ \/ effect' = [effect EXCEPT ![at] = "done"] /\ pc' = "intending" /\ at' = at + 1
         \/ pc' = "failing" /\ at' = at
  BY DEF Marks, Goes, Lands, TypeOK, Driven, Driving
<1>1. /\ aborted => aborted'
      /\ aborted' \in BOOLEAN
  BY <1>0, WriteFacts DEF Marks, TypeOK
<1>2. /\ \A f \in Effect : effect'[f] = effect[f] \/ (f = at /\ effect'[f] = "done")
      /\ effect' \in [Effect -> {"none", "pending", "done", "failed"}]
      /\ faults' \in 0 .. MaxFaults
  BY <1>0, WriteFacts DEF Marks, TypeOK
<1>3. TypeOK'
  <2>1. (aborted \in BOOLEAN /\ settled \in BOOLEAN /\ timer \in BOOLEAN)'
    BY <1>0, <1>1 DEF TypeOK
  <2> QED
    BY <1>0, <1>2, <2>1 DEF TypeOK, Sections, Driving
<1>4. Validated'
  BY <1>0, <1>1 DEF Validated, Earned, SuccessWasValidated, Driving
<1>5. Driven'
  BY <1>0, <1>2 DEF TypeOK, Driven, Driving, AllDone
<1>6. Counted'
  BY <1>0, <1>2 DEF TypeOK, Counted, Ahead
<1> QED
  BY <1>3, <1>4, <1>5, <1>6

-----------------------------------------------------------------------------
LEMMA StepPreserves == IInv /\ [Next]_vars => IInv'
<1> SUFFICES ASSUME IInv, [Next]_vars PROVE IInv'
  OBVIOUS
<1>1. CASE Skips \/ FailsEarly \/ Launch \/ Opens \/ Waits \/ Prepares \/ StartsBody \/ Resume
  BY <1>1, BeforeSteps
<1>2. CASE BodyStep
  BY <1>2, BodySteps
<1>3. CASE RoundStarts \/ CheckStep
  BY <1>3, CheckSteps
<1>4. CASE RaceReturns \/ RoundsOver
  BY <1>4, RaceSteps
<1>5. CASE Intends
  BY <1>5, IntendSteps
<1>6. CASE Performs \/ EffectFails
  BY <1>6, PerformSteps
<1>7. CASE Marks
  BY <1>7, MarkSteps
<1>8. CASE NoEffectLeft \/ ValidatesAfter \/ Settles
  BY <1>8, VerdictSteps
<1>9. CASE Abort \/ SettledElsewhere \/ Crash
  BY <1>9, OutsideSteps
<1>10. CASE UNCHANGED vars
  BY <1>10 DEF vars, recordVars, bodyVars, checkVars, IInv, TypeOK, Validated, Driven,
               Counted, Ahead, AllDone, Earned, SuccessWasValidated
<1> QED
  BY <1>1, <1>2, <1>3, <1>4, <1>5, <1>6, <1>7, <1>8, <1>9, <1>10
     DEF Next, TargetStep, EffectStep, Over, Lost

LEMMA Invariance == Spec => []IInv
  BY InitEstablishes, StepPreserves, PTL DEF Spec

(* Every variable keeps its type: no process performs an effect twice, so   *)
(* after n kills none was performed more than n + 1 times.                  *)
THEOREM TypeCorrect == Spec => []TypeOK
<1>1. IInv => TypeOK
  BY DEF IInv
<1> QED
  BY <1>1, Invariance, PTL

(* A success was earned: the body ended well, no check had failed when the  *)
(* last round was over unless the run was cancelled, and every effect was   *)
(* performed and recorded done (scheduler.ts, runTarget).                   *)
THEOREM EverySuccessIsEarned == Spec => []SuccessIsEarned
<1>1. IInv => SuccessIsEarned
  BY ShapeFacts DEF IInv, TypeOK, Validated, Driven, Counted, AllDone, SuccessIsEarned,
                    SuccessOwesNothing
<1> QED
  BY <1>1, Invariance, PTL

(* No step performs an effect the record does not call owed, or owes again  *)
(* what is recorded done (scheduler.ts, driveEffects).                      *)
THEOREM EffectsOnlyWhenOwed == Spec => OnlyOwedEffectsArePerformed
<1> DEFINE Owed == \A e \in Effect :
                     /\ performed'[e] # performed[e] => effect[e] = "pending"
                     /\ effect[e] = "done" => effect'[e] = "done"
<1>1. IInv /\ [Next]_vars => [Owed]_vars
  <2> SUFFICES ASSUME IInv, Next PROVE Owed
    OBVIOUS
  <2> USE ShapeFacts DEF IInv, recordVars, bodyVars, checkVars
  <2>1. CASE UNCHANGED <<effect, performed>>
    BY <2>1
  <2>2. CASE Intends
    <3>1. UNCHANGED performed
      BY <2>2 DEF Intends
    <3>2. at \in Effect
      BY <2>2 DEF Intends, TypeOK
    <3> QED
      BY <2>2, <3>1, <3>2 DEF Intends, Lands, Throws, Refuses, TypeOK
  <2>3. CASE Performs \/ EffectFails
    <3>1. at \in Effect /\ effect[at] = "pending"
      BY <2>3 DEF Performs, EffectFails, TypeOK, Driven, Driving
    <3> QED
      BY <2>3, <3>1 DEF Performs, EffectFails, Lands, Throws, Refuses, TypeOK
  <2>4. CASE Marks
    <3>1. UNCHANGED performed /\ at \in Effect /\ effect[at] = "pending"
      BY <2>4 DEF Marks, TypeOK, Driven, Driving
    <3> QED
      BY <2>4, <3>1 DEF Marks, Lands, Throws, Refuses, TypeOK
  <2>5. Intends \/ Performs \/ EffectFails \/ Marks \/ UNCHANGED <<effect, performed>>
    BY DEF Next, TargetStep, Skips, FailsEarly, Launch, Opens, Waits, Prepares, StartsBody,
           RaceReturns, RoundsOver, EffectStep, NoEffectLeft, ValidatesAfter, Settles, BodyStep, AttemptPasses,
           AttemptFails, DelayEnds, Healed, RoundStarts, CheckStep, CheckPasses, CheckFails,
           Abort, SettledElsewhere, Crash, Resume, Over, Lost, vars
  <2> QED
    BY <2>1, <2>2, <2>3, <2>4, <2>5
<1> QED
  BY <1>1, Invariance, PTL DEF Spec, OnlyOwedEffectsArePerformed
=============================================================================
