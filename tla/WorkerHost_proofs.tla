------------------------- MODULE WorkerHost_proofs -------------------------
(***************************************************************************)
(* Whoever dies, hangs up, refuses or is cut off, the host of the workers  *)
(* keeps one process alive at most and runs a body only in a worker that   *)
(* is configured as the body's own run is: WorkerHost's invariants, proved *)
(* for every number of bodies, workers, runs and faults.                   *)
(*                                                                         *)
(* What is said of the workers is not inductive by itself.  It rests on    *)
(* who is doing what in which stage of the run:                            *)
(*   Graced     a grace timer belongs to a body still in flight, so none   *)
(*              outlives its run;                                          *)
(*   Callers    bodies run between onStart and finish() only, and whoever  *)
(*              awaits an answer awaits the current worker's, over a       *)
(*              connection that is up;                                     *)
(*   Serving    during the bodies the host remembers this run's            *)
(*              parameters, a worker that is up has them, a replacement    *)
(*              being configured is sent them, and a body waits for it;    *)
(*   Replacing  the old worker is down before the next is spawned, nobody  *)
(*              else is alive, and finish() meets no replacement.          *)
(* The last three hold as long as no body was left behind by a timeout.    *)
(***************************************************************************)
EXTENDS WorkerHost, FiniteSetTheorems, TLAPS

Graced == \A b \in grace : at[b] \in InFlight

Callers ==
  /\ left = {}
  /\ \A b \in Body : at[b] \in InFlight => stage = "bodies"
  /\ (at[Config] \in InFlight => stage = "starting")
  /\ \A c \in Caller : at[c] = "asked" => on[c] = worker /\ Up
  /\ (at[Config] = "asked" => configured = run)

Serving ==
  /\ (stage \in {"starting", "bodies"} => run # 0)
  /\ (stage = "bodies" =>
       /\ configured = run
       /\ (Up => conf[worker] = run)
       /\ (replacing.at = "configuring" => replacing.sent = run)
       /\ (replacing.at # "none" => \E b \in Body : at[b] = "waiting"))

Replacing ==
  /\ proc[worker] # "none"
  /\ (replacing.at # "none" => ~Up)
  /\ (replacing.at \in {"spawning", "describing", "configuring"} => proc[worker] = "exited")
  /\ (replacing.w # 0 => proc[replacing.w] # "none")
  /\ \A w \in Worker : proc[w] = "alive" => w = worker \/ w = replacing.w
  /\ (stage \in {"finishing", "exiting"} => finished = worker /\ replacing.at = "none")
  /\ (stage = "exiting" => ~Up)
  /\ (stage = "closed" => replacing.at = "none" /\ proc[worker] = "exited")

Orderly == Callers /\ Serving /\ Replacing
Inv == TypeOK /\ Graced /\ (timeouts = 0 => Orderly)

(* Type correctness but for one flag, which no step computes with. *)
Types == WorkersTyped /\ HostTyped /\ RunTyped /\ CallersTyped

-----------------------------------------------------------------------------
(* The host starts with one worker, which no run has configured. *)
LEMMA InitHolds == Init => Inv
<1> SUFFICES ASSUME Init PROVE Inv
  OBVIOUS
<1> USE BoundsAssumption, ConfigAssumption DEF Init, Caller, Worker, InFlight
<1>1. WorkersTyped /\ RunTyped
  BY DEF WorkersTyped, RunTyped
<1>2. HostTyped
  BY DEF HostTyped, NoReplacement
<1>3. CallersTyped
  BY DEF CallersTyped
<1>4. fatal \in BOOLEAN
  OBVIOUS
<1>5. Graced /\ Callers /\ Serving
  BY DEF Graced, Callers, Serving
<1>6. Replacing
  BY DEF Replacing, NoReplacement, Up
<1> QED
  BY <1>1, <1>2, <1>3, <1>4, <1>5, <1>6 DEF Inv, TypeOK, Orderly

(* Every step keeps the types.  A new run forgets the cancelled bodies that *)
(* are over: none of them has a grace timer left.                           *)
LEMMA TypesStep == ASSUME Types, Graced, [Next]_vars PROVE Types'
<1> USE ConfigAssumption, BoundsAssumption
        DEF Types, WorkersTyped, HostTyped, RunTyped, CallersTyped, Caller, Worker,
            InFlight, workers, host, runs, callers, marks, bounds
<1>1. ASSUME NEW c \in Caller, Refused(c) PROVE Types'
  BY <1>1 DEF Refused, Over
<1>2. ASSUME NEW c \in Caller, Waits(c) PROVE Types'
  <2> USE <1>2 DEF Waits, MayGoOn, NoReplacement
  <2>1. WorkersTyped' /\ RunTyped' /\ CallersTyped'
    OBVIOUS
  <2>2. HostTyped'
    <3>1. CASE replacing.at # "none"
      BY <3>1
    <3>2. CASE replacing.at = "none"
      <4>1. replacing' = [at |-> "stopping", why |-> "respawn", w |-> 0, sent |-> 0]
        BY <3>2
      <4> QED
        BY <4>1
    <3> QED
      BY <3>1, <3>2
  <2> QED
    BY <2>1, <2>2
<1>3. ASSUME NEW c \in Caller, Asks(c) PROVE Types'
  BY <1>3 DEF Asks, MayGoOn
<1>4. ASSUME NEW c \in Caller, Answers(c) PROVE Types'
  BY <1>4 DEF Answers, Over
<1>5. ASSUME NEW c \in Caller, Refuses(c) PROVE Types'
  BY <1>5 DEF Refuses, Over, Fault
<1>6. ASSUME NEW c \in Caller, Explained(c) PROVE Types'
  BY <1>6 DEF Explained, Over
<1>7. ASSUME NEW b \in Body, StartsBody(b) PROVE Types'
  BY <1>7 DEF StartsBody
<1>8. ASSUME NEW b \in Body, Aborts(b) PROVE Types'
  BY <1>8 DEF Aborts
<1>9. ASSUME NEW b \in Body, GraceFires(b) PROVE Types'
  BY <1>9 DEF GraceFires, Closes, Rejected
<1>10. ASSUME NEW b \in Body, TimesOut(b) PROVE Types'
  BY <1>10 DEF TimesOut
<1>11. ASSUME StopsOld PROVE Types'
  BY <1>11 DEF StopsOld, Replacement, Proceeds, Closes, Rejected
<1>12. ASSUME Spawns PROVE Types'
  <2> PICK w \in Worker :
         /\ proc' = [proc EXCEPT ![w] = "alive"] /\ conn' = [conn EXCEPT ![w] = "open"]
         /\ replacing' = [replacing EXCEPT !.at = "describing", !.w = w]
    BY <1>12 DEF Spawns
  <2>1. HostTyped'
    <3>1. replacing' \in [at : {"describing"}, why : {"none", "respawn", "prewarm"},
                           w : {w}, sent : 0..MaxRuns]
      OBVIOUS
    <3>2. w # 0 /\ w \in 0..NWorkers
      OBVIOUS
    <3> QED
      BY <1>12, <3>1, <3>2 DEF Spawns
  <2>2. WorkersTyped' /\ RunTyped' /\ CallersTyped'
    BY <1>12 DEF Spawns
  <2> QED
    BY <2>1, <2>2
<1>13. ASSUME SpawnFails PROVE Types'
  BY <1>13 DEF SpawnFails, Replacement, Fault, GivesUp, Released, NoReplacement
<1>14. ASSUME Describes PROVE Types'
  <2> USE <1>14 DEF Describes, Replacement, Adopted, Released, NoReplacement
  <2>1. CASE configured = 0
    BY <2>1
  <2>2. CASE configured # 0
    <3>1. replacing' = [replacing EXCEPT !.at = "configuring", !.sent = configured]
      BY <2>2
    <3>2. HostTyped'
      BY <2>2, <3>1
    <3> QED
      BY <2>2, <3>2
  <2> QED
    BY <2>1, <2>2
<1>15. ASSUME Configures PROVE Types'
  BY <1>15 DEF Configures, Replacement, Adopted, Released, NoReplacement
<1>16. ASSUME TakeOverFails PROVE Types'
  BY <1>16 DEF TakeOverFails, Fault, GivesUp, Released, NoReplacement, Answering
<1>17. ASSUME StartsRun PROVE Types'
  <2>1. WorkersTyped' /\ HostTyped' /\ RunTyped'
    BY <1>17 DEF StartsRun
  <2>2. grace' \subseteq cancelled'
    BY <1>17 DEF StartsRun, Graced
  <2> QED
    BY <1>17, <2>1, <2>2 DEF StartsRun
<1>18. ASSUME Finishes PROVE Types'
  BY <1>18 DEF Finishes
<1>19. ASSUME TellsExit PROVE Types'
  BY <1>19 DEF TellsExit, Closes, Rejected
<1>20. ASSUME FinishEnds PROVE Types'
  <2>1. HostTyped'
    <3>1. CASE Prewarm /\ replacing.at = "none"
      <4>1. replacing' = [at |-> "spawning", why |-> "prewarm", w |-> 0, sent |-> 0]
        BY <1>20, <3>1 DEF FinishEnds, NoReplacement
      <4>2. worker' = worker /\ configured' = configured
        BY <1>20 DEF FinishEnds
      <4> QED
        BY <4>1, <4>2
    <3>2. CASE ~(Prewarm /\ replacing.at = "none")
      BY <1>20, <3>2 DEF FinishEnds
    <3> QED
      BY <3>1, <3>2
  <2> QED
    BY <1>20, <2>1 DEF FinishEnds
<1>21. ASSUME Closing PROVE Types'
  BY <1>21 DEF Closing
<1>22. ASSUME Closed PROVE Types'
  BY <1>22 DEF Closed, Closes, Rejected
<1>23. ASSUME NEW w \in Worker, Dies(w) PROVE Types'
  BY <1>23 DEF Dies, Fault
<1>24. ASSUME NEW w \in Worker, HangsUp(w) PROVE Types'
  BY <1>24 DEF HangsUp, Fault, Closes, Rejected
<1>25. ASSUME NEW w \in Worker, SeesEnd(w) PROVE Types'
  BY <1>25 DEF SeesEnd, Closes, Rejected
<1>26. ASSUME UNCHANGED vars PROVE Types'
  BY <1>26 DEF vars
<1> QED
  BY <1>1, <1>2, <1>3, <1>4, <1>5, <1>6, <1>7, <1>8, <1>9, <1>10, <1>11,
     <1>12, <1>13, <1>14, <1>15, <1>16, <1>17, <1>18, <1>19, <1>20, <1>21,
     <1>22, <1>23, <1>24, <1>25, <1>26
     DEF Next, LiveStep, ReplacementStep, RunStep, Done

(* Whoever is done with a request has put its timer away, and a new run     *)
(* only takes back bodies that are over.                                    *)
LEMMA GracedStep == ASSUME Types, Graced, [Next]_vars PROVE Graced'
<1> USE ConfigAssumption, BoundsAssumption
        DEF Types, WorkersTyped, HostTyped, CallersTyped, Graced, Caller, Worker,
            InFlight, workers, host, runs, callers, marks, bounds
<1>1. ASSUME NEW c \in Caller, Refused(c) PROVE Graced'
  BY <1>1 DEF Refused, Over
<1>2. ASSUME NEW c \in Caller, Waits(c) PROVE Graced'
  BY <1>2 DEF Waits, MayGoOn, NoReplacement
<1>3. ASSUME NEW c \in Caller, Asks(c) PROVE Graced'
  BY <1>3 DEF Asks, MayGoOn
<1>4. ASSUME NEW c \in Caller, Answers(c) PROVE Graced'
  BY <1>4 DEF Answers, Over
<1>5. ASSUME NEW c \in Caller, Refuses(c) PROVE Graced'
  BY <1>5 DEF Refuses, Over, Fault
<1>6. ASSUME NEW c \in Caller, Explained(c) PROVE Graced'
  BY <1>6 DEF Explained, Over
<1>7. ASSUME NEW b \in Body, StartsBody(b) PROVE Graced'
  BY <1>7 DEF StartsBody
<1>8. ASSUME NEW b \in Body, Aborts(b) PROVE Graced'
  BY <1>8 DEF Aborts
<1>9. ASSUME NEW b \in Body, GraceFires(b) PROVE Graced'
  BY <1>9 DEF GraceFires, Closes, Rejected
<1>10. ASSUME NEW b \in Body, TimesOut(b) PROVE Graced'
  BY <1>10 DEF TimesOut
<1>11. ASSUME StopsOld PROVE Graced'
  BY <1>11 DEF StopsOld, Replacement, Proceeds, Closes, Rejected
<1>12. ASSUME Spawns PROVE Graced'
  BY <1>12 DEF Spawns, Replacement
<1>13. ASSUME SpawnFails PROVE Graced'
  BY <1>13 DEF SpawnFails, Replacement, Fault, GivesUp, Released, NoReplacement
<1>14. ASSUME Describes PROVE Graced'
  BY <1>14 DEF Describes, Replacement, Adopted, Released, NoReplacement
<1>15. ASSUME Configures PROVE Graced'
  BY <1>15 DEF Configures, Replacement, Adopted, Released, NoReplacement
<1>16. ASSUME TakeOverFails PROVE Graced'
  BY <1>16 DEF TakeOverFails, Fault, GivesUp, Released, NoReplacement, Answering
<1>17. ASSUME StartsRun PROVE Graced'
  BY <1>17 DEF StartsRun
<1>18. ASSUME Finishes PROVE Graced'
  BY <1>18 DEF Finishes
<1>19. ASSUME TellsExit PROVE Graced'
  BY <1>19 DEF TellsExit, Closes, Rejected
<1>20. ASSUME FinishEnds PROVE Graced'
  BY <1>20 DEF FinishEnds, NoReplacement
<1>21. ASSUME Closing PROVE Graced'
  BY <1>21 DEF Closing
<1>22. ASSUME Closed PROVE Graced'
  BY <1>22 DEF Closed, Closes, Rejected
<1>23. ASSUME NEW w \in Worker, Dies(w) PROVE Graced'
  BY <1>23 DEF Dies, Fault
<1>24. ASSUME NEW w \in Worker, HangsUp(w) PROVE Graced'
  BY <1>24 DEF HangsUp, Fault, Closes, Rejected
<1>25. ASSUME NEW w \in Worker, SeesEnd(w) PROVE Graced'
  BY <1>25 DEF SeesEnd, Closes, Rejected
<1>26. ASSUME UNCHANGED vars PROVE Graced'
  BY <1>26 DEF vars
<1> QED
  BY <1>1, <1>2, <1>3, <1>4, <1>5, <1>6, <1>7, <1>8, <1>9, <1>10, <1>11,
     <1>12, <1>13, <1>14, <1>15, <1>16, <1>17, <1>18, <1>19, <1>20, <1>21,
     <1>22, <1>23, <1>24, <1>25, <1>26
     DEF Next, LiveStep, ReplacementStep, RunStep, Done

(* Every step that leaves no body behind keeps the order of the run. *)
LEMMA OrderlyStep ==
  ASSUME Types, Graced, Orderly, timeouts' = 0, [Next]_vars PROVE Orderly'
<1> USE ConfigAssumption, BoundsAssumption
        DEF Types, WorkersTyped, HostTyped, RunTyped, CallersTyped, Graced, Orderly,
            Callers, Serving, Replacing, Caller, Worker, InFlight, Up,
            workers, host, runs, callers, marks, bounds
<1>1. ASSUME NEW c \in Caller, Refused(c) PROVE Orderly'
  BY <1>1 DEF Refused, Over
<1>2. ASSUME NEW c \in Caller, Waits(c) PROVE Orderly'
  BY <1>2 DEF Waits, MayGoOn, NoReplacement
<1>3. ASSUME NEW c \in Caller, Asks(c) PROVE Orderly'
  BY <1>3 DEF Asks, MayGoOn
<1>4. ASSUME NEW c \in Caller, Answers(c) PROVE Orderly'
  BY <1>4 DEF Answers, Over
<1>5. ASSUME NEW c \in Caller, Refuses(c) PROVE Orderly'
  BY <1>5 DEF Refuses, Over, Fault
<1>6. ASSUME NEW c \in Caller, Explained(c) PROVE Orderly'
  BY <1>6 DEF Explained, Over
<1>7. ASSUME NEW b \in Body, StartsBody(b) PROVE Orderly'
  BY <1>7 DEF StartsBody
<1>8. ASSUME NEW b \in Body, Aborts(b) PROVE Orderly'
  BY <1>8 DEF Aborts
<1>9. ASSUME NEW b \in Body, GraceFires(b) PROVE Orderly'
  BY <1>9 DEF GraceFires, Closes, Rejected
<1>10. ASSUME NEW b \in Body, TimesOut(b) PROVE Orderly'
  BY <1>10 DEF TimesOut, RunTyped
<1>11. ASSUME StopsOld PROVE Orderly'
  BY <1>11 DEF StopsOld, Replacement, Proceeds, Closes, Rejected
<1>12. ASSUME Spawns PROVE Orderly'
  BY <1>12 DEF Spawns, Replacement
<1>13. ASSUME SpawnFails PROVE Orderly'
  BY <1>13 DEF SpawnFails, Replacement, Fault, GivesUp, Released, NoReplacement
<1>14. ASSUME Describes PROVE Orderly'
  <2> USE <1>14 DEF Describes, Replacement, Released, NoReplacement
  <2>1. Callers'
    BY DEF Adopted
  <2>2. Serving'
    BY DEF Adopted
  <2>3. Replacing'
    <3>1. CASE configured = 0
      <4>1. worker' = replacing.w /\ replacing' = NoReplacement
        BY <3>1 DEF Adopted
      <4>2. proc' = proc /\ conn' = conn /\ stage' = stage
        OBVIOUS
      <4>3. proc[worker] = "exited" /\ replacing.w \in Worker
        OBVIOUS
      <4>4. stage \notin {"finishing", "exiting", "closed"}
        OBVIOUS
      <4> QED
        BY <4>1, <4>2, <4>3, <4>4
    <3>2. CASE configured # 0
      BY <3>2
    <3> QED
      BY <3>1, <3>2
  <2> QED
    BY <2>1, <2>2, <2>3
<1>15. ASSUME Configures PROVE Orderly'
  BY <1>15 DEF Configures, Replacement, Adopted, Released, NoReplacement
<1>16. ASSUME TakeOverFails PROVE Orderly'
  BY <1>16 DEF TakeOverFails, Fault, GivesUp, Released, NoReplacement, Answering
<1>17. ASSUME StartsRun PROVE Orderly'
  BY <1>17 DEF StartsRun
<1>18. ASSUME Finishes PROVE Orderly'
  BY <1>18 DEF Finishes
<1>19. ASSUME TellsExit PROVE Orderly'
  BY <1>19 DEF TellsExit, Closes, Rejected
<1>20. ASSUME FinishEnds PROVE Orderly'
  BY <1>20 DEF FinishEnds, NoReplacement
<1>21. ASSUME Closing PROVE Orderly'
  BY <1>21 DEF Closing
<1>22. ASSUME Closed PROVE Orderly'
  BY <1>22 DEF Closed, Closes, Rejected
<1>23. ASSUME NEW w \in Worker, Dies(w) PROVE Orderly'
  BY <1>23 DEF Dies, Fault
<1>24. ASSUME NEW w \in Worker, HangsUp(w) PROVE Orderly'
  BY <1>24 DEF HangsUp, Fault, Closes, Rejected
<1>25. ASSUME NEW w \in Worker, SeesEnd(w) PROVE Orderly'
  BY <1>25 DEF SeesEnd, Closes, Rejected
<1>26. ASSUME UNCHANGED vars PROVE Orderly'
  BY <1>26 DEF vars
<1> QED
  BY <1>1, <1>2, <1>3, <1>4, <1>5, <1>6, <1>7, <1>8, <1>9, <1>10, <1>11,
     <1>12, <1>13, <1>14, <1>15, <1>16, <1>17, <1>18, <1>19, <1>20, <1>21,
     <1>22, <1>23, <1>24, <1>25, <1>26
     DEF Next, LiveStep, ReplacementStep, RunStep, Done

(* A timeout is counted once, and nothing uncounts it. *)
LEMMA TimeoutsStep == [Next]_vars => timeouts' \in {timeouts, timeouts + 1}
<1> SUFFICES ASSUME [Next]_vars PROVE timeouts' \in {timeouts, timeouts + 1}
  OBVIOUS
<1> USE DEF bounds
<1>1. ASSUME NEW c \in Caller, LiveStep(c) \/ Answers(c) \/ Refuses(c)
       PROVE  timeouts' \in {timeouts, timeouts + 1}
  BY <1>1 DEF LiveStep, Refused, Waits, Asks, Explained, Answers, Refuses, Over, Fault
<1>2. ASSUME NEW b \in Body,
               StartsBody(b) \/ Aborts(b) \/ GraceFires(b) \/ TimesOut(b)
       PROVE  timeouts' \in {timeouts, timeouts + 1}
  BY <1>2 DEF StartsBody, Aborts, GraceFires, TimesOut
<1>3. ASSUME ReplacementStep
       PROVE  timeouts' \in {timeouts, timeouts + 1}
  BY <1>3 DEF ReplacementStep, StopsOld, Spawns, SpawnFails, Describes, Configures,
     TakeOverFails, Fault
<1>4. ASSUME RunStep \/ Closing \/ Closed
       PROVE  timeouts' \in {timeouts, timeouts + 1}
  BY <1>4 DEF RunStep, StartsRun, Finishes, TellsExit, FinishEnds, Closing, Closed
<1>5. ASSUME NEW w \in Worker, Dies(w) \/ HangsUp(w) \/ SeesEnd(w)
       PROVE  timeouts' \in {timeouts, timeouts + 1}
  BY <1>5 DEF Dies, HangsUp, SeesEnd, Fault
<1>6. ASSUME UNCHANGED vars PROVE timeouts' \in {timeouts, timeouts + 1}
  BY <1>6 DEF vars
<1> QED
  BY <1>1, <1>2, <1>3, <1>4, <1>5, <1>6 DEF Next, Done

(* A failed take-over is remembered for good. *)
LEMMA FatalStep == fatal \in BOOLEAN /\ [Next]_vars => fatal' \in BOOLEAN
<1> SUFFICES ASSUME fatal \in BOOLEAN, [Next]_vars PROVE fatal' \in BOOLEAN
  OBVIOUS
<1> USE DEF host
<1>1. ASSUME NEW c \in Caller, LiveStep(c) \/ Answers(c) \/ Refuses(c)
       PROVE  fatal' \in BOOLEAN
  BY <1>1 DEF LiveStep, Refused, Waits, Asks, Explained, Answers, Refuses, Over, Fault
<1>2. ASSUME NEW b \in Body,
               StartsBody(b) \/ Aborts(b) \/ GraceFires(b) \/ TimesOut(b)
       PROVE  fatal' \in BOOLEAN
  BY <1>2 DEF StartsBody, Aborts, GraceFires, TimesOut
<1>3. ASSUME ReplacementStep
       PROVE  fatal' \in BOOLEAN
  BY <1>3 DEF ReplacementStep, StopsOld, Spawns, SpawnFails, Describes, Configures,
     TakeOverFails, Fault
<1>4. ASSUME RunStep \/ Closing \/ Closed
       PROVE  fatal' \in BOOLEAN
  BY <1>4 DEF RunStep, StartsRun, Finishes, TellsExit, FinishEnds, Closing, Closed
<1>5. ASSUME NEW w \in Worker, Dies(w) \/ HangsUp(w) \/ SeesEnd(w)
       PROVE  fatal' \in BOOLEAN
  BY <1>5 DEF Dies, HangsUp, SeesEnd, Fault
<1>6. ASSUME UNCHANGED vars PROVE fatal' \in BOOLEAN
  BY <1>6 DEF vars
<1> QED
  BY <1>1, <1>2, <1>3, <1>4, <1>5, <1>6 DEF Next, Done

(* The invariant is inductive. *)
LEMMA InvStep == Inv /\ [Next]_vars => Inv'
<1> SUFFICES ASSUME Inv, [Next]_vars PROVE Inv'
  OBVIOUS
<1>1. Types /\ Graced
  BY DEF Inv, TypeOK, Types
<1>2. Types' /\ Graced'
  BY <1>1, TypesStep, GracedStep
<1>3. fatal' \in BOOLEAN
  BY FatalStep DEF Inv, TypeOK
<1>4. ASSUME timeouts' = 0 PROVE Orderly'
  <2>1. timeouts = 0
    BY <1>1, <1>4, TimeoutsStep DEF Types, RunTyped
  <2> QED
    BY <1>1, <1>4, <2>1, OrderlyStep DEF Inv
<1> QED
  BY <1>2, <1>3, <1>4 DEF Inv, TypeOK, Types

LEMMA InvHolds == Spec => []Inv
<1>1. Init => Inv
  BY InitHolds
<1>2. Inv /\ [Next]_vars => Inv'
  BY InvStep
<1> QED
  BY <1>1, <1>2, PTL DEF Spec

-----------------------------------------------------------------------------
(* The host's variables keep to their types (host.ts). *)
THEOREM TypeCorrect == Spec => []TypeOK
<1>1. Inv => TypeOK
  BY DEF Inv
<1> QED
  BY <1>1, InvHolds, PTL

(* A body is only ever asked of a worker that is configured as the body's   *)
(* own run is (host.ts:583).                                                *)
LEMMA Served == Inv => ServedByConfigured
<1> SUFFICES ASSUME Inv, timeouts = 0, NEW b \in Body, at[b] = "asked"
             PROVE  conf[on[b]] = run /\ stage = "bodies"
  BY DEF ServedByConfigured
<1> QED
  BY DEF Inv, Orderly, Callers, Serving, Caller, InFlight

(* At most one worker process is alive, and none when the host is closed    *)
(* (host.ts:568,842).                                                       *)
LEMMA AccountedFor == Inv => WorkersAreAccountedFor
<1> SUFFICES ASSUME Inv, timeouts = 0
             PROVE  LET alive == {w \in Worker : proc[w] = "alive"}
                    IN  Cardinality(alive) <= 1 /\ (stage = "closed" => alive = {})
  BY DEF WorkersAreAccountedFor
<1> DEFINE alive == {w \in Worker : proc[w] = "alive"}
<1>1. Replacing /\ HostTyped
  BY DEF Inv, Orderly, TypeOK
<1>2. PICK v : alive \subseteq {v}
  <2>1. CASE proc[worker] = "alive"
    <3>1. replacing.w = 0 \/ replacing.w \notin Worker
      BY <1>1, <2>1 DEF Replacing, HostTyped
    <3> QED
      BY <1>1, <3>1 DEF Replacing, Worker
  <2>2. CASE proc[worker] # "alive"
    BY <1>1, <2>2 DEF Replacing
  <2> QED
    BY <2>1, <2>2
<1>3. Cardinality(alive) <= 1
  <2>1. IsFiniteSet({v}) /\ Cardinality({v}) = 1
    BY FS_Singleton
  <2>2. Cardinality(alive) <= Cardinality({v})
    BY <1>2, <2>1, FS_Subset
  <2> QED
    BY <2>1, <2>2
<1>4. stage = "closed" => alive = {}
  BY <1>1 DEF Replacing, HostTyped, Worker
<1> QED
  BY <1>3, <1>4

(* The one worker there is serves the run it is configured for, as long as  *)
(* no body was left behind (host.ts).                                       *)
THEOREM OneWorkerServes == Spec => []OneWorkerServesTheRun
<1>1. Inv => OneWorkerServesTheRun
  BY Served, AccountedFor DEF OneWorkerServesTheRun
<1> QED
  BY <1>1, InvHolds, PTL
=============================================================================
