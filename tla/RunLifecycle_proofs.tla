------------------------ MODULE RunLifecycle_proofs ------------------------
(***************************************************************************)
(* What holds of a run however many processes meet on it, are killed, or   *)
(* have a lock lapse under them: its compensations are walked at most once *)
(* and its ending stands.                                                  *)
(*                                                                         *)
(* Neither rests on the cancel lock.  A walk is preceded by the swap that  *)
(* made the record `cancelling`, no swap leads back from there, so at most *)
(* one process is ever on its way to walk.                                 *)
(*                                                                         *)
(* That nobody drives or settles a run under another's hands does rest on  *)
(* the locks, and so on no live holder being held up past its TTL: what    *)
(* the last part proves, it proves for as long as `stalls` is 0.           *)
(***************************************************************************)
EXTENDS RunLifecycle, TLAPS

(* Won the swap to `cancelling`, and has not walked yet. *)
ToWalk == {p \in Proc : pc[p] \in {"unwinding", "walking"}}

Live == {"none", "running", "suspended"}

(* Before the swap nobody is to walk or has walked, after it one is or has. *)
OneWalk ==
  /\ status \in Live => walks = 0 /\ ToWalk = {}
  /\ walks # 0 => walks = 1 /\ ToWalk = {}
  /\ \A p, q \in ToWalk : p = q

(* Until its first process has opened the run, no other is about it. *)
OneOpener ==
  /\ \A p \in Proc : pc[p] = "opening" => status = "none" /\ lease.by = p
  /\ status = "none" => \A p \in Proc : pc[p] \in {"idle", "opening", "dead"}

IInv == TypeOK /\ OneWalk /\ OneOpener

(* What can be done to a lock makes a lock of it. *)
LEMMA Locks ==
  /\ Free \in Lock
  /\ \A p \in Proc : HeldBy(p) \in Lock
  /\ \A lock \in Lock, p \in Proc : Released(lock, p) \in Lock
  /\ \A lock \in Lock : [lock EXCEPT !.lapsed = TRUE] \in Lock
  BY DEF Lock, Free, HeldBy, Released

LEMMA InitEstablishes == Init => IInv
<1> SUFFICES ASSUME Init PROVE IInv
  OBVIOUS
<1>1. TypeOK
  <2>1. pc \in [Proc -> PC] /\ terminal \in [Proc -> {"cancelled", "failed"}]
    BY DEF Init, PC
  <2>2. stalls \in 0 .. MaxStalls /\ walks \in Nat
    BY BoundsAssumption DEF Init
  <2> QED
    BY <2>1, <2>2, Locks DEF Init, TypeOK, Status
<1>2. OneWalk
  <2>1. ToWalk = {}
    BY DEF Init, ToWalk
  <2> QED
    BY <2>1 DEF Init, OneWalk
<1>3. OneOpener
  BY DEF Init, OneOpener
<1> QED
  BY <1>1, <1>2, <1>3 DEF IInv

-----------------------------------------------------------------------------
(* Types, one group of processes at a time. *)

LEMMA DriverTypes ==
  ASSUME TypeOK, NEW p \in Proc,
         \/ Start(p) \/ Opens(p) \/ TakesRunLock(p) \/ GatePasses(p) \/ Finishes(p)
         \/ Suspends(p) \/ Notices(p) \/ StopsLost(p) \/ Cancels(p) \/ Marks(p)
         \/ Unwinds(p) \/ Closes(p) \/ FreesLocks(p) \/ Leaves(p) \/ LosesLease(p)
  PROVE  TypeOK'
<1> USE DEF TypeOK, Goto, recordVars, clockVars, lockVars, jobVars, PC, Working, Resuming,
            Settling, Sweeping, Status, Terminal
<1>1. CASE Start(p) \/ Opens(p) \/ TakesRunLock(p) \/ GatePasses(p)
  BY <1>1, Locks DEF Start, Opens, TakesRunLock, GatePasses
<1>2. CASE Finishes(p)
  BY <1>2, Locks DEF Finishes
<1>3. CASE Suspends(p)
  BY <1>3, Locks DEF Suspends
<1>4. CASE Notices(p) \/ StopsLost(p)
  BY <1>4, Locks DEF Notices, StopsLost
<1>5. CASE Cancels(p) \/ Marks(p)
  BY <1>5, Locks DEF Cancels, Marks
<1>6. CASE Unwinds(p) \/ Closes(p)
  BY <1>6, Locks DEF Unwinds, Closes
<1>9. CASE FreesLocks(p)
  <2>1. cancelLock' \in Lock /\ runLock' \in BOOLEAN
    BY <1>9, Locks DEF FreesLocks
  <2> QED
    BY <1>9, <2>1 DEF FreesLocks
<1>7. CASE Leaves(p)
  BY <1>7, Locks DEF Leaves
<1>8. CASE LosesLease(p)
  BY <1>8, Locks DEF LosesLease
<1> QED
  BY <1>1, <1>2, <1>3, <1>4, <1>5, <1>6, <1>7, <1>8, <1>9

LEMMA OutsiderTypes ==
  ASSUME TypeOK, NEW p \in Proc,
         \/ LoadsSuspended(p) \/ ClaimsRun(p) \/ Resumes(p) \/ FailsTimedOut(p)
         \/ BeginsSettling(p) \/ TakesCancelLock(p) \/ Transitions(p) \/ Recovers(p)
         \/ Walks(p) \/ AsksForOwner(p) \/ Finalizes(p)
         \/ SeesRunning(p) \/ ClaimsAbandoned(p) \/ HandsBack(p) \/ SettlesLate(p)
  PROVE  TypeOK'
<1> USE DEF TypeOK, Goto, recordVars, clockVars, lockVars, jobVars, PC, Working, Resuming,
            Settling, Sweeping, Status, Terminal
<1>1. CASE LoadsSuspended(p)
  BY <1>1, Locks DEF LoadsSuspended
<1>2. CASE ClaimsRun(p) \/ Resumes(p) \/ FailsTimedOut(p)
  BY <1>2, Locks DEF ClaimsRun, Resumes, FailsTimedOut
<1>3. CASE BeginsSettling(p) \/ TakesCancelLock(p)
  BY <1>3, Locks DEF BeginsSettling, TakesCancelLock
<1>4. CASE Transitions(p)
  BY <1>4, Locks DEF Transitions
<1>5. CASE Recovers(p)
  BY <1>5, Locks DEF Recovers
<1>6. CASE Walks(p) \/ AsksForOwner(p)
  BY <1>6, Locks DEF Walks, AsksForOwner
<1>7. CASE Finalizes(p)
  BY <1>7, Locks DEF Finalizes
<1>8. CASE SeesRunning(p) \/ ClaimsAbandoned(p)
  BY <1>8, Locks DEF SeesRunning, ClaimsAbandoned
<1>9. CASE HandsBack(p) \/ SettlesLate(p)
  BY <1>9, Locks DEF HandsBack, SettlesLate
<1> QED
  BY <1>1, <1>2, <1>3, <1>4, <1>5, <1>6, <1>7, <1>8, <1>9

LEMMA EnvironmentTypes ==
  ASSUME TypeOK,
         \/ DeadlinePasses \/ GateExpires \/ LeaseLapses \/ CancelLockLapses
         \/ \E p \in Proc : Crash(p) \/ Renews(p)
  PROVE  TypeOK'
<1> USE DEF TypeOK, recordVars, clockVars, lockVars, jobVars, PC
<1>1. CASE DeadlinePasses \/ GateExpires
  BY <1>1, Locks DEF DeadlinePasses, GateExpires
<1>2. CASE LeaseLapses \/ CancelLockLapses
  BY <1>2, Locks, BoundsAssumption DEF LeaseLapses, CancelLockLapses, Lapses
<1>3. ASSUME NEW p \in Proc, Crash(p) PROVE TypeOK'
  BY <1>3, Locks DEF Crash
<1>4. ASSUME NEW p \in Proc, Renews(p) PROVE TypeOK'
  BY <1>4, Locks DEF Renews
<1> QED
  BY <1>1, <1>2, <1>3, <1>4
-----------------------------------------------------------------------------
(* The two facts beside the types. *)

(* A process that goes on without being on its way to a walk, and without   *)
(* bringing the run back to life.                                           *)
LEMMA OffTheWalk ==
  ASSUME IInv, TypeOK', NEW p \in Proc, NEW to,
         pc' = [pc EXCEPT ![p] = to], to \notin {"opening", "unwinding", "walking"},
         UNCHANGED walks, status # "none", status' # "none",
         status' \in Live => status \in Live
  PROVE  IInv'
<1>1. ToWalk' \subseteq ToWalk
  BY DEF ToWalk, IInv, TypeOK
<1>2. OneWalk'
  BY <1>1 DEF OneWalk, IInv
<1>3. OneOpener'
  BY DEF OneOpener, IInv, TypeOK
<1> QED
  BY <1>2, <1>3 DEF IInv

(* Steps that leave the processes and the status where they are. *)
LEMMA OnlyAround ==
  ASSUME IInv, TypeOK', UNCHANGED <<status, walks, pc>>, lease'.by = lease.by
  PROVE  IInv'
  BY DEF IInv, OneWalk, OneOpener, ToWalk

(* A process in a command works on a run that has been opened. *)
LEMMA Opened ==
  ASSUME IInv, NEW p \in Proc, pc[p] \notin {"idle", "opening", "dead"}
  PROVE  status # "none"
  BY DEF IInv, OneOpener

(* Steps that neither walk nor decide to. *)
LEMMA DriverSteps ==
  ASSUME IInv, TypeOK', NEW p \in Proc,
         \/ Opens(p) \/ Finishes(p) \/ Suspends(p) \/ Notices(p) \/ StopsLost(p)
         \/ Cancels(p) \/ Closes(p) \/ FreesLocks(p) \/ Leaves(p)
  PROVE  IInv'
<1> USE DEF Goto, recordVars, clockVars, lockVars, jobVars, Live, Terminal
<1>1. CASE Opens(p)
  BY <1>1 DEF Opens, IInv, TypeOK, OneWalk, OneOpener, ToWalk
<1>2. CASE Finishes(p)
  BY <1>2, Opened, OffTheWalk DEF Finishes
<1>3. CASE Suspends(p)
  BY <1>3, Opened, OffTheWalk DEF Suspends
<1>4. CASE Notices(p)
  BY <1>4, Opened, OffTheWalk DEF Notices
<1>5. CASE StopsLost(p)
  BY <1>5, Opened, OffTheWalk DEF StopsLost, Working
<1>6. CASE Cancels(p)
  BY <1>6, Opened, OffTheWalk DEF Cancels
<1>7. CASE Closes(p)
  BY <1>7, Opened, OffTheWalk DEF Closes
<1>8. CASE FreesLocks(p)
  BY <1>8, Opened, OffTheWalk DEF FreesLocks
<1>9. CASE Leaves(p)
  BY <1>9, Opened, OffTheWalk DEF Leaves
<1> QED
  BY <1>1, <1>2, <1>3, <1>4, <1>5, <1>6, <1>7, <1>8, <1>9

LEMMA ResumerSteps ==
  ASSUME IInv, TypeOK', NEW p \in Proc,
         \/ LoadsSuspended(p) \/ ClaimsRun(p) \/ Resumes(p) \/ FailsTimedOut(p)
         \/ SeesRunning(p) \/ ClaimsAbandoned(p) \/ HandsBack(p) \/ SettlesLate(p)
  PROVE  IInv'
<1> USE DEF Goto, recordVars, clockVars, lockVars, jobVars, Live
<1>1. CASE LoadsSuspended(p)
  BY <1>1, OffTheWalk DEF LoadsSuspended
<1>2. CASE ClaimsRun(p)
  BY <1>2, Opened, OffTheWalk DEF ClaimsRun
<1>3. CASE Resumes(p)
  BY <1>3, Opened, OffTheWalk DEF Resumes
<1>4. CASE FailsTimedOut(p)
  BY <1>4, Opened, OffTheWalk DEF FailsTimedOut
<1>5. CASE SeesRunning(p)
  BY <1>5, OffTheWalk DEF SeesRunning
<1>6. CASE ClaimsAbandoned(p)
  BY <1>6, Opened, OffTheWalk DEF ClaimsAbandoned
<1>7. CASE HandsBack(p)
  BY <1>7, Opened, OffTheWalk DEF HandsBack
<1>8. CASE SettlesLate(p)
  BY <1>8, Opened, OffTheWalk DEF SettlesLate
<1> QED
  BY <1>1, <1>2, <1>3, <1>4, <1>5, <1>6, <1>7, <1>8

LEMMA SettlerSteps ==
  ASSUME IInv, TypeOK', NEW p \in Proc,
         \/ BeginsSettling(p) \/ TakesCancelLock(p) \/ Recovers(p) \/ AsksForOwner(p)
         \/ Finalizes(p)
  PROVE  IInv'
<1> USE DEF Goto, recordVars, clockVars, lockVars, jobVars, Live, Terminal
<1>1. CASE BeginsSettling(p)
  BY <1>1, OffTheWalk DEF BeginsSettling
<1>2. CASE TakesCancelLock(p)
  BY <1>2, Opened, OffTheWalk DEF TakesCancelLock
<1>3. CASE Recovers(p)
  BY <1>3, Opened, OffTheWalk DEF Recovers
<1>4. CASE AsksForOwner(p)
  BY <1>4, Opened, OffTheWalk DEF AsksForOwner
<1>5. CASE Finalizes(p)
  <2>1. status # "none" /\ status' \notin Live
    BY <1>5, Opened DEF Finalizes, IInv, TypeOK
  <2> QED
    BY <1>5, <2>1, OffTheWalk DEF Finalizes
<1> QED
  BY <1>1, <1>2, <1>3, <1>4, <1>5

(* The swap to `cancelling`: whoever wins it is the only one to walk.       *)
LEMMA SwapSteps ==
  ASSUME IInv, TypeOK', NEW p \in Proc, Marks(p) \/ Transitions(p)
  PROVE  IInv'
<1>1. status # "none"
  BY Opened DEF Marks, Transitions, Goto
<1>2. CASE status \in {"running", "suspended"}
  <2>1. ToWalk = {} /\ walks = 0
    BY <1>2 DEF IInv, OneWalk, Live
  <2>2. ToWalk' \subseteq {p}
    BY <1>2, <2>1 DEF Marks, Transitions, Goto, ToWalk, IInv, TypeOK
  <2>3. status' = "cancelling" /\ walks' = 0
    BY <1>2, <2>1 DEF Marks, Transitions
  <2>4. OneWalk'
    BY <2>2, <2>3 DEF OneWalk, Live
  <2>5. OneOpener'
    BY <1>1, <2>3 DEF Marks, Transitions, Goto, OneOpener, IInv, TypeOK
  <2> QED
    BY <2>4, <2>5 DEF IInv
<1>3. CASE status \notin {"running", "suspended"}
  BY <1>1, <1>3, OffTheWalk DEF Marks, Transitions, Goto, Live
<1> QED
  BY <1>2, <1>3

(* The walk itself. *)
LEMMA WalkSteps ==
  ASSUME IInv, TypeOK', NEW p \in Proc, Unwinds(p) \/ Walks(p)
  PROVE  IInv'
<1>1. p \in ToWalk /\ status' = status /\ walks' = walks + 1
  BY DEF Unwinds, Walks, Goto, ToWalk, recordVars
<1>2. walks = 0 /\ status \notin Live /\ ToWalk \subseteq {p}
  BY <1>1 DEF IInv, OneWalk
<1>3. ToWalk' = {}
  BY <1>2 DEF Unwinds, Walks, Goto, ToWalk, IInv, TypeOK
<1>4. OneWalk'
  BY <1>1, <1>2, <1>3 DEF OneWalk
<1>5. OneOpener'
  BY <1>1, <1>2 DEF Unwinds, Walks, Goto, OneOpener, IInv, TypeOK, Live
<1> QED
  BY <1>4, <1>5 DEF IInv

LEMMA StartStep ==
  ASSUME IInv, TypeOK', NEW p \in Proc, Start(p)
  PROVE  IInv'
<1>1. lease.by = NoOne /\ lease'.by = p
  BY DEF Start, Free, HeldBy
<1>2. \A q \in Proc : pc[q] # "opening"
  BY <1>1, NoOneAssumption DEF IInv, OneOpener
<1>3. OneOpener'
  BY <1>1, <1>2 DEF Start, Goto, OneOpener, IInv, TypeOK, recordVars
<1>4. ToWalk' \subseteq ToWalk
  BY DEF Start, Goto, ToWalk, IInv, TypeOK
<1>5. OneWalk'
  BY <1>4 DEF Start, OneWalk, IInv, recordVars
<1> QED
  BY <1>3, <1>5 DEF IInv

LEMMA EnvironmentSteps ==
  ASSUME IInv, TypeOK',
         \/ DeadlinePasses \/ GateExpires \/ LeaseLapses \/ CancelLockLapses
         \/ \E p \in Proc : TakesRunLock(p) \/ GatePasses(p) \/ LosesLease(p) \/ Renews(p)
         \/ \E p \in Proc : Crash(p)
  PROVE  IInv'
<1> USE DEF recordVars, clockVars, lockVars, jobVars
<1>1. CASE DeadlinePasses \/ GateExpires \/ LeaseLapses \/ CancelLockLapses
  BY <1>1, OnlyAround DEF DeadlinePasses, GateExpires, LeaseLapses, CancelLockLapses, IInv,
     TypeOK, Lock
<1>2. ASSUME NEW p \in Proc, TakesRunLock(p) \/ GatePasses(p) \/ LosesLease(p) \/ Renews(p)
      PROVE  IInv'
  BY <1>2, OnlyAround DEF TakesRunLock, GatePasses, LosesLease, Renews, HeldBy
<1>3. ASSUME NEW p \in Proc, Crash(p) PROVE IInv'
  <2>1. ToWalk' \subseteq ToWalk
    BY <1>3 DEF Crash, ToWalk, IInv, TypeOK
  <2>2. OneWalk'
    BY <1>3, <2>1 DEF Crash, OneWalk, IInv
  <2>3. OneOpener'
    BY <1>3 DEF Crash, OneOpener, IInv, TypeOK
  <2> QED
    BY <2>2, <2>3 DEF IInv
<1> QED
  BY <1>1, <1>2, <1>3

LEMMA StepPreserves == IInv /\ [Next]_vars => IInv'
<1> SUFFICES ASSUME IInv, [Next]_vars PROVE IInv'
  OBVIOUS
<1>1. CASE UNCHANGED vars
  BY <1>1 DEF vars, recordVars, clockVars, lockVars, jobVars, IInv, TypeOK, OneWalk,
     OneOpener, ToWalk
<1>2. CASE \E p \in Proc : Begins(p)
  BY <1>2, DriverTypes, OutsiderTypes, StartStep, ResumerSteps, SettlerSteps
  DEF Begins, IInv
<1>3. CASE \E p \in Proc : Continues(p)
  BY <1>3, DriverTypes, OutsiderTypes, DriverSteps, ResumerSteps, SettlerSteps, SwapSteps,
     WalkSteps
  DEF Continues, IInv
<1>4. CASE \E p \in Proc : TakesRunLock(p) \/ GatePasses(p) \/ LosesLease(p)
  BY <1>4, DriverTypes, EnvironmentSteps DEF IInv
<1>5. CASE \/ DeadlinePasses \/ GateExpires \/ LeaseLapses \/ CancelLockLapses
           \/ \E p \in Proc : Renews(p) \/ Crash(p)
  BY <1>5, EnvironmentTypes, EnvironmentSteps DEF IInv
<1> QED
  BY <1>1, <1>2, <1>3, <1>4, <1>5 DEF Next, Over

(* Every variable keeps its type.                                           *)
THEOREM LifecycleTyped == Spec => []TypeOK
<1>1. IInv => TypeOK
  BY DEF IInv
<1> QED
  BY <1>1, InitEstablishes, StepPreserves, PTL DEF Spec

(* The compensations of a run are walked at most once, however many         *)
(* processes cancel, sweep and recover it, die, or lose their locks to      *)
(* others without knowing.                                                  *)
THEOREM WalkedAtMostOnce == Spec => []CompensatedOnce
<1>1. IInv => CompensatedOnce
  BY DEF IInv, OneWalk, CompensatedOnce
<1> QED
  BY <1>1, InitEstablishes, StepPreserves, PTL DEF Spec

-----------------------------------------------------------------------------
(* A step taken while the run has ended leaves its status.                  *)
LEMMA EndedStep ==
  ASSUME IInv, [Next]_vars, status \in Terminal
  PROVE  status' = status
<1> USE DEF recordVars, clockVars, lockVars, jobVars
<1>1. ASSUME NEW p \in Proc, Begins(p) PROVE status' = status
  BY <1>1 DEF Begins, Start, LoadsSuspended, BeginsSettling, SeesRunning
<1>2. ASSUME NEW p \in Proc,
             \/ Opens(p) \/ Finishes(p) \/ Suspends(p) \/ Notices(p) \/ StopsLost(p)
             \/ Cancels(p) \/ Marks(p) \/ Unwinds(p) \/ Closes(p) \/ FreesLocks(p)
             \/ Leaves(p)
      PROVE  status' = status
  <2>1. pc[p] # "opening"
    BY DEF IInv, OneOpener, Terminal
  <2> QED
    BY <1>2, <2>1 DEF Opens, Goto, Finishes, Suspends, Notices, StopsLost, Cancels, Marks,
       Unwinds, Closes, FreesLocks, Leaves, Terminal
<1>3. ASSUME NEW p \in Proc,
             \/ ClaimsRun(p) \/ Resumes(p) \/ FailsTimedOut(p)
             \/ TakesCancelLock(p) \/ Transitions(p) \/ Recovers(p) \/ Walks(p)
             \/ AsksForOwner(p) \/ Finalizes(p)
             \/ ClaimsAbandoned(p) \/ HandsBack(p) \/ SettlesLate(p)
      PROVE  status' = status
  BY <1>3 DEF ClaimsRun, Resumes, FailsTimedOut, TakesCancelLock, Transitions, Recovers,
     Walks, AsksForOwner, Finalizes, ClaimsAbandoned, HandsBack, SettlesLate, Terminal
<1>4. ASSUME NEW p \in Proc, Continues(p) PROVE status' = status
  BY <1>2, <1>3, <1>4 DEF Continues
<1>5. ASSUME NEW p \in Proc,
             TakesRunLock(p) \/ GatePasses(p) \/ LosesLease(p) \/ Renews(p) \/ Crash(p)
      PROVE  status' = status
  BY <1>5 DEF TakesRunLock, GatePasses, LosesLease, Renews, Crash
<1>6. CASE DeadlinePasses \/ GateExpires \/ LeaseLapses \/ CancelLockLapses \/ Over
  BY <1>6 DEF DeadlinePasses, GateExpires, LeaseLapses, CancelLockLapses, Over, vars
<1> QED
  BY <1>1, <1>4, <1>5, <1>6 DEF Next, vars

(* Whatever a run ended as, it stays: no settler, sweep, resumer or owner   *)
(* that was taken over without knowing gives it another ending.             *)
THEOREM EndingsStandFinal == Spec => EndingsAreFinal
<1>1. IInv /\ [Next]_vars => [~(status \in Terminal /\ status' # status)]_vars
  BY EndedStep
<1> QED
  BY <1>1, InitEstablishes, StepPreserves, PTL DEF Spec, EndingsAreFinal
-----------------------------------------------------------------------------
(* While no live holder of a lock has been held up past the TTL.           *)

(* Where a process drives the run or decides about it under the run's lease *)
(* or under the cancel lock.                                                *)
Owning == Working \cup {"opening", "claimed", "held", "freeing"}
Claiming == {"marking", "unwinding", "closing", "locked", "walking", "asking", "finalizing"}

(* Who is at such a place holds the lock, and only the dead lose theirs.    *)
LocksHold ==
  /\ \A p \in Proc : pc[p] \in Owning => lease.by = p
  /\ \A p \in Proc : pc[p] \in Claiming => cancelLock.by = p
  /\ lease.lapsed => \A p \in Proc : lease.by = p => pc[p] = "dead"
  /\ cancelLock.lapsed => \A p \in Proc : cancelLock.by = p => pc[p] = "dead"

NobodyWorks == \A p \in Proc : pc[p] \notin Working

(* A sweep that settles a run out of time keeps the lease until the walk.   *)
LateSettlersHold ==
  \A p \in Proc : terminal[p] = "failed" =>
    /\ pc[p] \in Settling \cup {"leaving"}
    /\ pc[p] \in {"settling", "locked", "walking"} => lease.by = p

(* Nobody works on a parked run, nor on one whose locks are to be given     *)
(* back; and a walk ends before the cancellation does.                      *)
LeftInPeace ==
  /\ status = "suspended" => NobodyWorks
  /\ frees # {} => NobodyWorks
  /\ \A p \in frees : pc[p] \in {"walking", "finalizing", "leaving"} /\ status \notin Live
  /\ \A p \in Proc : pc[p] \in {"walking", "asking", "finalizing"} => status \notin Live
  /\ \A p \in ToWalk : status = "cancelling"

Quiet == LocksHold /\ LateSettlersHold /\ LeftInPeace

Unstalled == stalls = 0 => Quiet

LEMMA QuietInit == Init => Unstalled
<1> SUFFICES ASSUME Init PROVE Quiet
  BY DEF Unstalled
<1> QED
  BY DEF Init, Quiet, LocksHold, LateSettlersHold, LeftInPeace, NobodyWorks, ToWalk, Owning,
     Claiming, Working, Free

-----------------------------------------------------------------------------
(* The steps of a command, for each of the three facts in turn. *)

(* No live process loses a lock, and nobody takes a place that needs one    *)
(* without taking it.                                                       *)
LEMMA LocksCommandSteps ==
  ASSUME IInv, Quiet, NEW p \in Proc, Begins(p) \/ Continues(p)
  PROVE  LocksHold'
<1> USE NoOneAssumption
    DEF IInv, TypeOK, Quiet, LocksHold, Goto, recordVars, clockVars, lockVars, jobVars, Lock,
        Free, HeldBy, Released, available, Owning, Claiming, PC, Working, Resuming, Settling,
        Sweeping
<1>1. CASE Start(p) \/ LoadsSuspended(p) \/ BeginsSettling(p) \/ SeesRunning(p)
  BY <1>1 DEF Start, LoadsSuspended, BeginsSettling, SeesRunning
<1>2. CASE Opens(p) \/ Finishes(p) \/ Suspends(p) \/ Notices(p) \/ StopsLost(p)
  BY <1>2 DEF Opens, Finishes, Suspends, Notices, StopsLost
<1>3. CASE Cancels(p) \/ Marks(p) \/ Unwinds(p) \/ Closes(p)
  BY <1>3 DEF Cancels, Marks, Unwinds, Closes
<1>4. CASE FreesLocks(p)
  BY <1>4 DEF FreesLocks
<1>5. CASE Leaves(p)
  BY <1>5 DEF Leaves
<1>6. CASE ClaimsRun(p) \/ Resumes(p) \/ FailsTimedOut(p)
  BY <1>6 DEF ClaimsRun, Resumes, FailsTimedOut
<1>7. CASE TakesCancelLock(p) \/ Transitions(p)
  BY <1>7 DEF TakesCancelLock, Transitions
<1>8. CASE Recovers(p) \/ Walks(p) \/ AsksForOwner(p) \/ Finalizes(p)
  BY <1>8 DEF Recovers, Walks, AsksForOwner, Finalizes
<1>9. CASE ClaimsAbandoned(p) \/ HandsBack(p)
  BY <1>9 DEF ClaimsAbandoned, HandsBack
<1>10. CASE SettlesLate(p)
  BY <1>10 DEF SettlesLate
<1> QED
  BY <1>1, <1>2, <1>3, <1>4, <1>5, <1>6, <1>7, <1>8, <1>9, <1>10 DEF Begins, Continues

LEMMA LateCommandSteps ==
  ASSUME IInv, Quiet, NEW p \in Proc, Begins(p) \/ Continues(p)
  PROVE  LateSettlersHold'
<1> USE NoOneAssumption
    DEF IInv, TypeOK, Quiet, LocksHold, LateSettlersHold, Goto, recordVars, clockVars,
        lockVars, jobVars, Lock, Free, HeldBy, Released, available, Owning, PC, Working, Resuming,
        Settling, Sweeping
<1>1. CASE Start(p) \/ LoadsSuspended(p) \/ BeginsSettling(p) \/ SeesRunning(p)
  BY <1>1 DEF Start, LoadsSuspended, BeginsSettling, SeesRunning
<1>2. CASE Opens(p) \/ Finishes(p) \/ Suspends(p) \/ Notices(p) \/ StopsLost(p)
  BY <1>2 DEF Opens, Finishes, Suspends, Notices, StopsLost
<1>3. CASE Cancels(p) \/ Marks(p) \/ Unwinds(p) \/ Closes(p)
  BY <1>3 DEF Cancels, Marks, Unwinds, Closes
<1>4. CASE FreesLocks(p)
  BY <1>4 DEF FreesLocks
<1>5. CASE Leaves(p)
  BY <1>5 DEF Leaves
<1>6. CASE ClaimsRun(p) \/ Resumes(p) \/ FailsTimedOut(p)
  BY <1>6 DEF ClaimsRun, Resumes, FailsTimedOut
<1>7. CASE TakesCancelLock(p) \/ Transitions(p)
  BY <1>7 DEF TakesCancelLock, Transitions
<1>8. CASE Recovers(p) \/ Walks(p) \/ AsksForOwner(p) \/ Finalizes(p)
  BY <1>8 DEF Recovers, Walks, AsksForOwner, Finalizes
<1>9. CASE ClaimsAbandoned(p) \/ HandsBack(p)
  BY <1>9 DEF ClaimsAbandoned, HandsBack
<1>10. CASE SettlesLate(p)
  BY <1>10 DEF SettlesLate
<1> QED
  BY <1>1, <1>2, <1>3, <1>4, <1>5, <1>6, <1>7, <1>8, <1>9, <1>10 DEF Begins, Continues

(* Only an owner that is alone parks the run, only a resume works on it     *)
(* again, and whoever may give locks back has made sure of that.            *)
LEMMA PeaceCommandSteps ==
  ASSUME IInv, Quiet, NEW p \in Proc, Begins(p) \/ Continues(p)
  PROVE  LeftInPeace'
<1> USE NoOneAssumption
    DEF IInv, TypeOK, OneOpener, Quiet, LocksHold, LateSettlersHold, LeftInPeace, NobodyWorks,
        ToWalk, Goto, recordVars, clockVars, lockVars, jobVars, Live, Terminal, Lock, Free,
        HeldBy, Released, available, Owning, Claiming, PC, Working, Resuming, Settling,
        Sweeping
<1>1. CASE Start(p) \/ LoadsSuspended(p) \/ BeginsSettling(p) \/ SeesRunning(p)
  BY <1>1 DEF Start, LoadsSuspended, BeginsSettling, SeesRunning
<1>2. CASE Opens(p) \/ Finishes(p) \/ Suspends(p) \/ Notices(p) \/ StopsLost(p)
  BY <1>2 DEF Opens, Finishes, Suspends, Notices, StopsLost
<1>3. CASE Cancels(p) \/ Marks(p) \/ Unwinds(p) \/ Closes(p)
  BY <1>3 DEF Cancels, Marks, Unwinds, Closes
<1>4. CASE FreesLocks(p)
  BY <1>4 DEF FreesLocks
<1>5. CASE Leaves(p)
  BY <1>5 DEF Leaves
<1>6. CASE ClaimsRun(p) \/ Resumes(p) \/ FailsTimedOut(p)
  BY <1>6 DEF ClaimsRun, Resumes, FailsTimedOut
<1>7. CASE TakesCancelLock(p) \/ Transitions(p)
  BY <1>7 DEF TakesCancelLock, Transitions
<1>8. CASE Recovers(p) \/ Walks(p) \/ AsksForOwner(p) \/ Finalizes(p)
  BY <1>8 DEF Recovers, Walks, AsksForOwner, Finalizes
<1>9. CASE ClaimsAbandoned(p) \/ HandsBack(p)
  BY <1>9 DEF ClaimsAbandoned, HandsBack
<1>10. CASE SettlesLate(p)
  BY <1>10 DEF SettlesLate
<1> QED
  BY <1>1, <1>2, <1>3, <1>4, <1>5, <1>6, <1>7, <1>8, <1>9, <1>10 DEF Begins, Continues

-----------------------------------------------------------------------------
(* Time, failures and what leaves the command where it is: a lock lapses    *)
(* under a live holder only as a stall.                                     *)
LEMMA QuietEnvironmentSteps ==
  ASSUME IInv, Quiet, stalls = 0, stalls' = 0,
         \/ DeadlinePasses \/ GateExpires \/ LeaseLapses \/ CancelLockLapses
         \/ \E p \in Proc : \/ TakesRunLock(p) \/ GatePasses(p) \/ LosesLease(p)
                            \/ Renews(p) \/ Crash(p)
  PROVE  Quiet'
<1> USE NoOneAssumption
    DEF IInv, TypeOK, Quiet, LocksHold, LateSettlersHold, LeftInPeace, NobodyWorks, ToWalk,
        recordVars, clockVars, lockVars, jobVars, Lock, HeldBy, Owning, Claiming, Working,
        Settling, Lapses
<1>1. CASE DeadlinePasses \/ GateExpires
  BY <1>1 DEF DeadlinePasses, GateExpires
<1>2. CASE LeaseLapses \/ CancelLockLapses
  BY <1>2 DEF LeaseLapses, CancelLockLapses
<1>3. ASSUME NEW p \in Proc, TakesRunLock(p) \/ GatePasses(p) \/ LosesLease(p)
      PROVE  Quiet'
  BY <1>3 DEF TakesRunLock, GatePasses, LosesLease
<1>4. ASSUME NEW p \in Proc, Renews(p) PROVE Quiet'
  BY <1>4 DEF Renews
<1>5. ASSUME NEW p \in Proc, Crash(p) PROVE Quiet'
  BY <1>5 DEF Crash
<1> QED
  BY <1>1, <1>2, <1>3, <1>4, <1>5

(* Which steps move the status, count a walk or give the run-held lock back. *)
StatusMove(p) ==
  \/ Opens(p) \/ Finishes(p) \/ Suspends(p) \/ Marks(p) \/ Unwinds(p) \/ Closes(p)
  \/ Resumes(p) \/ FailsTimedOut(p) \/ Transitions(p) \/ Walks(p) \/ Finalizes(p)
  \/ HandsBack(p)

LockMove(p) == FreesLocks(p) \/ FailsTimedOut(p) \/ Finalizes(p)

LEMMA CommandMoves ==
  ASSUME NEW p \in Proc, Begins(p) \/ Continues(p)
  PROVE  /\ UNCHANGED <<status, walks>> \/ StatusMove(p)
         /\ UNCHANGED runLock \/ LockMove(p)
         /\ UNCHANGED stalls
<1> USE DEF recordVars, clockVars, lockVars, jobVars, StatusMove, LockMove
<1>1. CASE \/ Start(p) \/ LoadsSuspended(p) \/ BeginsSettling(p) \/ SeesRunning(p)
  BY <1>1 DEF Start, LoadsSuspended, BeginsSettling, SeesRunning
<1>2. CASE \/ Notices(p) \/ StopsLost(p) \/ Cancels(p) \/ FreesLocks(p) \/ Leaves(p)
  BY <1>2 DEF Notices, StopsLost, Cancels, FreesLocks, Leaves
<1>3. CASE \/ ClaimsRun(p) \/ TakesCancelLock(p) \/ Recovers(p) \/ AsksForOwner(p)
           \/ ClaimsAbandoned(p) \/ SettlesLate(p)
  BY <1>3 DEF ClaimsRun, TakesCancelLock, Recovers, AsksForOwner, ClaimsAbandoned, SettlesLate
<1>4. CASE \/ Opens(p) \/ Finishes(p) \/ Suspends(p) \/ Marks(p) \/ Unwinds(p) \/ Closes(p)
  BY <1>4 DEF Opens, Finishes, Suspends, Marks, Unwinds, Closes
<1>5. CASE \/ Resumes(p) \/ FailsTimedOut(p) \/ Transitions(p) \/ Walks(p) \/ Finalizes(p)
           \/ HandsBack(p)
  BY <1>5 DEF Resumes, FailsTimedOut, Transitions, Walks, Finalizes, HandsBack
<1> QED
  BY <1>1, <1>2, <1>3, <1>4, <1>5 DEF Begins, Continues

LEMMA OtherMoves ==
  ASSUME \/ DeadlinePasses \/ GateExpires \/ LeaseLapses \/ CancelLockLapses
         \/ \E p \in Proc : \/ TakesRunLock(p) \/ GatePasses(p) \/ LosesLease(p)
                            \/ Renews(p) \/ Crash(p)
         \/ UNCHANGED vars
  PROVE  /\ UNCHANGED <<status, walks>> /\ (runLock => runLock')
         /\ UNCHANGED stalls \/ stalls' = stalls + 1
<1> USE DEF recordVars, clockVars, lockVars, jobVars
<1>1. CASE DeadlinePasses \/ GateExpires \/ LeaseLapses \/ CancelLockLapses \/ UNCHANGED vars
  BY <1>1 DEF DeadlinePasses, GateExpires, LeaseLapses, CancelLockLapses, Lapses, vars
<1>2. ASSUME NEW p \in Proc, \/ TakesRunLock(p) \/ GatePasses(p) \/ LosesLease(p)
                             \/ Renews(p) \/ Crash(p)
      PROVE  UNCHANGED <<status, walks, stalls>> /\ (runLock => runLock')
  BY <1>2 DEF TakesRunLock, GatePasses, LosesLease, Renews, Crash
<1> QED
  BY <1>1, <1>2

LEMMA Moves ==
  ASSUME [Next]_vars
  PROVE  /\ UNCHANGED <<status, walks>> \/ \E p \in Proc : StatusMove(p)
         /\ (runLock => runLock') \/ \E p \in Proc : LockMove(p)
         /\ UNCHANGED stalls \/ stalls' = stalls + 1
<1>1. ASSUME NEW p \in Proc, Begins(p) \/ Continues(p)
      PROVE  /\ UNCHANGED <<status, walks>> \/ \E q \in Proc : StatusMove(q)
             /\ (runLock => runLock') \/ \E q \in Proc : LockMove(q)
             /\ UNCHANGED stalls
  BY <1>1, CommandMoves
<1>2. CASE \/ DeadlinePasses \/ GateExpires \/ LeaseLapses \/ CancelLockLapses
           \/ \E p \in Proc : \/ TakesRunLock(p) \/ GatePasses(p) \/ LosesLease(p)
                              \/ Renews(p) \/ Crash(p)
           \/ UNCHANGED vars
  BY <1>2, OtherMoves
<1> QED
  BY <1>1, <1>2 DEF Next, Over

LEMMA QuietStep == IInv /\ Unstalled /\ [Next]_vars => Unstalled'
<1> SUFFICES ASSUME IInv, Unstalled, [Next]_vars, stalls' = 0 PROVE Quiet'
  BY DEF Unstalled
<1>1. stalls = 0
  BY Moves DEF IInv, TypeOK
<1>2. Quiet
  BY <1>1 DEF Unstalled
<1>3. ASSUME NEW p \in Proc, Begins(p) \/ Continues(p) PROVE Quiet'
  BY <1>2, <1>3, LocksCommandSteps, LateCommandSteps, PeaceCommandSteps DEF Quiet
<1>4. CASE UNCHANGED vars
  BY <1>2, <1>4 DEF vars, recordVars, clockVars, lockVars, jobVars, Quiet, LocksHold,
     LateSettlersHold, LeftInPeace, NobodyWorks, ToWalk
<1>5. CASE \/ DeadlinePasses \/ GateExpires \/ LeaseLapses \/ CancelLockLapses
           \/ \E p \in Proc : \/ TakesRunLock(p) \/ GatePasses(p) \/ LosesLease(p)
                              \/ Renews(p) \/ Crash(p)
  BY <1>1, <1>2, <1>5, QuietEnvironmentSteps
<1> QED
  BY <1>3, <1>4, <1>5 DEF Next, Over

LEMMA Invariance == Spec => [](IInv /\ Unstalled)
  BY InitEstablishes, StepPreserves, QuietInit, QuietStep, PTL DEF Spec

(* As long as no live holder of the lease was held up past its TTL, no two  *)
(* processes drive the run, however many start, resume, sweep, cancel and   *)
(* die: one of them at most is where only the lease's holder can be.        *)
THEOREM OneDriverUnlessStalled == Spec => [](stalls = 0 => OneDriver)
<1>1. IInv /\ Unstalled => (stalls = 0 => OneDriver)
  BY DEF Unstalled, Quiet, LocksHold, Owning, OneDriver, Driving
<1> QED
  BY <1>1, Invariance, PTL

-----------------------------------------------------------------------------
(* Nobody moves a run from outside while it is worked on. *)

LEMMA AloneWith ==
  ASSUME Quiet, NEW p \in Proc, lease.by = p, pc[p] \notin Working
  PROVE  NobodyWorks
  BY DEF Quiet, LocksHold, Owning, NobodyWorks

(* Who gives the run-held lock back, or takes the status from `running`.    *)
LEMMA WhoFrees ==
  ASSUME IInv, Quiet, [Next]_vars, runLock, ~runLock'
  PROVE  NobodyWorks
<1> USE DEF recordVars, clockVars, lockVars, jobVars, Goto
<1>1. PICK p \in Proc : FreesLocks(p) \/ FailsTimedOut(p) \/ Finalizes(p)
  BY Moves DEF LockMove
<1>2. CASE FreesLocks(p)
  <2>1. lease.by = p /\ pc[p] \notin Working
    BY <1>2 DEF FreesLocks, Quiet, LocksHold, Owning, Working
  <2> QED
    BY <2>1, AloneWith
<1>3. CASE FailsTimedOut(p)
  BY <1>3 DEF FailsTimedOut, Quiet, LeftInPeace
<1>4. CASE Finalizes(p)
  BY <1>4 DEF Finalizes, Quiet, LeftInPeace
<1> QED
  BY <1>1, <1>2, <1>3, <1>4

LEMMA WhoStops ==
  ASSUME IInv, Quiet, [Next]_vars, status = "running", status' # status,
         NEW p \in Proc, MovesFromOutside(p), pc[p] = "held" \/ terminal[p] = "failed"
  PROVE  NobodyWorks
<1> USE DEF recordVars, clockVars, lockVars, jobVars, Goto
<1>1. PICK q \in Proc : StatusMove(q)
  BY Moves
<1>2. Finishes(q) \/ Suspends(q) \/ Marks(q) \/ Transitions(q) \/ HandsBack(q)
  <2>1. ~Opens(q) /\ ~Closes(q) /\ ~Resumes(q) /\ ~FailsTimedOut(q) /\ ~Finalizes(q)
    BY DEF Opens, Closes, Resumes, FailsTimedOut, Finalizes, IInv, OneOpener, Quiet,
           LeftInPeace, Live
  <2>2. ~Unwinds(q) /\ ~Walks(q)
    BY DEF Unwinds, Walks
  <2> QED
    BY <1>1, <2>1, <2>2 DEF StatusMove
<1>3. p = q
  BY <1>2 DEF MovesFromOutside, Finishes, Suspends, Marks, Transitions, HandsBack, IInv, TypeOK
<1>4. pc[p] \in {"held", "locked"}
  BY <1>2, <1>3 DEF MovesFromOutside, Finishes, Suspends, Marks, Transitions, HandsBack, Working
<1>5. lease.by = p
  BY <1>4 DEF Quiet, LocksHold, LateSettlersHold, Owning
<1> QED
  BY <1>5, AloneWith DEF MovesFromOutside

(* As long as nobody is held up past a TTL, the run-held lock is given back *)
(* and the run handed back or settled for its deadline only when nobody     *)
(* works on it.                                                             *)
THEOREM LiveRunsLeftAlone == Spec /\ [](stalls = 0) => LiveRunsAreLeftAlone
<1> DEFINE Alone ==
      /\ runLock /\ ~runLock' => Driving \subseteq {p \in Proc : pc'[p] # pc[p]}
      /\ status = "running" /\ status' # status =>
           \A p \in Proc :
             MovesFromOutside(p) /\ (pc[p] = "held" \/ terminal[p] = "failed")
               => Driving = {}
<1>1. IInv /\ Unstalled /\ stalls = 0 /\ [Next]_vars => [Alone]_vars
  <2> SUFFICES ASSUME IInv, Quiet, [Next]_vars PROVE Alone
    BY DEF Unstalled
  <2>1. NobodyWorks => Driving = {}
    BY DEF NobodyWorks, Driving
  <2> QED
    BY <2>1, WhoFrees, WhoStops
<1> QED
  BY <1>1, Invariance, PTL DEF Spec, LiveRunsAreLeftAlone

-----------------------------------------------------------------------------
(* The status as the guide promises it. *)

LEMMA DriverMaps ==
  ASSUME IInv, Quiet, NEW p \in Proc,
         \/ Opens(p) \/ Finishes(p) \/ Suspends(p) \/ Marks(p) \/ Unwinds(p) \/ Closes(p)
  PROVE  [Run!RunNext]_(Run!runVars)
<1> USE DEF Goto, recordVars, Run!RunNext, Run!runVars, Run!Moves
<1>1. CASE Opens(p)
  BY <1>1 DEF Opens, IInv, OneOpener, Run!OpenRun
<1>2. CASE Finishes(p) \/ Suspends(p)
  <2>1. status # "suspended"
    BY <1>2 DEF Finishes, Suspends, Quiet, LeftInPeace, NobodyWorks, Working
  <2> QED
    BY <1>2, <2>1 DEF Finishes, Suspends, Run!FinishRun, Run!ParkRun
<1>3. CASE Marks(p)
  BY <1>3 DEF Marks, Run!BeginCancel
<1>4. CASE Unwinds(p)
  BY <1>4 DEF Unwinds, IInv, OneWalk, ToWalk, Quiet, LeftInPeace, TypeOK, Run!Unwind
<1>5. CASE Closes(p)
  BY <1>5 DEF Closes, Run!EndCancel
<1> QED
  BY <1>1, <1>2, <1>3, <1>4, <1>5

LEMMA OutsiderMaps ==
  ASSUME IInv, Quiet, NEW p \in Proc,
         \/ Resumes(p) \/ FailsTimedOut(p) \/ Transitions(p) \/ Walks(p) \/ Finalizes(p)
         \/ HandsBack(p)
  PROVE  [Run!RunNext]_(Run!runVars)
<1> USE DEF Goto, recordVars, Run!RunNext, Run!runVars, Run!Moves
<1>1. CASE Resumes(p) \/ FailsTimedOut(p) \/ HandsBack(p)
  BY <1>1 DEF Resumes, FailsTimedOut, HandsBack, Run!ResumeRun, Run!TimeOutRun, Run!ParkRun
<1>2. CASE Transitions(p)
  BY <1>2 DEF Transitions, Run!BeginCancel
<1>3. CASE Walks(p)
  BY <1>3 DEF Walks, IInv, OneWalk, ToWalk, Quiet, LeftInPeace, TypeOK, Run!Unwind
<1>4. CASE Finalizes(p)
  <2>1. status \notin Live /\ terminal[p] \in {"cancelled", "failed"}
    BY <1>4 DEF Finalizes, IInv, TypeOK, Quiet, LeftInPeace
  <2>2. status = "cancelling" \/ status \in Terminal
    BY <2>1 DEF IInv, TypeOK, Status, Live
  <2> QED
    BY <1>4, <2>1, <2>2 DEF Finalizes, Run!EndCancel
<1> QED
  BY <1>1, <1>2, <1>3, <1>4

(* As long as nobody is held up past a TTL, all the processes together move *)
(* the status the way RunStatus says: every step is one of its steps or     *)
(* none.                                                                    *)
THEOREM RefinesRunStatus == Spec /\ [](stalls = 0) => Run!RunSafety
<1>1. Init => Run!RunInit
  BY DEF Init, Run!RunInit
<1>2. IInv /\ Unstalled /\ stalls = 0 /\ [Next]_vars => [Run!RunNext]_(Run!runVars)
  <2> SUFFICES ASSUME IInv, Quiet, [Next]_vars PROVE [Run!RunNext]_(Run!runVars)
    BY DEF Unstalled
  <2>1. UNCHANGED <<status, walks>> \/ \E p \in Proc : StatusMove(p)
    BY Moves
  <2> QED
    BY <2>1, DriverMaps, OutsiderMaps DEF StatusMove, Run!runVars
<1> QED
  BY <1>1, <1>2, Invariance, PTL DEF Spec, Run!RunSafety
=============================================================================
