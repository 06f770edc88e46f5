--------------------------- MODULE RunLifecycle ---------------------------
(***************************************************************************)
(* One run and every process that moves it: the process that started it,   *)
(* resumers (resume.ts), operators cancelling it (cancel.ts), sweeps that  *)
(* reap it or settle it (reap.ts), and the process's own cancellation      *)
(* (execute_cancel.ts).  They meet in the store: the record's status, the  *)
(* run's lease and its cancel lock (state/run_lease.ts,                    *)
(* state/cancel_lock.ts).                                                  *)
(*                                                                         *)
(* A process runs one command at a time; `pc` is where in it.  Each step   *)
(* is one call of the store.  The compare-and-swap loops re-read until     *)
(* they meet the stored record, so a status change is one step that looks  *)
(* at the status it replaces.  What a record says beside its status, and   *)
(* store calls that throw, are RecordWriter's subject.                     *)
(*                                                                         *)
(* A lock lapses when its holder died, or when a live holder's heartbeat   *)
(* was held up for longer than the TTL (a stall).                          *)
(***************************************************************************)
EXTENDS Naturals, FiniteSets

CONSTANTS
  Proc,          \* processes
  NoOne,         \* nobody: the holder of a free lock
  Dispositions,  \* what the gate's timeout may ask for
  MaxCrashes,    \* bound: processes killed
  MaxStalls      \* bound: locks that lapse under a live holder

ASSUME NoOneAssumption == NoOne \notin Proc
ASSUME DispositionsAssumption == Dispositions \subseteq {"fail", "cancel-run"}
ASSUME BoundsAssumption == MaxCrashes \in Nat /\ MaxStalls \in Nat

VARIABLES
  status,            \* record.status, "none" before the run is opened
  intendedTerminal,  \* record.intendedTerminal, "cancelled" when absent
  runLock,           \* a run-held lock: recorded on the run and in the store
  late,              \* past the run's deadlineAt
  gate,              \* the parked gate's deadline: "none", "open", "expired"
  onTimeout,         \* its recorded disposition
  lease,             \* the run's lease
  cancelLock,        \* the run's cancel lock
  pc,                \* where each process is in its command
  terminal,          \* what a settling process settles the run to
  byTimeout,         \* processes settling the run for an expired wait
  frees,             \* settlers that are to give the run-held lock back
  lost,              \* processes that noticed they lost the lease
  stalls,            \* bound used up
  walks              \* history: compensation walks begun

recordVars == <<status, intendedTerminal, runLock>>
clockVars == <<late, gate, onTimeout, stalls>>
lockVars == <<lease, cancelLock>>
jobVars == <<terminal, byTimeout, frees, lost>>
vars == <<recordVars, clockVars, lockVars, pc, jobVars, walks>>

Terminal == {"succeeded", "failed", "cancelled"}
Status == Terminal \cup {"none", "running", "suspended", "cancelling"}
Lock == [by : Proc \cup {NoOne}, lapsed : BOOLEAN]
Free == [by |-> NoOne, lapsed |-> FALSE]

Working == {"working", "marking", "unwinding", "closing"}
Resuming == {"loaded", "claimed", "expiring"}
Settling == {"settling", "locked", "walking", "asking", "finalizing"}
Sweeping == {"sweeping", "held"}
PC == Working \cup Resuming \cup Settling \cup Sweeping
        \cup {"idle", "opening", "freeing", "leaving", "dead"}

Init ==
  /\ status = "none" /\ intendedTerminal = "cancelled" /\ runLock = FALSE
  /\ late = FALSE /\ gate = "none" /\ onTimeout \in Dispositions /\ stalls = 0
  /\ lease = Free /\ cancelLock = Free
  /\ pc = [p \in Proc |-> "idle"]
  /\ terminal = [p \in Proc |-> "cancelled"]
  /\ byTimeout = {} /\ frees = {} /\ lost = {}
  /\ walks = 0

Goto(p, from, to) == pc[p] = from /\ pc' = [pc EXCEPT ![p] = to]

(* Mutant: a lock that is held can be taken all the same. *)
availableAlways(lock) == TRUE

(* `acquireLock` succeeds on a lock that is free or has lapsed. *)
available(lock) == lock.by = NoOne \/ lock.lapsed
HeldBy(p) == [by |-> p, lapsed |-> FALSE]

(* `releaseLock` checks the token: only the holder's own lock is dropped. *)
Released(lock, p) == IF lock.by = p THEN Free ELSE lock

-----------------------------------------------------------------------------
(* A process that executes the run (executor.ts, execute_state.ts).         *)

(* A fresh run takes its lease before its record says `running`. *)
Start(p) ==
  /\ status = "none" /\ lease = Free
  /\ Goto(p, "idle", "opening")
  /\ lease' = HeldBy(p)
  /\ UNCHANGED <<recordVars, clockVars, cancelLock, jobVars, walks>>

Opens(p) ==
  /\ Goto(p, "opening", "working")
  /\ status' = "running"
  /\ UNCHANGED <<intendedTerminal, runLock, clockVars, lockVars, jobVars, walks>>

(* A body takes a lock for the run; only a running record can carry it.     *)
TakesRunLock(p) ==
  /\ pc[p] = "working" /\ p \notin lost
  /\ status = "running" /\ ~runLock
  /\ runLock' = TRUE
  /\ UNCHANGED <<status, intendedTerminal, clockVars, lockVars, pc, jobVars, walks>>

(* The gate opened and its target settled: the wait is dropped. *)
GatePasses(p) ==
  /\ pc[p] = "working" /\ p \notin lost
  /\ gate # "none" /\ gate' = "none"
  /\ UNCHANGED <<recordVars, late, onTimeout, stalls, lockVars, pc, jobVars, walks>>

(* The plan is over.  A run that somebody else settled keeps its ending.    *)
Finishes(p) ==
  /\ p \notin lost
  /\ Goto(p, "working", "freeing")
  /\ \E s \in {"succeeded", "failed"} :
       status' = IF status \in {"running", "suspended"} THEN s ELSE status
  /\ UNCHANGED <<intendedTerminal, runLock, clockVars, lockVars, jobVars, walks>>

(* A gate parked: the record keeps the run's locks for the resume. *)
Suspends(p) ==
  /\ p \notin lost
  /\ IF status \in {"running", "suspended"}
     THEN /\ Goto(p, "working", "leaving")
          /\ status' = "suspended"
          /\ gate' \in {"open", gate} \ {"none"}
     ELSE Goto(p, "working", "freeing") /\ UNCHANGED <<status, gate>>
  /\ UNCHANGED <<intendedTerminal, runLock, late, onTimeout, stalls, lockVars, jobVars,
                 walks>>

(* A state write met a run that somebody else is settling: stop.            *)
Notices(p) ==
  /\ status \in Terminal \cup {"cancelling"}
  /\ p \notin lost
  /\ Goto(p, "working", "freeing")
  /\ UNCHANGED <<recordVars, clockVars, lockVars, jobVars, walks>>

(* The lease is somebody else's: stop, roll nothing back, settle nothing.   *)
StopsLost(p) ==
  /\ p \in lost
  /\ \E from \in Working : Goto(p, from, "leaving")
  /\ UNCHANGED <<recordVars, clockVars, lockVars, jobVars, walks>>

(* Ctrl-C, or a failure that cancels the run: claim the walk. *)
Cancels(p) ==
  /\ p \notin lost
  /\ IF available(cancelLock)
     THEN Goto(p, "working", "marking") /\ cancelLock' = HeldBy(p)
     ELSE Goto(p, "working", "freeing") /\ UNCHANGED cancelLock
  /\ UNCHANGED <<recordVars, clockVars, lease, jobVars, walks>>

Marks(p) ==
  /\ p \notin lost
  /\ IF status \in {"running", "suspended"}
     THEN Goto(p, "marking", "unwinding") /\ status' = "cancelling"
     ELSE Goto(p, "marking", "freeing") /\ UNCHANGED status
  /\ UNCHANGED <<intendedTerminal, runLock, clockVars, lockVars, jobVars, walks>>

Unwinds(p) ==
  /\ p \notin lost
  /\ Goto(p, "unwinding", "closing")
  /\ walks' = walks + 1
  /\ UNCHANGED <<recordVars, clockVars, lockVars, jobVars>>

Closes(p) ==
  /\ p \notin lost
  /\ Goto(p, "closing", "freeing")
  /\ status' = IF status = "cancelling" THEN "cancelled" ELSE status
  /\ UNCHANGED <<intendedTerminal, runLock, clockVars, lockVars, jobVars, walks>>

(* The claim on the walk goes, then the run's locks, unless the run is       *)
(* another's by now.                                                        *)
FreesLocks(p) ==
  /\ Goto(p, "freeing", "leaving")
  /\ cancelLock' = Released(cancelLock, p)
  /\ runLock' = IF p \in lost THEN runLock ELSE FALSE
  /\ UNCHANGED <<status, intendedTerminal, clockVars, lease, jobVars, walks>>

(* The `finally`s: whatever the command still holds is released. *)
Leaves(p) ==
  /\ Goto(p, "leaving", "idle")
  /\ lease' = Released(lease, p) /\ cancelLock' = Released(cancelLock, p)
  /\ terminal' = [terminal EXCEPT ![p] = "cancelled"]
  /\ byTimeout' = byTimeout \ {p} /\ frees' = frees \ {p} /\ lost' = lost \ {p}
  /\ UNCHANGED <<recordVars, clockVars, walks>>

(* A renewal: refused once another process has taken the lease.             *)
LosesLease(p) ==
  /\ pc[p] \in Working \cup {"freeing"} /\ lease.by # p /\ p \notin lost
  /\ lost' = lost \cup {p}
  /\ UNCHANGED <<recordVars, clockVars, lockVars, pc, terminal, byTimeout, frees, walks>>

-----------------------------------------------------------------------------
(* `resumeRun`. *)

(* The record is read.  A wait past its deadline times out instead.         *)
LoadsSuspended(p) ==
  /\ status = "suspended"
  /\ IF gate # "expired"
     THEN Goto(p, "idle", "loaded") /\ UNCHANGED byTimeout
     ELSE IF onTimeout = "fail"
     THEN Goto(p, "idle", "expiring") /\ UNCHANGED byTimeout
     ELSE Goto(p, "idle", "settling") /\ byTimeout' = byTimeout \cup {p}
  /\ UNCHANGED <<recordVars, clockVars, lockVars, terminal, frees, lost, walks>>

ClaimsRun(p) ==
  /\ IF available(lease)
     THEN Goto(p, "loaded", "claimed") /\ lease' = HeldBy(p)
     ELSE Goto(p, "loaded", "idle") /\ UNCHANGED lease
  /\ UNCHANGED <<recordVars, clockVars, cancelLock, jobVars, walks>>

(* `transitionToRunning`: exactly one resumer wins. *)
Resumes(p) ==
  /\ IF status = "suspended"
     THEN Goto(p, "claimed", "working") /\ status' = "running"
     ELSE Goto(p, "claimed", "leaving") /\ UNCHANGED status
  /\ UNCHANGED <<intendedTerminal, runLock, clockVars, lockVars, jobVars, walks>>

(* Mutant: the expired wait fails the run whatever became of it. *)
FailsTimedOutAnyway(p) ==
  /\ Goto(p, "expiring", "idle")
  /\ status' = "failed" /\ runLock' = FALSE
  /\ UNCHANGED <<intendedTerminal, clockVars, lockVars, jobVars, walks>>

(* `failTimedOut`: unless someone else moved it on. *)
FailsTimedOut(p) ==
  /\ Goto(p, "expiring", "idle")
  /\ IF status = "suspended" THEN status' = "failed" /\ runLock' = FALSE
                             ELSE UNCHANGED <<status, runLock>>
  /\ UNCHANGED <<intendedTerminal, clockVars, lockVars, jobVars, walks>>

-----------------------------------------------------------------------------
(* `settleExternally`. *)

(* `zuke cancel`, or a sweep that found the run `cancelling`. *)
BeginsSettling(p) ==
  /\ status \notin Terminal \cup {"none"}
  /\ Goto(p, "idle", "settling")
  /\ UNCHANGED <<recordVars, clockVars, lockVars, jobVars, walks>>

TakesCancelLock(p) ==
  /\ IF available(cancelLock)
     THEN Goto(p, "settling", "locked") /\ cancelLock' = HeldBy(p)
     ELSE Goto(p, "settling", "leaving") /\ UNCHANGED cancelLock
  /\ UNCHANGED <<recordVars, clockVars, lease, jobVars, walks>>

(* Mutant: an interrupted cancellation is walked again. *)
TransitionsAgain(p) ==
  /\ status \in {"running", "suspended", "cancelling"}
  /\ Goto(p, "locked", "walking")
  /\ status' = "cancelling"
  /\ intendedTerminal' = IF terminal[p] = "failed" THEN "failed" ELSE intendedTerminal
  /\ frees' = IF status = "suspended" \/ terminal[p] = "failed" THEN frees \cup {p} ELSE frees
  /\ UNCHANGED <<runLock, clockVars, lockVars, terminal, byTimeout, lost, walks>>

(* `transitionToCancelling`.  A parked run has no owner, nor has one a sweep *)
(* settles for its deadline (`ownerGone`): its locks are the settler's to   *)
(* give back.                                                               *)
Transitions(p) ==
  /\ status \in {"running", "suspended"}
  /\ Goto(p, "locked", "walking")
  /\ status' = "cancelling"
  /\ intendedTerminal' = IF terminal[p] = "failed" THEN "failed" ELSE intendedTerminal
  /\ frees' = IF status = "suspended" \/ terminal[p] = "failed" THEN frees \cup {p} ELSE frees
  /\ UNCHANGED <<runLock, clockVars, lockVars, terminal, byTimeout, lost, walks>>

(* Mutant: a run found `cancelling` is taken for one that has ended. *)
RecoversNothing(p) ==
  /\ status \in Terminal \cup {"cancelling"}
  /\ Goto(p, "locked", "leaving")
  /\ UNCHANGED <<recordVars, clockVars, lockVars, jobVars, walks>>

(* Mutant: a recovered run is settled to the status it is found in. *)
RecoversToStatus(p) ==
  /\ IF status = "cancelling"
     THEN /\ Goto(p, "locked", "asking")
          /\ terminal' = [terminal EXCEPT ![p] = status]
     ELSE /\ status \in Terminal
          /\ Goto(p, "locked", "leaving")
          /\ UNCHANGED terminal
  /\ UNCHANGED <<recordVars, clockVars, lockVars, byTimeout, frees, lost, walks>>

(* It ended meanwhile, or an interrupted settlement left it `cancelling`:   *)
(* finish that one, to the status it was heading for, without a walk.       *)
Recovers(p) ==
  /\ IF status = "cancelling"
     THEN /\ Goto(p, "locked", "asking")
          /\ terminal' = [terminal EXCEPT ![p] = intendedTerminal]
     ELSE /\ status \in Terminal
          /\ Goto(p, "locked", "leaving")
          /\ UNCHANGED terminal
  /\ UNCHANGED <<recordVars, clockVars, lockVars, byTimeout, frees, lost, walks>>

Walks(p) ==
  /\ Goto(p, "walking", IF p \in frees THEN "finalizing" ELSE "asking")
  /\ walks' = walks + 1
  /\ UNCHANGED <<recordVars, clockVars, lockVars, jobVars>>

(* Mutant: the run's locks are given back without asking for its owner. *)
AsksNobody(p) ==
  /\ Goto(p, "asking", "finalizing")
  /\ frees' = frees \cup {p}
  /\ UNCHANGED <<recordVars, clockVars, lockVars, terminal, byTimeout, lost, walks>>

(* `ownerIsGone`: the lease is taken and given straight back. *)
AsksForOwner(p) ==
  /\ Goto(p, "asking", "finalizing")
  /\ IF available(lease) THEN lease' = Free /\ frees' = frees \cup {p}
                         ELSE UNCHANGED <<lease, frees>>
  /\ UNCHANGED <<recordVars, clockVars, cancelLock, terminal, byTimeout, lost, walks>>

(* `finalizeCancelled`. *)
Finalizes(p) ==
  /\ Goto(p, "finalizing", "leaving")
  /\ IF status \in Terminal
     THEN UNCHANGED <<status, runLock>>
     ELSE /\ status' = terminal[p]
          /\ runLock' = (runLock /\ p \notin frees)
  /\ UNCHANGED <<intendedTerminal, clockVars, lockVars, jobVars, walks>>

-----------------------------------------------------------------------------
(* `examine`: a sweep looks at a running run. *)

SeesRunning(p) ==
  /\ status = "running"
  /\ Goto(p, "idle", "sweeping")
  /\ UNCHANGED <<recordVars, clockVars, lockVars, jobVars, walks>>

(* Mutant: a lease that lapsed still counts. *)
ClaimsOnlyFree(p) ==
  /\ IF lease = Free
     THEN Goto(p, "sweeping", "held") /\ lease' = HeldBy(p)
     ELSE Goto(p, "sweeping", "idle") /\ UNCHANGED lease
  /\ UNCHANGED <<recordVars, clockVars, cancelLock, jobVars, walks>>

(* The lease is the question: one that cannot be had has a live holder.     *)
ClaimsAbandoned(p) ==
  /\ IF available(lease)
     THEN Goto(p, "sweeping", "held") /\ lease' = HeldBy(p)
     ELSE Goto(p, "sweeping", "idle") /\ UNCHANGED lease
  /\ UNCHANGED <<recordVars, clockVars, cancelLock, jobVars, walks>>

(* Re-read under the lease.  `toSuspended`, or a run out of time settled.   *)
HandsBack(p) ==
  /\ ~late \/ status # "running"
  /\ Goto(p, "held", "leaving")
  /\ status' = IF status = "running" THEN "suspended" ELSE status
  /\ UNCHANGED <<intendedTerminal, runLock, clockVars, lockVars, jobVars, walks>>

SettlesLate(p) ==
  /\ late /\ status = "running"
  /\ Goto(p, "held", "settling")
  /\ terminal' = [terminal EXCEPT ![p] = "failed"]
  /\ UNCHANGED <<recordVars, clockVars, lockVars, byTimeout, frees, lost, walks>>

-----------------------------------------------------------------------------
(* Time and failure. *)

DeadlinePasses ==
  /\ status = "running" /\ ~late
  /\ late' = TRUE
  /\ UNCHANGED <<recordVars, gate, onTimeout, stalls, lockVars, pc, jobVars, walks>>

GateExpires ==
  /\ gate = "open"
  /\ gate' = "expired"
  /\ UNCHANGED <<recordVars, late, onTimeout, stalls, lockVars, pc, jobVars, walks>>

Crash(p) ==
  /\ Cardinality({q \in Proc : pc[q] = "dead"}) < MaxCrashes
  /\ pc[p] \notin {"idle", "dead"}
  /\ pc' = [pc EXCEPT ![p] = "dead"]
  /\ byTimeout' = byTimeout \ {p} /\ frees' = frees \ {p} /\ lost' = lost \ {p}
  /\ terminal' = [terminal EXCEPT ![p] = "cancelled"]
  /\ UNCHANGED <<recordVars, clockVars, lockVars, walks>>

(* A lock whose holder no longer renews it lapses. *)
Lapses(lock) ==
  /\ lock.by # NoOne /\ ~lock.lapsed
  /\ IF pc[lock.by] = "dead" THEN UNCHANGED stalls
                             ELSE stalls < MaxStalls /\ stalls' = stalls + 1

LeaseLapses ==
  /\ Lapses(lease)
  /\ lease' = [lease EXCEPT !.lapsed = TRUE]
  /\ UNCHANGED <<recordVars, late, gate, onTimeout, cancelLock, pc, jobVars, walks>>

CancelLockLapses ==
  /\ Lapses(cancelLock)
  /\ cancelLock' = [cancelLock EXCEPT !.lapsed = TRUE]
  /\ UNCHANGED <<recordVars, late, gate, onTimeout, lease, pc, jobVars, walks>>

(* A late renewal of a lock nobody took meanwhile revives it. *)
Renews(p) ==
  /\ pc[p] # "dead"
  /\ \/ lease = [by |-> p, lapsed |-> TRUE] /\ lease' = HeldBy(p) /\ UNCHANGED cancelLock
     \/ cancelLock = [by |-> p, lapsed |-> TRUE] /\ cancelLock' = HeldBy(p)
        /\ UNCHANGED lease
  /\ UNCHANGED <<recordVars, clockVars, pc, jobVars, walks>>

-----------------------------------------------------------------------------
(* What a process goes on with once it is in a command. *)
Continues(p) ==
  \/ Opens(p) \/ Finishes(p) \/ Suspends(p) \/ Notices(p) \/ StopsLost(p)
  \/ Cancels(p) \/ Marks(p) \/ Unwinds(p) \/ Closes(p) \/ FreesLocks(p) \/ Leaves(p)
  \/ ClaimsRun(p) \/ Resumes(p) \/ FailsTimedOut(p)
  \/ TakesCancelLock(p) \/ Transitions(p) \/ Recovers(p) \/ Walks(p) \/ AsksForOwner(p)
  \/ Finalizes(p)
  \/ ClaimsAbandoned(p) \/ HandsBack(p) \/ SettlesLate(p)

Begins(p) == Start(p) \/ LoadsSuspended(p) \/ BeginsSettling(p) \/ SeesRunning(p)

Over ==
  /\ \A p \in Proc : pc[p] \in {"idle", "dead"}
  /\ UNCHANGED vars

Next ==
  \/ \E p \in Proc : Begins(p) \/ Continues(p) \/ TakesRunLock(p) \/ GatePasses(p) \/ LosesLease(p)
                       \/ Renews(p) \/ Crash(p)
  \/ DeadlinePasses \/ GateExpires \/ LeaseLapses \/ CancelLockLapses
  \/ Over

Spec == Init /\ [][Next]_vars

(* Live processes go on with their command, a dead one's locks lapse, and a *)
(* scheduled sweep looks for runs that are stranded or abandoned.           *)
Sweeps(p) ==
  \/ status = "cancelling" /\ BeginsSettling(p)
  \/ SeesRunning(p)

FairSpec ==
  /\ Spec
  /\ \A p \in Proc : WF_vars(Continues(p))
  /\ WF_vars(\E p \in Proc : Sweeps(p))
  /\ WF_vars(LeaseLapses) /\ WF_vars(CancelLockLapses)

-----------------------------------------------------------------------------
(* Every variable has its type. *)
TypeOK ==
  /\ status \in Status /\ intendedTerminal \in {"cancelled", "failed"}
  /\ {runLock, late} \subseteq BOOLEAN
  /\ gate \in {"none", "open", "expired"} /\ onTimeout \in Dispositions
  /\ lease \in Lock /\ cancelLock \in Lock
  /\ pc \in [Proc -> PC]
  /\ terminal \in [Proc -> {"cancelled", "failed"}]
  /\ byTimeout \subseteq Proc /\ frees \subseteq Proc /\ lost \subseteq Proc
  /\ stalls \in 0 .. MaxStalls /\ walks \in Nat

(* Processes whose bodies or compensations may be going, rightfully as far  *)
(* as they know.                                                            *)
Driving == {p \in Proc : pc[p] \in Working /\ p \notin lost}

(* Two processes never drive one run.                                       *)
OneDriver == \A p, q \in Driving : p = q

(* The compensations are walked at most once, whoever starts to cancel,     *)
(* dies, is held up or recovers.                                            *)
CompensatedOnce == walks <= 1

(* An ended run keeps its ending, also when a process that was taken over   *)
(* has not noticed yet.                                                     *)
EndingsAreFinal == [][~(status \in Terminal /\ status' # status)]_vars

Run == INSTANCE RunStatus

(* All of these processes together move a run's status as the guide says,   *)
(* and a cancellation always comes to its end.                              *)
ImplementsRunStatus == Run!RunSpec

(* A run whose process died is handed back or settled.                      *)
AbandonedRunsMove ==
  (status = "running" /\ lease.by # NoOne /\ pc[lease.by] = "dead") ~> status # "running"

(* p moves the run, and is not one of those that work on it. *)
MovesFromOutside(p) == pc'[p] # pc[p] /\ pc[p] \notin Working

(* A run that is being worked on is left alone: nobody else gives back a    *)
(* run-held lock a body relies on, and no sweep hands back or settles the   *)
(* run under its bodies, however far past its deadline.                     *)
LiveRunsAreLeftAlone ==
  [][/\ runLock /\ ~runLock' => Driving \subseteq {p \in Proc : pc'[p] # pc[p]}
     /\ status = "running" /\ status' # status =>
          \A p \in Proc :
            MovesFromOutside(p) /\ (pc[p] = "held" \/ terminal[p] = "failed")
              => Driving = {}]_vars

-----------------------------------------------------------------------------
(* Statements of the repository that the code does not keep.                *)

(* docs/orchestration.md, on what `zuke resume --check` does for deadlines: *)
(* "A live run is never settled or moved, deadline or no deadline".         *)
TimeoutsLeaveLiveRunsAlone ==
  [][status = "running" /\ status' # status =>
       \A p \in byTimeout : MovesFromOutside(p) => Driving = {}]_vars
=============================================================================
