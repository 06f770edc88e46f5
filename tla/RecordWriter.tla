--------------------------- MODULE RecordWriter ---------------------------
(***************************************************************************)
(* `RunStateWriter` (packages/core/src/state/writer.ts): how the process   *)
(* that owns a run keeps the run's record in step with a store that others *)
(* write too, with the endings `execute` gives a run (executor.ts,         *)
(* execute_cancel.ts) and the other processes a write can meet: a          *)
(* settlement (`settleExternally`), a sweep that takes the run over, an    *)
(* operator forcing a target and a prune.                                  *)
(*                                                                         *)
(* Writes are queued on one promise chain and done one at a time; a write  *)
(* applies its mutation to the record in memory and swaps it for the       *)
(* version it last saw.  Every call to the store is a step of its own and  *)
(* may throw, before or after the store took the write.                    *)
(***************************************************************************)
EXTENDS Naturals, Sequences, FiniteSets

CONSTANTS
  Note,        \* rows the run settles `succeeded`, written best-effort
  Intent,      \* effect intents, written strictly
  Threats,     \* what else may happen, each at most once
  MaxRetries,  \* MAX_RETRIES: attempts of one write
  MaxFaults,   \* bound: store calls that throw
  MaxForces    \* bound: overrides written by `zuke force`

ASSUME MaxRetriesAssumption == MaxRetries \in Nat \ {0}
ASSUME ThreatsAssumption == Threats \subseteq {"settle", "deadline", "settlerDies", "takeover", "prune"}
ASSUME BoundsAssumption == MaxFaults \in Nat /\ MaxForces \in Nat
ASSUME FactsAssumption == Note \cap Intent = {} /\ "event" \notin Note \cup Intent

VARIABLES
  stored,           \* the record in the store
  there,            \* whether the store has it
  record,           \* #record, the live record in memory
  current,          \* #version is the store's version
  settledElsewhere, disowned, retainedPending,  \* the writer's latches
  told,             \* onExternalCancel fired
  chain,            \* writes queued and not begun
  op,               \* the write under way
  owner,            \* where `execute` is
  cancelLock,       \* who holds the run's cancel lock
  settler,          \* where a `zuke cancel` in another process is
  holder,           \* who holds the run's lease
  met,              \* threats that have happened
  faults, forces,  \* bounds used up
  noted,            \* history: notes whose mutation ran
  committed,        \* history: intents whose write was confirmed
  refused,          \* history: intents refused without reaching the store
  unwound,          \* history: successes a compensation walk has seen
  walks,            \* history: compensation walks begun
  todo              \* rows and intents `execute` has not asked for yet

writerVars == <<record, current, settledElsewhere, retainedPending, told, chain, op,
                noted, committed, refused>>
storeVars == <<stored, there>>
ownerVars == <<owner, disowned, todo>>
otherVars == <<settler, holder, met, forces>>
sharedVars == <<cancelLock, unwound, walks>>
vars == <<writerVars, storeVars, ownerVars, otherVars, sharedVars, faults>>

Fact == Note \cup Intent \cup {"event"}
Terminal == {"succeeded", "failed", "cancelled"}
Status == Terminal \cup {"running", "suspended", "cancelling"}
Record == [status : Status, facts : SUBSET Fact, degraded : BOOLEAN]

(* `isSettledElsewhere`: another process has taken this run's outcome. *)
isSettledElsewhere(s) == s \notin {"running", "suspended"}

(* A queued write: a row, an intent, an audit event, or a run status. *)
Open == [kind |-> "open"]
Row(f) == [kind |-> "row", fact |-> f]
Strict(f) == [kind |-> "intent", fact |-> f]
Event == [kind |-> "event", fact |-> "event"]
RunStatus(s) == [kind |-> "status", status |-> s]
Job == {Open, Event} \cup {Row(f) : f \in Note} \cup {Strict(f) : f \in Intent}
         \cup {RunStatus(s) : s \in {"succeeded", "suspended", "cancelling", "cancelled"}}

NoOp == [stage |-> "idle", job |-> Open, attempt |-> 0, before |-> [status |-> "running",
          facts |-> {}, degraded |-> FALSE]]
Op == [stage : {"idle", "put", "read", "reput"}, job : Job, attempt : 0 .. MaxRetries,
       before : Record]

(* Mutant: a run another process settled is finished all the same. *)
AppliedUnguarded(j, r, latched) ==
  IF j.kind = "open" THEN r
  ELSE IF j.kind # "status" THEN [r EXCEPT !.facts = @ \cup {j.fact}]
  ELSE [r EXCEPT !.status = j.status]

(* The mutator: the run-level writes, `cancelled` apart, leave a run that   *)
(* another process settled as it is.                                        *)
Applied(j, r, latched) ==
  IF j.kind = "open" THEN r
  ELSE IF j.kind # "status" THEN [r EXCEPT !.facts = @ \cup {j.fact}]
  ELSE IF latched /\ j.status # "cancelled" THEN r
  ELSE [r EXCEPT !.status = j.status]

Init ==
  /\ record = NoOp.before /\ stored = record /\ there = FALSE /\ current = TRUE
  /\ settledElsewhere = FALSE /\ disowned = FALSE /\ retainedPending = FALSE
  /\ told = FALSE
  /\ chain = <<Open>> /\ op = NoOp
  /\ owner = "working" /\ cancelLock = "free" /\ settler = "idle" /\ holder = "owner"
  /\ met = {} /\ faults = 0 /\ forces = 0
  /\ noted = {} /\ committed = {} /\ refused = {}
  /\ unwound = {} /\ walks = 0 /\ todo = Note \cup Intent

-----------------------------------------------------------------------------
(* The writer.  `Begin` runs up to the first call of the store.             *)

NextOp(j, stage, attempt, before) ==
  op' = [stage |-> stage, job |-> j, attempt |-> attempt, before |-> before]

Done == op' = NoOp

Refuse(j) == refused' = IF j.kind = "intent" THEN refused \cup {j.fact} ELSE refused

(* A write of a process that lost the run is dropped, unless it is an event;*)
(* a strict write of a run that is not `running` is refused.                *)
Drops(j) ==
  \/ disowned /\ j.kind # "event"
  \/ j.kind = "intent" /\ record.status # "running"

Drop ==
  /\ op.stage = "idle" /\ chain # <<>> /\ Drops(Head(chain))
  /\ chain' = Tail(chain)
  /\ Refuse(Head(chain))
  /\ UNCHANGED <<record, current, settledElsewhere, retainedPending, told, op, noted,
                 committed, storeVars, ownerVars, otherVars, sharedVars, faults>>

Begin ==
  LET j == Head(chain) IN
  /\ op.stage = "idle" /\ chain # <<>> /\ ~Drops(j)
  /\ chain' = Tail(chain)
  /\ record' = Applied(j, record, settledElsewhere)
  /\ noted' = IF j.kind = "row" THEN noted \cup {j.fact} ELSE noted
  /\ NextOp(j, "put", 1, record)
  /\ UNCHANGED <<current, settledElsewhere, retainedPending, told, committed, refused,
                 storeVars, ownerVars, otherVars, sharedVars, faults>>

(* The swap lands: a write of the usual path has carried whatever a dropped *)
(* one left in memory.                                                      *)
PutLands ==
  /\ op.stage \in {"put", "reput"} /\ current
  /\ stored' = record /\ there' = TRUE
  /\ retainedPending' = (retainedPending /\ op.stage = "reput")
  /\ told' = (told \/ op.stage = "reput")
  /\ committed' = IF op.job.kind = "intent" THEN committed \cup {op.job.fact}
                                            ELSE committed
  /\ Done
  /\ UNCHANGED <<record, current, settledElsewhere, chain, noted, refused,
                 ownerVars, otherVars, sharedVars, faults>>

PutConflicts ==
  /\ op.stage = "put" /\ ~current
  /\ op' = [op EXCEPT !.stage = "read"]
  /\ UNCHANGED <<record, current, settledElsewhere, retainedPending, told, chain, noted,
                 committed, refused, storeVars, ownerVars, otherVars, sharedVars,
                 faults>>

(* Re-applying onto a settled record conflicts: that update is lost.        *)
ReputConflicts ==
  /\ op.stage = "reput" /\ ~current
  /\ record' = [record EXCEPT !.degraded = TRUE]
  /\ told' = TRUE
  /\ Done
  /\ UNCHANGED <<current, settledElsewhere, retainedPending, chain, noted, committed,
                 refused, storeVars, ownerVars, otherVars, sharedVars, faults>>

(* Mutant: a strict write that throws leaves its mutation in memory. *)
FailWithoutRestore ==
  /\ Done
  /\ UNCHANGED record
  /\ retainedPending' = (retainedPending \/ op.job.kind # "intent")

(* A best-effort write leaves its mutation in memory for a later write to   *)
(* carry; a strict one takes it back and throws.                            *)
Fail ==
  /\ Done
  /\ record' = IF op.job.kind = "intent" THEN op.before ELSE record
  /\ retainedPending' = (retainedPending \/ op.job.kind # "intent")

(* The store throws, before it took the write or after. *)
PutThrows ==
  /\ op.stage \in {"put", "reput"} /\ faults < MaxFaults
  /\ faults' = faults + 1
  /\ Fail
  /\ \/ Refuse(op.job) /\ UNCHANGED <<storeVars, current>>
     \/ /\ current
        /\ stored' = record /\ there' = TRUE /\ current' = FALSE
        /\ UNCHANGED refused
  /\ UNCHANGED <<settledElsewhere, told, chain, noted, committed,
                 ownerVars, otherVars, sharedVars>>

(* Mutant: a vanished run is read again, and again. *)
ReadAgain ==
  /\ op.stage = "read" /\ ~there
  /\ op' = [op EXCEPT !.stage = "put"]
  /\ UNCHANGED <<record, current, settledElsewhere, retainedPending, told, chain, noted,
                 committed, refused, storeVars, ownerVars, otherVars, sharedVars, faults>>

(* The record has vanished from the store, or the store throws.             *)
ReadFails ==
  /\ op.stage = "read"
  /\ \/ ~there /\ UNCHANGED faults
     \/ faults < MaxFaults /\ faults' = faults + 1
  /\ Fail
  /\ Refuse(op.job)
  /\ UNCHANGED <<current, settledElsewhere, told, chain, noted, committed,
                 storeVars, ownerVars, otherVars, sharedVars>>

(* Mutant: a mutation waiting in memory is replaced without a word. *)
FreshBaseForgetful == [stored EXCEPT !.degraded = @ \/ record.degraded]

(* `adoptFreshBase`: what was waiting in memory goes with the old record.   *)
FreshBase == [stored EXCEPT !.degraded = @ \/ record.degraded \/ retainedPending]

Adopt ==
  /\ op.stage = "read" /\ there
  /\ current' = TRUE /\ retainedPending' = FALSE
  /\ UNCHANGED <<chain, noted, committed, storeVars, ownerVars, otherVars,
                 sharedVars, faults>>

(* Another process settled the run: keep its status, add this row to it.    *)
Reapply ==
  /\ Adopt
  /\ op.job.kind # "intent" /\ isSettledElsewhere(stored.status)
  /\ settledElsewhere' = TRUE
  /\ record' = [Applied(op.job, FreshBase, TRUE) EXCEPT !.status = stored.status]
  /\ NextOp(op.job, "reput", op.attempt, op.before)
  /\ UNCHANGED <<told, refused>>

(* Mutant: one attempt too many. *)
RetryOnceMore ==
  /\ Adopt
  /\ op.job.kind # "intent" /\ ~isSettledElsewhere(stored.status)
  /\ record' = Applied(op.job, FreshBase, settledElsewhere)
  /\ NextOp(op.job, "put", op.attempt + 1, FreshBase)
  /\ UNCHANGED <<settledElsewhere, told, refused>>

(* Another attempt, on the fresh base.                                      *)
Retry ==
  /\ Adopt
  /\ IF op.job.kind = "intent" THEN stored.status = "running"
                               ELSE ~isSettledElsewhere(stored.status)
  /\ op.attempt < MaxRetries
  /\ record' = Applied(op.job, FreshBase, settledElsewhere)
  /\ NextOp(op.job, "put", op.attempt + 1, FreshBase)
  /\ UNCHANGED <<settledElsewhere, told, refused>>

(* The last attempt's mutation went with the base it was applied to.        *)
GiveUp ==
  /\ Adopt
  /\ IF op.job.kind = "intent" THEN stored.status = "running"
                               ELSE ~isSettledElsewhere(stored.status)
  /\ op.attempt = MaxRetries
  /\ record' = [FreshBase EXCEPT !.degraded = TRUE]
  /\ Refuse(op.job)
  /\ Done
  /\ UNCHANGED <<settledElsewhere, told>>

(* A strict write found the run no longer `running`.                        *)
RefuseInactive ==
  /\ Adopt
  /\ op.job.kind = "intent" /\ stored.status # "running"
  /\ record' = FreshBase
  /\ told' = TRUE
  /\ Refuse(op.job)
  /\ Done
  /\ UNCHANGED settledElsewhere

WriterStep ==
  \/ Drop \/ Begin \/ PutLands \/ PutConflicts \/ ReputConflicts \/ PutThrows
  \/ ReadFails \/ Reapply \/ Retry \/ GiveUp \/ RefuseInactive

-----------------------------------------------------------------------------
(* `execute`: bodies settle and record intents, then the run ends.          *)

Queue(j) ==
  /\ chain' = Append(chain, j)
  /\ UNCHANGED <<record, current, settledElsewhere, retainedPending, told, op, noted,
                 committed, refused>>

quiet == chain = <<>> /\ op.stage = "idle"

Ask(f) ==
  /\ owner = "working" /\ f \in todo
  /\ todo' = todo \ {f}
  /\ Queue(IF f \in Intent THEN Strict(f) ELSE Row(f))
  /\ UNCHANGED <<owner, disowned, storeVars, otherVars, sharedVars, faults>>

(* The bodies have ended, so no strict write is outstanding. *)
bodiesEnded ==
  /\ owner = "working"
  /\ op.job.kind # "intent"
  /\ \A i \in DOMAIN chain : chain[i].kind # "intent"

(* The lease is lost, or another process settles the run: only drain.       *)
Stops ==
  /\ bodiesEnded
  /\ told \/ disowned
  /\ owner' = "draining"
  /\ UNCHANGED <<disowned, todo, writerVars, storeVars, otherVars, sharedVars, faults>>

Finishes ==
  /\ bodiesEnded /\ ~told /\ ~disowned
  /\ \E s \in {"succeeded", "suspended"} : Queue(RunStatus(s))
  /\ owner' = "draining"
  /\ UNCHANGED <<disowned, todo, storeVars, otherVars, sharedVars, faults>>

(* Ctrl-C, or `.onFailure(...)`: claim the compensation walk.               *)
Cancels ==
  /\ bodiesEnded /\ ~told /\ ~disowned
  /\ IF cancelLock = "free"
     THEN /\ cancelLock' = "owner" /\ owner' = "marking"
          /\ Queue(RunStatus("cancelling"))
     ELSE /\ owner' = "draining"
          /\ UNCHANGED <<cancelLock, writerVars>>
  /\ UNCHANGED <<disowned, todo, storeVars, otherVars, unwound, walks, faults>>

(* Mutant: the walk starts without looking again at who settled the run. *)
WalksUnasked ==
  /\ owner = "marking" /\ quiet
  /\ owner' = "walking" /\ UNCHANGED cancelLock
  /\ walks' = IF disowned THEN walks ELSE walks + 1
  /\ unwound' = IF disowned THEN unwound ELSE unwound \cup (record.facts \cap Note)
  /\ UNCHANGED <<disowned, todo, writerVars, storeVars, otherVars, faults>>

(* `cancelling` is written: walk, unless the write met another settlement.  *)
(* A walk of a process that lost the lease stops before its first step.     *)
Walks ==
  /\ owner = "marking" /\ quiet
  /\ IF told
     THEN owner' = "draining" /\ cancelLock' = "free" /\ UNCHANGED <<unwound, walks>>
     ELSE /\ owner' = "walking" /\ UNCHANGED cancelLock
          /\ walks' = IF disowned THEN walks ELSE walks + 1
          /\ unwound' = IF disowned THEN unwound
                        ELSE unwound \cup (record.facts \cap Note)
  /\ UNCHANGED <<disowned, todo, writerVars, storeVars, otherVars, faults>>

WalkEnds ==
  /\ owner = "walking"
  /\ owner' = "reporting"
  /\ Queue(Event)
  /\ UNCHANGED <<disowned, todo, storeVars, otherVars, sharedVars, faults>>

(* The rollback is on record; close the run unless it was taken over.       *)
Closes ==
  /\ owner = "reporting" /\ quiet
  /\ owner' = "draining"
  /\ IF disowned THEN cancelLock' = "free" /\ UNCHANGED writerVars
                 ELSE Queue(RunStatus("cancelled")) /\ UNCHANGED cancelLock
  /\ UNCHANGED <<disowned, todo, storeVars, otherVars, unwound, walks, faults>>

Drains ==
  /\ owner = "draining" /\ quiet
  /\ owner' = "stopped"
  /\ cancelLock' = IF cancelLock = "owner" THEN "free" ELSE cancelLock
  /\ UNCHANGED <<disowned, todo, writerVars, storeVars, otherVars, unwound, walks, faults>>

OwnerStep ==
  \/ Stops \/ Finishes \/ Cancels \/ Walks \/ WalkEnds \/ Closes \/ Drains

(* The heartbeat learns that the lease is somebody else's.                  *)
LosesLease ==
  /\ holder = "other" /\ ~disowned /\ owner # "stopped"
  /\ disowned' = TRUE
  /\ UNCHANGED <<owner, todo, writerVars, storeVars, otherVars, sharedVars, faults>>

-----------------------------------------------------------------------------
(* Other processes.  Their compare-and-swap loops always meet the stored    *)
(* record, so each of their writes is one step.                             *)

Overwrites(status) ==
  /\ there
  /\ stored' = [stored EXCEPT !.status = status]
  /\ current' = FALSE
  /\ UNCHANGED <<there, record, settledElsewhere, retainedPending, told, chain, op, noted,
                 committed, refused, ownerVars, faults>>

(* An operator's `zuke force`: an override is added, the status stays.      *)
ForceTarget ==
  /\ forces < MaxForces
  /\ stored.status \in {"running", "suspended"}
  /\ forces' = forces + 1
  /\ Overwrites(stored.status)
  /\ UNCHANGED <<settler, holder, met, sharedVars>>

Happens(threat) == threat \in Threats \ met /\ met' = met \cup {threat}

(* `settleExternally`: claim the walk of a run that has not ended, to cancel *)
(* it or, for a sweep that got the lapsed lease of a run past its deadline, *)
(* to fail it.                                                              *)
SettlerClaims ==
  /\ \/ Happens("settle") /\ UNCHANGED holder
     \/ Happens("deadline") /\ stored.status = "running" /\ holder' = "other"
  /\ settler = "idle" /\ settler' = "claimed"
  /\ there /\ stored.status \notin Terminal
  /\ cancelLock = "free" /\ cancelLock' = "settler"
  /\ UNCHANGED <<writerVars, storeVars, ownerVars, forces, unwound, walks, faults>>

(* `transitionToCancelling`. *)
SettlerMarks ==
  /\ settler = "claimed"
  /\ stored.status \notin Terminal \cup {"cancelling"}
  /\ Overwrites("cancelling")
  /\ settler' = "marked"
  /\ UNCHANGED <<holder, met, forces, sharedVars>>

(* It ended meanwhile, or was already `cancelling`: no second walk.         *)
SettlerSkipsWalk ==
  /\ settler = "claimed"
  /\ ~there \/ stored.status \in Terminal \cup {"cancelling"}
  /\ settler' = "walked"
  /\ UNCHANGED <<writerVars, storeVars, ownerVars, holder, met, forces, sharedVars, faults>>

(* Re-read, and compensate what the record now calls succeeded.             *)
SettlerWalks ==
  /\ settler = "marked"
  /\ settler' = "walked"
  /\ walks' = walks + 1
  /\ unwound' = unwound \cup (stored.facts \cap Note)
  /\ UNCHANGED <<writerVars, storeVars, ownerVars, holder, met, forces, cancelLock, faults>>

(* `finalizeCancelled`, unless the run has ended; then release the lock.    *)
SettlerFinalizes ==
  /\ settler = "walked"
  /\ settler' = "done" /\ cancelLock' = "free"
  /\ IF there /\ stored.status \notin Terminal
     THEN Overwrites(IF "deadline" \in met THEN "failed" ELSE "cancelled")
     ELSE UNCHANGED <<writerVars, storeVars, ownerVars, faults>>
  /\ UNCHANGED <<holder, met, forces, unwound, walks>>

(* The settling process is killed; its lock lapses. *)
SettlerDies ==
  /\ Happens("settlerDies")
  /\ settler \in {"claimed", "marked", "walked"}
  /\ settler' = "done" /\ cancelLock' = "free"
  /\ UNCHANGED <<writerVars, storeVars, ownerVars, holder, forces, unwound, walks, faults>>

(* The lease lapsed, as the store let no renewal through: a sweep returns   *)
(* the run to `suspended`, and a resume takes it from there.                *)
Reap ==
  /\ Happens("takeover")
  /\ stored.status = "running"
  /\ Overwrites("suspended")
  /\ holder' = "other"
  /\ UNCHANGED <<settler, forces, sharedVars>>

Resume ==
  /\ "takeover" \in met /\ stored.status = "suspended"
  /\ Overwrites("running")
  /\ UNCHANGED <<settler, holder, met, forces, sharedVars>>

(* `zuke runs prune` deletes a run that has ended. *)
Prune ==
  /\ Happens("prune")
  /\ there /\ stored.status \in Terminal
  /\ there' = FALSE /\ current' = FALSE
  /\ UNCHANGED <<stored, record, settledElsewhere, retainedPending, told, chain, op, noted,
                 committed, refused, ownerVars, settler, holder, forces, sharedVars, faults>>

Others ==
  \/ ForceTarget \/ SettlerClaims \/ SettlerMarks \/ SettlerSkipsWalk \/ SettlerWalks
  \/ SettlerFinalizes \/ SettlerDies \/ Reap \/ Resume \/ Prune

Stopped == owner = "stopped" /\ UNCHANGED vars

Next ==
  \/ WriterStep
  \/ \E f \in Note \cup Intent : Ask(f)
  \/ OwnerStep \/ LosesLease
  \/ Others
  \/ Stopped

Spec == Init /\ [][Next]_vars

(* Store calls return, the run's bodies end, and the process keeps going.   *)
FairSpec == Spec /\ WF_vars(WriterStep) /\ WF_vars(OwnerStep)

-----------------------------------------------------------------------------
(* Every variable has its type. *)
TypeOK ==
  /\ stored \in Record /\ record \in Record
  /\ there \in BOOLEAN /\ current \in BOOLEAN /\ settledElsewhere \in BOOLEAN
  /\ disowned \in BOOLEAN /\ retainedPending \in BOOLEAN /\ told \in BOOLEAN
  /\ chain \in Seq(Job) /\ op \in Op
  /\ owner \in {"working", "marking", "walking", "reporting", "draining", "stopped"}
  /\ cancelLock \in {"free", "owner", "settler"}
  /\ settler \in {"idle", "claimed", "marked", "walked", "done"}
  /\ holder \in {"owner", "other"}
  /\ met \subseteq Threats /\ faults \in 0 .. MaxFaults /\ forces \in 0 .. MaxForces
  /\ noted \subseteq Note /\ unwound \subseteq Note
  /\ committed \subseteq Intent /\ refused \subseteq Intent
  /\ todo \subseteq Note \cup Intent
  /\ walks \in 0 .. 2

(* An effect's body runs only after its intent is in the store, and nothing *)
(* this writer does later takes the intent out again.                       *)
IntentsAreDurable == there => committed \subseteq stored.facts

(* An intent that was refused is not slipped into the store by a later      *)
(* write of the same record.                                                *)
RefusedIntentsLeaveNoTrace == refused \cap stored.facts = {}

(* The record and the body agree on an intent, whatever this writer and     *)
(* others write later: confirmed means recorded, refused means not.         *)
IntentsTellTheTruth == IntentsAreDurable /\ RefusedIntentsLeaveNoTrace

(* The compensations of a run are walked once, whoever cancels it.          *)
WalkedOnce == walks <= 1

(* They are as long as the only thing this process meets is a settlement:   *)
(* no store call of its own throws, its lease holds and nobody prunes the   *)
(* record, and fewer overrides are written than a write has attempts, so    *)
(* that none is given up.  A throw hides the other's settlement             *)
(* (execute_cancel.ts:109), a mark that was given up hides the owner's.     *)
MeetsOnlySettlers == faults = 0 /\ met \subseteq {"settle", "deadline", "settlerDies"}
SettlersWalkOnce == MeetsOnlySettlers /\ forces < MaxRetries => WalkedOnce

(* A record this process alone closed or parked tells of every success, or  *)
(* says by `degraded` that it may not: no sequence of conflicts, retries    *)
(* and throwing calls drops a row silently.                                 *)
ClosedRecordsAreHonest ==
  /\ there /\ holder = "owner" /\ settler = "idle"
  /\ stored.status \in {"succeeded", "suspended", "cancelled"}
  /\ ~stored.degraded
  => noted \subseteq stored.facts

(* A run this process cancelled by itself is rolled back in full: every     *)
(* success a body reported was compensated, or the record says by           *)
(* `degraded` that it may not tell of all.                                  *)
OwnRollbacksAreComplete ==
  owner = "stopped" /\ settler = "idle" /\ holder = "owner" /\ there
    /\ stored.status = "cancelled" /\ ~stored.degraded
  => noted \subseteq unwound

(* How a run ended is what happened to it: its record tells of every        *)
(* success, and a cancelled one had each compensated, neither twice nor in  *)
(* part.                                                                    *)
EndingsAreTruthful == ClosedRecordsAreHonest /\ OwnRollbacksAreComplete /\ SettlersWalkOnce

(* A run that was settled gets no new effect, no intent being confirmed on  *)
(* a run that is not `running`, and where this process meets settlers only  *)
(* no second ending; a throw hides the other's ending as it hides its walk. *)
SettledRunsStandStill ==
  [][/\ committed' # committed => stored.status = "running"
     /\ stored.status \in Terminal /\ MeetsOnlySettlers
          => stored'.status = stored.status]_vars

(* The process that owns the run gets to the end of its writes.             *)
OwnerStops == <>(owner = "stopped")
=============================================================================
