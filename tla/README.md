# Verifying zuke's orchestrator in TLA+

Zuke runs builds written as TypeScript classes: a class's fields are *targets*,
a target names what it depends on, and `zuke <target>` plans and runs them. A
run can be kept in a *state store* (a directory or an HTTP service), park at a
gate, be resumed by another process days later, be cancelled from elsewhere and
have its finished work compensated. This directory models that part of zuke,
model-checks it with TLC and proves part of it with TLAPS.

All source paths below are relative to `packages/core/src/` unless they say
otherwise.

## 1. Inventory

| Component | State it keeps | Operations | Meets |
|---|---|---|---|
| Plan builder (`graph.ts`, `execute_plan.ts`) | none | discover, detect cycles, order, skip conditions | feeds the scheduler |
| Scheduler (`scheduler.ts`) | `done`, `settled`, `started`, `runningSet`, flags | `pump`, `launch`, `abandon`, final sweep | bodies by promises; the abort signal; the record writer |
| Body of a target (`scheduler.ts` `runTarget`) | attempt, item rows, effect intents | validate, run, retry, recover, fan out, park | locks, services, cache, writer |
| Run record writer (`state/writer.ts`) | live record, version, latches, promise chain | lenient and strict writes, four endings, `disown` | the store, and through it every other process |
| File store (`state/fs_store.ts`, `state/json_file_cas.ts`, `state/mutex.ts`) | one JSON file per record, a marker directory | conditional write under a cross-process mutex | every process on the host |
| Settlement (`execute_cancel.ts`, `cancel.ts`, `state/cancel_lock.ts`) | `cancelling`, the cancel lock | mark, walk compensations, finalize, recover a dead settler | owner of the run, sweeps |
| Reap and resume (`reap.ts`, `resume.ts`) | none of their own | take a lapsed lease, hand back, settle past a deadline, resume, expire a wait | settlers, owners, each other |
| Lease (`state/run_lease.ts`) | a lock with a time to live and a heartbeat | acquire, renew, lose | disowns the writer |
| Target and run-held locks (`lock.ts`, `run_locks.ts`) | held and pending claims, heartbeats | claim, park, re-claim, release | the store; the record |
| Driver (`executor.ts`, `execute_state.ts`) | one run from open to end | open or reattach, run the plan, pick the ending | all of the above |
| Force, prune (`force.ts`, `runs.ts`) | none | override a row, delete settled runs | a record its owner is writing |
| Sequential loop, services, local cache (`scheduler.ts` `runSequential`, `service.ts`, `cache.ts`, `affected.ts`) | outcomes; services up; fingerprints in memory and in `.zuke/cache.json` | launch and stop services, look up, run, record, save | the workspace, and through it the next run |
| Validation during a body (`validate_during.ts`) | a timer, a round in flight, the first failure | rounds of checks, settle the race | the body; the abort signal |
| Engine host (`packages/engine/src/host.ts`, `peer.ts`) | the current worker, a replacement in flight, grace timers | spawn, configure, serve bodies, replace, pre-warm, finish, close | worker processes over JSON-RPC; the scheduler's timeouts and cancellations |

What is hard: the scheduler runs on one thread, but completions, parked gates,
failures and the abort signal reach it in any order, and what it decides
(abandon, sweep, suspend) depends on that order. The record is written by
processes that know nothing of each other but the version they last read; any
store call can throw before or after it took effect; a process can be killed
between any two; leases lapse by time while their holder is merely slow. Inside
one target three activities run at once (the body, its retries, the rounds of
checks) and a kill leaves effects half done. A workspace outlives its runs: what
one run stores about it must still be true after edits, rollbacks and kills. And
the engine shares one mortal worker among bodies that know nothing of it.

What makes each part correct, in one line: the **scheduler** starts work only
on top of success, runs teardown last, returns, and reports what happened; the
**mutex** lets one process in and never blocks for ever; the **writer** never
drops a row silently, never confirms an intent it did not store and never
reverts another process's ending; **settlement** compensates every success once
and always ends the run; **leases** keep two processes from driving one run;
**locks** keep a run exclusive across suspension; a **target** succeeds only with
all it owes done and checked; a **plan** lists what is needed once, behind what it
needs; the **cache** calls only that current which is; a **worker** serves the run
it was configured for, and nobody waits for a dead one. `PROJECT.json` lists the
hazards one by one, at their lines, with the properties that cover them.

## 2. Plan

Written, in this order, the most central behaviour first:

1. `PlanGraph`, `Scheduler`, with `TaskGraph` as the abstract specification, and
   `Scheduler_proofs`.
2. `FileMutex`: the cross-process mutex and the compare-and-swap under it, and
   `FileMutex_proofs`.
3. `RecordWriter`: one owner's writer against everything else that writes.
4. `RunLifecycle`: owners, resumers, settlers and sweeps on one record, with leases
   and the cancel lock lapsing by time, `RunStatus` as the abstract specification,
   and `RunLifecycle_proofs`.
5. `RunLocks`: the locks of targets and of runs, from claim to release.
6. `TargetBody`: one target from launch to verdict.
7. `WorkerHost`: the engine's worker, from run to run.
   `RecordWriter`, `RunLocks`, `TargetBody` and `WorkerHost` each have their
   `..._proofs` beside them.
8. `Planning`: from declared targets to the plan of a run.
9. `LocalBuild`: `Planning` composed with the sequential loop, services and the
   local cache, over several runs of one workspace; `LocalBuild_proofs` is about
   both.

How they fit: `Planning` establishes what `PlanGraph` assumes of a plan;
`Scheduler` takes a target's run as one step between launch and outcome and
`TargetBody` opens that step up; `RunLifecycle` takes the writes and locks of the
processes as steps whose insides are `RecordWriter`'s and `RunLocks`'; the swap
those three take as given is `FileMutex`'s.

Every safety property that a passing run checks, action properties included, is
also a theorem, for every value of the constants, or, where a section says so, for
the behaviours in which nothing was killed or stalled. What no theorem can say
(liveness, and the fairness part of `ImplementsTaskGraph`) stays with TLC.

## 3. The scheduler

`PlanGraph.tla` fixes what a plan is: `Target == 1..N` numbers the targets in
plan order, and a plan records for every target its predecessors (`preds`,
hard and soft edges alike), which targets are teardown
(`.always()`), lenient (`.proceedAfterFailure()`), gates (`.waitsFor`), which
cancel the run when they fail, the skip set, the row of each target as the record
came (`recorded`: all pending, or what an earlier process left of any status),
overlap groups, and the limit.
`IsPlan` is what `planGraph` promises (every predecessor comes earlier) and the
assumption every proof rests on. `Plans`, a constant, is the set of plans a run
may have; the first state picks one.

`Scheduler.tla` is `runScheduled`. The variables are its locals under their own
names (`done`, `settled`, `started`, `runningSet`, `outcomes`, ...), the record's
`rows`, and two positions: `phase` is where the promise is and `cursor` where the
`for` loop of `pump` is. `pump` is synchronous, so while `cursor # 0` nothing
else can step; each iteration is one of `PassOver`, `Abandon`, `Launch`, and the
loop ends in `PumpYields` (something is in flight) or `PumpResolves` (with the
final sweep). Before the first pump `CountCompleted` counts what is skipped and what
the record calls succeeded. Between pumps `BodyStarts` marks a body under way;
`Completes`, `Fails` and `Parks` are what `runTarget` can come back with, and
`FlushFails` a target whose row was written and whose buffered output then could not
be, so that it fails after all; `Abort` is the run's abort signal, `Returns` the code
after the promise. What a target does from launch to outcome happens inside these steps
and is `TargetBody`'s.

`TaskGraph.tla` promises a reader of the docs: a target is launched when what it
depends on is finished, work in flight finishes or parks, a failed or aborted run
gives up on what it cannot reach, and the run closes with all targets accounted
for. `Graph == INSTANCE TaskGraph WITH ...` in `Scheduler` maps the bookkeeping to
it; a target swept when the promise resolves still counts as `todo` until the
failed run gives up on it, since a suspended run leaves it to its resume.

| Run | Plans | Shows |
|---|---|---|
| `sched` | 3 targets: all wirings, teardown among the last two and gates among the first two, a lenient first target, limit 1 or 2; and resumed runs with overlap groups, skips, cancelling failures and the rows of an earlier process that parked, was killed or gave up | launches are due: work rests on success, teardown comes last, groups and the limit hold (`LaunchesAreDue`); only gates hold anything back (`NothingIsForgotten`); verdict, rows and a fan-out's conclusion add up (`EndingsAddUp`); a suspension keeps its work; no outcome is taken back, and of recorded successes only what a skip or unwritable output takes (`OutcomesStand`); and it implements `TaskGraph`, liveness included |

Bounds. `MCScheduler` keeps the plans few: only the first target may be lenient or
cancel the run, teardown is among the last two targets, gates among the first two.
Of the past of a resumed run it takes three, with a success, a failure and a gate.
The proofs below take every plan. Three targets are enough for every pairwise
relation between a failing or parked target, one behind it and one beside it; chains of what is held back
can be longer, and for those the proofs below take over. Two in flight is enough
for interleavings of completions; the limit itself is checked at 1 and 2.

Fairness. `FairSpec` asks that the pump's own steps are taken (the event loop
turns) and that each launched body ends or parks (`WF` per target on `Ends`).
Nothing makes a body fail, park or the run abort.

### What is proved about it

`Scheduler_proofs.tla` proves every safety property of `sched`, for every `N` and
every set of plans that satisfies `IsPlan`. The properties are not inductive. The invariant `IInv` adds to `TypeOK`:

- `Ledger`: how the sets relate. `done` is within `settled`, both within
  `started`; what is in flight was launched and is not settled; an outcome
  exists exactly for what settled or parked; the flags say which outcomes exist.
- `Untouched`: a target nobody launched, abandoned or swept has no outcome, and its
  row is no success (those of the record were counted before the first pump). Needed
  for `OutcomesStand`: `Abandon` and the sweep write a row without looking at it.
- `Accounted`: when the pump's loop has passed a target, it is either looked
  after or not ready and not stranded *as things stood then*, and the sets only
  grow during a loop in ways that keep this. Needed for the final sweep, which
  argues about every target at once from the loop's one-by-one look.
- `Passed`: what was launched before the run was cut short had its predecessors
  in order.

`Reported` describes the verdict after `Returns` and rides on the others, and
`Kept` on it: in a run without gates that neither failed nor was cancelled all
that is over is done, and a pass with nothing in flight starts all it comes by.
`FanOutsAreWhole` rests on it: a fan-out whose items were all started and came out
well is the only one that passes. The theorems for the checked properties
(`LaunchesOrdered`, `NothingForgotten`, `EndingsCorrect`, `NothingTakenBack`) put
together one theorem for each conjunct. Each preservation lemma has one step per
action; the theorems follow by PTL. `OutcomesStand` is an action property: each
action is shown to leave outcomes and successes alone given `IInv`.

`SuspensionKeeps` adds `Resumable`: only gates park, and while the run may still be
resumed nothing was given up on and what was not launched has the row it came with.

`RefinesTaskGraph` proves the safety part of `ImplementsTaskGraph`: the initial
states are `TaskGraph`'s, and under `IInv`, `Reported` and `HeldBack` (the
sweep leaves undone only what something unsettled holds back) every step is one of its steps or a stutter,
action by action. So `Spec => Graph!GraphSafety`. The refinement mapping had to name the status of a target by nested `IF`s: a `CASE`
with arms that overlap, as the first version had it, denotes any of them, and no
proof can tell which.

Assumed: `NAssumption` and `PlansAssumption`, named in `PlanGraph`; that the
planner delivers such plans is `EveryPlanIsSound` of section 10. Only
model-checked: that `TaskGraph`'s fairness is implemented too.

## 4. The file store's mutex

`FileMutex.tla` is `withFileMutex` with `casWriteJson` as its critical section.
Each call to the host (open with `createNew`, write the stamp, remove, read,
rename) is one step. `pc[p]` is where process `p` is, `marker` what is at the
marker's path (its age stands for the stamp), and `fresh` the processes whose last
read of the record file is still what the file holds, which is what the compare
asks. Any call may reject: in the critical section (`HostFails`), in the `finally`
that removes the marker (`RemoveFails`: the marker stays, its process alive and
gone on), or on the way in and in `steal` (`WaiterFails`: tried again or thrown,
as the code has it call by call). `Crash` is a kill between two calls. `Tick`
lets time pass and a stamp expires when older than `TTL`; it does not age the marker
of a process inside past `TTL`, since the critical section is a few file operations
and the code's thirty seconds (`MUTEX_TTL_MS`) are chosen so that they never outlast
it.

`sighted` and `misled` are history: `steal` renames the path, and whether what it
takes is what was examined is what everything turns on.

- `mutex_crash`: two processes, one killed anywhere, one rejected removal, one other
  rejected call, `TTL = 2`, `Attempts = 3` standing for the code's retry budget. As
  long as no rename took another marker than the one examined, exclusion holds and no
  swap replaces a version it never compared with (`OnlyStaleStealsBreakSwaps`); every
  call ends; a stamped marker left behind is reclaimed. `TTL = 2` lets a stamp be
  fresh, ageing and expired; three attempts give a first, a middle and a last one.
- `mutex_steal`: three processes, one killed, and exclusion is lost (section 11). It
  does not take a kill: one rejected removal and two processes are enough
  (`MaxCrashes = 0`, `MaxLeft = 1`).

Fairness: the clock ticks, and each live process keeps making its steps and keeps
calling (`WF` each); reclaiming needs a later caller, as in the code.

A marker that was left before it got its stamp is never reclaimed: the code counts
an unreadable stamp as live. `NobodyWaitsForEver` speaks of stamped markers only.

### What is proved about it

`FileMutex_proofs.tla`: types (`MutexTyped`, with `Budget`: no call outspends its
attempts), and exclusion in two forms, for any number of processes.
`OnlyStaleStealsBreakExclusion` holds for any kills and rejections. The invariant
`Exclusion` says, for as long as nobody was `misled`, that a holder's marker is there
and as old as its holder's stay, so an expired marker is nobody's
(`LiveMarkersStand`), and that whoever is about to rename the marker it examined is
about to rename an expired one. What is left to break it is the rename that takes
another. `SwapsAreAtomicUnlessLeft` adds `NothingLeft`: where nobody is killed and no
removal rejects (`MaxCrashes = 0`, `MaxLeft = 0`), every marker has its holder, so
nobody ever gets to `steal` and exclusion needs no history variable to state. Neither
hypothesis can be dropped. Liveness is only model-checked.

## 5. The run record writer

`RecordWriter.tla` is one `RunStateWriter` and the `execute` around it. The
record is abstracted to its status, the set of facts in it (rows called
succeeded, effect intents, an audit event) and `degraded`. `chain` is the promise
chain, `op` the write under way with the store call it is at: `put`, `read` after
a conflict, `reput` when a mutation is re-applied onto a settled record.
`current` says whether the version in memory is the store's; every write by
somebody else clears it. Lenient writes (rows, statuses) that throw stay in
memory (`retainedPending`); strict ones (intents) are undone and refused.
`execute` asks for rows and intents, and once its bodies have ended takes one
ending: `Stops` (lost lease or settled elsewhere), `Finishes`, or `Cancels`, which
walks compensations under the cancel lock.

The other processes are the constant `Threats`, each at most once: `settle`
(`zuke cancel`: claim, mark, walk, finalize), `deadline` (a sweep failing a run
past its deadline), `settlerDies`, `takeover` (reap and resume), `prune`. Their
own compare-and-swap loops retry until they meet the stored record, so each of
their writes is one step on it; a second settler that recovers a dead one belongs
to `RunLifecycle`. `MaxRetries = 2` stands for the code's 10, enough to have a
first, a last and an exhausted attempt, `MaxForces` bounds the operator's
overrides (each one conflict), `MaxFaults` the store calls that throw.

| Run | Environment | Shows |
|---|---|---|
| `writer_faults` | two rows, an intent, all threats, one throwing call, one override | intents tell the truth: confirmed means recorded, refused leaves no trace (`IntentsTellTheTruth`); endings are truthful: no silent loss, an own rollback is complete, settlers walk once (`EndingsAreTruthful`); a settled run stands still (`SettledRunsStandStill`); the process gets to the end of its writes (`OwnerStops`) |

"Walked once" and "the first ending stands" are asked as long as the process
meets settlers only (`MeetsOnlySettlers`): one throwing store call breaks both,
see section 11. Fairness: `WF` on the writer's steps (a store call returns or
throws) and on `execute`'s own; nothing is asked of other processes.

### What is proved about it

`RecordWriter_proofs.tla` proves the types and the three safety properties
(`IntentsTellTheTruth`, `EndingsAreTruthful`, `SettledRunsStandStill`), for any
rows and intents, any threats, and any number of attempts, overrides and throwing
calls. The invariant has six parts, each proved from the ones before it:

- `Typed`: the types and a bound on the walks.
- `Ordered`: what can be queued where `execute` is, and who has the cancel lock. A
  write queued early may land late, after others changed the record.
- `Active`: a strict write under way is one of a run that the process saw running.
- `Recorded`: what memory, the store and the answers say of each intent.
  `IntentsTellTheTruth` needs all three at once: a refused intent must be gone from
  memory too, or the next row would carry it into the store.
- `Settling`: while only settlers are met, what the process has learned of them and
  what its next write will tell it. The walk happens once because the process's
  own swap to `cancelling` fails after another's.
- `Ending`: no row is dropped without a word, and nothing follows the write that
  ends the run.

The proof needed a bound that the first version of `SettlersWalkOnce` did not name:
with as many overrides as a write has attempts, each a conflict, the mark of the
owner's own cancellation is given up and a second settler walks again. So the
property asks for `forces < MaxRetries`, as the code has five attempts and an operator
who overrides by hand. `Applied` became nested `IF`s for the same reason as the
scheduler's mapping. Assumed: `MaxRetriesAssumption`,
`ThreatsAssumption`, `FactsAssumption`, `BoundsAssumption`. Only model-checked:
`OwnerStops`.

## 6. The life of a run

`RunLifecycle.tla` is one run and every process that moves it. A process is idle
or in one command, and `pc[p]` says where in it; each step is one call of the
store.

| States of `pc` | Command | Code |
|---|---|---|
| `opening`, `working`, `freeing`, `leaving` | execute a run, fresh or resumed | `executor.ts`, `execute_state.ts` |
| `marking`, `unwinding`, `closing` | its own cancellation: Ctrl-C, a cancelling failure | `execute_cancel.ts` |
| `loaded`, `claimed`, `expiring` | resume a suspended run, or time out its wait | `resume.ts` |
| `settling`, `locked`, `walking`, `asking`, `finalizing` | cancel from outside | `cancel.ts` `settleExternally` |
| `sweeping`, `held` | a sweep at a running run | `reap.ts` `examine` |

They meet in the record (`status`, `intendedTerminal`, `runLock`: a run-held lock
that is recorded on it), the run's `lease` and its `cancelLock`. `late` and `gate`
say that the run's deadline or the parked gate's has passed. A lock lapses when its
holder died; `MaxStalls` lets it lapse under a live holder too, one whose heartbeat
was held up past the TTL. Such a holder goes on as before until a renewal tells it
(`LosesLease`; nobody tells the holder of a cancel lock), which is the window the
code and its docs accept. The swap loops of `resume.ts`, `cancel.ts` and `reap.ts`
re-read until they meet the stored record, so a status change is one step that
looks at the status it replaces. What the record says beside its status, and store
calls that throw, are `RecordWriter`'s.

`RunStatus.tla` is what the orchestration guide promises: a run parks and resumes,
ends once, is unwound at most once and only between the start of its cancellation
and its end, and a cancellation ends. `Run == INSTANCE RunStatus` maps `status` and
`walks` to it as they are.

| Run | Environment | Shows |
|---|---|---|
| `life_live` | 3 processes, one killed anywhere, no stalls, both timeout dispositions | one driver at a time; a run that is worked on is left alone by sweeps and releasers (`LiveRunsAreLeftAlone`); it implements `RunStatus`; an abandoned run moves on |
| `life_stalled` | 3 processes, one killed, one lock lapsing under a live holder | still at most one walk and one ending |
| `life_timeout` | 2 processes, nobody killed | a disagreement of section 11 |

Bounds. Three processes are an owner, whoever takes over from it and one more who
meets both; one kill and one stall, since each is a hazard by itself and a second
process that dies repeats the first. `OneDriver`, `LiveRunsAreLeftAlone` and
`ImplementsRunStatus` are asked without stalls only: with one, two processes do work until the renewal of the first is refused, and the
walk of a canceller that was held up can come after its successor has settled the
run.

Fairness. `FairSpec`: a live process goes on with its command; a dead holder's lock
lapses; and somebody's scheduled sweep looks at runs left `cancelling` or `running`
(`docs/orchestration.md` has `zuke resume --check` run from a schedule). Nothing
makes a body finish or a gate open: `working` may last, as long as its process
lives.

### What is proved about it

`RunLifecycle_proofs.tla` proves, for any processes, kills and stalls, the types,
`CompensatedOnce` and `EndingsAreFinal`. The invariant adds two facts to `TypeOK`.
`OneWalk`: at most one process is between the swap to `cancelling` and its walk,
none is while the run can still be swapped, and none once a walk was made.
`OneOpener`: until the run's record exists, only the process opening it is about
it. No proof step uses the cancel lock: that two cancellers do not both walk is the
swap's doing, and a lapsed cancel lock costs nothing but a settlement done by
another.

While no lock lapsed under a live holder (`stalls = 0`), `OneDriver`,
`LiveRunsAreLeftAlone` and the refinement of `RunStatus` are proved for any processes
and kills. This part does rest on the locks. Its invariant `Quiet` says that who
drives the run, or decides about it under a lock, holds that lock, and that only the
dead lose theirs (`LocksHold`); that a sweep settling a run out of time keeps the
lease until its walk (`LateSettlersHold`); and that nobody works on a parked run or on
one whose locks are being given back (`LeftInPeace`). The theorems speak of behaviours
in which no lock lapses under a live holder; the bounds above say what happens when
one does. `RefinesRunStatus` takes each step to one of `RunStatus` or a stutter:
`Spec /\ [](stalls = 0) => Run!RunSafety`.

Assumed: `NoOneAssumption`, `DispositionsAssumption`, `BoundsAssumption`. Only
model-checked: `AbandonedRunsMove` and the fairness part of `ImplementsRunStatus`.

## 7. Locks

`RunLocks.tla` has runs, targets and keys, each target with one lock: for its body,
or `holdForRun`. Each step is one call of the store with what the caller does on
its answer up to its next `await`.

| Actions | Code |
|---|---|
| `Reach`, `Check`, `Try`, `Retry`, `Conflict` | a target's request and its wait: `lock.ts` `acquireTargetLock`, `run_locks.ts` `covers`, `claim` |
| `Recorded`, `Unrecorded` | the write that lists a run-held lock on the record, and giving the lock back when it fails, landed or not |
| `Suspends`, `Parks`, `Finishes`, `Releases` | the ends of `execute` and `RunLockHolder.park`, `release` |
| `Resumes`, `Reclaims`, `Refused`, `MovesToRunning`, `LosesTheRun` | `resume.ts`, `reclaimRunLocks` |
| `Cancels`, `AsksForOwner`, `Finalizes`, `TimesOut` | who settles a run and whose its locks are then: `cancel.ts`, `resume.ts` |
| `Lapses`, `LapsesUnderHolder`, `Heartbeat`, `Dies` | TTLs, a heartbeat held up, a kill |

A run has one process at a time (`RunLifecycle` is about that). Tokens are unique
names and reused once nobody remembers them, so the state space is finite. `left`
is history: whether a lock's giving back was entrusted to a live process or is
nobody's any more.

`locks_held` takes three configurations: siblings that share a key for the run, one
that takes it for its body only, and a run with two keys of which another run may
take one while it is parked. One trouble (a throwing call, a kill or a lapse under
a live holder) may happen at any point; the second run is never cancelled or
killed, since its part is to compete. Shown: a body's lock is exclusive under the
token the body runs by, through parks, resumes and settlements
(`HeldWhileBodyRuns`); no lock is forgotten; what a run holds for itself is listed,
survives a refused resume, and is shared by its targets
(`RunHeldLocksServeTheRun`); and a request always ends. The lapse of a lock under a
live holder is excused: the code accepts it (`lock.ts:244`).

Fairness is per run, not per target, which is less than the event loop gives, and
TTLs run out. A run may stop for good, so deadlock is not checked. `proc` for the
lease is coarse: the stop that a lost lease brings belongs to `RunLifecycle` and
`RecordWriter`, and two resumes that overlap are left out (section 11).

### What is proved about it

`RunLocks_proofs.tla` proves the types and the three safety properties of
`locks_held`, for any finite sets of runs and targets, any keys and declarations, and
any number of troubles. None of them is inductive, and the invariant relates five
places in which a token can be. It has three layers:

- Who is where (`TargetsInStep`, `ClaimsInStep`, `RunsInStep`): a target in flight
  has a working process, a registered claim belongs to the one target that makes it,
  and a status says what the process and a canceller may be doing.
- Whose token is whose (`FreeLocks`, `Owned`, `Distinct`, `Reclaimed`,
  `Superseded`): a lock whose token a run knows is that run's, no token is known in
  two places by mistake, and what a resume took afresh has replaced what the record
  lists. Without this a release could free a sibling's lock, or a resume revive one
  that somebody else has taken.
- What the properties say (`Backed`, `ListedAreHeld`, `Known`, `Settled`): work rests
  on a lock that is there or lapsed under its holder, the record and the holder
  agree, every lock is known to somebody, and one of an ended run has a keeper.

The proof first says once what each step comes to for single locks
(`StepsHaveEffects`); each part of the invariant is then kept by each of these
effects. Tokens that come back into use once nobody remembers them are an artefact
of the model, so the proof also shows by counting that there always is one
(`FreshIsNew`): that is what `FinitenessAssumption` is for. Assumed besides:
`NoneAssumption`, `RunOfAssumption`, `DeclsAssumption`, `KindsAssumption`,
`BoundsAssumption`. Only model-checked: `RequestsEnd`.

## 8. One target

`TargetBody.tla` is `runTarget` with three activities that meet in promises: `pc`
(lock, `validateBefore`, the race, effects, `validateAfter`, verdict), `chain`
(`runBodyWithRecovery` around `runBody` around the attempts) and the rounds of
checks during the body (`validate_during.ts`: `timer`, `check`, `checkFailure`).
An effect's intent, its function and the record of its outcome are three steps; a
strict write lands, is refused because the run is no longer `running`, or throws,
landed or not. `Crash` may come anywhere; `Resume` launches the target again with
the effects' rows as they are. A lock, a check and an attempt may each fail. Before
all that a target may be forced, declined or found up to date (`Skips`; none of
these calls one with effects succeeded, `force.ts:174`), fail over a parameter or a
gate's trigger that throws (`FailsEarly`), or park at its gate (`Waits`). Assumed: a
gate that has opened is found open when it is asked again after a kill.
A timed-out attempt counts as over: what comes of its code is discarded.

`target_driven` takes a target with everything (two effects, retries with a delay, a
remediation, two checks), a plain one with two retries and one check, one that owes
nothing, and a gate with effects, with two kills and one throwing write: the least with which a kill,
a lost answer and another kill meet over the two effects. Shown: a success was
earned, its checks passed and nothing is owed (`SuccessIsEarned`); effects are
performed only while the record says they are owed and never after it says done
(`OnlyOwedEffectsArePerformed`); an owed effect is driven to an outcome, and a
cancelled target ends although a check ignores the signal
(`NothingIsLeftHanging`). Fairness: the process works on, a body ends by itself or
by its timeout, a check ends unless the run is cancelled, and somebody resumes a run
whose process died (as in section 6). That an effect may be performed twice
when a kill falls between it and its record is what the code says
(`scheduler.ts:313`) and not excluded.

### What is proved about it

`TargetBody_proofs.tla` proves the types, `SuccessIsEarned` and
`OnlyOwedEffectsArePerformed` for any target, any number of effects, retries and
checks, any kills and any throwing writes. The verdict speaks of things settled
steps earlier, so the invariant carries them along: `Validated`, what is known of
the body and its checks from the end of the race on (it stays resolved, and no round
begins); `Driven`, how far the drive of the effects has come (all before the one it
is at are done); `Counted`, how often an effect can have been performed by a process
that is where this one is: once for each kill, and once more only by a process
that has passed it. Assumed: `NEffectsAssumption`, `ShapesAssumption`,
`BoundsAssumption`. Only model-checked: `NothingIsLeftHanging`.

## 9. The engine's worker

`WorkerHost.tla` is `host.ts` over `peer.ts`. A worker is a process (`proc`) and the
engine's end of its socket (`conn`), which close separately; `conf` is the run it
was configured for. Callers (`Body` attempts, and `Config` for the run's start)
share the current worker: `#live` hands it out or lets them wait for the one
replacement in flight (`replacing`), and what is pending on a connection that
closes rejects. `Finishes`, `TellsExit`, `FinishEnds` are `finish()`, which
pre-warms the next worker; `Closing`, `Closed` are `close()`.

`host_runs`: two runs, two bodies, three workers, two faults (a worker dies, hangs
up, refuses or does not start), one body the scheduler gives up on. Two faults are
a death and the failure of its replacement; three workers are the first, its
replacement and the pre-warmed one. Shown: every body is served by a worker
configured for its own run, one worker is alive at a time and none outlives the
host (`OneWorkerServesTheRun`); callers of `#live` get a worker or an error, and a
body whose worker ignores its cancellation is cut off (`NobodyHangs`). Fairness:
the event loop turns, timers fire, the end of a process is seen, a worker asked to
describe or configure itself answers or dies. Bodies may hang.

A timed-out body stays behind as a caller nobody waits for, and may ask for a
worker when its run is over; with one (`timeouts # 0`) the safety properties are
not asked and do not hold (section 11).

### What is proved about it

`WorkerHost_proofs.tla` proves the types for all cases and `OneWorkerServesTheRun` as
the property states it, as long as no body was left behind, for any number of
bodies, workers, runs and faults. The invariant adds to the types: `Graced` (a grace
timer belongs to a body in flight), `Callers` (bodies run between the run's start
and `finish()` only, and await the current worker over a connection that is up),
`Serving` (during the bodies a worker that is up has this run's parameters, and a
replacement is sent them) and `Replacing` (the old worker is down before the next is
spawned, nobody else is alive, and `finish()` meets no replacement). The last three
need each other: a replacement outlives the run only if a body does. Assumed:
`BoundsAssumption`, `ConfigAssumption`. Only model-checked: `NobodyHangs`.

## 10. Plans, and the runs of a workspace

`Planning.tla` takes any build over `Target` to the plan of one run: the command
line's cycle check over all targets (`checking`), `planGraph`'s execution set and
topological order (`ordering`), the conditions asked up front (`Prune`), and the
pass of `affectedTargets` (`Decide`, `Narrow`). The depth-first search is step by
step, with `path` for the stack of grey nodes and `settled` for the black ones in
post-order; wherever the code walks targets in declaration order any order is
tried, so a result that depends on it would show.

`LocalBuild.tla` EXTENDS it with the loop of `runSequential` over that order, the
services a run starts and stops, the incremental cache (`store` in the run's
memory, `disk` for `.zuke/cache.json`) and up to four runs of one workspace.
An output is what it was made from. The developer may edit a source at any
moment, also while a body runs, to something new or back to a content it had, and
delete an output between runs; a run may be cancelled, taken over or killed. Two
history variables serve the property about the cache: `restored`, whether an
earlier content was ever put back, and `slipped`, the targets whose latest body
read something else than the fingerprint of its run is of, or whose run ended
without saving that fingerprint.

| Run | Builds | Shows |
|---|---|---|
| `local_builds` | every dependency graph of three targets, checked or not; mixtures of up to four hard, trigger and soft edges; declined conditions and changes on three trees; a cached pair over four runs; services in a chain or beside a change | plans are sound, skips are justified, bodies rest on their needs, services are held and stopped in order, what is called cached is current |
| `local_undone` | one cached target with a compensation | a disagreement of section 11 |

Bounds: two edits, one deleted output and two kills over four runs (two where no
state store is kept, where a run can only be cancelled or killed), so a change
before, in and after a body all meet a stored fingerprint, a content is edited away
and back, and an output torn by one kill lies under a target whose run is killed
too; three targets close every cycle of mixed kinds and give affected chains a
middle. Assumed: one process at a time in a workspace, outputs deleted only between
runs. There is no liveness: the loop is a bounded walk.

`CachedMeansCurrent` says that an output found cached was made from the inputs its
target has now. It says so of whole outputs: `whole` are the targets whose latest
body came to its end over whole outputs, with nothing deleted since. If the body
read what its fingerprint is of and the run saved it, nothing else is asked, and
contents may come back as they like. If not (the source was edited between
`upToDate` and the body, or the store was not saved), the fingerprint in the store
is of something the output was not made from; a source that goes back to it makes a
wrong hit (section 11), so there the property asks that no content ever came back,
and that the outputs it uses are whole too. About the rest it says nothing, because
the code does not keep it there.

### What is proved about them

`LocalBuild_proofs.tla` proves every property of `local_builds`, for any finite set
of targets, any builds, every walk of the search, and any number of runs, edits,
deleted outputs and kills. Four invariants, the last two on top of both others:

- `ChoiceInv` is the plan's. `PlansAreSound` is not inductive; `Searched` adds that
  the stack is a way along the edges, that what is settled had all its successors
  settled before it, and that no target is on both or on one of them twice. So an
  edge back onto the stack is a cycle, and the reversed post-order keeps to the
  edges. `Spread` is about the pass over the order: it has missed nothing behind it
  and found only what the change reaches. `SkipsAreJustified` compares that with a
  least fixed point, and needs no induction for it: what can make a target affected
  stands before it in the order (`EdgesPointBack`), so once the pass is over what it
  found is closed, and the fixed point is the least closed set.
- `LoopInv` is the loop's: the targets before `next` have their outcome and no other
  has (`InStep`), the target at work was not dismissed (`Undismissed`), and the
  services in `up` are in the order they were started (`Served`).
- `Remembered` is the cache's, for bodies that read what their fingerprint is of:
  the output is what the run's store says of it, or the file once the run is over.
  It holds whatever is edited, back or forth.
- `Traced` is for the other bodies, as long as no content came back. Contents nest
  (an output holds the outputs its body read), so to compare them by depth would
  take an induction the provers do not have. `Traced` says instead that an account
  of the contents exists: `known`, what each target has had so far, and `older`,
  pairs of contents of which the second was made whole after the first was known.
  Both are closed under what contents were made from, a whole output comes after
  every known content of its target, and one that comes after an equal one equals it
  (`Descended`). That last part forbids an output to go back to what it was under a
  fingerprint that remembers it. A fingerprint found to match is then older than the
  output and made from what there is, hence so is the output. `~restored` is a
  premise of this part only: with it an edit makes the newest content (`Versioned`),
  and sources only gain versions.

The theorems: `PlansTyped` and `EveryPlanIsSound` for a plan by itself;
`WorkspaceTyped`, `EveryRunIsPlanned`, `EverySkipIsJustified`, `NeedsComeFirst`,
`ServicesStayUp` and `CachedIsCurrent` for the runs of a workspace. Assumed:
`TargetAssumption`, `BuildsAssumption`, `BoundsAssumption`, `WorkspacesAssumption`.
TLC checked the parts of `ChoiceInv` and `LoopInv` as invariants of the run, and
those of `Traced` with `known` and `older` kept as history variables.

## 11. Where the code and its documentation disagree

Three have a run of one property each; the trace is the shortest TLC finds.

- `mutex_steal` (`state/mutex.ts:99`): a waiter renames away a live marker.
- `life_timeout` (`resume.ts:576`): a wait found expired cancels the run although
  another process has resumed it since.
- `local_undone` (`executor.ts:756`): work a cancelled run found cached and then
  undid is found cached again by the next run, from the fingerprint on disk.

Others were met while modelling. The properties are stated around them, and each
restriction says so where it stands:

- `execute_cancel.ts:109`: a throwing store call hides a settlement elsewhere that
  has finished, and the compensations are walked a second time. By the same path
  `markRunCancelled` (`state/writer.ts:374`) stamps `cancelled` over a run a sweep
  settled `failed` (`MeetsOnlySettlers`).
- `cancel.ts:910`: a success recorded after an outside canceller's read is not
  compensated, though `docs/orchestration.md:425` has all succeeded targets unwound.
- `scheduler.ts:989`: a resume re-evaluates skip conditions and rewrites the row of
  a target that had succeeded, against the comment at `:996` (`CountCompleted`; an
  exception that `OutcomesStand` names, as is the flush that throws at `:1127`).
- `scheduler.ts:1018`: whether teardown behind a gate runs depends on whether the
  gate parked before the failure; the test at
  `../tests/executor_test.ts:3163` says it must not.
- `scheduler.ts:157`: an abort during a retry's delay or a remediation still starts
  one more attempt, against the comment at `:154`. `TargetBody` has it so.
- `resume.ts:256`: of two resumes that overlap, the one that took the lease later
  re-claims, and records, the lock tokens of its earlier reading, against the
  comment at `:392`. `RunLocks` lets a run be resumed by one at a time.
- `run_locks.ts`: a re-claim that throws on its second lock leaves those it had
  retaken to their TTL; a target that takes a key for its body is refused while a
  sibling's run-held claim on it is granted but not yet recorded.
- A target whose body failed over an older output, its inputs again those of the
  stored fingerprint (the output had been deleted, or `--no-cache`), is found cached
  by the next run, against `docs/caching.md:94`.
- The same one level up: an output torn by a kill is found cached (its deleted
  predecessor had left a fingerprint that matches), another target is built over it,
  and that run is killed before it saves. Once the dependency, deleted again, is
  rebuilt from the same inputs as ever, the older fingerprint of the second target
  matches although its output was made from the torn one. Both are why
  `CachedMeansCurrent` speaks of whole outputs.
- `cache.ts:382`: what is recorded for a body is the fingerprint of the look-up
  (`:284`). If the source is edited between the look-up and the body and put back
  afterwards, the next run finds the target cached over an output made from the
  other content. The same comes of a run that does not save its store (cancelled
  with compensations, taken over, killed): its output stands, the file has the
  fingerprint of the run before, and a source put back to that one is found cached.
  Hence `slipped` and `restored` in `CachedMeansCurrent`.
- `packages/engine/src/host.ts`: `#fatal` (`:525`, `:577`) is never cleared, so one
  failed replacement ends every later run of the host; `finish()` (`:816`) does not
  wait for a replacement that a left-behind body asked for, which may then serve
  the next run unconfigured or outlive the host; an abort during `#live` sends no
  `run.cancel` to the worker that comes, and the grace timer's `kill()` hits the
  siblings on the same worker (`timeouts = 0` in two properties; the others are
  modelled as they are).

## 12. What is not modelled

- The remote cache (archives, signing, transfer) and a second process in one
  workspace; of the incremental cache, how files are hashed.
- The items of a fan-out one by one: a fan-out is a nested run of the scheduler with
  one verdict. References to undeclared targets and the snapshot kept for a resume's
  drift check.
- The HTTP store: a client of a service that is not in the repository; its
  conditional write is the swap that `RecordWriter` takes as given.
- The engine's wire format, its tools and the channels a worker calls back on, and
  serving over a network.
- Canary steps: sequential, driven by external metrics, without state between calls.
- The command line, rendering, CI file generation, shell and archive utilities, the
  AI packages and the tool wrappers. They transform data or build command lines and
  keep no state whose order could go wrong; tests serve them better. They are most
  of the repository: some sixty wrapper packages and the AI reviewer make up the
  bulk of its lines, so the share of all lines that the modules map is small,
  while the orchestrating core is covered file by file.

## 13. Running it

`tlc -config Scheduler_live.cfg MCScheduler.tla` checks a run (module and
configuration of every run are in `PROJECT.json`), `tlapm Scheduler_proofs.tla`
checks the proofs. Every checked property has a mutant, an operator that changes
one definition the way a plausible bug would and makes the run fail; they stand
in the modules beside the definitions they change, marked `Mutant`. A property of
several conjuncts has one for each where it can.
