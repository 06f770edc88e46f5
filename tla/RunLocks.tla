------------------------------ MODULE RunLocks ------------------------------
(***************************************************************************)
(* Cross-run locks: a target's own lock (lock.ts) and the run-held locks   *)
(* that outlive it (run_locks.ts), over the store's TTL locks, with the    *)
(* record that carries run-held locks from one process to the next and     *)
(* everyone who gives them back: the target, the run's end                 *)
(* (executor.ts), a refused resume (resume.ts) and a canceller             *)
(* (cancel.ts).                                                            *)
(*                                                                         *)
(* Each step is one call of the store, with what the process does on its   *)
(* answer up to its next await.  A run has one process at a time, the      *)
(* holder of its lease (RunLifecycle is about the lease itself).           *)
(*                                                                         *)
(* A lock's TTL runs out when no process renews it, or when the heartbeat  *)
(* of a live process was held up or kept failing (a stall).                *)
(***************************************************************************)
EXTENDS Naturals, FiniteSets

CONSTANTS
  Run, Target, Key,
  None,        \* no run, no target
  RunOf,       \* the run each target belongs to
  Decls,       \* lock declarations of the targets to check, see `decl`
  Parking,     \* runs whose plan has a gate
  Steady,      \* bound: runs that nobody cancels or kills
  Faults,      \* the store calls that may fail: "record", "release", "reclaim"
  MaxTroubles  \* bound: store calls that fail, processes killed, and locks
               \* that lapse under a live process, together

ASSUME NoneAssumption == None \notin Run \cup Target
ASSUME RunOfAssumption == RunOf \in [Target -> Run]
ASSUME DeclsAssumption ==
  Decls \subseteq [Target -> [key : Key, holdForRun : BOOLEAN, polls : Nat]]
ASSUME KindsAssumption ==
  /\ Parking \subseteq Run /\ Steady \subseteq Run
  /\ Faults \subseteq {"record", "release", "reclaim"}
ASSUME FinitenessAssumption == IsFiniteSet(Run) /\ IsFiniteSet(Target)
ASSUME BoundsAssumption == MaxTroubles \in Nat

VARIABLES
  decl,      \* each target's lock: key, holdForRun, and retries its wait allows
  locks,     \* the store's lock files
  status,    \* record.status
  listed,    \* record.locks: the token listed for each key, 0 for none
  proc,      \* what the run's process is doing
  aborted,   \* env.signal.aborted
  held,      \* RunLockHolder.#held: the token of each key, 0 for none
  pending,   \* RunLockHolder.#pending: the target whose claim is in flight
  pc,        \* where each target is
  token,     \* the token a target was granted, 0 for none
  polls,     \* retries left of a target's wait
  claim,     \* a resume's progress through the recorded locks
  canc,      \* a canceller's progress
  lapsed,    \* history: <<key, token>> whose lock lapsed under a live process
  troubles   \* bound used up

targetVars == <<pc, token, polls>>
procVars == <<proc, aborted, held, pending, claim>>
vars == <<decl, locks, status, listed, procVars, targetVars, canc, lapsed, troubles>>

key(t) == decl[t].key
TargetsOf(r) == {t \in Target : RunOf[t] = r}

(* Tokens are unique names.  One that nobody remembers any more is as good  *)
(* as new, so this many suffice: a run has one listed, one in each target's *)
(* hands, one held and one being re-claimed, and the store one of its own.  *)
Tokens == 1..(Cardinality(Target) + 3 * Cardinality(Run) + MaxTroubles + 2)

(* `left` is history: "entrusted" to the process by whoever settled the     *)
(* run, or an "orphan" nobody can give back any more.                       *)
Lock == [token : Tokens \cup {0}, run : Run \cup {None}, live : BOOLEAN,
         left : {"no", "entrusted", "orphan"}]
Free == [token |-> 0, run |-> None, live |-> FALSE, left |-> "no"]
NoTokens == [k \in Key |-> 0]
NoClaim == [todo |-> {}, got |-> NoTokens, retaken |-> {}]

Asking == {"checking", "asking", "refused", "granted"}
InFlight == Asking \cup {"body"}
PC == InFlight \cup {"idle", "done", "failed"}
Alive == {"working", "parking", "settling", "resuming"}

known(k) ==
  {locks[k].token} \cup {listed[r][k] : r \in Run} \cup {held[r][k] : r \in Run}
    \cup {claim[r].got[k] : r \in Run}
    \cup {token[t] : t \in {u \in Target : key(u) = k}}
    \cup {n \in Tokens : <<k, n>> \in lapsed}

Fresh(k) == CHOOSE n \in Tokens : n \notin known(k)

(* The token the run's process has in hand, so that it is renewed or will   *)
(* be by the step in progress.                                              *)
InHand(r, k) ==
  IF proc[r] \in Alive
  THEN ({held[r][k], claim[r].got[k]}
        \cup {token[t] : t \in {u \in TargetsOf(r) : key(u) = k}}) \ {0}
  ELSE {}

Init ==
  /\ decl \in Decls
  /\ locks = [k \in Key |-> Free]
  /\ status = [r \in Run |-> "running"]
  /\ listed = [r \in Run |-> NoTokens]
  /\ proc = [r \in Run |-> "working"]
  /\ aborted = [r \in Run |-> FALSE]
  /\ held = [r \in Run |-> NoTokens]
  /\ pending = [r \in Run |-> [k \in Key |-> None]]
  /\ pc = [t \in Target |-> "idle"]
  /\ token = [t \in Target |-> 0]
  /\ polls = [t \in Target |-> decl[t].polls]
  /\ claim = [r \in Run |-> NoClaim]
  /\ canc = [r \in Run |-> "no"]
  /\ lapsed = {}
  /\ troubles = 0

-----------------------------------------------------------------------------
(* The store's lock calls (state/fs_store.ts), each atomic under its mutex. *)

(* `acquireLock` takes a lock that nobody has or whose TTL ran out. *)
Takeable(k) == ~locks[k].live

Granted(r, k, n) == [token |-> n, run |-> r, live |-> TRUE, left |-> "no"]

(* `renewLock` only asks whether the token is still the recorded one: a     *)
(* lapsed lock nobody took comes back to life.                              *)
Renews(k, n) == n # 0 /\ locks[k].token = n
Renewed(l) == [l EXCEPT !.live = TRUE]

(* `releaseLock` removes the lock under its own token only. *)
Released(l, n) == IF n # 0 /\ l.token = n THEN Free ELSE l

(* A release is best effort: one that fails leaves the lock to its TTL.     *)
Abandoned(l, n) == IF n # 0 /\ l.token = n THEN [l EXCEPT !.left = "orphan"] ELSE l

Trouble == troubles < MaxTroubles /\ troubles' = troubles + 1
Fault(kind) == kind \in Faults /\ Trouble
NoFault == UNCHANGED troubles

(* Give back the tokens `gone[k]`; under a fault one of the calls fails.    *)
GiveBack(gone) ==
  \/ /\ NoFault
     /\ locks' = [k \in Key |-> Released(locks[k], gone[k])]
  \/ /\ \E k \in Key : gone[k] # 0 /\ locks[k].token = gone[k]
     /\ Fault("release")
     /\ \E bad \in {k \in Key : gone[k] # 0 /\ locks[k].token = gone[k]} :
          locks' = [k \in Key |-> IF k = bad THEN Abandoned(locks[k], gone[k])
                                  ELSE Released(locks[k], gone[k])]

Only(k, n) == [NoTokens EXCEPT ![k] = n]

-----------------------------------------------------------------------------
(* A target asks for its lock (lock.ts).                                    *)

Reach(t) ==
  /\ pc[t] = "idle" /\ proc[RunOf[t]] = "working" /\ ~aborted[RunOf[t]]
  /\ pc' = [pc EXCEPT ![t] = "checking"]
  /\ UNCHANGED <<decl, locks, status, listed, procVars, token, polls, canc, lapsed, troubles>>

(* Mutant: a claim is not registered, so siblings race for the key. *)
CheckUnregistered(t) ==
  LET r == RunOf[t] k == key(t) IN
  /\ pc[t] = "checking" /\ pending[r][k] = None
  /\ pc' = [pc EXCEPT ![t] = IF held[r][k] # 0 THEN "body" ELSE "asking"]
  /\ UNCHANGED <<decl, locks, status, listed, procVars, token, polls, canc, lapsed, troubles>>

(* `covers` and `claim` wait for a claim in flight; a key the run holds is  *)
(* taken as it is; a run-held claim is registered in the same step.         *)
Check(t) ==
  LET r == RunOf[t] k == key(t) IN
  /\ pc[t] = "checking" /\ pending[r][k] = None
  /\ IF held[r][k] # 0
     THEN pc' = [pc EXCEPT ![t] = "body"] /\ UNCHANGED pending
     ELSE /\ pc' = [pc EXCEPT ![t] = "asking"]
          /\ pending' = IF decl[t].holdForRun THEN [pending EXCEPT ![r][k] = t] ELSE pending
  /\ UNCHANGED <<decl, locks, status, listed, proc, aborted, held, claim, token, polls,
                 canc, lapsed, troubles>>

(* One attempt.  A target-scoped lock goes straight to its body.            *)
Try(t) ==
  LET r == RunOf[t] k == key(t) IN
  /\ pc[t] = "asking"
  /\ IF Takeable(k)
     THEN /\ token' = [token EXCEPT ![t] = Fresh(k)]
          /\ locks' = [locks EXCEPT ![k] = Granted(r, k, Fresh(k))]
          /\ pc' = [pc EXCEPT ![t] = IF decl[t].holdForRun THEN "granted" ELSE "body"]
     ELSE pc' = [pc EXCEPT ![t] = "refused"] /\ UNCHANGED <<token, locks>>
  /\ UNCHANGED <<decl, status, listed, procVars, polls, canc, lapsed, troubles>>

(* Mutant: the wait is never spent. *)
mayRetryForEver(t) == ~aborted[RunOf[t]] /\ held[RunOf[t]][key(t)] = 0

(* The wait is not spent, the run not cancelled, the key not the run's own. *)
MayRetry(t) == polls[t] > 0 /\ ~aborted[RunOf[t]] /\ held[RunOf[t]][key(t)] = 0

Retry(t) ==
  /\ pc[t] = "refused" /\ MayRetry(t)
  /\ pc' = [pc EXCEPT ![t] = "asking"]
  /\ polls' = [polls EXCEPT ![t] = @ - 1]
  /\ UNCHANGED <<decl, locks, status, listed, procVars, token, canc, lapsed, troubles>>

(* Mutant: a claim that failed stays registered. *)
ConflictKeepsClaim(t) ==
  LET r == RunOf[t] k == key(t) IN
  /\ pc[t] = "refused" /\ ~MayRetry(t)
  /\ pc' = [pc EXCEPT ![t] = IF ~decl[t].holdForRun /\ held[r][k] # 0 THEN "body" ELSE "failed"]
  /\ UNCHANGED <<decl, locks, status, listed, procVars, token, polls, canc, lapsed, troubles>>

(* The conflict stands, unless a sibling's claim landed meanwhile.          *)
Conflict(t) ==
  LET r == RunOf[t] k == key(t) IN
  /\ pc[t] = "refused" /\ ~MayRetry(t)
  /\ pc' = [pc EXCEPT ![t] = IF ~decl[t].holdForRun /\ held[r][k] # 0 THEN "body" ELSE "failed"]
  /\ pending' = IF decl[t].holdForRun THEN [pending EXCEPT ![r][k] = None] ELSE pending
  /\ UNCHANGED <<decl, locks, status, listed, proc, aborted, held, claim, token, polls,
                 canc, lapsed, troubles>>

(* `recordRunLock` lands on a running record; the holder adopts the lock.   *)
Recorded(t) ==
  LET r == RunOf[t] k == key(t) IN
  /\ pc[t] = "granted" /\ status[r] = "running"
  /\ listed' = [listed EXCEPT ![r][k] = token[t]]
  /\ held' = [held EXCEPT ![r][k] = token[t]]
  /\ token' = [token EXCEPT ![t] = 0]
  /\ pending' = [pending EXCEPT ![r][k] = None]
  /\ pc' = [pc EXCEPT ![t] = "body"]
  /\ UNCHANGED <<decl, locks, status, proc, aborted, claim, polls, canc, lapsed, troubles>>

(* The record refused the lock (the run is not `running`), or the write     *)
(* threw, whether it landed or not: the lock is given straight back.        *)
Unrecorded(t) ==
  LET r == RunOf[t] k == key(t) IN
  /\ pc[t] = "granted"
  /\ \/ /\ status[r] # "running"
        /\ aborted' = [aborted EXCEPT ![r] = TRUE]
        /\ UNCHANGED listed
        /\ GiveBack(Only(k, token[t]))
     \/ /\ status[r] = "running" /\ Fault("record")
        /\ listed' \in {listed, [listed EXCEPT ![r][k] = token[t]]}
        /\ locks' = [locks EXCEPT ![k] = Released(@, token[t])]
        /\ UNCHANGED aborted
  /\ token' = [token EXCEPT ![t] = 0]
  /\ pending' = [pending EXCEPT ![r][k] = None]
  /\ pc' = [pc EXCEPT ![t] = "failed"]
  /\ UNCHANGED <<decl, status, proc, held, claim, polls, canc, lapsed>>

(* The body is over: a target-scoped lock is released on every path.        *)
BodyEnds(t) ==
  LET r == RunOf[t] k == key(t) IN
  /\ pc[t] = "body" /\ proc[r] = "working"
  /\ pc' = [pc EXCEPT ![t] = "done"]
  /\ GiveBack(Only(k, token[t]))
  /\ token' = [token EXCEPT ![t] = 0]
  /\ UNCHANGED <<decl, status, listed, procVars, polls, canc, lapsed>>

-----------------------------------------------------------------------------
(* The process of a run: parking, ending, dying (executor.ts).              *)

Idle(r) == \A t \in TargetsOf(r) : pc[t] \notin InFlight
Failed(r) == \E t \in TargetsOf(r) : pc[t] = "failed"

(* A state write met a run that another process is settling.               *)
Notices(r) ==
  /\ proc[r] = "working" /\ status[r] # "running" /\ ~aborted[r]
  /\ aborted' = [aborted EXCEPT ![r] = TRUE]
  /\ UNCHANGED <<decl, locks, status, listed, proc, held, pending, claim, targetVars,
                 canc, lapsed, troubles>>

(* Only a gate is left: the record says suspended and keeps the locks.     *)
Suspends(r) ==
  /\ proc[r] = "working" /\ r \in Parking /\ Idle(r) /\ ~Failed(r) /\ ~aborted[r]
  /\ status[r] = "running"
  /\ status' = [status EXCEPT ![r] = "suspended"]
  /\ proc' = [proc EXCEPT ![r] = "parking"]
  /\ UNCHANGED <<decl, locks, listed, aborted, held, pending, claim, targetVars, canc,
                 lapsed, troubles>>

(* `park` renews every lock for a full TTL and stops; the lease goes.      *)
Parks(r) ==
  /\ proc[r] = "parking"
  /\ locks' = [k \in Key |-> IF Renews(k, held[r][k]) THEN Renewed(locks[k]) ELSE locks[k]]
  /\ held' = [held EXCEPT ![r] = NoTokens]
  /\ proc' = [proc EXCEPT ![r] = "none"]
  /\ UNCHANGED <<decl, status, listed, aborted, pending, claim, targetVars, canc, lapsed, troubles>>

(* The run is over.  An ending written elsewhere stands.                   *)
Finishes(r) ==
  /\ proc[r] = "working" /\ Idle(r)
  /\ IF status[r] = "running"
     THEN /\ status' = [status EXCEPT ![r] = "ended"]
          /\ listed' = [listed EXCEPT ![r] = NoTokens]
     ELSE UNCHANGED <<status, listed>>
  /\ proc' = [proc EXCEPT ![r] = "settling"]
  /\ UNCHANGED <<decl, locks, aborted, held, pending, claim, targetVars, canc, lapsed, troubles>>

(* Every ending but parking gives the run's locks back, then the lease.    *)
Releases(r) ==
  /\ proc[r] = "settling"
  /\ GiveBack(held[r])
  /\ held' = [held EXCEPT ![r] = NoTokens]
  /\ proc' = [proc EXCEPT ![r] = "none"]
  /\ UNCHANGED <<decl, status, listed, aborted, pending, claim, targetVars, canc, lapsed>>

(* The process is killed.  What only it knew nobody can give back now.     *)
Dies(r) ==
  /\ proc[r] \in Alive /\ r \notin Steady
  /\ Trouble
  /\ proc' = [proc EXCEPT ![r] = "dead"]
  /\ locks' = [k \in Key |->
       IF locks[k].run = r /\ (locks[k].token # listed[r][k] \/ locks[k].left = "entrusted")
       THEN [locks[k] EXCEPT !.left = "orphan"] ELSE locks[k]]
  /\ held' = [held EXCEPT ![r] = NoTokens]
  /\ pending' = [pending EXCEPT ![r] = [k \in Key |-> None]]
  /\ claim' = [claim EXCEPT ![r] = NoClaim]
  /\ pc' = [t \in Target |-> IF RunOf[t] = r /\ pc[t] \in InFlight THEN "idle" ELSE pc[t]]
  /\ token' = [t \in Target |-> IF RunOf[t] = r THEN 0 ELSE token[t]]
  /\ polls' = [t \in Target |-> IF RunOf[t] = r THEN decl[t].polls ELSE polls[t]]
  /\ UNCHANGED <<decl, status, listed, aborted, canc, lapsed>>

(* Its lease lapses; a sweep hands the run back to be resumed (reap.ts).    *)
LeaseLapses(r) ==
  /\ proc[r] = "dead"
  /\ proc' = [proc EXCEPT ![r] = "none"]
  /\ UNCHANGED <<decl, locks, status, listed, aborted, held, pending, claim, targetVars,
                 canc, lapsed, troubles>>

HandsBack(r) ==
  /\ status[r] = "running" /\ proc[r] = "none"
  /\ status' = [status EXCEPT ![r] = "suspended"]
  /\ UNCHANGED <<decl, locks, listed, procVars, targetVars, canc, lapsed, troubles>>

-----------------------------------------------------------------------------
(* A resume re-claims the recorded locks (resume.ts, run_locks.ts).         *)

Resumes(r) ==
  /\ status[r] = "suspended" /\ proc[r] = "none"
  /\ proc' = [proc EXCEPT ![r] = "resuming"]
  /\ claim' = [claim EXCEPT ![r] =
       [todo |-> {k \in Key : listed[r][k] # 0}, got |-> listed[r], retaken |-> {}]]
  /\ UNCHANGED <<decl, locks, status, listed, aborted, held, pending, targetVars, canc,
                 lapsed, troubles>>

(* Mutant: a refused resume gives back everything it re-claimed. *)
retakenAll(r) == [k \in Key |-> IF k \in claim[r].todo THEN 0 ELSE claim[r].got[k]]

Retaken(r) == [k \in Key |-> IF k \in claim[r].retaken THEN claim[r].got[k] ELSE 0]

(* Renew the recorded lock, or take it afresh if it went and is free.       *)
Reclaims(r, k) ==
  /\ proc[r] = "resuming" /\ k \in claim[r].todo
  /\ LET n == claim[r].got[k] done == [claim[r] EXCEPT !.todo = @ \ {k}] IN
     \/ /\ Renews(k, n)
        /\ locks' = [locks EXCEPT ![k] = Renewed(@)]
        /\ claim' = [claim EXCEPT ![r] = done]
     \/ /\ ~Renews(k, n) /\ Takeable(k)
        /\ locks' = [locks EXCEPT ![k] = Granted(r, k, Fresh(k))]
        /\ claim' = [claim EXCEPT ![r] =
             [done EXCEPT !.got[k] = Fresh(k), !.retaken = @ \cup {k}]]
  /\ UNCHANGED <<decl, status, listed, proc, aborted, held, pending, targetVars, canc, lapsed, troubles>>

LeavesResume(r) ==
  /\ proc' = [proc EXCEPT ![r] = "none"]
  /\ claim' = [claim EXCEPT ![r] = NoClaim]
  /\ UNCHANGED <<decl, status, listed, aborted, held, pending, targetVars, canc, lapsed>>

(* It went to another run: what was taken afresh goes back.                 *)
Refused(r, k) ==
  /\ proc[r] = "resuming" /\ k \in claim[r].todo
  /\ ~Renews(k, claim[r].got[k]) /\ ~Takeable(k)
  /\ GiveBack(Retaken(r))
  /\ LeavesResume(r)

(* A store call that throws ends the resume without giving anything back.   *)
ReclaimThrows(r) ==
  /\ proc[r] = "resuming" /\ claim[r].todo # {} /\ Fault("reclaim")
  /\ locks' = [k \in Key |-> Abandoned(locks[k], Retaken(r)[k])]
  /\ LeavesResume(r)

(* What the record lists from now on: the locks re-claimed, if any were.    *)
Listing(r) == IF claim[r].got = NoTokens THEN listed[r] ELSE claim[r].got

(* suspended -> running with the tokens now held, if it is still suspended. *)
MovesToRunning(r) ==
  /\ proc[r] = "resuming" /\ claim[r].todo = {} /\ status[r] = "suspended"
  /\ status' = [status EXCEPT ![r] = "running"]
  /\ listed' = [listed EXCEPT ![r] = Listing(r)]
  /\ held' = [held EXCEPT ![r] = Listing(r)]
  /\ locks' = [k \in Key |-> IF Renews(k, Listing(r)[k])
                             THEN [locks[k] EXCEPT !.left = "no"] ELSE locks[k]]
  /\ claim' = [claim EXCEPT ![r] = NoClaim]
  /\ aborted' = [aborted EXCEPT ![r] = FALSE]
  /\ proc' = [proc EXCEPT ![r] = "working"]
  /\ UNCHANGED <<decl, pending, targetVars, canc, lapsed, troubles>>

LosesTheRun(r) ==
  /\ proc[r] = "resuming" /\ claim[r].todo = {} /\ status[r] # "suspended"
  /\ GiveBack(Retaken(r))
  /\ LeavesResume(r)

-----------------------------------------------------------------------------
(* Settlers from outside.                                                   *)

(* Mutant: whether a run was parked is left out of the question. *)
CancelsAskingAlways(r) ==
  /\ canc[r] = "no" /\ status[r] \in {"running", "suspended"} /\ r \notin Steady
  /\ status' = [status EXCEPT ![r] = "cancelling"]
  /\ canc' = [canc EXCEPT ![r] = "walking"]
  /\ UNCHANGED <<decl, locks, listed, procVars, targetVars, lapsed, troubles>>

(* `zuke cancel` (cancel.ts): mark, walk, finalize.  The locks of a run     *)
(* that was running are its process's to give back, if there is one still;  *)
(* nobody else would give back those of a run that was suspended.           *)
Cancels(r) ==
  /\ canc[r] = "no" /\ status[r] \in {"running", "suspended"} /\ r \notin Steady
  /\ status' = [status EXCEPT ![r] = "cancelling"]
  /\ canc' = [canc EXCEPT ![r] = IF status[r] = "suspended" THEN "gone" ELSE "walking"]
  /\ UNCHANGED <<decl, locks, listed, procVars, targetVars, lapsed, troubles>>

(* Mutant: the canceller never asks. *)
ownerNeverMatters(r) == TRUE

OwnerIsGone(r) == proc[r] = "none"

AsksForOwner(r) ==
  /\ canc[r] = "walking"
  /\ canc' = [canc EXCEPT ![r] = IF OwnerIsGone(r) THEN "gone" ELSE "there"]
  /\ UNCHANGED <<decl, locks, status, listed, procVars, targetVars, lapsed, troubles>>

(* The lease of a run that died at work may be a resume's, which knows of   *)
(* no locks but those it takes afresh.                                      *)
Entrusted(r, k) ==
  IF listed[r][k] # 0 /\ locks[k].token = listed[r][k]
  THEN [locks[k] EXCEPT !.left = IF proc[r] \in Alive \ {"resuming"} THEN "entrusted" ELSE "orphan"]
  ELSE locks[k]

Finalizes(r) ==
  /\ canc[r] \in {"gone", "there"}
  /\ canc' = [canc EXCEPT ![r] = "no"]
  /\ status' = [status EXCEPT ![r] = "ended"]
  /\ listed' = [listed EXCEPT ![r] = NoTokens]
  /\ IF canc[r] = "gone" THEN GiveBack(listed[r])
     ELSE locks' = [k \in Key |-> Entrusted(r, k)] /\ NoFault
  /\ UNCHANGED <<decl, procVars, targetVars, lapsed>>

(* A sweep fails a run whose wait expired (resume.ts, failTimedOut).        *)
TimesOut(r) ==
  /\ r \in Parking /\ status[r] = "suspended"
  /\ status' = [status EXCEPT ![r] = "ended"]
  /\ listed' = [listed EXCEPT ![r] = NoTokens]
  /\ GiveBack(listed[r])
  /\ UNCHANGED <<decl, procVars, targetVars, canc, lapsed>>

-----------------------------------------------------------------------------
(* Time.                                                                    *)

Tended(k) == locks[k].run # None /\ locks[k].token \in InHand(locks[k].run, k)

(* The TTL of a lock that no process renews runs out. *)
Lapses(k) ==
  /\ locks[k].live /\ ~Tended(k)
  /\ locks' = [locks EXCEPT ![k].live = FALSE]
  /\ UNCHANGED <<decl, status, listed, procVars, targetVars, canc, lapsed, troubles>>

LapsesUnderHolder(k) ==
  /\ locks[k].live /\ Tended(k) /\ Trouble
  /\ locks' = [locks EXCEPT ![k].live = FALSE]
  /\ lapsed' = lapsed \cup {<<k, locks[k].token>>}
  /\ UNCHANGED <<decl, status, listed, procVars, targetVars, canc>>

(* A heartbeat that comes late finds its lock still there. *)
Heartbeat(k) ==
  /\ ~locks[k].live /\ Tended(k) /\ proc[locks[k].run] = "working"
  /\ locks' = [locks EXCEPT ![k] = Renewed(@)]
  /\ UNCHANGED <<decl, status, listed, procVars, targetVars, canc, lapsed, troubles>>

TargetStep(t) == \/ Check(t) \/ Try(t) \/ Retry(t) \/ Conflict(t) \/ Recorded(t)
                 \/ Unrecorded(t) \/ BodyEnds(t)
Ends(r) == Parks(r) \/ Releases(r)
ResumeStep(r) == \/ \E k \in Key : Reclaims(r, k) \/ Refused(r, k)
                 \/ ReclaimThrows(r) \/ MovesToRunning(r) \/ LosesTheRun(r)
CancelStep(r) == AsksForOwner(r) \/ Finalizes(r)

Next ==
  \/ \E t \in Target : Reach(t) \/ TargetStep(t)
  \/ \E r \in Run : \/ Notices(r) \/ Suspends(r) \/ Finishes(r) \/ Ends(r) \/ Dies(r)
                    \/ LeaseLapses(r) \/ HandsBack(r) \/ Resumes(r) \/ ResumeStep(r)
                    \/ Cancels(r) \/ CancelStep(r) \/ TimesOut(r)
  \/ \E k \in Key : Lapses(k) \/ LapsesUnderHolder(k) \/ Heartbeat(k)

Spec == Init /\ [][Next]_vars

(* Whoever works on a run goes on: store calls answer, bodies end, a run    *)
(* with nothing in flight starts what is left, parks or ends, the lease of  *)
(* a dead process lapses; and TTLs run out.  Per run and not per target,    *)
(* which is less than the code gives.  Nobody has to resume, hand back,     *)
(* cancel or kill anything.                                                 *)
Works(r) ==
  \/ \E t \in TargetsOf(r) : Reach(t) \/ TargetStep(t)
  \/ Suspends(r) \/ Finishes(r) \/ Ends(r) \/ LeaseLapses(r)
  \/ ResumeStep(r) \/ CancelStep(r)

Fairness == (\A r \in Run : WF_vars(Works(r))) /\ (\A k \in Key : WF_vars(Lapses(k)))

FairSpec == Spec /\ Fairness

-----------------------------------------------------------------------------
(* The types of what the steps compute with, beside the declarations. *)
Typed ==
  /\ locks \in [Key -> Lock]
  /\ status \in [Run -> {"running", "suspended", "cancelling", "ended"}]
  /\ listed \in [Run -> [Key -> Tokens \cup {0}]]
  /\ proc \in [Run -> Alive \cup {"none", "dead"}]
  /\ held \in [Run -> [Key -> Tokens \cup {0}]]
  /\ pending \in [Run -> [Key -> Target \cup {None}]]
  /\ pc \in [Target -> PC]
  /\ token \in [Target -> Tokens \cup {0}]
  /\ claim \in [Run -> [todo : SUBSET Key, got : [Key -> Tokens \cup {0}], retaken : SUBSET Key]]
  /\ canc \in [Run -> {"no", "walking", "gone", "there"}]
  /\ lapsed \subseteq Key \X Tokens

TypeOK ==
  /\ decl \in Decls
  /\ Typed
  /\ aborted \in [Run -> BOOLEAN]
  /\ polls \in [Target -> Nat] /\ \A t \in Target : polls[t] <= decl[t].polls
  /\ troubles \in 0..MaxTroubles

(* The token a body runs under: its target's own or, if it is covered, the *)
(* run's.                                                                   *)
credential(t) == IF token[t] # 0 THEN token[t] ELSE held[RunOf[t]][key(t)]

(* The lock is exclusive while a body runs: the store holds the key for     *)
(* the body's run under the token it runs by, through every park, crash,    *)
(* resume and settlement, unless that lock lapsed under a live process,     *)
(* which the TTL accepts (lock.ts:244).                                     *)
HeldWhileBodyRuns ==
  \A t \in Target : pc[t] = "body" =>
    \/ /\ locks[key(t)].live /\ locks[key(t)].run = RunOf[t]
       /\ locks[key(t)].token = credential(t)
    \/ <<key(t), credential(t)>> \in lapsed

(* Every live lock is known to someone who will give it back: the record,   *)
(* its process, or, left behind by a crash or a failed release, the TTL.    *)
LiveLocksAreKnown ==
  \A k \in Key : locks[k].live /\ locks[k].left = "no" =>
    LET r == locks[k].run IN
    locks[k].token \in {listed[r][k]} \cup InHand(r, k)

(* While a process drives a running run, the record lists every lock it     *)
(* holds for the run under the token it holds it by: what a later process   *)
(* has to renew and any settler to give back (run_locks.ts:9).              *)
RecordKeepsRunLocks ==
  \A r \in Run, k \in Key :
    proc[r] \in {"working", "parking"} /\ status[r] \in {"running", "suspended"}
      /\ held[r][k] # 0 => listed[r][k] = held[r][k]

(* A target that asks for its lock gets to its body or is refused; claims   *)
(* on one key never wait for each other in a circle.                        *)
RequestsEnd == \A t \in Target : pc[t] \in Asking ~> pc[t] \notin Asking

(* Once a run has ended and nobody works on it, it holds nothing, except    *)
(* what a crash or a failed release left to the TTL: between the process    *)
(* that parks, resumes or stops and whoever settles the run, one of them    *)
(* gives every lock back (executor.ts:739).                                 *)
EndedRunsHoldNothing ==
  \A r \in Run, k \in Key :
    status[r] = "ended" /\ proc[r] = "none" /\ locks[k].run = r /\ locks[k].live
      => locks[k].left = "orphan"

(* No lock is forgotten: while it lives somebody knows its token, and a run *)
(* that is over has given back what it held.                                *)
NoLockIsForgotten == LiveLocksAreKnown /\ EndedRunsHoldNothing

(* What a run holds for itself serves the whole run.  The record lists it,  *)
(* and a lock it lists of a parked run stays in the store, also when a      *)
(* resume is refused or fails, until the record stops listing it or its TTL *)
(* runs out.  Siblings that claim one key share it: no claim is refused by  *)
(* a lock the run holds or is taking for the run itself (run_locks.ts:82).  *)
(* This is what it says of one step.                                        *)
RunHeldLocksServe ==
  /\ RecordKeepsRunLocks'
  /\ \A r \in Run, k \in Key :
       /\ status[r] = "suspended" /\ status'[r] = "suspended"
       /\ locks[k].live /\ locks[k].token = listed[r][k]
       => locks'[k].token = listed[r][k]
  /\ \A t \in Target :
       pc[t] = "asking" /\ pc'[t] = "refused" /\ decl[t].holdForRun =>
         LET k == key(t) r == RunOf[t] IN
         /\ locks[k].token # held[r][k]
         /\ \A u \in TargetsOf(r) : decl[u].holdForRun /\ key(u) = k => token[u] # locks[k].token

(* What a run holds for itself serves the whole run, at every step: listed, *)
(* kept while it is parked, and shared by siblings (run_locks.ts:82).       *)
RunHeldLocksServeTheRun == [][RunHeldLocksServe]_vars
=============================================================================
