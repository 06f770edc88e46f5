---------------------------- MODULE FileMutex ----------------------------
(***************************************************************************)
(* `withFileMutex` (packages/core/src/state/mutex.ts) guarding             *)
(* `casWriteJson` (state/json_file_cas.ts): how the filesystem store makes *)
(* a compare-and-swap out of an exclusive marker file.                     *)
(*                                                                         *)
(* Every host call is a step of its own, so the steps of the processes     *)
(* interleave freely; any call may reject, and a process may be killed     *)
(* between any two of them, leaving its marker behind.  Only the age of    *)
(* the marker's stamp matters, so time is that age, capped one past the    *)
(* TTL.  The compared version is modelled by `fresh`: the processes whose  *)
(* last read of the file is still what the file holds.                     *)
(***************************************************************************)
EXTENDS Naturals, FiniteSets

CONSTANTS
  Proc,        \* processes sharing the state directory
  TTL,         \* MUTEX_TTL_MS, in ticks
  Attempts,    \* LOCK_ATTEMPTS
  MaxCrashes,  \* bound: how many processes may be killed
  MaxLeft,     \* bound: rejected removals, each leaving a marker behind
  MaxFaults    \* bound: other rejected calls of a process without the marker

ASSUME TTLAssumption == TTL \in Nat
ASSUME AttemptsAssumption == Attempts \in Nat \ {0}
ASSUME BoundsAssumption == {MaxCrashes, MaxLeft, MaxFaults} \subseteq Nat

VARIABLES
  pc,       \* where each process is in withFileMutex
  marker,   \* the marker file: NoMarker, or its stamp's presence and age
  tries,    \* attempts made in the current call
  held,     \* ticks since the process stamped its marker
  fresh,    \* processes whose last read of the file is current
  sighted,  \* history: the marker that is there is the one they last examined
  misled,   \* history: some rename took a marker its process had not examined
  left, faults

historyVars == <<sighted, misled>>
vars == <<pc, marker, tries, held, fresh, historyVars, left, faults>>

NoMarker == [there |-> FALSE, stamped |-> FALSE, age |-> 0]
Unstamped == [there |-> TRUE, stamped |-> FALSE, age |-> 0]
Stamped == [there |-> TRUE, stamped |-> TRUE, age |-> 0]

Inside == {"comparing", "publishing"}           \* running the critical section
Holding == Inside \cup {"stamping", "removing"} \* created the marker
PC == Holding \cup {"idle", "creating", "reading", "renaming", "discarding", "dead"}

TypeOK ==
  /\ pc \in [Proc -> PC]
  /\ marker \in [there : BOOLEAN, stamped : BOOLEAN, age : 0 .. TTL + 1]
  /\ tries \in [Proc -> 0 .. Attempts]
  /\ held \in [Proc -> 0 .. TTL]
  /\ fresh \subseteq Proc /\ sighted \subseteq Proc
  /\ misled \in BOOLEAN
  /\ left \in 0 .. MaxLeft /\ faults \in 0 .. MaxFaults

Init ==
  /\ pc = [p \in Proc |-> "idle"]
  /\ marker = NoMarker
  /\ tries = [p \in Proc |-> 0]
  /\ held = [p \in Proc |-> 0]
  /\ fresh = {} /\ sighted = {} /\ misled = FALSE
  /\ left = 0 /\ faults = 0

Goto(p, from, to) == pc[p] = from /\ pc' = [pc EXCEPT ![p] = to]

(* Mutants: the attempts are counted but not limited; not even counted. *)
RetryUnlimited(p, from) ==
  /\ tries' = [tries EXCEPT ![p] = @ + 1]
  /\ Goto(p, from, "creating")

(* The loop's next attempt, or the error after the last one. *)
Retry(p, from) ==
  /\ tries' = [tries EXCEPT ![p] = @ + 1]
  /\ Goto(p, from, IF tries[p] + 1 < Attempts THEN "creating" ELSE "idle")

-----------------------------------------------------------------------------
(* A caller reads the file, then asks for the mutex to write over it. *)
Call(p) ==
  /\ Goto(p, "idle", "creating")
  /\ tries' = [tries EXCEPT ![p] = 0]
  /\ fresh' = fresh \cup {p}
  /\ UNCHANGED <<marker, held, historyVars, left, faults>>

Create(p) ==
  /\ ~marker.there
  /\ Goto(p, "creating", "stamping")
  /\ marker' = Unstamped
  /\ UNCHANGED <<tries, held, fresh, historyVars, left, faults>>

FindTaken(p) ==
  /\ marker.there
  /\ Goto(p, "creating", "reading")
  /\ UNCHANGED <<marker, tries, held, fresh, historyVars, left, faults>>

(* Writing the stamp goes by path: it creates the file if it is gone. *)
Stamp(p) ==
  /\ Goto(p, "stamping", "comparing")
  /\ marker' = Stamped
  /\ held' = [held EXCEPT ![p] = 0]
  /\ UNCHANGED <<tries, fresh, historyVars, left, faults>>

(* Mutant: the swap goes ahead whatever the compare said. *)
CompareNothing(p) ==
  /\ Goto(p, "comparing", "publishing")
  /\ UNCHANGED <<marker, tries, held, fresh, historyVars, left, faults>>

(* The compare: go on to publish, or answer a conflict. *)
Compare(p) ==
  /\ Goto(p, "comparing", IF p \in fresh THEN "publishing" ELSE "removing")
  /\ UNCHANGED <<marker, tries, held, fresh, historyVars, left, faults>>

(* The swap: from here on only this process has read the current content. *)
Publish(p) ==
  /\ Goto(p, "publishing", "removing")
  /\ fresh' = {p}
  /\ UNCHANGED <<marker, tries, held, historyVars, left, faults>>

(* A host call of the holder rejects: nothing is published. *)
HostFails(p) ==
  /\ \E from \in {"stamping", "comparing", "publishing"} : Goto(p, from, "removing")
  /\ UNCHANGED <<marker, tries, held, fresh, historyVars, left, faults>>

(* Whoever has examined the marker has not examined the next one. *)
MarkerGone == marker' = NoMarker /\ sighted' = {}

(* The `finally`: remove whatever marker is there. *)
Remove(p) ==
  /\ Goto(p, "removing", "idle")
  /\ MarkerGone
  /\ UNCHANGED <<tries, held, fresh, misled, left, faults>>

(* The removal rejects: the call throws, and its marker stays as it is,     *)
(* the marker of a process that is no longer inside.                        *)
RemoveFails(p) ==
  /\ left < MaxLeft
  /\ left' = left + 1
  /\ Goto(p, "removing", "idle")
  /\ UNCHANGED <<marker, tries, held, fresh, historyVars, faults>>

(* Mutant: a marker without a stamp counts as abandoned. *)
expiredUnlessStamped == marker.there /\ (marker.stamped => marker.age > TTL)

(* Mutant: no marker is ever too old. *)
expiredNever == FALSE

(* `markerExpired`: only a readable stamp can be too old. *)
expired == marker.there /\ marker.stamped /\ marker.age > TTL

Examine(p) ==
  /\ IF expired THEN Goto(p, "reading", "renaming") /\ UNCHANGED tries
                ELSE Retry(p, "reading")
  /\ sighted' = sighted \cup {p}
  /\ UNCHANGED <<marker, held, fresh, misled, left, faults>>

(* `steal`: rename the marker aside, then delete it and try to create.  The *)
(* rename takes the marker that is there now, not the one that was read.    *)
Rename(p) ==
  /\ IF marker.there THEN Goto(p, "renaming", "discarding") /\ UNCHANGED tries
                     ELSE Retry(p, "renaming")
  /\ MarkerGone
  /\ misled' = (misled \/ (marker.there /\ p \notin sighted))
  /\ UNCHANGED <<held, fresh, left, faults>>

Discard(p) ==
  /\ Retry(p, "discarding")
  /\ UNCHANGED <<marker, held, fresh, historyVars, left, faults>>

(* A call of a process that does not hold the marker rejects.  A marker     *)
(* that may not be read or renamed just now is tried again; whatever else   *)
(* the create, the read or the deletion throws ends the call.               *)
WaiterFails(p) ==
  /\ faults < MaxFaults
  /\ faults' = faults + 1
  /\ \/ \E from \in {"reading", "renaming"} : Retry(p, from)
     \/ /\ \E from \in {"creating", "reading", "discarding"} : Goto(p, from, "idle")
        /\ UNCHANGED tries
  /\ UNCHANGED <<marker, held, fresh, historyVars, left>>

-----------------------------------------------------------------------------
(* The process is killed: no `finally` runs. *)
Crash(p) ==
  /\ Cardinality({q \in Proc : pc[q] = "dead"}) < MaxCrashes
  /\ pc[p] \notin {"idle", "dead"}
  /\ pc' = [pc EXCEPT ![p] = "dead"]
  /\ fresh' = fresh \ {p}
  /\ UNCHANGED <<marker, tries, held, historyVars, left, faults>>

(* Time passes.  A live holder is assumed to leave within the TTL.          *)
Tick ==
  /\ marker.stamped
  /\ marker.age <= TTL
  /\ \A p \in Proc : pc[p] \in Inside \cup {"removing"} => held[p] < TTL
  /\ marker' = [marker EXCEPT !.age = @ + 1]
  /\ held' = [p \in Proc |-> IF pc[p] \in Inside \cup {"removing"}
                             THEN held[p] + 1 ELSE held[p]]
  /\ UNCHANGED <<pc, tries, fresh, historyVars, left, faults>>

Step(p) ==
  \/ Create(p) \/ FindTaken(p) \/ Stamp(p) \/ Compare(p) \/ Publish(p)
  \/ HostFails(p) \/ Remove(p) \/ Examine(p) \/ Rename(p) \/ Discard(p)

Fails(p) == RemoveFails(p) \/ WaiterFails(p)

Next == (\E p \in Proc : Call(p) \/ Step(p) \/ Fails(p) \/ Crash(p)) \/ Tick

Spec == Init /\ [][Next]_vars

(* Live processes keep going and keep calling; the clock keeps ticking.     *)
FairSpec ==
  /\ Spec
  /\ WF_vars(Tick)
  /\ \A p \in Proc : WF_vars(Call(p)) /\ WF_vars(Step(p))

-----------------------------------------------------------------------------
(* Two processes are never in the critical section together.                *)
MutualExclusion ==
  \A p, q \in Proc : pc[p] \in Inside /\ pc[q] \in Inside => p = q

(* The compare still holds when the swap happens: no published write is     *)
(* overwritten by one that never saw it.                                    *)
SwapsReplaceWhatTheyCompared == \A p \in Proc : pc[p] = "publishing" => p \in fresh

(* Compare and swap are one step to everybody else: the processes that swap *)
(* never meet, and none swaps on a comparison that no longer holds.         *)
SwapsAreAtomic == MutualExclusion /\ SwapsReplaceWhatTheyCompared

(* Whoever is killed and whatever call rejects, leaving any number of       *)
(* markers behind: exclusion is lost in one way only, by a waiter whose     *)
(* rename takes another marker than the one it examined (mutex.ts:99).      *)
OnlyStaleStealsBreakSwaps == ~misled => SwapsAreAtomic

(* A marker that was left stamped does not wedge the directory.             *)
Abandoned ==
  /\ marker.stamped
  /\ \A p \in Proc : pc[p] \notin Holding

AbandonedMarkersAreReclaimed == Abandoned ~> ~Abandoned

(* Every call ends, acquired or refused, unless its process is killed.      *)
CallsEnd == \A p \in Proc : pc[p] = "creating" ~> pc[p] \in {"idle", "dead"}

(* Neither contention nor a marker left behind wedges the directory:        *)
(* callers are answered, and a stamped marker nobody holds is reclaimed.    *)
NobodyWaitsForEver == CallsEnd /\ AbandonedMarkersAreReclaimed
=============================================================================
