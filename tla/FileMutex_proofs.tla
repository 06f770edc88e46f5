-------------------------- MODULE FileMutex_proofs --------------------------
(***************************************************************************)
(* The mutex for any number of processes, any TTL and any retry budget:    *)
(* its bookkeeping; that a rename of a marker nobody examined is the only  *)
(* way to lose exclusion, whatever is killed and whatever rejects; and     *)
(* that it takes a killed process or a rejected removal to get there.      *)
(*                                                                         *)
(* Exclusion as such is no theorem: FileMutex_steal.cfg loses it.          *)
(***************************************************************************)
EXTENDS FileMutex, FiniteSetTheorems, TLAPS

Trying == {"creating", "reading", "renaming", "discarding"}

(* A process that is still trying has an attempt left. *)
Budget == \A p \in Proc : pc[p] \in Trying => tries[p] < Attempts

Bookkept == TypeOK /\ Budget

LEMMA Markers ==
  /\ {NoMarker, Unstamped, Stamped} \subseteq
       [there : BOOLEAN, stamped : BOOLEAN, age : 0 .. TTL + 1]
  BY TTLAssumption DEF NoMarker, Unstamped, Stamped

LEMMA RetryKeepsBooks ==
  ASSUME Bookkept, NEW p \in Proc, NEW from \in Trying, Retry(p, from)
  PROVE  /\ pc' \in [Proc -> PC] /\ tries' \in [Proc -> 0 .. Attempts]
         /\ Budget'
<1>1. tries[p] + 1 \in 0 .. Attempts
  BY AttemptsAssumption DEF Bookkept, TypeOK, Budget, Retry, Goto
<1>2. pc' \in [Proc -> PC] /\ tries' \in [Proc -> 0 .. Attempts]
  BY <1>1 DEF Bookkept, TypeOK, Retry, Goto, PC, Holding, Inside
<1>3. \A q \in Proc : q # p => pc'[q] = pc[q] /\ tries'[q] = tries[q]
  BY DEF Bookkept, TypeOK, Retry, Goto
<1>4. pc'[p] \in Trying => tries'[p] < Attempts
  BY DEF Bookkept, TypeOK, Retry, Goto, Trying
<1> QED
  BY <1>2, <1>3, <1>4 DEF Bookkept, Budget

LEMMA BooksKept == Bookkept /\ [Next]_vars => Bookkept'
<1> SUFFICES ASSUME Bookkept, [Next]_vars PROVE Bookkept'
  OBVIOUS
<1> USE DEF Bookkept, PC, Holding, Inside, Trying, historyVars
<1>1. ASSUME NEW p \in Proc, Call(p) PROVE Bookkept'
  <2>1. tries'[p] < Attempts /\ tries' \in [Proc -> 0 .. Attempts]
    BY <1>1, AttemptsAssumption DEF Call, TypeOK
  <2> QED
    BY <1>1, <2>1 DEF Call, Goto, TypeOK, Budget
<1>2. ASSUME NEW p \in Proc, Create(p) \/ FindTaken(p) PROVE Bookkept'
  BY <1>2, Markers DEF Create, FindTaken, Goto, TypeOK, Budget
<1>3. ASSUME NEW p \in Proc, Stamp(p) PROVE Bookkept'
  <2>1. 0 \in 0 .. TTL
    BY TTLAssumption
  <2> QED
    BY <1>3, <2>1, Markers DEF Stamp, Goto, TypeOK, Budget
<1>4. ASSUME NEW p \in Proc, Compare(p) \/ Publish(p) \/ HostFails(p) \/ Remove(p)
      PROVE  Bookkept'
  BY <1>4, Markers DEF Compare, Publish, HostFails, Remove, MarkerGone, Goto, TypeOK, Budget
<1>5. ASSUME NEW p \in Proc, Examine(p) PROVE Bookkept'
  <2>1. CASE expired
    BY <1>5, <2>1 DEF Examine, Goto, TypeOK, Budget
  <2>2. CASE ~expired
    BY <1>5, <2>2, RetryKeepsBooks DEF Examine, TypeOK
  <2> QED
    BY <2>1, <2>2
<1>6. ASSUME NEW p \in Proc, Rename(p) PROVE Bookkept'
  <2>1. CASE marker.there
    BY <1>6, <2>1, Markers DEF Rename, MarkerGone, Goto, TypeOK, Budget
  <2>2. CASE ~marker.there
    BY <1>6, <2>2, RetryKeepsBooks, Markers DEF Rename, MarkerGone, TypeOK
  <2> QED
    BY <2>1, <2>2
<1>7. ASSUME NEW p \in Proc, Discard(p) PROVE Bookkept'
  BY <1>7, RetryKeepsBooks DEF Discard, TypeOK
<1>8. ASSUME NEW p \in Proc, Crash(p) PROVE Bookkept'
  BY <1>8 DEF Crash, TypeOK, Budget
<1>9. ASSUME NEW p \in Proc, RemoveFails(p) PROVE Bookkept'
  <2>1. left' \in 0 .. MaxLeft
    BY <1>9, BoundsAssumption DEF RemoveFails, TypeOK
  <2> QED
    BY <1>9, <2>1 DEF RemoveFails, Goto, TypeOK, Budget
<1>10. ASSUME NEW p \in Proc, WaiterFails(p) PROVE Bookkept'
  <2>1. faults' \in 0 .. MaxFaults
    BY <1>10, BoundsAssumption DEF WaiterFails, TypeOK
  <2>2. CASE \E from \in {"reading", "renaming"} : Retry(p, from)
    BY <1>10, <2>1, <2>2, RetryKeepsBooks DEF WaiterFails, TypeOK
  <2>3. CASE /\ \E from \in {"creating", "reading", "discarding"} : Goto(p, from, "idle")
             /\ UNCHANGED tries
    BY <1>10, <2>1, <2>3 DEF WaiterFails, Goto, TypeOK, Budget
  <2> QED
    BY <1>10, <2>2, <2>3 DEF WaiterFails
<1>11. CASE Tick
  <2>1. marker' \in [there : BOOLEAN, stamped : BOOLEAN, age : 0 .. TTL + 1]
    BY <1>11, TTLAssumption DEF Tick, TypeOK
  <2>2. held' \in [Proc -> 0 .. TTL]
    BY <1>11, TTLAssumption DEF Tick, TypeOK
  <2> QED
    BY <1>11, <2>1, <2>2 DEF Tick, TypeOK, Budget
<1>12. CASE UNCHANGED vars
  BY <1>12 DEF vars, historyVars, TypeOK, Budget
<1> QED
  BY <1>1, <1>2, <1>3, <1>4, <1>5, <1>6, <1>7, <1>8, <1>9, <1>10,
     <1>11, <1>12 DEF Next, Step, Fails

LEMMA InitBookkept == Init => Bookkept
<1> SUFFICES ASSUME Init PROVE Bookkept
  OBVIOUS
<1>1. 0 \in 0 .. TTL /\ 0 \in 0 .. Attempts /\ 0 \in 0 .. MaxLeft /\ 0 \in 0 .. MaxFaults
  BY TTLAssumption, AttemptsAssumption, BoundsAssumption
<1>2. TypeOK
  BY <1>1, Markers DEF Init, TypeOK, PC
<1>3. Budget
  BY DEF Init, Budget, Trying
<1> QED
  BY <1>2, <1>3 DEF Bookkept

(* Every variable keeps its type; with Budget: no call tries more often than *)
(* LOCK_ATTEMPTS allows.                                                    *)
THEOREM MutexTyped == Spec => []TypeOK
<1>1. Bookkept => TypeOK
  BY DEF Bookkept
<1> QED
  BY <1>1, InitBookkept, BooksKept, PTL DEF Spec

-----------------------------------------------------------------------------
(* Exclusion. *)

Holders == {p \in Proc : pc[p] \in Holding}

OneHolder == \A p, q \in Holders : p = q

(* The marker of a live holder is there, and as old as its holder's stay:    *)
(* it never looks expired.                                                  *)
MarkerStands ==
  /\ marker.stamped => marker.there
  /\ Holders # {} => marker.there
  /\ \A p \in Holders :
       /\ pc[p] = "stamping" => ~marker.stamped
       /\ pc[p] # "stamping" /\ marker.stamped => marker.age = held[p]

ComparedStill == \A p \in Proc : pc[p] = "publishing" => p \in fresh

(* Who is about to rename the marker it examined is about to rename one that *)
(* has expired.                                                             *)
StealsTheExpired == \A p \in Proc : pc[p] = "renaming" /\ p \in sighted => expired

Guarded == OneHolder /\ MarkerStands /\ ComparedStill /\ StealsTheExpired

Exclusion == Bookkept /\ (~misled => Guarded)

LEMMA InitExcludes == Init => Exclusion
<1> SUFFICES ASSUME Init PROVE Exclusion
  OBVIOUS
<1>1. Holders = {}
  BY DEF Init, Holders, Holding, Inside
<1> QED
  BY <1>1, InitBookkept
  DEF Init, Exclusion, Guarded, OneHolder, MarkerStands, ComparedStill, StealsTheExpired, NoMarker

(* An expired marker is nobody's. *)
LEMMA LiveMarkersStand == Bookkept /\ Guarded /\ expired => Holders = {}
<1> SUFFICES ASSUME Bookkept, Guarded, expired, NEW p \in Holders PROVE FALSE
  OBVIOUS
<1>1. marker.age = held[p]
  BY DEF Guarded, MarkerStands, expired
<1>2. held[p] \in 0 .. TTL
  BY DEF Bookkept, TypeOK, Holders
<1> QED
  BY <1>1, <1>2, TTLAssumption DEF expired

(* No step but a rename of a marker that was not examined breaks the guard.  *)
LEMMA GuardKept ==
  ASSUME Bookkept, Bookkept', Guarded, [Next]_vars, ~misled'
  PROVE  Guarded'
<1>0. pc \in [Proc -> PC] /\ pc' \in [Proc -> PC]
  BY DEF Bookkept, TypeOK
<1> USE DEF OneHolder, MarkerStands, ComparedStill, StealsTheExpired, Holders, Holding, Inside,
            historyVars
<1>1. ASSUME NEW p \in Proc, Call(p) \/ FindTaken(p) PROVE Guarded'
  <2>1. Holders' = Holders
    BY <1>0, <1>1 DEF Call, FindTaken, Goto
  <2> QED
    BY <1>0, <1>1, <2>1 DEF Call, FindTaken, Goto, Guarded, expired
<1>2. ASSUME NEW p \in Proc, Create(p) PROVE Guarded'
  <2>1. Holders = {} /\ Holders' = {p}
    BY <1>0, <1>2 DEF Create, Goto, Guarded
  <2>2. ~expired
    BY <1>2 DEF Create, expired
  <2> QED
    BY <1>0, <1>2, <2>1, <2>2 DEF Create, Goto, Guarded, Unstamped
<1>3. ASSUME NEW p \in Proc, Stamp(p) PROVE Guarded'
  <2>1. Holders = {p} /\ Holders' = {p}
    BY <1>0, <1>3 DEF Stamp, Goto, Guarded
  <2>2. held'[p] = 0
    BY <1>3 DEF Stamp, Bookkept, TypeOK
  <2>3. ~expired
    BY <2>1, LiveMarkersStand
  <2> QED
    BY <1>0, <1>3, <2>1, <2>2, <2>3 DEF Stamp, Goto, Guarded, Stamped
<1>4. ASSUME NEW p \in Proc, Compare(p) \/ HostFails(p) PROVE Guarded'
  <2>1. Holders' = Holders
    BY <1>0, <1>4 DEF Compare, HostFails, Goto
  <2> QED
    BY <1>0, <1>4, <2>1 DEF Compare, HostFails, Goto, Guarded, expired
<1>5. ASSUME NEW p \in Proc, Publish(p) PROVE Guarded'
  <2>1. Holders = {p} /\ Holders' = {p}
    BY <1>0, <1>5 DEF Publish, Goto, Guarded
  <2> QED
    BY <1>0, <1>5, <2>1 DEF Publish, Goto, Guarded, expired
<1>6. ASSUME NEW p \in Proc, Remove(p) \/ RemoveFails(p) PROVE Guarded'
  <2>1. Holders' = {}
    BY <1>0, <1>6 DEF Remove, RemoveFails, Goto, Guarded
  <2>2. CASE Remove(p)
    BY <1>0, <2>1, <2>2 DEF Remove, MarkerGone, Goto, Guarded, NoMarker
  <2>3. CASE RemoveFails(p)
    BY <1>0, <2>1, <2>3 DEF RemoveFails, Goto, Guarded, expired
  <2> QED
    BY <1>6, <2>2, <2>3
<1>7. ASSUME NEW p \in Proc, Examine(p) PROVE Guarded'
  <2>1. /\ Holders' = Holders /\ UNCHANGED <<marker, held, fresh>>
        /\ sighted' = sighted \cup {p} /\ pc[p] = "reading"
        /\ \A q \in Proc \ {p} : pc'[q] = pc[q]
    BY <1>0, <1>7 DEF Examine, Retry, Goto
  <2>2. pc'[p] = "renaming" => expired
    BY <1>0, <1>7 DEF Examine, Retry, Goto
  <2>3. pc'[p] \notin Holding
    BY <1>0, <1>7 DEF Examine, Retry, Goto
  <2> QED
    BY <1>0, <2>1, <2>2, <2>3 DEF Guarded, expired
<1>8. ASSUME NEW p \in Proc, Rename(p) PROVE Guarded'
  <2>1. /\ pc[p] = "renaming" /\ pc'[p] \notin Holding
        /\ \A q \in Proc \ {p} : pc'[q] = pc[q]
        /\ UNCHANGED <<held, fresh>> /\ marker' = NoMarker /\ sighted' = {}
    BY <1>0, <1>8 DEF Rename, MarkerGone, Retry, Goto
  <2>2. Holders = {}
    <3>1. marker.there => p \in sighted
      BY <1>8 DEF Rename
    <3>2. marker.there => expired
      BY <2>1, <3>1 DEF Guarded
    <3> QED
      BY <3>2, LiveMarkersStand DEF Guarded
  <2>3. Holders' = {}
    BY <2>1, <2>2
  <2> QED
    BY <1>0, <2>1, <2>3 DEF Guarded, NoMarker
<1>9. ASSUME NEW p \in Proc, Discard(p) \/ WaiterFails(p) PROVE Guarded'
  <2>1. /\ pc[p] \notin Holding /\ pc'[p] \notin Holding \cup {"renaming"}
        /\ \A q \in Proc \ {p} : pc'[q] = pc[q]
        /\ UNCHANGED <<marker, held, fresh, sighted>>
    BY <1>0, <1>9 DEF Discard, WaiterFails, Retry, Goto
  <2>2. Holders' = Holders
    BY <2>1
  <2> QED
    BY <1>0, <2>1, <2>2 DEF Guarded, expired
<1>10. ASSUME NEW p \in Proc, Crash(p) PROVE Guarded'
  <2>1. /\ pc'[p] = "dead" /\ \A q \in Proc \ {p} : pc'[q] = pc[q]
        /\ UNCHANGED <<marker, held, sighted>> /\ fresh' = fresh \ {p}
    BY <1>0, <1>10 DEF Crash
  <2>2. Holders' \subseteq Holders /\ p \notin Holders'
    BY <2>1
  <2> QED
    BY <1>0, <2>1, <2>2 DEF Guarded, expired
<1>11. CASE Tick
  <2>1. Holders' = Holders
    BY <1>11 DEF Tick
  <2>2. \A p \in Holders : marker.age = held[p] /\ pc[p] # "stamping"
    BY <1>11 DEF Tick, Guarded
  <2>3. \A p \in Holders : marker'.age = held'[p]
    BY <1>11, <2>2 DEF Tick, Bookkept, TypeOK
  <2>4. marker'.there = marker.there /\ marker'.stamped = marker.stamped
    BY <1>11 DEF Tick, Bookkept, TypeOK
  <2>5. ~expired
    BY <1>11, TTLAssumption DEF Tick, expired, Bookkept, TypeOK
  <2> QED
    BY <1>0, <1>11, <2>1, <2>2, <2>3, <2>4, <2>5 DEF Tick, Guarded
<1>12. CASE UNCHANGED vars
  BY <1>0, <1>12 DEF vars, Guarded, expired
<1> QED
  BY <1>1, <1>2, <1>3, <1>4, <1>5, <1>6, <1>7, <1>8, <1>9, <1>10, <1>11, <1>12
  DEF Next, Step, Fails

(* What misled a process is not forgotten. *)
LEMMA MisledStays == Bookkept /\ [Next]_vars /\ misled => misled'
  BY DEF Next, Step, Fails, Call, Create, FindTaken, Stamp, Compare, Publish, HostFails, Remove,
     RemoveFails, Examine, Rename, Discard, WaiterFails, Crash, Tick, vars, historyVars,
     Bookkept, TypeOK

LEMMA ExclusionKept == Exclusion /\ [Next]_vars => Exclusion'
  BY BooksKept, GuardKept, MisledStays DEF Exclusion

LEMMA GuardExcludes == Guarded => SwapsAreAtomic
  BY DEF Guarded, OneHolder, Holders, Holding, ComparedStill, SwapsAreAtomic, MutualExclusion,
     SwapsReplaceWhatTheyCompared

(* However many processes share the directory, whoever is killed and         *)
(* whatever rejects: as long as no rename took another marker than the one  *)
(* examined, no two are in the critical section, and a swap only ever       *)
(* replaces what it was compared with.                                      *)
THEOREM OnlyStaleStealsBreakExclusion == Spec => []OnlyStaleStealsBreakSwaps
<1>1. Exclusion => OnlyStaleStealsBreakSwaps
  BY GuardExcludes DEF Exclusion, OnlyStaleStealsBreakSwaps
<1> QED
  BY <1>1, ExclusionKept, InitExcludes, PTL DEF Spec

-----------------------------------------------------------------------------
(* What it takes to get there. *)

(* Every marker has its holder, so there is nothing to steal. *)
NothingLeft ==
  /\ ~misled
  /\ \A p \in Proc : pc[p] \notin {"dead", "renaming", "discarding"}
  /\ marker.there => Holders # {}

LEMMA NothingLeftKept ==
  ASSUME MaxCrashes = 0, MaxLeft = 0,
         Exclusion, NothingLeft, [Next]_vars
  PROVE  NothingLeft'
<1>0. pc \in [Proc -> PC] /\ Bookkept /\ Guarded
  BY DEF Exclusion, NothingLeft, Bookkept, TypeOK
<1> USE DEF NothingLeft, historyVars
<1>1. ~expired
  BY <1>0, LiveMarkersStand DEF expired
<1>2. ASSUME NEW p \in Proc, Remove(p) PROVE NothingLeft'
  BY <1>0, <1>2 DEF Remove, MarkerGone, Goto, NoMarker
<1>3. ASSUME NEW p \in Proc, Create(p) PROVE NothingLeft'
  BY <1>0, <1>3 DEF Create, Goto, Holders, Holding
<1>4. ASSUME NEW p \in Proc,
             \/ Call(p) \/ FindTaken(p) \/ Stamp(p) \/ Compare(p) \/ Publish(p) \/ HostFails(p)
      PROVE  NothingLeft'
  <2>1. /\ pc'[p] \notin {"dead", "renaming", "discarding"}
        /\ \A q \in Proc \ {p} : pc'[q] = pc[q]
        /\ pc[p] \in Holding => pc'[p] \in Holding
        /\ UNCHANGED misled
    BY <1>0, <1>4 DEF Call, FindTaken, Stamp, Compare, Publish, HostFails, Goto, Holding, Inside
  <2>2. Holders \subseteq Holders'
    BY <2>1 DEF Holders
  <2>3. marker'.there => Holders' # {}
    <3>1. CASE Stamp(p)
      BY <1>0, <3>1 DEF Stamp, Goto, Holders, Holding, Inside
    <3>2. CASE UNCHANGED marker
      BY <2>2, <3>2
    <3> QED
      BY <1>4, <3>1, <3>2 DEF Call, FindTaken, Compare, Publish, HostFails
  <2> QED
    BY <2>1, <2>3
<1>5. ASSUME NEW p \in Proc, Examine(p) \/ WaiterFails(p) PROVE NothingLeft'
  <2>1. /\ pc[p] \notin Holding
        /\ pc'[p] \notin {"dead", "renaming", "discarding"}
        /\ \A q \in Proc \ {p} : pc'[q] = pc[q]
        /\ UNCHANGED <<marker, misled>>
    BY <1>0, <1>1, <1>5 DEF Examine, WaiterFails, Retry, Goto, Holding, Inside
  <2> QED
    BY <2>1 DEF Holders
<1>6. ASSUME NEW p \in Proc PROVE ~Rename(p) /\ ~Discard(p)
  BY DEF Rename, Discard, Retry, Goto
<1>7. ASSUME NEW p \in Proc PROVE ~Crash(p) /\ ~RemoveFails(p)
  <2>1. {q \in Proc : pc[q] = "dead"} = {}
    OBVIOUS
  <2>2. ~(left < MaxLeft)
    BY <1>0 DEF Bookkept, TypeOK
  <2> QED
    BY <2>1, <2>2, FS_EmptySet DEF Crash, RemoveFails
<1>8. CASE Tick
  BY <1>0, <1>8 DEF Tick, Holders, Bookkept, TypeOK
<1>9. CASE UNCHANGED vars
  BY <1>9 DEF vars, Holders
<1> QED
  BY <1>2, <1>3, <1>4, <1>5, <1>6, <1>7, <1>8, <1>9 DEF Next, Step, Fails

(* While no process is killed and no removal of a marker rejects, whatever   *)
(* else rejects and however many wait, compare and swap are one step.       *)
THEOREM SwapsAreAtomicUnlessLeft ==
  ASSUME MaxCrashes = 0, MaxLeft = 0
  PROVE  Spec => []SwapsAreAtomic
<1>1. Init => NothingLeft
  BY DEF Init, NothingLeft, NoMarker
<1>2. Exclusion /\ NothingLeft /\ [Next]_vars => NothingLeft'
  BY NothingLeftKept
<1>3. Exclusion /\ NothingLeft => SwapsAreAtomic
  BY GuardExcludes DEF Exclusion, NothingLeft
<1> QED
  BY <1>1, <1>2, <1>3, InitExcludes, ExclusionKept, PTL DEF Spec
=============================================================================
