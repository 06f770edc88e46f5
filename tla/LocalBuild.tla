---------------------------- MODULE LocalBuild ----------------------------
(***************************************************************************)
(* One workspace and the runs of one build in it, without parallelism: the *)
(* loop of `runSequential`, the services it starts and stops, the          *)
(* incremental cache that outlives each run, and the work of the targets   *)
(* as the cache sees it.  Sources may be edited at any moment, outputs     *)
(* deleted between runs, a run cancelled, taken over or killed.            *)
(*                                                                         *)
(* A target that declares inputs has a source file and may list outputs of *)
(* its dependencies (`uses`) among them.  An edit may bring a new content   *)
(* or an earlier one back.  The remote cache, and a second process in the   *)
(* same workspace, are left out.                                           *)
(***************************************************************************)
EXTENDS Planning

CONSTANTS
  MaxEdits,   \* bound on edits of sources
  MaxCleans,  \* bound on deleted outputs
  MaxKills    \* bound on runs killed

(***************************************************************************)
(* rounds     how many runs of this build there are                        *)
(* services   `service()` targets                                          *)
(* cacheable  targets that declare inputs and no effects                   *)
(* uses       dependencies whose outputs are inputs of a target            *)
(* undoable   targets with an `.onCancel(...)` compensation                *)
(* recorded   whether runs are kept in a state store                       *)
(***************************************************************************)
IsWorkspace(b) ==
  /\ b.rounds \in Nat
  /\ {b.services, b.cacheable, b.undoable} \subseteq SUBSET Target
  /\ b.services \cap b.cacheable = {}
  /\ \A t \in Target : b.uses[t] \subseteq b.depends[t] \ b.services
  /\ b.recorded \in BOOLEAN

ASSUME BoundsAssumption == {MaxEdits, MaxCleans, MaxKills} \subseteq Nat
ASSUME WorkspacesAssumption == \A b \in Builds : IsWorkspace(b)

VARIABLES
  source,   \* content of each target's source, numbered as they came up
  newest,   \* the latest number
  output,   \* what each target's output was made from
  stands,   \* targets whose work has been done and not been undone
  whole,    \* targets whose output is all there: their latest body came to
            \* its end over whole outputs, and nothing was deleted since
  disk,     \* the fingerprints in .zuke/cache.json
  store,    \* the fingerprints of the run's open cache
  seen,     \* the fingerprint upToDate computed in this run
  reads,    \* the inputs the running body has read
  at,       \* where runSequential is with the target at `next`
  next,     \* place of that target in the order
  row,      \* outcome of each target in this run
  signal,   \* why the run stops: "cancel", "lost" for its lease, or "none"
  up,       \* the services this run has to stop, in start order
  astray,   \* services nobody will stop
  restored, \* history: an edit has brought an earlier content back
  slipped,  \* history: targets whose latest body read something else than
            \* its fingerprint is of, or whose run did not save that one
  rounds, edits, cleans, kills

diskVars == <<source, newest, restored, output, stands, whole, disk, slipped>>
builtVars == <<output, stands, whole, disk, slipped>>
sourceVars == <<source, newest, restored>>
runVars == <<store, seen, reads, at, next, row, signal, up, astray>>
boundVars == <<rounds, edits, cleans, kills>>
vars == <<planVars, diskVars, runVars, boundVars>>

None == <<>>
Torn == <<"torn">>
Reported == {"passed", "failed", "skipped", "cached"}
current == order[next]

(* What a target's declared inputs hold: the value fingerprint() hashes.    *)
Inputs(t) == <<source[t], [d \in build.uses[t] |-> output[d]]>>

Unreported == [t \in Target |-> "pending"]
Unknown == [t \in Target |-> None]

LocalInit ==
  /\ Init
  /\ source = [t \in Target |-> 0] /\ newest = [t \in Target |-> 0] /\ restored = FALSE
  /\ output = Unknown /\ stands = {} /\ whole = {} /\ slipped = {}
  /\ disk = Unknown /\ store = Unknown /\ seen = Unknown /\ reads = None
  /\ at = "loop" /\ next = 1 /\ row = Unreported /\ signal = "none"
  /\ up = <<>> /\ astray = {}
  /\ rounds = 1 /\ edits = 0 /\ cleans = 0 /\ kills = 0

running == stage = "planned" /\ rounds <= build.rounds /\ at # "over"
failing == \E t \in Target : row[t] = "failed"

-----------------------------------------------------------------------------
(* The loop.                                                                *)
Turn(where) == running /\ at = where /\ next <= Len(order)

(* Mutant: a failure leaves the loop past its end.                          *)
ReportAndLeave(outcome) ==
  /\ row' = [row EXCEPT ![current] = outcome]
  /\ at' = "loop"
  /\ next' = IF outcome = "failed" THEN Len(order) + 2 ELSE next + 1

(* The target at hand got its outcome; the loop goes on to the next one.    *)
Report(outcome) ==
  /\ row' = [row EXCEPT ![current] = outcome]
  /\ at' = "loop"
  /\ next' = next + 1

(* Mutant: only the signal stops the launching.                             *)
dismissedBySignal == current \in skip \/ signal # "none"

dismissed == current \in skip \/ failing \/ signal # "none"

PassOver ==
  /\ Turn("loop")
  /\ \/ dismissed
     \/ current \in build.optional
  /\ Report("skipped")
  /\ UNCHANGED <<planVars, diskVars, store, seen, reads, signal, up, astray, boundVars>>

(* A missing parameter, a throwing condition, a refused lock.               *)
FailEarly ==
  /\ Turn("loop")
  /\ ~dismissed
  /\ Report("failed")
  /\ UNCHANGED <<planVars, diskVars, store, seen, reads, signal, up, astray, boundVars>>

(* launch_: the process is started, and then waited for.                    *)
StartService ==
  /\ Turn("loop")
  /\ ~dismissed
  /\ current \in build.services
  /\ at' = "launching"
  /\ UNCHANGED <<planVars, diskVars, store, seen, reads, next, row, signal, up, astray, boundVars>>

ServiceReady ==
  /\ Turn("launching")
  /\ up' = Append(up, current)
  /\ \/ Report("passed")
     \/ Report("failed")   \* a lifecycle hook throws afterwards
  /\ UNCHANGED <<planVars, diskVars, store, seen, reads, signal, astray, boundVars>>

(* It is not ready in time, and stopped again; stopping it may fail.        *)
ServiceNotReady ==
  /\ Turn("launching")
  /\ Report("failed")
  /\ \/ UNCHANGED astray
     \/ astray' = astray \cup {current}
  /\ UNCHANGED <<planVars, diskVars, store, seen, reads, signal, up, boundVars>>

(* upToDate: the fingerprint is kept for `record`, hit or miss.             *)
LookUp ==
  /\ Turn("loop")
  /\ ~dismissed
  /\ current \notin build.services
  /\ current \in build.cacheable
  /\ seen' = [seen EXCEPT ![current] = Inputs(current)]
  /\ IF store[current] = Inputs(current) /\ output[current] # None
     THEN Report("cached")
     ELSE at' = "body" /\ UNCHANGED <<next, row>>
  /\ UNCHANGED <<planVars, diskVars, store, reads, signal, up, astray, boundVars>>

GoAhead ==
  /\ Turn("loop")
  /\ ~dismissed
  /\ current \notin build.services \cup build.cacheable
  /\ at' = "body"
  /\ UNCHANGED <<planVars, diskVars, store, seen, reads, next, row, signal, up, astray, boundVars>>

BodyReads ==
  /\ Turn("body")
  /\ reads' = Inputs(current)
  /\ at' = "building"
  /\ whole' = whole \ {current}
  /\ slipped' = IF current \in build.cacheable /\ seen[current] # Inputs(current)
                THEN slipped \cup {current} ELSE slipped \ {current}
  /\ UNCHANGED <<planVars, sourceVars, output, stands, disk, store, seen, next, row, signal, up,
                 astray, boundVars>>

(* Mutant: the fingerprint is taken when the body has returned.             *)
rememberedAfter == IF current \in build.cacheable THEN Inputs(current) ELSE store[current]

(* cache.record keeps the fingerprint that upToDate computed.               *)
remembered == IF current \in build.cacheable THEN seen[current] ELSE store[current]

BodyReturns ==
  /\ Turn("building")
  /\ output' = [output EXCEPT ![current] = reads]
  /\ stands' = stands \cup {current}
  /\ whole' = IF build.uses[current] \subseteq whole THEN whole \cup {current} ELSE whole
  /\ store' = [store EXCEPT ![current] = remembered]
  /\ reads' = None
  /\ \/ Report("passed")
     \/ Report("failed")   \* a lifecycle hook throws afterwards
  /\ UNCHANGED <<planVars, sourceVars, disk, slipped, seen, signal, up, astray, boundVars>>

(* The body throws, or a check of its result does.                          *)
BodyFails ==
  /\ Turn("building")
  /\ \E o \in {output[current], Torn, reads} : output' = [output EXCEPT ![current] = o]
  /\ reads' = None
  /\ Report("failed")
  /\ UNCHANGED <<planVars, sourceVars, stands, whole, disk, slipped, store, seen, signal, up, astray,
                 boundVars>>

-----------------------------------------------------------------------------
(* The end of a run.                                                        *)
atEnd == running /\ next > Len(order)

(* Mutant: the oldest service is stopped first.                             *)
StopOldest ==
  /\ atEnd /\ at = "loop"
  /\ up # <<>>
  /\ up' = Tail(up)
  /\ \/ UNCHANGED astray
     \/ astray' = astray \cup {Head(up)}
  /\ UNCHANGED <<planVars, diskVars, store, seen, reads, at, next, row, signal, boundVars>>

(* stopAll: newest first, and a service that will not stop is reported.     *)
StopService ==
  /\ atEnd /\ at = "loop"
  /\ up # <<>>
  /\ up' = Front(up)
  /\ \/ UNCHANGED astray
     \/ astray' = astray \cup {Last(up)}
  /\ UNCHANGED <<planVars, diskVars, store, seen, reads, at, next, row, signal, boundVars>>

(* Compensations undo what the record calls succeeded, cached work as well; *)
(* `mine` is whether this process settled the run.  The store is written    *)
(* only if the run's fingerprints still describe the workspace.             *)
undone ==
  IF signal = "cancel" /\ build.recorded
  THEN {t \in build.undoable : row[t] \in {"passed", "cached"}} ELSE {}

trustworthy(mine) ==
  /\ signal # "lost"
  /\ signal = "cancel" /\ build.recorded => mine /\ undone = {}

(* What a run that does not save remembers is lost with it.                 *)
unsaved == {t \in Target : store[t] # disk[t]}

EndRun(mine) ==
  /\ atEnd /\ at = "loop"
  /\ up = <<>>
  /\ stands' = stands \ undone
  /\ disk' = IF trustworthy(mine) THEN store ELSE disk
  /\ slipped' = IF trustworthy(mine) THEN slipped ELSE slipped \cup unsaved
  /\ at' = "over"
  /\ UNCHANGED <<planVars, sourceVars, output, whole, store, seen, reads, next, row, signal, up,
                 astray, boundVars>>

(* Ctrl-C, `zuke cancel`, a lease taken over.  Whoever takes a run over     *)
(* settles it too, and may undo its work; that happens elsewhere.           *)
Stop ==
  /\ running
  /\ signal = "none"
  /\ signal' \in {"cancel"} \cup (IF build.recorded THEN {"lost"} ELSE {})
  /\ UNCHANGED <<planVars, diskVars, store, seen, reads, at, next, row, up, astray, boundVars>>

Kill ==
  /\ running
  /\ kills < MaxKills
  /\ kills' = kills + 1
  /\ at' = "over"
  /\ up' = <<>>
  /\ astray' = astray \cup ToSet(up) \cup (IF at = "launching" THEN {current} ELSE {})
  /\ IF at = "building"
     THEN output' = [output EXCEPT ![current] = Torn]
     ELSE UNCHANGED output
  /\ slipped' = slipped \cup unsaved
  /\ UNCHANGED <<planVars, sourceVars, stands, whole, disk, store, seen, reads, next, row, signal,
                 rounds, edits, cleans>>

(* The next invocation finds the same order again and asks the conditions   *)
(* anew; its cache is opened on what was saved.                             *)
RunAgain ==
  /\ at = "over"
  /\ rounds < build.rounds
  /\ rounds' = rounds + 1
  /\ stage' = "pruning"
  /\ pruned' = {} /\ skip' = build.unwanted
  /\ turn' = 1 /\ affected' = {} /\ triggered' = {}
  /\ store' = disk
  /\ seen' = Unknown /\ reads' = None
  /\ at' = "loop" /\ next' = 1 /\ row' = Unreported /\ signal' = "none"
  /\ up' = <<>>
  /\ UNCHANGED <<build, inRun, searchVars, diskVars, astray, edits, cleans, kills>>

-----------------------------------------------------------------------------
(* The developer.                                                           *)
Edit(t) ==
  /\ stage = "planned" /\ rounds <= build.rounds
  /\ t \in build.cacheable
  /\ edits < MaxEdits
  /\ edits' = edits + 1
  /\ \E content \in 0 .. newest[t] + 1 :
       /\ content # source[t]
       /\ source' = [source EXCEPT ![t] = content]
       /\ newest' = [newest EXCEPT ![t] = IF content > @ THEN content ELSE @]
       /\ restored' = (restored \/ content <= newest[t])
  /\ UNCHANGED <<planVars, builtVars, runVars, rounds, cleans, kills>>

Clean(t) ==
  /\ at = "over"
  /\ output[t] # None
  /\ cleans < MaxCleans
  /\ cleans' = cleans + 1
  /\ output' = [output EXCEPT ![t] = None]
  /\ whole' = whole \ {t}
  /\ UNCHANGED <<planVars, sourceVars, stands, disk, slipped, runVars, rounds, edits, kills>>

Plans ==
  /\ PlanStep
  /\ UNCHANGED <<diskVars, runVars, boundVars>>

LoopStep ==
  \/ PassOver \/ FailEarly \/ StartService \/ ServiceReady \/ ServiceNotReady
  \/ LookUp \/ GoAhead \/ BodyReads \/ BodyReturns \/ BodyFails
  \/ StopService \/ \E mine \in BOOLEAN : EndRun(mine)

Done ==
  /\ stage = "refused" \/ (stage = "planned" /\ (at = "over" \/ rounds > build.rounds))
  /\ UNCHANGED vars

Next ==
  \/ Plans \/ LoopStep \/ RunAgain
  \/ Stop \/ Kill
  \/ \E t \in Target : Edit(t) \/ Clean(t)
  \/ Done

Spec == LocalInit /\ [][Next]_vars

-----------------------------------------------------------------------------
TypeOK ==
  /\ PlanTypeOK
  /\ {source, newest} \subseteq [Target -> 0 .. MaxEdits] /\ restored \in BOOLEAN
  /\ {DOMAIN output, DOMAIN disk, DOMAIN store, DOMAIN seen} = {Target}
  /\ stands \subseteq Target /\ whole \subseteq Target /\ slipped \subseteq Target
  /\ at \in {"loop", "launching", "body", "building", "over"}
  /\ next \in 1 .. Len(order) + 1
  /\ row \in [Target -> Reported \cup {"pending"}]
  /\ signal \in {"none", "cancel", "lost"}
  /\ up \in Seq(build.services) /\ astray \subseteq build.services
  /\ rounds \in 1 .. build.rounds + 1
  /\ edits \in 0 .. MaxEdits /\ cleans \in 0 .. MaxCleans /\ kills \in 0 .. MaxKills

FoundCached(t) == row[t] # "cached" /\ row'[t] = "cached"

(* A target is only called up to date over an output its body made from the *)
(* inputs it has now, whatever was edited, put back, cancelled, killed,     *)
(* deleted or undone since (cache.ts:382).  Two things are asked of it.     *)
(* Its output is whole.  And if its body did not read what its fingerprint  *)
(* was taken of, or that was not saved, then no content ever came back and  *)
(* what it uses is whole too: for the rest see the README.                  *)
CachedMeansCurrent ==
  [][\A t \in whole :
       FoundCached(t) /\ (t \in slipped => ~restored /\ build.uses[t] \subseteq whole) =>
         output[t] = Inputs(t)]_vars

(* A body starts on top of what the build declares it needs: everything     *)
(* ordered before it is over, nothing of it failed, and a dependency is     *)
(* only missing where the invocation, a condition or the change says so     *)
(* (scheduler.ts:892).                                                      *)
WorkRestsOnItsNeeds ==
  running /\ at \in {"launching", "body", "building"} =>
    /\ \A p \in DeclaredBefore(current) : row[p] \in {"passed", "cached", "skipped"}
    /\ \A d \in build.depends[current] :
         row[d] = "skipped" =>
           \/ d \in build.unwanted \cup build.optional
           \/ build.narrowed /\ d \notin AllAffected

(* A service is up for as long as the run that started it, is stopped       *)
(* before the services it depends on, and is not left behind unless it will *)
(* not stop or its run is killed (service.ts:225).                          *)
ServicesAreHeld ==
  /\ running /\ next <= Len(order) =>
       \A s \in build.services : row[s] = "passed" => s \in ToSet(up)
  /\ \A i \in DOMAIN up : \A d \in build.depends[up[i]] \cap build.services :
       row[d] = "passed" => \E j \in 1 .. i - 1 : up[j] = d
  /\ at = "over" => up = <<>>

-----------------------------------------------------------------------------
(* A statement of the repository that the code does not keep.               *)

(* docs/caching.md:102: "So when a compensation runs, the whole store is    *)
(* left untouched and the next run rebuilds."                               *)
UndoneWorkIsRebuilt == [][\A t \in Target : FoundCached(t) => t \in stands]_vars
=============================================================================
