----------------------------- MODULE Planning -----------------------------
(***************************************************************************)
(* From a build's declared targets to the plan of one run: the cycle check *)
(* of the command line (`validateGraph`), `planGraph`'s execution set and  *)
(* topological order, the up-front conditions that skip targets with their *)
(* dependencies (`conditionSkips`) and the narrowing of the run to what a  *)
(* change affects (`applyAffectedSkips`).                                  *)
(*                                                                         *)
(* Declaration order is abstracted: wherever the code walks targets in the *)
(* order they were declared, any order is tried.  References to undeclared *)
(* targets, which are refused before anything else, are left out.          *)
(***************************************************************************)
EXTENDS Naturals, Sequences, FiniteSets, SequencesExt

CONSTANTS
  Target,   \* the targets a build declares
  Builds    \* the builds, each with what one invocation asks of it

(***************************************************************************)
(* root       the requested target                                         *)
(* depends    hard dependencies of each target, `.dependsOn(...)`          *)
(* triggers   targets each target triggers                                 *)
(* soft       ordering pairs of `.before`, `.after` and `extraEdges`       *)
(* validated  whether the command line checked the whole build first       *)
(* unwanted   targets the invocation skips by name                         *)
(* optional   `.onlyWhen(...)` targets that take their dependencies along  *)
(* narrowed   whether the run is narrowed to affected targets              *)
(* dirty      targets with a changed input, or none declared               *)
(***************************************************************************)
IsGraph(b) ==
  /\ b.root \in Target
  /\ b.depends \in [Target -> SUBSET Target]
  /\ b.triggers \in [Target -> SUBSET Target]
  /\ b.soft \subseteq Target \X Target
  /\ {b.unwanted, b.optional, b.dirty} \subseteq SUBSET Target
  /\ {b.validated, b.narrowed} \subseteq BOOLEAN

ASSUME TargetAssumption == IsFiniteSet(Target)
ASSUME BuildsAssumption == \A b \in Builds : IsGraph(b)

VARIABLES
  build,      \* the build and the invocation
  stage,      \* how far the plan has come
  inRun,      \* the execution set
  path,       \* the stack of the depth-first search
  settled,    \* nodes whose subtree has been visited, in post-order
  cycle,      \* the cycle that refused the build
  pruned,     \* optional targets whose condition said no
  turn,       \* the place in the order affectedTargets has come to
  affected,   \* what it has found affected so far
  triggered,  \* and what that triggers
  skip        \* the targets the run will skip

searchVars == <<path, settled, cycle>>
narrowVars == <<turn, affected, triggered>>
planVars == <<build, stage, inRun, searchVars, pruned, narrowVars, skip>>

Stage == {"checking", "ordering", "pruning", "narrowing", "planned", "refused"}
Searching == {"checking", "ordering"}

-----------------------------------------------------------------------------
(* What a recursive walk from the targets in `from` along `follow` visits.  *)
Reached(from, follow) ==
  {t \in Target : \A S \in SUBSET Target :
     from \subseteq S /\ (\A u \in S : follow[u] \subseteq S) => t \in S}

needs(b) == [t \in Target |-> b.depends[t] \cup b.triggers[t]]

executionSet(b) == Reached({b.root}, needs(b))

(* Pairs <<from, to>>: `from` must be over before `to` starts.              *)
planEdges ==
  {e \in inRun \X inRun :
     \/ e[1] \in build.depends[e[2]]
     \/ e[2] \in build.triggers[e[1]]
     \/ e \in build.soft}

predecessors(t) == {p \in inRun : <<p, t>> \in planEdges}

(* What the search of this stage walks over.                                *)
nodes == IF stage = "checking" THEN Target ELSE inRun
successors(n) ==
  IF stage = "checking" THEN build.depends[n] ELSE {m \in inRun : <<n, m>> \in planEdges}

gray == ToSet(path)
black == ToSet(settled)
white == nodes \ (gray \cup black)
top == path[Len(path)]

(* topoOrder flips the post-order.                                          *)
order == Reverse(settled)

Init ==
  /\ build \in Builds
  /\ IF build.validated
     THEN stage = "checking" /\ inRun = {}
     ELSE stage = "ordering" /\ inRun = executionSet(build)
  /\ path = <<>> /\ settled = <<>> /\ cycle = <<>>
  /\ pruned = {} /\ skip = build.unwanted
  /\ turn = 1 /\ affected = {} /\ triggered = {}

-----------------------------------------------------------------------------
(* The three-colour search.                                                 *)
StartAt(n) ==
  /\ stage \in Searching
  /\ path = <<>>
  /\ n \in white
  /\ path' = <<n>>
  /\ UNCHANGED <<build, stage, inRun, settled, cycle, pruned, narrowVars, skip>>

Descend(n) ==
  /\ stage \in Searching
  /\ path # <<>>
  /\ n \in successors(top) \cap white
  /\ path' = Append(path, n)
  /\ UNCHANGED <<build, stage, inRun, settled, cycle, pruned, narrowVars, skip>>

(* A back edge: the stack from where the node stands on it is a cycle.      *)
FindCycle(i) ==
  /\ stage \in Searching
  /\ path[i] \in successors(top)
  /\ cycle' = Append(SubSeq(path, i, Len(path)), path[i])
  /\ stage' = "refused"
  /\ UNCHANGED <<build, inRun, path, settled, pruned, narrowVars, skip>>

(* Mutant: a node settles although a successor is still on the stack.       *)
SettleOnTheWay ==
  /\ stage \in Searching
  /\ path # <<>>
  /\ successors(top) \cap white = {}
  /\ path' = Front(path)
  /\ settled' = Append(settled, top)
  /\ UNCHANGED <<build, stage, inRun, cycle, pruned, narrowVars, skip>>

Settle ==
  /\ stage \in Searching
  /\ path # <<>>
  /\ successors(top) \subseteq black
  /\ path' = Front(path)
  /\ settled' = Append(settled, top)
  /\ UNCHANGED <<build, stage, inRun, cycle, pruned, narrowVars, skip>>

(* No cycle among the declared dependencies: plan the requested target.     *)
PassCheck ==
  /\ stage = "checking"
  /\ path = <<>> /\ white = {}
  /\ stage' = "ordering"
  /\ inRun' = executionSet(build)
  /\ settled' = <<>>
  /\ UNCHANGED <<build, path, cycle, pruned, narrowVars, skip>>

OrderFound ==
  /\ stage = "ordering"
  /\ path = <<>> /\ white = {}
  /\ stage' = "pruning"
  /\ UNCHANGED <<build, inRun, searchVars, pruned, narrowVars, skip>>

-----------------------------------------------------------------------------
(* What is still wanted when nothing is pulled in through a pruned target.  *)
kept(no) ==
  Reached({build.root}, [t \in Target |-> IF t \in no THEN {} ELSE needs(build)[t]])

(* The conditions of the optional targets are asked; those that say no go,  *)
(* with whatever only they needed.                                          *)
Prune(no) ==
  /\ stage = "pruning"
  /\ pruned' = no
  /\ skip' = skip \cup no \cup (inRun \ kept(no))
  /\ stage' = IF build.narrowed THEN "narrowing" ELSE "planned"
  /\ UNCHANGED <<build, inRun, searchVars, narrowVars>>

(* Mutant: what an affected target triggers is forgotten.                   *)
isAffectedAlone(t) == t \in build.dirty \/ build.depends[t] \cap affected # {}

isAffected(t) ==
  t \in build.dirty \/ build.depends[t] \cap affected # {} \/ t \in triggered

Decide ==
  /\ stage = "narrowing"
  /\ turn <= Len(order)
  /\ turn' = turn + 1
  /\ IF isAffected(order[turn])
     THEN /\ affected' = affected \cup {order[turn]}
          /\ triggered' = triggered \cup build.triggers[order[turn]]
     ELSE UNCHANGED <<affected, triggered>>
  /\ UNCHANGED <<build, stage, inRun, searchVars, pruned, skip>>

Narrow ==
  /\ stage = "narrowing"
  /\ turn > Len(order)
  /\ skip' = skip \cup (inRun \ affected)
  /\ stage' = "planned"
  /\ UNCHANGED <<build, inRun, searchVars, pruned, narrowVars>>

PlanStep ==
  \/ \E n \in Target : StartAt(n) \/ Descend(n)
  \/ \E i \in DOMAIN path : FindCycle(i)
  \/ Settle \/ PassCheck \/ OrderFound
  \/ \E no \in SUBSET (build.optional \cap inRun) : Prune(no)
  \/ Decide \/ Narrow

PlanSpec == Init /\ [][PlanStep]_planVars

-----------------------------------------------------------------------------
PlanTypeOK ==
  /\ IsGraph(build)
  /\ stage \in Stage
  /\ inRun \subseteq Target /\ path \in Seq(Target) /\ settled \in Seq(Target)
  /\ cycle \in Seq(Target)
  /\ pruned \subseteq build.optional
  /\ turn \in 1 .. Len(settled) + 1
  /\ affected \subseteq inRun /\ triggered \subseteq Target
  /\ skip \subseteq Target

(* A build is refused for a cycle it has, and the report walks around it    *)
(* (graph.ts:120).                                                          *)
RefusalsShowACycle ==
  stage = "refused" =>
    /\ Len(cycle) > 1 /\ cycle[1] = cycle[Len(cycle)]
    /\ \A i \in 1 .. Len(cycle) - 1 :
         \/ cycle[i] \in inRun /\ <<cycle[i], cycle[i + 1]>> \in planEdges
         \/ inRun = {} /\ cycle[i + 1] \in build.depends[cycle[i]]

(* What the build declares to be over before t starts. *)
DeclaredBefore(t) ==
  {u \in inRun : u \in build.depends[t] \/ t \in build.triggers[u] \/ <<u, t>> \in build.soft}

(* A plan lists every target of the execution set once, behind all that is  *)
(* declared to be over before it, and hands exactly those on as its         *)
(* predecessors: what the scheduler relies on when it numbers targets by    *)
(* their place (graph.ts:241).                                              *)
OrdersRespectEdges ==
  stage \in {"pruning", "narrowing", "planned"} =>
    /\ ToSet(order) = inRun
    /\ \A i, j \in DOMAIN order : order[i] = order[j] => i = j
    /\ \A i \in DOMAIN order :
         /\ predecessors(order[i]) = DeclaredBefore(order[i])
         /\ predecessors(order[i]) \subseteq {order[j] : j \in 1 .. i - 1}

(* Every build is planned in an order that keeps to its edges, or has a     *)
(* cycle and is refused with it.                                            *)
PlansAreSound == RefusalsShowACycle /\ OrdersRespectEdges

(* The one pass of affectedTargets in plan order finds all a change can     *)
(* reach along dependencies and triggers (affected.ts:71).                  *)
AllAffected ==
  Reached(build.dirty \cap inRun,
          [t \in Target |-> {u \in inRun : t \in build.depends[u]} \cup build.triggers[t]])

(* A target that is to run gets what it depends on, unless that was skipped *)
(* by name, was declined by its own condition or is beyond the change; and  *)
(* narrowing leaves nothing out that the change reaches.                    *)
SkipsAreJustified ==
  stage = "planned" =>
    /\ build.narrowed => affected = AllAffected
    /\ \A t \in inRun \ skip : \A d \in build.depends[t] \cap skip :
         \/ d \in build.unwanted \cup pruned
         \/ build.narrowed /\ d \notin AllAffected
=============================================================================
