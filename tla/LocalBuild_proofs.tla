-------------------------- MODULE LocalBuild_proofs --------------------------
(***************************************************************************)
(* Theorems about the plan of a run and the loop that carries it out, for  *)
(* every finite set of targets, every build of a workspace, every way the  *)
(* depth-first search can walk it, and any number of runs, edits, deleted  *)
(* outputs and killed processes.                                           *)
(*                                                                         *)
(* ChoiceInv is the invariant of the plan: of the search, and of what the  *)
(* conditions and the change leave out.  LoopInv is that of the sequential *)
(* loop over the order the plan ends with.  Of the sources, outputs and    *)
(* fingerprints the runs leave behind, Remembered says what a body kept    *)
(* that read what its fingerprint is of, and Traced how the contents came  *)
(* after one another as long as none came back.                            *)
(***************************************************************************)
EXTENDS LocalBuild, SequenceTheorems, TLAPS

-----------------------------------------------------------------------------
(* The invariant of the search. *)

(* What the search walks over, as a function. *)
walk == [n \in Target |-> successors(n)]

Once(s) == \A i, j \in DOMAIN s : s[i] = s[j] => i = j

(* The parts of the plan that are worked out one after the other. *)
InTurn ==
  /\ build \in Builds
  /\ stage = "checking" => inRun = {}
  /\ stage \in Searching \cup {"pruning"} => turn = 1 /\ affected = {}

(* The stack is a way along the edges, what is settled had all its          *)
(* successors settled before it, and no target is on both or on one twice. *)
Searched ==
  stage # "refused" =>
    /\ gray \subseteq nodes /\ black \subseteq nodes
    /\ Once(path) /\ Once(settled) /\ gray \cap black = {}
    /\ \A i \in 1 .. Len(path) - 1 : path[i + 1] \in walk[path[i]]
    /\ \A i \in 1 .. Len(settled) : walk[settled[i]] \subseteq {settled[j] : j \in 1 .. i - 1}
    /\ stage \notin Searching => path = <<>> /\ black = inRun

PlanInv == PlanTypeOK /\ InTurn /\ Searched /\ RefusalsShowACycle

-----------------------------------------------------------------------------
(* Sequences. *)

(* Appending adds one member, last. *)
LEMMA AppendToSet ==
  ASSUME NEW S, NEW s \in Seq(S), NEW e \in S
  PROVE  /\ Append(s, e) \in Seq(S)
         /\ Len(Append(s, e)) = Len(s) + 1
         /\ \A i \in 1 .. Len(s) : Append(s, e)[i] = s[i]
         /\ Append(s, e)[Len(s) + 1] = e
         /\ ToSet(Append(s, e)) = ToSet(s) \cup {e}
  BY DEF ToSet

(* A sequence that lists nothing twice still does not with a new member.    *)
LEMMA AppendOnce ==
  ASSUME NEW S, NEW s \in Seq(S), NEW e \in S, e \notin ToSet(s), Once(s)
  PROVE  Once(Append(s, e))
  BY DEF ToSet, Once

(* A slice of a sequence. *)
LEMMA Slice ==
  ASSUME NEW S, NEW s \in Seq(S), NEW m \in Int, NEW n \in Int,
         1 <= m, n <= Len(s), m <= n + 1
  PROVE  /\ SubSeq(s, m, n) \in Seq(S)
         /\ Len(SubSeq(s, m, n)) = n - m + 1
         /\ \A i \in 1 .. n - m + 1 : SubSeq(s, m, n)[i] = s[m + i - 1]
<1>1. \A i \in m .. n : s[i] \in S
  OBVIOUS
<1>2. SubSeq(s, m, n) \in Seq(S)
  BY <1>1, SubSeqProperties, Zenon
<1>3. Len(SubSeq(s, m, n)) = n - m + 1
  BY <1>1, SubSeqProperties
<1>4. \A i \in 1 .. n - m + 1 : SubSeq(s, m, n)[i] = s[m + i - 1]
  BY <1>1, SubSeqProperties
<1> QED
  BY <1>2, <1>3, <1>4

(* A stack without its top. *)
LEMMA FrontOfStack ==
  ASSUME NEW S, NEW s \in Seq(S), s # <<>>
  PROVE  /\ Len(s) \in Nat \ {0}
         /\ Front(s) \in Seq(S)
         /\ Len(Front(s)) = Len(s) - 1
         /\ \A i \in 1 .. Len(s) - 1 : Front(s)[i] = s[i]
         /\ s[Len(s)] \in S
         /\ ToSet(s) = ToSet(Front(s)) \cup {s[Len(s)]}
<1>1. Len(s) \in Nat \ {0}
  OBVIOUS
<1>2. PICK n \in Int : n = Len(s) - 1
  BY <1>1
<1>3. /\ Front(s) \in Seq(S)
      /\ Len(Front(s)) = n
      /\ \A i \in 1 .. n : Front(s)[i] = s[i]
  <2>1. Front(s) = SubSeq(s, 1, n)
    BY <1>2 DEF Front
  <2>2. /\ SubSeq(s, 1, n) \in Seq(S)
        /\ Len(SubSeq(s, 1, n)) = n - 1 + 1
        /\ \A i \in 1 .. n - 1 + 1 : SubSeq(s, 1, n)[i] = s[1 + i - 1]
    BY <1>1, <1>2, Slice
  <2> QED
    BY <2>1, <2>2
<1>4. s[Len(s)] \in S
  BY <1>1
<1>5. ToSet(s) = {s[i] : i \in 1 .. Len(s)} /\ ToSet(Front(s)) = {s[i] : i \in 1 .. n}
  BY <1>1, <1>3 DEF ToSet
<1>6. {s[i] : i \in 1 .. Len(s)} = {s[i] : i \in 1 .. n} \cup {s[Len(s)]}
  BY <1>1, <1>2
<1> QED
  BY <1>1, <1>2, <1>3, <1>4, <1>5, <1>6

(* The members of a sequence over a set are in it. *)
LEMMA MembersOf ==
  ASSUME NEW S, NEW s \in Seq(S)
  PROVE  /\ ToSet(s) = {s[i] : i \in 1 .. Len(s)}
         /\ ToSet(s) \subseteq S
  BY DEF ToSet

(* A sequence read backwards. *)
LEMMA Backwards ==
  ASSUME NEW S, NEW s \in Seq(S)
  PROVE  /\ Reverse(s) \in Seq(S)
         /\ Len(Reverse(s)) = Len(s)
         /\ \A i \in 1 .. Len(s) : Reverse(s)[i] = s[Len(s) - i + 1]
  BY DEF Reverse

-----------------------------------------------------------------------------
(* What the search walks over depends on the build, the execution set and   *)
(* whether the command line is checking it.                                 *)
LEMMA SameWalk ==
  ASSUME build' = build, inRun' = inRun, stage' = "checking" <=> stage = "checking"
  PROVE  walk' = walk /\ nodes' = nodes /\ planEdges' = planEdges
  BY DEF walk, nodes, successors, planEdges

(* The search never leaves the build. *)
LEMMA WalkStays ==
  ASSUME PlanInv
  PROVE  /\ nodes \subseteq Target
         /\ \A n \in Target : walk[n] = successors(n) /\ walk[n] \subseteq Target
  BY DEF PlanInv, PlanTypeOK, IsGraph, nodes, walk, successors

-----------------------------------------------------------------------------
(* The search begins with an empty stack. *)
LEMMA PlanInit == Init => PlanInv
<1> SUFFICES ASSUME Init PROVE PlanInv
  OBVIOUS
<1>1. IsGraph(build)
  BY BuildsAssumption DEF Init
<1>2. inRun \subseteq Target
  BY DEF Init, executionSet, Reached
<1>3. PlanTypeOK
  BY <1>1, <1>2 DEF Init, PlanTypeOK, Stage, IsGraph
<1>4. InTurn
  BY DEF Init, InTurn
<1>5. gray = {} /\ black = {}
  BY DEF Init, gray, black, ToSet
<1>6. Searched
  BY <1>5 DEF Init, Searched, Once, Searching
<1>7. RefusalsShowACycle
  BY DEF Init, RefusalsShowACycle
<1> QED
  BY <1>3, <1>4, <1>6, <1>7 DEF PlanInv

(* A new target on an empty stack. *)
LEMMA StartKeeps ==
  ASSUME PlanInv, NEW n \in Target, StartAt(n)
  PROVE  PlanInv'
<1>1. /\ stage \in Searching /\ path = <<>> /\ n \in white /\ path' = <<n>>
      /\ UNCHANGED <<build, stage, inRun, settled, cycle, pruned, turn, affected, triggered, skip>>
  BY DEF StartAt, narrowVars
<1>2. PlanTypeOK'
  BY <1>1 DEF PlanInv, PlanTypeOK, IsGraph
<1>3. InTurn'
  BY <1>1 DEF PlanInv, InTurn
<1>4. RefusalsShowACycle'
  BY <1>1 DEF RefusalsShowACycle, Searching
<1>5. walk' = walk /\ nodes' = nodes
  BY <1>1, SameWalk
<1>6. gray' = {n} /\ black' = black
  BY <1>1 DEF gray, black, ToSet
<1>7. n \in nodes /\ n \notin black
  BY <1>1 DEF white
<1>8. Once(path') /\ Len(path') = 1
  BY <1>1 DEF Once
<1>9. Searched'
  BY <1>1, <1>5, <1>6, <1>7, <1>8, SMTT(30) DEF PlanInv, Searched, Searching
<1> QED
  BY <1>2, <1>3, <1>4, <1>9 DEF PlanInv

(* A new target on top of one it follows. *)
LEMMA DescentKeeps ==
  ASSUME PlanInv, NEW n \in Target, Descend(n)
  PROVE  PlanInv'
<1>1. /\ stage \in Searching /\ path # <<>> /\ path \in Seq(Target)
      /\ n \in successors(top) /\ n \in white /\ path' = Append(path, n)
      /\ UNCHANGED <<build, stage, inRun, settled, cycle, pruned, turn, affected, triggered, skip>>
  BY DEF Descend, narrowVars, PlanInv, PlanTypeOK
<1>2. PlanTypeOK'
  BY <1>1 DEF PlanInv, PlanTypeOK, IsGraph
<1>3. InTurn'
  BY <1>1 DEF PlanInv, InTurn
<1>4. RefusalsShowACycle'
  BY <1>1 DEF RefusalsShowACycle, Searching
<1>5. walk' = walk /\ nodes' = nodes
  BY <1>1, SameWalk
<1>6. gray' = gray \cup {n} /\ black' = black
  BY <1>1, AppendToSet DEF gray, black
<1>7. n \in nodes /\ n \notin black /\ n \notin gray
  BY <1>1 DEF white
<1>8. Once(path')
  BY <1>1, <1>7, AppendOnce DEF gray, PlanInv, Searched, Searching
<1>9. n \in walk[path[Len(path)]] /\ Len(path) \in Nat \ {0}
  BY <1>1, FrontOfStack, WalkStays DEF top
<1>10. \A i \in 1 .. Len(path') - 1 : path'[i + 1] \in walk[path'[i]]
  <2> SUFFICES ASSUME NEW i \in 1 .. Len(path') - 1
               PROVE  path'[i + 1] \in walk[path'[i]]
    OBVIOUS
  <2>1. /\ Len(path') = Len(path) + 1 /\ path'[Len(path) + 1] = n
        /\ \A j \in 1 .. Len(path) : path'[j] = path[j]
    BY <1>1, AppendToSet
  <2>2. CASE i = Len(path)
    BY <1>9, <2>1, <2>2
  <2>3. CASE i # Len(path)
    <3>1. i \in 1 .. Len(path) - 1 /\ i + 1 \in 1 .. Len(path)
      BY <1>9, <2>1, <2>3
    <3>2. path[i + 1] \in walk[path[i]]
      BY <1>1, <3>1 DEF PlanInv, Searched, Searching
    <3> QED
      BY <1>9, <2>1, <3>1, <3>2
  <2> QED
    BY <2>2, <2>3
<1>11. Searched'
  BY <1>1, <1>5, <1>6, <1>7, <1>8, <1>10 DEF PlanInv, Searched, Searching
<1> QED
  BY <1>2, <1>3, <1>4, <1>11 DEF PlanInv

(* The top of the stack is settled behind all its successors. *)
LEMMA SettlingKeeps ==
  ASSUME PlanInv, Settle
  PROVE  PlanInv'
<1>1. /\ stage \in Searching /\ path # <<>> /\ path \in Seq(Target) /\ settled \in Seq(Target)
      /\ successors(top) \subseteq black
      /\ path' = Front(path) /\ settled' = Append(settled, top)
      /\ UNCHANGED <<build, stage, inRun, cycle, pruned, turn, affected, triggered, skip>>
  BY DEF Settle, narrowVars, PlanInv, PlanTypeOK
<1>2. /\ top \in Target /\ Len(path) \in Nat \ {0} /\ path' \in Seq(Target)
      /\ Len(path') = Len(path) - 1 /\ \A i \in 1 .. Len(path') : path'[i] = path[i]
      /\ gray = gray' \cup {top}
  BY <1>1, FrontOfStack DEF top, gray
<1>3. /\ settled' \in Seq(Target) /\ Len(settled') = Len(settled) + 1
      /\ \A i \in 1 .. Len(settled) : settled'[i] = settled[i]
      /\ settled'[Len(settled) + 1] = top
      /\ black' = black \cup {top}
  BY <1>1, <1>2, AppendToSet DEF black
<1>4. PlanTypeOK'
  BY <1>1, <1>2, <1>3 DEF PlanInv, PlanTypeOK, IsGraph, InTurn
<1>5. InTurn'
  BY <1>1 DEF PlanInv, InTurn
<1>6. RefusalsShowACycle'
  BY <1>1 DEF RefusalsShowACycle, Searching
<1>7. walk' = walk /\ nodes' = nodes
  BY <1>1, SameWalk
<1>8. top \in gray /\ top \notin black
  BY <1>1, <1>2 DEF PlanInv, Searched, Searching
<1>9. DOMAIN path = 1 .. Len(path) /\ DOMAIN path' = 1 .. Len(path')
  BY <1>1, <1>2
<1>10. Once(path)
  BY <1>1 DEF PlanInv, Searched, Searching
<1>11. Once(path') /\ top \notin gray'
  <2>1. Once(path')
    BY <1>2, <1>9, <1>10 DEF Once
  <2>2. gray' = {path'[i] : i \in 1 .. Len(path')}
    BY <1>2, MembersOf DEF gray
  <2>3. top = path[Len(path)]
    BY DEF top
  <2> QED
    BY <1>2, <1>9, <1>10, <2>1, <2>2, <2>3 DEF Once
<1>12. Once(settled')
  BY <1>1, <1>2, <1>8, AppendOnce DEF black, PlanInv, Searched, Searching
<1>13. \A i \in 1 .. Len(path') - 1 : path'[i + 1] \in walk[path'[i]]
  <2> SUFFICES ASSUME NEW i \in 1 .. Len(path') - 1
               PROVE  path'[i + 1] \in walk[path'[i]]
    OBVIOUS
  <2>1. i \in 1 .. Len(path) - 1 /\ i \in 1 .. Len(path') /\ i + 1 \in 1 .. Len(path')
    BY <1>2
  <2>2. path[i + 1] \in walk[path[i]]
    BY <1>1, <2>1 DEF PlanInv, Searched, Searching
  <2> QED
    BY <1>2, <2>1, <2>2
<1>14. black = {settled[j] : j \in 1 .. Len(settled)}
  BY <1>1, MembersOf DEF black
<1>15. \A i \in 1 .. Len(settled') : walk[settled'[i]] \subseteq {settled'[j] : j \in 1 .. i - 1}
  <2> SUFFICES ASSUME NEW i \in 1 .. Len(settled')
               PROVE  walk[settled'[i]] \subseteq {settled'[j] : j \in 1 .. i - 1}
    OBVIOUS
  <2>1. Len(settled) \in Nat
    BY <1>1
  <2>2. {settled'[j] : j \in 1 .. i - 1} = {settled[j] : j \in 1 .. i - 1}
    BY <1>3, <2>1
  <2>3. CASE i = Len(settled) + 1
    <3>1. walk[top] \subseteq black
      BY <1>1, <1>2, WalkStays
    <3> QED
      BY <1>3, <1>14, <2>1, <2>2, <2>3, <3>1
  <2>4. CASE i # Len(settled) + 1
    <3>1. i \in 1 .. Len(settled) /\ settled'[i] = settled[i]
      BY <1>3, <2>1, <2>4
    <3>2. walk[settled[i]] \subseteq {settled[j] : j \in 1 .. i - 1}
      BY <1>1, <3>1 DEF PlanInv, Searched, Searching
    <3> QED
      BY <2>2, <3>1, <3>2
  <2> QED
    BY <2>3, <2>4
<1>16. gray' \subseteq nodes' /\ black' \subseteq nodes' /\ gray' \cap black' = {}
  BY <1>1, <1>2, <1>3, <1>7, <1>8, <1>11 DEF PlanInv, Searched, Searching
<1>17. Searched'
  BY <1>1, <1>7, <1>11, <1>12, <1>13, <1>15, <1>16 DEF Searched
<1> QED
  BY <1>4, <1>5, <1>6, <1>17 DEF PlanInv

(* A back edge closes the top of the stack to a cycle. *)
LEMMA CyclesAreReported ==
  ASSUME PlanInv, NEW l \in Nat, l = Len(path), NEW i \in 1 .. l, FindCycle(i)
  PROVE  PlanInv'
<1>1. /\ stage \in Searching /\ path \in Seq(Target)
      /\ path[i] \in successors(top)
      /\ cycle' = Append(SubSeq(path, i, Len(path)), path[i]) /\ stage' = "refused"
      /\ UNCHANGED <<build, inRun, path, settled, pruned, turn, affected, triggered, skip>>
  BY DEF FindCycle, narrowVars, PlanInv, PlanTypeOK
<1>2. path[i] \in Target
  BY <1>1
<1>3. PICK m \in Int : m = l - i + 1 /\ m >= 1
  OBVIOUS
<1> DEFINE part == SubSeq(path, i, Len(path))
<1>4. /\ part \in Seq(Target) /\ Len(part) = m
      /\ \A j \in 1 .. m : part[j] = path[i + j - 1]
  BY <1>1, <1>3, Slice
<1>5. /\ cycle' \in Seq(Target) /\ Len(cycle') = m + 1
      /\ \A j \in 1 .. m : cycle'[j] = path[i + j - 1]
      /\ cycle'[m + 1] = path[i] /\ cycle'[1] = path[i]
  <2> HIDE DEF part
  <2>1. /\ Append(part, path[i]) \in Seq(Target)
        /\ Len(Append(part, path[i])) = Len(part) + 1
        /\ \A j \in 1 .. Len(part) : Append(part, path[i])[j] = part[j]
        /\ Append(part, path[i])[Len(part) + 1] = path[i]
    BY <1>2, <1>4, AppendToSet
  <2>2. i + 1 - 1 = i /\ 1 \in 1 .. m
    BY <1>3
  <2> QED
    BY <1>1, <1>4, <2>1, <2>2 DEF part
<1>6. \A j \in 1 .. m : cycle'[j] \in gray /\ cycle'[j + 1] \in successors(cycle'[j])
  <2> SUFFICES ASSUME NEW j \in 1 .. m
               PROVE  cycle'[j] \in gray /\ cycle'[j + 1] \in successors(cycle'[j])
    OBVIOUS
  <2> PICK k \in Int : k = i + j - 1
    OBVIOUS
  <2>1. k \in 1 .. l /\ cycle'[j] = path[k]
    BY <1>3, <1>5
  <2>2. path[k] \in gray /\ path[k] \in Target
    <3>1. gray = {path[h] : h \in 1 .. l} /\ gray \subseteq Target
      BY <1>1, MembersOf DEF gray
    <3> QED
      BY <2>1, <3>1
  <2>3. walk[path[k]] = successors(path[k])
    BY <2>2 DEF walk
  <2>4. CASE j = m
    <3>1. k = l
      BY <1>3, <2>4
    <3> QED
      BY <1>1, <1>5, <2>1, <2>2, <2>4, <3>1 DEF top
  <2>5. CASE j # m
    <3>1. k \in 1 .. l - 1 /\ j + 1 \in 1 .. m /\ k + 1 = i + (j + 1) - 1
      BY <1>3, <2>5
    <3>2. path[k + 1] \in walk[path[k]]
      BY <1>1, <3>1 DEF PlanInv, Searched, Searching
    <3>3. cycle'[j + 1] = path[k + 1]
      BY <1>5, <3>1
    <3> QED
      BY <2>1, <2>2, <2>3, <3>2, <3>3
  <2> QED
    BY <2>4, <2>5
<1>7. RefusalsShowACycle'
  <2>0. Len(cycle') > 1 /\ 1 .. Len(cycle') - 1 = 1 .. m /\ cycle'[1] = cycle'[Len(cycle')]
    BY <1>3, <1>5
  <2>1. CASE stage = "checking"
    <3>1. inRun = {} /\ \A n \in Target : successors(n) = build.depends[n]
      BY <2>1 DEF successors, PlanInv, InTurn
    <3>2. \A j \in 1 .. m : cycle'[j] \in Target
      BY <1>5
    <3> QED
      BY <1>1, <1>6, <2>0, <3>1, <3>2 DEF RefusalsShowACycle
  <2>2. CASE stage = "ordering"
    <3>1. gray \subseteq inRun
      BY <2>2 DEF nodes, PlanInv, Searched
    <3>2. \A n, o \in inRun : o \in successors(n) => <<n, o>> \in planEdges
      BY <2>2 DEF successors
    <3>3. \A j \in 1 .. m : cycle'[j + 1] \in inRun
      BY <1>6, <2>2 DEF successors
    <3>4. planEdges' = planEdges
      BY <1>1 DEF planEdges
    <3>5. \A j \in 1 .. m : cycle'[j] \in inRun /\ <<cycle'[j], cycle'[j + 1]>> \in planEdges
      BY <1>6, <3>1, <3>2, <3>3
    <3> QED
      BY <1>1, <2>0, <3>4, <3>5 DEF RefusalsShowACycle
  <2> QED
    BY <1>1, <2>1, <2>2 DEF Searching
<1>8. PlanTypeOK'
  BY <1>1, <1>5 DEF PlanInv, PlanTypeOK, IsGraph, Stage
<1>9. InTurn' /\ Searched'
  BY <1>1 DEF PlanInv, InTurn, Searched, Searching
<1> QED
  BY <1>7, <1>8, <1>9 DEF PlanInv

(* The check of the whole build is passed; the search begins anew.          *)
LEMMA PassingKeeps ==
  ASSUME PlanInv, PassCheck
  PROVE  PlanInv'
<1>1. /\ stage' = "ordering" /\ stage = "checking" /\ path = <<>> /\ settled' = <<>>
      /\ inRun' = executionSet(build)
      /\ UNCHANGED <<build, path, cycle, pruned, turn, affected, triggered, skip>>
  BY DEF PassCheck, narrowVars
<1>2. inRun' \subseteq Target
  BY <1>1 DEF executionSet, Reached
<1>3. turn = 1 /\ affected = {}
  BY <1>1 DEF PlanInv, InTurn, Searching
<1>4. PlanTypeOK'
  BY <1>1, <1>2, <1>3 DEF PlanInv, PlanTypeOK, IsGraph, Stage
<1>5. InTurn'
  BY <1>1, <1>3 DEF PlanInv, InTurn
<1>6. gray' = {} /\ black' = {}
  BY <1>1 DEF gray, black, ToSet
<1>7. Searched'
  BY <1>1, <1>6 DEF Searched, Once, Searching
<1>8. RefusalsShowACycle'
  BY <1>1 DEF RefusalsShowACycle
<1> QED
  BY <1>4, <1>5, <1>7, <1>8 DEF PlanInv

(* The order is complete. *)
LEMMA OrderingEnds ==
  ASSUME PlanInv, OrderFound
  PROVE  PlanInv'
<1>1. /\ stage = "ordering" /\ stage' = "pruning" /\ path = <<>> /\ white = {}
      /\ UNCHANGED <<build, inRun, path, settled, cycle, pruned, turn, affected, triggered, skip>>
  BY DEF OrderFound, searchVars, narrowVars
<1>2. PlanTypeOK' /\ InTurn' /\ RefusalsShowACycle'
  BY <1>1 DEF PlanInv, PlanTypeOK, IsGraph, Stage, InTurn, Searching, RefusalsShowACycle
<1>3. walk' = walk /\ nodes' = nodes
  BY <1>1, SameWalk
<1>4. gray' = gray /\ black' = black /\ gray = {}
  BY <1>1 DEF gray, black, ToSet
<1>5. black = inRun
  BY <1>1, <1>4 DEF white, nodes, PlanInv, Searched
<1>6. Searched'
  <2>1. /\ gray \subseteq nodes /\ black \subseteq nodes
        /\ Once(path) /\ Once(settled) /\ gray \cap black = {}
        /\ \A i \in 1 .. Len(path) - 1 : path[i + 1] \in walk[path[i]]
        /\ \A i \in 1 .. Len(settled) : walk[settled[i]] \subseteq {settled[j] : j \in 1 .. i - 1}
    BY <1>1 DEF PlanInv, Searched
  <2>2. Once(path') /\ Once(settled')
    BY <1>1, <2>1
  <2> QED
    BY <1>1, <1>3, <1>4, <1>5, <2>1, <2>2, SMTT(30) DEF Searched
<1> QED
  BY <1>2, <1>6 DEF PlanInv

(* What follows leaves the search and its order alone.                      *)
LEMMA OrderStands ==
  ASSUME PlanInv, stage \notin Searching \cup {"refused"},
         stage' \notin Searching \cup {"refused"},
         UNCHANGED <<build, inRun, path, settled, cycle>>
  PROVE  Searched' /\ RefusalsShowACycle'
<1>1. walk' = walk /\ nodes' = nodes
  BY SameWalk DEF Searching
<1>2. gray' = gray /\ black' = black
  BY DEF gray, black
<1> QED
  BY <1>1, <1>2 DEF PlanInv, Searched, RefusalsShowACycle

(* The conditions are asked. *)
LEMMA PruningKeeps ==
  ASSUME PlanInv, NEW no \in SUBSET (build.optional \cap inRun), Prune(no)
  PROVE  PlanInv'
<1>1. /\ stage = "pruning" /\ stage' \in {"narrowing", "planned"} /\ pruned' = no
      /\ skip' = skip \cup no \cup (inRun \ kept(no))
      /\ UNCHANGED <<build, inRun, path, settled, cycle, turn, affected, triggered>>
  BY DEF Prune, searchVars, narrowVars
<1>2. PlanTypeOK'
  BY <1>1 DEF PlanInv, PlanTypeOK, IsGraph, Stage
<1>3. InTurn'
  BY <1>1 DEF PlanInv, InTurn, Searching
<1>4. Searched' /\ RefusalsShowACycle'
  BY <1>1, OrderStands DEF Searching
<1> QED
  BY <1>2, <1>3, <1>4 DEF PlanInv

(* One target of the order is judged against the change. *)
LEMMA DecidingKeeps ==
  ASSUME PlanInv, Decide
  PROVE  PlanInv'
<1>1. /\ stage = "narrowing" /\ turn <= Len(order) /\ turn' = turn + 1
      /\ \/ /\ affected' = affected \cup {order[turn]}
            /\ triggered' = triggered \cup build.triggers[order[turn]]
         \/ UNCHANGED <<affected, triggered>>
      /\ UNCHANGED <<build, stage, inRun, path, settled, cycle, pruned, skip>>
  BY DEF Decide, searchVars
<1>2. settled \in Seq(Target) /\ ToSet(settled) = inRun /\ inRun \subseteq Target
  BY <1>1 DEF PlanInv, PlanTypeOK, Searched, black, Searching
<1>3. Len(order) = Len(settled)
  BY <1>2, Backwards DEF order
<1>4. turn \in 1 .. Len(settled)
  BY <1>1, <1>3 DEF PlanInv, PlanTypeOK
<1>5. order[turn] = settled[Len(settled) - turn + 1]
  BY <1>2, <1>4, Backwards DEF order
<1>6. order[turn] \in inRun
  <2>1. Len(settled) - turn + 1 \in 1 .. Len(settled)
    BY <1>2, <1>4
  <2> QED
    BY <1>2, <1>5, <2>1, MembersOf
<1>7. turn' \in 1 .. Len(settled') + 1
  BY <1>1, <1>2, <1>4
<1>8. affected' \subseteq inRun' /\ triggered' \subseteq Target
  BY <1>1, <1>2, <1>6 DEF PlanInv, PlanTypeOK, IsGraph
<1>9. PlanTypeOK'
  BY <1>1, <1>7, <1>8 DEF PlanInv, PlanTypeOK, IsGraph
<1>10. InTurn'
  BY <1>1 DEF PlanInv, InTurn, Searching
<1>11. Searched' /\ RefusalsShowACycle'
  BY <1>1, OrderStands DEF Searching
<1> QED
  BY <1>9, <1>10, <1>11 DEF PlanInv

(* What the change does not reach is skipped. *)
LEMMA NarrowingKeeps ==
  ASSUME PlanInv, Narrow
  PROVE  PlanInv'
<1>1. /\ stage = "narrowing" /\ stage' = "planned" /\ skip' = skip \cup (inRun \ affected)
      /\ UNCHANGED <<build, inRun, path, settled, cycle, pruned, turn, affected, triggered>>
  BY DEF Narrow, searchVars, narrowVars
<1>2. PlanTypeOK' /\ InTurn'
  BY <1>1 DEF PlanInv, PlanTypeOK, IsGraph, Stage, InTurn, Searching
<1>3. Searched' /\ RefusalsShowACycle'
  BY <1>1, OrderStands DEF Searching
<1> QED
  BY <1>2, <1>3 DEF PlanInv

(* No step of the plan breaks the invariant of the search. *)
LEMMA PlanStepKeeps == PlanInv /\ [PlanStep]_planVars => PlanInv'
<1> SUFFICES ASSUME PlanInv, [PlanStep]_planVars PROVE PlanInv'
  OBVIOUS
<1>1. ASSUME NEW n \in Target, StartAt(n) \/ Descend(n) PROVE PlanInv'
  BY <1>1, StartKeeps, DescentKeeps
<1>2. ASSUME NEW i \in DOMAIN path, FindCycle(i) PROVE PlanInv'
  <2>1. path \in Seq(Target)
    BY DEF PlanInv, PlanTypeOK
  <2>2. Len(path) \in Nat /\ i \in 1 .. Len(path)
    BY <2>1
  <2> QED
    BY <1>2, <2>2, CyclesAreReported
<1>3. ASSUME NEW no \in SUBSET (build.optional \cap inRun), Prune(no) PROVE PlanInv'
  BY <1>3, PruningKeeps
<1>4. CASE UNCHANGED planVars
  <2>1. UNCHANGED <<build, stage, inRun, path, settled, cycle, pruned, turn, affected,
                    triggered, skip>>
    BY <1>4 DEF planVars, searchVars, narrowVars
  <2>2. walk' = walk /\ nodes' = nodes /\ planEdges' = planEdges
    BY <2>1, SameWalk
  <2>3. gray' = gray /\ black' = black
    BY <2>1 DEF gray, black
  <2>4. PlanTypeOK' /\ InTurn'
    BY <2>1 DEF PlanInv, PlanTypeOK, IsGraph, InTurn
  <2>5. Searched' /\ RefusalsShowACycle'
    BY <2>1, <2>2, <2>3 DEF PlanInv, Searched, RefusalsShowACycle
  <2> QED
    BY <2>4, <2>5 DEF PlanInv
<1> QED
  BY <1>1, <1>2, <1>3, <1>4, SettlingKeeps, PassingKeeps, OrderingEnds, DecidingKeeps,
     NarrowingKeeps DEF PlanStep

(* The invariant makes an order that is found sound: what follows a target  *)
(* was settled before it, and the order turns that round.                   *)
LEMMA OrdersAreSound == PlanInv => OrdersRespectEdges
<1> SUFFICES ASSUME PlanInv, stage \in {"pruning", "narrowing", "planned"}
             PROVE  /\ ToSet(order) = inRun
                    /\ \A i, j \in DOMAIN order : order[i] = order[j] => i = j
                    /\ \A i \in DOMAIN order :
                         /\ predecessors(order[i]) = DeclaredBefore(order[i])
                         /\ predecessors(order[i]) \subseteq {order[j] : j \in 1 .. i - 1}
  BY DEF OrdersRespectEdges
<1>1. settled \in Seq(Target) /\ black = inRun /\ inRun \subseteq Target
  BY DEF PlanInv, PlanTypeOK, Searched, Searching
<1>2. PICK l \in Nat : l = Len(settled)
  BY <1>1
<1>3. /\ order \in Seq(Target) /\ Len(order) = l /\ DOMAIN order = 1 .. l
      /\ \A i \in 1 .. l : order[i] = settled[l - i + 1]
  BY <1>1, <1>2, Backwards DEF order
<1>4. black = {settled[i] : i \in 1 .. l} /\ ToSet(order) = {order[i] : i \in 1 .. l}
  BY <1>1, <1>2, <1>3, MembersOf DEF black
<1>5. \A i, j \in 1 .. l : settled[i] = settled[j] => i = j
  BY <1>1, <1>2 DEF PlanInv, Searched, Once
<1>6. \A i \in 1 .. l : l - i + 1 \in 1 .. l /\ l - (l - i + 1) + 1 = i
  OBVIOUS
<1>7. ToSet(order) = inRun
  <2>1. \A i \in 1 .. l : order[i] \in inRun
    BY <1>1, <1>3, <1>4, <1>6
  <2>2. \A i \in 1 .. l : settled[i] = order[l - i + 1]
    BY <1>3, <1>6
  <2>3. ASSUME NEW p \in inRun PROVE p \in ToSet(order)
    <3>1. PICK k \in 1 .. l : p = settled[k]
      BY <1>1, <1>4
    <3>2. l - k + 1 \in 1 .. l /\ p = order[l - k + 1]
      BY <1>6, <2>2, <3>1
    <3> QED
      BY <1>4, <3>2
  <2>4. ToSet(order) \subseteq inRun
    BY <1>4, <2>1
  <2> QED
    BY <2>3, <2>4
<1>8. \A i, j \in 1 .. l : order[i] = order[j] => i = j
  <2> SUFFICES ASSUME NEW i \in 1 .. l, NEW j \in 1 .. l, order[i] = order[j] PROVE i = j
    OBVIOUS
  <2>1. l - i + 1 = l - j + 1
    BY <1>3, <1>5, <1>6
  <2> QED
    BY <2>1
<1>9. ASSUME NEW i \in 1 .. l
      PROVE  predecessors(order[i]) \subseteq {order[j] : j \in 1 .. i - 1}
  <2> SUFFICES ASSUME NEW p \in inRun, <<p, order[i]>> \in planEdges
               PROVE  p \in {order[j] : j \in 1 .. i - 1}
    BY DEF predecessors
  <2>1. PICK k \in 1 .. l : p = settled[k]
    BY <1>1, <1>4
  <2>2. order[i] \in inRun
    BY <1>4, <1>7
  <2>3. order[i] \in walk[p]
    BY <1>1, <2>2 DEF walk, successors
  <2>4. order[i] \in {settled[j] : j \in 1 .. k - 1}
    BY <1>2, <2>1, <2>3 DEF PlanInv, Searched
  <2>5. PICK h \in 1 .. k - 1 : order[i] = settled[h]
    BY <2>4
  <2>6. PICK g \in 1 .. l : g = l - i + 1 /\ order[i] = settled[g]
    BY <1>3, <1>6
  <2>7. h \in 1 .. l /\ settled[h] = settled[g]
    <3>1. h \in 1 .. l
      OBVIOUS
    <3> QED
      BY <2>5, <2>6, <3>1
  <2>8. h = g
    BY <1>5, <2>7
  <2>9. l - k + 1 \in 1 .. i - 1
    <3>1. h \in Int /\ h <= k - 1 /\ k <= l /\ h = l - i + 1
      BY <2>5, <2>6, <2>8
    <3> QED
      BY <3>1
  <2>10. p = order[l - k + 1]
    BY <1>3, <1>6, <2>1
  <2> QED
    BY <2>9, <2>10
<1>10. ASSUME NEW i \in 1 .. l PROVE predecessors(order[i]) = DeclaredBefore(order[i])
  <2>1. order[i] \in inRun
    BY <1>4, <1>7
  <2> QED
    BY <2>1 DEF predecessors, planEdges, DeclaredBefore
<1> QED
  BY <1>3, <1>7, <1>8, <1>9, <1>10

-----------------------------------------------------------------------------
(* The invariant of what follows the search. *)

(* What the invocation, the conditions and the change leave out so far. *)
Picked ==
  /\ stage \notin {"checking", "refused"} => inRun = executionSet(build)
  /\ stage \in Searching \cup {"pruning"} =>
       pruned = {} /\ skip = build.unwanted /\ triggered = {}
  /\ stage = "narrowing" =>
       build.narrowed /\ skip = build.unwanted \cup pruned \cup (inRun \ kept(pruned))
  /\ stage = "planned" =>
       skip = build.unwanted \cup pruned \cup (inRun \ kept(pruned))
              \cup (IF build.narrowed THEN inRun \ affected ELSE {})

(* The pass of affectedTargets has missed nothing behind it, and found only *)
(* what the change reaches.                                                 *)
Spread ==
  stage \in {"narrowing", "planned"} =>
    /\ affected \subseteq {order[i] : i \in 1 .. turn - 1}
    /\ \A t \in affected : build.triggers[t] \subseteq triggered
    /\ \A i \in 1 .. turn - 1 : isAffected(order[i]) => order[i] \in affected
    /\ affected \cup triggered \subseteq AllAffected
    /\ stage = "planned" /\ build.narrowed => turn = Len(order) + 1

ChoiceInv == PlanInv /\ Picked /\ Spread

-----------------------------------------------------------------------------
(* What a walk visits. *)

(* Exactly what the edges lead to: a closed set, inside every other one. *)
LEMMA ReachedIsLeast ==
  ASSUME NEW from \in SUBSET Target, NEW follow \in [Target -> SUBSET Target]
  PROVE  /\ from \subseteq Reached(from, follow)
         /\ Reached(from, follow) \subseteq Target
         /\ \A u \in Reached(from, follow) : follow[u] \subseteq Reached(from, follow)
         /\ \A S \in SUBSET Target :
              from \subseteq S /\ (\A u \in S : follow[u] \subseteq S)
                => Reached(from, follow) \subseteq S
  BY DEF Reached

(* A target of the execution set brings along what it needs, and so does    *)
(* one that is kept.                                                        *)
LEMMA NeedsAreInRun ==
  ASSUME IsGraph(build)
  PROVE  /\ \A t \in executionSet(build) :
              build.depends[t] \cup build.triggers[t] \subseteq executionSet(build)
         /\ \A no \in SUBSET Target : \A t \in kept(no) \ no : build.depends[t] \subseteq kept(no)
<1>1. needs(build) \in [Target -> SUBSET Target] /\ {build.root} \in SUBSET Target
  BY DEF needs, IsGraph
<1>2. \A t \in executionSet(build) : t \in Target /\ needs(build)[t] \subseteq executionSet(build)
  BY <1>1, ReachedIsLeast DEF executionSet
<1>3. ASSUME NEW no \in SUBSET Target, NEW t \in kept(no) \ no
      PROVE  build.depends[t] \subseteq kept(no)
  <2> DEFINE follow == [u \in Target |-> IF u \in no THEN {} ELSE needs(build)[u]]
  <2>1. follow \in [Target -> SUBSET Target]
    BY <1>1
  <2>2. kept(no) = Reached({build.root}, follow)
    BY DEF kept
  <2> HIDE DEF follow
  <2>3. t \in Target /\ follow[t] \subseteq kept(no)
    BY <1>1, <2>1, <2>2, ReachedIsLeast
  <2> QED
    BY <2>3 DEF follow, needs
<1> QED
  BY <1>2, <1>3 DEF needs

(* What the change reaches. *)
spread == [t \in Target |-> {u \in inRun : t \in build.depends[u]} \cup build.triggers[t]]

(* The same of the change: closed under both kinds of edge, and least. *)
LEMMA AffectedIsLeast ==
  ASSUME PlanTypeOK
  PROVE  /\ build.dirty \cap inRun \subseteq AllAffected
         /\ \A t \in AllAffected : t \in Target /\ build.triggers[t] \subseteq AllAffected
         /\ \A t \in AllAffected, u \in inRun : t \in build.depends[u] => u \in AllAffected
         /\ \A S \in SUBSET Target :
              /\ build.dirty \cap inRun \subseteq S
              /\ \A t \in S : build.triggers[t] \subseteq S
              /\ \A t \in S, u \in inRun : t \in build.depends[u] => u \in S
              => AllAffected \subseteq S
<1>1. spread \in [Target -> SUBSET Target] /\ build.dirty \cap inRun \in SUBSET Target
  BY DEF spread, PlanTypeOK, IsGraph
<1>2. AllAffected = Reached(build.dirty \cap inRun, spread)
  BY DEF AllAffected, spread
<1>3. /\ build.dirty \cap inRun \subseteq AllAffected
      /\ AllAffected \subseteq Target
      /\ \A u \in AllAffected : spread[u] \subseteq AllAffected
      /\ \A S \in SUBSET Target :
           build.dirty \cap inRun \subseteq S /\ (\A u \in S : spread[u] \subseteq S)
             => AllAffected \subseteq S
  BY <1>1, <1>2, ReachedIsLeast
<1>4. \A t \in Target : spread[t] = {u \in inRun : t \in build.depends[u]} \cup build.triggers[t]
  BY DEF spread
<1>5. ASSUME NEW S \in SUBSET Target,
             build.dirty \cap inRun \subseteq S,
             \A t \in S : build.triggers[t] \subseteq S,
             \A t \in S, u \in inRun : t \in build.depends[u] => u \in S
      PROVE  AllAffected \subseteq S
  <2>1. \A u \in S : spread[u] \subseteq S
    BY <1>4, <1>5
  <2> QED
    BY <1>3, <1>5, <2>1
<1> QED
  BY <1>3, <1>4, <1>5

-----------------------------------------------------------------------------
(* What goes before what. *)

(* Behind what it needs, and nothing stands in the order twice.             *)
LEMMA EdgesPointBack ==
  ASSUME PlanInv, Picked, stage \in {"pruning", "narrowing", "planned"}
  PROVE  /\ settled \in Seq(Target) /\ Len(order) = Len(settled) /\ Len(order) \in Nat
         /\ DOMAIN order = 1 .. Len(order)
         /\ {order[i] : i \in 1 .. Len(order)} = inRun
         /\ \A i, j \in 1 .. Len(order) : order[i] = order[j] => i = j
         /\ \A i \in 1 .. Len(order) :
              /\ order[i] \in inRun
              /\ build.depends[order[i]] \subseteq {order[j] : j \in 1 .. i - 1}
              /\ DeclaredBefore(order[i]) \subseteq {order[j] : j \in 1 .. i - 1}
              /\ \A u \in inRun : order[i] \in build.triggers[u] =>
                   u \in {order[j] : j \in 1 .. i - 1}
<1>1. /\ ToSet(order) = inRun
      /\ \A i, j \in DOMAIN order : order[i] = order[j] => i = j
      /\ \A i \in DOMAIN order :
           /\ predecessors(order[i]) = DeclaredBefore(order[i])
           /\ predecessors(order[i]) \subseteq {order[j] : j \in 1 .. i - 1}
  BY OrdersAreSound DEF OrdersRespectEdges
<1>2. settled \in Seq(Target) /\ IsGraph(build)
  BY DEF PlanInv, PlanTypeOK
<1>3. order \in Seq(Target) /\ Len(order) = Len(settled)
  BY <1>2, Backwards DEF order
<1>4. Len(order) \in Nat /\ DOMAIN order = 1 .. Len(order)
  BY <1>3
<1>5. {order[i] : i \in 1 .. Len(order)} = inRun
  BY <1>1, <1>3, MembersOf
<1>6. inRun = executionSet(build) /\ inRun \subseteq Target
  BY DEF Picked, PlanInv, PlanTypeOK
<1>7. ASSUME NEW i \in 1 .. Len(order)
      PROVE  /\ order[i] \in inRun
             /\ build.depends[order[i]] \subseteq DeclaredBefore(order[i])
             /\ \A u \in inRun : order[i] \in build.triggers[u] => u \in DeclaredBefore(order[i])
  <2>1. order[i] \in inRun
    BY <1>5
  <2>2. build.depends[order[i]] \subseteq inRun
    BY <1>2, <1>6, <2>1, NeedsAreInRun
  <2> QED
    BY <2>1, <2>2 DEF DeclaredBefore
<1>8. \A i \in 1 .. Len(order) : DeclaredBefore(order[i]) \subseteq {order[j] : j \in 1 .. i - 1}
  BY <1>1, <1>4
<1>9. \A i, j \in 1 .. Len(order) : order[i] = order[j] => i = j
  BY <1>1, <1>4
<1>10. ASSUME NEW i \in 1 .. Len(order)
       PROVE  /\ order[i] \in inRun
              /\ build.depends[order[i]] \subseteq {order[j] : j \in 1 .. i - 1}
              /\ DeclaredBefore(order[i]) \subseteq {order[j] : j \in 1 .. i - 1}
              /\ \A u \in inRun : order[i] \in build.triggers[u] =>
                   u \in {order[j] : j \in 1 .. i - 1}
  <2> DEFINE before == {order[j] : j \in 1 .. i - 1}
  <2>1. DeclaredBefore(order[i]) \subseteq before
    BY <1>8
  <2> HIDE DEF before
  <2>2. /\ order[i] \in inRun /\ build.depends[order[i]] \subseteq before
        /\ \A u \in inRun : order[i] \in build.triggers[u] => u \in before
    BY <1>7, <2>1
  <2> QED
    BY <2>1, <2>2 DEF before
<1> QED
  BY <1>2, <1>3, <1>4, <1>5, <1>9, <1>10

-----------------------------------------------------------------------------
(* The choice of what is skipped, step by step. *)

(* Order and reach depend on the build, the execution set and the search. *)
LEMMA SameChoice ==
  ASSUME UNCHANGED <<build, inRun, settled>>
  PROVE  /\ order' = order /\ AllAffected' = AllAffected
         /\ \A no : kept(no)' = kept(no)
  BY DEF order, AllAffected, kept

(* At first nothing is chosen. *)
LEMMA ChoiceInit == Init => ChoiceInv
<1> SUFFICES ASSUME Init PROVE ChoiceInv
  OBVIOUS
<1>1. Picked /\ Spread
  BY DEF Init, Picked, Spread, Searching
<1> QED
  BY <1>1, PlanInit DEF ChoiceInv

(* As long as the search goes on nothing is chosen.                         *)
LEMMA SearchChooses ==
  ASSUME ChoiceInv, PlanInv', stage \in Searching, stage' \in Searching \cup {"pruning", "refused"},
         UNCHANGED <<build, pruned, turn, affected, triggered, skip>>,
         \/ inRun' = executionSet(build) /\ stage' # "checking"
         \/ inRun' = inRun /\ (stage' = stage \/ stage = "ordering" \/ stage' = "refused")
  PROVE  ChoiceInv'
<1>1. executionSet(build)' = executionSet(build)
  BY DEF executionSet, needs
<1>2. Picked'
  BY <1>1 DEF ChoiceInv, Picked, Searching
<1>3. Spread'
  BY DEF Spread, Searching
<1> QED
  BY <1>2, <1>3 DEF ChoiceInv

(* The conditions leave out what they decline and what only that needed. *)
LEMMA PruneChooses ==
  ASSUME ChoiceInv, PlanInv', NEW no \in SUBSET (build.optional \cap inRun), Prune(no)
  PROVE  ChoiceInv'
<1>1. /\ stage = "pruning" /\ pruned' = no
      /\ stage' = IF build.narrowed THEN "narrowing" ELSE "planned"
      /\ skip' = skip \cup no \cup (inRun \ kept(no))
      /\ UNCHANGED <<build, inRun, path, settled, cycle, turn, affected, triggered>>
  BY DEF Prune, searchVars, narrowVars
<1>2. order' = order /\ AllAffected' = AllAffected /\ kept(pruned)' = kept(no)
  BY <1>1 DEF order, AllAffected, kept
<1>3. pruned = {} /\ skip = build.unwanted /\ triggered = {} /\ turn = 1 /\ affected = {}
  BY <1>1 DEF ChoiceInv, PlanInv, InTurn, Picked
<1>4. executionSet(build)' = executionSet(build) /\ inRun = executionSet(build)
  BY <1>1 DEF executionSet, needs, ChoiceInv, Picked
<1>5. Picked'
  BY <1>1, <1>2, <1>3, <1>4 DEF Picked, Searching
<1>6. Spread'
  BY <1>1, <1>3 DEF Spread
<1> QED
  BY <1>5, <1>6 DEF ChoiceInv

(* What the pass decides on stands behind all that can make it affected, so *)
(* what it has decided before stays right.                                  *)
LEMMA DecideChooses ==
  ASSUME ChoiceInv, PlanInv', Decide
  PROVE  ChoiceInv'
<1>1. /\ stage = "narrowing" /\ turn <= Len(order) /\ turn' = turn + 1
      /\ UNCHANGED <<build, stage, inRun, path, settled, cycle, pruned, skip>>
  BY DEF Decide, searchVars
<1>2. PICK n \in Target : n = order[turn] /\ turn \in 1 .. Len(order) /\ n \in inRun
  <2>1. turn \in Nat /\ turn >= 1 /\ inRun \subseteq Target
    BY DEF ChoiceInv, PlanInv, PlanTypeOK
  <2>2. Len(order) \in Nat /\ \A i \in 1 .. Len(order) : order[i] \in inRun
    BY <1>1, EdgesPointBack DEF ChoiceInv
  <2> QED
    BY <1>1, <2>1, <2>2
<1>3. order' = order /\ AllAffected' = AllAffected /\ kept(pruned)' = kept(pruned)
      /\ executionSet(build)' = executionSet(build)
  BY <1>1 DEF order, AllAffected, kept, executionSet, needs
<1>4. Picked'
  BY <1>1, <1>3 DEF Picked, Searching, ChoiceInv
<1>5. /\ affected \subseteq {order[i] : i \in 1 .. turn - 1}
      /\ \A t \in affected : build.triggers[t] \subseteq triggered
      /\ \A i \in 1 .. turn - 1 : isAffected(order[i]) => order[i] \in affected
      /\ affected \cup triggered \subseteq AllAffected
  BY <1>1 DEF ChoiceInv, Spread
<1>6. /\ \A i, j \in 1 .. Len(order) : order[i] = order[j] => i = j
      /\ \A i \in 1 .. Len(order) :
           /\ build.depends[order[i]] \subseteq {order[j] : j \in 1 .. i - 1}
           /\ \A u \in inRun : order[i] \in build.triggers[u] =>
                u \in {order[j] : j \in 1 .. i - 1}
      /\ Len(order) \in Nat
  BY <1>1, EdgesPointBack DEF ChoiceInv
<1>7. ASSUME NEW i \in 1 .. turn PROVE n \notin {order[j] : j \in 1 .. i - 1}
  <2> SUFFICES ASSUME NEW j \in 1 .. i - 1, order[turn] = order[j] PROVE FALSE
    BY <1>2
  <2>1. j \in 1 .. Len(order) /\ j # turn
    BY <1>2, <1>6
  <2> QED
    BY <1>2, <1>6, <2>1
<1>8. ASSUME NEW i \in 1 .. turn
      PROVE  n \notin build.depends[order[i]] /\ order[i] \notin build.triggers[n]
  <2>1. i \in 1 .. Len(order)
    BY <1>2, <1>6
  <2> QED
    BY <1>2, <1>6, <1>7, <2>1
<1>9. \A i \in 1 .. turn - 1 : i \in 1 .. turn
  BY <1>2
<1>10. {order[i] : i \in 1 .. turn' - 1} = {order[i] : i \in 1 .. turn - 1} \cup {n}
  BY <1>1, <1>2, <1>6
<1>11. \A i \in 1 .. turn' - 1 : i = turn \/ i \in 1 .. turn - 1
  BY <1>1, <1>2
<1>12. CASE isAffected(n)
  <2>1. affected' = affected \cup {n} /\ triggered' = triggered \cup build.triggers[n]
    BY <1>2, <1>12 DEF Decide
  <2>2. affected' \subseteq {order[i] : i \in 1 .. turn' - 1}
    BY <1>5, <1>10, <2>1
  <2>3. \A t \in affected' : build.triggers[t] \subseteq triggered'
    BY <1>5, <2>1
  <2>4. ASSUME NEW i \in 1 .. turn' - 1, isAffected(order[i])' PROVE order[i] \in affected'
    <3>1. CASE i = turn
      BY <1>2, <2>1, <3>1
    <3>2. CASE i \in 1 .. turn - 1
      <4>1. n \notin build.depends[order[i]] /\ order[i] \notin build.triggers[n]
        BY <1>8, <1>9, <3>2
      <4>2. isAffected(order[i])
        BY <1>1, <1>3, <2>1, <2>4, <4>1 DEF isAffected
      <4> QED
        BY <1>5, <2>1, <3>2, <4>2
    <3> QED
      BY <1>11, <3>1, <3>2
  <2>5. n \in AllAffected /\ build.triggers[n] \subseteq AllAffected
    <3>1. PlanTypeOK
      BY DEF ChoiceInv, PlanInv
    <3>2. n \in AllAffected
      BY <1>2, <1>5, <1>12, <3>1, AffectedIsLeast DEF isAffected
    <3> QED
      BY <3>1, <3>2, AffectedIsLeast
  <2> QED
    BY <1>1, <1>3, <1>4, <1>5, <2>1, <2>2, <2>3, <2>4, <2>5 DEF Spread, ChoiceInv
<1>13. CASE ~isAffected(n)
  <2>1. affected' = affected /\ triggered' = triggered
    BY <1>2, <1>13 DEF Decide
  <2>2. \A t : isAffected(t)' <=> isAffected(t)
    BY <1>1, <2>1 DEF isAffected
  <2>3. \A i \in 1 .. turn' - 1 : isAffected(order[i]) => order[i] \in affected
    BY <1>2, <1>5, <1>11, <1>13
  <2>4. \A i \in 1 .. turn' - 1 : isAffected(order[i])' => order[i] \in affected
    BY <1>3, <2>2, <2>3
  <2> QED
    BY <1>1, <1>3, <1>4, <1>5, <1>10, <2>1, <2>4 DEF Spread, ChoiceInv
<1> QED
  BY <1>12, <1>13

(* With the order at its end the pass has missed nothing. *)
LEMMA NarrowChooses ==
  ASSUME ChoiceInv, PlanInv', Narrow
  PROVE  ChoiceInv'
<1>1. /\ stage = "narrowing" /\ stage' = "planned" /\ skip' = skip \cup (inRun \ affected)
      /\ turn > Len(order)
      /\ UNCHANGED <<build, inRun, path, settled, cycle, pruned, turn, affected, triggered>>
  BY DEF Narrow, searchVars, narrowVars
<1>2. order' = order /\ AllAffected' = AllAffected /\ kept(pruned)' = kept(pruned)
      /\ executionSet(build)' = executionSet(build)
  BY <1>1 DEF order, AllAffected, kept, executionSet, needs
<1>3. affected = inRun \cap affected /\ turn = Len(order) + 1
  <2>1. affected \subseteq inRun /\ turn \in Nat /\ turn <= Len(settled) + 1
    BY DEF ChoiceInv, PlanInv, PlanTypeOK
  <2>2. Len(order) = Len(settled) /\ Len(order) \in Nat
    BY <1>1, EdgesPointBack DEF ChoiceInv
  <2> QED
    BY <1>1, <2>1, <2>2
<1>4. \A t : isAffected(t)' <=> isAffected(t)
  BY <1>1 DEF isAffected
<1>5. Spread'
  BY <1>1, <1>2, <1>3, <1>4 DEF ChoiceInv, Spread
<1>6. Picked'
  BY <1>1, <1>2 DEF ChoiceInv, Picked, Searching
<1> QED
  BY <1>5, <1>6 DEF ChoiceInv

(* No step of the plan breaks the invariant of the choice. *)
LEMMA PlanStepChooses == ChoiceInv /\ [PlanStep]_planVars => ChoiceInv'
<1> SUFFICES ASSUME ChoiceInv, [PlanStep]_planVars PROVE ChoiceInv'
  OBVIOUS
<1>1. PlanInv'
  BY PlanStepKeeps DEF ChoiceInv
<1>2. ASSUME NEW n \in Target, StartAt(n) \/ Descend(n) PROVE ChoiceInv'
  BY <1>1, <1>2, SearchChooses DEF StartAt, Descend, narrowVars, Searching
<1>3. ASSUME NEW i \in DOMAIN path, FindCycle(i) PROVE ChoiceInv'
  BY <1>1, <1>3, SearchChooses DEF FindCycle, narrowVars, Searching
<1>4. CASE Settle
  BY <1>1, <1>4, SearchChooses DEF Settle, narrowVars, Searching
<1>5. CASE PassCheck
  BY <1>1, <1>5, SearchChooses DEF PassCheck, narrowVars, Searching
<1>6. CASE OrderFound
  BY <1>1, <1>6, SearchChooses DEF OrderFound, narrowVars, Searching
<1>7. ASSUME NEW no \in SUBSET (build.optional \cap inRun), Prune(no) PROVE ChoiceInv'
  BY <1>1, <1>7, PruneChooses
<1>8. CASE UNCHANGED planVars
  <2>1. UNCHANGED <<build, stage, inRun, path, settled, cycle, pruned, turn, affected,
                    triggered, skip>>
    BY <1>8 DEF planVars, searchVars, narrowVars
  <2>2. order' = order /\ AllAffected' = AllAffected /\ kept(pruned)' = kept(pruned)
        /\ executionSet(build)' = executionSet(build)
    BY <2>1 DEF order, AllAffected, kept, executionSet, needs
  <2>3. \A t : isAffected(t)' <=> isAffected(t)
    BY <2>1 DEF isAffected
  <2>4. Picked'
    BY <2>1, <2>2 DEF ChoiceInv, Picked, Searching
  <2>5. Spread'
    BY <2>1, <2>2, <2>3 DEF ChoiceInv, Spread
  <2> QED
    BY <1>1, <2>4, <2>5 DEF ChoiceInv
<1> QED
  BY <1>1, <1>2, <1>3, <1>4, <1>5, <1>6, <1>7, <1>8, DecideChooses, NarrowChooses DEF PlanStep

(* When the plan is made: the pass ended with a set that nothing leads out  *)
(* of, and a target that stays was kept together with what it depends on.   *)
LEMMA ChoicesAreJustified == ChoiceInv => SkipsAreJustified
<1> SUFFICES ASSUME ChoiceInv, stage = "planned"
             PROVE  /\ build.narrowed => affected = AllAffected
                    /\ \A t \in inRun \ skip : \A d \in build.depends[t] \cap skip :
                         \/ d \in build.unwanted \cup pruned
                         \/ build.narrowed /\ d \notin AllAffected
  BY DEF SkipsAreJustified
<1>1. PlanTypeOK /\ IsGraph(build) /\ affected \subseteq inRun /\ inRun \subseteq Target
      /\ pruned \in SUBSET Target
  BY DEF ChoiceInv, PlanInv, PlanTypeOK, IsGraph
<1>2. inRun = executionSet(build)
  BY DEF ChoiceInv, Picked
<1>3. ASSUME build.narrowed PROVE affected = AllAffected
  <2>1. /\ turn = Len(order) + 1
        /\ \A t \in affected : build.triggers[t] \subseteq triggered
        /\ \A i \in 1 .. turn - 1 : isAffected(order[i]) => order[i] \in affected
        /\ affected \subseteq AllAffected
    BY <1>3 DEF ChoiceInv, Spread
  <2>2. {order[i] : i \in 1 .. Len(order)} = inRun /\ Len(order) \in Nat
    BY EdgesPointBack DEF ChoiceInv
  <2>3. 1 .. turn - 1 = 1 .. Len(order)
    BY <2>1, <2>2
  <2>4. \A t \in inRun : isAffected(t) => t \in affected
    BY <2>1, <2>2, <2>3
  <2>5. build.dirty \cap inRun \subseteq affected
    BY <2>4 DEF isAffected
  <2>6. \A t \in affected, u \in inRun : t \in build.depends[u] => u \in affected
    BY <2>4 DEF isAffected
  <2>7. \A t \in affected : build.triggers[t] \subseteq inRun
    BY <1>1, <1>2, NeedsAreInRun
  <2>8. \A t \in affected : build.triggers[t] \subseteq affected
    BY <2>1, <2>4, <2>7 DEF isAffected
  <2>9. AllAffected \subseteq affected
    BY <1>1, <2>5, <2>6, <2>8, AffectedIsLeast
  <2> QED
    BY <2>1, <2>9
<1>4. ASSUME NEW t \in inRun \ skip, NEW d \in build.depends[t] \cap skip
      PROVE  \/ d \in build.unwanted \cup pruned
             \/ build.narrowed /\ d \notin AllAffected
  <2>1. skip = build.unwanted \cup pruned \cup (inRun \ kept(pruned))
               \cup (IF build.narrowed THEN inRun \ affected ELSE {})
    BY DEF ChoiceInv, Picked
  <2>2. t \in kept(pruned) \ pruned
    BY <2>1
  <2>3. d \in kept(pruned)
    BY <1>1, <2>2, NeedsAreInRun
  <2> QED
    BY <1>3, <2>1, <2>3
<1> QED
  BY <1>3, <1>4

-----------------------------------------------------------------------------
(* Every variable of a plan keeps its type, for any targets and any build.  *)
THEOREM PlansTyped == PlanSpec => []PlanTypeOK
<1>1. PlanInv => PlanTypeOK
  BY DEF PlanInv
<1> QED
  BY <1>1, PlanInit, PlanStepKeeps, PTL DEF PlanSpec

(* Whatever a build declares and in whichever order its targets are walked, *)
(* a plan lists the execution set once, each target behind what it needs,   *)
(* and a build that is refused has the cycle it is refused with.            *)
THEOREM EveryPlanIsSound == PlanSpec => []PlansAreSound
<1>1. PlanInv => PlansAreSound
  BY OrdersAreSound DEF PlanInv, PlansAreSound
<1> QED
  BY <1>1, PlanInit, PlanStepKeeps, PTL DEF PlanSpec

-----------------------------------------------------------------------------
(* The invariant of the loop. *)

(* The loop has set to work on its target.                                  *)
AtWork == {"launching", "body", "building"}
(* What the plan or a condition turns down.                                 *)
Declined == skip \cup build.optional

(* Where the loop is, and what it has reported of the targets behind it.    *)
InStep ==
  /\ stage # "planned" => at = "loop" /\ next = 1 /\ row = Unreported /\ up = <<>>
  /\ \A i \in 1 .. Len(order) : row[order[i]] = "pending" <=> i >= next
  /\ ~failing /\ (signal = "none" \/ at \in AtWork) =>
       \A t \in Target : row[t] = "skipped" => t \in Declined

(* A target the loop is at work on was not to be skipped.                   *)
Undismissed ==
  at \in AtWork =>
    /\ next <= Len(order) /\ current \notin skip /\ ~failing
    /\ at = "launching" <=> current \in build.services

(* The services in `up` were started in order, each on top of its own.      *)
Served ==
  /\ \A i \in DOMAIN up : \E k \in 1 .. next - 1 : up[i] = order[k]
  /\ at # "over" /\ next <= Len(order) =>
       \A s \in build.services : row[s] = "passed" => s \in ToSet(up)
  /\ \A i \in DOMAIN up : \A d \in build.depends[up[i]] \cap build.services :
       row[d] = "passed" => \E j \in 1 .. i - 1 : up[j] = d
  /\ at = "over" => up = <<>>

(* Only edits make contents, and until one comes back the newest stands.    *)
Versioned ==
  /\ \A t \in Target : source[t] <= newest[t] /\ newest[t] <= edits
  /\ ~restored => source = newest

(* All but the types of what a plan is made of. *)
LoopTypes ==
  /\ source \in [Target -> 0 .. MaxEdits] /\ newest \in [Target -> 0 .. MaxEdits]
  /\ restored \in BOOLEAN /\ slipped \subseteq Target
  /\ DOMAIN output = Target /\ DOMAIN disk = Target /\ DOMAIN store = Target /\ DOMAIN seen = Target
  /\ stands \subseteq Target /\ whole \subseteq Target /\ astray \subseteq build.services
  /\ at \in AtWork \cup {"loop", "over"}
  /\ next \in 1 .. Len(order) + 1
  /\ row \in [Target -> Reported \cup {"pending"}]
  /\ signal \in {"none", "cancel", "lost"}
  /\ up \in Seq(build.services)
  /\ rounds \in 1 .. build.rounds + 1
  /\ edits \in 0 .. MaxEdits /\ cleans \in 0 .. MaxCleans /\ kills \in 0 .. MaxKills

(* The invariant of a workspace in its runs.                                *)
LoopInv == LoopTypes /\ InStep /\ Undismissed /\ Served /\ Versioned

LocalInv == ChoiceInv /\ LoopInv

(* What a build allows. *)
LEMMA WorkspaceFacts ==
  ASSUME ChoiceInv
  PROVE  /\ IsGraph(build) /\ build.rounds \in Nat
         /\ build.services \subseteq Target /\ build.cacheable \subseteq Target
         /\ build.optional \subseteq Target
         /\ build.services \cap build.cacheable = {}
<1>1. IsGraph(build) /\ build \in Builds
  BY DEF ChoiceInv, PlanInv, PlanTypeOK, InTurn
<1> QED
  BY <1>1, WorkspacesAssumption DEF IsWorkspace, IsGraph

(* The bounds are numbers. *)
LEMMA BoundFacts == MaxEdits \in Nat /\ MaxCleans \in Nat /\ MaxKills \in Nat
  BY BoundsAssumption

(* The place the loop is at, once the plan is made.                         *)
LEMMA AtCurrent ==
  ASSUME ChoiceInv, LoopTypes, stage = "planned"
  PROVE  /\ Len(order) \in Nat /\ DOMAIN order = 1 .. Len(order) /\ next \in Nat
         /\ \A i, j \in 1 .. Len(order) : order[i] = order[j] => i = j
         /\ \A i \in 1 .. Len(order) :
              order[i] \in Target /\ build.depends[order[i]] \subseteq {order[j] : j \in 1 .. i - 1}
         /\ next <= Len(order) =>
              next \in 1 .. Len(order) /\ current \in Target /\ current = order[next]
<1>1. /\ Len(order) \in Nat /\ DOMAIN order = 1 .. Len(order)
      /\ \A i, j \in 1 .. Len(order) : order[i] = order[j] => i = j
      /\ \A i \in 1 .. Len(order) :
           order[i] \in inRun /\ build.depends[order[i]] \subseteq {order[j] : j \in 1 .. i - 1}
  BY EdgesPointBack DEF ChoiceInv
<1>2. inRun \subseteq Target /\ next \in 1 .. Len(order) + 1
  BY DEF ChoiceInv, PlanInv, PlanTypeOK, LoopTypes
<1> QED
  BY <1>1, <1>2 DEF current

-----------------------------------------------------------------------------
(* Initially, and when the plan takes a step. *)

(* A workspace nothing was built in. *)
LEMMA LoopInit == LocalInit => LocalInv
<1> SUFFICES ASSUME LocalInit PROVE LocalInv
  OBVIOUS
<1>1. ChoiceInv
  BY ChoiceInit DEF LocalInit
<1>2. build.rounds \in Nat /\ Len(order) = 0 /\ build.services \subseteq Target
  <2>1. settled \in Seq(Target) /\ Len(settled) = 0
    BY DEF LocalInit, Init
  <2>2. Len(order) = 0
    BY <2>1, Backwards DEF order
  <2> QED
    BY <1>1, <2>2, WorkspaceFacts
<1>3. LoopTypes
  <2>1. /\ source \in [Target -> 0 .. MaxEdits] /\ newest \in [Target -> 0 .. MaxEdits]
    BY BoundFacts DEF LocalInit
  <2>2. restored \in BOOLEAN /\ slipped \subseteq Target
    BY DEF LocalInit
  <2> QED
    BY <1>2, <2>1, <2>2, BoundFacts DEF LocalInit, LoopTypes, AtWork, Unknown, Unreported, Reported
<1>4. InStep
  BY <1>2 DEF LocalInit, InStep, Unreported
<1>5. Undismissed /\ Versioned
  BY DEF LocalInit, Undismissed, Versioned, AtWork
<1>6. Served
  BY <1>2 DEF LocalInit, Served, Unreported
<1> QED
  BY <1>1, <1>3, <1>4, <1>5, <1>6 DEF LocalInv, LoopInv

(* The plan is made before the loop begins. *)
LEMMA PlansKeep ==
  ASSUME LocalInv, Plans
  PROVE  LocalInv'
<1> USE DEF LocalInv
<1>1. ChoiceInv'
  BY PlanStepChooses DEF Plans
<1>2. stage # "planned" /\ build' = build
  BY DEF Plans, PlanStep, StartAt, Descend, FindCycle, Settle, PassCheck, OrderFound, Prune, Decide,
         Narrow, Searching
<1>3. UNCHANGED <<source, newest, restored, output, stands, whole, disk, slipped, store, seen,
                  reads, at, next, row, signal, up, astray, rounds, edits, cleans, kills>>
  BY DEF Plans, diskVars, runVars, boundVars
<1>4. at = "loop" /\ next = 1 /\ row = Unreported /\ up = <<>>
  BY <1>2 DEF LoopInv, InStep
<1>5. order' \in Seq(Target) /\ Len(order') \in Nat /\ Len(order)' = Len(order')
  <2>1. settled' \in Seq(Target)
    BY <1>1 DEF ChoiceInv, PlanInv, PlanTypeOK
  <2>2. order' = Reverse(settled')
    BY DEF order
  <2>3. order' \in Seq(Target)
    BY <2>1, <2>2, Backwards
  <2> QED
    BY <2>3
<1>6. \A i \in 1 .. Len(order') : order'[i] \in Target /\ i >= 1
  BY <1>5
<1>7. LoopTypes'
  BY <1>2, <1>3, <1>4, <1>5 DEF LoopInv, LoopTypes
<1>8. InStep'
  BY <1>3, <1>4, <1>6 DEF InStep, Unreported, failing
<1>9. Undismissed' /\ Versioned'
  BY <1>3, <1>4 DEF LoopInv, Undismissed, Versioned, AtWork
<1>10. build'.services \subseteq Target
  BY <1>2, WorkspaceFacts
<1>11. Served'
  BY <1>3, <1>4, <1>10 DEF Served, Unreported
<1> QED
  BY <1>1, <1>7, <1>8, <1>9, <1>11 DEF LoopInv

-----------------------------------------------------------------------------
(* The loop. *)

(* The loop leaves the plan alone. *)
LEMMA SamePlan ==
  ASSUME LocalInv, UNCHANGED planVars
  PROVE  /\ ChoiceInv'
         /\ build' = build /\ stage' = stage /\ skip' = skip /\ settled' = settled
         /\ order' = order /\ Declined' = Declined
         /\ \A i \in 1 .. Len(order) : order'[i] = order[i]
<1>1. ChoiceInv'
  BY PlanStepChooses DEF LocalInv
<1>2. build' = build /\ stage' = stage /\ skip' = skip /\ settled' = settled
  BY DEF planVars, searchVars
<1> QED
  BY <1>1, <1>2 DEF order, Declined

(* The target at hand gets its outcome.  Services before it in `up` do not  *)
(* need it, since it comes behind them.                                     *)
LEMMA ReportKeeps ==
  ASSUME LocalInv, stage = "planned", at # "over", next <= Len(order),
         NEW outcome \in Reported, Report(outcome), UNCHANGED planVars, signal' = signal,
         outcome = "skipped" => failing \/ signal # "none" \/ current \in Declined,
         up' = up \/ (up' = Append(up, current) /\ current \in build.services),
         outcome = "passed" /\ current \in build.services => up' = Append(up, current)
  PROVE  /\ InStep' /\ Undismissed' /\ Served'
         /\ at' = "loop" /\ next' \in 1 .. Len(order') + 1
         /\ row' \in [Target -> Reported \cup {"pending"}]
         /\ up' \in Seq(build'.services)
<1> USE DEF LocalInv
<1>1. /\ at' = "loop" /\ next' = next + 1 /\ row' = [row EXCEPT ![current] = outcome]
      /\ row \in [Target -> Reported \cup {"pending"}] /\ up \in Seq(build.services)
  BY DEF Report, LoopInv, LoopTypes
<1>2. /\ build' = build /\ stage' = stage /\ order' = order /\ Declined' = Declined
  BY SamePlan
<1>3. /\ Len(order) \in Nat /\ next \in 1 .. Len(order) /\ current \in Target
      /\ current = order[next]
      /\ \A i, j \in 1 .. Len(order) : order[i] = order[j] => i = j
      /\ \A i \in 1 .. Len(order) :
           order[i] \in Target /\ build.depends[order[i]] \subseteq {order[j] : j \in 1 .. i - 1}
  BY AtCurrent DEF LoopInv
<1>4. /\ row' \in [Target -> Reported \cup {"pending"}] /\ row'[current] = outcome
      /\ \A t \in Target \ {current} : row'[t] = row[t]
  BY <1>1, <1>3
<1>5. row[current] = "pending" /\ outcome # "pending"
  BY <1>3 DEF LoopInv, InStep, Reported
<1>6. \A i \in 1 .. Len(order) : row'[order[i]] = "pending" <=> i >= next'
  <2> SUFFICES ASSUME NEW i \in 1 .. Len(order) PROVE row'[order[i]] = "pending" <=> i >= next + 1
    BY <1>1
  <2>1. row[order[i]] = "pending" <=> i >= next
    BY DEF LoopInv, InStep
  <2>2. CASE i = next
    BY <1>3, <1>4, <1>5, <2>2
  <2>3. CASE i # next
    <3>1. order[i] \in Target \ {current}
      BY <1>3, <2>3
    <3> QED
      BY <1>3, <1>4, <2>1, <2>3, <3>1
  <2> QED
    BY <2>2, <2>3
<1>7. InStep'
  <2>1. ASSUME ~failing', signal = "none", NEW t \in Target, row'[t] = "skipped"
        PROVE  t \in Declined
    <3>1. ~failing
      BY <1>4, <1>5, <2>1 DEF failing
    <3>2. CASE t = current
      BY <1>4, <2>1, <3>1, <3>2
    <3>3. CASE t # current
      BY <1>4, <2>1, <3>1, <3>3 DEF LoopInv, InStep
    <3> QED
      BY <3>2, <3>3
  <2> QED
    BY <1>1, <1>2, <1>6, <2>1 DEF InStep, AtWork
<1>8. Undismissed'
  BY <1>1 DEF Undismissed, AtWork
<1>9. /\ up' \in Seq(build.services) /\ Len(up) \in Nat /\ DOMAIN up = 1 .. Len(up)
      /\ ToSet(up) \subseteq ToSet(up')
      /\ \A i \in DOMAIN up : up'[i] = up[i]
      /\ up' # up => current \in build.services /\ up' = Append(up, current)
                     /\ DOMAIN up' = 1 .. Len(up) + 1 /\ up'[Len(up) + 1] = current
                     /\ current \in ToSet(up')
  <2>1. CASE up' = up
    <3>1. up \in Seq(build.services)
      BY <1>1
    <3>2. Len(up) \in Nat /\ DOMAIN up = 1 .. Len(up)
      BY <3>1
    <3> QED
      BY <2>1, <3>1, <3>2
  <2>2. CASE up' = Append(up, current) /\ current \in build.services
    <3>1. /\ up' \in Seq(build.services) /\ Len(up') = Len(up) + 1
          /\ \A i \in 1 .. Len(up) : up'[i] = up[i]
          /\ up'[Len(up) + 1] = current
          /\ ToSet(up') = ToSet(up) \cup {current}
      BY <1>1, <2>2, AppendToSet
    <3>2. Len(up) \in Nat /\ DOMAIN up = 1 .. Len(up) /\ DOMAIN up' = 1 .. Len(up')
      BY <1>1, <3>1
    <3> QED
      BY <2>2, <3>1, <3>2
  <2> QED
    BY <2>1, <2>2
<1>10. \A i \in DOMAIN up' : i \in DOMAIN up \/ (up' # up /\ i = Len(up) + 1)
  <2>1. CASE up' = up
    BY <2>1
  <2>2. CASE up' # up
    <3>1. DOMAIN up' = 1 .. Len(up) + 1
      BY <1>9, <2>2
    <3> QED
      BY <1>9, <2>2, <3>1
  <2> QED
    BY <2>1, <2>2
<1>11. \A s \in build.services : row'[s] = "passed" => s \in ToSet(up')
  <2> SUFFICES ASSUME NEW s \in build.services, row'[s] = "passed" PROVE s \in ToSet(up')
    OBVIOUS
  <2>1. s \in Target
    BY WorkspaceFacts
  <2>2. CASE s = current
    <3>1. up' = Append(up, current)
      BY <1>4, <2>2
    <3>2. ToSet(up') = ToSet(up) \cup {current}
      BY <1>1, <2>2, <3>1, AppendToSet
    <3> QED
      BY <2>2, <3>2
  <2>3. CASE s # current
    <3>1. row[s] = "passed"
      BY <1>4, <2>1, <2>3
    <3> QED
      BY <1>9, <3>1 DEF LoopInv, Served
  <2> QED
    BY <2>2, <2>3
<1>12. \A i \in DOMAIN up' : \E k \in 1 .. next' - 1 : up'[i] = order[k]
  <2> SUFFICES ASSUME NEW i \in DOMAIN up' PROVE \E k \in 1 .. next : up'[i] = order[k]
    BY <1>1, <1>3
  <2>1. CASE i \in DOMAIN up
    <3>1. PICK k \in 1 .. next - 1 : up[i] = order[k]
      BY <2>1 DEF LoopInv, Served
    <3> QED
      BY <1>3, <1>9, <2>1, <3>1
  <2>2. CASE up' # up /\ i = Len(up) + 1
    BY <1>3, <1>9, <2>2
  <2> QED
    BY <1>10, <2>1, <2>2
<1>13. ASSUME NEW i \in DOMAIN up', NEW d \in build.depends[up'[i]] \cap build.services,
              row'[d] = "passed"
       PROVE  \E j \in 1 .. i - 1 : up'[j] = d
  <2>1. d \in Target
    BY WorkspaceFacts
  <2>2. PICK k \in 1 .. next : up'[i] = order[k] /\ (i \in DOMAIN up => k <= next - 1)
    <3>1. CASE i \in DOMAIN up
      <4>1. PICK k \in 1 .. next - 1 : up[i] = order[k]
        BY <3>1 DEF LoopInv, Served
      <4>2. k \in 1 .. next /\ k <= next - 1
        BY <1>3
      <4> QED
        BY <1>9, <3>1, <4>1, <4>2
    <3>2. CASE i \notin DOMAIN up
      <4>1. up'[i] = current
        BY <1>9, <1>10, <3>2
      <4>2. next \in 1 .. next
        BY <1>3
      <4> QED
        BY <1>3, <3>2, <4>1, <4>2
    <3> QED
      BY <3>1, <3>2
  <2>3. PICK h \in 1 .. k - 1 : d = order[h]
    <3>1. k \in 1 .. Len(order)
      BY <1>3
    <3>2. build.depends[order[k]] \subseteq {order[j] : j \in 1 .. k - 1}
      BY <1>3, <3>1
    <3>3. d \in build.depends[order[k]]
      BY <2>2
    <3> QED
      BY <3>2, <3>3
  <2>4. d # current
    <3>1. h \in 1 .. Len(order) /\ h # next
      BY <1>3
    <3> QED
      BY <1>3, <2>3, <3>1
  <2>5. row[d] = "passed"
    BY <1>4, <1>13, <2>1, <2>4
  <2>6. CASE i \in DOMAIN up
    <3>1. PICK j \in 1 .. i - 1 : up[j] = d
      BY <1>9, <2>5, <2>6 DEF LoopInv, Served
    <3>2. j \in DOMAIN up
      BY <1>9, <2>6
    <3> QED
      BY <1>9, <3>1, <3>2
  <2>7. CASE up' # up /\ i = Len(up) + 1
    <3>1. d \in ToSet(up)
      BY <2>5 DEF LoopInv, Served
    <3>2. PICK j \in 1 .. Len(up) : up[j] = d
      BY <1>9, <3>1 DEF ToSet
    <3>3. j \in 1 .. i - 1 /\ j \in DOMAIN up
      BY <1>9, <2>7
    <3> QED
      BY <1>9, <3>2, <3>3
  <2> QED
    BY <1>10, <2>6, <2>7
<1>14. Served'
  BY <1>1, <1>2, <1>11, <1>12, <1>13 DEF Served
<1>15. next' \in 1 .. Len(order') + 1
  BY <1>1, <1>2, <1>3
<1> QED
  BY <1>1, <1>2, <1>4, <1>7, <1>8, <1>9, <1>14, <1>15

(* Turned down by the loop, or failed before anything was started.          *)
LEMMA NotStartedKeeps ==
  ASSUME LocalInv, PassOver \/ FailEarly
  PROVE  LocalInv'
<1>1. /\ stage = "planned" /\ at # "over" /\ next <= Len(order)
      /\ UNCHANGED <<planVars, diskVars, store, seen, reads, signal, up, astray, boundVars>>
  BY DEF PassOver, FailEarly, Turn, running
<1>2. \/ Report("skipped") /\ (failing \/ signal # "none" \/ current \in Declined)
      \/ Report("failed")
  BY DEF PassOver, FailEarly, dismissed, Declined
<1>3. ChoiceInv' /\ build' = build
  BY <1>1, SamePlan
<1>4. /\ InStep' /\ Undismissed' /\ Served' /\ at' = "loop" /\ next' \in 1 .. Len(order') + 1
      /\ row' \in [Target -> Reported \cup {"pending"}] /\ up' \in Seq(build'.services)
  <2>1. CASE Report("skipped") /\ (failing \/ signal # "none" \/ current \in Declined)
    BY <1>1, <2>1, ReportKeeps DEF Reported
  <2>2. CASE Report("failed")
    BY <1>1, <2>2, ReportKeeps DEF Reported
  <2> QED
    BY <1>2, <2>1, <2>2
<1>5. LoopTypes' /\ Versioned'
  BY <1>1, <1>3, <1>4 DEF LocalInv, LoopInv, LoopTypes, Versioned, diskVars, boundVars
<1> QED
  BY <1>3, <1>4, <1>5 DEF LocalInv, LoopInv

(* A service that is up, or not.                                            *)
LEMMA ServiceKeeps ==
  ASSUME LocalInv, ServiceReady \/ ServiceNotReady
  PROVE  LocalInv'
<1>1. /\ stage = "planned" /\ at = "launching" /\ next <= Len(order)
      /\ UNCHANGED <<planVars, diskVars, store, seen, reads, signal, boundVars>>
      /\ astray' = astray \/ astray' = astray \cup {current}
  BY DEF ServiceReady, ServiceNotReady, Turn, running
<1>2. current \in build.services
  BY <1>1 DEF LocalInv, LoopInv, Undismissed, AtWork
<1>3. ChoiceInv' /\ build' = build
  BY <1>1, SamePlan
<1>4. /\ InStep' /\ Undismissed' /\ Served' /\ at' = "loop" /\ next' \in 1 .. Len(order') + 1
      /\ row' \in [Target -> Reported \cup {"pending"}] /\ up' \in Seq(build'.services)
  <2>1. CASE Report("passed") /\ up' = Append(up, current)
    BY <1>1, <1>2, <2>1, ReportKeeps DEF Reported
  <2>2. CASE Report("failed") /\ (up' = up \/ up' = Append(up, current))
    BY <1>1, <1>2, <2>2, ReportKeeps DEF Reported
  <2> QED
    BY <2>1, <2>2 DEF ServiceReady, ServiceNotReady
<1>5. LoopTypes' /\ Versioned'
  BY <1>1, <1>2, <1>3, <1>4
     DEF LocalInv, LoopInv, LoopTypes, Versioned, diskVars, boundVars
<1> QED
  BY <1>3, <1>4, <1>5 DEF LocalInv, LoopInv

(* The loop sets to work on its target, or a body on its inputs.            *)
LEMMA WorkKeeps ==
  ASSUME LocalInv, running, next <= Len(order),
         UNCHANGED <<planVars, next, row, signal, up, astray, boundVars, sourceVars, output, stands,
                     disk, store>>,
         whole' \subseteq whole, slipped' \subseteq Target, DOMAIN seen' = DOMAIN seen,
         at' \in AtWork, at' = "launching" <=> current \in build.services,
         ~dismissed \/ at \in AtWork
  PROVE  LocalInv'
<1>1. /\ ChoiceInv' /\ build' = build /\ stage' = stage /\ skip' = skip /\ order' = order
      /\ Declined' = Declined
  BY SamePlan
<1>2. current' = current /\ (failing' <=> failing) /\ at # "over" /\ stage = "planned"
  BY <1>1 DEF current, failing, running
<1>3. Undismissed'
  BY <1>1, <1>2 DEF Undismissed, dismissed, LocalInv, LoopInv
<1>4. InStep'
  BY <1>1, <1>2 DEF InStep, dismissed, LocalInv, LoopInv
<1>5. Served'
  BY <1>1, <1>2 DEF Served, LocalInv, LoopInv, AtWork
<1>6. LoopTypes' /\ Versioned'
  BY <1>1 DEF LocalInv, LoopInv, LoopTypes, Versioned, boundVars, sourceVars
<1> QED
  BY <1>1, <1>3, <1>4, <1>5, <1>6 DEF LocalInv, LoopInv

(* Every way to begin with the target at hand. *)
LEMMA StartsKeep ==
  ASSUME LocalInv, StartService \/ GoAhead \/ LookUp \/ BodyReads
  PROVE  LocalInv'
<1> USE DEF diskVars, sourceVars
<1>1. running /\ next <= Len(order) /\ UNCHANGED planVars /\ stage = "planned"
      /\ slipped \subseteq Target
  BY DEF StartService, GoAhead, LookUp, BodyReads, Turn, running, LocalInv, LoopInv, LoopTypes
<1>2. CASE StartService
  BY <1>1, <1>2, WorkKeeps DEF StartService, AtWork
<1>3. CASE GoAhead
  BY <1>1, <1>3, WorkKeeps DEF GoAhead, AtWork
<1>4. CASE BodyReads
  <2>1. at = "body" /\ current \notin build.services
    BY <1>4 DEF BodyReads, Turn, LocalInv, LoopInv, Undismissed, AtWork
  <2>2. current \in Target
    BY <1>1, AtCurrent DEF LocalInv, LoopInv
  <2>3. slipped' \subseteq Target
    BY <1>1, <1>4, <2>2 DEF BodyReads
  <2>4. whole' \subseteq whole
    BY <1>4 DEF BodyReads
  <2> QED
    BY <1>1, <1>4, <2>1, <2>3, <2>4, WorkKeeps DEF BodyReads, AtWork
<1>5. CASE LookUp
  <2>1. /\ ~dismissed /\ current \notin build.services /\ at = "loop"
        /\ seen' = [seen EXCEPT ![current] = Inputs(current)]
        /\ UNCHANGED <<diskVars, store, reads, signal, up, astray, boundVars>>
    BY <1>5 DEF LookUp, Turn
  <2>2. CASE at' = "body" /\ UNCHANGED <<next, row>>
    BY <1>1, <2>1, <2>2, WorkKeeps DEF AtWork
  <2>3. CASE Report("cached")
    <3>1. ChoiceInv' /\ build' = build
      BY <1>1, SamePlan
    <3>2. /\ InStep' /\ Undismissed' /\ Served' /\ at' = "loop" /\ next' \in 1 .. Len(order') + 1
          /\ row' \in [Target -> Reported \cup {"pending"}] /\ up' \in Seq(build'.services)
      BY <1>1, <2>1, <2>3, ReportKeeps DEF Reported
    <3>3. LoopTypes' /\ Versioned'
      BY <2>1, <3>1, <3>2 DEF LocalInv, LoopInv, LoopTypes, Versioned, boundVars
    <3> QED
      BY <3>1, <3>2, <3>3 DEF LocalInv, LoopInv
  <2> QED
    BY <1>5, <2>2, <2>3 DEF LookUp
<1> QED
  BY <1>2, <1>3, <1>4, <1>5

(* The body is over.                                                        *)
LEMMA BodyEndKeeps ==
  ASSUME LocalInv, BodyReturns \/ BodyFails
  PROVE  LocalInv'
<1>1. /\ stage = "planned" /\ at = "building" /\ next <= Len(order)
      /\ UNCHANGED <<planVars, source, newest, restored, disk, slipped, seen, signal, up, astray,
                     boundVars>>
      /\ Report("passed") \/ Report("failed")
  BY DEF BodyReturns, BodyFails, Turn, running, sourceVars
<1>2. current \notin build.services
  BY <1>1 DEF LocalInv, LoopInv, Undismissed, AtWork
<1>3. ChoiceInv' /\ build' = build
  BY <1>1, SamePlan
<1>4. /\ InStep' /\ Undismissed' /\ Served' /\ at' = "loop" /\ next' \in 1 .. Len(order') + 1
      /\ row' \in [Target -> Reported \cup {"pending"}] /\ up' \in Seq(build'.services)
  <2>1. CASE Report("passed")
    BY <1>1, <1>2, <2>1, ReportKeeps DEF Reported
  <2>2. CASE Report("failed")
    BY <1>1, <2>2, ReportKeeps DEF Reported
  <2> QED
    BY <1>1, <2>1, <2>2
<1>5. current \in Target
  BY <1>1, AtCurrent DEF LocalInv, LoopInv
<1>6. /\ DOMAIN output' = Target /\ DOMAIN store' = Target
      /\ stands' \subseteq Target /\ whole' \subseteq Target
  BY <1>5 DEF BodyReturns, BodyFails, LocalInv, LoopInv, LoopTypes
<1>7. LoopTypes' /\ Versioned'
  BY <1>1, <1>3, <1>4, <1>6 DEF LocalInv, LoopInv, LoopTypes, Versioned, boundVars
<1> QED
  BY <1>3, <1>4, <1>7 DEF LocalInv, LoopInv

-----------------------------------------------------------------------------
(* The end of a run, and what comes from outside. *)

(* Services are stopped newest first, then the run is over. *)
LEMMA EndKeeps ==
  ASSUME LocalInv, StopService \/ \E mine \in BOOLEAN : EndRun(mine)
  PROVE  LocalInv'
<1>1. /\ stage = "planned" /\ at = "loop" /\ next > Len(order)
      /\ UNCHANGED <<planVars, source, newest, restored, output, whole, store, seen, reads, next,
                     row, signal, boundVars>>
  BY DEF StopService, EndRun, atEnd, running, diskVars, sourceVars
<1>2. /\ ChoiceInv' /\ build' = build /\ stage' = stage /\ skip' = skip /\ order' = order
      /\ Declined' = Declined
  BY <1>1, SamePlan
<1>3. at' \in {"loop", "over"} /\ (failing' <=> failing)
  BY <1>1 DEF StopService, EndRun, failing
<1>4. Undismissed' /\ InStep'
  BY <1>1, <1>2, <1>3 DEF Undismissed, InStep, AtWork, LocalInv, LoopInv
<1>5. ~(next <= Len(order))
  BY <1>1, AtCurrent DEF LocalInv, LoopInv
<1>6. up \in Seq(build.services) /\ build.services \subseteq Target
  BY WorkspaceFacts DEF LocalInv, LoopInv, LoopTypes
<1>7. CASE StopService
  <2>1. up # <<>> /\ up' = Front(up) /\ (astray' = astray \/ astray' = astray \cup {Last(up)})
        /\ at' = at /\ UNCHANGED diskVars
    BY <1>7 DEF StopService
  <2>2. /\ Len(up) \in Nat \ {0} /\ up' \in Seq(build.services) /\ Len(up') = Len(up) - 1
        /\ \A i \in 1 .. Len(up) - 1 : up'[i] = up[i]
        /\ up[Len(up)] \in build.services
    BY <1>6, <2>1, FrontOfStack
  <2>3. Last(up) \in build.services
    BY <2>2 DEF Last
  <2>4. /\ DOMAIN up' = 1 .. Len(up) - 1 /\ DOMAIN up = 1 .. Len(up)
    BY <1>6, <2>2
  <2>5. Served'
    <3>1. \A i \in DOMAIN up' :
            i \in DOMAIN up /\ up'[i] = up[i] /\ \A j \in 1 .. i - 1 : up'[j] = up[j]
      BY <2>2, <2>4
    <3> QED
      BY <1>1, <1>2, <1>5, <2>1, <3>1 DEF Served, LocalInv, LoopInv
  <2>6. LoopTypes' /\ Versioned'
    BY <1>1, <1>2, <2>1, <2>2, <2>3 DEF LocalInv, LoopInv, LoopTypes, Versioned, boundVars, diskVars
  <2> QED
    BY <1>2, <1>4, <2>5, <2>6 DEF LocalInv, LoopInv
<1>8. ASSUME NEW mine \in BOOLEAN, EndRun(mine) PROVE LocalInv'
  <2>1. /\ up = <<>> /\ up' = up /\ astray' = astray /\ at' = "over"
        /\ stands' = stands \ undone /\ (disk' = store \/ disk' = disk)
        /\ slipped' \subseteq slipped \cup Target
    BY <1>8 DEF EndRun, unsaved
  <2>2. Served'
    BY <1>1, <1>2, <2>1 DEF Served, LocalInv, LoopInv
  <2>3. LoopTypes' /\ Versioned'
    BY <1>1, <1>2, <2>1 DEF LocalInv, LoopInv, LoopTypes, Versioned, boundVars
  <2> QED
    BY <1>2, <1>4, <2>2, <2>3 DEF LocalInv, LoopInv
<1> QED
  BY <1>7, <1>8

(* A signal turns down what has not begun; what runs goes on. *)
LEMMA StopKeeps ==
  ASSUME LocalInv, Stop
  PROVE  LocalInv'
<1>1. /\ signal' \in {"cancel", "lost"}
      /\ UNCHANGED <<planVars, diskVars, store, seen, reads, at, next, row, up, astray, boundVars>>
  BY DEF Stop
<1>2. /\ ChoiceInv' /\ build' = build /\ stage' = stage /\ skip' = skip /\ order' = order
      /\ Declined' = Declined
  BY <1>1, SamePlan
<1>3. (failing' <=> failing) /\ current' = current
  BY <1>1, <1>2 DEF failing, current
<1>4. InStep'
  BY <1>1, <1>2, <1>3 DEF InStep, LocalInv, LoopInv
<1>5. Undismissed' /\ Served'
  BY <1>1, <1>2, <1>3 DEF Undismissed, Served, LocalInv, LoopInv
<1>6. LoopTypes' /\ Versioned'
  BY <1>1, <1>2 DEF LocalInv, LoopInv, LoopTypes, Versioned, diskVars, boundVars
<1> QED
  BY <1>2, <1>4, <1>5, <1>6 DEF LocalInv, LoopInv

(* A process that is killed takes its list of services along. *)
LEMMA KillKeeps ==
  ASSUME LocalInv, Kill
  PROVE  LocalInv'
<1>1. /\ stage = "planned" /\ at # "over" /\ kills < MaxKills /\ kills' = kills + 1
      /\ at' = "over" /\ up' = <<>>
      /\ astray' = astray \cup ToSet(up) \cup (IF at = "launching" THEN {current} ELSE {})
      /\ output' = [output EXCEPT ![current] = Torn] \/ output' = output
      /\ slipped' \subseteq slipped \cup Target
      /\ UNCHANGED <<planVars, source, newest, restored, stands, whole, disk, store, seen, reads,
                     next, row, signal, rounds, edits, cleans>>
  BY DEF Kill, running, sourceVars, unsaved
<1>2. /\ ChoiceInv' /\ build' = build /\ stage' = stage /\ skip' = skip /\ order' = order
      /\ Declined' = Declined
  BY <1>1, SamePlan
<1>3. (failing' <=> failing)
  BY <1>1 DEF failing
<1>4. InStep'
  BY <1>1, <1>2, <1>3 DEF InStep, AtWork, LocalInv, LoopInv
<1>5. Undismissed'
  BY <1>1 DEF Undismissed, AtWork
<1>6. Served'
  BY <1>1 DEF Served
<1>7. astray' \subseteq build.services
  <2>1. at = "launching" => current \in build.services
    BY DEF LocalInv, LoopInv, Undismissed, AtWork
  <2>2. ToSet(up) \subseteq build.services /\ astray \subseteq build.services
    BY MembersOf DEF LocalInv, LoopInv, LoopTypes
  <2> QED
    BY <1>1, <2>1, <2>2
<1>8. kills' \in 0 .. MaxKills
  BY <1>1, BoundFacts DEF LocalInv, LoopInv, LoopTypes
<1>9. LoopTypes' /\ Versioned'
  BY <1>1, <1>2, <1>7, <1>8 DEF LocalInv, LoopInv, LoopTypes, Versioned
<1> QED
  BY <1>2, <1>4, <1>5, <1>6, <1>9 DEF LocalInv, LoopInv

(* The next run chooses anew among the same order.                          *)
LEMMA AgainKeeps ==
  ASSUME LocalInv, RunAgain
  PROVE  LocalInv'
<1>1. /\ at = "over" /\ rounds < build.rounds /\ rounds' = rounds + 1
      /\ stage' = "pruning" /\ pruned' = {} /\ skip' = build.unwanted
      /\ turn' = 1 /\ affected' = {} /\ triggered' = {}
      /\ store' = disk /\ seen' = Unknown
      /\ at' = "loop" /\ next' = 1 /\ row' = Unreported /\ signal' = "none" /\ up' = <<>>
      /\ UNCHANGED <<build, inRun, path, settled, cycle, diskVars, astray, edits, cleans, kills>>
  BY DEF RunAgain, searchVars
<1>2. stage = "planned"
  BY <1>1 DEF LocalInv, LoopInv, InStep
<1>3. PlanInv'
  <2>1. Searched' /\ RefusalsShowACycle'
    BY <1>1, <1>2, OrderStands DEF LocalInv, ChoiceInv, Searching
  <2>2. PlanTypeOK'
    <3>1. settled \in Seq(Target) /\ Len(settled) \in Nat
      BY DEF LocalInv, ChoiceInv, PlanInv, PlanTypeOK
    <3> QED
      BY <1>1, <3>1 DEF LocalInv, ChoiceInv, PlanInv, PlanTypeOK, IsGraph, Stage
  <2>3. InTurn'
    BY <1>1 DEF LocalInv, ChoiceInv, PlanInv, InTurn
  <2> QED
    BY <2>1, <2>2, <2>3 DEF PlanInv
<1>4. ChoiceInv'
  <2>1. executionSet(build)' = executionSet(build)
    BY <1>1 DEF executionSet, needs
  <2>2. Picked'
    BY <1>1, <1>2, <2>1 DEF LocalInv, ChoiceInv, Picked, Searching
  <2>3. Spread'
    BY <1>1 DEF Spread
  <2> QED
    BY <1>3, <2>2, <2>3 DEF ChoiceInv
<1>5. order' = order /\ Len(order) \in Nat
      /\ \A i \in 1 .. Len(order) : order[i] \in Target
  BY <1>1, <1>2, AtCurrent DEF LocalInv, LoopInv, order
<1>6. build.rounds \in Nat /\ build.services \subseteq Target
  BY WorkspaceFacts DEF LocalInv
<1>7. rounds' \in 1 .. build.rounds + 1
  BY <1>1, <1>6 DEF LocalInv, LoopInv, LoopTypes
<1>8. InStep'
  BY <1>1, <1>5 DEF InStep, Unreported
<1>9. Undismissed'
  BY <1>1 DEF Undismissed, AtWork
<1>10. Served'
  BY <1>1, <1>6 DEF Served, Unreported
<1>11. LoopTypes' /\ Versioned'
  BY <1>1, <1>5, <1>7
     DEF LocalInv, LoopInv, LoopTypes, Versioned, diskVars, Unreported, Unknown, Reported
<1> QED
  BY <1>4, <1>8, <1>9, <1>10, <1>11 DEF LocalInv, LoopInv

(* Edits and deletions leave plan and loop alone.                           *)
LEMMA DeveloperKeeps ==
  ASSUME LocalInv, NEW t \in Target, Edit(t) \/ Clean(t)
  PROVE  LocalInv'
<1>1. UNCHANGED <<planVars, stands, disk, slipped, runVars, rounds, kills>>
  BY DEF Edit, Clean, builtVars
<1>2. /\ ChoiceInv' /\ build' = build /\ stage' = stage /\ skip' = skip /\ order' = order
      /\ Declined' = Declined
  BY <1>1, SamePlan
<1>3. UNCHANGED <<at, next, row, signal, up, astray, store, seen>>
  BY <1>1 DEF runVars
<1>4. (failing' <=> failing) /\ current' = current
  BY <1>2, <1>3 DEF failing, current
<1>5. InStep' /\ Undismissed' /\ Served'
  BY <1>2, <1>3, <1>4 DEF InStep, Undismissed, Served, LocalInv, LoopInv
<1>6. CASE Edit(t)
  <2>1. /\ edits < MaxEdits /\ edits' = edits + 1
        /\ UNCHANGED <<output, whole, cleans>>
    BY <1>6 DEF Edit, builtVars
  <2>2. PICK content \in 0 .. newest[t] + 1 :
          /\ source' = [source EXCEPT ![t] = content]
          /\ newest' = [newest EXCEPT ![t] = IF content > @ THEN content ELSE @]
          /\ restored' = (restored \/ content <= newest[t])
    BY <1>6 DEF Edit
  <2>3. /\ source \in [Target -> 0 .. MaxEdits] /\ newest \in [Target -> 0 .. MaxEdits]
        /\ edits \in 0 .. MaxEdits /\ MaxEdits \in Nat
        /\ \A u \in Target : source[u] <= newest[u] /\ newest[u] <= edits
        /\ ~restored => source = newest
    BY BoundFacts DEF LocalInv, LoopInv, LoopTypes, Versioned
  <2>4. edits' \in 0 .. MaxEdits
    BY <2>1, <2>3
  <2>5. /\ source'[t] = content /\ newest'[t] = (IF content > newest[t] THEN content ELSE newest[t])
        /\ \A u \in Target \ {t} : source'[u] = source[u] /\ newest'[u] = newest[u]
        /\ DOMAIN source' = Target /\ DOMAIN newest' = Target
        /\ source' = [u \in Target |-> source'[u]] /\ newest' = [u \in Target |-> newest'[u]]
    BY <2>2, <2>3
  <2>6. content \in 0 .. MaxEdits /\ content <= newest'[t] /\ newest'[t] \in 0 .. MaxEdits
        /\ newest'[t] <= edits'
    <3>1. content \in Nat /\ content <= newest[t] + 1 /\ newest[t] \in Nat /\ newest[t] <= edits
      BY <2>2, <2>3
    <3> QED
      BY <2>1, <2>3, <2>5, <3>1
  <2>7. \A u \in Target : /\ source'[u] \in 0 .. MaxEdits /\ newest'[u] \in 0 .. MaxEdits
                           /\ source'[u] <= newest'[u] /\ newest'[u] <= edits'
    BY <2>1, <2>3, <2>5, <2>6
  <2>8. source' \in [Target -> 0 .. MaxEdits] /\ newest' \in [Target -> 0 .. MaxEdits]
    BY <2>5, <2>7
  <2>9. ~restored' => source' = newest'
    <3> SUFFICES ASSUME ~restored' PROVE source' = newest'
      OBVIOUS
    <3>1. ~restored /\ ~(content <= newest[t])
      BY <2>2
    <3>2. content > newest[t] /\ source = newest
      BY <2>2, <2>3, <3>1
    <3>3. \A u \in Target : source'[u] = newest'[u]
      BY <2>5, <3>2
    <3> QED
      BY <2>5, <3>3
  <2>10. restored' \in BOOLEAN
    BY <2>2 DEF LocalInv, LoopInv, LoopTypes
  <2>11. Versioned'
    BY <2>7, <2>9 DEF Versioned
  <2>12. LoopTypes'
    BY <1>1, <1>2, <1>3, <2>1, <2>4, <2>8, <2>10 DEF LocalInv, LoopInv, LoopTypes
  <2> QED
    BY <1>2, <1>5, <2>11, <2>12 DEF LocalInv, LoopInv
<1>7. CASE Clean(t)
  <2>1. /\ cleans < MaxCleans /\ cleans' = cleans + 1
        /\ output' = [output EXCEPT ![t] = None] /\ whole' = whole \ {t}
        /\ UNCHANGED <<source, newest, restored, edits>>
    BY <1>7 DEF Clean, sourceVars
  <2>2. cleans' \in 0 .. MaxCleans
    BY <2>1, BoundFacts DEF LocalInv, LoopInv, LoopTypes
  <2>3. LoopTypes' /\ Versioned'
    BY <1>1, <1>2, <1>3, <2>1, <2>2 DEF LocalInv, LoopInv, LoopTypes, Versioned
  <2> QED
    BY <1>2, <1>5, <2>3 DEF LocalInv, LoopInv
<1> QED
  BY <1>6, <1>7

(* No step breaks the invariant. *)
LEMMA LocalStep == LocalInv /\ [Next]_vars => LocalInv'
<1> SUFFICES ASSUME LocalInv, [Next]_vars PROVE LocalInv'
  OBVIOUS
<1>1. CASE UNCHANGED vars
  <2>1. UNCHANGED <<planVars, diskVars, runVars, boundVars>>
    BY <1>1 DEF vars
  <2>2. /\ ChoiceInv' /\ build' = build /\ stage' = stage /\ skip' = skip /\ order' = order
        /\ Declined' = Declined
    BY <2>1, SamePlan
  <2>3. UNCHANGED <<source, newest, restored, output, stands, whole, disk, slipped, store, seen, at,
                    next, row, signal, up, astray, rounds, edits, cleans, kills>>
    BY <2>1 DEF diskVars, runVars, boundVars
  <2>4. (failing' <=> failing) /\ current' = current
    BY <2>2, <2>3 DEF failing, current
  <2>5. InStep' /\ Undismissed' /\ Served' /\ Versioned'
    BY <2>2, <2>3, <2>4 DEF InStep, Undismissed, Served, Versioned, LocalInv, LoopInv
  <2>6. LoopTypes'
    BY <2>2, <2>3 DEF LoopTypes, LocalInv, LoopInv
  <2> QED
    BY <2>2, <2>5, <2>6 DEF LocalInv, LoopInv
<1>2. CASE LoopStep
  BY <1>2, NotStartedKeeps, ServiceKeeps, StartsKeep, BodyEndKeeps, EndKeeps DEF LoopStep
<1>3. ASSUME NEW t \in Target, Edit(t) \/ Clean(t) PROVE LocalInv'
  BY <1>3, DeveloperKeeps
<1> QED
  BY <1>1, <1>2, <1>3, PlansKeep, AgainKeeps, StopKeeps, KillKeeps DEF Next, Done

-----------------------------------------------------------------------------
(* What holds of every run of a workspace. *)

(* Every variable keeps its type, whatever the builds of the workspace are. *)
THEOREM WorkspaceTyped == Spec => []TypeOK
<1>1. LocalInv => TypeOK
  BY WorkspaceFacts DEF LocalInv, ChoiceInv, PlanInv, LoopInv, LoopTypes, TypeOK, AtWork
<1> QED
  BY <1>1, LoopInit, LocalStep, PTL DEF Spec

(* Each run of the workspace gets a sound plan, also one that asks its      *)
(* conditions anew.                                                         *)
THEOREM EveryRunIsPlanned == Spec => []PlansAreSound
<1>1. LocalInv => PlansAreSound
  BY OrdersAreSound DEF LocalInv, ChoiceInv, PlanInv, PlansAreSound
<1> QED
  BY <1>1, LoopInit, LocalStep, PTL DEF Spec

(* No run leaves out what a target that stays depends on, unless it was     *)
(* asked to, a condition declined it or the change does not reach it; and   *)
(* it leaves out nothing else that the change reaches.                      *)
THEOREM EverySkipIsJustified == Spec => []SkipsAreJustified
<1>1. LocalInv => SkipsAreJustified
  BY ChoicesAreJustified DEF LocalInv
<1> QED
  BY <1>1, LoopInit, LocalStep, PTL DEF Spec

(* What is declared to be over before a target stands before it in the      *)
(* order, so the loop has reported it; and it was not skipped for a failure *)
(* or a signal, since then the target would not have been started.          *)
LEMMA NeedsAreMet == LocalInv => WorkRestsOnItsNeeds
<1> SUFFICES ASSUME LocalInv, running, at \in AtWork
             PROVE  /\ \A p \in DeclaredBefore(current) : row[p] \in {"passed", "cached", "skipped"}
                    /\ \A d \in build.depends[current] :
                         row[d] = "skipped" =>
                           \/ d \in build.unwanted \cup build.optional
                           \/ build.narrowed /\ d \notin AllAffected
  BY DEF WorkRestsOnItsNeeds, AtWork
<1>1. stage = "planned" /\ next <= Len(order) /\ current \notin skip /\ ~failing
  BY DEF running, LocalInv, LoopInv, Undismissed
<1>2. /\ Len(order) \in Nat /\ next \in 1 .. Len(order) /\ current = order[next]
  BY <1>1, AtCurrent DEF LocalInv, LoopInv
<1>3. /\ order[next] \in inRun
      /\ DeclaredBefore(order[next]) \subseteq {order[j] : j \in 1 .. next - 1}
      /\ build.depends[order[next]] \subseteq {order[j] : j \in 1 .. next - 1}
  BY <1>1, <1>2, EdgesPointBack DEF LocalInv, ChoiceInv
<1>4. \A t \in Target : row[t] \in Reported \cup {"pending"} /\ row[t] # "failed"
  BY <1>1 DEF LocalInv, LoopInv, LoopTypes, failing
<1>5. ASSUME NEW j \in 1 .. next - 1
      PROVE  order[j] \in Target /\ row[order[j]] \in {"passed", "cached", "skipped"}
  <2>1. j \in 1 .. Len(order) /\ ~(j >= next)
    BY <1>2
  <2>2. order[j] \in Target
    BY <1>1, <2>1, AtCurrent DEF LocalInv, LoopInv
  <2>3. row[order[j]] # "pending"
    BY <2>1 DEF LocalInv, LoopInv, InStep
  <2> QED
    BY <1>4, <2>2, <2>3 DEF Reported
<1>6. \A p \in DeclaredBefore(current) : row[p] \in {"passed", "cached", "skipped"}
  BY <1>2, <1>3, <1>5
<1>7. ASSUME NEW d \in build.depends[current], row[d] = "skipped"
      PROVE  \/ d \in build.unwanted \cup build.optional
             \/ build.narrowed /\ d \notin AllAffected
  <2>1. d \in Target
    BY <1>2, <1>3, <1>5
  <2>2. d \in skip \cup build.optional
    BY <1>1, <1>7, <2>1 DEF LocalInv, LoopInv, InStep, Declined
  <2>3. CASE d \in skip
    <3>1. d \in build.unwanted \cup pruned \/ (build.narrowed /\ d \notin AllAffected)
      BY <1>1, <1>2, <1>3, <2>3, ChoicesAreJustified DEF LocalInv, SkipsAreJustified
    <3>2. pruned \subseteq build.optional
      BY DEF LocalInv, ChoiceInv, PlanInv, PlanTypeOK
    <3> QED
      BY <3>1, <3>2
  <2> QED
    BY <2>2, <2>3
<1> QED
  BY <1>6, <1>7

(* No body and no service starts before what it needs, and none on top of a *)
(* failure.                                                                 *)
THEOREM NeedsComeFirst == Spec => []WorkRestsOnItsNeeds
  BY NeedsAreMet, LoopInit, LocalStep, PTL DEF Spec

(* A service that came up is there until the loop is through, outlives the  *)
(* services that depend on it, and is not there when the run is over.       *)
THEOREM ServicesStayUp == Spec => []ServicesAreHeld
<1>1. LocalInv => ServicesAreHeld
  BY DEF LocalInv, LoopInv, Served, ServicesAreHeld, running
<1> QED
  BY <1>1, LoopInit, LocalStep, PTL DEF Spec

-----------------------------------------------------------------------------
(* What the cache may call up to date. *)

(* What a body made of target t from a version of its source and contents   *)
(* of the outputs it uses: neither nothing nor torn.                        *)
Made(t, x) ==
  /\ x = <<x[1], x[2]>> /\ x[1] \in Nat
  /\ x[2] = [d \in build.uses[t] |-> x[2][d]]

(* What the targets use has a content each.                                 *)
Used(t) == [d \in build.uses[t] |-> output[d]]

(* `known[t]` are the contents target t has had.  What a content was made   *)
(* from is known too, and of no later source than there is.                 *)
Recorded(known) ==
  /\ \A t \in Target : {output[t], store[t], disk[t]} \subseteq known[t]
  /\ \A t \in Target : \A x \in known[t] : Made(t, x) =>
       /\ x[1] <= source[t]
       /\ \A d \in build.uses[t] : x[2][d] \in known[d]

(* The body at work has read what there is, and so did its fingerprint.     *)
Fresh(known) ==
  /\ at \in {"body", "building"} /\ current \in build.cacheable =>
       /\ Made(current, seen[current]) /\ seen[current][2] = Used(current)
       /\ seen[current][1] <= source[current]
  /\ at = "building" =>
       /\ current \notin whole
       /\ Made(current, reads) /\ reads[2] = Used(current)
       /\ reads[1] <= source[current]
       /\ \A x \in known[current] : Made(current, x) => x[1] <= reads[1]
       /\ current \in build.cacheable => seen[current][1] <= reads[1]

(* `older[t]` are pairs of contents, the second made whole after the first  *)
(* was known; so are the pairs of what both were made from.  A whole output *)
(* is the latest of all, and one that comes after an equal one equals it.   *)
Descended(known, older) ==
  /\ \A t \in Target : older[t] \subseteq known[t] \X known[t]
  /\ \A t \in whole : \A x \in known[t] : <<x, output[t]>> \in older[t]
  /\ \A t \in Target : \A x, y \in known[t] : <<x, y>> \in older[t] =>
       /\ Made(t, y)
       /\ Made(t, x) =>
            x[1] <= y[1] /\ \A d \in build.uses[t] : <<x[2][d], y[2][d]>> \in older[d]
       /\ t \in whole /\ x = output[t] => y = output[t]

Lineage(known, older) == Recorded(known) /\ Fresh(known) /\ Descended(known, older)

(* There is an account of the contents so far, and of which came after      *)
(* which, that explains every output and fingerprint.                       *)
Traced == \E known, older : Lineage(known, older)

(* What targets use are targets, and none uses itself.                      *)
LEMMA UsesFacts ==
  ASSUME LocalInv
  PROVE  /\ \A t \in Target : build.uses[t] \subseteq Target
         /\ \A t \in Target : source[t] \in Nat
         /\ DOMAIN output = Target /\ DOMAIN store = Target /\ DOMAIN seen = Target
         /\ DOMAIN source = Target /\ whole \subseteq Target
<1>1. IsGraph(build) /\ build \in Builds
  BY DEF LocalInv, ChoiceInv, PlanInv, PlanTypeOK, InTurn
<1>2. \A t \in Target : build.uses[t] \subseteq build.depends[t]
  BY <1>1, WorkspacesAssumption DEF IsWorkspace
<1>3. source \in [Target -> 0 .. MaxEdits] /\ MaxEdits \in Nat
  BY BoundFacts DEF LocalInv, LoopInv, LoopTypes
<1> QED
  BY <1>1, <1>2, <1>3 DEF IsGraph, LocalInv, LoopInv, LoopTypes

(* What a fingerprint holds; nothing and torn outputs are not made.         *)
LEMMA MadeOrNot ==
  ASSUME NEW t \in Target, source[t] \in Nat
  PROVE  /\ Made(t, Inputs(t)) /\ Inputs(t)[1] = source[t] /\ Inputs(t)[2] = Used(t)
         /\ ~Made(t, None) /\ ~Made(t, Torn)
<1>1. Made(t, Inputs(t)) /\ Inputs(t)[1] = source[t] /\ Inputs(t)[2] = Used(t)
  BY DEF Made, Inputs, Used
<1>2. ASSUME NEW x, x = <<x[1], x[2]>> PROVE x # None /\ x # Torn
  <2>1. PICK a, b : x = <<a, b>>
    BY <1>2
  <2>2. <<a, b>> # <<>> /\ <<a, b>> # <<"torn">>
    OBVIOUS
  <2> QED
    BY <2>1, <2>2 DEF None, Torn
<1> QED
  BY <1>1, <1>2 DEF Made

(* Two contents made from the same are the same.                            *)
LEMMA SameMade ==
  ASSUME NEW t, NEW x, NEW y, Made(t, x), Made(t, y), x[1] = y[1],
         \A d \in build.uses[t] : x[2][d] = y[2][d]
  PROVE  x = y
<1>1. [d \in build.uses[t] |-> x[2][d]] = [d \in build.uses[t] |-> y[2][d]]
  OBVIOUS
<1>2. x[2] = y[2]
  BY <1>1 DEF Made
<1> QED
  BY <1>2 DEF Made

(* A workspace nothing was built in.                                        *)
LEMMA TracedInit == LocalInit /\ LocalInv => Traced
<1> SUFFICES ASSUME LocalInit, LocalInv PROVE Traced
  OBVIOUS
<1> PICK known : known = [t \in Target |-> {None}]
  OBVIOUS
<1> PICK older : older = [t \in Target |-> {}]
  OBVIOUS
<1>1. /\ whole = {} /\ at = "loop"
      /\ \A t \in Target : output[t] = None /\ store[t] = None /\ disk[t] = None
  BY DEF LocalInit, Unknown
<1>2. \A t \in Target : ~Made(t, None)
  BY UsesFacts, MadeOrNot
<1>3. Recorded(known)
  BY <1>1, <1>2 DEF Recorded
<1>4. Fresh(known) /\ Descended(known, older)
  BY <1>1 DEF Fresh, Descended
<1> QED
  BY <1>3, <1>4 DEF Traced, Lineage

(* A step that makes no content leaves the account as it is.                *)
LEMMA NothingMade ==
  ASSUME LocalInv, NEW known, NEW older, Lineage(known, older),
         build' = build, output' = output, whole' \subseteq whole,
         \A t \in Target : {store'[t], disk'[t]} \subseteq {store[t], disk[t]},
         \A t \in Target : source'[t] \in Nat /\ source[t] <= source'[t],
         Fresh(known)'
  PROVE  Traced'
<1>1. \A t, x : Made(t, x)' <=> Made(t, x)
  BY DEF Made
<1>2. Recorded(known)'
  <2>1. \A t \in Target : {output'[t], store'[t], disk'[t]} \subseteq known[t]
    BY DEF Lineage, Recorded
  <2>2. ASSUME NEW t \in Target, NEW x \in known[t], Made(t, x)
        PROVE  x[1] <= source'[t] /\ \A d \in build.uses[t] : x[2][d] \in known[d]
    <3>1. x[1] \in Nat /\ x[1] <= source[t] /\ \A d \in build.uses[t] : x[2][d] \in known[d]
      BY <2>2 DEF Lineage, Recorded, Made
    <3> QED
      BY <3>1, UsesFacts
  <2> QED
    BY <1>1, <2>1, <2>2 DEF Recorded
<1>3. Descended(known, older)'
  BY <1>1, UsesFacts DEF Lineage, Descended
<1> QED
  BY <1>2, <1>3 DEF Traced, Lineage

(* What has to be known after a step, in terms of the build before.         *)
LEMMA NextKnown ==
  ASSUME NEW later, build' = build, source' = source,
         \A t \in Target : {output'[t], store'[t], disk'[t]} \subseteq later[t],
         \A t \in Target : \A x \in later[t] : Made(t, x) =>
           x[1] <= source[t] /\ \A d \in build.uses[t] : x[2][d] \in later[d]
  PROVE  Recorded(later)'
<1>1. \A t, x : Made(t, x)' <=> Made(t, x)
  BY DEF Made
<1> QED
  BY <1>1 DEF Recorded

(* The same of what came after what.                                        *)
LEMMA NextPairs ==
  ASSUME NEW later, NEW after, build' = build,
         \A t \in Target : after[t] \subseteq later[t] \X later[t],
         \A t \in whole' : \A x \in later[t] : <<x, output'[t]>> \in after[t],
         \A t \in Target : \A x, y \in later[t] : <<x, y>> \in after[t] =>
           /\ Made(t, y)
           /\ Made(t, x) =>
                x[1] <= y[1] /\ \A d \in build.uses[t] : <<x[2][d], y[2][d]>> \in after[d]
           /\ t \in whole' /\ x = output'[t] => y = output'[t]
  PROVE  Descended(later, after)'
<1>1. \A t, x : Made(t, x)' <=> Made(t, x)
  BY DEF Made
<1> QED
  BY <1>1 DEF Descended

(* Pairs from a set that grows. *)
LEMMA PairsOfMore ==
  ASSUME NEW K, NEW L, K \subseteq L, NEW R, R \subseteq K \X K
  PROVE  R \subseteq L \X L
  OBVIOUS

(* An output that is not whole comes after nothing.                         *)
LEMMA SpoiltJoins ==
  ASSUME LocalInv, NEW known, NEW older, Lineage(known, older),
         NEW c \in Target, NEW new,
         \A x \in new : Made(c, x) =>
           x[1] <= source[c] /\ \A d \in build.uses[c] : x[2][d] \in known[d],
         build' = build, source' = source, at' \in {"loop", "over"},
         \A t \in Target \ {c} : output'[t] = output[t],
         whole' \subseteq whole, c \notin whole',
         output'[c] \in new, store'[c] \in known[c] \cup new, disk'[c] \in known[c],
         \A t \in Target \ {c} : store'[t] \in known[t] /\ disk'[t] \in known[t]
  PROVE  Traced'
<1> PICK later : later = [t \in Target |-> IF t = c THEN known[t] \cup new ELSE known[t]]
  OBVIOUS
<1>0. \A t \in Target : known[t] \subseteq later[t]
  OBVIOUS
<1>1. ASSUME NEW t \in Target, NEW x \in later[t], Made(t, x)
      PROVE  x[1] <= source[t] /\ \A d \in build.uses[t] : x[2][d] \in later[d]
  <2>1. x \in known[t] \/ (t = c /\ x \in new)
    BY <1>1
  <2>2. x[1] <= source[t] /\ \A d \in build.uses[t] : x[2][d] \in known[d]
    BY <1>1, <2>1 DEF Lineage, Recorded
  <2> QED
    BY <1>0, <2>2, UsesFacts
<1>2. \A t \in Target : {output'[t], store'[t], disk'[t]} \subseteq later[t]
  BY DEF Lineage, Recorded
<1>3. Fresh(later)'
  BY DEF Fresh
<1>4. \A t \in whole' : t \in Target \ {c} /\ output'[t] = output[t] /\ later[t] = known[t]
  BY UsesFacts
<1>5. /\ \A t \in Target : older[t] \subseteq later[t] \X later[t]
      /\ \A t \in whole' : \A x \in later[t] : <<x, output'[t]>> \in older[t]
  <2>1. \A t \in Target : older[t] \subseteq known[t] \X known[t]
    BY DEF Lineage, Descended
  <2>2. \A t \in whole' : \A x \in known[t] : <<x, output[t]>> \in older[t]
    BY DEF Lineage, Descended
  <2>3. \A t \in Target : older[t] \subseteq later[t] \X later[t]
    BY <1>0, <2>1, PairsOfMore
  <2> QED
    BY <1>4, <2>2, <2>3
<1>6. ASSUME NEW t \in Target, NEW x \in later[t], NEW y \in later[t], <<x, y>> \in older[t]
      PROVE  /\ Made(t, y)
             /\ Made(t, x) =>
                  x[1] <= y[1] /\ \A d \in build.uses[t] : <<x[2][d], y[2][d]>> \in older[d]
             /\ t \in whole' /\ x = output'[t] => y = output'[t]
  <2>1. x \in known[t] /\ y \in known[t]
    BY <1>6 DEF Lineage, Descended
  <2> QED
    BY <1>4, <1>6, <2>1 DEF Lineage, Descended
<1>7. Recorded(later)'
  BY <1>1, <1>2, NextKnown
<1>8. Descended(later, older)'
  <2>1. \A t \in Target : \A x, y \in later[t] : <<x, y>> \in older[t] =>
          /\ Made(t, y)
          /\ Made(t, x) =>
               x[1] <= y[1] /\ \A d \in build.uses[t] : <<x[2][d], y[2][d]>> \in older[d]
          /\ t \in whole' /\ x = output'[t] => y = output'[t]
    BY <1>6
  <2>2. \A t, x : Made(t, x)' <=> Made(t, x)
    BY DEF Made
  <2> QED
    BY <1>5, <2>1, <2>2 DEF Descended
<1> QED
  BY <1>3, <1>7, <1>8 DEF Traced, Lineage

(* A body that comes to its end over whole outputs makes the latest content *)
(* of its target: what it used is later than all it was made from before.   *)
LEMMA WholeJoins ==
  ASSUME LocalInv, NEW known, NEW older, Lineage(known, older),
         NEW c \in Target, NEW w, NEW s,
         Made(c, w), w[1] <= source[c], w[2] = Used(c),
         \A x \in known[c] \cup {s} : Made(c, x) => x[1] <= w[1],
         Made(c, s) => \A d \in build.uses[c] : s[2][d] \in known[d],
         c \notin whole, build.uses[c] \subseteq whole,
         build' = build, source' = source, at' = "loop",
         \A t \in Target \ {c} : output'[t] = output[t] /\ store'[t] = store[t],
         output'[c] = w, store'[c] = s, disk' = disk, whole' = whole \cup {c}
  PROVE  Traced'
<1> PICK new : \A x : x \in new <=> x = w \/ x = s
  <2>1. \A x : x \in {w, s} <=> x = w \/ x = s
    OBVIOUS
  <2> QED
    BY <2>1
<1>1. \A d \in build.uses[c] : d \in whole /\ d \in Target /\ d # c /\ w[2][d] = output[d]
  BY UsesFacts DEF Used
<1>2. source[c] \in Nat /\ w[1] \in Nat
  BY UsesFacts DEF Made
<1>3. \A x \in new : Made(c, x) =>
        x[1] <= source[c] /\ \A d \in build.uses[c] : x[2][d] \in known[d]
  <2>1. \A d \in build.uses[c] : output[d] \in known[d]
    BY <1>1 DEF Lineage, Recorded
  <2>2. Made(c, s) => s[1] \in Nat /\ s[1] <= w[1]
    BY DEF Made
  <2> QED
    BY <1>1, <1>2, <2>1, <2>2
<1> PICK later : later = [t \in Target |-> IF t = c THEN known[t] \cup new ELSE known[t]]
  OBVIOUS
<1>4. \A t \in Target : known[t] \subseteq later[t]
  OBVIOUS
<1>4a. ASSUME NEW t \in Target, NEW x \in later[t], Made(t, x)
      PROVE  x[1] <= source[t] /\ \A d \in build.uses[t] : x[2][d] \in later[d]
  <2>1. x \in known[t] \/ (t = c /\ x \in new)
    BY <1>4a
  <2>2. x[1] <= source[t] /\ \A d \in build.uses[t] : x[2][d] \in known[d]
    BY <1>3, <1>4a, <2>1 DEF Lineage, Recorded
  <2> QED
    BY <1>4, <2>2, UsesFacts
<1>5. PICK after :
        after = [t \in Target |-> IF t = c THEN older[t] \cup {<<x, w>> : x \in later[c]}
                                           ELSE older[t]]
  OBVIOUS
<1>6. /\ later[c] = known[c] \cup new /\ w \in later[c]
      /\ after[c] = older[c] \cup {<<x, w>> : x \in later[c]}
      /\ \A t \in Target \ {c} : after[t] = older[t] /\ later[t] = known[t]
      /\ \A t \in Target : older[t] \subseteq after[t] /\ older[t] \subseteq known[t] \X known[t]
  BY <1>5 DEF Lineage, Descended
<1>7. \A t \in Target : {output'[t], store'[t], disk'[t]} \subseteq later[t]
  BY <1>6 DEF Lineage, Recorded
<1>8. Fresh(later)'
  BY DEF Fresh
<1>9. ASSUME NEW x \in later[c], Made(c, x)
      PROVE  x[1] <= w[1] /\ \A d \in build.uses[c] : <<x[2][d], w[2][d]>> \in after[d]
  <2>1. x[1] <= w[1]
    BY <1>2, <1>6, <1>9
  <2>2. \A d \in build.uses[c] : x[2][d] \in known[d]
    BY <1>1, <1>3, <1>6, <1>9 DEF Lineage, Recorded
  <2>3. \A d \in build.uses[c] : <<x[2][d], output[d]>> \in older[d]
    BY <1>1, <2>2 DEF Lineage, Descended
  <2> QED
    BY <1>1, <1>6, <2>1, <2>3
<1>10. ASSUME NEW x \in known[c], NEW y \in known[c], <<x, y>> \in older[c], x = w
       PROVE  y = w
  <2>1. /\ Made(c, y) /\ w[1] <= y[1]
        /\ \A d \in build.uses[c] : <<w[2][d], y[2][d]>> \in older[d]
    BY <1>10 DEF Lineage, Descended
  <2>2. y[1] = w[1]
    BY <1>2, <1>10, <2>1 DEF Made
  <2>3. ASSUME NEW d \in build.uses[c] PROVE y[2][d] = w[2][d]
    <3>1. <<output[d], y[2][d]>> \in older[d] /\ d \in whole /\ d \in Target
      BY <1>1, <2>1
    <3>2. output[d] \in known[d] /\ y[2][d] \in known[d]
      BY <1>6, <3>1
    <3> QED
      BY <1>1, <3>1, <3>2 DEF Lineage, Descended
  <2> QED
    BY <2>1, <2>2, <2>3, SameMade
<1>11. \A t \in Target : after[t] \subseteq later[t] \X later[t]
  BY <1>4, <1>6
<1>12. ASSUME NEW t \in whole', NEW x \in later[t] PROVE <<x, output'[t]>> \in after[t]
  <2>1. CASE t = c
    BY <1>6, <1>12, <2>1
  <2>2. CASE t # c
    BY <1>6, <1>12, <2>2, UsesFacts DEF Lineage, Descended
  <2> QED
    BY <2>1, <2>2
<1>13. ASSUME NEW t \in Target, NEW x \in later[t], NEW y \in later[t], <<x, y>> \in after[t]
       PROVE  /\ Made(t, y)
              /\ Made(t, x) =>
                   x[1] <= y[1] /\ \A d \in build.uses[t] : <<x[2][d], y[2][d]>> \in after[d]
              /\ t \in whole' /\ x = output'[t] => y = output'[t]
  <2>1. CASE <<x, y>> \in older[t]
    <3>1. x \in known[t] /\ y \in known[t]
      BY <1>6, <2>1
    <3>2. /\ Made(t, y)
          /\ Made(t, x) =>
               x[1] <= y[1] /\ \A d \in build.uses[t] : <<x[2][d], y[2][d]>> \in older[d]
          /\ t \in whole /\ x = output[t] => y = output[t]
      BY <2>1, <3>1 DEF Lineage, Descended
    <3>3. \A d \in build.uses[t] : d \in Target
      BY UsesFacts
    <3>4. t \in whole' /\ x = output'[t] => y = output'[t]
      BY <1>10, <2>1, <3>1, <3>2
    <3> QED
      BY <1>6, <3>2, <3>3, <3>4
  <2>2. CASE t = c /\ y = w
    BY <1>9, <1>13, <2>2
  <2> QED
    BY <1>6, <1>13, <2>1, <2>2
<1>14. Recorded(later)'
  BY <1>4a, <1>7, NextKnown
<1>15. Descended(later, after)'
  BY <1>11, <1>12, <1>13, NextPairs
<1> QED
  BY <1>8, <1>14, <1>15 DEF Traced, Lineage

(* What holds of the target at hand and the build in a step of the loop.    *)
LEMMA LoopContext ==
  ASSUME LocalInv, running, next <= Len(order), UNCHANGED planVars
  PROVE  /\ current \in Target /\ build' = build
         /\ source[current] \in Nat
         /\ Inputs(current) = <<source[current], Used(current)>>
         /\ next' = next => current' = current
<1>1. stage = "planned" /\ build' = build /\ order' = order
  BY SamePlan DEF running
<1>2. current \in Target
  BY <1>1, AtCurrent DEF LocalInv, LoopInv
<1>3. next' = next => current' = current
  BY <1>1 DEF current
<1> QED
  BY <1>1, <1>2, <1>3, UsesFacts DEF Inputs, Used

(* The steps that touch no content.                                         *)
LEMMA TracedByPlan ==
  ASSUME LocalInv, Traced,
         \/ Plans \/ PassOver \/ FailEarly \/ StartService \/ ServiceReady
         \/ ServiceNotReady \/ GoAhead \/ StopService \/ Stop \/ UNCHANGED vars
  PROVE  Traced'
<1>1. UNCHANGED <<source, output, whole, disk, store, seen, reads>>
  BY DEF Plans, PassOver, FailEarly, StartService, ServiceReady, ServiceNotReady, GoAhead,
         StopService, Stop, vars, diskVars, runVars
<1>2. build' = build
  BY DEF Plans, PlanStep, StartAt, Descend, FindCycle, Settle, PassCheck, OrderFound, Prune,
         Decide, Narrow, PassOver, FailEarly, StartService, ServiceReady, ServiceNotReady,
         GoAhead, StopService, Stop, vars, planVars
<1>3. ASSUME at' \in {"body", "building"}
      PROVE  /\ current' = current
             /\ at = at' \/ (at' = "body" /\ current \notin build.cacheable)
  <2>1. CASE Plans
    <3>1. stage # "planned"
      BY <2>1 DEF Plans, PlanStep, StartAt, Descend, FindCycle, Settle, PassCheck, OrderFound,
                  Prune, Decide, Narrow, Searching
    <3>2. at' = at
      BY <2>1 DEF Plans, runVars
    <3> QED
      BY <1>3, <3>1, <3>2 DEF LocalInv, LoopInv, InStep
  <2>2. ~(PassOver \/ FailEarly \/ StartService \/ ServiceReady \/ ServiceNotReady
            \/ StopService)
    BY <1>3 DEF PassOver, FailEarly, StartService, ServiceReady, ServiceNotReady, StopService,
                Report
  <2>3. CASE GoAhead
    BY <2>3, LoopContext DEF GoAhead, Turn
  <2>4. CASE Stop \/ UNCHANGED vars
    BY <2>4 DEF Stop, vars, planVars, searchVars, runVars, current, order
  <2> QED
    BY <2>1, <2>2, <2>3, <2>4
<1>4. PICK known, older : Lineage(known, older)
  BY DEF Traced
<1>5. Fresh(known)'
  BY <1>1, <1>2, <1>3, <1>4 DEF Lineage, Fresh, Made, Used
<1> QED
  BY <1>1, <1>2, <1>4, <1>5, UsesFacts, NothingMade

(* The cache is asked: the fingerprint is of what there is.                 *)
LEMMA TracedByLookUp ==
  ASSUME LocalInv, Traced, LookUp
  PROVE  Traced'
<1>1. /\ running /\ next <= Len(order) /\ UNCHANGED planVars
      /\ UNCHANGED <<source, output, whole, disk, store>>
      /\ seen' = [seen EXCEPT ![current] = Inputs(current)]
      /\ at' = "loop" \/ (at' = "body" /\ next' = next)
  BY DEF LookUp, Turn, diskVars, Report
<1>2. /\ current \in Target /\ build' = build /\ source[current] \in Nat
      /\ Inputs(current) = <<source[current], Used(current)>>
      /\ next' = next => current' = current
  BY <1>1, LoopContext
<1>3. Made(current, Inputs(current))
  BY <1>2, MadeOrNot
<1>4. PICK known, older : Lineage(known, older)
  BY DEF Traced
<1>5. Fresh(known)'
  <2>1. seen'[current] = Inputs(current)
    BY <1>1, <1>2, UsesFacts
  <2> QED
    BY <1>1, <1>2, <1>3, <2>1 DEF Fresh, Made, Used
<1> QED
  BY <1>1, <1>2, <1>4, <1>5, UsesFacts, NothingMade

(* A body reads what there is, no less than its fingerprint was of.         *)
LEMMA TracedByReading ==
  ASSUME LocalInv, Traced, BodyReads
  PROVE  Traced'
<1>1. /\ running /\ next <= Len(order) /\ UNCHANGED planVars /\ at = "body" /\ at' = "building"
      /\ UNCHANGED <<source, output, disk, store, seen, next>>
      /\ reads' = Inputs(current) /\ whole' = whole \ {current}
  BY DEF BodyReads, Turn, sourceVars
<1>2. /\ current \in Target /\ build' = build /\ source[current] \in Nat
      /\ Inputs(current) = <<source[current], Used(current)>>
      /\ current' = current
  BY <1>1, LoopContext
<1>3. Made(current, Inputs(current))
  BY <1>2, MadeOrNot
<1>4. PICK known, older : Lineage(known, older)
  BY DEF Traced
<1>5. \A x \in known[current] : Made(current, x) => x[1] <= source[current]
  BY <1>2, <1>4 DEF Lineage, Recorded
<1>6. Fresh(known)'
  <2>1. current \in build.cacheable =>
          /\ Made(current, seen[current]) /\ seen[current][2] = Used(current)
          /\ seen[current][1] <= source[current]
    BY <1>1, <1>4 DEF Lineage, Fresh
  <2> QED
    BY <1>1, <1>2, <1>3, <1>5, <2>1 DEF Fresh, Made, Used
<1> QED
  BY <1>1, <1>2, <1>4, <1>6, UsesFacts, NothingMade

(* A body returns.  Over whole outputs its own is the latest there was.     *)
LEMMA TracedByReturning ==
  ASSUME LocalInv, Traced, BodyReturns
  PROVE  Traced'
<1>1. /\ running /\ next <= Len(order) /\ UNCHANGED planVars /\ at = "building"
      /\ at' = "loop" /\ UNCHANGED <<source, disk>>
      /\ output' = [output EXCEPT ![current] = reads]
      /\ store' = [store EXCEPT ![current] = remembered]
      /\ whole' = IF build.uses[current] \subseteq whole THEN whole \cup {current} ELSE whole
  BY DEF BodyReturns, Turn, Report, sourceVars
<1>2. current \in Target /\ build' = build
  BY <1>1, LoopContext
<1>3. PICK c : c = current
  OBVIOUS
<1>4. PICK w, s : w = reads /\ s = remembered
  OBVIOUS
<1>5. /\ c \in Target /\ output'[c] = w /\ store'[c] = s
      /\ \A t \in Target \ {c} : output'[t] = output[t] /\ store'[t] = store[t]
  <2> HIDE DEF remembered
  <2> QED
    BY <1>1, <1>2, <1>3, <1>4, UsesFacts
<1>6. PICK known, older : Lineage(known, older)
  BY DEF Traced
<1>7. /\ c \notin whole /\ Made(c, w) /\ w[2] = Used(c) /\ w[1] <= source[c]
      /\ \A x \in known[c] : Made(c, x) => x[1] <= w[1]
      /\ c \in build.cacheable =>
           Made(c, seen[c]) /\ seen[c][2] = Used(c) /\ seen[c][1] <= w[1]
  BY <1>1, <1>3, <1>4, <1>6 DEF Lineage, Fresh
<1>8. \A d \in build.uses[c] : w[2][d] \in known[d]
  BY <1>5, <1>6, <1>7, UsesFacts DEF Lineage, Recorded, Used
<1>9. (s = seen[c] /\ c \in build.cacheable) \/ s \in known[c]
  <2>1. store[c] \in known[c]
    BY <1>5, <1>6 DEF Lineage, Recorded
  <2> QED
    BY <1>3, <1>4, <2>1 DEF remembered
<1>10. /\ Made(c, s) => s[1] <= w[1] /\ \A d \in build.uses[c] : s[2][d] \in known[d]
  <2>1. CASE s = seen[c] /\ c \in build.cacheable
    BY <1>7, <1>8, <2>1
  <2>2. CASE s \in known[c]
    BY <1>5, <1>6, <1>7, <2>2 DEF Lineage, Recorded
  <2> QED
    BY <1>9, <2>1, <2>2
<1>11. CASE build.uses[c] \subseteq whole
  <2>1. whole' = whole \cup {c}
    BY <1>1, <1>3, <1>11
  <2>2. \A x \in known[c] \cup {s} : Made(c, x) => x[1] <= w[1]
    BY <1>7, <1>10
  <2>3. Made(c, s) => \A d \in build.uses[c] : s[2][d] \in known[d]
    BY <1>10
  <2> QED
    BY <1>1, <1>2, <1>5, <1>6, <1>7, <1>11, <2>1, <2>2, <2>3, WholeJoins
<1>12. CASE ~(build.uses[c] \subseteq whole)
  <2>1. whole' = whole
    BY <1>1, <1>3, <1>12
  <2>2. PICK new : \A x : x \in new <=> x = w \/ x = s
    <3>1. \A x : x \in {w, s} <=> x = w \/ x = s
      OBVIOUS
    <3> QED
      BY <3>1
  <2>3. source[c] \in Nat /\ w[1] \in Nat /\ (Made(c, s) => s[1] \in Nat)
    BY <1>5, <1>7, UsesFacts DEF Made
  <2>4. \A x \in new : Made(c, x) =>
          x[1] <= source[c] /\ \A d \in build.uses[c] : x[2][d] \in known[d]
    BY <1>7, <1>8, <1>10, <2>2, <2>3
  <2>5. /\ output'[c] \in new /\ store'[c] \in known[c] \cup new
        /\ \A t \in Target : disk'[t] \in known[t]
        /\ \A t \in Target \ {c} : output'[t] = output[t] /\ store'[t] \in known[t]
    BY <1>1, <1>5, <1>6, <2>2 DEF Lineage, Recorded
  <2> QED
    BY <1>1, <1>2, <1>5, <1>6, <1>7, <2>1, <2>4, <2>5, SpoiltJoins
<1> QED
  BY <1>11, <1>12

(* An output that is torn, deleted or left by a body that failed.           *)
LEMMA TracedSpoilt ==
  ASSUME LocalInv, Traced, NEW c \in Target, NEW v,
         build' = build, UNCHANGED <<source, disk, store>>, at' \in {"loop", "over"},
         output' = [output EXCEPT ![c] = v], whole' \subseteq whole, c \notin whole',
         v \in {output[c], None, Torn} \/ (at = "building" /\ c = current /\ v = reads)
  PROVE  Traced'
<1>1. PICK known, older : Lineage(known, older)
  BY DEF Traced
<1>2. PICK new : \A x : x \in new <=> x = v
  <2>1. \A x : x \in {v} <=> x = v
    OBVIOUS
  <2> QED
    BY <2>1
<1>3. /\ output'[c] = v
      /\ \A t \in Target \ {c} : output'[t] = output[t]
  BY UsesFacts
<1>4. ASSUME Made(c, v)
      PROVE  v[1] <= source[c] /\ \A d \in build.uses[c] : v[2][d] \in known[d]
  <2>1. CASE v = output[c]
    <3>1. v \in known[c]
      BY <1>1, <2>1 DEF Lineage, Recorded
    <3> QED
      BY <1>1, <1>4, <3>1 DEF Lineage, Recorded
  <2>2. v \notin {None, Torn}
    BY <1>4, UsesFacts, MadeOrNot
  <2>3. CASE at = "building" /\ c = current /\ v = reads
    <3>1. v[2] = Used(c) /\ v[1] <= source[c]
      BY <1>1, <2>3 DEF Lineage, Fresh
    <3> QED
      BY <1>1, <3>1, UsesFacts DEF Lineage, Recorded, Used
  <2> QED
    BY <2>1, <2>2, <2>3
<1>5. /\ \A x \in new : Made(c, x) =>
           x[1] <= source[c] /\ \A d \in build.uses[c] : x[2][d] \in known[d]
      /\ output'[c] \in new
  BY <1>2, <1>3, <1>4
<1>6. \A t \in Target : store'[t] \in known[t] /\ disk'[t] \in known[t]
  BY <1>1 DEF Lineage, Recorded
<1> QED
  BY <1>1, <1>3, <1>5, <1>6, SpoiltJoins

(* Bodies that fail, processes that are killed, outputs that are deleted.   *)
LEMMA TracedByLoss ==
  ASSUME LocalInv, Traced, BodyFails \/ Kill \/ \E t \in Target : Clean(t)
  PROVE  Traced'
<1>1. build' = build
  BY DEF BodyFails, Kill, Clean, planVars
<1>2. at = "building" => current \in Target /\ current \notin whole
  <2>1. at = "building" => stage = "planned" /\ next <= Len(order)
    BY DEF LocalInv, LoopInv, InStep, Undismissed, AtWork
  <2>2. at = "building" => current \in Target
    BY <2>1, AtCurrent DEF LocalInv, LoopInv
  <2> QED
    BY <2>2 DEF Traced, Lineage, Fresh
<1>3. CASE BodyFails
  <2>1. /\ at = "building" /\ at' = "loop" /\ UNCHANGED <<source, disk, store, whole>>
        /\ \E o \in {output[current], Torn, reads} : output' = [output EXCEPT ![current] = o]
    BY <1>3 DEF BodyFails, Turn, Report, sourceVars
  <2>2. PICK o \in {output[current], Torn, reads} : output' = [output EXCEPT ![current] = o]
    BY <2>1
  <2> QED
    BY <1>1, <1>2, <2>1, <2>2, TracedSpoilt
<1>4. CASE Kill
  <2>1. /\ at' = "over" /\ UNCHANGED <<source, disk, store, whole>>
        /\ IF at = "building" THEN output' = [output EXCEPT ![current] = Torn]
                              ELSE UNCHANGED output
    BY <1>4 DEF Kill, sourceVars
  <2>2. CASE at = "building"
    BY <1>1, <1>2, <2>1, <2>2, TracedSpoilt
  <2>3. CASE at # "building"
    <3>1. PICK known, older : Lineage(known, older)
      BY DEF Traced
    <3>2. Fresh(known)'
      BY <2>1 DEF Fresh
    <3> QED
      BY <1>1, <2>1, <2>3, <3>1, <3>2, UsesFacts, NothingMade
  <2> QED
    BY <2>2, <2>3
<1>5. ASSUME NEW t \in Target, Clean(t) PROVE Traced'
  <2>1. /\ at' = "over" /\ UNCHANGED <<source, disk, store>>
        /\ output' = [output EXCEPT ![t] = None] /\ whole' = whole \ {t}
    BY <1>5 DEF Clean, runVars, sourceVars
  <2> QED
    BY <1>1, <2>1, TracedSpoilt
<1> QED
  BY <1>3, <1>4, <1>5

(* Fingerprints are saved or given up, and sources edited to something new. *)
LEMMA TracedByRest ==
  ASSUME LocalInv, Traced, ~restored',
         \/ \E mine \in BOOLEAN : EndRun(mine)
         \/ RunAgain
         \/ \E t \in Target : Edit(t)
  PROVE  Traced'
<1>1. build' = build
  BY DEF EndRun, RunAgain, Edit, planVars
<1>2. PICK known, older : Lineage(known, older)
  BY DEF Traced
<1>3. ASSUME NEW mine \in BOOLEAN, EndRun(mine) PROVE Traced'
  <2>1. /\ UNCHANGED <<source, output, whole, store>> /\ (disk' = store \/ disk' = disk)
        /\ at' = "over"
    BY <1>3 DEF EndRun, sourceVars
  <2>2. Fresh(known)'
    BY <2>1 DEF Fresh
  <2> QED
    BY <1>1, <1>2, <2>1, <2>2, UsesFacts, NothingMade
<1>4. CASE RunAgain
  <2>1. UNCHANGED <<source, output, whole, disk>> /\ store' = disk /\ at' = "loop"
    BY <1>4 DEF RunAgain, diskVars
  <2>2. Fresh(known)'
    BY <2>1 DEF Fresh
  <2> QED
    BY <1>1, <1>2, <2>1, <2>2, UsesFacts, NothingMade
<1>5. ASSUME NEW u \in Target, Edit(u) PROVE Traced'
  <2>1. UNCHANGED <<planVars, output, whole, disk, store, seen, reads, at, next>>
    BY <1>5 DEF Edit, runVars, builtVars
  <2>2. PICK content \in 0 .. newest[u] + 1 :
           /\ source' = [source EXCEPT ![u] = content] /\ restored' = (restored \/ content <= newest[u])
    BY <1>5 DEF Edit
  <2>3. source[u] \in Nat /\ newest[u] \in Nat /\ source[u] <= newest[u]
    BY BoundFacts DEF LocalInv, LoopInv, LoopTypes, Versioned
  <2>4. content \in Nat /\ ~(content <= newest[u])
    <3>1. ~(content <= newest[u])
      BY <2>2
    <3>2. content \in Nat
      BY <2>2, <2>3
    <3> QED
      BY <3>1, <3>2
  <2>5. source[u] <= content
    BY <2>3, <2>4
  <2>6. current' = current
    BY <2>1 DEF planVars, searchVars, current, order
  <2>7. \A t \in Target : source'[t] \in Nat /\ source[t] <= source'[t]
    BY <2>2, <2>4, <2>5, UsesFacts
  <2>8. at \in {"body", "building"} => current \in Target
    <3>1. at \in {"body", "building"} => stage = "planned" /\ next <= Len(order)
      BY DEF LocalInv, LoopInv, InStep, Undismissed, AtWork
    <3> QED
      BY <3>1, AtCurrent DEF LocalInv, LoopInv
  <2>9. \A t, x : Made(t, x)' <=> Made(t, x)
    BY <1>1 DEF Made
  <2>10. \A t \in Target : Used(t)' = Used(t)
    BY <1>1, <2>1 DEF Used
  <2>11. \A t \in Target : \A n \in Nat : n <= source[t] => n <= source'[t]
    BY <2>7, UsesFacts
  <2>12. \A t, x : Made(t, x) => x[1] \in Nat
    BY DEF Made
  <2>13. Fresh(known)'
    BY <1>1, <1>2, <2>1, <2>6, <2>8, <2>9, <2>10, <2>11, <2>12 DEF Lineage, Fresh
  <2> QED
    BY <1>1, <1>2, <2>1, <2>7, <2>13, NothingMade
<1> QED
  BY <1>3, <1>4, <1>5

(* No step is without an account, as long as no content came back.          *)
LEMMA TracedStep == LocalInv /\ (~restored => Traced) /\ [Next]_vars => (~restored' => Traced')
<1> SUFFICES ASSUME LocalInv, ~restored => Traced, [Next]_vars, ~restored' PROVE Traced'
  OBVIOUS
<1>1. ~restored
  <2>1. CASE UNCHANGED restored
    BY <2>1
  <2>2. ASSUME NEW t \in Target, Edit(t) PROVE ~restored
    BY <2>2 DEF Edit
  <2> QED
    BY <2>1, <2>2 DEF Next, Plans, LoopStep, PassOver, FailEarly, StartService, ServiceReady,
       ServiceNotReady, LookUp, GoAhead, BodyReads, BodyReturns, BodyFails, StopService, EndRun,
       RunAgain, Stop, Kill, Clean, Done, vars, diskVars, sourceVars
<1> QED
  BY <1>1, TracedByPlan, TracedByLookUp, TracedByReading, TracedByReturning, TracedByLoss,
     TracedByRest DEF Next, LoopStep, Done

(* What is remembered of a body that read what its fingerprint is of: the   *)
(* output that stands was made from what the fingerprint says.              *)
Remembered ==
  /\ \A t \in whole \ slipped :
       t \in build.cacheable => output[t] = IF at = "over" THEN disk[t] ELSE store[t]
  /\ at = "building" =>
       current \notin whole /\ (current \in build.cacheable \ slipped => reads = seen[current])

(* Nothing is whole yet. *)
LEMMA RememberedInit == LocalInit => Remembered
  BY DEF LocalInit, Remembered

(* Bodies read, return, fail or are killed. *)
LEMMA RememberedByBodies ==
  ASSUME LocalInv, Remembered, BodyReads \/ BodyReturns \/ BodyFails
  PROVE  Remembered'
<1>1. running /\ next <= Len(order) /\ UNCHANGED <<planVars, disk>>
  BY DEF BodyReads, BodyReturns, BodyFails, Turn
<1>2. /\ current \in Target /\ build' = build /\ at # "over"
      /\ next' = next => current' = current
  BY <1>1, LoopContext DEF running
<1>3. CASE BodyReads
  <2>1. /\ at' = "building" /\ next' = next /\ UNCHANGED <<output, store, seen>>
        /\ reads' = Inputs(current) /\ whole' = whole \ {current}
        /\ slipped' = IF current \in build.cacheable /\ seen[current] # Inputs(current)
                      THEN slipped \cup {current} ELSE slipped \ {current}
    BY <1>3 DEF BodyReads
  <2>2. \A t \in whole' \ slipped' : t \in whole \ slipped
    BY <2>1
  <2> QED
    BY <1>2, <2>1, <2>2 DEF Remembered
<1>4. CASE BodyReturns
  <2>1. /\ at = "building" /\ at' = "loop" /\ UNCHANGED slipped
        /\ output' = [output EXCEPT ![current] = reads]
        /\ store' = [store EXCEPT ![current] = remembered]
        /\ whole' \subseteq whole \cup {current}
    BY <1>4 DEF BodyReturns, Turn, Report
  <2>2. \A t \in Target \ {current} : output'[t] = output[t] /\ store'[t] = store[t]
    BY <2>1, UsesFacts
  <2>3. output'[current] = reads /\ (current \in build.cacheable => store'[current] = seen[current])
    BY <1>2, <2>1, UsesFacts DEF remembered
  <2>4. ASSUME NEW t \in whole' \ slipped', t \in build.cacheable PROVE output'[t] = store'[t]
    <3>1. CASE t = current
      BY <2>1, <2>3, <2>4, <3>1 DEF Remembered
    <3>2. CASE t # current
      BY <1>2, <2>1, <2>2, <2>4, <3>2, UsesFacts DEF Remembered
    <3> QED
      BY <3>1, <3>2
  <2> QED
    BY <1>2, <2>1, <2>4 DEF Remembered
<1>5. CASE BodyFails
  <2>1. /\ at = "building" /\ at' = "loop" /\ UNCHANGED <<slipped, whole, store>>
        /\ \E o \in {output[current], Torn, reads} : output' = [output EXCEPT ![current] = o]
    BY <1>5 DEF BodyFails, Turn, Report
  <2>2. \A t \in whole : output'[t] = output[t]
    BY <2>1, UsesFacts DEF Remembered
  <2> QED
    BY <1>2, <2>1, <2>2 DEF Remembered
<1> QED
  BY <1>3, <1>4, <1>5

(* Runs end or begin, outputs are deleted. *)
LEMMA RememberedByRuns ==
  ASSUME LocalInv, Remembered,
         \/ Kill
         \/ \E mine \in BOOLEAN : EndRun(mine)
         \/ RunAgain
         \/ \E t \in Target : Clean(t)
  PROVE  Remembered'
<1>1. build' = build
  BY DEF Kill, EndRun, RunAgain, Clean, planVars
<1>2. CASE Kill
  <2>1. /\ at # "over" /\ at' = "over" /\ UNCHANGED <<whole, disk, store>>
        /\ slipped' = slipped \cup unsaved
        /\ output' = output \/ (at = "building" /\ output' = [output EXCEPT ![current] = Torn])
    BY <1>2 DEF Kill, running
  <2>2. \A t \in whole : output'[t] = output[t]
    BY <2>1, UsesFacts DEF Remembered
  <2> QED
    BY <1>1, <2>1, <2>2, UsesFacts DEF Remembered, unsaved
<1>3. ASSUME NEW mine \in BOOLEAN, EndRun(mine) PROVE Remembered'
  <2>1. /\ at = "loop" /\ at' = "over" /\ UNCHANGED <<whole, output, store>>
        /\ disk' = IF trustworthy(mine) THEN store ELSE disk
        /\ slipped' = IF trustworthy(mine) THEN slipped ELSE slipped \cup unsaved
    BY <1>3 DEF EndRun
  <2> HIDE DEF trustworthy
  <2>2. CASE trustworthy(mine)
    BY <1>1, <2>1, <2>2 DEF Remembered
  <2>3. CASE ~trustworthy(mine)
    BY <1>1, <2>1, <2>3, UsesFacts DEF Remembered, unsaved
  <2> QED
    BY <2>2, <2>3
<1>4. CASE RunAgain
  BY <1>1, <1>4 DEF RunAgain, Remembered, diskVars
<1>5. ASSUME NEW t \in Target, Clean(t) PROVE Remembered'
  <2>1. /\ at = "over" /\ at' = at /\ UNCHANGED <<disk, slipped>>
        /\ output' = [output EXCEPT ![t] = None] /\ whole' = whole \ {t}
    BY <1>5 DEF Clean, runVars
  <2> QED
    BY <1>1, <2>1, UsesFacts DEF Remembered
<1> QED
  BY <1>2, <1>3, <1>4, <1>5

(* No step forgets. *)
LEMMA RememberedStep == LocalInv /\ Remembered /\ [Next]_vars => Remembered'
<1> SUFFICES ASSUME LocalInv, Remembered, [Next]_vars PROVE Remembered'
  OBVIOUS
<1>1. ASSUME UNCHANGED <<output, whole, disk, slipped, store, build>>, at # "over",
             at' \notin {"building", "over"}
      PROVE  Remembered'
  BY <1>1 DEF Remembered
<1>2. CASE PassOver \/ FailEarly \/ StartService \/ ServiceReady \/ ServiceNotReady \/ GoAhead
             \/ LookUp \/ StopService
  <2>1. /\ UNCHANGED <<output, whole, disk, slipped, store, build>> /\ running
        /\ at' \notin {"building", "over"} /\ at # "over"
    BY <1>2 DEF PassOver, FailEarly, StartService, ServiceReady, ServiceNotReady, GoAhead, LookUp,
       StopService, Report, Turn, atEnd, running, diskVars, planVars
  <2> QED
    BY <1>1, <2>1
<1>3. CASE Plans
  <2>1. at = "loop" /\ build' = build /\ UNCHANGED <<diskVars, runVars>>
    BY <1>3 DEF Plans, PlanStep, StartAt, Descend, FindCycle, Settle, PassCheck, OrderFound, Prune,
       Decide, Narrow, Searching, LocalInv, LoopInv, InStep
  <2> QED
    BY <2>1 DEF Remembered, diskVars, runVars
<1>4. CASE Stop \/ (\E t \in Target : Edit(t)) \/ UNCHANGED vars
  <2>1. UNCHANGED <<output, whole, disk, slipped, store, seen, reads, at, next, planVars>>
    BY <1>4 DEF Stop, Edit, builtVars, diskVars, runVars, vars
  <2>2. build' = build /\ current' = current
    BY <2>1, SamePlan DEF current
  <2> QED
    BY <2>1, <2>2 DEF Remembered
<1> QED
  BY <1>2, <1>3, <1>4, RememberedByBodies, RememberedByRuns DEF Next, LoopStep, Done

(* Only upToDate calls a target cached. *)
LEMMA WhoFindsCached ==
  ASSUME LocalInv, [Next]_vars, NEW t \in Target, FoundCached(t)
  PROVE  store[t] = Inputs(t) /\ t \in build.cacheable /\ at = "loop"
<1>1. row'[t] = "cached" /\ row[t] # "cached"
  BY DEF FoundCached
<1>2. row' # row
  BY <1>1
<1>3. row \in [Target -> Reported \cup {"pending"}]
  BY DEF LocalInv, LoopInv, LoopTypes
<1>4. ASSUME NEW outcome, Report(outcome) PROVE t = current /\ outcome = "cached"
  BY <1>1, <1>3, <1>4 DEF Report
<1>5. ~RunAgain
  BY <1>1 DEF RunAgain, Unreported
<1>6. LoopStep
  BY <1>2, <1>5 DEF Next, Plans, Stop, Kill, Edit, Clean, Done, vars, runVars
<1>7. LookUp
  BY <1>2, <1>4, <1>6 DEF LoopStep, PassOver, FailEarly, StartService, ServiceReady, ServiceNotReady,
     GoAhead, BodyReads, BodyReturns, BodyFails, StopService, EndRun
<1> QED
  BY <1>2, <1>4, <1>7 DEF LookUp, Turn

(* What is found cached was made from the source and the outputs there are, *)
(* whatever was edited, put back, cancelled, killed, deleted or undone      *)
(* since, and through any number of targets that use each other's outputs.  *)
(* Where the body read what its fingerprint is of, that is what Remembered  *)
(* says.  Where it did not, and no content came back, it is the lineage of  *)
(* the outputs that forbids it.                                             *)
THEOREM CachedIsCurrent == Spec => CachedMeansCurrent
<1> DEFINE Current ==
      \A t \in whole :
        FoundCached(t) /\ (t \in slipped => ~restored /\ build.uses[t] \subseteq whole) =>
          output[t] = Inputs(t)
<1>1. LocalInv /\ Remembered /\ (~restored => Traced) /\ [Next]_vars => [Current]_vars
  <2> SUFFICES ASSUME LocalInv, Remembered, ~restored => Traced, [Next]_vars,
                      NEW t \in whole, FoundCached(t),
                      t \in slipped => ~restored /\ build.uses[t] \subseteq whole
               PROVE  output[t] = Inputs(t)
    OBVIOUS
  <2>1. t \in Target
    BY UsesFacts
  <2>2. CASE t \notin slipped
    BY <2>1, <2>2, WhoFindsCached DEF Remembered
  <2> SUFFICES ASSUME Traced, build.uses[t] \subseteq whole PROVE output[t] = Inputs(t)
    BY <2>2
  <2>3. PICK known, older : Lineage(known, older)
    BY DEF Traced
  <2>4. t \in Target /\ source[t] \in Nat /\ \A d \in build.uses[t] : d \in Target
    BY UsesFacts
  <2>5. /\ Inputs(t) = store[t] /\ Made(t, Inputs(t))
        /\ Inputs(t)[1] = source[t] /\ Inputs(t)[2] = Used(t)
    BY <2>4, WhoFindsCached, MadeOrNot
  <2>6. Inputs(t) \in known[t] /\ output[t] \in known[t]
    BY <2>3, <2>4, <2>5 DEF Lineage, Recorded
  <2>7. <<Inputs(t), output[t]>> \in older[t]
    BY <2>3, <2>6 DEF Lineage, Descended
  <2>8. /\ Made(t, output[t]) /\ source[t] <= output[t][1]
        /\ \A d \in build.uses[t] : <<Used(t)[d], output[t][2][d]>> \in older[d]
    BY <2>3, <2>4, <2>5, <2>6, <2>7 DEF Lineage, Descended
  <2>9. output[t][1] = source[t]
    <3>1. output[t][1] \in Nat /\ output[t][1] <= source[t]
      BY <2>3, <2>4, <2>6, <2>8 DEF Lineage, Recorded, Made
    <3> QED
      BY <2>4, <2>8, <3>1
  <2>10. ASSUME NEW d \in build.uses[t] PROVE output[t][2][d] = Inputs(t)[2][d]
    <3>1. <<output[d], output[t][2][d]>> \in older[d] /\ Inputs(t)[2][d] = output[d]
      BY <2>5, <2>8 DEF Used
    <3>2. older[d] \subseteq known[d] \X known[d]
      BY <2>3, <2>4 DEF Lineage, Descended
    <3>3. output[d] \in known[d] /\ output[t][2][d] \in known[d]
      BY <3>1, <3>2
    <3> QED
      BY <2>3, <2>4, <3>1, <3>3 DEF Lineage, Descended
  <2> QED
    BY <2>5, <2>8, <2>9, <2>10, SameMade
<1>2. LocalInit => LocalInv /\ Remembered /\ (~restored => Traced)
  BY LoopInit, TracedInit, RememberedInit
<1> QED
  BY <1>1, <1>2, LocalStep, TracedStep, RememberedStep, PTL DEF Spec, CachedMeansCurrent
=============================================================================
