--------------------------- MODULE MCLocalBuild ---------------------------
EXTENDS LocalBuild

CONSTANTS a, b, c

none == [t \in Target |-> {}]

(* A build of which only the plan is of interest.                           *)
Paper == [root |-> a, depends |-> none, triggers |-> none, soft |-> {},
          validated |-> FALSE, unwanted |-> {}, optional |-> {}, narrowed |-> FALSE,
          dirty |-> {}, rounds |-> 0, services |-> {}, cacheable |-> {}, uses |-> none,
          undoable |-> {}, recorded |-> FALSE]

Relations == SUBSET (Target \X Target)
Image(r) == [t \in Target |-> {u \in Target : <<t, u>> \in r}]

(* Any dependencies, checked by the command line or not.                    *)
Checked ==
  {[Paper EXCEPT !.depends = Image(r), !.validated = v] : r \in Relations, v \in BOOLEAN}

(* The root needs another target, with up to four edges of all kinds.       *)
Pairs == {<<a, b>>, <<b, a>>, <<a, c>>, <<c, a>>, <<b, c>>, <<c, b>>}
Links == {r \in SUBSET Pairs : Cardinality(r) <= 2}
Needing ==
  {l \in Links \X Links :
     /\ {<<a, b>>, <<a, c>>} \cap (l[1] \cup l[2]) # {}
     /\ Cardinality(l[1]) + Cardinality(l[2]) <= 3}
Mixed ==
  {[Paper EXCEPT !.depends = Image(l[1]), !.triggers = Image(l[2]), !.soft = s] :
     l \in Needing, s \in {{}} \cup {{p} : p \in Pairs}}

(* What the invocation may leave out of it.                                 *)
Trees == {{<<a, b>>, <<b, c>>}, {<<a, b>>, <<a, c>>}, {<<a, b>>, <<a, c>>, <<b, c>>}}
Partial ==
  {[Paper EXCEPT !.depends = Image(d \ r), !.triggers = Image(r), !.narrowed = n[1],
                 !.dirty = n[2], !.optional = o] :
     d \in Trees, r \in SUBSET {<<a, b>>, <<a, c>>, <<b, c>>},
     n \in {<<FALSE, {}>>} \cup {<<TRUE, m>> : m \in SUBSET Target}, o \in SUBSET Target}

(* Builds that are run: b uses what c makes, a runs behind both.            *)
chain == [Paper EXCEPT !.depends = Image({<<a, b>>}), !.rounds = 4]
Cached ==
  {[chain EXCEPT !.cacheable = {a, b}, !.uses = Image({<<a, b>>}), !.recorded = r,
                 !.rounds = IF r THEN 4 ELSE 2, !.undoable = IF r THEN {b} ELSE {}] :
     r \in BOOLEAN}
Served ==
  {[Paper EXCEPT !.depends = Image({<<a, b>>, <<b, c>>}), !.rounds = 1, !.services = {b, c},
                 !.optional = o] : o \in SUBSET {b}}
  \cup {[Paper EXCEPT !.depends = Image({<<a, b>>, <<a, c>>}), !.rounds = 1, !.services = {c},
                      !.narrowed = TRUE, !.dirty = m] : m \in SUBSET Target}

MCBuilds == Checked \cup Mixed \cup Partial \cup Cached \cup Served

Undoing == {[chain EXCEPT !.cacheable = {b}, !.undoable = {b}, !.recorded = TRUE]}
=============================================================================
