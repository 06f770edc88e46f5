---------------------------- MODULE MCScheduler ----------------------------
(* Small plans for model-checking Scheduler. *)
EXTENDS Scheduler

(* All ways to wire the targets, each behind any of the earlier ones. *)
Wirings ==
  {[t \in Target |-> {p \in Target : <<p, t>> \in e}] :
     e \in SUBSET {pt \in Target \X Target : pt[1] < pt[2]}}

NoGroup == [t \in Target |-> 0]

NoPast == [t \in Target |-> "pending"]

(* A plan without skips, groups or a past, wired by `w`. *)
Fresh(w, al, len, g, par, lim) ==
  [preds |-> w, always |-> al, lenient |-> len, gates |-> g, cancels |-> {},
   skip |-> {}, recorded |-> NoPast, group |-> NoGroup,
   parallel |-> par, limit |-> lim]

(* Three targets: every wiring, teardown and gates among them, a lenient    *)
(* first, run one at a time or two at a time.                               *)
FreshPlans ==
  {Fresh(w, al, len, g, lim > 1, lim) :
     w \in Wirings, al \in SUBSET {2, 3}, len \in SUBSET {1},
     g \in SUBSET {1, 2}, lim \in {1, 2}}

(* What an earlier process may have left: parked at the gate, or killed      *)
(* with some of it done, failed, given up on or under way.                  *)
Pasts(w, al, g) ==
  LET second(row) == IF 2 \in g THEN "waiting" ELSE row
      rested(past) == \A t \in Target \ al : past[t] \notin {"pending", "skipped"} =>
                        \A p \in w[t] : past[p] = "succeeded"
  IN  {past \in {<<"pending", second("succeeded"), "pending">>,
                 <<"succeeded", second("running"), "pending">>,
                 <<"failed", second("succeeded"), "skipped">>} : rested(past)}

(* Three targets in overlap groups, some skipped, some recorded by an        *)
(* earlier process, some cancelling the run when they fail.                 *)
ResumedPlans ==
  UNION {{[Fresh(w, al, {1}, g, FALSE, 2) EXCEPT
             !.cancels = c, !.skip = s, !.recorded = past, !.group = gr] :
            past \in Pasts(w, al, g), c \in SUBSET {1}, s \in {{}, {1}},
            gr \in {NoGroup, <<1, 1, 0>>, <<1, 1, 2>>}} :
         w \in Wirings, al \in SUBSET {3}, g \in SUBSET {2}}

SmallPlans == FreshPlans \cup ResumedPlans
=============================================================================
