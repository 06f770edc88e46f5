------------------------ MODULE RecordWriter_proofs ------------------------
(***************************************************************************)
(* What the runs of RecordWriter check, for every set of rows and intents,  *)
(* every number of attempts and of throwing calls, and every set of threats.*)
(*                                                                          *)
(* The inductive invariant Inv has six parts, each of them proved from the  *)
(* ones before it:                                                          *)
(*   Typed     the type invariant, with what bounds the walks;              *)
(*   Ordered   what may be queued where `execute` is, and who holds the     *)
(*             run's cancel lock;                                           *)
(*   Active    a strict write under way is one of a `running` run;          *)
(*   Recorded  what memory, store and answers say of each intent;           *)
(*   Settling  while only settlers are met: what the process has learned,   *)
(*             and what its next write will tell it;                        *)
(*   Ending    no row is dropped without a word, and nothing follows the    *)
(*             write that ends the run.                                     *)
(***************************************************************************)
EXTENDS RecordWriter, TLAPS

-----------------------------------------------------------------------------
(* Jobs, records and the queue. *)

LEMMA JobFacts ==
  /\ Open \in Job /\ Event \in Job
  /\ \A f \in Note : Row(f) \in Job /\ Row(f).kind = "row" /\ Row(f).fact = f
  /\ \A f \in Intent : Strict(f) \in Job /\ Strict(f).kind = "intent" /\ Strict(f).fact = f
  /\ \A s \in {"succeeded", "suspended", "cancelling", "cancelled"} :
       RunStatus(s) \in Job /\ RunStatus(s).kind = "status" /\ RunStatus(s).status = s
  /\ Open.kind = "open" /\ Event.kind = "event" /\ Event.fact = "event"
  BY DEF Open, Event, Job, Row, Strict, RunStatus

LEMMA JobKinds ==
  ASSUME NEW j \in Job
  PROVE  /\ j.kind \in {"open", "row", "intent", "event", "status"}
         /\ j.kind = "open" => j = Open
         /\ j.kind = "row" => j.fact \in Note /\ j = Row(j.fact)
         /\ j.kind = "intent" => j.fact \in Intent /\ j = Strict(j.fact)
         /\ j.kind = "event" => j.fact = "event" /\ j = Event
         /\ j.kind = "status" =>
              /\ j.status \in {"succeeded", "suspended", "cancelling", "cancelled"}
              /\ j = RunStatus(j.status)
  BY DEF Open, Event, Job, Row, Strict, RunStatus

LEMMA AppliedIsRecord ==
  ASSUME NEW j \in Job, NEW r \in Record, NEW latched \in BOOLEAN
  PROVE  Applied(j, r, latched) \in Record
  BY JobKinds DEF Applied, Record, Status, Terminal, Fact

(* What Append and Tail do to the queue. *)
LEMMA Appended ==
  ASSUME NEW s \in Seq(Job), NEW j \in Job
  PROVE  /\ Append(s, j) \in Seq(Job) /\ Len(Append(s, j)) = Len(s) + 1
         /\ \A i \in 1 .. Len(s) : Append(s, j)[i] = s[i]
         /\ Append(s, j)[Len(s) + 1] = j
  OBVIOUS

LEMMA HeadAndTail ==
  ASSUME NEW s \in Seq(Job), s # <<>>
  PROVE  /\ Len(s) \in Nat /\ Len(s) > 0
         /\ Head(s) \in Job /\ Head(s) = s[1]
         /\ Tail(s) \in Seq(Job) /\ Len(Tail(s)) = Len(s) - 1
         /\ \A i \in 1 .. Len(s) - 1 : Tail(s)[i] = s[i + 1]
  OBVIOUS

-----------------------------------------------------------------------------
Walked ==
  walks <= (IF owner \in {"walking", "reporting", "draining", "stopped"} THEN 1 ELSE 0)
           + (IF settler \in {"walked", "done"} THEN 1 ELSE 0)

Latches == /\ there \in BOOLEAN /\ current \in BOOLEAN /\ settledElsewhere \in BOOLEAN
           /\ disowned \in BOOLEAN /\ retainedPending \in BOOLEAN /\ told \in BOOLEAN

Typed == TypeOK /\ Walked

LEMMA TypedInit == Init => Typed
<1> SUFFICES ASSUME Init PROVE Typed
  OBVIOUS
<1>1. Latches
  BY DEF Init, Latches
<1>2. NoOp \in Op /\ NoOp.before \in Record
  BY MaxRetriesAssumption, JobFacts DEF NoOp, Op, Record, Status, Terminal
<1>3. chain \in Seq(Job)
  BY JobFacts DEF Init
<1> QED
  BY <1>1, <1>2, <1>3, MaxRetriesAssumption, BoundsAssumption
  DEF Typed, TypeOK, Walked, Latches, Init, Fact

LEMMA OpTyped ==
  ASSUME NEW st \in {"idle", "put", "read", "reput"}, NEW j \in Job,
         NEW n \in 0 .. MaxRetries, NEW r \in Record
  PROVE  [stage |-> st, job |-> j, attempt |-> n, before |-> r] \in Op
  BY DEF Op

LEMMA NoOpTyped == NoOp \in Op
  BY MaxRetriesAssumption, JobFacts DEF NoOp, Op, Record, Status, Terminal

LEMMA FreshTyped ==
  ASSUME TypeOK
  PROVE  FreshBase \in Record /\ [FreshBase EXCEPT !.degraded = TRUE] \in Record
         /\ \A s \in Status, j \in Job, b \in BOOLEAN :
              [Applied(j, FreshBase, b) EXCEPT !.status = s] \in Record
<1>1. FreshBase \in Record
  <2>1. retainedPending \in BOOLEAN /\ stored.degraded \in BOOLEAN /\ record.degraded \in BOOLEAN
    BY DEF TypeOK, Record
  <2>2. (stored.degraded \/ record.degraded \/ retainedPending) \in BOOLEAN
    BY <2>1
  <2> QED
    BY <2>2 DEF TypeOK, Record, FreshBase
<1> QED
  BY <1>1, AppliedIsRecord DEF Record

(* Another process leaves this one's variables alone; at most it writes a    *)
(* status over the stored record, or deletes it.                            *)
LEMMA OthersMove ==
  ASSUME TypeOK, Others
  PROVE  /\ UNCHANGED <<record, settledElsewhere, retainedPending, told, chain, op, noted,
                        committed, refused, owner, disowned, todo, faults>>
         /\ \/ UNCHANGED <<stored, there, current>>
            \/ /\ there /\ there' = TRUE /\ current' = FALSE
               /\ \E s \in Status : stored' = [stored EXCEPT !.status = s]
            \/ there' = FALSE /\ current' = FALSE /\ stored' = stored
<1> USE DEF storeVars, ownerVars, writerVars, Overwrites, TypeOK
<1>0. stored.status \in Status /\ {"running", "suspended", "cancelling", "cancelled", "failed"} \subseteq Status
  BY DEF Record, Status, Terminal
<1>1. CASE ForceTarget
  BY <1>1, <1>0 DEF ForceTarget
<1>2. CASE SettlerMarks
  BY <1>2, <1>0 DEF SettlerMarks
<1>3. CASE SettlerFinalizes
  BY <1>3, <1>0 DEF SettlerFinalizes
<1>4. CASE Reap \/ Resume
  BY <1>4, <1>0 DEF Reap, Resume
<1>5. CASE SettlerClaims \/ SettlerSkipsWalk \/ SettlerWalks \/ SettlerDies
  BY <1>5 DEF SettlerClaims, SettlerSkipsWalk, SettlerWalks, SettlerDies
<1>6. CASE Prune
  BY <1>6 DEF Prune
<1> QED
  BY <1>1, <1>2, <1>3, <1>4, <1>5, <1>6 DEF Others

LEMMA LatchesTyped ==
  ASSUME TypeOK, Next
  PROVE  Latches'
<1> USE DEF TypeOK, Latches, storeVars, ownerVars, otherVars, sharedVars, writerVars, vars
<1>1. CASE Drop \/ Begin \/ PutLands \/ PutConflicts \/ ReputConflicts
  BY <1>1 DEF Drop, Begin, PutLands, PutConflicts, ReputConflicts
<1>2. CASE PutThrows \/ ReadFails
  BY <1>2 DEF PutThrows, ReadFails, Fail
<1>3. CASE Reapply \/ Retry \/ GiveUp \/ RefuseInactive
  BY <1>3 DEF Reapply, Retry, GiveUp, RefuseInactive, Adopt
<1>4. CASE OwnerStep \/ (\E f \in Note \cup Intent : Ask(f))
  BY <1>4 DEF OwnerStep, Ask, Stops, Finishes, Cancels, Walks, WalkEnds, Closes, Drains, Queue
<1>5. CASE LosesLease \/ Stopped
  BY <1>5 DEF LosesLease, Stopped
<1>6. CASE Others
  BY <1>6, OthersMove
<1> QED
  BY <1>1, <1>2, <1>3, <1>4, <1>5, <1>6 DEF Next, WriterStep

LEMMA WriterTyped ==
  ASSUME Typed, WriterStep
  PROVE  TypeOK' /\ Walked'
<1> USE DEF Typed, storeVars, ownerVars, otherVars, sharedVars, vars
<1>1. Walked'
  <2>1. UNCHANGED <<owner, settler, walks>>
    BY DEF WriterStep, Drop, Begin, PutLands, PutConflicts, ReputConflicts, PutThrows,
           ReadFails, Reapply, Retry, GiveUp, RefuseInactive, Adopt
  <2> QED
    BY <2>1 DEF Walked
<1>2. Latches'
  BY LatchesTyped DEF Next
<1>3. /\ record \in Record /\ stored \in Record /\ op.before \in Record
      /\ op.job \in Job /\ op.attempt \in 0 .. MaxRetries /\ op.stage \in {"idle", "put", "read", "reput"}
      /\ MaxRetries \in Nat \ {0} /\ MaxFaults \in Nat /\ MaxForces \in Nat
  BY MaxRetriesAssumption, BoundsAssumption DEF TypeOK, Op
<1>4. (/\ owner \in {"working", "marking", "walking", "reporting", "draining", "stopped"}
       /\ cancelLock \in {"free", "owner", "settler"}
       /\ settler \in {"idle", "claimed", "marked", "walked", "done"}
       /\ holder \in {"owner", "other"}
       /\ met \subseteq Threats /\ forces \in 0 .. MaxForces
       /\ unwound \subseteq Note /\ walks \in 0 .. 2 /\ todo \subseteq Note \cup Intent)'
  <2>1. UNCHANGED <<owner, cancelLock, settler, holder, met, forces, unwound, walks, todo>>
    BY DEF WriterStep, Drop, Begin, PutLands, PutConflicts, ReputConflicts, PutThrows,
           ReadFails, Reapply, Retry, GiveUp, RefuseInactive, Adopt
  <2> QED
    BY <2>1 DEF TypeOK
<1>5. (/\ chain \in Seq(Job) /\ op \in Op /\ record \in Record /\ stored \in Record)'
  <2>1. CASE Drop
    BY <2>1, HeadAndTail DEF Drop, TypeOK
  <2>2. CASE Begin
    <3>1. /\ Head(chain) \in Job /\ chain' \in Seq(Job) /\ 1 \in 0 .. MaxRetries
          /\ settledElsewhere \in BOOLEAN
      BY <2>2, <1>3, HeadAndTail DEF Begin, TypeOK
    <3>2. record' \in Record
      BY <2>2, <3>1, <1>3, AppliedIsRecord DEF Begin
    <3>3. op' \in Op
      BY <2>2, <3>1, <1>3, OpTyped DEF Begin, NextOp
    <3> QED
      BY <2>2, <3>1, <3>2, <3>3 DEF Begin, TypeOK
  <2>3. CASE PutLands \/ PutConflicts
    BY <2>3, <1>3, NoOpTyped, OpTyped DEF PutLands, PutConflicts, Done, TypeOK, Op
  <2>4. CASE ReputConflicts
    BY <2>4, <1>3, NoOpTyped DEF ReputConflicts, Done, TypeOK, Record
  <2>5. CASE PutThrows \/ ReadFails
    BY <2>5, <1>3, NoOpTyped DEF PutThrows, ReadFails, Fail, Done, TypeOK
  <2>6. CASE Reapply
    BY <2>6, <1>3, FreshTyped, OpTyped DEF Reapply, Adopt, NextOp, TypeOK, Record
  <2>7. CASE Retry
    <3>1. record' \in Record
      BY <2>7, <1>3, FreshTyped, AppliedIsRecord DEF Retry, TypeOK
    <3>2. op' \in Op
      <4>1. op.attempt + 1 \in 0 .. MaxRetries
        BY <2>7, <1>3 DEF Retry
      <4> QED
        BY <2>7, <1>3, <4>1, FreshTyped, OpTyped DEF Retry, NextOp
    <3> QED
      BY <2>7, <3>1, <3>2 DEF Retry, Adopt, TypeOK
  <2>8. CASE GiveUp \/ RefuseInactive
    BY <2>8, <1>3, FreshTyped, NoOpTyped DEF GiveUp, RefuseInactive, Adopt, Done, TypeOK
  <2> QED
    BY <2>1, <2>2, <2>3, <2>4, <2>5, <2>6, <2>7, <2>8 DEF WriterStep
<1>6. (/\ faults \in 0 .. MaxFaults /\ noted \subseteq Note
       /\ committed \subseteq Intent /\ refused \subseteq Intent)'
  <2>1. CASE Drop \/ Begin
    BY <2>1, HeadAndTail, JobKinds DEF Drop, Begin, Refuse, TypeOK
  <2>2. CASE PutLands \/ PutConflicts \/ ReputConflicts
    BY <2>2, <1>3, JobKinds DEF PutLands, PutConflicts, ReputConflicts, TypeOK
  <2>3. CASE PutThrows \/ ReadFails
    BY <2>3, <1>3, JobKinds DEF PutThrows, ReadFails, Refuse, TypeOK
  <2>4. CASE Reapply \/ Retry \/ GiveUp \/ RefuseInactive
    BY <2>4, <1>3, JobKinds DEF Reapply, Retry, GiveUp, RefuseInactive, Adopt, Refuse, TypeOK
  <2> QED
    BY <2>1, <2>2, <2>3, <2>4 DEF WriterStep
<1>7. TypeOK'
  BY <1>2, <1>4, <1>5, <1>6 DEF TypeOK, Latches
<1> QED
  BY <1>1, <1>7

LEMMA OwnerQueues ==
  ASSUME OwnerStep
  PROVE  /\ todo' = todo /\ disowned' = disowned
         /\ \/ chain' = chain
            \/ \E j \in Job : j.kind \in {"status", "event"} /\ chain' = Append(chain, j)
<1> USE JobFacts DEF Queue, writerVars
<1>1. CASE Stops
  BY <1>1 DEF Stops
<1>2. CASE Finishes
  BY <1>2 DEF Finishes
<1>3. CASE Cancels
  BY <1>3 DEF Cancels
<1>4. CASE Walks \/ Drains
  BY <1>4 DEF Walks, Drains
<1>5. CASE WalkEnds
  BY <1>5 DEF WalkEnds
<1>6. CASE Closes
  BY <1>6 DEF Closes
<1> QED
  BY <1>1, <1>2, <1>3, <1>4, <1>5, <1>6 DEF OwnerStep

LEMMA OwnerTyped ==
  ASSUME Typed, OwnerStep \/ LosesLease \/ Stopped \/ (\E f \in Note \cup Intent : Ask(f))
  PROVE  TypeOK' /\ Walked'
<1> USE DEF Typed, storeVars, ownerVars, otherVars, sharedVars, writerVars, vars
<1>1. Latches'
  BY LatchesTyped DEF Next
<1>2. (chain \in Seq(Job))'
  <2>1. CASE OwnerStep
    BY <2>1, OwnerQueues, Appended DEF TypeOK
  <2>2. CASE \E f \in Note \cup Intent : Ask(f)
    BY <2>2, JobFacts, Appended DEF Ask, Queue, TypeOK
  <2> QED
    BY <2>1, <2>2 DEF LosesLease, Stopped, TypeOK
<1>3. (/\ stored \in Record /\ record \in Record /\ op \in Op
       /\ settler \in {"idle", "claimed", "marked", "walked", "done"}
       /\ holder \in {"owner", "other"}
       /\ met \subseteq Threats /\ faults \in 0 .. MaxFaults /\ forces \in 0 .. MaxForces
       /\ noted \subseteq Note /\ committed \subseteq Intent /\ refused \subseteq Intent
       /\ todo \subseteq Note \cup Intent /\ unwound \subseteq Note)'
  BY DEF OwnerStep, Stops, Finishes, Cancels, Walks, WalkEnds, Closes, Drains, Queue, Ask,
         LosesLease, Stopped, TypeOK
<1>4. /\ owner' \in {"working", "marking", "walking", "reporting", "draining", "stopped"}
      /\ cancelLock' \in {"free", "owner", "settler"} /\ walks' \in 0 .. 2 /\ Walked'
  <2> USE DEF TypeOK, Walked
  <2>1. CASE Stops \/ Finishes \/ Cancels
    BY <2>1 DEF Stops, Finishes, Cancels, bodiesEnded
  <2>2. CASE Walks \/ WalkEnds \/ Closes \/ Drains
    BY <2>2 DEF Walks, WalkEnds, Closes, Drains
  <2>3. CASE LosesLease \/ Stopped \/ (\E f \in Note \cup Intent : Ask(f))
    BY <2>3 DEF LosesLease, Stopped, Ask
  <2> QED
    BY <2>1, <2>2, <2>3 DEF OwnerStep
<1> QED
  BY <1>1, <1>2, <1>3, <1>4 DEF TypeOK, Latches

LEMMA OthersTyped ==
  ASSUME Typed, Others
  PROVE  TypeOK' /\ Walked'
<1> USE DEF Typed, storeVars, ownerVars, otherVars, sharedVars, writerVars, vars
<1>1. Latches'
  BY LatchesTyped DEF Next
<1>2. stored' \in Record
  BY OthersMove DEF TypeOK, Record
<1>3. (/\ record \in Record /\ op \in Op /\ chain \in Seq(Job)
       /\ owner \in {"working", "marking", "walking", "reporting", "draining", "stopped"}
       /\ faults \in 0 .. MaxFaults
       /\ noted \subseteq Note /\ committed \subseteq Intent /\ refused \subseteq Intent
       /\ todo \subseteq Note \cup Intent)'
  BY OthersMove DEF TypeOK
<1>4. /\ settler' \in {"idle", "claimed", "marked", "walked", "done"}
      /\ cancelLock' \in {"free", "owner", "settler"}
      /\ holder' \in {"owner", "other"}
      /\ met' \subseteq Threats /\ forces' \in 0 .. MaxForces /\ unwound' \subseteq Note
      /\ walks' \in 0 .. 2 /\ Walked'
  <2> USE BoundsAssumption DEF TypeOK, Walked, Overwrites
  <2>1. CASE ForceTarget \/ SettlerClaims \/ SettlerMarks
    BY <2>1 DEF ForceTarget, SettlerClaims, SettlerMarks, Happens
  <2>2. CASE SettlerSkipsWalk \/ SettlerWalks
    BY <2>2 DEF SettlerSkipsWalk, SettlerWalks
  <2>3. CASE SettlerFinalizes \/ SettlerDies
    BY <2>3 DEF SettlerFinalizes, SettlerDies, Happens
  <2>4. CASE Reap \/ Resume \/ Prune
    BY <2>4 DEF Reap, Resume, Prune, Happens
  <2> QED
    BY <2>1, <2>2, <2>3, <2>4 DEF Others
<1> QED
  BY <1>1, <1>2, <1>3, <1>4 DEF TypeOK, Latches

LEMMA TypedKept == Typed /\ [Next]_vars => Typed'
<1> SUFFICES ASSUME Typed, [Next]_vars PROVE Typed'
  OBVIOUS
<1>1. CASE WriterStep
  BY <1>1, WriterTyped DEF Typed
<1>2. CASE OwnerStep \/ LosesLease \/ Stopped \/ (\E f \in Note \cup Intent : Ask(f))
  BY <1>2, OwnerTyped DEF Typed
<1>3. CASE Others
  BY <1>3, OthersTyped DEF Typed
<1>4. CASE UNCHANGED vars
  BY <1>4 DEF Typed, TypeOK, Walked, vars, writerVars, storeVars, ownerVars, otherVars, sharedVars
<1> QED
  BY <1>1, <1>2, <1>3, <1>4 DEF Next
-----------------------------------------------------------------------------
(* The order in which writes are queued. *)

busy == op.stage # "idle"

Stages ==
  /\ op.stage = "idle" => op = NoOp
  /\ op.stage = "reput" => op.job.kind # "intent" /\ settledElsewhere
  /\ op.stage = "read" => ~current

(* What may be queued or under way while `execute` is at o. *)
Fits(o, j) ==
  \/ o = "working" /\ j.kind \in {"open", "row", "intent"}
  \/ o = "marking" /\ (j.kind \in {"open", "row"} \/ (j.kind = "status" /\ j.status = "cancelling"))
  \/ o = "reporting" /\ j.kind = "event"
  \/ o = "draining" /\ (j.kind \in {"open", "row"} \/ (j.kind = "status" /\ j.status # "cancelling"))

(* cancelledAhead: the write that closes a rollback is queued or under way. *)
cancelledQueued ==
  \E i \in 1 .. Len(chain) : chain[i].kind = "status" /\ chain[i].status = "cancelled"
cancelledNow == op.job.kind = "status" /\ op.job.status = "cancelled"

Queued ==
  /\ \A i \in 1 .. Len(chain) : Fits(owner, chain[i])
  /\ busy => Fits(owner, op.job)
  /\ \A i \in 1 .. Len(chain) : chain[i].kind = "status" => i = Len(chain)
  /\ op.job.kind = "status" => Len(chain) = 0
  /\ owner = "marking" /\ Len(chain) > 0 => chain[Len(chain)].kind = "status"
  /\ owner = "marking" /\ Len(chain) = 0 /\ busy => op.job.kind = "status"
  /\ cancelledQueued => Len(chain) = 1 /\ ~busy

Locked ==
  /\ owner \in {"marking", "walking", "reporting"} \/ cancelledQueued \/ cancelledNow
       => cancelLock = "owner"
  /\ cancelLock = "settler" <=> settler \in {"claimed", "marked", "walked"}

Ordered == Stages /\ Queued /\ Locked

StoreCall ==
  \/ PutLands \/ PutConflicts \/ ReputConflicts \/ PutThrows \/ ReadFails \/ Reapply
  \/ Retry \/ GiveUp \/ RefuseInactive

LEMMA StoreCallMoves ==
  ASSUME TypeOK, StoreCall
  PROVE  /\ UNCHANGED <<chain, owner, disowned, todo, settler, holder, met, forces,
                        cancelLock, unwound, walks, noted>>
         /\ busy /\ \/ op' = NoOp
                    \/ op'.stage \in {"put", "read", "reput"} /\ op'.job = op.job
<1> USE DEF StoreCall, busy, ownerVars, otherVars, sharedVars, Done, NextOp
<1>1. CASE PutLands \/ PutConflicts \/ ReputConflicts
  BY <1>1 DEF PutLands, PutConflicts, ReputConflicts, TypeOK, Op
<1>2. CASE PutThrows \/ ReadFails
  BY <1>2 DEF PutThrows, ReadFails, Fail
<1>3. CASE Reapply \/ Retry
  <2>1. Adopt
    BY <1>3 DEF Reapply, Retry
  <2>2. Reapply => NextOp(op.job, "reput", op.attempt, op.before)
    BY DEF Reapply
  <2>3. Retry => NextOp(op.job, "put", op.attempt + 1, FreshBase)
    BY DEF Retry
  <2>4. op'.stage \in {"put", "reput"} /\ op'.job = op.job
    BY <1>3, <2>2, <2>3
  <2> QED
    BY <2>1, <2>4 DEF Adopt
<1>4. CASE GiveUp \/ RefuseInactive
  BY <1>4 DEF GiveUp, RefuseInactive, Adopt
<1> QED
  BY <1>1, <1>2, <1>3, <1>4

LEMMA OwnerMoves ==
  ASSUME OwnerStep \/ (\E f \in Note \cup Intent : Ask(f)) \/ LosesLease \/ Stopped
  PROVE  UNCHANGED <<stored, there, record, current, settledElsewhere, retainedPending, told, op,
                     noted, committed, refused, settler, holder, met, forces, faults>>
  BY DEF OwnerStep, Stops, Finishes, Cancels, Walks, WalkEnds, Closes, Drains, Queue, Ask,
         LosesLease, Stopped, writerVars, storeVars, ownerVars, otherVars, sharedVars, vars

LEMMA OrderedInit == Init => Ordered
  BY JobFacts DEF Init, Ordered, Stages, Queued, Locked, Fits, busy, cancelledQueued, cancelledNow, NoOp

LEMMA StagesKept ==
  ASSUME TypeOK, Stages, Next
  PROVE  Stages'
<1> USE DEF Stages
<1>1. CASE Drop
  BY <1>1 DEF Drop, Stages
<1>2. CASE Begin
  BY <1>2 DEF Begin, NextOp
<1>3. CASE PutLands \/ PutConflicts \/ ReputConflicts
  BY <1>3 DEF PutLands, PutConflicts, ReputConflicts, Done, NoOp, TypeOK, Op
<1>4. CASE PutThrows \/ ReadFails
  BY <1>4 DEF PutThrows, ReadFails, Fail, Done, NoOp
<1>5. CASE Reapply
  <2>1. op'.stage = "reput" /\ op'.job.kind # "intent" /\ settledElsewhere'
    BY <1>5 DEF Reapply, NextOp
  <2> QED
    BY <2>1
<1>9. CASE Retry
  <2>1. op'.stage = "put"
    BY <1>9 DEF Retry, NextOp
  <2> QED
    BY <2>1
<1>6. CASE GiveUp \/ RefuseInactive
  BY <1>6 DEF GiveUp, RefuseInactive, Done, NoOp
<1>7. CASE OwnerStep \/ (\E f \in Note \cup Intent : Ask(f)) \/ LosesLease \/ Stopped
  BY <1>7, OwnerMoves
<1>8. CASE Others
  <2>1. op' = op /\ settledElsewhere' = settledElsewhere
        /\ (current' = current \/ current' = FALSE)
    BY <1>8, OthersMove
  <2> QED
    BY <2>1
<1> QED
  BY <1>1, <1>2, <1>3, <1>4, <1>5, <1>6, <1>7, <1>8, <1>9 DEF Next, WriterStep

(* One more write is queued behind those that are, where `execute` goes on  *)
(* to a place that suits them all.                                          *)
LEMMA OneMore ==
  ASSUME TypeOK, Ordered, Stages', NEW j \in Job, chain' = Append(chain, j), op' = op,
         owner \in {"working", "walking"} =>
           \A k \in Job : Fits(owner, k) => Fits(owner', k) \/ k.kind = "intent",
         owner' # owner =>
           op.job.kind # "intent" /\ \A i \in 1 .. Len(chain) : chain[i].kind # "intent",
         Fits(owner', j),
         owner \in {"working", "walking"} \/ (Len(chain) = 0 /\ ~busy),
         owner' = "marking" => j.kind = "status",
         j.kind = "status" /\ j.status = "cancelled" => Len(chain) = 0 /\ ~busy
  PROVE  Queued' /\ (cancelledQueued' => j.kind = "status" /\ j.status = "cancelled")
                 /\ (cancelledNow' => cancelledNow)
<1>1. /\ chain \in Seq(Job) /\ op.job \in Job /\ Len(chain) \in Nat
      /\ Len(chain') = Len(chain) + 1 /\ chain'[Len(chain) + 1] = j
      /\ \A i \in 1 .. Len(chain) : chain'[i] = chain[i] /\ chain[i] \in Job
  BY Appended DEF TypeOK, Op
<1>2. \A i \in 1 .. Len(chain') : i \in 1 .. Len(chain) \/ chain'[i] = j
  BY <1>1
<1>3. /\ \A i \in 1 .. Len(chain') : Fits(owner', chain'[i])
      /\ busy' => Fits(owner', op'.job)
  BY <1>1, <1>2 DEF Ordered, Queued, busy
<1>4. /\ \A i \in 1 .. Len(chain) : chain[i].kind # "status"
      /\ op.job.kind # "status" /\ ~cancelledQueued
  <2>1. CASE owner \in {"working", "walking"}
    <3>1. \A k \in Job : Fits(owner, k) => k.kind # "status"
      BY <2>1 DEF Fits
    <3>2. \A i \in 1 .. Len(chain) : chain[i].kind # "status"
      BY <3>1, <1>1 DEF Ordered, Queued
    <3>3. op.job.kind # "status"
      BY <3>1, <1>1 DEF Ordered, Queued, Stages, busy, NoOp, Open
    <3> QED
      BY <3>2, <3>3 DEF cancelledQueued
  <2>2. CASE Len(chain) = 0 /\ ~busy
    BY <2>2, <1>1 DEF Ordered, Stages, NoOp, Open, busy, cancelledQueued
  <2> QED
    BY <2>1, <2>2
<1>5. /\ \A i \in 1 .. Len(chain') : chain'[i].kind = "status" => i = Len(chain')
      /\ op'.job.kind # "status" /\ Len(chain') > 0 /\ chain'[Len(chain')] = j
  BY <1>1, <1>2, <1>4
<1>6. cancelledQueued' => j.kind = "status" /\ j.status = "cancelled"
  BY <1>1, <1>2, <1>4 DEF cancelledQueued
<1>7. Queued'
  BY <1>1, <1>3, <1>5, <1>6 DEF Queued, busy
<1>8. cancelledNow' => cancelledNow
  BY DEF cancelledNow
<1> QED
  BY <1>6, <1>7, <1>8

LEMMA OrderedKept ==
  ASSUME TypeOK, Ordered, Next
  PROVE  Ordered'
<1> USE DEF Ordered
<1>0. Stages' /\ chain \in Seq(Job) /\ op.job \in Job /\ Len(chain) \in Nat
  BY StagesKept DEF TypeOK, Op
<1>1. CASE Drop \/ Begin
  <2>0. chain # <<>> /\ chain' = Tail(chain)
    BY <1>1 DEF Drop, Begin
  <2>1. /\ ~busy /\ UNCHANGED <<owner, cancelLock, settler>>
        /\ \/ op' = op
           \/ op'.stage = "put" /\ op'.job = Head(chain)
    BY <1>1 DEF Drop, Begin, busy, NextOp, ownerVars, otherVars, sharedVars
  <2>2. /\ Head(chain) = chain[1] /\ Len(chain) > 0
        /\ Len(chain') = Len(chain) - 1
        /\ \A i \in 1 .. Len(chain') :
             /\ chain'[i] = chain[i + 1] /\ i + 1 \in 1 .. Len(chain)
             /\ i = Len(chain') <=> i + 1 = Len(chain)
    BY <2>0, <1>0, HeadAndTail
  <2>3. op.job.kind = "open"
    BY <2>1 DEF Stages, busy, NoOp, Open
  <2>4. op'.job.kind = "open" \/ op'.job = chain[1]
    BY <2>1, <2>2, <2>3
  <2>5. /\ \A i \in 1 .. Len(chain') : Fits(owner', chain'[i])
        /\ busy' => Fits(owner', op'.job)
    <3>1. \A i \in 1 .. Len(chain) : Fits(owner', chain[i])
      BY <2>1 DEF Queued
    <3>2. Fits(owner', chain[1])
      BY <3>1, <2>2, <1>0
    <3>3. busy' => op'.job = chain[1]
      BY <2>1, <2>2 DEF busy
    <3> QED
      BY <3>1, <3>2, <3>3, <2>2
  <2>6. /\ \A i \in 1 .. Len(chain') : chain'[i].kind = "status" => i = Len(chain')
        /\ chain[1].kind = "status" => Len(chain') = 0
    <3>1. \A i \in 1 .. Len(chain) : chain[i].kind = "status" => i = Len(chain)
      BY <1>0 DEF Queued
    <3>2. \A i \in 1 .. Len(chain') : chain'[i].kind = "status" => i = Len(chain')
      BY <2>2, <3>1
    <3> QED
      BY <1>0, <2>2, <3>1, <3>2
  <2>7. owner' = "marking" =>
          /\ Len(chain') > 0 => chain'[Len(chain')].kind = "status"
          /\ Len(chain') = 0 => chain[1].kind = "status"
    BY <1>0, <2>1, <2>2 DEF Queued
  <2>8. cancelledQueued' => cancelledQueued
    BY <2>2 DEF cancelledQueued
  <2>9. Queued'
    <3>1. ~cancelledQueued'
      <4>1. cancelledQueued' => Len(chain) = 1
        BY <2>8, <1>0 DEF Queued
      <4>2. Len(chain) = 1 => ~cancelledQueued'
        BY <2>2 DEF cancelledQueued
      <4> QED
        BY <4>1, <4>2
    <3>2. busy' => op'.job = chain[1]
      BY <2>1, <2>2 DEF busy
    <3> QED
      BY <3>1, <3>2, <2>4, <2>5, <2>6, <2>7 DEF Queued
  <2>10. Locked'
    <3>1. cancelledNow' => cancelledQueued
      BY <1>0, <2>2, <2>4 DEF cancelledNow, cancelledQueued
    <3> QED
      BY <3>1, <2>1, <2>8 DEF Locked
  <2> QED
    BY <1>0, <2>9, <2>10
<1>2. CASE StoreCall
  <2>1. /\ UNCHANGED <<chain, owner, settler, cancelLock>>
        /\ busy /\ \/ op'.stage = "idle" /\ op'.job.kind = "open"
                   \/ op'.stage # "idle" /\ op'.job = op.job
    BY <1>2, StoreCallMoves DEF NoOp, Open
  <2> QED
    BY <1>0, <2>1 DEF Queued, Locked, Fits, busy, cancelledQueued, cancelledNow
<1>3. CASE \E f \in Note \cup Intent : Ask(f)
  <2>1. PICK j \in Job : j.kind \in {"row", "intent"} /\ chain' = Append(chain, j)
    BY <1>3, JobFacts DEF Ask, Queue
  <2>2. owner = "working" /\ UNCHANGED <<owner, cancelLock, settler, op>>
    BY <1>3, OwnerMoves DEF Ask, sharedVars
  <2>3. Fits(owner', j)
    BY <2>1, <2>2 DEF Fits
  <2> QED
    BY <1>0, <2>1, <2>2, <2>3, OneMore DEF Locked
<1>4. CASE OwnerStep
  <2>0. UNCHANGED <<op, settler>>
    BY <1>4, OwnerMoves
  <2>1. CASE Stops \/ Finishes \/ Cancels
    <3>1. owner = "working" /\ op.job.kind # "intent"
          /\ \A i \in 1 .. Len(chain) : chain[i].kind # "intent"
      BY <1>0, <2>1 DEF Stops, Finishes, Cancels, bodiesEnded
    <3>2. /\ owner' \in {"marking", "draining"}
          /\ \A k \in Job : Fits(owner, k) => Fits(owner', k) \/ k.kind = "intent"
      BY <2>1, <3>1 DEF Stops, Finishes, Cancels, Fits
    <3>3. CASE chain' = chain /\ cancelLock' = cancelLock /\ owner' = "draining"
      <4>1. \A i \in 1 .. Len(chain) : Fits(owner', chain[i])
        BY <1>0, <3>1, <3>2 DEF Queued
      <4>2. busy => Fits(owner', op.job)
        BY <1>0, <3>1, <3>2 DEF Queued
      <4>3. Queued'
        BY <2>0, <3>3, <4>1, <4>2 DEF Queued, busy, cancelledQueued
      <4> QED
        BY <1>0, <2>0, <3>3, <4>3 DEF Locked, cancelledQueued, cancelledNow
    <3>4. CASE \E j \in Job : j.kind = "status" /\ chain' = Append(chain, j) /\ Fits(owner', j)
                 /\ j.status # "cancelled"
                 /\ IF owner' = "marking" THEN cancelLock = "free" /\ cancelLock' = "owner"
                                          ELSE cancelLock' = cancelLock
      <4>1. PICK j \in Job : j.kind = "status" /\ chain' = Append(chain, j) /\ Fits(owner', j)
                 /\ j.status # "cancelled"
                 /\ IF owner' = "marking" THEN cancelLock = "free" /\ cancelLock' = "owner"
                                          ELSE cancelLock' = cancelLock
        BY <3>4
      <4>2. Queued' /\ ~cancelledQueued' /\ (cancelledNow' => cancelledNow)
        BY <1>0, <2>0, <3>1, <3>2, <4>1, OneMore
      <4> QED
        BY <1>0, <2>0, <3>2, <4>1, <4>2 DEF Locked
    <3>5. CASE Stops
      BY <3>3, <3>5 DEF Stops, writerVars, sharedVars
    <3>6. CASE Finishes
      BY <3>4, <3>6, JobFacts DEF Finishes, Queue, sharedVars, Fits
    <3>7. CASE Cancels
      <4>1. CASE cancelLock = "free"
        BY <3>4, <3>7, <4>1, JobFacts DEF Cancels, Queue, Fits
      <4>2. CASE cancelLock # "free"
        BY <3>3, <3>7, <4>2 DEF Cancels, writerVars
      <4> QED
        BY <4>1, <4>2
    <3> QED
      BY <2>1, <3>5, <3>6, <3>7
  <2>2. CASE Walks \/ Drains
    <3>1. /\ ~busy /\ Len(chain) = 0 /\ op.job.kind = "open" /\ chain' = chain
          /\ \/ owner = "marking" /\ owner' = "walking" /\ cancelLock' = cancelLock
             \/ owner = "marking" /\ owner' = "draining" /\ cancelLock' = "free"
             \/ owner = "draining" /\ owner' = "stopped" /\ cancelLock' = IF cancelLock = "owner" THEN "free"
                                                                         ELSE cancelLock
      BY <1>0, <2>2 DEF Walks, Drains, quiet, busy, writerVars, Stages, NoOp, Open
    <3>2. Queued' /\ ~cancelledQueued' /\ ~cancelledNow'
      BY <1>0, <2>0, <3>1 DEF Queued, busy, cancelledQueued, cancelledNow
    <3> QED
      BY <1>0, <2>0, <3>1, <3>2 DEF Locked
  <2>3. CASE WalkEnds
    <3>1. owner = "walking" /\ owner' = "reporting" /\ cancelLock' = cancelLock
          /\ chain' = Append(chain, Event)
      BY <2>3 DEF WalkEnds, Queue, sharedVars
    <3>2. \A k \in Job : ~Fits(owner, k)
      BY <3>1 DEF Fits
    <3>3. op.job.kind # "intent" /\ \A i \in 1 .. Len(chain) : chain[i].kind # "intent"
      BY <1>0, <3>2 DEF Queued, Stages, busy, NoOp, Open
    <3>4. Fits(owner', Event)
      BY <3>1, JobFacts DEF Fits
    <3> QED
      BY <1>0, <2>0, <3>1, <3>2, <3>3, <3>4, OneMore, JobFacts DEF Locked
  <2>4. CASE Closes
    <3>1. owner = "reporting" /\ owner' = "draining"
          /\ ~busy /\ Len(chain) = 0 /\ op.job.kind = "open"
      BY <1>0, <2>4 DEF Closes, quiet, busy, Stages, NoOp, Open
    <3>2. CASE disowned
      <4>1. chain' = chain /\ cancelLock' = "free"
        BY <2>4, <3>2 DEF Closes, writerVars
      <4> QED
        BY <1>0, <2>0, <3>1, <4>1 DEF Queued, Locked, busy, cancelledQueued, cancelledNow
    <3>3. CASE ~disowned
      <4>1. cancelLock' = cancelLock /\ chain' = Append(chain, RunStatus("cancelled"))
        BY <2>4, <3>3 DEF Closes, Queue
      <4>3. Fits(owner', RunStatus("cancelled"))
        BY <3>1, JobFacts DEF Fits
      <4>4. Queued'
        BY <1>0, <2>0, <3>1, <4>1, <4>3, OneMore, JobFacts
      <4> QED
        BY <1>0, <2>0, <3>1, <4>4, <4>1 DEF Locked, cancelledNow
    <3> QED
      BY <3>2, <3>3
  <2> QED
    BY <1>4, <2>1, <2>2, <2>3, <2>4 DEF OwnerStep
<1>5. CASE LosesLease \/ Stopped
  <2>1. UNCHANGED <<chain, op, owner, cancelLock, settler>>
    BY <1>5, OwnerMoves DEF LosesLease, Stopped, vars, writerVars, ownerVars, sharedVars
  <2>2. Queued' /\ Locked'
    BY <2>1 DEF Ordered, Queued, Locked, busy, cancelledQueued, cancelledNow
  <2> QED
    BY <1>0, <2>2
<1>6. CASE Others
  <2>1. UNCHANGED <<chain, op, owner>>
    BY <1>6, OthersMove
  <2>2. Queued'
    BY <2>1 DEF Queued, busy, cancelledQueued
  <2>3. Locked'
    BY <1>6, <2>1 DEF Locked, cancelledQueued, cancelledNow, Others, ForceTarget, SettlerClaims, SettlerMarks,
       SettlerSkipsWalk, SettlerWalks, SettlerFinalizes, SettlerDies, Reap, Resume, Prune, sharedVars
  <2> QED
    BY <1>0, <2>2, <2>3
<1> QED
  BY <1>1, <1>2, <1>3, <1>4, <1>5, <1>6 DEF Next, WriterStep, StoreCall
-----------------------------------------------------------------------------
(* What the writer's steps do, field by field. *)

FactOf(j) == IF j.kind \in {"row", "intent", "event"} THEN {j.fact} ELSE {}
StatusAfter(j, s, latched) ==
  IF j.kind = "status" /\ ~(latched /\ j.status # "cancelled") THEN j.status ELSE s
lossKnown == stored.degraded \/ record.degraded \/ retainedPending

LEMMA AppliedFields ==
  ASSUME NEW j \in Job, NEW r \in Record, NEW latched \in BOOLEAN
  PROVE  /\ Applied(j, r, latched).facts = r.facts \cup FactOf(j)
         /\ Applied(j, r, latched).status = StatusAfter(j, r.status, latched)
         /\ Applied(j, r, latched).degraded = r.degraded
  BY JobKinds DEF Applied, FactOf, StatusAfter, Record

LEMMA FreshFields ==
  ASSUME TypeOK
  PROVE  /\ FreshBase.facts = stored.facts /\ FreshBase.status = stored.status
         /\ FreshBase.degraded = lossKnown
<1>1. stored.degraded \in BOOLEAN /\ record.degraded \in BOOLEAN /\ retainedPending \in BOOLEAN
  BY DEF TypeOK, Record
<1> QED
  BY <1>1 DEF FreshBase, lossKnown, TypeOK, Record

LEMMA BeginFields ==
  ASSUME TypeOK, Begin
  PROVE  LET j == Head(chain) IN
         /\ ~busy /\ ~Drops(j) /\ j \in Job /\ chain # <<>> /\ chain' = Tail(chain)
         /\ record'.facts = record.facts \cup FactOf(j)
         /\ record'.status = StatusAfter(j, record.status, settledElsewhere)
         /\ record'.degraded = record.degraded
         /\ op'.stage = "put" /\ op'.job = j /\ op'.attempt = 1 /\ op'.before = record
         /\ noted' = IF j.kind = "row" THEN noted \cup {j.fact} ELSE noted
         /\ UNCHANGED <<stored, there, current, settledElsewhere, retainedPending, told,
                        committed, refused, owner, disowned, todo, settler, holder, met,
                        forces, cancelLock, unwound, walks, faults>>
<1>1. Head(chain) \in Job /\ settledElsewhere \in BOOLEAN /\ record \in Record
  BY HeadAndTail DEF Begin, TypeOK
<1>2. record' = Applied(Head(chain), record, settledElsewhere)
  BY DEF Begin
<1>3. NextOp(Head(chain), "put", 1, record)
  BY DEF Begin
<1>4. /\ op'.stage = "put" /\ op'.job = Head(chain) /\ op'.attempt = 1 /\ op'.before = record
  BY <1>3 DEF NextOp
<1> QED
  BY <1>1, <1>2, <1>4, AppliedFields DEF Begin, busy, storeVars, ownerVars, otherVars, sharedVars

LEMMA AdoptFields ==
  ASSUME TypeOK, Adopt
  PROVE  /\ op.stage = "read" /\ there /\ current' = TRUE /\ retainedPending' = FALSE
         /\ UNCHANGED <<chain, noted, committed, stored, there, owner, disowned, todo,
                        settler, holder, met, forces, cancelLock, unwound, walks, faults>>
         /\ op.job \in Job /\ op.before \in Record /\ settledElsewhere \in BOOLEAN
         /\ op.attempt \in 0 .. MaxRetries /\ FreshBase \in Record
  BY FreshTyped DEF Adopt, storeVars, ownerVars, otherVars, sharedVars, TypeOK, Op

LEMMA ReapplyFields ==
  ASSUME TypeOK, Reapply
  PROVE  /\ Adopt /\ op.job.kind # "intent" /\ isSettledElsewhere(stored.status)
         /\ settledElsewhere' = TRUE /\ UNCHANGED <<told, refused>>
         /\ record'.facts = stored.facts \cup FactOf(op.job) /\ record'.status = stored.status
         /\ record'.degraded = lossKnown
         /\ op'.stage = "reput" /\ op'.job = op.job /\ op'.before = op.before
<1>1. Adopt
  BY DEF Reapply
<1>2. record' = [Applied(op.job, FreshBase, TRUE) EXCEPT !.status = stored.status]
  BY DEF Reapply
<1>3. Applied(op.job, FreshBase, TRUE) \in Record
  BY <1>1, AdoptFields, AppliedIsRecord
<1>4. record'.facts = stored.facts \cup FactOf(op.job) /\ record'.status = stored.status
      /\ record'.degraded = lossKnown
  <2>1. /\ Applied(op.job, FreshBase, TRUE).facts = FreshBase.facts \cup FactOf(op.job)
        /\ Applied(op.job, FreshBase, TRUE).degraded = FreshBase.degraded
    BY <1>1, AdoptFields, AppliedFields
  <2>2. /\ record'.facts = Applied(op.job, FreshBase, TRUE).facts
        /\ record'.degraded = Applied(op.job, FreshBase, TRUE).degraded
        /\ record'.status = stored.status
    BY <1>2, <1>3 DEF Record
  <2> QED
    BY <2>1, <2>2, FreshFields
<1>5. NextOp(op.job, "reput", op.attempt, op.before)
  BY DEF Reapply
<1>6. op'.stage = "reput" /\ op'.job = op.job /\ op'.before = op.before
  BY <1>5 DEF NextOp
<1> QED
  BY <1>4, <1>6 DEF Reapply

LEMMA RetryFields ==
  ASSUME TypeOK, Retry
  PROVE  /\ Adopt /\ UNCHANGED <<settledElsewhere, told, refused>>
         /\ IF op.job.kind = "intent" THEN stored.status = "running"
                                      ELSE ~isSettledElsewhere(stored.status)
         /\ record'.facts = stored.facts \cup FactOf(op.job)
         /\ record'.status = StatusAfter(op.job, stored.status, settledElsewhere)
         /\ record'.degraded = lossKnown
         /\ op'.stage = "put" /\ op'.job = op.job /\ op'.attempt = op.attempt + 1
         /\ op'.before.facts = stored.facts /\ op'.before.status = stored.status
         /\ op'.before.degraded = lossKnown
<1>1. Adopt
  BY DEF Retry
<1>2. record' = Applied(op.job, FreshBase, settledElsewhere)
  BY DEF Retry
<1>3. record'.facts = stored.facts \cup FactOf(op.job) /\ record'.degraded = lossKnown
      /\ record'.status = StatusAfter(op.job, stored.status, settledElsewhere)
  BY <1>1, <1>2, AdoptFields, AppliedFields, FreshFields
<1>4. NextOp(op.job, "put", op.attempt + 1, FreshBase)
  BY DEF Retry
<1>5. /\ op'.stage = "put" /\ op'.job = op.job /\ op'.attempt = op.attempt + 1
      /\ op'.before = FreshBase
  BY <1>4 DEF NextOp
<1> QED
  BY <1>1, <1>3, <1>5, FreshFields DEF Retry

LEMMA GiveUpFields ==
  ASSUME TypeOK, GiveUp
  PROVE  /\ Adopt /\ UNCHANGED <<settledElsewhere, told>> /\ op' = NoOp
         /\ IF op.job.kind = "intent" THEN stored.status = "running"
                                      ELSE ~isSettledElsewhere(stored.status)
         /\ op.attempt = MaxRetries /\ Refuse(op.job)
         /\ record'.facts = stored.facts /\ record'.status = stored.status
         /\ record'.degraded = TRUE
<1>1. Adopt /\ record' = [FreshBase EXCEPT !.degraded = TRUE]
  BY DEF GiveUp
<1>2. record'.facts = stored.facts /\ record'.status = stored.status /\ record'.degraded = TRUE
  BY <1>1, AdoptFields, FreshFields DEF Record
<1> QED
  BY <1>2 DEF GiveUp, Done

LEMMA RefuseFields ==
  ASSUME TypeOK, RefuseInactive
  PROVE  /\ Adopt /\ UNCHANGED settledElsewhere /\ told' = TRUE /\ op' = NoOp
         /\ op.job.kind = "intent" /\ stored.status # "running" /\ Refuse(op.job)
         /\ record'.facts = stored.facts /\ record'.status = stored.status
         /\ record'.degraded = lossKnown
<1>1. /\ Adopt /\ record' = FreshBase /\ UNCHANGED settledElsewhere /\ told' = TRUE
      /\ op.job.kind = "intent" /\ stored.status # "running" /\ Refuse(op.job) /\ op' = NoOp
  BY DEF RefuseInactive, Done
<1> QED
  BY <1>1, FreshFields
-----------------------------------------------------------------------------
(* Intents. *)

(* Neither the process nor the store knows anything of f yet. *)
Untold(f) ==
  f \notin record.facts \cup stored.facts \cup op.before.facts \cup refused \cup committed

(* Each intent is asked for once, and nothing is known of it before its turn. *)
Asked ==
  /\ \A f \in todo \cap Intent : Untold(f)
  /\ \A i \in 1 .. Len(chain) : chain[i].kind = "intent" =>
       Untold(chain[i].fact) /\ chain[i].fact \notin todo
  /\ \A i, j \in 1 .. Len(chain) :
       chain[i].kind = "intent" /\ chain[j].kind = "intent" /\ i # j =>
         chain[i].fact # chain[j].fact

(* The intent under way is in memory only, and its write can be taken back. *)
InHand ==
  op.job.kind = "intent" =>
    /\ op.job.fact \in record.facts
    /\ op.job.fact \notin stored.facts \cup op.before.facts \cup refused \cup committed
    /\ committed \subseteq op.before.facts /\ refused \cap op.before.facts = {}

Unique ==
  op.job.kind = "intent" =>
    /\ op.job.fact \notin todo
    /\ \A i \in 1 .. Len(chain) : chain[i].kind = "intent" => chain[i].fact # op.job.fact

Kept ==
  /\ committed \subseteq record.facts /\ (there => committed \subseteq stored.facts)
  /\ refused \cap record.facts = {} /\ refused \cap stored.facts = {}

Recorded == Asked /\ InHand /\ Unique /\ Kept

LEMMA RecordedInit == Init => Recorded
  BY DEF Init, Recorded, Asked, InHand, Unique, Kept, Untold, NoOp, Open

(* A step that tells of nothing but the write under way leaves the others   *)
(* untold.                                                                  *)
LEMMA StillAsked ==
  ASSUME TypeOK, Recorded, StoreCall,
         /\ record'.facts \subseteq record.facts \cup stored.facts \cup op.before.facts \cup FactOf(op.job)
         /\ stored'.facts \subseteq record.facts \cup stored.facts
         /\ op'.before.facts \subseteq record.facts \cup stored.facts \cup op.before.facts
         /\ refused' \subseteq refused \cup FactOf(op.job)
         /\ committed' \subseteq committed \cup FactOf(op.job)
  PROVE  Asked' /\ Unique'
<1>1. /\ UNCHANGED <<chain, todo>> /\ op.job \in Job /\ Len(chain) \in Nat
      /\ op'.job.kind = "intent" => op'.job = op.job
      /\ \A i \in 1 .. Len(chain) : chain[i] \in Job
      /\ Note \cap Intent = {} /\ "event" \notin Note \cup Intent
  BY StoreCallMoves, FactsAssumption DEF TypeOK, Op, NoOp, Open
<1>2. \A f \in Intent : f \in FactOf(op.job) => op.job.kind = "intent" /\ f = op.job.fact
  BY <1>1, JobKinds DEF FactOf
<1>3. \A f \in Intent : Untold(f) => Untold(f)'
  BY <1>2 DEF Untold, Recorded, InHand
<1>4. Asked'
  <2>1. \A f \in todo \cap Intent : Untold(f)'
    BY <1>3 DEF Recorded, Asked
  <2>2. \A i \in 1 .. Len(chain) : chain[i].kind = "intent" =>
          chain[i].fact \in Intent /\ Untold(chain[i].fact) /\ chain[i].fact \notin todo
    BY <1>1, JobKinds DEF Recorded, Asked
  <2>3. \A i \in 1 .. Len(chain) : chain[i].kind = "intent" => Untold(chain[i].fact)'
    BY <1>1, <1>3, <2>2 DEF Untold
  <2> QED
    BY <1>1, <2>1, <2>2, <2>3 DEF Recorded, Asked
<1>5. Unique'
  BY <1>1 DEF Recorded, Unique
<1> QED
  BY <1>4, <1>5

LEMMA RecordedByStoreCalls ==
  ASSUME TypeOK, Ordered, Recorded, StoreCall
  PROVE  Recorded'
<1> USE DEF Recorded
<1>0. /\ op.job \in Job /\ record \in Record /\ stored \in Record /\ op.before \in Record
      /\ NoOp.job.kind = "open" /\ NoOp.before.facts = {}
      /\ Note \cap Intent = {} /\ "event" \notin Note \cup Intent
      /\ op.job.kind = "intent" => FactOf(op.job) = {op.job.fact} /\ op.job.fact \in Intent
      /\ op.job.kind # "intent" => FactOf(op.job) \cap Intent = {}
      /\ committed \subseteq Intent /\ refused \subseteq Intent
  BY JobKinds, FactsAssumption DEF TypeOK, Op, NoOp, Open, FactOf
<1>1. CASE PutLands
  <2>1. /\ stored' = record /\ there' = TRUE /\ record' = record /\ op' = NoOp /\ refused' = refused
        /\ committed' = IF op.job.kind = "intent" THEN committed \cup {op.job.fact} ELSE committed
    BY <1>1 DEF PutLands, Done
  <2>2. Asked' /\ Unique'
    BY <1>0, <2>1, StillAsked, <1>1 DEF StoreCall
  <2>3. Kept' /\ InHand'
    BY <1>0, <2>1 DEF Kept, InHand
  <2> QED
    BY <2>2, <2>3
<1>2. CASE PutConflicts
  <2>1. UNCHANGED <<stored, there, record, refused, committed>> /\ op'.job = op.job /\ op'.before = op.before
    BY <1>2 DEF PutConflicts, storeVars, TypeOK, Op
  <2>2. Asked' /\ Unique'
    BY <1>0, <2>1, StillAsked, <1>2 DEF StoreCall
  <2>3. Kept' /\ InHand'
    BY <1>0, <2>1 DEF Kept, InHand
  <2> QED
    BY <2>2, <2>3
<1>3. CASE ReputConflicts
  <2>1. UNCHANGED <<stored, there, refused, committed>> /\ record'.facts = record.facts /\ op' = NoOp
    BY <1>3, <1>0 DEF ReputConflicts, storeVars, Done, Record
  <2>2. Asked' /\ Unique'
    BY <1>0, <2>1, StillAsked, <1>3 DEF StoreCall
  <2>3. Kept' /\ InHand'
    BY <1>0, <2>1 DEF Kept, InHand
  <2> QED
    BY <2>2, <2>3
<1>4. CASE PutThrows \/ ReadFails
  <2>1. /\ record' = IF op.job.kind = "intent" THEN op.before ELSE record
        /\ op' = NoOp /\ committed' = committed
        /\ \/ UNCHANGED <<stored, there>> /\ Refuse(op.job)
           \/ stored' = record /\ there' = TRUE /\ refused' = refused
    BY <1>4 DEF PutThrows, ReadFails, Fail, Done, storeVars
  <2>2. Asked' /\ Unique'
    BY <1>0, <2>1, StillAsked, <1>4 DEF StoreCall, Refuse
  <2>3. Kept' /\ InHand'
    BY <1>0, <2>1 DEF Kept, InHand, Refuse
  <2> QED
    BY <2>2, <2>3
<1>5. CASE Reapply
  <2>1. /\ record'.facts = stored.facts \cup FactOf(op.job) /\ there
        /\ op'.job = op.job /\ op'.before = op.before /\ op.job.kind # "intent"
        /\ UNCHANGED <<stored, there, refused, committed>>
    BY <1>5, ReapplyFields, AdoptFields
  <2>2. Asked' /\ Unique'
    BY <1>0, <2>1, StillAsked, <1>5 DEF StoreCall
  <2>3. Kept' /\ InHand'
    BY <1>0, <2>1 DEF Kept, InHand
  <2> QED
    BY <2>2, <2>3
<1>6. CASE Retry
  <2>1. /\ record'.facts = stored.facts \cup FactOf(op.job) /\ there
        /\ op'.job = op.job /\ op'.before.facts = stored.facts
        /\ UNCHANGED <<stored, there, refused, committed>>
    BY <1>6, RetryFields, AdoptFields
  <2>2. Asked' /\ Unique'
    BY <1>0, <2>1, StillAsked, <1>6 DEF StoreCall
  <2>3. Kept' /\ InHand'
    BY <1>0, <2>1 DEF Kept, InHand
  <2> QED
    BY <2>2, <2>3
<1>7. CASE GiveUp \/ RefuseInactive
  <2>1. /\ record'.facts = stored.facts /\ there /\ op' = NoOp /\ Refuse(op.job)
        /\ UNCHANGED <<stored, there, committed>>
    BY <1>7, GiveUpFields, RefuseFields, AdoptFields
  <2>2. Asked' /\ Unique'
    BY <1>0, <2>1, StillAsked, <1>7 DEF StoreCall, Refuse
  <2>3. Kept' /\ InHand'
    BY <1>0, <2>1 DEF Kept, InHand, Refuse
  <2> QED
    BY <2>2, <2>3
<1> QED
  BY <1>1, <1>2, <1>3, <1>4, <1>5, <1>6, <1>7 DEF StoreCall

(* A write leaves the queue. *)
LEMMA TurnComes ==
  ASSUME TypeOK, Asked, chain # <<>>, chain' = Tail(chain), todo' = todo,
         \A f \in Intent : Untold(f) /\ ~(chain[1].kind = "intent" /\ f = chain[1].fact)
                             => Untold(f)'
  PROVE  /\ Asked'
         /\ chain[1].kind = "intent" => \A i \in 1 .. Len(chain') :
              chain'[i].kind = "intent" => chain'[i].fact # chain[1].fact
<1>1. /\ 1 \in 1 .. Len(chain) /\ Len(chain') \in Nat /\ Len(chain) \in Nat
      /\ \A i \in 1 .. Len(chain') :
           chain'[i] = chain[i + 1] /\ i + 1 \in 1 .. Len(chain) /\ i + 1 # 1
      /\ \A i \in 1 .. Len(chain) : chain[i] \in Job
  BY HeadAndTail DEF TypeOK
<1>2. \A i \in 1 .. Len(chain) : chain[i].kind = "intent" =>
        /\ chain[i].fact \in Intent /\ Untold(chain[i].fact) /\ chain[i].fact \notin todo
        /\ chain[1].kind = "intent" /\ i # 1 => chain[i].fact # chain[1].fact
  BY <1>1, JobKinds DEF Asked
<1>3. chain[1].kind = "intent" => chain[1].fact \notin todo
  BY <1>1, <1>2
<1>4. \A f \in todo' \cap Intent : Untold(f)'
  BY <1>3 DEF Asked
<1>5. \A i \in 1 .. Len(chain) : chain[i].kind = "intent" /\ i # 1 =>
        \E f \in Intent : f = chain[i].fact /\ Untold(f)'
  BY <1>2
<1>6. \A i \in 1 .. Len(chain') : chain'[i].kind = "intent" =>
        Untold(chain[i].fact)' /\ chain'[i].fact \notin todo'
  BY <1>1, <1>2, <1>5 DEF Untold
<1>7. \A i, j \in 1 .. Len(chain') :
        chain'[i].kind = "intent" /\ chain'[j].kind = "intent" /\ i # j =>
          chain'[i].fact # chain'[j].fact
  <2> SUFFICES ASSUME NEW i \in 1 .. Len(chain'), NEW j \in 1 .. Len(chain'), i # j,
                      chain'[i].kind = "intent", chain'[j].kind = "intent"
               PROVE  chain'[i].fact # chain'[j].fact
    OBVIOUS
  <2>1. i + 1 # j + 1 /\ i + 1 \in 1 .. Len(chain) /\ j + 1 \in 1 .. Len(chain)
    BY <1>1
  <2> QED
    BY <1>1, <2>1 DEF Asked
<1>8. chain[1].kind = "intent" => \A i \in 1 .. Len(chain') :
              chain'[i].kind = "intent" => chain'[i].fact # chain[1].fact
  BY <1>1, <1>2
<1> QED
  BY <1>4, <1>6, <1>7, <1>8 DEF Asked

LEMMA RecordedKept ==
  ASSUME TypeOK, Ordered, Recorded, Next
  PROVE  Recorded'
<1> USE DEF Recorded
<1>0. /\ chain \in Seq(Job) /\ Len(chain) \in Nat /\ \A i \in 1 .. Len(chain) : chain[i] \in Job
      /\ record \in Record /\ Note \cap Intent = {} /\ "event" \notin Note \cup Intent
      /\ todo \subseteq Note \cup Intent
  BY FactsAssumption DEF TypeOK
<1>1. CASE Drop
  <2>1. /\ chain # <<>> /\ chain' = Tail(chain) /\ Refuse(Head(chain))
        /\ UNCHANGED <<record, stored, there, op, committed, todo>>
    BY <1>1 DEF Drop, storeVars, ownerVars
  <2>2. Head(chain) = chain[1] /\ 1 \in 1 .. Len(chain) /\ Head(chain) \in Job
    BY <1>0, <2>1, HeadAndTail
  <2>3. \A f \in Intent : Untold(f) /\ ~(chain[1].kind = "intent" /\ f = chain[1].fact) => Untold(f)'
    BY <2>1, <2>2 DEF Untold, Refuse
  <2>4. Asked'
    BY <2>1, <2>3, TurnComes
  <2>5. op.job.kind = "open"
    BY <1>1 DEF Drop, Ordered, Stages, NoOp, Open
  <2>6. Unique' /\ InHand'
    BY <2>1, <2>5 DEF Unique, InHand
  <2>7. Kept'
    <3>1. CASE Head(chain).kind = "intent"
      <4>1. Untold(Head(chain).fact)
        BY <2>2, <3>1 DEF Asked
      <4> QED
        BY <2>1, <3>1, <4>1 DEF Kept, Refuse, Untold
    <3>2. CASE Head(chain).kind # "intent"
      BY <2>1, <3>2 DEF Kept, Refuse
    <3> QED
      BY <3>1, <3>2
  <2> QED
    BY <2>4, <2>6, <2>7
<1>2. CASE Begin
  <2>1. /\ chain # <<>> /\ chain' = Tail(chain) /\ Head(chain) \in Job
        /\ record'.facts = record.facts \cup FactOf(Head(chain))
        /\ op'.job = Head(chain) /\ op'.before = record
        /\ UNCHANGED <<stored, there, committed, refused, todo>>
    BY <1>2, BeginFields
  <2>2. Head(chain) = chain[1] /\ 1 \in 1 .. Len(chain)
    BY <1>0, <2>1, HeadAndTail
  <2>3. \A f \in Intent : f \in FactOf(Head(chain)) => chain[1].kind = "intent" /\ f = chain[1].fact
    BY <1>0, <2>1, <2>2, JobKinds DEF FactOf
  <2>4. \A f \in Intent : Untold(f) /\ ~(chain[1].kind = "intent" /\ f = chain[1].fact) => Untold(f)'
    BY <2>1, <2>3 DEF Untold
  <2>5. Asked' /\ (chain[1].kind = "intent" => \A i \in 1 .. Len(chain') :
              chain'[i].kind = "intent" => chain'[i].fact # chain[1].fact)
    BY <2>1, <2>4, TurnComes
  <2>6. chain[1].kind = "intent" => Untold(chain[1].fact) /\ chain[1].fact \notin todo
    BY <2>2 DEF Asked
  <2>7. Unique'
    BY <2>1, <2>2, <2>5, <2>6 DEF Unique
  <2>8. InHand'
    BY <2>1, <2>2, <2>6 DEF InHand, Untold, Kept, FactOf
  <2>9. Kept'
    <3>1. refused \subseteq Intent
      BY DEF TypeOK
    <3> QED
      BY <2>1, <2>3, <2>6, <3>1 DEF Kept, Untold
  <2> QED
    BY <2>5, <2>7, <2>8, <2>9
<1>3. CASE StoreCall
  BY <1>3, RecordedByStoreCalls
<1>4. CASE (\E f \in Note \cup Intent : Ask(f)) \/ OwnerStep
  <2>1. UNCHANGED <<stored, there, record, op, committed, refused>>
    BY <1>4, OwnerMoves
  <2>2. \A f : Untold(f) => Untold(f)'
    BY <2>1 DEF Untold
  <2>3. Kept' /\ InHand'
    BY <2>1 DEF Kept, InHand
  <2>4. CASE chain' = chain /\ todo' = todo
    BY <2>1, <2>3, <2>4 DEF Asked, Unique, Untold
  <2>5. CASE \E j \in Job : /\ chain' = Append(chain, j) /\ todo' \subseteq todo
                            /\ j.kind = "intent" => j.fact \in (todo \ todo') \cap Intent
    <3>1. PICK j \in Job : /\ chain' = Append(chain, j)
                           /\ j.kind = "intent" => j.fact \in (todo \ todo') \cap Intent
      BY <2>5
    <3>2. /\ Len(chain') = Len(chain) + 1 /\ chain'[Len(chain) + 1] = j
          /\ \A i \in 1 .. Len(chain) : chain'[i] = chain[i]
      BY <1>0, <3>1, Appended
    <3>3. \A i \in 1 .. Len(chain') : i \in 1 .. Len(chain) \/ (i = Len(chain) + 1 /\ chain'[i] = j)
      BY <1>0, <3>2
    <3>4. j.kind = "intent" => Untold(j.fact) /\ \A i \in 1 .. Len(chain) :
            chain[i].kind = "intent" => chain[i].fact # j.fact
      BY <3>1 DEF Asked
    <3>5. \A i \in 1 .. Len(chain') : chain'[i].kind = "intent" =>
            Untold(chain[i].fact)' /\ chain'[i].fact \notin todo'
      BY <2>1, <2>5, <3>1, <3>2, <3>3, <3>4 DEF Asked, Untold
    <3>6. \A i, k \in 1 .. Len(chain') :
            chain'[i].kind = "intent" /\ chain'[k].kind = "intent" /\ i # k =>
              chain'[i].fact # chain'[k].fact
      BY <3>2, <3>3, <3>4 DEF Asked
    <3>7. Asked'
      BY <2>2, <2>5, <3>5, <3>6 DEF Asked
    <3>8. Unique'
      BY <2>1, <2>5, <3>1, <3>2, <3>3 DEF Unique
    <3> QED
      BY <2>3, <3>7, <3>8
  <2>6. CASE OwnerStep
    BY <2>4, <2>5, <2>6, OwnerQueues
  <2>7. CASE \E f \in Note \cup Intent : Ask(f)
    <3>1. PICK f \in todo : f \in Note \cup Intent /\ todo' = todo \ {f}
             /\ chain' = Append(chain, IF f \in Intent THEN Strict(f) ELSE Row(f))
      BY <2>7 DEF Ask, Queue
    <3>2. CASE f \in Intent
      BY <3>1, <3>2, <2>5, JobFacts
    <3>3. CASE f \notin Intent
      BY <3>1, <3>3, <2>5, JobFacts
    <3> QED
      BY <3>2, <3>3
  <2> QED
    BY <1>4, <2>6, <2>7
<1>6. CASE LosesLease \/ Stopped
  <2>1. UNCHANGED <<stored, there, record, op, committed, refused, chain, todo>>
    BY <1>6 DEF LosesLease, Stopped, vars, writerVars, storeVars, ownerVars
  <2> QED
    BY <2>1 DEF Kept, InHand, Asked, Unique, Untold
<1>7. CASE Others
  <2>1. UNCHANGED <<record, op, committed, refused, chain, todo>> /\ stored'.facts = stored.facts
    BY <1>7, OthersMove DEF TypeOK, Record
  <2>2. there' => there
    BY <1>7, OthersMove
  <2> QED
    BY <2>1, <2>2 DEF Kept, InHand, Asked, Unique, Untold
<1> QED
  BY <1>1, <1>2, <1>3, <1>4, <1>6, <1>7 DEF Next, WriterStep, StoreCall
-----------------------------------------------------------------------------
(* A run that another process has settled. *)

Active ==
  /\ op.job.kind = "intent" =>
       /\ record.status = "running" /\ op.before.status = "running"
       /\ current => stored.status = "running"
       /\ record.degraded = op.before.degraded
  /\ current /\ record.status = "running" => stored.status = "running"

LEMMA ActiveInit == Init => Active
  BY DEF Init, Active, NoOp, Open

LEMMA OthersFields ==
  ASSUME TypeOK, Others
  PROVE  /\ stored'.facts = stored.facts /\ stored'.degraded = stored.degraded
         /\ stored' # stored => current' = FALSE
         /\ current' = current \/ current' = FALSE
         /\ there' = there \/ there' = FALSE
<1>1. \A st \in Status : /\ [stored EXCEPT !.status = st].facts = stored.facts
                         /\ [stored EXCEPT !.status = st].degraded = stored.degraded
  BY DEF TypeOK, Record
<1>2. CASE UNCHANGED <<stored, there, current>>
  BY <1>2
<1>3. CASE /\ there /\ there' = TRUE /\ current' = FALSE
           /\ \E s \in Status : stored' = [stored EXCEPT !.status = s]
  BY <1>1, <1>3 DEF TypeOK
<1>4. CASE there' = FALSE /\ current' = FALSE /\ stored' = stored
  BY <1>4
<1> QED
  BY <1>2, <1>3, <1>4, OthersMove

LEMMA ActiveKept ==
  ASSUME TypeOK, Ordered, Active, Next
  PROVE  Active'
<1>0. /\ op.job \in Job /\ record \in Record /\ NoOp.job.kind = "open"
  BY DEF TypeOK, Op, NoOp, Open
<1>1. CASE Drop
  BY <1>1 DEF Drop, storeVars, Active
<1>2. CASE Begin
  <2>1. Head(chain).kind = "intent" => record.status = "running"
    BY <1>2 DEF Begin, Drops
  <2>2. Head(chain).kind = "status" => Head(chain).status # "running"
    BY <1>2, BeginFields, JobKinds
  <2> QED
    BY <1>2, <2>1, <2>2, BeginFields DEF Active, StatusAfter
<1>3. CASE PutLands
  BY <1>0, <1>3 DEF PutLands, Done, Active
<1>4. CASE PutConflicts
  <2>1. UNCHANGED <<stored, record, current>> /\ op'.job = op.job /\ op'.before = op.before
    BY <1>4 DEF PutConflicts, storeVars, TypeOK, Op
  <2> QED
    BY <2>1 DEF Active
<1>5. CASE ReputConflicts
  <2>1. UNCHANGED <<stored, current>> /\ record'.status = record.status /\ op' = NoOp
    BY <1>0, <1>5 DEF ReputConflicts, storeVars, Done, Record
  <2> QED
    BY <1>0, <2>1 DEF Active
<1>6. CASE PutThrows
  <2>1. /\ record' = IF op.job.kind = "intent" THEN op.before ELSE record
        /\ op' = NoOp
        /\ UNCHANGED <<stored, current>> \/ current' = FALSE
    BY <1>6 DEF PutThrows, Fail, Done, storeVars
  <2> QED
    BY <1>0, <2>1 DEF Active
<1>7. CASE ReadFails
  <2>1. op' = NoOp /\ current' = current /\ ~current
    BY <1>7 DEF ReadFails, Fail, Done, Ordered, Stages
  <2> QED
    BY <1>0, <2>1 DEF Active
<1>8. CASE Reapply
  <2>1. /\ record'.status = stored.status /\ op'.job = op.job /\ op.job.kind # "intent"
        /\ stored' = stored
    BY <1>8, ReapplyFields, AdoptFields
  <2> QED
    BY <2>1 DEF Active
<1>9. CASE Retry
  <2>1. /\ record'.status = StatusAfter(op.job, stored.status, settledElsewhere)
        /\ record'.degraded = lossKnown /\ op'.before.degraded = lossKnown
        /\ op'.before.status = stored.status /\ op'.job = op.job /\ stored' = stored
        /\ op.job.kind = "intent" => stored.status = "running"
    BY <1>9, RetryFields, AdoptFields
  <2>2. op.job.kind = "status" => op.job.status # "running"
    BY <1>0, JobKinds
  <2> QED
    BY <2>1, <2>2 DEF Active, StatusAfter
<1>10. CASE GiveUp \/ RefuseInactive
  <2>1. record'.status = stored.status /\ op' = NoOp /\ stored' = stored
    BY <1>10, GiveUpFields, RefuseFields, AdoptFields
  <2> QED
    BY <1>0, <2>1 DEF Active
<1>11. CASE OwnerStep \/ (\E f \in Note \cup Intent : Ask(f)) \/ LosesLease \/ Stopped
  <2>1. UNCHANGED <<stored, record, current, op>>
    BY <1>11, OwnerMoves
  <2> QED
    BY <2>1 DEF Active
<1>12. CASE Others
  <2>1. /\ record' = record /\ op' = op /\ (stored' # stored => current' = FALSE)
        /\ current' = current \/ current' = FALSE
    BY <1>12, OthersMove, OthersFields
  <2> QED
    BY <2>1 DEF Active
<1> QED
  BY <1>1, <1>2, <1>3, <1>4, <1>5, <1>6, <1>7, <1>8, <1>9, <1>10, <1>11, <1>12
  DEF Next, WriterStep
-----------------------------------------------------------------------------
(* While the process only meets settlers. *)

Present == MeetsOnlySettlers /\ ~current => there

LEMMA PresentInit == Init => Present
  BY DEF Init, Present

(* What happened stays so. *)
LEMMA StaysMet ==
  ASSUME TypeOK, Next, MeetsOnlySettlers'
  PROVE  MeetsOnlySettlers
<1> USE DEF MeetsOnlySettlers
<1>1. CASE Drop \/ Begin
  BY <1>1 DEF Drop, Begin, otherVars
<1>2. CASE PutLands \/ PutConflicts \/ ReputConflicts
  BY <1>2 DEF PutLands, PutConflicts, ReputConflicts, otherVars
<1>3. CASE PutThrows \/ ReadFails
  <2>1. met' = met /\ (faults' = faults \/ faults' = faults + 1)
    BY <1>3 DEF PutThrows, ReadFails, otherVars
  <2>2. faults \in Nat
    BY BoundsAssumption DEF TypeOK
  <2> QED
    BY <2>1, <2>2
<1>4. CASE Reapply \/ Retry \/ GiveUp \/ RefuseInactive
  BY <1>4, AdoptFields, ReapplyFields, RetryFields, GiveUpFields, RefuseFields
<1>5. CASE OwnerStep \/ (\E f \in Note \cup Intent : Ask(f)) \/ LosesLease \/ Stopped
  BY <1>5, OwnerMoves
<1>6. CASE Others
  <2>1. faults' = faults
    BY <1>6, OthersMove
  <2>2. met \subseteq met'
    BY <1>6 DEF Others, ForceTarget, SettlerClaims, SettlerMarks, SettlerSkipsWalk, SettlerWalks,
         SettlerFinalizes, SettlerDies, Reap, Resume, Prune, Happens
  <2> QED
    BY <2>1, <2>2
<1> QED
  BY <1>1, <1>2, <1>3, <1>4, <1>5, <1>6 DEF Next, WriterStep

LEMMA NoCallThrows ==
  ASSUME TypeOK, Ordered, Present, Next, MeetsOnlySettlers'
  PROVE  ~PutThrows /\ ~ReadFails
<1>1. MeetsOnlySettlers
  BY StaysMet
<1>2. ~PutThrows
  BY <1>1 DEF PutThrows, MeetsOnlySettlers
<1>3. ~ReadFails
  BY <1>1 DEF ReadFails, MeetsOnlySettlers, Present, Ordered, Stages
<1> QED
  BY <1>2, <1>3

(* What the other processes then do. *)
LEMMA OthersThen ==
  ASSUME TypeOK, Others, MeetsOnlySettlers'
  PROVE  \/ /\ stored.status \in {"running", "suspended"} /\ stored'.status = stored.status
            /\ current' = FALSE /\ there' /\ forces' = forces + 1 /\ UNCHANGED <<settler, walks>>
         \/ /\ settler = "claimed" /\ settler' = "marked" /\ UNCHANGED <<forces, walks>>
            /\ stored.status \notin Terminal \cup {"cancelling"}
            /\ stored'.status = "cancelling" /\ current' = FALSE /\ there'
         \/ /\ settler = "walked" /\ settler' = "done" /\ UNCHANGED <<forces, walks>>
            /\ stored.status \notin Terminal
            /\ stored'.status \in {"failed", "cancelled"} /\ current' = FALSE /\ there'
         \/ /\ settler = "marked" /\ settler' = "walked" /\ walks' = walks + 1
            /\ UNCHANGED <<stored, there, current, forces>>
         \/ settler' # "marked" /\ UNCHANGED <<stored, there, current, forces, walks>>
<1> USE DEF storeVars, writerVars, Overwrites, sharedVars
<1>0. \A st \in Status : [stored EXCEPT !.status = st].status = st
  BY DEF TypeOK, Record
<1>1. CASE ForceTarget
  <2>1. stored.status \in Status
    BY DEF TypeOK, Record
  <2> QED
    BY <1>0, <1>1, <2>1 DEF ForceTarget
<1>2. CASE SettlerClaims
  BY <1>2 DEF SettlerClaims
<1>3. CASE SettlerMarks
  BY <1>0, <1>3 DEF SettlerMarks, Status
<1>4. CASE SettlerSkipsWalk \/ SettlerDies
  BY <1>4 DEF SettlerSkipsWalk, SettlerDies
<1>5. CASE SettlerWalks
  BY <1>5 DEF SettlerWalks
<1>6. CASE SettlerFinalizes
  BY <1>0, <1>6 DEF SettlerFinalizes, Status, Terminal
<1>7. CASE Reap \/ Prune
  BY <1>7 DEF Reap, Prune, Happens, MeetsOnlySettlers
<1>8. CASE Resume
  BY <1>8 DEF Resume, MeetsOnlySettlers
<1> QED
  BY <1>1, <1>2, <1>3, <1>4, <1>5, <1>6, <1>7, <1>8 DEF Others

LEMMA PresentKept ==
  ASSUME TypeOK, Ordered, Present, Next
  PROVE  Present'
<1> SUFFICES ASSUME MeetsOnlySettlers', ~current' PROVE there'
  BY DEF Present
<1>0. MeetsOnlySettlers
  BY StaysMet
<1>1. CASE Drop \/ Begin
  BY <1>0, <1>1 DEF Drop, Begin, storeVars, Present
<1>2. CASE PutLands \/ PutConflicts \/ ReputConflicts
  BY <1>0, <1>2 DEF PutLands, PutConflicts, ReputConflicts, storeVars, Present
<1>3. CASE PutThrows \/ ReadFails
  BY <1>3, NoCallThrows
<1>4. CASE Reapply \/ Retry \/ GiveUp \/ RefuseInactive
  BY <1>4, AdoptFields, ReapplyFields, RetryFields, GiveUpFields, RefuseFields
<1>5. CASE OwnerStep \/ (\E f \in Note \cup Intent : Ask(f)) \/ LosesLease \/ Stopped
  BY <1>0, <1>5, OwnerMoves DEF Present
<1>6. CASE Others
  BY <1>0, <1>6, OthersThen DEF Present
<1> QED
  BY <1>1, <1>2, <1>3, <1>4, <1>5, <1>6 DEF Next, WriterStep

(* What this process has learned of another's settlement, and from when on. *)
Learned ==
  /\ MeetsOnlySettlers /\ settledElsewhere => told \/ op.stage = "reput"
  /\ owner = "working" /\ isSettledElsewhere(record.status) => settledElsewhere \/ told
  /\ isSettledElsewhere(record.status)
       /\ (\E i \in 1 .. Len(chain) : chain[i].kind = "status" /\ chain[i].status # "cancelled")
       => settledElsewhere
  /\ owner = "marking" /\ record.status \in Terminal => settledElsewhere

LEMMA LearnedInit == Init => Learned
  BY DEF Init, Learned, NoOp, isSettledElsewhere

LEMMA LatchedKept ==
  ASSUME TypeOK, Ordered, Present, Learned, Next
  PROVE  (MeetsOnlySettlers /\ settledElsewhere => told \/ op.stage = "reput")'
<1> SUFFICES ASSUME MeetsOnlySettlers', settledElsewhere' PROVE told' \/ op'.stage = "reput"
  OBVIOUS
<1>0. MeetsOnlySettlers /\ (settledElsewhere => told \/ op.stage = "reput")
  BY StaysMet DEF Learned
<1>1. CASE Drop \/ Begin
  BY <1>0, <1>1 DEF Drop, Begin
<1>2. CASE PutLands \/ PutConflicts \/ ReputConflicts
  BY <1>0, <1>2 DEF PutLands, PutConflicts, ReputConflicts
<1>3. CASE PutThrows \/ ReadFails
  BY <1>3, NoCallThrows
<1>4. CASE Reapply
  BY <1>4, ReapplyFields
<1>5. CASE Retry \/ GiveUp \/ RefuseInactive
  <2>1. op.stage = "read" /\ settledElsewhere' = settledElsewhere /\ (told' = told \/ told' = TRUE)
    BY <1>5, AdoptFields, RetryFields, GiveUpFields, RefuseFields
  <2> QED
    BY <1>0, <2>1
<1>6. CASE OwnerStep \/ (\E f \in Note \cup Intent : Ask(f)) \/ LosesLease \/ Stopped
  BY <1>0, <1>6, OwnerMoves
<1>7. CASE Others
  BY <1>0, <1>7, OthersMove
<1> QED
  BY <1>1, <1>2, <1>3, <1>4, <1>5, <1>6, <1>7 DEF Next, WriterStep

(* A write that is being queued behind others is the only status among them. *)
LEMMA StatusesAhead ==
  ASSUME TypeOK, Ordered, StoreCall
  PROVE  /\ op.job \in Job /\ op.before \in Record
         /\ op.job.kind = "intent" => owner = "working"
         /\ owner = "working" => op.job.kind # "status" /\
              \A i \in 1 .. Len(chain) : chain[i].kind # "status"
         /\ owner = "marking" /\ op.job.kind = "status" => op.job.status = "cancelling"
         /\ op.job.kind = "status" => Len(chain) = 0
         /\ op.job.kind = "status" /\ op.job.status # "cancelling" => owner = "draining"
         /\ owner \in {"walking", "reporting"} => op.job.kind = "event"
  BY StoreCallMoves DEF Ordered, Queued, Fits, TypeOK, Op

LEMMA LearnedByCalls ==
  ASSUME TypeOK, Ordered, Active, Learned, StoreCall
  PROVE  /\ (owner = "working" /\ isSettledElsewhere(record.status) => settledElsewhere \/ told)'
         /\ (isSettledElsewhere(record.status)
               /\ (\E i \in 1 .. Len(chain) : chain[i].kind = "status" /\ chain[i].status # "cancelled")
               => settledElsewhere)'
         /\ (owner = "marking" /\ record.status \in Terminal => settledElsewhere)'
<1>0. /\ UNCHANGED <<chain, owner>> /\ Len(chain) \in Nat
      /\ "running" \notin Terminal /\ "suspended" \notin Terminal /\ "cancelling" \notin Terminal
  BY StoreCallMoves DEF TypeOK, Terminal
<1>1. CASE /\ record'.status \in {"running", "suspended", record.status}
           /\ settledElsewhere => settledElsewhere'
           /\ told => told'
  BY <1>0, <1>1 DEF Learned, isSettledElsewhere
<1>2. CASE settledElsewhere'
  BY <1>2
<1>3. CASE PutLands \/ PutConflicts
  BY <1>1, <1>3 DEF PutLands, PutConflicts
<1>4. CASE ReputConflicts
  <2>1. record'.status = record.status
    BY <1>4 DEF ReputConflicts, TypeOK, Record
  <2> QED
    BY <1>1, <1>4, <2>1 DEF ReputConflicts
<1>5. CASE PutThrows \/ ReadFails
  <2>1. /\ record' = IF op.job.kind = "intent" THEN op.before ELSE record
        /\ UNCHANGED <<settledElsewhere, told>>
    BY <1>5 DEF PutThrows, ReadFails, Fail
  <2> QED
    BY <1>1, <2>1 DEF Active
<1>6. CASE Reapply
  BY <1>2, <1>6, ReapplyFields
<1>7. CASE GiveUp
  <2>1. stored.status \in {"running", "suspended"}
    BY <1>7, GiveUpFields DEF isSettledElsewhere
  <2> QED
    BY <1>1, <1>7, <2>1, GiveUpFields
<1>8. CASE RefuseInactive
  <2>1. owner = "working" /\ told'
    BY <1>8, RefuseFields, StatusesAhead
  <2> QED
    BY <1>0, <2>1, StatusesAhead
<1>9. CASE Retry
  <2>1. /\ stored.status \in {"running", "suspended"} /\ UNCHANGED <<settledElsewhere, told>>
        /\ record'.status = StatusAfter(op.job, stored.status, settledElsewhere)
    BY <1>9, RetryFields DEF isSettledElsewhere
  <2>2. CASE op.job.kind # "status"
    BY <1>1, <2>1, <2>2 DEF StatusAfter
  <2>3. CASE op.job.kind = "status"
    <3>1. owner # "working" /\ Len(chain) = 0
          /\ (owner = "marking" => record'.status \in {"running", "suspended", "cancelling"})
      BY <2>1, <2>3, StatusesAhead DEF StatusAfter
    <3> QED
      BY <1>0, <3>1
  <2> QED
    BY <2>2, <2>3
<1> QED
  BY <1>3, <1>4, <1>5, <1>6, <1>7, <1>8, <1>9 DEF StoreCall

LEMMA LearnedKept ==
  ASSUME TypeOK, Ordered, Present, Active, Learned, Next
  PROVE  Learned'
<1> DEFINE Rest == /\ owner = "working" /\ isSettledElsewhere(record.status) => settledElsewhere \/ told
                   /\ isSettledElsewhere(record.status)
                       /\ (\E i \in 1 .. Len(chain) : chain[i].kind = "status" /\ chain[i].status # "cancelled")
                       => settledElsewhere
                   /\ owner = "marking" /\ record.status \in Terminal => settledElsewhere
<1> SUFFICES Rest'
  BY LatchedKept DEF Learned
<1>0. chain \in Seq(Job) /\ Len(chain) \in Nat /\ Rest
  BY DEF TypeOK, Learned
<1>1. CASE Drop \/ Begin
  <2>1. chain # <<>> /\ chain' = Tail(chain) /\ UNCHANGED <<owner, settledElsewhere, told>>
    BY <1>1 DEF Drop, Begin, ownerVars
  <2>2. /\ Head(chain) = chain[1] /\ 1 \in 1 .. Len(chain) /\ Head(chain) \in Job
        /\ Len(chain') = Len(chain) - 1
        /\ \A i \in 1 .. Len(chain') : chain'[i] = chain[i + 1] /\ i + 1 \in 1 .. Len(chain)
    BY <1>0, <2>1, HeadAndTail
  <2>3. CASE record'.status = record.status
    BY <1>0, <2>1, <2>2, <2>3
  <2>4. CASE chain[1].kind = "status" /\ record'.status = chain[1].status
    <3>1. Len(chain') = 0 /\ Fits(owner, chain[1])
      BY <1>0, <2>2, <2>4 DEF Ordered, Queued
    <3>2. owner # "working" /\ (owner = "marking" => record'.status = "cancelling")
      BY <2>4, <3>1 DEF Fits
    <3>3. ~\E i \in 1 .. Len(chain') : TRUE
      BY <3>1
    <3>4. owner' # "working" /\ ~(owner' = "marking" /\ record'.status \in Terminal)
      BY <2>1, <3>2 DEF Terminal
    <3> QED
      BY <3>3, <3>4
  <2>5. record'.status = record.status \/ (chain[1].kind = "status" /\ record'.status = chain[1].status)
    BY <1>1, <2>2, BeginFields DEF Drop, StatusAfter
  <2> QED
    BY <2>3, <2>4, <2>5
<1>2. CASE StoreCall
  BY <1>2, LearnedByCalls
<1>3. CASE \E f \in Note \cup Intent : Ask(f)
  <2>1. PICK j \in Job : j.kind # "status" /\ chain' = Append(chain, j)
    BY <1>3, JobFacts DEF Ask, Queue
  <2>2. UNCHANGED <<owner, record, settledElsewhere, told>>
    BY <1>3, OwnerMoves DEF Ask
  <2>3. /\ Len(chain') = Len(chain) + 1 /\ chain'[Len(chain) + 1] = j
        /\ \A i \in 1 .. Len(chain) : chain'[i] = chain[i]
    BY <1>0, <2>1, Appended
  <2>4. \A i \in 1 .. Len(chain') : chain'[i].kind = "status" => i \in 1 .. Len(chain)
    BY <1>0, <2>1, <2>3
  <2> QED
    BY <1>0, <2>2, <2>3, <2>4
<1>4. CASE OwnerStep
  <2>1. UNCHANGED <<record, settledElsewhere, told>>
    BY <1>4, OwnerMoves
  <2>2. CASE Stops \/ Walks \/ Drains
    BY <1>0, <2>1, <2>2 DEF Stops, Walks, Drains, writerVars
  <2>3. CASE Finishes \/ Cancels
    <3>1. owner = "working" /\ ~told /\ owner' # "working"
      BY <2>3 DEF Finishes, Cancels, bodiesEnded
    <3>2. isSettledElsewhere(record.status) => settledElsewhere
      BY <1>0, <3>1
    <3> QED
      BY <2>1, <3>1, <3>2 DEF isSettledElsewhere, Terminal
  <2>4. CASE WalkEnds \/ Closes
    <3>1. /\ owner' \in {"reporting", "draining"} /\ Ordered'
          /\ chain' = chain \/ \E j \in Job : j \in {Event, RunStatus("cancelled")} /\ chain' = Append(chain, j)
      BY <2>4, <1>4, OrderedKept, JobFacts DEF WalkEnds, Closes, Queue, writerVars, Next
    <3>2. CASE chain' = chain
      BY <1>0, <2>1, <3>1, <3>2
    <3>3. CASE chain' # chain
      <4>1. PICK j \in Job : j \in {Event, RunStatus("cancelled")} /\ chain' = Append(chain, j)
        BY <3>1, <3>3
      <4>2. /\ Len(chain') = Len(chain) + 1 /\ chain'[Len(chain) + 1] = j
            /\ \A i \in 1 .. Len(chain) : chain'[i] = chain[i]
        BY <1>0, <4>1, Appended
      <4>3. \A i \in 1 .. Len(chain') :
              chain'[i].kind = "status" /\ chain'[i].status # "cancelled" => i \in 1 .. Len(chain)
        BY <1>0, <4>1, <4>2, JobFacts
      <4> QED
        BY <1>0, <2>1, <3>1, <4>2, <4>3
    <3> QED
      BY <3>2, <3>3
  <2> QED
    BY <1>4, <2>2, <2>3, <2>4 DEF OwnerStep
<1>5. CASE LosesLease \/ Stopped
  <2>1. UNCHANGED <<owner, record, chain, settledElsewhere, told>>
    BY <1>5 DEF LosesLease, Stopped, vars, writerVars, ownerVars
  <2> QED
    BY <1>0, <2>1
<1>6. CASE Others
  <2>1. UNCHANGED <<owner, record, chain, settledElsewhere, told>>
    BY <1>6, OthersMove
  <2> QED
    BY <1>0, <2>1
<1> QED
  BY <1>1, <1>2, <1>3, <1>4, <1>5, <1>6 DEF Next, WriterStep, StoreCall

(* While the process knows the store's version it knows the outcome another *)
(* gave the run, and it does not close a run that was settled.              *)
Informed ==
  /\ MeetsOnlySettlers /\ current /\ stored.status \in Terminal => record.status = stored.status
  /\ MeetsOnlySettlers /\ current /\ isSettledElsewhere(stored.status)
       => isSettledElsewhere(record.status)

Unsettled ==
  /\ MeetsOnlySettlers /\ ~disowned /\ owner \in {"walking", "reporting"}
       => stored.status \notin Terminal /\ record.status \notin Terminal
  /\ MeetsOnlySettlers /\ (cancelledQueued \/ cancelledNow) => stored.status \notin Terminal

LEMMA InformedInit == Init => Informed /\ Unsettled
  BY DEF Init, Informed, Unsettled, NoOp, isSettledElsewhere, Terminal, cancelledQueued, cancelledNow, Open

LEMMA InformedKept ==
  ASSUME TypeOK, Ordered, Present, Learned, Informed, Unsettled, Next
  PROVE  Informed'
<1> SUFFICES ASSUME MeetsOnlySettlers', current'
             PROVE  /\ stored'.status \in Terminal => record'.status = stored'.status
                    /\ isSettledElsewhere(stored'.status) => isSettledElsewhere(record'.status)
  BY DEF Informed
<1>0. /\ current => /\ stored.status \in Terminal => record.status = stored.status
                    /\ isSettledElsewhere(stored.status) => isSettledElsewhere(record.status)
      /\ MeetsOnlySettlers
  BY StaysMet DEF Informed
<1>1. CASE Drop
  BY <1>0, <1>1 DEF Drop, storeVars
<1>2. CASE Begin
  <2>1. /\ current /\ stored' = stored /\ chain # <<>>
        /\ record'.status = StatusAfter(Head(chain), record.status, settledElsewhere)
    BY <1>2, BeginFields
  <2>2. Head(chain) = chain[1] /\ 1 \in 1 .. Len(chain) /\ Head(chain) \in Job
    BY <2>1, HeadAndTail DEF TypeOK
  <2>3. CASE isSettledElsewhere(record.status) /\ chain[1].kind = "status" /\ chain[1].status # "cancelled"
    BY <1>0, <2>1, <2>2, <2>3 DEF Learned, StatusAfter
  <2>4. CASE chain[1].kind = "status" /\ chain[1].status = "cancelled"
    BY <1>0, <2>1, <2>2, <2>4 DEF StatusAfter, Unsettled, cancelledQueued, isSettledElsewhere
  <2>5. CASE chain[1].kind # "status"
    BY <1>0, <2>1, <2>2, <2>5 DEF StatusAfter
  <2>6. CASE ~isSettledElsewhere(record.status)
    BY <1>0, <2>1, <2>6 DEF isSettledElsewhere, Terminal
  <2> QED
    BY <2>3, <2>4, <2>5, <2>6
<1>3. CASE PutLands
  BY <1>3 DEF PutLands
<1>4. CASE PutConflicts \/ ReputConflicts
  BY <1>4 DEF PutConflicts, ReputConflicts
<1>5. CASE PutThrows \/ ReadFails
  BY <1>5, NoCallThrows
<1>6. CASE Reapply \/ GiveUp \/ RefuseInactive
  BY <1>6, ReapplyFields, GiveUpFields, RefuseFields, AdoptFields
<1>7. CASE Retry
  BY <1>7, RetryFields, AdoptFields DEF isSettledElsewhere, Terminal
<1>8. CASE OwnerStep \/ (\E f \in Note \cup Intent : Ask(f)) \/ LosesLease \/ Stopped
  BY <1>0, <1>8, OwnerMoves
<1>9. CASE Others
  BY <1>0, <1>9, OthersMove, OthersFields
<1> QED
  BY <1>1, <1>2, <1>3, <1>4, <1>5, <1>6, <1>7, <1>8, <1>9 DEF Next, WriterStep

(* Who else's ending `execute` has yet to notice, it will: before it takes  *)
(* part in the settlement of the run, a write of its own meets it.          *)
atRest == Len(chain) = 0 /\ ~busy
Noticed ==
  /\ MeetsOnlySettlers /\ ~told /\ owner = "working" /\ isSettledElsewhere(stored.status)
       => ~current \/ op.stage = "reput"
  /\ MeetsOnlySettlers /\ ~told /\ owner = "marking" /\ (stored.status \in Terminal \/ walks > 0)
       => (~current \/ op.stage = "reput") /\ (atRest => disowned)

(* The run stays settled once its compensations were walked: by another     *)
(* process, or by this one unless its mark was given up.                    *)
WalkShows ==
  /\ MeetsOnlySettlers /\ walks > 0 /\ (owner \in {"working", "marking"} \/ forces < MaxRetries)
       => isSettledElsewhere(stored.status)
  /\ MeetsOnlySettlers /\ settler = "marked" =>
       isSettledElsewhere(stored.status) /\ (forces < MaxRetries => walks = 0)
  /\ MeetsOnlySettlers /\ forces < MaxRetries => walks <= 1

(* Each lost attempt of a write was lost to an override or a settlement.    *)
Attempts ==
  MeetsOnlySettlers =>
    /\ op.stage \in {"idle", "reput"} /\ ~current =>
         1 <= forces \/ isSettledElsewhere(stored.status)
    /\ op.stage \in {"put", "read"} =>
         /\ op.attempt <= forces + 1
         /\ ~current => op.attempt <= forces \/ isSettledElsewhere(stored.status)

(* The mark of a cancellation gets through, unless it is given up.          *)
MarkLands ==
  /\ op.stage \in {"put", "read"} /\ op.job.kind = "status" /\ op.job.status = "cancelling"
       => settledElsewhere \/ record.status = "cancelling"
  /\ MeetsOnlySettlers /\ forces < MaxRetries /\ owner = "marking" /\ atRest /\ ~told /\ ~disowned
       => isSettledElsewhere(stored.status)

Settling == Present /\ Learned /\ Informed /\ Unsettled /\ Noticed /\ WalkShows /\ Attempts /\ MarkLands

LEMMA SettlingInit == Init => Settling
<1> SUFFICES ASSUME Init PROVE Settling
  OBVIOUS
<1>1. Noticed /\ WalkShows /\ Attempts /\ MarkLands
  BY BoundsAssumption DEF Init, Noticed, WalkShows, Attempts, MarkLands, NoOp, isSettledElsewhere
<1> QED
  BY <1>1, PresentInit, LearnedInit, InformedInit DEF Settling

(* The write at the head of the queue is dropped or begun. *)
LEMMA HeadLeaves ==
  ASSUME TypeOK, Ordered, Drop \/ Begin
  PROVE  /\ Len(chain) \in Nat /\ Len(chain) > 0 /\ Len(chain') = Len(chain) - 1
         /\ chain[1] \in Job /\ Fits(owner, chain[1]) /\ Head(chain) = chain[1]
         /\ ~busy /\ op.job.kind = "open"
         /\ UNCHANGED <<stored, there, current, settledElsewhere, retainedPending, told, owner,
                        disowned, todo, settler, holder, met, forces, cancelLock, unwound,
                        walks, faults>>
         /\ chain[1].kind = "status" => Len(chain') = 0
         /\ ~cancelledQueued' /\ (cancelledNow' => cancelledQueued)
         /\ \/ /\ Drops(chain[1]) /\ op' = op /\ record' = record /\ noted' = noted
            \/ /\ ~Drops(chain[1]) /\ op'.stage = "put" /\ op'.job = chain[1] /\ op'.attempt = 1
               /\ record'.status = StatusAfter(chain[1], record.status, settledElsewhere)
               /\ record'.facts = record.facts \cup FactOf(chain[1])
               /\ record'.degraded = record.degraded /\ op'.before = record
               /\ noted' = IF chain[1].kind = "row" THEN noted \cup {chain[1].fact} ELSE noted
<1>1. /\ chain # <<>> /\ chain' = Tail(chain) /\ op.stage = "idle"
  BY DEF Drop, Begin
<1>2. /\ Len(chain) \in Nat /\ Len(chain) > 0 /\ Len(chain') = Len(chain) - 1
      /\ chain[1] \in Job /\ Head(chain) = chain[1] /\ 1 \in 1 .. Len(chain)
      /\ \A i \in 1 .. Len(chain') : chain'[i] = chain[i + 1] /\ i + 1 \in 1 .. Len(chain)
  BY <1>1, HeadAndTail DEF TypeOK
<1>3. /\ Fits(owner, chain[1]) /\ ~busy /\ op.job.kind = "open"
      /\ chain[1].kind = "status" => Len(chain') = 0
  <2>1. Fits(owner, chain[1])
    BY <1>2 DEF Ordered, Queued
  <2>2. chain[1].kind = "status" => 1 = Len(chain)
    BY <1>2 DEF Ordered, Queued
  <2>3. ~busy /\ op.job.kind = "open"
    BY <1>1 DEF Ordered, Stages, busy, NoOp, Open
  <2> QED
    BY <1>2, <2>1, <2>2, <2>3
<1>4. ~cancelledQueued'
  BY <1>2 DEF Ordered, Queued, cancelledQueued
<1>5. CASE Drop
  <2>1. /\ UNCHANGED <<stored, there, current, settledElsewhere, retainedPending, told, owner,
                        disowned, todo, settler, holder, met, forces, cancelLock, unwound,
                        walks, faults>>
        /\ Drops(Head(chain)) /\ op' = op /\ record' = record /\ noted' = noted
    BY <1>5 DEF Drop, storeVars, ownerVars, otherVars, sharedVars
  <2>2. ~cancelledNow'
    BY <1>3, <2>1 DEF cancelledNow
  <2> QED
    BY <1>2, <1>3, <1>4, <2>1, <2>2
<1>6. CASE Begin
  <2>1. cancelledNow' => cancelledQueued
    BY <1>2, <1>6, BeginFields DEF cancelledNow, cancelledQueued
  <2> QED
    BY <1>2, <1>3, <1>4, <1>6, <2>1, BeginFields
<1> QED
  BY <1>5, <1>6

LEMMA OwnerKeeps ==
  ASSUME TypeOK, Ordered, (\E f \in Note \cup Intent : Ask(f)) \/ LosesLease \/ Stopped
  PROVE  /\ UNCHANGED <<owner, walks, unwound>> /\ (disowned => disowned')
         /\ (cancelledQueued' => cancelledQueued) /\ op' = op
         /\ atRest' => atRest
         /\ chain' # chain => owner = "working"
<1>0. chain \in Seq(Job) /\ Len(chain) \in Nat /\ op' = op
  BY OwnerMoves DEF TypeOK
<1>1. CASE LosesLease \/ Stopped
  <2>1. UNCHANGED <<owner, walks, unwound, chain>> /\ (disowned => disowned')
    BY <1>1 DEF LosesLease, Stopped, vars, writerVars, ownerVars, sharedVars
  <2> QED
    BY <1>0, <2>1 DEF cancelledQueued, atRest, busy
<1>2. CASE \E f \in Note \cup Intent : Ask(f)
  <2>1. PICK j \in Job : j.kind # "status" /\ chain' = Append(chain, j)
    BY <1>2, JobFacts DEF Ask, Queue
  <2>2. UNCHANGED <<owner, walks, unwound, disowned>> /\ owner = "working"
    BY <1>2 DEF Ask, sharedVars
  <2>3. /\ Len(chain') = Len(chain) + 1 /\ chain'[Len(chain) + 1] = j
        /\ \A i \in 1 .. Len(chain) : chain'[i] = chain[i]
    BY <1>0, <2>1, Appended
  <2>4. \A i \in 1 .. Len(chain') : chain'[i].kind = "status" =>
           i \in 1 .. Len(chain) /\ chain'[i] = chain[i]
    BY <1>0, <2>1, <2>3
  <2>5. cancelledQueued' => cancelledQueued
    BY <2>4 DEF cancelledQueued
  <2> QED
    BY <1>0, <2>2, <2>3, <2>5 DEF atRest
<1> QED
  BY <1>1, <1>2

(* Only closing a rollback queues a write that says `cancelled`. *)
LEMMA CancelledQueues ==
  ASSUME TypeOK, OwnerStep
  PROVE  cancelledQueued' => cancelledQueued \/ (Closes /\ ~disowned)
<1>1. CASE chain' = chain
  BY <1>1 DEF cancelledQueued
<1>2. CASE \E j \in Job : chain' = Append(chain, j)
             /\ (j.kind = "status" /\ j.status = "cancelled" => Closes /\ ~disowned)
  <2>1. PICK j \in Job : chain' = Append(chain, j)
             /\ (j.kind = "status" /\ j.status = "cancelled" => Closes /\ ~disowned)
    BY <1>2
  <2>2. chain \in Seq(Job) /\ Len(chain) \in Nat
    BY DEF TypeOK
  <2>3. /\ Len(chain') = Len(chain) + 1 /\ chain'[Len(chain) + 1] = j
        /\ \A i \in 1 .. Len(chain) : chain'[i] = chain[i]
    BY <2>1, <2>2, Appended
  <2>4. \A i \in 1 .. Len(chain') : i \in 1 .. Len(chain) \/ chain'[i] = j
    BY <2>2, <2>3
  <2> QED
    BY <2>1, <2>3, <2>4 DEF cancelledQueued
<1>3. CASE Finishes
  <2>1. PICK s \in {"succeeded", "suspended"} : chain' = Append(chain, RunStatus(s))
    BY <1>3 DEF Finishes, Queue
  <2>2. RunStatus(s) \in Job /\ RunStatus(s).status # "cancelled"
    BY JobFacts
  <2> QED
    BY <1>2, <2>1, <2>2
<1>4. CASE Cancels
  <2>1. chain' = chain \/ chain' = Append(chain, RunStatus("cancelling"))
    BY <1>4 DEF Cancels, Queue, writerVars
  <2>2. RunStatus("cancelling") \in Job /\ RunStatus("cancelling").status # "cancelled"
    BY JobFacts
  <2> QED
    BY <1>1, <1>2, <2>1, <2>2
<1>5. CASE WalkEnds
  <2>1. chain' = Append(chain, Event) /\ Event \in Job /\ Event.kind # "status"
    BY <1>5, JobFacts DEF WalkEnds, Queue
  <2> QED
    BY <1>2, <2>1
<1>6. CASE Closes
  <2>1. chain' = chain \/ (~disowned /\ chain' = Append(chain, RunStatus("cancelled")))
    BY <1>6 DEF Closes, Queue, writerVars
  <2>2. RunStatus("cancelled") \in Job
    BY JobFacts
  <2> QED
    BY <1>1, <1>2, <1>6, <2>1, <2>2
<1>7. CASE Stops \/ Walks \/ Drains
  <2>1. chain' = chain
    BY <1>7 DEF Stops, Walks, Drains, writerVars
  <2> QED
    BY <1>1, <2>1
<1> QED
  BY <1>1, <1>3, <1>4, <1>5, <1>6, <1>7 DEF OwnerStep

LEMMA UnsettledKept ==
  ASSUME TypeOK, Ordered, Settling, Next
  PROVE  Unsettled'
<1> SUFFICES ASSUME MeetsOnlySettlers' PROVE Unsettled'
  BY DEF Unsettled
<1> USE DEF Settling
<1>0. MeetsOnlySettlers
  BY StaysMet
<1>1. CASE Drop \/ Begin
  <2>1. owner \in {"walking", "reporting"} => record'.status = record.status
    BY <1>1, HeadLeaves DEF Fits, StatusAfter
  <2> QED
    BY <1>0, <1>1, <2>1, HeadLeaves DEF Unsettled
<1>2. CASE StoreCall
  <2>1. /\ UNCHANGED <<chain, owner, disowned>> /\ busy
        /\ cancelledNow' => cancelledNow
    BY <1>2, StoreCallMoves DEF cancelledNow, NoOp, Open
  <2>2. ~cancelledQueued'
    BY <2>1 DEF Ordered, Queued, cancelledQueued
  <2>3. /\ cancelledNow' => stored'.status \notin Terminal
        /\ ~disowned /\ owner \in {"walking", "reporting"} =>
             stored'.status \notin Terminal /\ record'.status \notin Terminal
    <3>1. CASE PutLands
      BY <1>0, <3>1 DEF PutLands, Done, NoOp, Open, cancelledNow, Unsettled
    <3>2. CASE PutConflicts
      BY <1>0, <2>1, <3>2 DEF PutConflicts, storeVars, Unsettled
    <3>3. CASE ReputConflicts
      <4>1. stored' = stored /\ record'.status = record.status
        BY <3>3 DEF ReputConflicts, storeVars, TypeOK, Record
      <4> QED
        BY <1>0, <2>1, <4>1 DEF Unsettled
    <3>4. CASE PutThrows \/ ReadFails
      BY <3>4, NoCallThrows
    <3>5. CASE Reapply \/ GiveUp \/ RefuseInactive
      <4>1. stored' = stored /\ record'.status = stored.status
        BY <3>5, ReapplyFields, GiveUpFields, RefuseFields, AdoptFields
      <4> QED
        BY <1>0, <2>1, <4>1 DEF Unsettled
    <3>6. CASE Retry
      <4>1. stored' = stored /\ record'.status = StatusAfter(op.job, stored.status, settledElsewhere)
        BY <3>6, RetryFields, AdoptFields
      <4> QED
        BY <1>0, <1>2, <2>1, <4>1, StatusesAhead DEF Unsettled, StatusAfter
    <3> QED
      BY <1>2, <3>1, <3>2, <3>3, <3>4, <3>5, <3>6 DEF StoreCall
  <2> QED
    BY <2>1, <2>2, <2>3 DEF Unsettled
<1>3. CASE (\E f \in Note \cup Intent : Ask(f)) \/ LosesLease \/ Stopped
  <2>1. UNCHANGED <<stored, record, owner, op>> /\ (disowned => disowned')
    BY <1>3, OwnerMoves, OwnerKeeps
  <2> QED
    BY <1>0, <1>3, <2>1, OwnerKeeps DEF Unsettled, cancelledNow
<1>4. CASE OwnerStep
  <2>0. UNCHANGED <<stored, record, op, told, disowned, settledElsewhere>>
    BY <1>4, OwnerMoves, OwnerQueues
  <2>1. CASE chain' = chain /\ (owner' \in {"walking", "reporting"} => owner' = owner)
    BY <1>0, <2>0, <2>1 DEF Unsettled, cancelledQueued, cancelledNow
  <2>2. CASE Stops \/ Drains
    BY <2>1, <2>2 DEF Stops, Drains, writerVars
  <2>3. CASE Walks
    <3>1. /\ owner = "marking" /\ quiet /\ chain' = chain
          /\ owner' = "walking" => ~told
          /\ owner' \in {"draining", "walking"}
      BY <2>3 DEF Walks, writerVars
    <3>2. atRest
      BY <3>1 DEF quiet, atRest, busy
    <3>3. owner' = "walking" /\ ~disowned => stored.status \notin Terminal
      BY <1>0, <3>1, <3>2 DEF Noticed
    <3>4. owner' = "walking" => record.status \notin Terminal
      BY <1>0, <3>1, <3>2 DEF Learned, atRest, busy, Ordered, Stages
    <3> QED
      BY <1>0, <2>0, <3>1, <3>3, <3>4 DEF Unsettled, cancelledQueued, cancelledNow
  <2>4. CASE Finishes \/ Cancels \/ WalkEnds \/ Closes
    <3>1. (Finishes \/ Cancels => owner' \in {"draining", "marking"}) /\ (Closes => owner' = "draining")
          /\ (WalkEnds => owner = "walking" /\ owner' = "reporting")
      BY DEF Finishes, Cancels, Closes, WalkEnds
    <3>2. ~disowned /\ owner' \in {"walking", "reporting"} =>
            stored.status \notin Terminal /\ record.status \notin Terminal
      BY <1>0, <2>4, <3>1 DEF Unsettled
    <3>3. cancelledQueued' => cancelledQueued \/ (Closes /\ ~disowned)
      BY <1>4, CancelledQueues
    <3>4. Closes /\ ~disowned => stored.status \notin Terminal
      BY <1>0 DEF Closes, Unsettled
    <3> QED
      BY <1>0, <2>0, <3>2, <3>3, <3>4 DEF Unsettled, cancelledNow
  <2> QED
    BY <1>4, <2>2, <2>3, <2>4 DEF OwnerStep
<1>5. CASE Others
  <2>1. UNCHANGED <<record, chain, op, owner, disowned>>
    BY <1>5, OthersMove
  <2>2. stored'.status \in Terminal => stored' = stored \/ settler = "walked" \/ stored'.status = stored.status
    BY <1>5, OthersThen DEF Terminal
  <2>3. owner \in {"walking", "reporting"} \/ cancelledQueued \/ cancelledNow => settler # "walked"
    BY DEF Ordered, Locked
  <2> QED
    BY <1>0, <2>1, <2>2, <2>3 DEF Unsettled, cancelledQueued, cancelledNow
<1> QED
  BY <1>1, <1>2, <1>3, <1>4, <1>5 DEF Next, WriterStep, StoreCall

(* What the calls of the store then do. *)
LEMMA CallsThen ==
  ASSUME TypeOK, Ordered, Settling, Next, StoreCall, MeetsOnlySettlers'
  PROVE  /\ MeetsOnlySettlers /\ busy
         /\ UNCHANGED <<chain, owner, disowned, settler, forces, walks>>
         /\ \/ /\ op.stage \in {"put", "reput"} /\ current /\ current' /\ op' = NoOp
               /\ stored' = record /\ record' = record /\ settledElsewhere' = settledElsewhere
               /\ ~told' => ~told /\ op.stage = "put"
            \/ /\ op.stage = "put" /\ ~current /\ ~current' /\ op'.stage = "read"
               /\ op'.job = op.job /\ op'.attempt = op.attempt
               /\ UNCHANGED <<stored, record, told, settledElsewhere>>
            \/ op.stage = "reput" /\ UNCHANGED <<stored, current>> /\ told' /\ op' = NoOp
            \/ current' /\ op'.stage = "reput" /\ stored' = stored
            \/ /\ op.stage = "read" /\ ~current /\ current' /\ op'.stage = "put" /\ stored' = stored
               /\ op'.job = op.job /\ op'.attempt = op.attempt + 1
               /\ UNCHANGED <<told, settledElsewhere>> /\ ~isSettledElsewhere(stored.status)
               /\ record'.status = StatusAfter(op.job, stored.status, settledElsewhere)
            \/ /\ op.stage = "read" /\ ~current /\ current' /\ op' = NoOp /\ stored' = stored
               /\ told' = told /\ ~isSettledElsewhere(stored.status) /\ op.attempt = MaxRetries
            \/ current' /\ op' = NoOp /\ told' /\ stored' = stored
<1>0. /\ MeetsOnlySettlers /\ busy
      /\ UNCHANGED <<chain, owner, disowned, settler, forces, walks>>
  BY StaysMet, StoreCallMoves
<1>1. CASE PutLands
  BY <1>0, <1>1 DEF PutLands, Done
<1>2. CASE PutConflicts
  BY <1>0, <1>2 DEF PutConflicts, storeVars, TypeOK, Op
<1>3. CASE ReputConflicts
  BY <1>0, <1>3 DEF ReputConflicts, storeVars, Done
<1>4. CASE PutThrows \/ ReadFails
  BY <1>4, NoCallThrows DEF Settling
<1>5. CASE Reapply
  BY <1>0, <1>5, ReapplyFields, AdoptFields
<1>6. CASE Retry
  <2>1. ~current /\ ~isSettledElsewhere(stored.status)
    BY <1>6, RetryFields, AdoptFields DEF Ordered, Stages, isSettledElsewhere
  <2> QED
    BY <1>0, <1>6, <2>1, RetryFields, AdoptFields
<1>7. CASE GiveUp
  <2>1. ~current /\ ~isSettledElsewhere(stored.status)
    BY <1>7, GiveUpFields, AdoptFields DEF Ordered, Stages, isSettledElsewhere
  <2> QED
    BY <1>0, <1>7, <2>1, GiveUpFields, AdoptFields
<1>8. CASE RefuseInactive
  BY <1>0, <1>8, RefuseFields, AdoptFields
<1> QED
  BY <1>1, <1>2, <1>3, <1>4, <1>5, <1>6, <1>7, <1>8 DEF StoreCall

(* Where `execute` goes. *)
LEMMA OwnerThen ==
  ASSUME TypeOK, OwnerStep
  PROVE  /\ UNCHANGED <<stored, record, current, told, settledElsewhere, op, settler, met,
                        faults, forces, disowned>>
         /\ \/ owner = "working" /\ owner' = "marking" /\ walks' = walks /\ Len(chain') > 0
            \/ /\ owner = "marking" /\ owner' = "walking" /\ walks' = walks + 1
               /\ atRest /\ ~told /\ ~disowned
            \/ owner' \notin {"working", "marking"} /\ walks' = walks
<1>0. UNCHANGED <<stored, record, current, told, settledElsewhere, op, settler, met, faults,
                  forces, disowned>>
  BY OwnerMoves, OwnerQueues
<1>1. CASE Stops \/ Finishes
  BY <1>0, <1>1 DEF Stops, Finishes, sharedVars
<1>2. CASE Cancels
  <2>1. CASE cancelLock = "free"
    <3>1. owner = "working" /\ owner' = "marking" /\ walks' = walks
          /\ chain' = Append(chain, RunStatus("cancelling"))
      BY <1>2, <2>1 DEF Cancels, bodiesEnded, Queue
    <3>2. Len(chain') > 0
      BY <3>1, Appended, JobFacts DEF TypeOK
    <3> QED
      BY <1>0, <3>1, <3>2
  <2>2. CASE cancelLock # "free"
    BY <1>0, <1>2, <2>2 DEF Cancels
  <2> QED
    BY <2>1, <2>2
<1>3. CASE Walks
  BY <1>0, <1>3 DEF Walks, quiet, atRest, busy
<1>4. CASE WalkEnds \/ Closes \/ Drains
  BY <1>0, <1>4 DEF WalkEnds, Closes, Drains, sharedVars
<1> QED
  BY <1>1, <1>2, <1>3, <1>4 DEF OwnerStep

LEMMA NoticedKept ==
  ASSUME TypeOK, Ordered, Settling, Next
  PROVE  Noticed'
<1> SUFFICES ASSUME MeetsOnlySettlers', ~told', owner' \in {"working", "marking"},
                    owner' = "working" => isSettledElsewhere(stored'.status),
                    owner' = "marking" => stored'.status \in Terminal \/ walks' > 0
             PROVE  /\ ~current' \/ op'.stage = "reput"
                    /\ owner' = "marking" /\ atRest' => disowned'
  BY DEF Noticed
<1> USE DEF Settling
<1>0. /\ MeetsOnlySettlers /\ walks \in Nat
      /\ \A s \in Terminal : isSettledElsewhere(s)
  BY StaysMet DEF TypeOK, isSettledElsewhere, Terminal
<1>1. CASE Drop \/ Begin
  <2>1. ~current \/ op.stage = "reput"
    BY <1>0, <1>1, HeadLeaves DEF Noticed
  <2>2. owner = "marking" /\ Len(chain') = 0 /\ ~busy' => disowned
    <3>1. owner = "marking" /\ Len(chain') = 0 => chain[1].kind = "status"
      BY <1>1, HeadLeaves DEF Ordered, Queued
    <3>2. ~busy' => Drops(chain[1])
      BY <1>1, HeadLeaves DEF busy
    <3> QED
      BY <3>1, <3>2 DEF Drops
  <2> QED
    BY <1>1, <2>1, <2>2, HeadLeaves DEF busy, atRest
<1>2. CASE StoreCall
  <2>0. owner' = owner /\ walks' = walks /\ disowned' = disowned /\ chain' = chain
    BY <1>2, CallsThen
  <2>1. CASE op.stage \in {"put", "reput"} /\ current /\ stored' = record /\ ~told /\ op.stage = "put"
    <3>1. ~settledElsewhere
      BY <1>0, <2>1 DEF Learned
    <3>2. owner # "working"
      BY <2>0, <2>1, <3>1 DEF Learned
    <3>3. record.status \notin Terminal
      BY <2>0, <3>1, <3>2 DEF Learned
    <3> QED
      BY <1>0, <2>0, <2>1, <3>2, <3>3 DEF Noticed
  <2>2. CASE ~current' /\ op'.stage = "read"
    BY <2>2 DEF atRest, busy
  <2>3. CASE op'.stage = "reput"
    BY <2>3 DEF atRest, busy
  <2>4. CASE stored' = stored /\ ~isSettledElsewhere(stored.status)
    BY <1>0, <2>0, <2>4 DEF WalkShows
  <2> QED
    BY <1>2, <2>1, <2>2, <2>3, <2>4, CallsThen
<1>3. CASE (\E f \in Note \cup Intent : Ask(f)) \/ LosesLease \/ Stopped
  <2>1. UNCHANGED <<stored, current, op, told, owner, walks>> /\ (disowned => disowned')
        /\ (atRest' => atRest)
    BY <1>3, OwnerMoves, OwnerKeeps
  <2> QED
    BY <1>0, <2>1 DEF Noticed
<1>4. CASE OwnerStep
  <2>1. UNCHANGED <<stored, current, op, told>> /\ owner = "working" /\ owner' = "marking"
        /\ walks' = walks /\ Len(chain') > 0
    BY <1>4, OwnerThen
  <2>2. isSettledElsewhere(stored.status)
    BY <1>0, <2>1 DEF WalkShows
  <2> QED
    BY <1>0, <2>1, <2>2 DEF Noticed, atRest
<1>5. CASE Others
  <2>0. UNCHANGED <<told, op, chain, owner, disowned>>
    BY <1>5, OthersMove
  <2>1. CASE owner = "working"
    <3>1. ~current' \/ (current' = current /\ stored' = stored)
      BY <1>5, OthersThen
    <3> QED
      BY <1>0, <2>0, <2>1, <3>1 DEF Noticed
  <2>2. CASE owner = "marking"
    <3>1. settler \notin {"claimed", "marked", "walked"}
      BY <2>2 DEF Ordered, Locked
    <3>2. CASE /\ stored.status \in {"running", "suspended"} /\ stored'.status = stored.status
               /\ walks' = walks
      BY <1>0, <2>0, <2>2, <3>2 DEF WalkShows, isSettledElsewhere, Terminal
    <3>3. CASE UNCHANGED <<stored, current, walks>>
      BY <1>0, <2>0, <2>2, <3>3 DEF Noticed, atRest, busy
    <3> QED
      BY <1>5, <3>1, <3>2, <3>3, OthersThen
  <2> QED
    BY <2>0, <2>1, <2>2
<1> QED
  BY <1>1, <1>2, <1>3, <1>4, <1>5 DEF Next, WriterStep, StoreCall

LEMMA WalkShowsKept ==
  ASSUME Typed, Ordered, Settling, Next
  PROVE  WalkShows'
<1> SUFFICES ASSUME MeetsOnlySettlers'
             PROVE  /\ walks' > 0 /\ (owner' \in {"working", "marking"} \/ forces' < MaxRetries)
                         => isSettledElsewhere(stored'.status)
                    /\ settler' = "marked" => isSettledElsewhere(stored'.status) /\
                         (forces' < MaxRetries => walks' = 0)
                    /\ forces' < MaxRetries => walks' <= 1
  BY DEF WalkShows
<1> USE DEF Settling, Typed
<1>0. /\ MeetsOnlySettlers /\ walks \in Nat /\ forces \in Nat /\ MaxRetries \in Nat
      /\ \A s \in Terminal \cup {"cancelling"} : isSettledElsewhere(s)
      /\ ~isSettledElsewhere("running") /\ ~isSettledElsewhere("suspended")
  BY StaysMet, MaxRetriesAssumption, BoundsAssumption DEF TypeOK, isSettledElsewhere, Terminal
<1>1. CASE Drop \/ Begin
  BY <1>0, <1>1, HeadLeaves DEF WalkShows
<1>2. CASE StoreCall
  <2>1. /\ UNCHANGED <<owner, settler, forces, walks>>
        /\ stored' = stored \/ (current /\ stored' = record)
    BY <1>2, CallsThen
  <2>2. isSettledElsewhere(stored.status) => isSettledElsewhere(stored'.status)
    BY <1>0, <2>1 DEF Informed
  <2> QED
    BY <1>0, <2>1, <2>2 DEF WalkShows
<1>3. CASE (\E f \in Note \cup Intent : Ask(f)) \/ LosesLease \/ Stopped
  <2>1. UNCHANGED <<stored, owner, walks, settler, forces>>
    BY <1>3, OwnerMoves, OwnerKeeps
  <2> QED
    BY <1>0, <2>1 DEF WalkShows
<1>4. CASE OwnerStep
  <2>0. UNCHANGED <<stored, settler, forces>>
    BY <1>4, OwnerThen
  <2>1. CASE walks' = walks /\ (owner' \in {"working", "marking"} => owner = "working")
    BY <1>0, <2>0, <2>1 DEF WalkShows
  <2>2. CASE /\ owner = "marking" /\ owner' = "walking" /\ walks' = walks + 1
             /\ atRest /\ ~told /\ ~disowned
    <3>1. walks = 0
      BY <1>0, <2>2 DEF Noticed
    <3>2. forces < MaxRetries => isSettledElsewhere(stored.status)
      BY <1>0, <2>2 DEF MarkLands
    <3>3. settler # "marked"
      BY <2>2 DEF Ordered, Locked
    <3> QED
      BY <1>0, <2>0, <2>2, <3>1, <3>2, <3>3
  <2> QED
    BY <1>4, <2>1, <2>2, OwnerThen
<1>5. CASE Others
  <2>0. owner' = owner
    BY <1>5, OthersMove
  <2>1. CASE /\ stored.status \in {"running", "suspended"} /\ stored'.status = stored.status
             /\ forces' = forces + 1 /\ UNCHANGED <<settler, walks>>
    BY <1>0, <2>0, <2>1 DEF WalkShows
  <2>2. CASE /\ settler' = "marked" /\ UNCHANGED <<forces, walks>>
             /\ stored.status \notin Terminal \cup {"cancelling"} /\ stored'.status = "cancelling"
    <3>1. ~isSettledElsewhere(stored.status)
      BY <2>2 DEF TypeOK, Record, Status, isSettledElsewhere
    <3> QED
      BY <1>0, <2>0, <2>2, <3>1 DEF WalkShows
  <2>3. CASE /\ settler' = "done" /\ UNCHANGED <<forces, walks>>
             /\ stored'.status \in {"failed", "cancelled"}
    BY <1>0, <2>0, <2>3 DEF WalkShows, Terminal
  <2>4. CASE /\ settler = "marked" /\ settler' = "walked" /\ walks' = walks + 1
             /\ UNCHANGED <<stored, forces>>
    BY <1>0, <2>0, <2>4 DEF WalkShows
  <2>5. CASE settler' # "marked" /\ UNCHANGED <<stored, forces, walks>>
    BY <1>0, <2>0, <2>5 DEF WalkShows
  <2> QED
    BY <1>5, <2>1, <2>2, <2>3, <2>4, <2>5, OthersThen
<1> QED
  BY <1>1, <1>2, <1>3, <1>4, <1>5 DEF Next, WriterStep, StoreCall

LEMMA AttemptsKept ==
  ASSUME TypeOK, Ordered, Settling, Next
  PROVE  Attempts'
<1> SUFFICES ASSUME MeetsOnlySettlers' PROVE Attempts'
  BY DEF Attempts
<1> USE DEF Settling
<1>0. /\ MeetsOnlySettlers /\ op.attempt \in Nat /\ forces \in Nat /\ NoOp.stage = "idle"
      /\ Attempts
      /\ \A s \in Terminal \cup {"cancelling"} : isSettledElsewhere(s)
  BY StaysMet, MaxRetriesAssumption, BoundsAssumption
  DEF TypeOK, Op, NoOp, isSettledElsewhere, Terminal
<1>1. CASE Drop \/ Begin
  <2>1. UNCHANGED <<stored, current, forces>> /\ op.stage = "idle"
        /\ (op' = op \/ (op'.stage = "put" /\ op'.attempt = 1))
    BY <1>1, HeadLeaves DEF busy
  <2> QED
    BY <1>0, <2>1 DEF Attempts
<1>2. CASE StoreCall
  <2>0. forces' = forces
    BY <1>2, CallsThen
  <2>1. CASE current' /\ op' = NoOp
    BY <1>0, <2>1 DEF Attempts
  <2>2. CASE /\ op.stage = "put" /\ ~current /\ ~current' /\ op'.stage = "read"
             /\ op'.attempt = op.attempt /\ stored' = stored
    BY <1>0, <2>0, <2>2 DEF Attempts
  <2>3. CASE op.stage = "reput" /\ UNCHANGED <<stored, current>> /\ op' = NoOp
    BY <1>0, <2>0, <2>3 DEF Attempts
  <2>4. CASE current' /\ op'.stage = "reput"
    BY <2>4 DEF Attempts
  <2>5. CASE /\ op.stage = "read" /\ ~current /\ current' /\ op'.stage = "put"
             /\ op'.attempt = op.attempt + 1 /\ ~isSettledElsewhere(stored.status)
    BY <1>0, <2>0, <2>5 DEF Attempts
  <2> QED
    BY <1>2, <2>1, <2>2, <2>3, <2>4, <2>5, CallsThen
<1>3. CASE OwnerStep \/ (\E f \in Note \cup Intent : Ask(f)) \/ LosesLease \/ Stopped
  <2>1. UNCHANGED <<stored, current, op, forces>>
    BY <1>3, OwnerMoves
  <2> QED
    BY <1>0, <2>1 DEF Attempts
<1>4. CASE Others
  <2>0. op' = op
    BY <1>4, OthersMove
  <2>1. CASE forces' = forces + 1
    BY <1>0, <2>0, <2>1 DEF Attempts
  <2>2. CASE isSettledElsewhere(stored'.status) /\ forces' = forces /\ ~current'
    BY <1>0, <2>0, <2>2 DEF Attempts
  <2>3. CASE UNCHANGED <<stored, current, forces>>
    BY <1>0, <2>0, <2>3 DEF Attempts
  <2> QED
    BY <1>0, <1>4, <2>1, <2>2, <2>3, OthersThen DEF Terminal
<1> QED
  BY <1>1, <1>2, <1>3, <1>4 DEF Next, WriterStep, StoreCall

LEMMA MarkLandsKept ==
  ASSUME TypeOK, Ordered, Settling, Next
  PROVE  MarkLands'
<1> DEFINE marks == op.stage \in {"put", "read"} /\ op.job.kind = "status" /\ op.job.status = "cancelling"
<1> USE DEF Settling
<1>1. (marks => settledElsewhere \/ record.status = "cancelling")'
  <2> SUFFICES ASSUME marks' PROVE settledElsewhere' \/ record'.status = "cancelling"
    OBVIOUS
  <2>0. NoOp.stage = "idle" /\ op.job \in Job
        /\ (marks => settledElsewhere \/ record.status = "cancelling")
    BY DEF NoOp, MarkLands, TypeOK, Op
  <2>1. CASE Drop \/ Begin
    BY <2>1, HeadLeaves DEF busy, StatusAfter
  <2>2. CASE PutLands \/ ReputConflicts \/ PutThrows \/ ReadFails \/ GiveUp \/ RefuseInactive
    BY <2>0, <2>2 DEF PutLands, ReputConflicts, PutThrows, ReadFails, Fail, GiveUp,
       RefuseInactive, Done
  <2>3. CASE PutConflicts
    <3>1. op.stage = "put" /\ op'.job = op.job /\ UNCHANGED <<record, settledElsewhere>>
      BY <2>3 DEF PutConflicts, TypeOK, Op
    <3> QED
      BY <2>0, <3>1
  <2>4. CASE Reapply
    BY <2>4, ReapplyFields
  <2>5. CASE Retry
    BY <2>5, RetryFields DEF StatusAfter
  <2>6. CASE OwnerStep \/ (\E f \in Note \cup Intent : Ask(f)) \/ LosesLease \/ Stopped
    BY <2>0, <2>6, OwnerMoves
  <2>7. CASE Others
    BY <2>0, <2>7, OthersMove
  <2> QED
    BY <2>1, <2>2, <2>3, <2>4, <2>5, <2>6, <2>7 DEF Next, WriterStep
<1>2. ASSUME MeetsOnlySettlers', forces' < MaxRetries, owner' = "marking", atRest', ~told',
             ~disowned'
      PROVE  isSettledElsewhere(stored'.status)
  <2>0. /\ MeetsOnlySettlers /\ NoOp.stage = "idle" /\ op.attempt \in Nat /\ forces \in Nat
        /\ MaxRetries \in Nat
    BY <1>2, StaysMet, MaxRetriesAssumption, BoundsAssumption DEF NoOp, TypeOK, Op
  <2>1. CASE Drop \/ Begin
    <3>1. owner = "marking" /\ Len(chain') = 0 => chain[1].kind = "status"
      BY <2>1, HeadLeaves DEF Ordered, Queued
    <3>2. ~busy' => Drops(chain[1])
      BY <2>1, HeadLeaves DEF busy
    <3>3. owner' = owner /\ disowned' = disowned
      BY <2>1, HeadLeaves
    <3> QED
      BY <1>2, <3>1, <3>2, <3>3 DEF Drops, atRest
  <2>2. CASE StoreCall
    <3>0. /\ UNCHANGED <<chain, owner, disowned, forces>> /\ busy
      BY <1>2, <2>2, CallsThen
    <3>1. Len(chain) = 0 /\ op.job.kind = "status" /\ op.job.status = "cancelling" /\ ~busy'
      BY <1>2, <2>2, <3>0, StatusesAhead DEF Ordered, Queued, atRest
    <3>2. CASE op.stage = "put" /\ stored' = record /\ ~told
      <4>1. ~settledElsewhere
        BY <2>0, <3>2 DEF Learned
      <4>2. record.status = "cancelling"
        BY <3>1, <3>2, <4>1 DEF MarkLands
      <4> QED
        BY <3>2, <4>2 DEF isSettledElsewhere
    <3>3. CASE /\ op.stage = "read" /\ ~current /\ ~isSettledElsewhere(stored.status)
               /\ op.attempt = MaxRetries
      BY <1>2, <2>0, <3>0, <3>3 DEF Attempts
    <3> QED
      BY <1>2, <2>2, <3>1, <3>2, <3>3, CallsThen DEF busy
  <2>3. CASE (\E f \in Note \cup Intent : Ask(f)) \/ LosesLease \/ Stopped
    <3>1. UNCHANGED <<stored, told, owner, forces>> /\ ~disowned /\ atRest
      BY <1>2, <2>3, OwnerMoves, OwnerKeeps
    <3> QED
      BY <1>2, <2>0, <3>1 DEF MarkLands
  <2>4. CASE OwnerStep
    BY <1>2, <2>4, OwnerThen DEF atRest
  <2>5. CASE Others
    <3>0. UNCHANGED <<told, op, chain, owner, disowned>>
      BY <2>5, OthersMove
    <3>1. settler \notin {"claimed", "marked", "walked"}
      BY <1>2, <3>0 DEF Ordered, Locked
    <3>2. stored'.status = stored.status /\ (forces' = forces \/ forces' = forces + 1)
      BY <1>2, <2>5, <3>1, OthersThen
    <3>3. forces < MaxRetries /\ atRest
      BY <1>2, <2>0, <3>0, <3>2 DEF atRest, busy
    <3>4. isSettledElsewhere(stored.status)
      BY <1>2, <2>0, <3>0, <3>3 DEF MarkLands
    <3> QED
      BY <3>2, <3>4
  <2> QED
    BY <2>1, <2>2, <2>3, <2>4, <2>5 DEF Next, WriterStep, StoreCall
<1> QED
  BY <1>1, <1>2 DEF MarkLands

LEMMA SettlingKept ==
  ASSUME Typed, Ordered, Active, Settling, Next
  PROVE  Settling'
<1>1. Present' /\ Learned' /\ Informed'
  BY PresentKept, LearnedKept, InformedKept DEF Settling, Typed
<1>2. Unsettled' /\ Noticed' /\ WalkShows' /\ Attempts' /\ MarkLands'
  BY UnsettledKept, NoticedKept, WalkShowsKept, AttemptsKept, MarkLandsKept DEF Typed
<1> QED
  BY <1>1, <1>2 DEF Settling
-----------------------------------------------------------------------------
(* No row is lost without a word.                                           *)

(* A record that does not tell of every success says so. *)
TellsOrSays(r) == r.degraded \/ noted \subseteq r.facts

(* It holds of the record in memory, of the one a strict write would go     *)
(* back to, and of what a conflict would have this process adopt.           *)
Honest ==
  /\ TellsOrSays(record)
  /\ lossKnown \/ noted \subseteq stored.facts \cup FactOf(op.job)
  /\ op.job.kind = "intent" => TellsOrSays(op.before)

LEMMA HonestInit == Init => Honest
  BY DEF Init, Honest, TellsOrSays, lossKnown, NoOp, Open

LEMMA HonestByCalls ==
  ASSUME TypeOK, Active, Honest, StoreCall
  PROVE  Honest'
<1>0. /\ noted' = noted /\ noted \subseteq Note /\ FactOf(NoOp.job) = {} /\ NoOp.job.kind = "open"
      /\ op.job \in Job /\ record \in Record /\ op.before \in Record
  BY StoreCallMoves DEF TypeOK, Op, FactOf, NoOp, Open
<1>a. op.job.kind = "intent" => \A F : noted \subseteq F \cup FactOf(op.job) => noted \subseteq F
  <2>1. op.job.kind = "intent" => FactOf(op.job) = {op.job.fact} /\ op.job.fact \in Intent
    BY <1>0, JobKinds DEF FactOf
  <2> QED
    BY <1>0, <2>1, FactsAssumption
<1>1. CASE PutLands
  <2>1. stored' = record /\ record' = record /\ op' = NoOp
    BY <1>1 DEF PutLands, Done
  <2> QED
    BY <1>0, <2>1 DEF Honest, TellsOrSays, lossKnown
<1>2. CASE PutConflicts
  <2>1. UNCHANGED <<stored, record, retainedPending>> /\ op'.job = op.job /\ op'.before = op.before
    BY <1>2 DEF PutConflicts, storeVars, TypeOK, Op
  <2> QED
    BY <1>0, <2>1 DEF Honest, TellsOrSays, lossKnown
<1>3. CASE ReputConflicts
  <2>1. record'.degraded = TRUE /\ op' = NoOp
    BY <1>0, <1>3 DEF ReputConflicts, Done, Record
  <2> QED
    BY <1>0, <2>1 DEF Honest, TellsOrSays, lossKnown
<1>4. CASE PutThrows \/ ReadFails
  <2>1. /\ record' = IF op.job.kind = "intent" THEN op.before ELSE record
        /\ retainedPending' = (retainedPending \/ op.job.kind # "intent") /\ op' = NoOp
        /\ stored' = record \/ stored' = stored
    BY <1>4 DEF PutThrows, ReadFails, Fail, Done, storeVars
  <2>2. CASE op.job.kind # "intent"
    <3>1. record' = record /\ retainedPending'
      BY <2>1, <2>2
    <3> QED
      BY <1>0, <2>1, <3>1 DEF Honest, TellsOrSays, lossKnown
  <2>3. CASE op.job.kind = "intent"
    <3>1. record' = op.before /\ (retainedPending => retainedPending')
      BY <2>1, <2>3
    <3>2. TellsOrSays(record)' /\ record'.degraded = record.degraded
      BY <1>0, <2>3, <3>1 DEF Honest, TellsOrSays, Active
    <3>3. CASE stored' = record
      BY <1>0, <2>1, <3>2, <3>3 DEF Honest, TellsOrSays, lossKnown
    <3>4. CASE stored' = stored
      <4>1. lossKnown \/ noted \subseteq stored.facts
        BY <1>a, <2>3 DEF Honest
      <4> QED
        BY <1>0, <2>1, <3>1, <3>2, <3>4, <4>1 DEF Honest, lossKnown
    <3> QED
      BY <2>1, <3>3, <3>4
  <2> QED
    BY <2>2, <2>3
<1>5. CASE Reapply
  <2>1. /\ record'.facts = stored.facts \cup FactOf(op.job) /\ record'.degraded = lossKnown
        /\ stored' = stored /\ op'.job = op.job /\ op.job.kind # "intent"
    BY <1>5, ReapplyFields, AdoptFields
  <2> QED
    BY <1>0, <2>1 DEF Honest, TellsOrSays, lossKnown
<1>6. CASE Retry
  <2>1. /\ record'.facts = stored.facts \cup FactOf(op.job) /\ record'.degraded = lossKnown
        /\ stored' = stored /\ op'.job = op.job
        /\ op'.before.facts = stored.facts /\ op'.before.degraded = lossKnown
    BY <1>6, RetryFields, AdoptFields
  <2>2. op.job.kind = "intent" => lossKnown \/ noted \subseteq stored.facts
    BY <1>a DEF Honest
  <2> QED
    BY <1>0, <2>1, <2>2 DEF Honest, TellsOrSays, lossKnown
<1>7. CASE GiveUp
  <2>1. record'.degraded = TRUE /\ op' = NoOp
    BY <1>7, GiveUpFields
  <2> QED
    BY <1>0, <2>1 DEF Honest, TellsOrSays, lossKnown
<1>8. CASE RefuseInactive
  <2>1. /\ record'.facts = stored.facts /\ record'.degraded = lossKnown /\ stored' = stored
        /\ op' = NoOp /\ op.job.kind = "intent"
    BY <1>8, RefuseFields, AdoptFields
  <2>2. lossKnown \/ noted \subseteq stored.facts
    BY <1>a, <2>1 DEF Honest
  <2> QED
    BY <1>0, <2>1, <2>2 DEF Honest, TellsOrSays, lossKnown
<1> QED
  BY <1>1, <1>2, <1>3, <1>4, <1>5, <1>6, <1>7, <1>8 DEF StoreCall

LEMMA HonestKept ==
  ASSUME TypeOK, Ordered, Active, Honest, Next
  PROVE  Honest'
<1>1. CASE Drop \/ Begin
  <2>0. UNCHANGED <<stored, retainedPending>> /\ FactOf(op.job) = {} /\ chain[1] \in Job
        /\ op.job.kind = "open"
    BY <1>1, HeadLeaves DEF FactOf
  <2>1. CASE op' = op /\ record' = record /\ noted' = noted
    BY <2>0, <2>1 DEF Honest, TellsOrSays, lossKnown
  <2>2. CASE /\ op'.job = chain[1] /\ record'.facts = record.facts \cup FactOf(chain[1])
             /\ record'.degraded = record.degraded /\ op'.before = record
             /\ noted' = IF chain[1].kind = "row" THEN noted \cup {chain[1].fact} ELSE noted
    <3>1. /\ noted' \subseteq noted \cup FactOf(chain[1])
          /\ chain[1].kind = "intent" => noted' = noted
      BY <2>2 DEF FactOf
    <3> QED
      BY <2>0, <2>2, <3>1 DEF Honest, TellsOrSays, lossKnown
  <2> QED
    BY <1>1, <2>1, <2>2, HeadLeaves
<1>2. CASE StoreCall
  BY <1>2, HonestByCalls
<1>3. CASE OwnerStep \/ (\E f \in Note \cup Intent : Ask(f)) \/ LosesLease \/ Stopped
  BY <1>3, OwnerMoves DEF Honest, TellsOrSays, lossKnown
<1>4. CASE Others
  <2>1. UNCHANGED <<record, retainedPending, op, noted>> /\ stored'.facts = stored.facts
        /\ stored'.degraded = stored.degraded
    BY <1>4, OthersMove, OthersFields
  <2> QED
    BY <2>1 DEF Honest, TellsOrSays, lossKnown
<1> QED
  BY <1>1, <1>2, <1>3, <1>4 DEF Next, WriterStep, StoreCall
-----------------------------------------------------------------------------
(* A run that this process ended by itself.                                 *)

Ended == {"succeeded", "suspended", "cancelled"}
Mine == settler = "idle" /\ holder = "owner"
RowsDone == owner \in {"draining", "stopped"} /\ Len(chain) = 0 /\ op.job.kind # "row"
(* Every success was compensated, or the record says it may not tell of all. *)
Unwound(r) == r.degraded \/ noted \subseteq unwound

Takes == /\ "takeover" \in met => holder = "other"
         /\ disowned => holder = "other"

(* No row comes after the ending, so the record that was closed is complete. *)
EndedLast ==
  /\ Mine /\ stored.status \in Ended => RowsDone /\ TellsOrSays(stored)
  /\ Mine /\ record.status \in Ended => RowsDone

(* From the walk on, the rollback covers every success.                     *)
RolledBack ==
  /\ ~disowned /\ owner \in {"walking", "reporting"} => Unwound(record)
  /\ Mine /\ (cancelledQueued \/ cancelledNow) => Unwound(record)
  /\ Mine /\ stored.status = "cancelled" => Unwound(stored)
  /\ Mine /\ record.status = "cancelled" => Unwound(record)

Ending == Honest /\ Takes /\ EndedLast /\ RolledBack

LEMMA EndingInit == Init => Ending
<1> SUFFICES ASSUME Init PROVE Ending
  OBVIOUS
<1>1. record.status = "running" /\ stored.status = "running" /\ owner = "working"
      /\ ~disowned /\ met = {}
  BY DEF Init, NoOp
<1>2. ~cancelledQueued /\ ~cancelledNow
  BY JobFacts DEF Init, NoOp, cancelledQueued, cancelledNow
<1> QED
  BY <1>1, <1>2, HonestInit DEF Ending, Takes, EndedLast, RolledBack, Ended

LEMMA TakesKept ==
  ASSUME TypeOK, Takes, Next
  PROVE  Takes' /\ (Mine' => Mine)
<1> USE DEF Takes, Mine
<1>1. CASE Drop \/ Begin
  BY <1>1 DEF Drop, Begin, otherVars, ownerVars
<1>2. CASE StoreCall
  BY <1>2, StoreCallMoves
<1>3. CASE OwnerStep
  BY <1>3, OwnerThen, OwnerMoves
<1>4. CASE (\E f \in Note \cup Intent : Ask(f)) \/ LosesLease \/ Stopped
  <2>1. UNCHANGED <<settler, holder, met>>
    BY <1>4, OwnerMoves
  <2>2. disowned' => disowned \/ holder = "other"
    BY <1>4 DEF Ask, LosesLease, Stopped, vars, ownerVars
  <2> QED
    BY <2>1, <2>2
<1>5. CASE Others
  <2>1. disowned' = disowned
    BY <1>5, OthersMove
  <2>2. \/ holder' = holder /\ met' = met
        \/ holder' = "other"
        \/ holder' = holder /\ \E t \in {"settle", "settlerDies", "prune"} : met' = met \cup {t}
    BY <1>5 DEF Others, ForceTarget, SettlerClaims, SettlerMarks, SettlerSkipsWalk, SettlerWalks,
       SettlerFinalizes, SettlerDies, Reap, Resume, Prune, Happens
  <2>3. settler' = "idle" => settler = "idle"
    BY <1>5 DEF Others, ForceTarget, SettlerClaims, SettlerMarks, SettlerSkipsWalk, SettlerWalks,
       SettlerFinalizes, SettlerDies, Reap, Resume, Prune, sharedVars
  <2> QED
    BY <2>1, <2>2, <2>3 DEF TypeOK
<1> QED
  BY <1>1, <1>2, <1>3, <1>4, <1>5 DEF Next, WriterStep, StoreCall

(* Nobody else then writes a status over the stored one. *)
LEMMA OthersMine ==
  ASSUME TypeOK, Takes, Others, Mine'
  PROVE  stored'.status = stored.status /\ stored'.facts = stored.facts
         /\ stored'.degraded = stored.degraded
<1>0. stored.status \in Status /\ \A st \in Status : [stored EXCEPT !.status = st].status = st
  BY DEF TypeOK, Record
<1>1. CASE ForceTarget
  BY <1>0, <1>1 DEF ForceTarget, Overwrites
<1>2. CASE SettlerClaims \/ SettlerSkipsWalk \/ SettlerWalks \/ SettlerDies \/ Prune
  BY <1>2 DEF SettlerClaims, SettlerSkipsWalk, SettlerWalks, SettlerDies, Prune, storeVars
<1>3. CASE SettlerMarks \/ SettlerFinalizes \/ Reap
  BY <1>3 DEF SettlerMarks, SettlerFinalizes, Reap, Mine
<1>4. CASE Resume
  BY <1>4 DEF Resume, Mine, Takes
<1> QED
  BY <1>1, <1>2, <1>3, <1>4, OthersFields DEF Others

LEMMA EndedLastKept ==
  ASSUME TypeOK, Ordered, Active, Ending, Next
  PROVE  EndedLast'
<1> SUFFICES ASSUME Mine'
             PROVE  /\ stored'.status \in Ended => RowsDone' /\ TellsOrSays(stored)'
                    /\ record'.status \in Ended => RowsDone'
  BY DEF EndedLast
<1> USE DEF Ending
<1>0. /\ Mine /\ NoOp.job.kind = "open" /\ "running" \notin Ended /\ "cancelling" \notin Ended
      /\ stored.status \in Ended => RowsDone /\ TellsOrSays(stored)
      /\ record.status \in Ended => RowsDone
  BY TakesKept DEF EndedLast, NoOp, Open, Ended
<1>1. CASE Drop \/ Begin
  <2>1. ~RowsDone /\ stored' = stored
    BY <1>1, HeadLeaves DEF RowsDone
  <2>2. stored.status \notin Ended /\ record.status \notin Ended
    BY <1>0, <2>1
  <2>3. record'.status \in Ended => RowsDone'
    <3>1. CASE op' = op /\ record' = record
      BY <2>2, <3>1
    <3>2. CASE op'.job = chain[1] /\
               record'.status = StatusAfter(chain[1], record.status, settledElsewhere)
      <4> SUFFICES ASSUME record'.status \in Ended PROVE RowsDone'
        OBVIOUS
      <4>1. chain[1].kind = "status" /\ chain[1].status # "cancelling"
        BY <1>0, <2>2, <3>2 DEF StatusAfter
      <4>2. owner' = "draining" /\ Len(chain') = 0
        BY <1>1, <4>1, HeadLeaves DEF Fits
      <4> QED
        BY <3>2, <4>1, <4>2 DEF RowsDone
    <3> QED
      BY <1>1, <3>1, <3>2, HeadLeaves
  <2> QED
    BY <2>1, <2>2, <2>3
<1>2. CASE StoreCall
  <2>0. /\ UNCHANGED <<chain, owner, noted>>
        /\ op' = NoOp \/ op'.job = op.job
    BY <1>2, StoreCallMoves
  <2>1. RowsDone => RowsDone'
    BY <1>0, <2>0 DEF RowsDone
  <2>2. CASE stored' = stored /\ record'.status \in {record.status, stored.status, "running"}
    BY <1>0, <2>0, <2>1, <2>2 DEF TellsOrSays
  <2>3. CASE stored' = record /\ record'.status \in {record.status, "running"}
    BY <1>0, <2>0, <2>1, <2>3 DEF TellsOrSays, Honest
  <2>4. CASE PutLands
    BY <2>3, <2>4 DEF PutLands
  <2>5. CASE PutConflicts
    BY <2>2, <2>5 DEF PutConflicts, storeVars
  <2>6. CASE ReputConflicts
    BY <2>2, <2>6 DEF ReputConflicts, storeVars, TypeOK, Record
  <2>7. CASE PutThrows \/ ReadFails
    <3>1. /\ record' = IF op.job.kind = "intent" THEN op.before ELSE record
          /\ stored' = stored \/ stored' = record
      BY <2>7 DEF PutThrows, ReadFails, Fail, storeVars
    <3>2. record'.status \in {record.status, "running"}
      BY <3>1 DEF Active
    <3> QED
      BY <2>2, <2>3, <3>1, <3>2
  <2>8. CASE Reapply \/ GiveUp \/ RefuseInactive
    BY <2>2, <2>8, ReapplyFields, GiveUpFields, RefuseFields, AdoptFields
  <2>9. CASE Retry
    <3>1. stored' = stored /\ record'.status = StatusAfter(op.job, stored.status, settledElsewhere)
          /\ op'.job = op.job
      BY <2>9, RetryFields, AdoptFields
    <3>2. CASE record'.status = stored.status
      BY <2>2, <3>1, <3>2
    <3>3. CASE record'.status # stored.status
      <4>1. op.job.kind = "status" /\ record'.status = op.job.status
        BY <3>1, <3>3 DEF StatusAfter
      <4>2. record'.status \in Ended => RowsDone'
        BY <1>0, <1>2, <2>0, <3>1, <4>1, StatusesAhead DEF RowsDone
      <4> QED
        BY <1>0, <2>0, <2>1, <3>1, <4>2 DEF TellsOrSays
    <3> QED
      BY <3>2, <3>3
  <2> QED
    BY <1>2, <2>4, <2>5, <2>6, <2>7, <2>8, <2>9 DEF StoreCall
<1>3. CASE OwnerStep \/ (\E f \in Note \cup Intent : Ask(f)) \/ LosesLease \/ Stopped
  <2>0. UNCHANGED <<stored, record, op, noted>>
    BY <1>3, OwnerMoves
  <2>1. RowsDone => owner' \in {"draining", "stopped"} /\ chain' = chain
    BY <1>3 DEF RowsDone, OwnerStep, Stops, Finishes, Cancels, Walks, WalkEnds, Closes, Drains,
       bodiesEnded, Ask, LosesLease, Stopped, vars, writerVars, ownerVars
  <2> QED
    BY <1>0, <2>0, <2>1 DEF RowsDone, TellsOrSays
<1>4. CASE Others
  <2>1. UNCHANGED <<record, op, chain, owner, noted>>
    BY <1>4, OthersMove
  <2> QED
    BY <1>0, <1>4, <2>1, OthersMine DEF RowsDone, TellsOrSays
<1> QED
  BY <1>1, <1>2, <1>3, <1>4 DEF Next, WriterStep, StoreCall

LEMMA RolledBackKept ==
  ASSUME TypeOK, Ordered, Active, Ending, Next
  PROVE  RolledBack'
<1> DEFINE R1 == ~disowned /\ owner \in {"walking", "reporting"} => Unwound(record)
           R2 == Mine /\ (cancelledQueued \/ cancelledNow) => Unwound(record)
           R3 == Mine /\ stored.status = "cancelled" => Unwound(stored)
           R4 == Mine /\ record.status = "cancelled" => Unwound(record)
<1> SUFFICES R1' /\ R2' /\ R3' /\ R4'
  BY DEF RolledBack
<1> USE DEF Ending
<1>0. /\ R1 /\ R2 /\ R3 /\ R4 /\ (Mine' => Mine)
      /\ NoOp.job.kind = "open" /\ op.job \in Job /\ "cancelled" \in Ended
  BY TakesKept DEF RolledBack, NoOp, Open, TypeOK, Op, Ended
<1>1. CASE Drop \/ Begin
  <2>0. UNCHANGED <<stored, owner, disowned, unwound>> /\ record'.degraded = record.degraded
        /\ ~cancelledQueued'
    BY <1>1, HeadLeaves
  <2>1. chain[1].kind # "row" => noted' = noted
    BY <1>1, HeadLeaves
  <2>2. Mine' => stored.status # "cancelled" /\ record.status # "cancelled"
    BY <1>0, <1>1, HeadLeaves DEF EndedLast, RowsDone
  <2>3. R1'
    <3>1. owner \in {"walking", "reporting"} => noted' = noted
      BY <1>1, <2>1, HeadLeaves DEF Fits
    <3> QED
      BY <1>0, <2>0, <3>1 DEF Unwound
  <2>4. cancelledNow' => cancelledQueued /\ noted' = noted
    <3>1. cancelledNow' => cancelledQueued
      BY <1>1, HeadLeaves
    <3>2. op' = op => ~cancelledNow'
      BY <1>1, HeadLeaves DEF cancelledNow
    <3>3. op'.job = chain[1] /\ cancelledNow' => noted' = noted
      BY <2>1 DEF cancelledNow
    <3> QED
      BY <1>1, <3>1, <3>2, <3>3, HeadLeaves
  <2>5. R2'
    BY <1>0, <2>0, <2>4 DEF Unwound
  <2>6. R4'
    <3>1. Mine' /\ record'.status = "cancelled" => cancelledNow'
      BY <1>0, <1>1, <2>2, HeadLeaves DEF StatusAfter, cancelledNow
    <3> QED
      BY <1>0, <2>0, <2>4, <3>1 DEF Unwound
  <2> QED
    BY <2>0, <2>2, <2>3, <2>5, <2>6
<1>2. CASE StoreCall
  <2>0. /\ UNCHANGED <<chain, owner, disowned, noted, unwound>>
        /\ cancelledNow' => cancelledNow
    BY <1>0, <1>2, StoreCallMoves DEF cancelledNow
  <2>1. cancelledQueued' => cancelledQueued
    BY <2>0 DEF cancelledQueued
  <2>2. CASE record'.degraded = record.degraded /\ stored' = stored
             /\ record'.status \in {record.status, "running"}
    BY <1>0, <2>0, <2>1, <2>2 DEF Unwound
  <2>3. CASE record'.degraded = record.degraded /\ stored' = record
             /\ record'.status \in {record.status, "running"}
    BY <1>0, <2>0, <2>1, <2>3 DEF Unwound
  <2>4. CASE /\ record.degraded \/ stored.degraded => record'.degraded
             /\ stored' = stored
             /\ record'.status = "cancelled" =>
                  cancelledNow \/ stored.status = "cancelled" \/ record.status = "cancelled"
    BY <1>0, <2>0, <2>1, <2>4 DEF Unwound
  <2>5. CASE PutLands
    BY <2>3, <2>5 DEF PutLands
  <2>6. CASE PutConflicts
    BY <2>2, <2>6 DEF PutConflicts, storeVars
  <2>7. CASE ReputConflicts
    BY <2>4, <2>7 DEF ReputConflicts, storeVars, TypeOK, Record
  <2>8. CASE PutThrows \/ ReadFails
    <3>1. /\ record' = IF op.job.kind = "intent" THEN op.before ELSE record
          /\ stored' = stored \/ stored' = record
      BY <2>8 DEF PutThrows, ReadFails, Fail, storeVars
    <3>2. record'.status \in {record.status, "running"} /\ record'.degraded = record.degraded
      BY <3>1 DEF Active
    <3> QED
      BY <2>2, <2>3, <3>1, <3>2
  <2>9. CASE Reapply \/ GiveUp \/ RefuseInactive
    BY <2>4, <2>9, ReapplyFields, GiveUpFields, RefuseFields, AdoptFields DEF lossKnown
  <2>10. CASE Retry
    <3>1. /\ stored' = stored /\ record'.degraded = lossKnown
          /\ record'.status = StatusAfter(op.job, stored.status, settledElsewhere)
      BY <2>10, RetryFields, AdoptFields
    <3>2. record'.status = "cancelled" => cancelledNow \/ stored.status = "cancelled"
      BY <3>1 DEF StatusAfter, cancelledNow
    <3> QED
      BY <2>4, <3>1, <3>2 DEF lossKnown
  <2> QED
    BY <1>2, <2>5, <2>6, <2>7, <2>8, <2>9, <2>10 DEF StoreCall
<1>3. CASE (\E f \in Note \cup Intent : Ask(f)) \/ LosesLease \/ Stopped
  <2>1. UNCHANGED <<stored, record, op, noted, owner, unwound>> /\ (disowned => disowned')
        /\ (cancelledQueued' => cancelledQueued)
    BY <1>3, OwnerMoves, OwnerKeeps
  <2>2. cancelledNow' => cancelledNow
    BY <2>1 DEF cancelledNow
  <2> QED
    BY <1>0, <2>1, <2>2 DEF Unwound
<1>4. CASE OwnerStep
  <2>0. UNCHANGED <<stored, record, op, noted, disowned>>
    BY <1>4, OwnerMoves, OwnerThen
  <2>1. unwound \subseteq unwound'
    BY <1>4 DEF OwnerStep, Stops, Finishes, Cancels, Walks, WalkEnds, Closes, Drains, sharedVars
  <2>2. cancelledNow' => cancelledNow
    BY <2>0 DEF cancelledNow
  <2>3. Closes /\ ~disowned => Unwound(record)
    BY <1>0 DEF Closes
  <2>4. R2' /\ R3' /\ R4'
    BY <1>0, <1>4, <2>0, <2>1, <2>2, <2>3, CancelledQueues DEF Unwound
  <2>5. R1'
    <3>1. CASE Walks
      <4>1. owner' = "walking" /\ ~disowned => unwound' = unwound \cup (record.facts \cap Note)
        BY <3>1 DEF Walks
      <4>2. record.degraded \/ noted \subseteq record.facts
        BY DEF Honest, TellsOrSays
      <4>3. owner' \in {"walking", "draining"}
        BY <3>1 DEF Walks
      <4> QED
        BY <2>0, <4>1, <4>2, <4>3 DEF Unwound, TypeOK
    <3>2. CASE WalkEnds
      BY <1>0, <2>0, <2>1, <3>2 DEF WalkEnds, Unwound
    <3>3. CASE Stops \/ Finishes \/ Cancels \/ Closes \/ Drains
      BY <3>3 DEF Stops, Finishes, Cancels, Closes, Drains
    <3> QED
      BY <1>4, <3>1, <3>2, <3>3 DEF OwnerStep
  <2> QED
    BY <2>4, <2>5
<1>5. CASE Others
  <2>1. UNCHANGED <<record, op, chain, owner, disowned, noted>>
    BY <1>5, OthersMove
  <2>2. unwound \subseteq unwound'
    BY <1>5 DEF Others, ForceTarget, SettlerClaims, SettlerMarks, SettlerSkipsWalk, SettlerWalks,
       SettlerFinalizes, SettlerDies, Reap, Resume, Prune, sharedVars
  <2>3. (cancelledQueued' => cancelledQueued) /\ (cancelledNow' => cancelledNow)
    BY <2>1 DEF cancelledQueued, cancelledNow
  <2> QED
    BY <1>0, <1>5, <2>1, <2>2, <2>3, OthersMine DEF Unwound
<1> QED
  BY <1>1, <1>2, <1>3, <1>4, <1>5 DEF Next, WriterStep, StoreCall
-----------------------------------------------------------------------------
(* The inductive invariant, and what follows from it.                       *)

Inv == Typed /\ Ordered /\ Active /\ Recorded /\ Settling /\ Ending

LEMMA StutterKeeps == Inv /\ UNCHANGED vars => Inv'
<1> SUFFICES ASSUME Inv, UNCHANGED vars PROVE Inv'
  OBVIOUS
<1>0. UNCHANGED <<stored, there, record, current, settledElsewhere, disowned, retainedPending,
                  told, chain, op, owner, cancelLock, settler, holder, met, faults, forces,
                  noted, committed, refused, unwound, walks, todo>>
  BY DEF vars, writerVars, storeVars, ownerVars, otherVars, sharedVars
<1>1. Typed'
  BY <1>0 DEF Inv, Typed, TypeOK, Walked
<1>2. Ordered'
  BY <1>0 DEF Inv, Ordered, Stages, Queued, Locked, busy, cancelledQueued, cancelledNow
<1>3. Active' /\ Recorded'
  BY <1>0 DEF Inv, Active, Recorded, Asked, InHand, Unique, Kept, Untold
<1>4. Present' /\ Learned' /\ Informed' /\ Unsettled'
  BY <1>0 DEF Inv, Settling, Present, Learned, Informed, Unsettled, MeetsOnlySettlers,
     cancelledQueued, cancelledNow
<1>5. Noticed' /\ WalkShows' /\ Attempts' /\ MarkLands'
  BY <1>0 DEF Inv, Settling, Noticed, WalkShows, Attempts, MarkLands, MeetsOnlySettlers,
     atRest, busy
<1>6. Ending'
  BY <1>0 DEF Inv, Ending, Honest, TellsOrSays, lossKnown, Takes, EndedLast, RolledBack, Mine,
     RowsDone, Unwound, cancelledQueued, cancelledNow
<1> QED
  BY <1>1, <1>2, <1>3, <1>4, <1>5, <1>6 DEF Inv, Settling

LEMMA InvInit == Init => Inv
  BY TypedInit, OrderedInit, ActiveInit, RecordedInit, SettlingInit, EndingInit DEF Inv

LEMMA InvKept == Inv /\ [Next]_vars => Inv'
<1> SUFFICES ASSUME Inv, Next PROVE Inv'
  BY StutterKeeps
<1>0. Typed /\ TypeOK /\ Ordered /\ Active /\ Recorded /\ Settling /\ Ending
  BY DEF Inv, Typed
<1>1. Typed' /\ Ordered' /\ Active' /\ Recorded' /\ Settling'
  BY <1>0, TypedKept, OrderedKept, ActiveKept, RecordedKept, SettlingKept
<1>2. Honest' /\ Takes' /\ EndedLast' /\ RolledBack'
  BY <1>0, HonestKept, TakesKept, EndedLastKept, RolledBackKept DEF Ending
<1> QED
  BY <1>1, <1>2 DEF Inv, Ending

LEMMA InvAlways == Spec => []Inv
  BY InvInit, InvKept, PTL DEF Spec

(* Every variable has its type in every reachable state, whatever the number *)
(* of rows, intents, attempts, throwing calls and overrides.                *)
THEOREM TypeCorrect == Spec => []TypeOK
<1>1. Inv => TypeOK
  BY DEF Inv, Typed
<1> QED
  BY <1>1, InvAlways, PTL

(* `recordEffectIntent` tells an effect's body the truth: an intent it has  *)
(* confirmed is in the store for as long as the record is, and one it has   *)
(* refused never gets there with a later write.                             *)
THEOREM IntentsAreTruthful == Spec => []IntentsTellTheTruth
<1>1. Inv => IntentsTellTheTruth
  BY DEF Inv, Recorded, Kept, IntentsTellTheTruth, IntentsAreDurable, RefusedIntentsLeaveNoTrace
<1> QED
  BY <1>1, InvAlways, PTL

(* A run this process ended by itself tells of every success or says that   *)
(* it may not, its rollback covers every success a body reported, and while *)
(* the process meets only settlers the compensations are walked once.       *)
THEOREM EndsAreTruthful == Spec => []EndingsAreTruthful
<1>1. Inv => ClosedRecordsAreHonest
  BY DEF Inv, Ending, EndedLast, TellsOrSays, Mine, Ended, ClosedRecordsAreHonest
<1>2. Inv => OwnRollbacksAreComplete
  BY DEF Inv, Ending, RolledBack, Unwound, Mine, OwnRollbacksAreComplete
<1>3. Inv => SettlersWalkOnce
  BY DEF Inv, Settling, WalkShows, SettlersWalkOnce, WalkedOnce
<1>4. Inv => EndingsAreTruthful
  BY <1>1, <1>2, <1>3 DEF EndingsAreTruthful
<1> QED
  BY <1>4, InvAlways, PTL

LEMMA OnlyRunningRunsGetIntents ==
  ASSUME Inv, Next, committed' # committed
  PROVE  stored.status = "running"
<1>0. Typed /\ TypeOK
  BY DEF Inv, Typed
<1>1. ~(Drop \/ Begin)
  BY DEF Drop, Begin
<1>2. ~(PutConflicts \/ ReputConflicts \/ PutThrows \/ ReadFails)
  BY DEF PutConflicts, ReputConflicts, PutThrows, ReadFails
<1>3. ~(Reapply \/ Retry \/ GiveUp \/ RefuseInactive)
  BY DEF Reapply, Retry, GiveUp, RefuseInactive, Adopt
<1>4. ~(OwnerStep \/ (\E f \in Note \cup Intent : Ask(f)) \/ LosesLease \/ Stopped)
  BY OwnerMoves
<1>5. ~Others
  BY <1>0, OthersMove
<1>6. PutLands
  BY <1>1, <1>2, <1>3, <1>4, <1>5 DEF Next, WriterStep
<1>7. op.job.kind = "intent" /\ current
  BY <1>6 DEF PutLands
<1> QED
  BY <1>7 DEF Inv, Active

LEMMA EndingsStay ==
  ASSUME Inv, Next, stored.status \in Terminal, MeetsOnlySettlers
  PROVE  stored'.status = stored.status
<1>0. TypeOK /\ (current => record.status = stored.status)
  BY DEF Inv, Typed, Settling, Informed
<1>1. CASE Drop \/ Begin
  BY <1>1 DEF Drop, Begin, storeVars
<1>2. CASE PutLands \/ PutThrows
  BY <1>0, <1>2 DEF PutLands, PutThrows, storeVars
<1>3. CASE PutConflicts \/ ReputConflicts \/ ReadFails
  BY <1>3 DEF PutConflicts, ReputConflicts, ReadFails, storeVars
<1>4. CASE Reapply \/ Retry \/ GiveUp \/ RefuseInactive
  BY <1>4 DEF Reapply, Retry, GiveUp, RefuseInactive, Adopt, storeVars
<1>5. CASE OwnerStep \/ (\E f \in Note \cup Intent : Ask(f)) \/ LosesLease \/ Stopped
  BY <1>5, OwnerMoves
<1>6. CASE Others
  <2>1. ~ForceTarget /\ ~SettlerMarks /\ ~Reap /\ ~Resume
    BY DEF ForceTarget, SettlerMarks, Reap, Resume, Terminal
  <2>2. CASE SettlerClaims \/ SettlerSkipsWalk \/ SettlerWalks \/ SettlerDies \/ Prune
    BY <2>2 DEF SettlerClaims, SettlerSkipsWalk, SettlerWalks, SettlerDies, Prune, storeVars
  <2>3. CASE SettlerFinalizes
    BY <2>3 DEF SettlerFinalizes, storeVars
  <2> QED
    BY <1>6, <2>1, <2>2, <2>3 DEF Others
<1> QED
  BY <1>1, <1>2, <1>3, <1>4, <1>5, <1>6 DEF Next, WriterStep

(* No step confirms an intent on a run that is not `running`, and while the *)
(* process meets only settlers no step of anybody gives a run that has      *)
(* ended another ending.                                                    *)
THEOREM SettledRunsRest == Spec => SettledRunsStandStill
<1>1. Inv /\ [Next]_vars =>
        [/\ committed' # committed => stored.status = "running"
         /\ stored.status \in Terminal /\ MeetsOnlySettlers => stored'.status = stored.status]_vars
  BY OnlyRunningRunsGetIntents, EndingsStay
<1> QED
  BY <1>1, InvAlways, PTL DEF Spec, SettledRunsStandStill
=============================================================================
