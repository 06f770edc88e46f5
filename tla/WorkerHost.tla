----------------------------- MODULE WorkerHost -----------------------------
(***************************************************************************)
(* The engine's host of SDK workers (packages/engine/src/host.ts): it asks *)
(* a worker process to run target bodies over a JSON-RPC connection        *)
(* (peer.ts), replaces a worker that died, and goes from run to run in one *)
(* process.                                                                *)
(*                                                                         *)
(* Callers share the current worker.  `#live` hands it out, or lets them   *)
(* wait for one replacement; a connection that closes rejects what is      *)
(* pending on it.  A body that the scheduler timed out stays behind as a   *)
(* caller nobody waits for.                                                *)
(***************************************************************************)
EXTENDS Naturals, FiniteSets

CONSTANTS
  Body,         \* attempts at target bodies, used again in the next run
  Config,       \* the run's own request, build.configure
  NWorkers,     \* bound: worker processes
  MaxRuns,      \* bound: runs in one host
  MaxFaults,    \* bound: workers that die, hang up, refuse or do not start
  MaxTimeouts,  \* bound: bodies given up by the scheduler
  Prewarm       \* WorkerOptions.prewarm

Caller == Body \cup {Config}
Worker == 1..NWorkers
NoReplacement == [at |-> "none", why |-> "none", w |-> 0, sent |-> 0]

ASSUME ConfigAssumption == Config \notin Body
ASSUME BoundsAssumption ==
  /\ NWorkers \in Nat \ {0} /\ MaxRuns \in Nat
  /\ MaxFaults \in Nat /\ MaxTimeouts \in Nat /\ Prewarm \in BOOLEAN

VARIABLES
  proc, conn,  \* each worker's process, and the engine's end of its socket
  conf,        \* the run a worker is configured for, 0 for none
  worker,      \* the current one
  configured,  \* the run whose parameters a replacement gets, 0 for none
  replacing,   \* the replacement or pre-warm in flight
  fatal,       \* a replacement could not take over
  run, stage,  \* the run and where the executor is in it
  finished,    \* the worker finish() told that the run is over
  at, on,      \* where each caller is, and whose answer it awaits
  cancelled,   \* bodies whose signal was aborted
  grace,       \* those whose grace timer is armed
  left,        \* those the scheduler does not wait for any more
  faults, timeouts

workers == <<proc, conn, conf>>
host == <<worker, configured, replacing, fatal>>
runs == <<run, stage, finished>>
callers == <<at, on>>
marks == <<cancelled, grace, left>>
bounds == <<faults, timeouts>>
vars == <<workers, host, runs, callers, marks, bounds>>

Init ==
  /\ proc = [w \in Worker |-> IF w = 1 THEN "alive" ELSE "none"]
  /\ conn = [w \in Worker |-> IF w = 1 THEN "open" ELSE "closed"]
  /\ conf = [w \in Worker |-> 0]
  /\ worker = 1 /\ configured = 0 /\ replacing = NoReplacement /\ fatal = FALSE
  /\ run = 0 /\ stage = "between" /\ finished = 0
  /\ at = [c \in Caller |-> "idle"] /\ on = [c \in Caller |-> 0]
  /\ cancelled = {} /\ grace = {} /\ left = {}
  /\ faults = 0 /\ timeouts = 0

InFlight == {"asking", "looping", "waiting", "asked", "failing"}
Fault == faults < MaxFaults /\ faults' = faults + 1 /\ UNCHANGED timeouts

(* Peer.close: what is pending on the connection rejects. *)
Rejected(w) ==
  [c \in Caller |-> IF at[c] = "asked" /\ on[c] = w THEN "failing" ELSE at[c]]
Closes(w) == conn' = [conn EXCEPT ![w] = "closed"] /\ at' = Rejected(w)
Up == conn[worker] = "open"

-----------------------------------------------------------------------------
(* A request: `#live`, the request itself, and the answer. *)

(* Mutant: the grace timer outlives the body. *)
OverKeepsTimer(c, to) ==
  /\ at' = [at EXCEPT ![c] = IF c = Config THEN "idle" ELSE "over"]
  /\ on' = [on EXCEPT ![c] = 0]
  /\ UNCHANGED <<grace, cancelled, left>>
  /\ stage' = IF c = Config THEN to ELSE stage
  /\ UNCHANGED <<run, finished>>

(* The body or the run's start is over for this caller. *)
Over(c, to) ==
  /\ at' = [at EXCEPT ![c] = IF c = Config THEN "idle" ELSE "over"]
  /\ on' = [on EXCEPT ![c] = 0]
  /\ grace' = grace \ {c} /\ UNCHANGED <<cancelled, left>>
  /\ stage' = IF c = Config THEN to ELSE stage
  /\ UNCHANGED <<run, finished>>

StartsBody(b) ==
  /\ stage = "bodies" /\ at[b] = "idle"
  /\ at' = [at EXCEPT ![b] = "asking"]
  /\ UNCHANGED <<workers, host, runs, on, marks, bounds>>

Refused(c) ==
  /\ at[c] = "asking" /\ fatal
  /\ Over(c, "between")
  /\ UNCHANGED <<workers, host, bounds>>

MayGoOn(c) == at[c] = "looping" \/ (at[c] = "asking" /\ ~fatal)

(* The current worker is gone: wait for the one replacement. *)
Waits(c) ==
  /\ MayGoOn(c) /\ ~Up
  /\ at' = [at EXCEPT ![c] = "waiting"]
  /\ replacing' = IF replacing.at # "none" THEN replacing
                  ELSE [NoReplacement EXCEPT !.at = "stopping", !.why = "respawn"]
  /\ UNCHANGED <<workers, worker, configured, fatal, runs, on, marks, bounds>>

(* configure() stores the parameters as it asks. *)
Asks(c) ==
  /\ MayGoOn(c) /\ Up
  /\ at' = [at EXCEPT ![c] = "asked"] /\ on' = [on EXCEPT ![c] = worker]
  /\ configured' = IF c = Config THEN run ELSE configured
  /\ UNCHANGED <<workers, worker, replacing, fatal, runs, marks, bounds>>

Answers(c) ==
  /\ at[c] = "asked" /\ proc[on[c]] = "alive"
  /\ conf' = IF c = Config THEN [conf EXCEPT ![on[c]] = run] ELSE conf
  /\ Over(c, "bodies")
  /\ UNCHANGED <<proc, conn, host, bounds>>

(* An error thrown before onStart is done ends the run without finish().    *)
Refuses(c) ==
  /\ at[c] = "asked" /\ c = Config /\ Fault
  /\ Over(c, "between")
  /\ UNCHANGED <<workers, host>>

(* The error arrives: #explain has waited for the exit code, as long as the *)
(* grace period.                                                            *)
Explained(c) ==
  /\ at[c] = "failing"
  /\ Over(c, "between")
  /\ UNCHANGED <<workers, host, bounds>>

-----------------------------------------------------------------------------
(* runTarget's cancellation, and a body the scheduler gives up.             *)

(* run.cancel is sent to the current worker; its effect is up to the worker.*)
Aborts(b) ==
  /\ at[b] \in InFlight /\ b \notin cancelled
  /\ cancelled' = cancelled \cup {b} /\ grace' = grace \cup {b}
  /\ UNCHANGED <<workers, host, runs, callers, left, bounds>>

(* Mutant: the process is signalled and its socket stays open. *)
GraceFiresInVain(b) ==
  /\ b \in grace
  /\ grace' = grace \ {b}
  /\ proc' \in {proc, [proc EXCEPT ![worker] = "exited"]}
  /\ UNCHANGED <<conn, conf, host, runs, callers, cancelled, left, bounds>>

(* kill(): the socket is closed; the process may shrug off its SIGTERM. *)
GraceFires(b) ==
  /\ b \in grace
  /\ grace' = grace \ {b}
  /\ Closes(worker)
  /\ proc' \in {proc, [proc EXCEPT ![worker] = "exited"]}
  /\ UNCHANGED <<conf, host, runs, on, cancelled, left, bounds>>

(* A timeout settles the attempt; its code stays behind. *)
TimesOut(b) ==
  /\ at[b] \in InFlight /\ b \notin left /\ timeouts < MaxTimeouts
  /\ left' = left \cup {b} /\ timeouts' = timeouts + 1
  /\ UNCHANGED <<workers, host, runs, callers, cancelled, grace, faults>>

-----------------------------------------------------------------------------
(* The replacement: #respawn, or #prewarm ahead of the next run.            *)

Replacement(stg) == replacing.at = stg
Proceeds(stg) == replacing' = [replacing EXCEPT !.at = stg]

(* Mutant: the next one is spawned beside the old one. *)
StopsOldLater ==
  /\ Replacement("stopping")
  /\ Closes(worker) /\ UNCHANGED proc
  /\ Proceeds("spawning")
  /\ UNCHANGED <<conf, worker, configured, fatal, runs, on, marks, bounds>>

StopsOld ==
  /\ Replacement("stopping")
  /\ Closes(worker)
  /\ proc' = [proc EXCEPT ![worker] = "exited"]
  /\ Proceeds("spawning")
  /\ UNCHANGED <<conf, worker, configured, fatal, runs, on, marks, bounds>>

Spawns ==
  /\ Replacement("spawning")
  /\ \E w \in Worker :
       /\ proc[w] = "none" /\ \A v \in Worker : proc[v] = "none" => w <= v
       /\ proc' = [proc EXCEPT ![w] = "alive"] /\ conn' = [conn EXCEPT ![w] = "open"]
       /\ replacing' = [replacing EXCEPT !.at = "describing", !.w = w]
  /\ UNCHANGED <<conf, worker, configured, fatal, runs, callers, marks, bounds>>

(* Those who waited meet the error of a respawn; a pre-warm keeps its own.  *)
Released(fails) ==
  [c \in Caller |-> IF at[c] # "waiting" THEN at[c]
                    ELSE IF fails THEN "failing" ELSE "looping"]

GivesUp ==
  /\ replacing' = NoReplacement
  /\ at' = Released(replacing.why = "respawn")

SpawnFails ==
  /\ Replacement("spawning")
  /\ IF \E w \in Worker : proc[w] = "none" THEN Fault ELSE UNCHANGED bounds
  /\ GivesUp
  /\ UNCHANGED <<workers, worker, configured, fatal, runs, on, marks>>

Answering == proc[replacing.w] = "alive" /\ conn[replacing.w] = "open"

Adopted ==
  /\ worker' = replacing.w
  /\ replacing' = NoReplacement
  /\ at' = Released(FALSE)

(* Mutant: a replacement takes over as soon as it described the build. *)
DescribesAndServes ==
  /\ Replacement("describing") /\ Answering
  /\ Adopted
  /\ UNCHANGED <<workers, configured, fatal, runs, on, marks, bounds>>

Describes ==
  /\ Replacement("describing") /\ Answering
  /\ \/ configured = 0 /\ Adopted
     \/ /\ configured # 0
        /\ replacing' = [replacing EXCEPT !.at = "configuring", !.sent = configured]
        /\ UNCHANGED <<worker, at>>
  /\ UNCHANGED <<workers, configured, fatal, runs, on, marks, bounds>>

Configures ==
  /\ Replacement("configuring") /\ Answering
  /\ conf' = [conf EXCEPT ![replacing.w] = replacing.sent]
  /\ Adopted
  /\ UNCHANGED <<proc, conn, configured, fatal, runs, on, marks, bounds>>

(* It died, refused, or described another build: stopped, and for a respawn *)
(* the last one that is tried.                                              *)
TakeOverFails ==
  /\ replacing.at \in {"describing", "configuring"}
  /\ IF Answering THEN Fault ELSE UNCHANGED bounds
  /\ proc' = [proc EXCEPT ![replacing.w] = "exited"]
  /\ conn' = [conn EXCEPT ![replacing.w] = "closed"]
  /\ fatal' = (fatal \/ replacing.why = "respawn")
  /\ GivesUp
  /\ UNCHANGED <<conf, worker, configured, runs, on, marks>>

-----------------------------------------------------------------------------
(* The run: onStart, the bodies, finish(); and close().                     *)

StartsRun ==
  /\ stage = "between" /\ run < MaxRuns
  /\ run' = run + 1 /\ stage' = "starting"
  /\ at' = [c \in Caller |-> IF c = Config THEN "asking"
                             ELSE IF at[c] = "over" THEN "idle" ELSE at[c]]
  /\ cancelled' = {b \in cancelled : at[b] # "over"}
  /\ left' = {b \in left : at[b] # "over"}
  /\ UNCHANGED <<workers, host, finished, on, grace, bounds>>

Finishes ==
  /\ stage = "bodies"
  /\ \A b \in Body \ left : at[b] \in {"idle", "over"}
  /\ stage' = "finishing" /\ finished' = worker
  /\ configured' = 0
  /\ UNCHANGED <<workers, worker, replacing, fatal, run, callers, marks, bounds>>

(* run.exit, then the connection is closed. *)
TellsExit ==
  /\ stage = "finishing"
  /\ stage' = "exiting"
  /\ Closes(finished)
  /\ UNCHANGED <<proc, conf, host, run, finished, on, marks, bounds>>

(* The worker has exited, by itself or stopped after the grace period. *)
FinishEnds ==
  /\ stage = "exiting"
  /\ stage' = "between"
  /\ proc' = [proc EXCEPT ![finished] = "exited"]
  /\ replacing' = IF Prewarm /\ replacing.at = "none"
                  THEN [NoReplacement EXCEPT !.at = "spawning", !.why = "prewarm"]
                  ELSE replacing
  /\ UNCHANGED <<conn, conf, worker, configured, fatal, run, finished, callers, marks, bounds>>

Closing ==
  /\ stage = "between"
  /\ stage' = "closing"
  /\ UNCHANGED <<workers, host, run, finished, callers, marks, bounds>>

(* close() has waited for the pre-warm in flight. *)
Closed ==
  /\ stage = "closing" /\ replacing.at = "none"
  /\ stage' = "closed"
  /\ Closes(worker) /\ proc' = [proc EXCEPT ![worker] = "exited"]
  /\ UNCHANGED <<conf, host, run, finished, on, marks, bounds>>

-----------------------------------------------------------------------------
(* The workers' own doings. *)

Dies(w) ==
  /\ proc[w] = "alive" /\ Fault
  /\ proc' = [proc EXCEPT ![w] = "exited"]
  /\ UNCHANGED <<conn, conf, host, runs, callers, marks>>

HangsUp(w) ==
  /\ proc[w] = "alive" /\ conn[w] = "open" /\ Fault
  /\ Closes(w)
  /\ UNCHANGED <<proc, conf, host, runs, on, marks>>

(* The socket ends, or the exit code arrives. *)
SeesEnd(w) ==
  /\ proc[w] = "exited" /\ conn[w] = "open"
  /\ Closes(w)
  /\ UNCHANGED <<proc, conf, host, runs, on, marks, bounds>>

LiveStep(c) == Refused(c) \/ Waits(c) \/ Asks(c) \/ Explained(c)
ReplacementStep ==
  StopsOld \/ Spawns \/ SpawnFails \/ Describes \/ Configures \/ TakeOverFails
RunStep == StartsRun \/ Finishes \/ TellsExit \/ FinishEnds
Done == stage = "closed" /\ UNCHANGED vars

Next ==
  \/ \E c \in Caller : LiveStep(c) \/ Answers(c) \/ Refuses(c)
  \/ \E b \in Body : StartsBody(b) \/ Aborts(b) \/ GraceFires(b) \/ TimesOut(b)
  \/ ReplacementStep \/ RunStep \/ Closing \/ Closed
  \/ \E w \in Worker : Dies(w) \/ HangsUp(w) \/ SeesEnd(w)
  \/ Done

Spec == Init /\ [][Next]_vars

(* The engine's event loop turns, timers fire, the end of a process is      *)
(* seen, and a worker that is asked to describe or configure itself answers *)
(* or dies.  Bodies may hang, and nobody has to start, cancel or close      *)
(* anything.                                                                *)
FairSpec ==
  /\ Spec
  /\ \A c \in Caller : WF_vars(LiveStep(c))
  /\ \A b \in Body : WF_vars(GraceFires(b))
  /\ WF_vars(ReplacementStep)
  /\ \A w \in Worker : WF_vars(SeesEnd(w))

-----------------------------------------------------------------------------
WorkersTyped ==
  /\ proc \in [Worker -> {"none", "alive", "exited"}]
  /\ conn \in [Worker -> {"open", "closed"}]
  /\ conf \in [Worker -> 0..MaxRuns]
HostTyped ==
  /\ worker \in Worker /\ configured \in 0..MaxRuns
  /\ replacing \in [at : {"none", "stopping", "spawning", "describing", "configuring"},
                    why : {"none", "respawn", "prewarm"}, w : 0..NWorkers,
                    sent : 0..MaxRuns]
  /\ (replacing.at \in {"describing", "configuring"} <=> replacing.w # 0)
RunTyped ==
  /\ run \in 0..MaxRuns /\ finished \in 0..NWorkers
  /\ stage \in {"between", "starting", "bodies", "finishing", "exiting", "closing", "closed"}
  /\ faults \in 0..MaxFaults /\ timeouts \in 0..MaxTimeouts
CallersTyped ==
  /\ at \in [Caller -> InFlight \cup {"idle", "over"}]
  /\ on \in [Caller -> 0..NWorkers]
  /\ \A c \in Caller : at[c] = "asked" => on[c] # 0
  /\ cancelled \subseteq Body /\ grace \subseteq cancelled /\ left \subseteq Body
TypeOK ==
  WorkersTyped /\ HostTyped /\ RunTyped /\ CallersTyped /\ fatal \in BOOLEAN

(* A body only ever runs in a worker that is configured as its own run is,  *)
(* whoever died, was replaced or pre-warmed in between (host.ts:583), as    *)
(* long as no body was left behind.                                         *)
ServedByConfigured ==
  timeouts = 0 =>
    \A b \in Body : at[b] = "asked" => conf[on[b]] = run /\ stage = "bodies"

(* No two worker processes live at once, and none outlives a host that was  *)
(* closed (host.ts:568,842), as long as no body was left behind.            *)
WorkersAreAccountedFor ==
  timeouts = 0 =>
    LET alive == {w \in Worker : proc[w] = "alive"} IN
      Cardinality(alive) <= 1 /\ (stage = "closed" => alive = {})

(* The one worker there is serves the run it is configured for.             *)
OneWorkerServesTheRun == ServedByConfigured /\ WorkersAreAccountedFor

(* Nobody waits for ever: a caller of `#live` gets a worker or an error,    *)
(* and a body whose worker ignores its cancellation is cut off after the    *)
(* grace period (host.ts:728).                                              *)
NobodyHangs ==
  /\ \A c \in Caller :
       at[c] \in {"asking", "looping", "waiting"} ~>
         at[c] \notin {"asking", "looping", "waiting"}
  /\ \A b \in Body :
       at[b] = "asked" /\ b \in grace ~> at[b] # "asked" \/ timeouts # 0
=============================================================================
