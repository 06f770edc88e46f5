---------------------------- MODULE RunStatus ----------------------------
(***************************************************************************)
(* What the orchestration guide promises of a run's status, whoever moves  *)
(* it: a run parks and resumes any number of times, ends once, and is      *)
(* unwound at most once, between the moment it starts to be cancelled and  *)
(* its end, which then comes.                                              *)
(***************************************************************************)
EXTENDS Naturals

VARIABLES
  status,  \* of the run, "none" before it is opened
  walks    \* how often its compensations were walked

runVars == <<status, walks>>

Ended == {"succeeded", "failed", "cancelled"}

RunInit == status = "none" /\ walks = 0

Moves(from, to) == status = from /\ status' = to /\ UNCHANGED walks

OpenRun == Moves("none", "running")
ParkRun == Moves("running", "suspended")
ResumeRun == Moves("suspended", "running")
FinishRun == Moves("running", "succeeded") \/ Moves("running", "failed")
TimeOutRun == Moves("suspended", "failed")
BeginCancel == Moves("running", "cancelling") \/ Moves("suspended", "cancelling")
Unwind == status = "cancelling" /\ walks = 0 /\ walks' = 1 /\ UNCHANGED status
EndCancel == Moves("cancelling", "cancelled") \/ Moves("cancelling", "failed")

RunNext ==
  \/ OpenRun \/ ParkRun \/ ResumeRun \/ FinishRun \/ TimeOutRun
  \/ BeginCancel \/ Unwind \/ EndCancel

RunSafety == RunInit /\ [][RunNext]_runVars

(* A run that is being cancelled does not stay so. *)
RunSpec == RunSafety /\ WF_runVars(EndCancel)
=============================================================================
