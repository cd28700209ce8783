-------------------------------- MODULE Driver --------------------------------
(***************************************************************************)
(* A driver playing the editor (darkroom/src/driver/mod.rs): it acts, and  *)
(* it waits for the run its action started.                                *)
(***************************************************************************)
EXTENDS RunFeed

VARIABLES
    noted,     \* runs_before: the runs the editor had counted when the last act began
    begun,     \* history: the runs the worker had begun by then
    waiting    \* "no", "yes", or "over": wait_run has returned

driverVars == <<noted, begun, waiting>>

DriverInit == Init /\ noted = 0 /\ begun = 0 /\ waiting = "no"

(* Driver::act, whose action runs the document. *)
Act ==
    /\ waiting # "yes"
    /\ noted' = state.runsEnded
    /\ begun' = run
    /\ waiting' = "no"
    /\ Run

(* wait_run called, once act returned *)
WaitRun ==
    /\ waiting = "no" /\ AtCommands
    /\ waiting' = "yes"
    /\ UNCHANGED <<noted, begun, vars>>

(* ...and returning, after a frame with no wake pending: a run ended past the *)
(* count noted and none is shown in flight.                                   *)
WaitRunReturns ==
    /\ waiting = "yes" /\ AtCommands /\ reports = <<>>
    /\ state.runsEnded > noted
    /\ state.activity # "Executing"
    /\ waiting' = "over"
    /\ UNCHANGED <<noted, begun, vars>>

DriverNext ==
    \/ Act \/ WaitRun \/ WaitRunReturns
    \/ (PostNext \/ DrainReports \/ DrainPreviews \/ Worker) /\ UNCHANGED driverVars

DriverSpec == DriverInit /\ [][DriverNext]_<<vars, driverVars>>

-----------------------------------------------------------------------------
RunsEnded == IF phase = "run" THEN run - 1 ELSE run

(* "Wait until a run that began after the last act began has ended."         *)
WaitRunSawTheRun == waiting = "over" => RunsEnded > begun
=============================================================================
