----------------------------- MODULE ReportMailbox -----------------------------
(***************************************************************************)
(* The mailbox between the worker and the editor's frames: the worker      *)
(* posts from its own thread, each report merged into what no frame has    *)
(* taken yet, and a frame takes the box whole and folds it.  The worker is *)
(* modelled by the stream it reports, in the order apply_intent, execute   *)
(* and the executor report it.                                             *)
(***************************************************************************)
EXTENDS RunState, FiniteSets, TLC

CONSTANTS
    MaxRuns,     \* bound: runs in a behaviour
    MaxReports,  \* bound: reports in a behaviour
    MaxChanges   \* bound: changes the editor makes beside the frames

ASSUME BoundsAssumption == {MaxRuns, MaxReports, MaxChanges} \subseteq Nat

VARIABLES
    \* the worker
    phase,       \* "rest", "plan", "run", "failed"
    installed,   \* the program of the engine
    held,        \* the nodes whose cache slot holds a value
    run,         \* the run in progress, or the last one
    invoked,     \* nodes the run invoked, to their status so far
    \* the mailbox
    reports, superseded,
    \* the editor
    state, changes,
    \* history
    posted,      \* every report since the last drain
    total        \* how many were posted in all

workerVars == <<phase, installed, held, run, invoked>>
boxVars == <<reports, superseded, posted, total>>
editorVars == <<state, changes>>
vars == <<workerVars, boxVars, editorVars>>

Init ==
    /\ phase = "rest" /\ installed = Empty /\ held = {} /\ run = 0 /\ invoked = << >>
    /\ reports = <<>> /\ superseded = 0 /\ posted = <<>> /\ total = 0
    /\ state = BlankState /\ changes = 0

(* ReportMailbox::post *)
PostReport(report) ==
    /\ total < MaxReports /\ total' = total + 1
    /\ reports' = Merge(reports, report)
    /\ superseded' = superseded + RunsSuperseded(reports, report)
    /\ posted' = Append(posted, report)

-----------------------------------------------------------------------------
(* The worker's stream *)

Install(p) ==
    /\ phase = "rest"
    /\ installed' = p
    /\ held' = held \cap NodesIn(p)
    /\ PostReport(Installed(p, held'))
    /\ UNCHANGED <<phase, run, invoked, editorVars>>

ClearEngine ==
    /\ phase = "rest"
    /\ installed' = Empty
    /\ held' = {}
    /\ PostReport(Cleared)
    /\ UNCHANGED <<phase, run, invoked, editorVars>>

(* An eviction or a flush that failed, or an event lambda that panicked. *)
ReportOtherError ==
    /\ phase = "rest"
    /\ PostReport(OtherError)
    /\ UNCHANGED <<workerVars, editorVars>>

(* A stop of the event loop with no run to follow, a panic of a task in it. *)
ReportIdle ==
    /\ phase = "rest"
    /\ PostReport(Activity("Idle"))
    /\ UNCHANGED <<workerVars, editorVars>>

BeginRun ==
    /\ phase = "rest" /\ NodesIn(installed) # {} /\ run < MaxRuns
    /\ phase' = "plan"
    /\ run' = run + 1
    /\ invoked' = << >>
    /\ PostReport(Activity("Executing"))
    /\ UNCHANGED <<installed, held, editorVars>>

(* Planning is the only part of execute that fails, so a run error follows   *)
(* no progress of its own run; the activity is reported before the error.    *)
FailPlan ==
    /\ phase = "plan"
    /\ phase' = "failed"
    /\ PostReport(Activity("Idle"))
    /\ UNCHANGED <<installed, held, run, invoked, editorVars>>

ReportRunError ==
    /\ phase = "failed"
    /\ phase' = "rest"
    /\ PostReport(ExecError)
    /\ UNCHANGED <<installed, held, run, invoked, editorVars>>

(* The executor invokes one node at a time: a report before and one after,   *)
(* the second missing for a node a cancel interrupted.                        *)
Interrupted == \E n \in DOMAIN invoked : invoked[n] = "Running"

StartNode(n) ==
    /\ phase \in {"plan", "run"} /\ ~Interrupted
    /\ n \in NodesIn(installed) \ DOMAIN invoked
    /\ phase' = "run"
    /\ invoked' = [m \in DOMAIN invoked \cup {n} |-> IF m = n THEN "Running" ELSE invoked[m]]
    /\ PostReport(Progress(n, "Running", run))
    /\ UNCHANGED <<installed, held, run, editorVars>>

FinishNode(n, result) ==
    /\ phase = "run" /\ n \in DOMAIN invoked /\ invoked[n] = "Running"
    /\ invoked' = [invoked EXCEPT ![n] = result]
    /\ held' = IF result = "Executed" THEN held \cup {n} ELSE held \ {n}
    /\ PostReport(Progress(n, result, run))
    /\ UNCHANGED <<phase, installed, run, editorVars>>

(* The summary says of a node of the program what it came to: a node the run *)
(* did not invoke was served from a cache or skipped, or has nothing to say, *)
(* as one a cancel interrupted.  A value is kept or released as its node's   *)
(* cache mode asks.                                                           *)
CompleteRun(others, kept) ==
    /\ phase \in {"plan", "run"}
    /\ phase' = "rest"
    /\ held' = kept
    /\ PostReport(Completed(run, "Idle",
            [n \in NodesIn(installed) |->
                CASE n \notin DOMAIN invoked  -> others[n]
                  [] invoked[n] = "Running" -> "None"
                  [] OTHER -> invoked[n]],
            kept))
    /\ UNCHANGED <<installed, run, invoked, editorVars>>

Worker ==
    \/ \E p \in Programs : Install(p)
    \/ ClearEngine \/ ReportOtherError \/ ReportIdle
    \/ BeginRun \/ FailPlan \/ ReportRunError
    \/ \E n \in Nodes : StartNode(n)
    \/ \E n \in Nodes, result \in {"Executed", "Errored"} : FinishNode(n, result)
    \/ \E others \in [NodesIn(installed) \ DOMAIN invoked -> Unrun], kept \in SUBSET held :
          CompleteRun(others, kept)

-----------------------------------------------------------------------------
(* The editor *)

(* RunState::drain_reports: the superseded runs are counted, then the box is *)
(* folded from the oldest report.                                             *)
DrainReports ==
    /\ state' = Fold([state EXCEPT !.runsEnded = @ + superseded], reports)
    /\ reports' = <<>> /\ superseded' = 0 /\ posted' = <<>>
    /\ UNCHANGED <<workerVars, total, changes>>

(* The editor's other changes touch nothing the worker's posts do, so a      *)
(* model may have them right after a frame.                                   *)
Change(new) ==
    /\ posted = <<>> /\ changes < MaxChanges
    /\ changes' = changes + 1
    /\ state' = new
    /\ UNCHANGED <<workerVars, boxVars>>

(* adopt_document: what the document showed goes, what the worker said stays. *)
SwapDocument == Change(Emptied(state))

EvictNode(n) == Change(ClearProjections(state, {n}))

ShowPreview(n) ==
    /\ run > 0
    /\ Change(ShowPreviews(state, [m \in Nodes |-> IF m = n THEN run ELSE 0], Nodes))

Editor ==
    \/ DrainReports \/ SwapDocument
    \/ \E n \in Nodes : EvictNode(n) \/ ShowPreview(n)

Next == Worker \/ Editor

Spec == Init /\ [][Next]_vars

-----------------------------------------------------------------------------
(* The unmerged queue the mailbox implements. *)
Queue == INSTANCE ReportQueue WITH queue <- posted

(* Merging shows in no frame: the mailbox implements the queue that keeps    *)
(* every report, the count of the runs that ended included.                  *)
MergeIsInvisible == Queue!Spec

(* Back to the last structural report the box holds at most one Activity,    *)
(* one Completed, one run error, and the progress of one run after both.     *)
BoxIsBounded ==
    LET recent == Recent(reports)
        At(type) == {i \in DOMAIN recent : recent[i].type = type}
    IN /\ \A type \in {"Activity", "Completed", "ExecError"} : Cardinality(At(type)) <= 1
       /\ \A i \in At("Progress"), j \in At("Completed") \cup At("ExecError") : j < i
       /\ \A i, j \in At("Progress") : recent[i].run = recent[j].run

(* Whenever a frame folds the box, each node named is of the program then    *)
(* acknowledged: merging moves no report across the install it is about.     *)
ReportsAreAcknowledged == AllAcknowledged(state, reports)
=============================================================================
