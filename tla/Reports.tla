-------------------------------- MODULE Reports --------------------------------
(***************************************************************************)
(* The reports the worker gives the editor (scenarium's WorkerReport) and  *)
(* the merge the editor's mailbox makes of the ones no frame has taken yet *)
(* (darkroom/src/core/worker_bridge/report_mailbox.rs).                    *)
(*                                                                         *)
(* A result carries the number of the run it is of; a memory total is the  *)
(* set of nodes whose values it adds up; log lines are left out.           *)
(***************************************************************************)
EXTENDS CompiledGraph, SequencesExt

Phases     == {"Running", "Executed", "Errored"}   \* what a RunPhase shows
Unrun      == {"None", "Cached", "Skipped"}        \* the verdicts on a node that did not run
Activities == {"Idle", "Executing", "EventLoop", "ExecutingEventLoop"}

Installed(p, ram)       == [type |-> "Installed", program |-> p, ram |-> ram]
Cleared                 == [type |-> "Cleared"]
Activity(a)             == [type |-> "Activity", activity |-> a]
Progress(n, phase, run) == [type |-> "Progress", node |-> n, phase |-> phase, run |-> run]
ExecError               == [type |-> "ExecError"]    \* WorkerError::Exec
OtherError              == [type |-> "OtherError"]   \* eviction, flush, event lambda panic

(* Completed carries the run's summary: a status for each node the program   *)
(* holds ("None" for one with nothing to say, "Skipped" too for one with an  *)
(* input missing) and the nodes holding a value.                              *)
Completed(run, activity, statuses, ram) ==
    [type |-> "Completed", run |-> run, activity |-> activity, statuses |-> statuses, ram |-> ram]

(* Only these say something about one node. *)
NamedNodes(report) ==
    CASE report.type = "Progress"  -> {report.node}
      [] report.type = "Completed" -> DOMAIN report.statuses
      [] OTHER -> {}

-----------------------------------------------------------------------------
(* The merge *)

IsStructural(report) == report.type \in {"Installed", "Cleared", "OtherError"}

EndsARun(report) == report.type \in {"Completed", "ExecError"}

(* Mutant: a run error is taken for overwritten by a later completed run. *)
SupersedesRunErrors(new, old) ==
    \/ new.type = "Activity"  /\ old.type = "Activity"
    \/ new.type = "Completed" /\ old.type \in {"Completed", "Progress", "Activity", "ExecError"}
    \/ new.type = "ExecError" /\ old.type \in {"ExecError", "Progress"}

(* Mutant: a completed run leaves the progress reports before it queued. *)
SupersedesNoProgress(new, old) ==
    \/ new.type = "Activity"  /\ old.type = "Activity"
    \/ new.type = "Completed" /\ old.type \in {"Completed", "Activity"}
    \/ new.type = "ExecError" /\ old.type \in {"ExecError", "Progress"}

Supersedes(new, old) ==
    \/ new.type = "Activity"  /\ old.type = "Activity"
    \/ new.type = "Completed" /\ old.type \in {"Completed", "Progress", "Activity"}
    \/ new.type = "ExecError" /\ old.type \in {"ExecError", "Progress"}

(* The reports a merge may look at: those after the last structural one. *)
Since(box) == SelectLastInSeq(box, IsStructural)
Recent(box) == SubSeq(box, Since(box) + 1, Len(box))

(* The elements of seq at places, in its order. *)
Picked(seq, places) ==
    LET picked[i \in 0..Len(seq)] ==
            IF i = 0 THEN <<>>
            ELSE IF i \in places THEN Append(picked[i - 1], seq[i]) ELSE picked[i - 1]
    IN picked[Len(seq)]

(* What post retains of the recent reports, and the runs that end in others. *)
Kept(recent, report) ==
    Picked(recent, {i \in DOMAIN recent : ~Supersedes(report, recent[i])})
Ended(recent, report) ==
    Picked(recent, {i \in DOMAIN recent :
                      Supersedes(report, recent[i]) /\ EndsARun(recent[i])})

(* ReportMailbox::post: what the box holds after report is merged into it... *)
Merge(box, report) ==
    SubSeq(box, 1, Since(box)) \o Kept(Recent(box), report) \o <<report>>

(* ...and how many runs ended in the reports that go. *)
RunsSuperseded(box, report) == Len(Ended(Recent(box), report))
=============================================================================
