------------------------------- MODULE RunState -------------------------------
(***************************************************************************)
(* What the editor shows of the runs, and how a frame folds the worker's   *)
(* reports into it (darkroom/src/gui/state/run_state/mod.rs).              *)
(***************************************************************************)
EXTENDS Reports, Naturals

(* A node entry with nothing to show is dropped from the map. *)
NoNode == [status |-> "None", run |-> 0, ram |-> FALSE]

(* RunState::default.  The nodes, the previews and the outcome are of the    *)
(* open document; compiled, activity and cacheRam are the worker's.          *)
BlankState ==
    [nodes     |-> [n \in Nodes |-> NoNode],
     previews  |-> [n \in Nodes |-> 0],      \* the run that published each
     outcome   |-> 0,                        \* the run the status bar sums up
     compiled  |-> None,
     activity  |-> "Idle",
     cacheRam  |-> {},
     runsEnded |-> 0,
     parked    |-> "none"]                   \* what a run left on the status bar

(* Mutant: a clear takes the program last acknowledged with it. *)
EmptiedOfTheProgram(state) ==
    [state EXCEPT !.nodes = [n \in Nodes |-> NoNode], !.previews = [n \in Nodes |-> 0],
                  !.outcome = 0, !.compiled = None]

(* RunState::clear *)
Emptied(state) ==
    [state EXCEPT !.nodes = [n \in Nodes |-> NoNode], !.previews = [n \in Nodes |-> 0],
                  !.outcome = 0]

(* A report may only name nodes of the program last acknowledged: the code   *)
(* expects and asserts it as it folds one.                                   *)
Acknowledged(state, report) ==
    report.type \in {"Progress", "Completed"} =>
        /\ state.compiled # None
        /\ NamedNodes(report) \subseteq NodesIn(state.compiled)

(* apply_progress: the newest status of a node is its status. *)
ApplyProgress(state, r) ==
    [state EXCEPT !.nodes[r.node].status = r.phase, !.nodes[r.node].run = r.run]

(* Mutant: a completed run overwrites only the nodes it has a status for. *)
ReplaceNamed(state, r) ==
    [state EXCEPT
        !.cacheRam = r.ram,
        !.outcome = r.run,
        !.nodes = [n \in Nodes |->
            IF n \in DOMAIN r.statuses /\ r.statuses[n] # "None"
            THEN [status |-> r.statuses[n], run |-> r.run, ram |-> n \in r.ram]
            ELSE state.nodes[n]]]

(* replace_results: nothing a node showed before outlives a completed run. *)
ReplaceResults(state, r) ==
    [state EXCEPT
        !.cacheRam = r.ram,
        !.outcome = r.run,
        !.nodes = [n \in Nodes |->
            LET status == IF n \in DOMAIN r.statuses THEN r.statuses[n] ELSE "None"
            IN [status |-> status,
                run |-> IF status = "None" THEN 0 ELSE r.run,
                ram |-> n \in r.ram]]]

(* apply_report *)
ApplyReport(state, r) ==
    CASE r.type = "Installed"  -> [state EXCEPT !.compiled = r.program, !.cacheRam = r.ram]
      [] r.type = "Cleared"    -> [Emptied(state) EXCEPT !.compiled = None, !.cacheRam = {}]
      [] r.type = "ExecError"  -> [Emptied(state) EXCEPT !.runsEnded = @ + 1, !.parked = "failure"]
      [] r.type = "OtherError" -> [state EXCEPT !.parked = "failure"]
      [] r.type = "Activity"   -> [state EXCEPT !.activity = r.activity]
      [] r.type = "Progress"   -> ApplyProgress(state, r)
      [] r.type = "Completed"  ->
            [ReplaceResults(state, r) EXCEPT !.activity = r.activity, !.runsEnded = @ + 1,
                                             !.parked = "none"]

(* drain_reports *)
Fold(state, reports) == FoldLeft(ApplyReport, state, reports)

(* Whether a frame that folds reports meets only acknowledged ones. *)
AllAcknowledged(state, reports) ==
    \A i \in DOMAIN reports : Acknowledged(Fold(state, SubSeq(reports, 1, i - 1)), reports[i])

(* clear_cache_projections: what an eviction of nodes will drop is not shown. *)
ClearProjections(state, evicted) ==
    [state EXCEPT
        !.cacheRam = {},
        !.nodes = [n \in Nodes |->
            IF n \in evicted THEN [state.nodes[n] EXCEPT !.ram = FALSE] ELSE state.nodes[n]],
        !.previews = [n \in Nodes |-> IF n \in evicted THEN 0 ELSE state.previews[n]]]

(* sync_previews: the values published, by node and run, that the program    *)
(* last acknowledged has a node for are shown, while the document has it.     *)
ShowPreviews(state, published, inDocument) ==
    [state EXCEPT !.previews = [n \in Nodes |->
        IF n \notin inDocument THEN 0
        ELSE IF published[n] # 0 /\ n \in NodesIn(state.compiled) THEN published[n]
        ELSE state.previews[n]]]
=============================================================================
