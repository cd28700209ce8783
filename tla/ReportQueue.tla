------------------------------ MODULE ReportQueue ------------------------------
(***************************************************************************)
(* What the report mailbox promises: a frame shows what it would show had  *)
(* every report the worker posted since the last frame been kept and       *)
(* folded in the order it was posted.                                      *)
(***************************************************************************)
EXTENDS RunState

CONSTANT MaxRuns   \* bound: runs in a behaviour

VARIABLES
    queue,    \* the reports since the last drain, all of them
    state     \* what the editor shows

Init ==
    /\ queue = <<>>
    /\ state = BlankState

(* The worker adds one report. *)
Post ==
    /\ queue' # <<>> /\ queue = Front(queue')
    /\ UNCHANGED state

(* A frame takes them all. *)
Drain ==
    /\ queue' = <<>>
    /\ state' = Fold(state, queue)

(* The editor changes what it shows by itself: a document is swapped, the    *)
(* nodes of an eviction are projected, previews are shown.                   *)
Editor ==
    /\ UNCHANGED queue
    /\ \/ state' = Emptied(state)
       \/ \E evicted \in SUBSET Nodes : state' = ClearProjections(state, evicted)
       \/ \E n \in Nodes, run \in 1..MaxRuns :
             state' = ShowPreviews(state, [m \in Nodes |-> IF m = n THEN run ELSE 0], Nodes)

Next == Post \/ Drain \/ Editor

Spec == Init /\ [][Next]_<<queue, state>>
=============================================================================
