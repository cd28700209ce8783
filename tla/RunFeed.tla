-------------------------------- MODULE RunFeed --------------------------------
(***************************************************************************)
(* The editor around the worker: one thread records frames and gives       *)
(* commands, opens documents over one another, and folds what the worker   *)
(* reports and publishes; the worker merges commands into batches, runs    *)
(* and answers through the report mailbox, and the preview nodes it runs   *)
(* publish beside it.                                                      *)
(*                                                                         *)
(* Left out: the event loop (Worker has it), run errors (no editor command *)
(* names a node the program lacks, see NamedNodesAreInstalled), memory     *)
(* totals, and edits of a document: one program stands for a document.     *)
(***************************************************************************)
EXTENDS RunState, HostCommands

CONSTANTS
    Documents,     \* the documents opened in turn, each given by its program
    PreviewNodes,  \* the nodes that publish the value they are wired to
    MaxCommands    \* bound: commands in a behaviour

ASSUME FeedAssumption ==
    /\ Documents \in Seq(Programs) /\ Documents # <<>> /\ IsInjective(Documents)
    /\ PreviewNodes \subseteq Nodes

VARIABLES
    \* the editor's thread
    open,        \* the document that is open
    script,      \* posts the command in progress has still to make
    frame,       \* "idle", or "drained": between the two halves of RunState::sync
    state,       \* RunState
    commands,
    \* the worker
    pending,     \* the batch in its mailbox
    phase,       \* "rest", "apply", "applied", "run"
    intent,      \* the batch it applies
    installed,   \* the program of the engine
    invoked,     \* nodes the run invoked, to their status so far; then what each came to
    \* between the two
    reports, superseded,   \* ReportMailbox
    sink,                  \* PreviewSink: the run of the value each node published
    \* history
    ranUnder,    \* the program of each run begun
    published    \* the run that published each node's latest value

workerVars == <<phase, intent, installed, invoked, ranUnder>>
boxVars == <<reports, superseded>>
editorVars == <<open, script, frame, state, commands>>
vars == <<editorVars, workerVars, boxVars, pending, sink, published>>

NothingPublished == [n \in Nodes |-> 0]

Init ==
    /\ open = 1 /\ script = <<>> /\ frame = "idle" /\ state = BlankState /\ commands = 0
    /\ pending = EmptyIntent /\ phase = "rest" /\ intent = EmptyIntent
    /\ installed = Empty /\ invoked = << >>
    /\ reports = <<>> /\ superseded = 0
    /\ sink = NothingPublished
    /\ ranUnder = <<>> /\ published = NothingPublished

run == Len(ranUnder)   \* the run in progress, or the last one

-----------------------------------------------------------------------------
(* The editor.  A command is given between frames, and posted whole before   *)
(* the next one.                                                              *)

AtCommands == frame = "idle" /\ script = <<>>

Give(posts) ==
    /\ AtCommands /\ commands < MaxCommands
    /\ commands' = commands + 1
    /\ script' = posts
    /\ UNCHANGED <<frame, pending, sink, published, workerVars, boxVars>>

Document == Documents[open]

Run == Give(RunOnce(Document)) /\ UNCHANGED <<open, state>>

Flush(n) ==
    /\ n \in NodesIn(Document)
    /\ Give(FlushNode(Document, n)) /\ UNCHANGED <<open, state>>

(* The cone holds the node and all that reads it, here any nodes.            *)
Evict(n, cone) ==
    /\ n \in cone /\ cone \subseteq NodesIn(Document)
    /\ Give(EvictNode(Document, n))
    /\ state' = ClearProjections(state, cone)
    /\ UNCHANGED open

(* adopt_document *)
OpenDocument ==
    /\ open < Len(Documents)
    /\ Give(ClearProgram)
    /\ state' = Emptied(state)
    /\ open' = open + 1

PostNext ==
    /\ script # <<>>
    /\ pending' = FoldLeft(Push, pending, Head(script))
    /\ script' = Tail(script)
    /\ UNCHANGED <<open, frame, state, commands, sink, published, workerVars, boxVars>>

(* Mutant: the runs that ended in superseded reports are not counted. *)
DrainReportsUncounted ==
    /\ AtCommands
    /\ frame' = "drained"
    /\ state' = Fold(state, reports)
    /\ reports' = <<>> /\ superseded' = 0
    /\ UNCHANGED <<open, script, commands, pending, sink, published, workerVars>>

(* The first half of RunState::sync *)
DrainReports ==
    /\ AtCommands
    /\ frame' = "drained"
    /\ state' = Fold([state EXCEPT !.runsEnded = @ + superseded], reports)
    /\ reports' = <<>> /\ superseded' = 0
    /\ UNCHANGED <<open, script, commands, pending, sink, published, workerVars>>

(* ...and the second, which takes a second lock. *)
DrainPreviews ==
    /\ frame = "drained"
    /\ frame' = "idle"
    /\ state' = ShowPreviews(state, sink, NodesIn(Document))
    /\ sink' = NothingPublished
    /\ UNCHANGED <<open, script, commands, pending, published, workerVars, boxVars>>

Editor ==
    \/ Run \/ OpenDocument \/ PostNext \/ DrainReports \/ DrainPreviews
    \/ \E n \in Nodes : Flush(n) \/ \E cone \in SUBSET Nodes : Evict(n, cone)

-----------------------------------------------------------------------------
(* The worker *)

Report(report) ==
    /\ reports' = Merge(reports, report)
    /\ superseded' = superseded + RunsSuperseded(reports, report)

TakeBatch ==
    /\ phase = "rest" /\ ~IsEmpty(pending)
    /\ phase' = "apply"
    /\ intent' = pending
    /\ pending' = EmptyIntent
    /\ UNCHANGED <<installed, invoked, ranUnder, sink, published, boxVars, editorVars>>

ApplyGraph ==
    /\ phase = "apply"
    /\ phase' = "applied"
    /\ IF intent.graph = None
       THEN UNCHANGED <<installed, boxVars>>
       ELSE /\ installed' = intent.graph
            /\ Report(IF installed' = Empty THEN Cleared ELSE Installed(installed', {}))
    /\ UNCHANGED <<pending, intent, invoked, ranUnder, sink, published, editorVars>>

Runs == ~NoSeeds(intent) /\ NodesIn(installed) # {}

EndBatch ==
    /\ phase = "applied" /\ ~Runs
    /\ phase' = "rest"
    /\ intent' = EmptyIntent
    /\ UNCHANGED <<pending, installed, invoked, ranUnder, sink, published, boxVars, editorVars>>

BeginRun ==
    /\ phase = "applied" /\ Runs
    /\ phase' = "run"
    /\ ranUnder' = Append(ranUnder, installed)
    /\ invoked' = << >>
    /\ Report(Activity("Executing"))
    /\ UNCHANGED <<pending, intent, installed, sink, published, editorVars>>

Underway == {n \in DOMAIN invoked : invoked[n] \in {"Running", "Published"}}

StartNode(n) ==
    /\ phase = "run" /\ Underway = {}
    /\ n \in NodesIn(installed) \ DOMAIN invoked
    /\ invoked' = [m \in DOMAIN invoked \cup {n} |-> IF m = n THEN "Running" ELSE invoked[m]]
    /\ Report(Progress(n, "Running", run))
    /\ UNCHANGED <<phase, pending, intent, installed, ranUnder, sink, published, editorVars>>

(* Mutant: the sink keeps the first value since the last frame. *)
PublishFirst(n) ==
    /\ phase = "run" /\ n \in Underway \cap PreviewNodes /\ invoked[n] = "Running"
    /\ invoked' = [invoked EXCEPT ![n] = "Published"]
    /\ sink' = IF sink[n] = 0 THEN [sink EXCEPT ![n] = run] ELSE sink
    /\ published' = [published EXCEPT ![n] = run]
    /\ UNCHANGED <<phase, pending, intent, installed, ranUnder, boxVars, editorVars>>

(* The lambda of a preview node: no report, and no wake, of its own. *)
Publish(n) ==
    /\ phase = "run" /\ n \in Underway \cap PreviewNodes /\ invoked[n] = "Running"
    /\ invoked' = [invoked EXCEPT ![n] = "Published"]
    /\ sink' = [sink EXCEPT ![n] = run]
    /\ published' = [published EXCEPT ![n] = run]
    /\ UNCHANGED <<phase, pending, intent, installed, ranUnder, boxVars, editorVars>>

(* A preview node fails only when it is refused an input and never called.    *)
FinishNode(n, result) ==
    /\ phase = "run" /\ n \in Underway
    /\ n \in PreviewNodes => (invoked[n] = "Published") = (result = "Executed")
    /\ invoked' = [invoked EXCEPT ![n] = result]
    /\ Report(Progress(n, result, run))
    /\ UNCHANGED <<phase, pending, intent, installed, ranUnder, sink, published, editorVars>>

(* A run ends when it invoked what it had to, or, cancelled, before or in    *)
(* any node; see ReportMailbox for what the summary says (to this module a   *)
(* node served from a cache and one skipped are alike).                       *)
CompleteRun(others) ==
    /\ phase = "run"
    /\ phase' = "rest"
    /\ intent' = EmptyIntent
    /\ invoked' = [n \in NodesIn(installed) |->
                      IF n \notin DOMAIN invoked THEN others[n]
                      ELSE IF n \in Underway THEN "None" ELSE invoked[n]]
    /\ Report(Completed(run, "Idle", invoked', {}))
    /\ UNCHANGED <<pending, installed, ranUnder, sink, published, editorVars>>

Worker ==
    \/ TakeBatch \/ ApplyGraph \/ EndBatch \/ BeginRun
    \/ \E others \in [NodesIn(installed) \ DOMAIN invoked -> {"None", "Cached"}] : CompleteRun(others)
    \/ \E n \in Nodes : StartNode(n) \/ Publish(n)
    \/ \E n \in Nodes, result \in {"Executed", "Errored"} : FinishNode(n, result)

Next == Editor \/ Worker

Spec == Init /\ [][Next]_vars

-----------------------------------------------------------------------------
(* Nothing left to do on either side, and all that was reported is folded. *)
Quiet ==
    /\ IsEmpty(pending) /\ phase = "rest"
    /\ reports = <<>> /\ AtCommands

(* At rest the editor shows the worker as it is: its program, idle, every    *)
(* run counted however many reports were merged away, and no published value *)
(* waits for a frame that nothing will ask for.                              *)
SettledViewIsTruthful ==
    Quiet =>
        /\ state.compiled = (IF installed = Empty THEN None ELSE installed)
        /\ state.activity = "Idle"
        /\ state.runsEnded = run
        /\ sink = NothingPublished

(* At rest the statuses shown are of one run, the one the status bar sums    *)
(* up, none of an earlier run beside them; and when the last run was of the  *)
(* open document, they are what each of its nodes came to.                   *)
ResultsAreOfTheLastRun ==
    Quiet =>
        /\ \A n \in Nodes : state.nodes[n].run \in {0, state.outcome}
        /\ run > 0 /\ ranUnder[run] = Document =>
              \A n \in Nodes :
                 state.nodes[n].status = (IF n \in DOMAIN invoked THEN invoked[n] ELSE "None")

(* At rest a preview shows the value its node published last, or nothing, or *)
(* one from before the document was opened; never one of the open document's *)
(* own that a later run replaced.                                             *)
PreviewsAreTheLatest ==
    Quiet => \A n \in Nodes :
        \/ state.previews[n] \in {0, published[n]}
        \/ ranUnder[state.previews[n]] # Document
=============================================================================
