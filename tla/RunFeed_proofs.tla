------------------------------ MODULE RunFeed_proofs ------------------------------
(***************************************************************************)
(* What the editor shows of the worker at rest is the truth, for every set *)
(* of documents opened in turn, every preview node and every interleaving. *)
(* The argument looks at what a frame begun now would make of the state    *)
(* (Caught): a report posted is a report folded into it, whatever the      *)
(* mailbox merged (Said), and a drain leaves it as it is; so it follows    *)
(* the worker step by step, and at rest it is the state itself.            *)
(***************************************************************************)
EXTENDS RunFeed, TLAPS

(* The facts of the mailbox's folds and merges; none is about its steps.     *)
Box == INSTANCE ReportMailbox_proofs
    WITH held <- {}, posted <- <<>>, total <- 0, changes <- 0,
         MaxRuns <- 0, MaxReports <- 0, MaxChanges <- 0

Counting(s, k) == [s EXCEPT !.runsEnded = s.runsEnded + k]

(* What a frame begun now would make of b. *)
Caught(b) == Fold(Counting(b, superseded), reports)

(* The documents opened so far, and the programs that ran. *)
Opened == {Documents[i] : i \in 1..open}
Ran(d) == \E i \in 1..run : ranUnder[i] = d

ScriptType ==
    \/ script \in {<<>>, ClearProgram, RunOnce(Document), << <<RunSinks>> >>}
    \/ \E n \in Nodes : script \in {EvictNode(Document, n), FlushNode(Document, n)}

(* Every program on its way was compiled from a document opened by now. *)
IntentInv ==
    /\ pending \in Intent /\ intent \in Intent
    /\ {pending.graph, intent.graph} \subseteq Opened \cup {Empty, None}
    /\ installed \in Opened \cup {Empty}
    /\ \A i \in 1..run : ranUnder[i] \in Opened

(* What is on its way goes in order: once the open document is installed, or *)
(* waits to be, nothing behind it clears it or is of another document.        *)
OrderInv ==
    /\ installed = Document \/ Ran(Document) =>
          /\ installed = Document
          /\ phase = "apply" => intent.graph \in {None, Document}
          /\ pending.graph \in {None, Document}
          /\ script # ClearProgram
    /\ phase = "apply" /\ intent.graph = Document =>
          pending.graph \in {None, Document} /\ script # ClearProgram
    /\ pending.graph = Document => script # ClearProgram

(* A run is of the program installed. *)
Statuses == Phases \cup Unrun
RunInv ==
    /\ phase = "run" =>
          /\ run > 0 /\ ranUnder[run] = installed
          /\ DOMAIN invoked \subseteq NodesIn(installed)
    /\ DOMAIN invoked \subseteq Nodes
    /\ \A n \in DOMAIN invoked : /\ invoked[n] \in Statuses \cup {"Published"}
                                 /\ invoked[n] = "Published" => phase = "run"

(* c shows the worker as it is. *)
ShowsTheWorker(c) ==
    /\ c.compiled = (IF installed = Empty THEN None ELSE installed)
    /\ c.activity = (IF phase = "run" THEN "Executing" ELSE "Idle")
    /\ c.runsEnded = (IF phase = "run" THEN run - 1 ELSE run)

(* The statuses shown are of the run summed up, or of one of more. *)
Current == IF phase = "run" THEN {run} ELSE {}
OfOneRun(c, more) == \A n \in Nodes : c.nodes[n].run \in {0, c.outcome} \cup more

(* c shows the last run as it went, if it was of the open document. *)
Shown(status) == IF status = "Published" THEN "Running" ELSE status
ShowsTheRun(c) ==
    run > 0 /\ ranUnder[run] = Document =>
        /\ \A n \in DOMAIN invoked : c.nodes[n].status = Shown(invoked[n])
        /\ phase # "run" => \A n \in Nodes \ DOMAIN invoked : c.nodes[n].status = "None"

(* A preview of a run of the open document is the latest, or a later one     *)
(* waits that the next frame takes: the program it has acknowledged is the   *)
(* document's by then.                                                        *)
Own(n) == state.previews[n] # 0 /\ ranUnder[state.previews[n]] = Document
PreviewInv ==
    /\ \A n \in Nodes :
          /\ sink[n] \in {0, published[n]}
          /\ published[n] <= run /\ state.previews[n] <= run
          /\ state.previews[n] # 0 => n \in NodesIn(Document)
          /\ Own(n) => sink[n] # 0 \/ state.previews[n] = published[n]
          /\ frame = "drained" /\ Own(n) => state.compiled = Document
    /\ sink # NothingPublished => phase = "run" \/ reports # <<>> \/ frame = "drained"

TypeInv ==
    /\ open \in 1..Len(Documents) /\ frame \in {"idle", "drained"}
    /\ phase \in {"rest", "apply", "applied", "run"}
    /\ state \in Box!State
    /\ installed \in Programs \cup {Empty}
    /\ reports \in Seq(Box!Report) /\ superseded \in Nat
    /\ reports = <<>> => superseded = 0
    /\ sink \in [Nodes -> Nat] /\ published \in [Nodes -> Nat]
    /\ ranUnder \in Seq(Programs)
    /\ ScriptType

(* Nothing is left of an earlier run in any state a frame may start from.     *)
ResultsInv ==
    \A b \in Box!State :
        b = state \/ OfOneRun(b, {}) => OfOneRun(Caught(b), Current)

ViewInv == ShowsTheWorker(Caught(state)) /\ ShowsTheRun(Caught(state))

IInv == TypeInv /\ IntentInv /\ OrderInv /\ RunInv /\ ViewInv /\ ResultsInv /\ PreviewInv

-----------------------------------------------------------------------------
(* The mailbox's folds and merges are the feed's *)

\* One report is folded alike.
LEMMA BoxApplies ==
    ASSUME NEW s, NEW r
    PROVE  Box!ApplyReport(s, r) = ApplyReport(s, r)
BY Zenon DEF ApplyReport, Emptied, ApplyProgress, ReplaceResults, NoNode,
             Box!ApplyReport, Box!Emptied, Box!ApplyProgress, Box!ReplaceResults, Box!NoNode

\* So is a box of them.
LEMMA BoxFolds ==
    ASSUME NEW s, NEW q
    PROVE  Box!Fold(s, q) = Fold(s, q)
BY Zenon DEF Fold, FoldLeft, MapThenFoldSet, Max, ApplyReport, Emptied, ApplyProgress,
             ReplaceResults, NoNode,
             Box!Fold, Box!FoldLeft, Box!MapThenFoldSet, Box!Max, Box!ApplyReport,
             Box!Emptied, Box!ApplyProgress, Box!ReplaceResults, Box!NoNode

\* A merge looks as far back...
LEMMA BoxSince ==
    ASSUME NEW q
    PROVE  Box!Recent(q) = Recent(q) /\ Box!Since(q) = Since(q)
<1>1. Box!Since(q) = Since(q)
  BY Zenon DEF Since, SelectLastInSeq, IsStructural, Max,
               Box!Since, Box!SelectLastInSeq, Box!IsStructural, Box!Max
<1>. QED  BY Zenon, <1>1 DEF Recent, Box!Recent

\* ...and supersedes the same reports.
LEMMA BoxSupersedes ==
    ASSUME NEW q, NEW r
    PROVE  Box!Kept(q, r) = Kept(q, r) /\ Box!Ended(q, r) = Ended(q, r)
<1>1. \A i \in DOMAIN q : Box!Supersedes(r, q[i]) <=> Supersedes(r, q[i])
  BY Zenon DEF Supersedes, Box!Supersedes
<1>2. \A i \in DOMAIN q : Box!EndsARun(q[i]) <=> EndsARun(q[i])
  BY Zenon DEF EndsARun, Box!EndsARun
<1>3. {i \in DOMAIN q : ~Box!Supersedes(r, q[i])} = {i \in DOMAIN q : ~Supersedes(r, q[i])}
  BY Zenon, <1>1
<1>4. {i \in DOMAIN q : Box!Supersedes(r, q[i]) /\ Box!EndsARun(q[i])}
        = {i \in DOMAIN q : Supersedes(r, q[i]) /\ EndsARun(q[i])}
  BY Zenon, <1>1, <1>2
<1>5. \A places : Box!Picked(q, places) = Picked(q, places)
  BY Zenon DEF Picked, Box!Picked
<1>. QED  BY Zenon, <1>3, <1>4, <1>5 DEF Kept, Ended, Box!Kept, Box!Ended

\* So a merge is a merge.
LEMMA BoxMerges ==
    ASSUME NEW q, NEW r
    PROVE  Box!Merge(q, r) = Merge(q, r) /\ Box!RunsSuperseded(q, r) = RunsSuperseded(q, r)
BY Zenon, BoxSince, BoxSupersedes DEF Merge, RunsSuperseded, Box!Merge, Box!RunsSuperseded

\* What counting leaves, field by field.
LEMMA Counted ==
    ASSUME NEW s \in Box!State, NEW k \in Nat
    PROVE  Counting(s, k) =
             [nodes |-> s.nodes, previews |-> s.previews, outcome |-> s.outcome,
              compiled |-> s.compiled, activity |-> s.activity, cacheRam |-> s.cacheRam,
              runsEnded |-> s.runsEnded + k, parked |-> s.parked]
BY DEF Box!State, Counting

\* Counting leaves a state, and adds up.
LEMMA CountingAdds ==
    ASSUME NEW s \in Box!State, NEW j \in Nat, NEW k \in Nat
    PROVE  /\ Counting(s, k) \in Box!State
           /\ Counting(Counting(s, j), k) = Counting(s, j + k)
           /\ Counting(s, 0) = s
           /\ Box!Counting(s, k) = Counting(s, k)
<1>1. s.runsEnded \in Nat
  BY DEF Box!State
<1>2. Counting(s, k) \in Box!State
  BY <1>1 DEF Box!State, Counting
<1>3. Counting(Counting(s, j), k) = Counting(s, j + k)
  <2>0. Counting(s, j) \in Box!State
    BY <1>1 DEF Box!State, Counting
  <2>1. PICK t \in Box!State : t = Counting(s, j)
    BY <2>0
  <2>2. /\ t.nodes = s.nodes /\ t.previews = s.previews /\ t.outcome = s.outcome
        /\ t.compiled = s.compiled /\ t.activity = s.activity /\ t.cacheRam = s.cacheRam
        /\ t.runsEnded + k = s.runsEnded + (j + k) /\ t.parked = s.parked
    BY <1>1, <2>1, Counted
  <2>3. Counting(t, k) = Counting(s, j + k)
    BY <2>2, Counted
  <2>. QED  BY <2>1, <2>3
<1>4. Counting(s, 0) = s
  BY <1>1 DEF Box!State, Counting
<1>5. Box!Counting(s, k) = Counting(s, k)
  BY Zenon DEF Counting, Box!Counting
<1>. QED  BY <1>2, <1>3, <1>4, <1>5

\* A fold is of states, and of nothing leaves what there was.
LEMMA FoldsToState ==
    ASSUME NEW s \in Box!State, NEW q \in Seq(Box!Report)
    PROVE  Fold(s, q) \in Box!State /\ Fold(s, <<>>) = s
<1>1. Box!Fold(s, q) \in Box!State /\ Box!Fold(s, <<>>) = s
  BY Box!FoldIsState, Box!FoldNothing, ProgramAssumption
<1>. QED  BY Zenon, <1>1, BoxFolds

\* Merging a report into the box folds it into what a frame would make of any
\* state, the runs ended aside in the box counted with the others.
LEMMA MergeFolds ==
    ASSUME NEW s \in Box!State, NEW k \in Nat, NEW box \in Seq(Box!Report), NEW r \in Box!Report
    PROVE  /\ Merge(box, r) \in Seq(Box!Report) /\ Merge(box, r) # <<>>
           /\ RunsSuperseded(box, r) \in Nat
           /\ Fold(Counting(s, k), box) \in Box!State
           /\ Fold(Counting(s, k + RunsSuperseded(box, r)), Merge(box, r))
                = ApplyReport(Fold(Counting(s, k), box), r)
<1>. DEFINE t == Counting(s, k)
            more == RunsSuperseded(box, r)
<1>1. t \in Box!State
  BY CountingAdds
<1>2. /\ Box!Merge(box, r) \in Seq(Box!Report) /\ Box!RunsSuperseded(box, r) \in Nat
      /\ Box!Fold(Box!Counting(t, Box!RunsSuperseded(box, r)), Box!Merge(box, r))
           = Box!Fold(t, Append(box, r))
  <2>. HIDE DEF t
  <2>. QED  BY <1>1, Box!MergeLeavesTheFold, ProgramAssumption
<1>3. Box!Fold(t, Append(box, r)) = Box!ApplyReport(Box!Fold(t, box), r)
  <2>. HIDE DEF t
  <2>. QED  BY <1>1, Box!FoldOneMore, ProgramAssumption
<1>4. Merge(box, r) \in Seq(Box!Report) /\ more \in Nat
  BY Zenon, <1>2, BoxMerges
<1>5. Merge(box, r) # <<>>
  <2>. DEFINE kept == SubSeq(box, 1, Box!Since(box)) \o Box!Kept(Box!Recent(box), r)
  <2>1. kept \in Seq(Box!Report)
    BY Box!MergeStepwise, ProgramAssumption
  <2>2. Box!Merge(box, r) = kept \o <<r>>
    BY DEF Box!Merge
  <2>3. kept \o <<r>> # <<>>
    <3>. HIDE DEF kept
    <3>. QED  BY <2>1
  <2>. QED  BY Zenon, <2>2, <2>3, BoxMerges
<1>6. Fold(t, box) \in Box!State
  <2>. HIDE DEF t
  <2>. QED  BY <1>1, FoldsToState
<1>7. Box!Counting(t, more) = Counting(s, k + more)
  <2>1. Box!Counting(t, more) = Counting(t, more)
    <3>. HIDE DEF t, more
    <3>. QED  BY <1>1, <1>4, CountingAdds
  <2>2. Counting(t, more) = Counting(s, k + more)
    <3>. HIDE DEF more
    <3>. QED  BY <1>4, CountingAdds
  <2>. QED  BY Zenon, <2>1, <2>2
<1>8. Fold(Counting(s, k + more), Merge(box, r)) = ApplyReport(Fold(t, box), r)
  <2>. HIDE DEF t
  <2>1. Fold(Box!Counting(t, more), Merge(box, r)) = Box!ApplyReport(Fold(t, box), r)
    BY Zenon, <1>2, <1>3, BoxFolds, BoxMerges
  <2>. QED  BY Zenon, <2>1, <1>7, BoxApplies
<1>. QED  BY <1>4, <1>5, <1>6, <1>8

-----------------------------------------------------------------------------
(* Two states folded beside each other *)

(* Alike in what the state holds of the worker. *)
WorkerAlike(s, t) ==
    s.compiled = t.compiled /\ s.activity = t.activity /\ s.runsEnded = t.runsEnded

(* Alike in the results shown. *)
ResultsAlike(s, t) ==
    /\ s.outcome = t.outcome
    /\ \A n \in Nodes : s.nodes[n].status = t.nodes[n].status /\ s.nodes[n].run = t.nodes[n].run

(* s shows a preview only where t shows the same one. *)
FewerPreviews(s, t) == \A n \in Nodes : s.previews[n] \in {0, t.previews[n]}

(* The states a fold of q goes through. *)
Steps(g, s, q) ==
    /\ g[0] = s /\ Fold(s, q) = g[Len(q)]
    /\ \A k \in 0..Len(q) : g[k] \in Box!State
    /\ \A k \in 1..Len(q) : g[k] = ApplyReport(g[k - 1], q[k])

(* The messages of a post are pushed one by one. *)
PushBody(env, intent0, m) == Push(intent0, m)
Pushing == INSTANCE Recursion WITH Body <- PushBody
Posted(intent0, q) == FoldLeft(Push, intent0, q)

\* A statement about the places up to n that holds at 0 and passes from each
\* place to the next holds at them all.
LEMMA PlaceByPlace ==
    ASSUME NEW n \in Nat, NEW S, 0 \in S,
           \A k \in 1..n : k - 1 \in S => k \in S
    PROVE  \A k \in 0..n : k \in S
<1>. DEFINE Bad == {k \in 0..n : k \notin S}
<1>1. SUFFICES ASSUME Bad # {} PROVE FALSE
  OBVIOUS
<1>2. PICK k \in Bad : \A m \in Bad : k <= m
  <2>1. Bad \subseteq Nat
    OBVIOUS
  <2>. HIDE DEF Bad
  <2>. QED  BY <1>1, <2>1, Pushing!LeastNatural
<1>3. k # 0 /\ k \in 1..n /\ k - 1 \in 0..n /\ k - 1 \notin Bad
  BY <1>2
<1>. QED  BY <1>2, <1>3

\* A sequence of reports, spelled out.
LEMMA ReportsAt ==
    ASSUME NEW q \in Seq(Box!Report)
    PROVE  Len(q) \in Nat /\ \A i \in 1..Len(q) : q[i] \in Box!Report
OBVIOUS

\* A fold goes step by step.
LEMMA FoldSteps ==
    ASSUME NEW s \in Box!State, NEW q \in Seq(Box!Report)
    PROVE  \E g : Steps(g, s, q)
<1>1. PICK g : Box!IsTrace(g, s, q) /\ Box!Fold(s, q) = g[Len(q)]
  BY Box!FoldHasTrace, ProgramAssumption
<1>2. \A k \in 0..Len(q) : g[k] \in Box!State
  BY <1>1, Box!TraceOfStates, ProgramAssumption
<1>3. g[0] = s /\ \A k \in 1..Len(q) : g[k] = Box!ApplyReport(g[k - 1], q[k])
  BY Zenon, <1>1 DEF Box!IsTrace
<1>4. \A k \in 1..Len(q) : g[k] = ApplyReport(g[k - 1], q[k])
  BY Zenon, <1>3, BoxApplies
<1>5. Fold(s, q) = g[Len(q)]
  BY Zenon, <1>1, BoxFolds
<1>. QED  BY <1>2, <1>3, <1>4, <1>5 DEF Steps

\* What a report leaves of each field, taken over from the mailbox's lemmas.
LEMMA ClearedFold ==
    ASSUME NEW s \in Box!State, NEW r, r.type = "Cleared"
    PROVE  ApplyReport(s, r) =
             [nodes |-> Box!NoNodes, previews |-> Box!NoPreviews,
              outcome |-> 0, compiled |-> None, activity |-> s.activity, cacheRam |-> {},
              runsEnded |-> s.runsEnded, parked |-> s.parked]
BY Box!FoldedCleared, BoxApplies, ProgramAssumption

\* An engine error.
LEMMA ExecErrorFold ==
    ASSUME NEW s \in Box!State, NEW r, r.type = "ExecError"
    PROVE  ApplyReport(s, r) =
             [nodes |-> Box!NoNodes, previews |-> Box!NoPreviews,
              outcome |-> 0, compiled |-> s.compiled, activity |-> s.activity,
              cacheRam |-> s.cacheRam, runsEnded |-> s.runsEnded + 1, parked |-> "failure"]
BY Box!FoldedExecError, BoxApplies, ProgramAssumption

\* The progress of a node.
LEMMA ProgressFold ==
    ASSUME NEW s \in Box!State, NEW r \in Box!Report, r.type = "Progress"
    PROVE  ApplyReport(s, r) =
             [nodes |-> Box!Progressed(s.nodes, r), previews |-> s.previews, outcome |-> s.outcome,
              compiled |-> s.compiled, activity |-> s.activity, cacheRam |-> s.cacheRam,
              runsEnded |-> s.runsEnded, parked |-> s.parked]
BY Box!FoldedProgress, BoxApplies, ProgramAssumption

\* A completed run.
LEMMA CompletedFold ==
    ASSUME NEW s \in Box!State, NEW r, r.type = "Completed"
    PROVE  ApplyReport(s, r) =
             [nodes |-> Box!ResultsOf(r), previews |-> s.previews, outcome |-> r.run,
              compiled |-> s.compiled, activity |-> r.activity, cacheRam |-> r.ram,
              runsEnded |-> s.runsEnded + 1, parked |-> "none"]
BY Box!FoldedCompleted, BoxApplies, ProgramAssumption

\* What a node shows after a progress report.
LEMMA ProgressedNodes ==
    ASSUME NEW s \in Box!State, NEW r \in Box!Report, r.type = "Progress", NEW n \in Nodes
    PROVE  /\ r.node \in Nodes
           /\ n = r.node => /\ Box!Progressed(s.nodes, r)[n].status = r.phase
                            /\ Box!Progressed(s.nodes, r)[n].run = r.run
           /\ n # r.node => Box!Progressed(s.nodes, r)[n] = s.nodes[n]
<1>1. r.node \in Nodes
  BY DEF Box!Report
<1>2. s.nodes \in [Nodes -> Box!NodeState] /\ s.nodes[r.node] \in Box!NodeState
  BY <1>1 DEF Box!State
<1>. QED  BY <1>1, <1>2 DEF Box!Progressed, Box!NodeState

\* One report keeps states alike in what they were alike in.
LEMMA ReportKeepsAlike ==
    ASSUME NEW s \in Box!State, NEW t \in Box!State, NEW r \in Box!Report
    PROVE  /\ WorkerAlike(s, t) => WorkerAlike(ApplyReport(s, r), ApplyReport(t, r))
           /\ ResultsAlike(s, t) => ResultsAlike(ApplyReport(s, r), ApplyReport(t, r))
<1>1. CASE r.type \in {"Installed", "OtherError", "Activity"}
  <2>1. \A u \in Box!State :
           LET v == ApplyReport(u, r)
           IN  /\ v.nodes = u.nodes /\ v.outcome = u.outcome /\ v.runsEnded = u.runsEnded
               /\ v.compiled = (IF r.type = "Installed" THEN r.program ELSE u.compiled)
               /\ v.activity = (IF r.type = "Activity" THEN r.activity ELSE u.activity)
    BY <1>1 DEF ApplyReport, Box!State
  <2>. QED  BY <2>1 DEF WorkerAlike, ResultsAlike
<1>2. CASE r.type = "Cleared"
  BY <1>2, ClearedFold DEF WorkerAlike, ResultsAlike
<1>3. CASE r.type = "ExecError"
  BY <1>3, ExecErrorFold DEF WorkerAlike, ResultsAlike
<1>4. CASE r.type = "Progress"
  BY <1>4, ProgressFold, ProgressedNodes DEF WorkerAlike, ResultsAlike
<1>5. CASE r.type = "Completed"
  BY <1>5, CompletedFold DEF WorkerAlike, ResultsAlike
<1>. QED  BY <1>1, <1>2, <1>3, <1>4, <1>5 DEF Box!Report

\* So does a box of them.
LEMMA FoldKeepsAlike ==
    ASSUME NEW s \in Box!State, NEW t \in Box!State, NEW q \in Seq(Box!Report)
    PROVE  /\ WorkerAlike(s, t) => WorkerAlike(Fold(s, q), Fold(t, q))
           /\ ResultsAlike(s, t) => ResultsAlike(Fold(s, q), Fold(t, q))
<1>1. PICK f : Steps(f, s, q)
  BY FoldSteps
<1>2. PICK g : Steps(g, t, q)
  BY FoldSteps
<1>3. Len(q) \in Nat /\ \A i \in 1..Len(q) : q[i] \in Box!Report
  BY ReportsAt
<1>. DEFINE S == {k \in 0..Len(q) :
                    /\ WorkerAlike(s, t) => WorkerAlike(f[k], g[k])
                    /\ ResultsAlike(s, t) => ResultsAlike(f[k], g[k])}
<1>4. 0 \in S
  BY <1>1, <1>2, <1>3 DEF Steps
<1>5. ASSUME NEW k \in 1..Len(q), k - 1 \in S PROVE k \in S
  <2>1. k \in 0..Len(q) /\ k - 1 \in 0..Len(q) /\ q[k] \in Box!Report
    BY <1>3
  <2>2. f[k - 1] \in Box!State /\ g[k - 1] \in Box!State
    BY <2>1, <1>1, <1>2 DEF Steps
  <2>3. f[k] = ApplyReport(f[k - 1], q[k]) /\ g[k] = ApplyReport(g[k - 1], q[k])
    BY <1>1, <1>2 DEF Steps
  <2>4. /\ WorkerAlike(f[k - 1], g[k - 1]) => WorkerAlike(f[k], g[k])
        /\ ResultsAlike(f[k - 1], g[k - 1]) => ResultsAlike(f[k], g[k])
    BY Zenon, <2>1, <2>2, <2>3, ReportKeepsAlike
  <2>. QED  BY Zenon, <1>5, <2>1, <2>4
<1>. HIDE DEF S
<1>6. \A k \in 0..Len(q) : k \in S
  BY <1>3, <1>4, <1>5, PlaceByPlace
<1>7. Len(q) \in S
  BY <1>3, <1>6
<1>. QED  BY Zenon, <1>1, <1>2, <1>7 DEF S, Steps

\* No report brings a preview.
LEMMA FoldBringsNoPreview ==
    ASSUME NEW s \in Box!State, NEW q \in Seq(Box!Report)
    PROVE  FewerPreviews(Fold(s, q), s)
<1>1. PICK g : Steps(g, s, q)
  BY FoldSteps
<1>2. Len(q) \in Nat /\ \A i \in 1..Len(q) : q[i] \in Box!Report
  BY ReportsAt
<1>. DEFINE S == {k \in 0..Len(q) : FewerPreviews(g[k], s)}
<1>3. 0 \in S
  BY <1>1, <1>2 DEF Steps, FewerPreviews
<1>4. ASSUME NEW k \in 1..Len(q), k - 1 \in S PROVE k \in S
  <2>1. k \in 0..Len(q) /\ k - 1 \in 0..Len(q) /\ q[k] \in Box!Report
    BY <1>2
  <2>2. g[k - 1] \in Box!State /\ g[k] = ApplyReport(g[k - 1], q[k])
    BY <2>1, <1>1 DEF Steps
  <2>3. PICK u \in Box!State, r \in Box!Report : u = g[k - 1] /\ r = q[k]
    BY <2>1, <2>2
  <2>4. ApplyReport(u, r).previews = u.previews \/ ApplyReport(u, r).previews = Box!NoPreviews
    <3>1. CASE r.type \in {"Installed", "OtherError", "Activity"}
      BY <3>1 DEF ApplyReport, Box!State
    <3>2. CASE r.type = "Cleared"
      BY <3>2, ClearedFold
    <3>3. CASE r.type = "ExecError"
      BY <3>3, ExecErrorFold
    <3>4. CASE r.type = "Progress"
      BY <3>4, ProgressFold
    <3>5. CASE r.type = "Completed"
      BY <3>5, CompletedFold
    <3>. QED  BY <3>1, <3>2, <3>3, <3>4, <3>5 DEF Box!Report
  <2>5. FewerPreviews(u, s)
    BY <1>4, <2>3
  <2>6. FewerPreviews(ApplyReport(u, r), s)
    BY <2>4, <2>5 DEF FewerPreviews, Box!NoPreviews
  <2>. QED  BY <2>1, <2>2, <2>3, <2>6
<1>. HIDE DEF S
<1>5. \A k \in 0..Len(q) : k \in S
  BY <1>2, <1>3, <1>4, PlaceByPlace
<1>6. Len(q) \in S
  BY <1>2, <1>5
<1>. QED  BY <1>1, <1>6 DEF S, Steps

-----------------------------------------------------------------------------
(* What the editor changes by itself *)

\* A document opened over another: nothing of a run is left.
LEMMA EmptiedState ==
    ASSUME NEW s \in Box!State
    PROVE  /\ Emptied(s) \in Box!State /\ WorkerAlike(Emptied(s), s)
           /\ OfOneRun(Emptied(s), {})
           /\ \A n \in Nodes : Emptied(s).previews[n] = 0
<1>1. Box!NoNodes \in [Nodes -> Box!NodeState] /\ Box!NoPreviews \in [Nodes -> Nat]
  BY DEF Box!NoNodes, Box!NoPreviews, Box!NoNode, Box!NodeState, Box!Unrun
<1>2. PICK nodes \in [Nodes -> Box!NodeState], previews \in [Nodes -> Nat] :
         nodes = Box!NoNodes /\ previews = Box!NoPreviews
  BY <1>1
<1>. DEFINE t == Emptied(s)
<1>3. t = [s EXCEPT !.nodes = nodes, !.previews = previews, !.outcome = 0]
  BY Zenon, <1>2 DEF Emptied, Box!NoNodes, Box!NoPreviews, Box!NoNode, NoNode
<1>4. /\ t \in Box!State /\ t.nodes = nodes /\ t.previews = previews
      /\ t.compiled = s.compiled /\ t.activity = s.activity /\ t.runsEnded = s.runsEnded
  <2>. HIDE DEF t
  <2>. QED  BY <1>3 DEF Box!State
<1>5. \A n \in Nodes : nodes[n].run = 0 /\ previews[n] = 0
  BY <1>2 DEF Box!NoNodes, Box!NoPreviews, Box!NoNode
<1>. HIDE DEF t
<1>6. WorkerAlike(t, s) /\ OfOneRun(t, {}) /\ \A n \in Nodes : t.previews[n] = 0
  BY <1>4, <1>5 DEF WorkerAlike, OfOneRun
<1>. QED  BY <1>4, <1>6 DEF t

\* An eviction projected: the results stay as they are.
LEMMA ProjectedState ==
    ASSUME NEW s \in Box!State, NEW cone
    PROVE  LET t == ClearProjections(s, cone)
           IN  /\ t \in Box!State /\ WorkerAlike(t, s) /\ ResultsAlike(t, s)
               /\ FewerPreviews(t, s)
<1>. DEFINE nodes == [n \in Nodes |-> IF n \in cone THEN [s.nodes[n] EXCEPT !.ram = FALSE]
                                      ELSE s.nodes[n]]
            previews == [n \in Nodes |-> IF n \in cone THEN 0 ELSE s.previews[n]]
            t == ClearProjections(s, cone)
<1>1. t = [nodes |-> nodes, previews |-> previews, outcome |-> s.outcome,
           compiled |-> s.compiled, activity |-> s.activity, cacheRam |-> {},
           runsEnded |-> s.runsEnded, parked |-> s.parked]
  <2>1. t = [s EXCEPT !.cacheRam = {}, !.nodes = nodes, !.previews = previews]
    BY Zenon DEF ClearProjections
  <2>. HIDE DEF nodes, previews, t
  <2>. QED  BY <2>1 DEF Box!State
<1>2. s.nodes \in [Nodes -> Box!NodeState] /\ s.previews \in [Nodes -> Nat]
  BY DEF Box!State
<1>3. \A n \in Nodes : /\ nodes[n] \in Box!NodeState
                       /\ nodes[n].status = s.nodes[n].status /\ nodes[n].run = s.nodes[n].run
  BY <1>2 DEF Box!NodeState
<1>4. nodes \in [Nodes -> Box!NodeState] /\ previews \in [Nodes -> Nat]
  BY <1>2, <1>3
<1>5. t \in Box!State
  <2>. HIDE DEF nodes, previews, t
  <2>. QED  BY <1>1, <1>4 DEF Box!State
<1>6. WorkerAlike(t, s) /\ ResultsAlike(t, s)
  <2>. HIDE DEF nodes, previews, t
  <2>. QED  BY <1>1, <1>3 DEF WorkerAlike, ResultsAlike
<1>7. FewerPreviews(t, s)
  <2>1. t.previews = previews
    <3>. HIDE DEF nodes, previews, t
    <3>. QED  BY <1>1
  <2>2. \A n \in Nodes : previews[n] \in {0, s.previews[n]}
    OBVIOUS
  <2>. HIDE DEF previews, t
  <2>. QED  BY <2>1, <2>2 DEF FewerPreviews
<1>. QED  BY <1>5, <1>6, <1>7

\* Previews shown: nothing else moves.
LEMMA ShownState ==
    ASSUME NEW s \in Box!State, NEW values \in [Nodes -> Nat], NEW inDocument
    PROVE  LET t == ShowPreviews(s, values, inDocument)
           IN  /\ t \in Box!State /\ WorkerAlike(t, s) /\ ResultsAlike(t, s)
               /\ t.compiled = s.compiled
               /\ \A n \in Nodes : t.previews[n] =
                     IF n \notin inDocument THEN 0
                     ELSE IF values[n] # 0 /\ n \in NodesIn(s.compiled) THEN values[n]
                     ELSE s.previews[n]
<1>. DEFINE previews == [n \in Nodes |->
                            IF n \notin inDocument THEN 0
                            ELSE IF values[n] # 0 /\ n \in NodesIn(s.compiled) THEN values[n]
                            ELSE s.previews[n]]
            t == ShowPreviews(s, values, inDocument)
<1>1. previews \in [Nodes -> Nat]
  BY DEF Box!State
<1>2. t = [s EXCEPT !.previews = previews]
  BY Zenon DEF ShowPreviews
<1>3. /\ t \in Box!State /\ t.previews = previews
      /\ t.nodes = s.nodes /\ t.outcome = s.outcome /\ t.compiled = s.compiled
      /\ t.activity = s.activity /\ t.runsEnded = s.runsEnded
  <2>. HIDE DEF previews, t
  <2>. QED  BY <1>1, <1>2 DEF Box!State
<1>. QED  BY <1>3 DEF WorkerAlike, ResultsAlike

-----------------------------------------------------------------------------
(* What a frame begun now would make of a state *)

\* It is a state, alike wherever the one it starts from is.
LEMMA CaughtState ==
    ASSUME TypeInv, NEW b \in Box!State, NEW c \in Box!State
    PROVE  /\ Caught(b) \in Box!State
           /\ WorkerAlike(b, c) => WorkerAlike(Caught(b), Caught(c))
           /\ ResultsAlike(b, c) => ResultsAlike(Caught(b), Caught(c))
           /\ FewerPreviews(Caught(b), b)
<1>1. superseded \in Nat /\ reports \in Seq(Box!Report)
  BY DEF TypeInv
<1>2. PICK k \in Nat, q \in Seq(Box!Report) : k = superseded /\ q = reports
  BY <1>1
<1>3. PICK b1 \in Box!State, c1 \in Box!State : b1 = Counting(b, k) /\ c1 = Counting(c, k)
  BY CountingAdds
<1>4. /\ b1.nodes = b.nodes /\ b1.previews = b.previews /\ b1.outcome = b.outcome
      /\ b1.compiled = b.compiled /\ b1.activity = b.activity /\ b1.runsEnded = b.runsEnded + k
  BY <1>3, Counted
<1>5. /\ c1.nodes = c.nodes /\ c1.outcome = c.outcome
      /\ c1.compiled = c.compiled /\ c1.activity = c.activity /\ c1.runsEnded = c.runsEnded + k
  BY <1>3, Counted
<1>6. Fold(b1, q) \in Box!State
  BY FoldsToState
<1>7. WorkerAlike(b, c) => WorkerAlike(Fold(b1, q), Fold(c1, q))
  <2>1. WorkerAlike(b, c) => WorkerAlike(b1, c1)
    BY <1>4, <1>5 DEF WorkerAlike
  <2>. QED  BY Zenon, <2>1, FoldKeepsAlike
<1>8. ResultsAlike(b, c) => ResultsAlike(Fold(b1, q), Fold(c1, q))
  <2>1. ResultsAlike(b, c) => ResultsAlike(b1, c1)
    BY <1>4, <1>5 DEF ResultsAlike
  <2>. QED  BY Zenon, <2>1, FoldKeepsAlike
<1>9. FewerPreviews(Fold(b1, q), b)
  <2>1. FewerPreviews(Fold(b1, q), b1)
    BY FoldBringsNoPreview
  <2>. QED  BY <2>1, <1>4 DEF FewerPreviews
<1>10. Caught(b) = Fold(b1, q) /\ Caught(c) = Fold(c1, q)
  BY Zenon, <1>2, <1>3 DEF Caught
<1>. QED  BY Zenon, <1>6, <1>7, <1>8, <1>9, <1>10

\* A report posted is a report folded into it.
LEMMA Said ==
    ASSUME TypeInv, NEW r \in Box!Report, Report(r)
    PROVE  /\ reports' \in Seq(Box!Report) /\ superseded' \in Nat /\ reports' # <<>>
           /\ \A b \in Box!State :
                 Caught(b)' = ApplyReport(Caught(b), r) /\ Caught(b) \in Box!State
<1>1. PICK k \in Nat, q \in Seq(Box!Report) : k = superseded /\ q = reports
  BY DEF TypeInv
<1>2. reports' = Merge(q, r) /\ superseded' = k + RunsSuperseded(q, r)
  BY <1>1 DEF Report
<1>3. Merge(q, r) \in Seq(Box!Report) /\ Merge(q, r) # <<>> /\ RunsSuperseded(q, r) \in Nat
  <2>1. PICK s : s \in Box!State
    BY DEF TypeInv
  <2>. QED  BY <2>1, MergeFolds
<1>4. ASSUME NEW b \in Box!State
      PROVE  Caught(b)' = ApplyReport(Caught(b), r) /\ Caught(b) \in Box!State
  <2>1. /\ Fold(Counting(b, k), q) \in Box!State
        /\ Fold(Counting(b, k + RunsSuperseded(q, r)), Merge(q, r))
             = ApplyReport(Fold(Counting(b, k), q), r)
    BY MergeFolds
  <2>2. Caught(b) = Fold(Counting(b, k), q)
    BY Zenon, <1>1 DEF Caught
  <2>3. Caught(b)' = Fold(Counting(b, k + RunsSuperseded(q, r)), Merge(q, r))
    BY Zenon, <1>2 DEF Caught
  <2>. QED  BY Zenon, <2>1, <2>2, <2>3
<1>. QED  BY <1>2, <1>3, <1>4

\* A drained box leaves nothing to fold.
LEMMA Drained ==
    ASSUME NEW b \in Box!State, reports' = <<>>, superseded' = 0
    PROVE  Caught(b)' = b
<1>1. Caught(b)' = Fold(Counting(b, 0), <<>>)
  BY Zenon DEF Caught
<1>2. Counting(b, 0) = b
  BY CountingAdds
<1>3. Fold(b, <<>>) = b
  <2>1. <<>> \in Seq(Box!Report)
    OBVIOUS
  <2>. QED  BY <2>1, FoldsToState
<1>. QED  BY <1>1, <1>2, <1>3

-----------------------------------------------------------------------------
(* The documents and the posts *)

\* The document open is a program, and none of those opened before.
LEMMA DocumentIsProgram ==
    ASSUME open \in 1..Len(Documents)
    PROVE  /\ Document \in Programs /\ Document \in Opened
           /\ Document # None /\ Document # Empty /\ None # Empty
           /\ NodesIn(Document) \subseteq Nodes
<1>1. Documents \in Seq(Programs)
  BY FeedAssumption
<1>2. Document \in Programs
  BY <1>1 DEF Document
<1>3. Document \in Opened
  BY DEF Document, Opened
<1>4. Document # None /\ Document # Empty /\ None # Empty
  BY <1>2, ProgramAssumption
<1>5. NodesIn(Document) \subseteq Nodes
  BY <1>2, ProgramAssumption DEF NodesIn
<1>. QED  BY <1>2, <1>3, <1>4, <1>5

\* Nor is the next one.
LEMMA NextDocumentIsNew ==
    ASSUME open \in 1..Len(Documents), open < Len(Documents), open' = open + 1
    PROVE  /\ open' \in 1..Len(Documents)
           /\ Document' \notin Opened \cup {Empty, None}
           /\ Opened \subseteq Opened'
<1>1. Documents \in Seq(Programs) /\ IsInjective(Documents)
  BY FeedAssumption
<1>2. Len(Documents) \in Nat /\ DOMAIN Documents = 1..Len(Documents)
  BY <1>1
<1>3. open' \in 1..Len(Documents)
  BY <1>2
<1>4. Document' = Documents[open'] /\ Document' \in Programs
  BY <1>1, <1>3 DEF Document
<1>5. Document' # Empty /\ Document' # None
  BY <1>4, ProgramAssumption
<1>6. \A i \in 1..open : Documents[i] # Documents[open']
  BY <1>1, <1>2, <1>3 DEF IsInjective
<1>7. Document' \notin Opened
  BY <1>4, <1>6 DEF Opened
<1>8. Opened \subseteq Opened'
  BY <1>2 DEF Opened
<1>. QED  BY <1>3, <1>5, <1>7, <1>8

\* A post of one message, of two and of three.
LEMMA PushedOne ==
    ASSUME NEW i, NEW a, NEW q, q = <<a>>
    PROVE  Posted(i, q) = Push(i, a)
<1>1. Posted(i, q) = Pushing!FoldOf(0, i, q)
  BY Zenon DEF Posted, Pushing!FoldOf, Pushing!IsFolding, Pushing!Largest, PushBody,
               FoldLeft, MapThenFoldSet, Max
<1>2. DOMAIN q = 1..1 /\ 1 \in Nat
  OBVIOUS
<1>3. PICK f : Pushing!Unfolds(f, 0, i, q, 1)
  BY <1>2, Pushing!FoldUnfolds
<1>4. /\ Pushing!FoldOf(0, i, q) = f[1..1] /\ f[{}] = i
      /\ \A k \in 1..1 : f[1..k] = Push(f[1..(k - 1)], q[k])
  BY <1>3 DEF Pushing!Unfolds, PushBody
<1>5. 1..0 = {} /\ 1 - 1 = 0 /\ q[1] = a /\ 1 \in 1..1
  OBVIOUS
<1>6. f[1..1] = Push(i, a)
  BY Zenon, <1>4, <1>5
<1>. QED  BY <1>1, <1>4, <1>6

\* The second message is pushed onto what the first left.
LEMMA PushedTwo ==
    ASSUME NEW i, NEW a, NEW b, NEW q, q = <<a, b>>
    PROVE  Posted(i, q) = Push(Push(i, a), b)
<1>1. Posted(i, q) = Pushing!FoldOf(0, i, q)
  BY Zenon DEF Posted, Pushing!FoldOf, Pushing!IsFolding, Pushing!Largest, PushBody,
               FoldLeft, MapThenFoldSet, Max
<1>2. DOMAIN q = 1..2 /\ 2 \in Nat
  OBVIOUS
<1>3. PICK f : Pushing!Unfolds(f, 0, i, q, 2)
  BY <1>2, Pushing!FoldUnfolds
<1>4. /\ Pushing!FoldOf(0, i, q) = f[1..2] /\ f[{}] = i
      /\ \A k \in 1..2 : f[1..k] = Push(f[1..(k - 1)], q[k])
  BY <1>3 DEF Pushing!Unfolds, PushBody
<1>5. /\ 1..0 = {} /\ 1 - 1 = 0 /\ 2 - 1 = 1 /\ 1 \in 1..2 /\ 2 \in 1..2
      /\ q[1] = a /\ q[2] = b
  OBVIOUS
<1>6. f[1..1] = Push(i, a)
  BY Zenon, <1>4, <1>5
<1>7. f[1..2] = Push(f[1..1], b)
  BY Zenon, <1>4, <1>5
<1>. QED  BY <1>1, <1>4, <1>6, <1>7

\* And the third onto that.
LEMMA PushedThree ==
    ASSUME NEW i, NEW a, NEW b, NEW c, NEW q, q = <<a, b, c>>
    PROVE  Posted(i, q) = Push(Push(Push(i, a), b), c)
<1>1. Posted(i, q) = Pushing!FoldOf(0, i, q)
  BY Zenon DEF Posted, Pushing!FoldOf, Pushing!IsFolding, Pushing!Largest, PushBody,
               FoldLeft, MapThenFoldSet, Max
<1>2. DOMAIN q = 1..3 /\ 3 \in Nat
  OBVIOUS
<1>3. PICK f : Pushing!Unfolds(f, 0, i, q, 3)
  BY <1>2, Pushing!FoldUnfolds
<1>4. /\ Pushing!FoldOf(0, i, q) = f[1..3] /\ f[{}] = i
      /\ \A k \in 1..3 : f[1..k] = Push(f[1..(k - 1)], q[k])
  BY <1>3 DEF Pushing!Unfolds, PushBody
<1>5. /\ 1..0 = {} /\ 1 - 1 = 0 /\ 2 - 1 = 1 /\ 3 - 1 = 2
      /\ 1 \in 1..3 /\ 2 \in 1..3 /\ 3 \in 1..3
      /\ q[1] = a /\ q[2] = b /\ q[3] = c
  OBVIOUS
<1>6. f[1..1] = Push(i, a)
  BY Zenon, <1>4, <1>5
<1>7. f[1..2] = Push(f[1..1], b)
  BY Zenon, <1>4, <1>5
<1>8. f[1..3] = Push(f[1..2], c)
  BY Zenon, <1>4, <1>5
<1>. QED  BY <1>1, <1>4, <1>6, <1>7, <1>8

\* What the messages of the editor's commands leave of the graph slot.
LEMMA PushSetsGraph ==
    ASSUME NEW i \in Intent
    PROVE  /\ \A p \in Programs : /\ Push(i, Update(p)) \in Intent
                                  /\ Push(i, Update(p)).graph = p
           /\ Push(i, Clear) \in Intent /\ Push(i, Clear).graph = Empty
           /\ \A m \in {RunSinks, StopEventLoop} : /\ Push(i, m) \in Intent
                                                   /\ Push(i, m).graph = i.graph
           /\ \A n \in Nodes : \A m \in {EvictCache({n}), FlushCache({n})} :
                 Push(i, m) \in Intent /\ Push(i, m).graph = i.graph
<1>1. ASSUME NEW g \in Programs \cup {Empty}
      PROVE  InstallInto(i, g) \in Intent /\ InstallInto(i, g).graph = g
  <2>1. i.nodes \cap NodesIn(g) \in SUBSET Nodes
    BY DEF Intent
  <2>. QED  BY <2>1 DEF Intent, InstallInto
<1>2. ASSUME NEW p \in Programs PROVE Push(i, Update(p)) = InstallInto(i, p)
  BY DEF Push, Update
<1>3. Push(i, Clear) = InstallInto(i, Empty)
  BY DEF Push, Clear
<1>4. Push(i, RunSinks) \in Intent /\ Push(i, RunSinks).graph = i.graph
  BY DEF Push, RunSinks, Intent
<1>5. Push(i, StopEventLoop) \in Intent /\ Push(i, StopEventLoop).graph = i.graph
  BY DEF Push, StopEventLoop, Intent
<1>6. ASSUME NEW n \in Nodes
      PROVE  Push(i, EvictCache({n})) \in Intent /\ Push(i, EvictCache({n})).graph = i.graph
  BY DEF Push, EvictCache, Intent
<1>7. ASSUME NEW n \in Nodes
      PROVE  Push(i, FlushCache({n})) \in Intent /\ Push(i, FlushCache({n})).graph = i.graph
  BY DEF Push, FlushCache, Intent
<1>. QED  BY <1>1, <1>2, <1>3, <1>4, <1>5, <1>6, <1>7

\* Only a clear is the script of a clear.
LEMMA OtherScripts ==
    ASSUME NEW d, NEW n
    PROVE  /\ <<>> # ClearProgram /\ RunOnce(d) # ClearProgram
           /\ << <<RunSinks>> >> # ClearProgram
           /\ EvictNode(d, n) # ClearProgram /\ FlushNode(d, n) # ClearProgram
<1>1. Len(ClearProgram) = 1 /\ ClearProgram[1][1].type = "Clear"
  BY DEF ClearProgram, Clear
<1>2. Len(<<>>) = 0 /\ Len(RunOnce(d)) = 2
  BY DEF RunOnce
<1>3. << <<RunSinks>> >>[1][1].type = "RunSinks"
  BY DEF RunSinks
<1>4. EvictNode(d, n)[1][1].type = "Update" /\ FlushNode(d, n)[1][1].type = "Update"
  BY DEF EvictNode, FlushNode, Update
<1>5. \A s : Len(s) # 1 => s # ClearProgram
  BY Zenon, <1>1
<1>6. \A s : s[1][1].type # "Clear" => s # ClearProgram
  BY Zenon, <1>1
<1>7. <<>> # ClearProgram /\ RunOnce(d) # ClearProgram
  <2>1. Len(<<>>) # 1 /\ Len(RunOnce(d)) # 1
    BY <1>2
  <2>. QED  BY Zenon, <1>5, <2>1
<1>8. "RunSinks" # "Clear" /\ "Update" # "Clear"
  OBVIOUS
<1>9. << <<RunSinks>> >> # ClearProgram
  BY Zenon, <1>3, <1>6, <1>8
<1>10. EvictNode(d, n) # ClearProgram /\ FlushNode(d, n) # ClearProgram
  BY Zenon, <1>4, <1>6, <1>8
<1>. QED  BY Zenon, <1>7, <1>9, <1>10

\* What a post of the command in progress leaves: the command shorter by it,
\* and in the graph slot the open document, or the empty program of a clear.
LEMMA PostLands ==
    ASSUME TypeInv, IntentInv, PostNext
    PROVE  /\ pending' \in Intent /\ ScriptType'
           /\ \/ /\ script = ClearProgram /\ script' # ClearProgram
                 /\ pending'.graph = Empty
              \/ /\ script # ClearProgram /\ script' # ClearProgram
                 /\ pending'.graph \in {pending.graph, Document}
<1>1. /\ script # <<>> /\ pending' = Posted(pending, Head(script))
      /\ script' = Tail(script) /\ Document' = Document
  BY Zenon DEF PostNext, Document, Posted
<1>2. PICK i \in Intent : i = pending
  BY DEF IntentInv
<1>3. Document \in Programs
  BY DocumentIsProgram DEF TypeInv
<1>4. CASE script = ClearProgram
  <2>1. Head(script) = <<Clear>> /\ Tail(script) = <<>>
    BY <1>4 DEF ClearProgram
  <2>2. pending' = Push(i, Clear)
    BY <1>1, <1>2, <2>1, PushedOne
  <2>4. Push(i, Clear) \in Intent /\ Push(i, Clear).graph = Empty
    BY PushSetsGraph
  <2>5. script' = <<>> /\ script' # ClearProgram
    BY <1>1, <2>1, OtherScripts
  <2>. QED  BY <1>4, <2>2, <2>4, <2>5 DEF ScriptType
<1>5. CASE script = RunOnce(Document)
  <2>1. Head(script) = <<Update(Document)>> /\ Tail(script) = << <<RunSinks>> >>
    BY <1>5 DEF RunOnce
  <2>2. pending' = Push(i, Update(Document))
    BY <1>1, <1>2, <2>1, PushedOne
  <2>3. Push(i, Update(Document)) \in Intent /\ Push(i, Update(Document)).graph = Document
    BY <1>3, PushSetsGraph
  <2>4. script # ClearProgram /\ script' # ClearProgram
    BY <1>1, <1>5, <2>1, OtherScripts
  <2>. QED  BY <1>1, <2>1, <2>2, <2>3, <2>4 DEF ScriptType
<1>6. CASE script = << <<RunSinks>> >>
  <2>1. Head(script) = <<RunSinks>> /\ Tail(script) = <<>>
    BY <1>6
  <2>2. pending' = Push(i, RunSinks)
    BY <1>1, <1>2, <2>1, PushedOne
  <2>3. Push(i, RunSinks) \in Intent /\ Push(i, RunSinks).graph = i.graph
    BY PushSetsGraph
  <2>4. script # ClearProgram /\ script' # ClearProgram
    BY <1>1, <1>6, <2>1, OtherScripts
  <2>. QED  BY <1>1, <1>2, <2>1, <2>2, <2>3, <2>4 DEF ScriptType
<1>7. ASSUME NEW n \in Nodes, script = EvictNode(Document, n)
      PROVE  /\ pending' \in Intent /\ ScriptType' /\ pending'.graph = Document
             /\ script # ClearProgram /\ script' # ClearProgram
  <2>1. /\ Head(script) = <<Update(Document), EvictCache({n}), StopEventLoop>>
        /\ Tail(script) = <<>>
    BY <1>7 DEF EvictNode
  <2>2. PICK j \in Intent : j = Push(i, Update(Document)) /\ j.graph = Document
    BY <1>3, PushSetsGraph
  <2>3. PICK k \in Intent : k = Push(j, EvictCache({n})) /\ k.graph = Document
    BY <2>2, PushSetsGraph
  <2>4. Push(k, StopEventLoop) \in Intent /\ Push(k, StopEventLoop).graph = Document
    BY <2>3, PushSetsGraph
  <2>5. pending' = Push(k, StopEventLoop)
    <3>1. PICK a, b, c : a = Update(Document) /\ b = EvictCache({n}) /\ c = StopEventLoop
      OBVIOUS
    <3>2. PICK q : q = Head(script) /\ q = <<a, b, c>>
      BY Zenon, <2>1, <3>1
    <3>3. pending' = Posted(i, q)
      BY Zenon, <1>1, <1>2, <3>2
    <3>4. pending' = Push(Push(Push(i, a), b), c)
      BY <3>2, <3>3, PushedThree
    <3>. QED  BY Zenon, <3>1, <3>4, <2>2, <2>3
  <2>6. script # ClearProgram /\ script' # ClearProgram
    BY <1>1, <1>7, <2>1, OtherScripts
  <2>. QED  BY <1>1, <2>1, <2>4, <2>5, <2>6 DEF ScriptType
<1>8. ASSUME NEW n \in Nodes, script = FlushNode(Document, n)
      PROVE  /\ pending' \in Intent /\ ScriptType' /\ pending'.graph = Document
             /\ script # ClearProgram /\ script' # ClearProgram
  <2>1. Head(script) = <<Update(Document), FlushCache({n})>> /\ Tail(script) = <<>>
    BY <1>8 DEF FlushNode
  <2>2. PICK j \in Intent : j = Push(i, Update(Document)) /\ j.graph = Document
    BY <1>3, PushSetsGraph
  <2>3. Push(j, FlushCache({n})) \in Intent /\ Push(j, FlushCache({n})).graph = Document
    BY <2>2, PushSetsGraph
  <2>4. pending' = Push(j, FlushCache({n}))
    <3>1. PICK a, b : a = Update(Document) /\ b = FlushCache({n})
      OBVIOUS
    <3>2. PICK q : q = Head(script) /\ q = <<a, b>>
      BY Zenon, <2>1, <3>1
    <3>3. pending' = Posted(i, q)
      BY Zenon, <1>1, <1>2, <3>2
    <3>4. pending' = Push(Push(i, a), b)
      BY <3>2, <3>3, PushedTwo
    <3>. QED  BY Zenon, <3>1, <3>4, <2>2
  <2>5. script # ClearProgram /\ script' # ClearProgram
    BY <1>1, <1>8, <2>1, OtherScripts
  <2>. QED  BY <1>1, <2>1, <2>3, <2>4, <2>5 DEF ScriptType
<1>. QED  BY Zenon, <1>1, <1>4, <1>5, <1>6, <1>7, <1>8 DEF TypeInv, ScriptType

-----------------------------------------------------------------------------
(* The start *)

\* An empty box leaves nothing to fold.
LEMMA NothingToFold ==
    ASSUME NEW b \in Box!State, reports = <<>>, superseded = 0
    PROVE  Caught(b) = b
<1>1. Caught(b) = Fold(Counting(b, 0), <<>>)
  BY Zenon DEF Caught
<1>2. Counting(b, 0) = b
  BY CountingAdds
<1>3. Fold(b, <<>>) = b
  <2>1. <<>> \in Seq(Box!Report)
    OBVIOUS
  <2>. QED  BY <2>1, FoldsToState
<1>. QED  BY <1>1, <1>2, <1>3

\* The state at the start shows an idle worker without a program.
LEMMA BlankIsState ==
    /\ BlankState \in Box!State
    /\ BlankState.compiled = None /\ BlankState.activity = "Idle" /\ BlankState.runsEnded = 0
    /\ OfOneRun(BlankState, {}) /\ \A n \in Nodes : BlankState.previews[n] = 0
<1>. DEFINE nodes == [n \in Nodes |-> NoNode]
            previews == [n \in Nodes |-> 0]
<1>1. nodes \in [Nodes -> Box!NodeState] /\ \A n \in Nodes : nodes[n].run = 0
  BY DEF NoNode, Box!NodeState, Box!Unrun
<1>2. previews \in [Nodes -> Nat] /\ \A n \in Nodes : previews[n] = 0
  OBVIOUS
<1>3. BlankState = [nodes |-> nodes, previews |-> previews, outcome |-> 0, compiled |-> None,
                    activity |-> "Idle", cacheRam |-> {}, runsEnded |-> 0, parked |-> "none"]
  BY Zenon DEF BlankState
<1>4. "Idle" \in Box!Activities
  BY DEF Box!Activities
<1>. HIDE DEF nodes, previews
<1>. QED  BY <1>1, <1>2, <1>3, <1>4 DEF Box!State, OfOneRun

\* The invariant holds at the start.
LEMMA IInvStarts == Init => IInv
<1>. SUFFICES ASSUME Init PROVE IInv
  OBVIOUS
<1>1. /\ open = 1 /\ script = <<>> /\ frame = "idle" /\ state = BlankState
      /\ pending = EmptyIntent /\ phase = "rest" /\ intent = EmptyIntent
      /\ installed = Empty /\ invoked = << >> /\ reports = <<>> /\ superseded = 0
      /\ sink = NothingPublished /\ ranUnder = <<>> /\ published = NothingPublished
  BY DEF Init
<1>2. open \in 1..Len(Documents)
  <2>1. Documents \in Seq(Programs) /\ Documents # <<>>
    BY FeedAssumption
  <2>. QED  BY <1>1, <2>1
<1>3. run = 0
  BY <1>1 DEF run
<1>4. Caught(state) = state /\ state \in Box!State
  BY <1>1, BlankIsState, NothingToFold
<1>5. NothingPublished \in [Nodes -> Nat] /\ \A n \in Nodes : NothingPublished[n] = 0
  BY DEF NothingPublished
<1>6. EmptyIntent \in Intent /\ EmptyIntent.graph = None
  BY DEF EmptyIntent, Intent
<1>7. TypeInv
  BY <1>1, <1>2, <1>4, <1>5 DEF TypeInv, ScriptType
<1>8. IntentInv
  BY <1>1, <1>3, <1>6 DEF IntentInv
<1>9. OrderInv
  BY <1>1, <1>2, <1>3, <1>6, DocumentIsProgram DEF OrderInv, Ran
<1>10. RunInv
  BY <1>1 DEF RunInv
<1>11. ViewInv
  BY <1>1, <1>3, <1>4, BlankIsState DEF ViewInv, ShowsTheWorker, ShowsTheRun
<1>12. ResultsInv
  <2>. SUFFICES ASSUME NEW b \in Box!State, b = state \/ OfOneRun(b, {})
                PROVE  OfOneRun(Caught(b), Current)
    BY DEF ResultsInv
  <2>1. Caught(b) = b /\ OfOneRun(b, {})
    BY <1>1, BlankIsState, NothingToFold
  <2>. QED  BY <2>1 DEF OfOneRun
<1>13. PreviewInv
  BY <1>1, <1>3, <1>5, BlankIsState DEF PreviewInv, Own
<1>. QED  BY <1>7, <1>8, <1>9, <1>10, <1>11, <1>12, <1>13 DEF IInv

-----------------------------------------------------------------------------
(* The editor's steps *)

\* What is caught up to stays the same while nothing is reported, nothing runs
\* and the state keeps what it shows of the worker.
LEMMA ViewKept ==
    ASSUME IInv, state' \in Box!State, WorkerAlike(state', state), ResultsAlike(state', state),
           UNCHANGED <<open, installed, invoked, ranUnder, reports, superseded>>,
           phase' = "run" <=> phase = "run"
    PROVE  ViewInv' /\ ResultsInv'
<1>1. PICK s \in Box!State : s = state'
  OBVIOUS
<1>2. TypeInv /\ ViewInv /\ ResultsInv /\ state \in Box!State
  BY DEF IInv, TypeInv
<1>3. \A b : Caught(b)' = Caught(b)
  BY Zenon DEF Caught, Counting
<1>4. /\ Caught(state)' = Caught(s)
      /\ WorkerAlike(Caught(s), Caught(state)) /\ ResultsAlike(Caught(s), Caught(state))
  <2>1. Caught(state)' = Caught(s)
    BY Zenon, <1>1 DEF Caught, Counting
  <2>. QED  BY Zenon, <2>1, <1>1, <1>2, CaughtState
<1>5. run' = run /\ Current' = Current /\ Document' = Document
  BY DEF run, Current, Document
<1>6. PICK c : c = Caught(state)
  OBVIOUS
<1>7. PICK d : d = Caught(s)
  OBVIOUS
<1>8. ViewInv'
  <2>1. ShowsTheWorker(c) /\ ShowsTheRun(c)
    BY Zenon, <1>2, <1>6 DEF ViewInv
  <2>2. WorkerAlike(d, c) /\ ResultsAlike(d, c)
    BY Zenon, <1>4, <1>6, <1>7
  <2>3. ShowsTheWorker(d)'
    BY <2>1, <2>2, <1>5 DEF ShowsTheWorker, WorkerAlike
  <2>4. ShowsTheRun(d)'
    <3>1. DOMAIN invoked \subseteq Nodes
      BY DEF IInv, RunInv
    <3>. QED  BY <3>1, <2>1, <2>2, <1>5 DEF ShowsTheRun, ResultsAlike
  <2>. QED  BY Zenon, <2>3, <2>4, <1>4, <1>7 DEF ViewInv
<1>9. ResultsInv'
  <2>. SUFFICES ASSUME NEW b \in Box!State, b = state' \/ OfOneRun(b, {})
                PROVE  OfOneRun(Caught(b)', Current')
    BY Zenon DEF ResultsInv, OfOneRun
  <2>1. CASE b = state'
    <3>1. OfOneRun(c, Current)
      BY Zenon, <1>2, <1>6 DEF ResultsInv
    <3>2. ResultsAlike(d, c)
      BY Zenon, <1>4, <1>6, <1>7
    <3>3. OfOneRun(d, Current)
      BY <3>1, <3>2 DEF OfOneRun, ResultsAlike
    <3>. QED  BY Zenon, <2>1, <3>3, <1>1, <1>3, <1>5, <1>7
  <2>2. CASE OfOneRun(b, {})
    BY Zenon, <2>2, <1>2, <1>3, <1>5 DEF ResultsInv
  <2>. QED  BY <2>1, <2>2
<1>. QED  BY <1>8, <1>9

\* A command given leaves the documents and the programs as they are, and its
\* script is not a clear's.
LEMMA CommandGiven ==
    ASSUME IInv, UNCHANGED <<open, frame, pending, sink, published, workerVars, boxVars>>,
           frame = "idle", ScriptType', script' # ClearProgram,
           state' \in Box!State, WorkerAlike(state', state), ResultsAlike(state', state),
           FewerPreviews(state', state)
    PROVE  IInv'
<1>1. /\ TypeInv /\ IntentInv /\ OrderInv /\ RunInv /\ PreviewInv
      /\ UNCHANGED <<phase, intent, installed, invoked, ranUnder, reports, superseded>>
  BY DEF IInv, workerVars, boxVars
<1>2. Document' = Document /\ run' = run /\ Opened' = Opened
  BY <1>1 DEF Document, run, Opened
<1>3. ViewInv' /\ ResultsInv'
  BY <1>1, ViewKept
<1>4. TypeInv'
  BY <1>1 DEF TypeInv
<1>5. IntentInv'
  BY <1>1, <1>2 DEF IntentInv
<1>6. OrderInv'
  BY <1>1, <1>2 DEF OrderInv, Ran
<1>7. RunInv'
  BY <1>1, <1>2 DEF RunInv
<1>8. PreviewInv'
  <2>1. state \in Box!State /\ run \in Nat
    BY <1>1 DEF TypeInv, run
  <2>2. \A n \in Nodes : state'.previews[n] \in {0, state.previews[n]}
    BY DEF FewerPreviews
  <2>3. NothingPublished' = NothingPublished
    BY DEF NothingPublished
  <2>. QED  BY <1>1, <1>2, <2>1, <2>2, <2>3 DEF PreviewInv, Own
<1>. QED  BY <1>3, <1>4, <1>5, <1>6, <1>7, <1>8 DEF IInv

\* A run, an eviction and a flush are such commands.
LEMMA CommandSteps ==
    ASSUME IInv
    PROVE  /\ Run => IInv'
           /\ \A n \in Nodes : Flush(n) => IInv'
           /\ \A n \in Nodes, cone \in SUBSET Nodes : Evict(n, cone) => IInv'
<1>1. state \in Box!State
  BY DEF IInv, TypeInv
<1>2. WorkerAlike(state, state) /\ ResultsAlike(state, state) /\ FewerPreviews(state, state)
  BY DEF WorkerAlike, ResultsAlike, FewerPreviews
<1>3. ASSUME Run PROVE IInv'
  <2>1. /\ script' = RunOnce(Document) /\ frame = "idle"
        /\ UNCHANGED <<open, state, frame, pending, sink, published, workerVars, boxVars>>
    BY Zenon, <1>3 DEF Run, Give, AtCommands
  <2>2. ScriptType'
    BY Zenon, <2>1 DEF ScriptType, Document
  <2>3. script' # ClearProgram
    BY Zenon, <2>1, OtherScripts
  <2>. QED  BY <1>1, <1>2, <2>1, <2>2, <2>3, CommandGiven
<1>4. ASSUME NEW n \in Nodes, Flush(n) PROVE IInv'
  <2>1. /\ script' = FlushNode(Document, n) /\ frame = "idle"
        /\ UNCHANGED <<open, state, frame, pending, sink, published, workerVars, boxVars>>
    BY Zenon, <1>4 DEF Flush, Give, AtCommands
  <2>2. ScriptType'
    BY Zenon, <2>1 DEF ScriptType, Document
  <2>3. script' # ClearProgram
    BY Zenon, <2>1, OtherScripts
  <2>. QED  BY <1>1, <1>2, <2>1, <2>2, <2>3, CommandGiven
<1>5. ASSUME NEW n \in Nodes, NEW cone \in SUBSET Nodes, Evict(n, cone) PROVE IInv'
  <2>1. /\ script' = EvictNode(Document, n) /\ frame = "idle"
        /\ state' = ClearProjections(state, cone)
        /\ UNCHANGED <<open, frame, pending, sink, published, workerVars, boxVars>>
    BY Zenon, <1>5 DEF Evict, Give, AtCommands
  <2>2. ScriptType'
    BY Zenon, <2>1 DEF ScriptType, Document
  <2>3. script' # ClearProgram
    BY Zenon, <2>1, OtherScripts
  <2>4. /\ state' \in Box!State /\ WorkerAlike(state', state) /\ ResultsAlike(state', state)
        /\ FewerPreviews(state', state)
    BY Zenon, <1>1, <2>1, ProjectedState
  <2>. QED  BY <2>1, <2>2, <2>3, <2>4, CommandGiven
<1>. QED  BY <1>3, <1>4, <1>5

\* A document opened over another: nothing on its way is of it, and nothing of
\* the runs before is shown.
LEMMA OpenDocumentSteps ==
    ASSUME IInv, OpenDocument PROVE IInv'
<1>1. /\ TypeInv /\ IntentInv /\ OrderInv /\ RunInv /\ ViewInv /\ ResultsInv /\ PreviewInv
      /\ open < Len(Documents) /\ open' = open + 1 /\ script' = ClearProgram
      /\ state' = Emptied(state) /\ frame = "idle" /\ frame' = frame
      /\ UNCHANGED <<pending, sink, published>>
      /\ UNCHANGED <<phase, intent, installed, invoked, ranUnder, reports, superseded>>
  BY Zenon DEF IInv, OpenDocument, Give, AtCommands, workerVars, boxVars
<1>2. open \in 1..Len(Documents) /\ state \in Box!State /\ run \in Nat
  BY <1>1 DEF TypeInv, run
<1>3. /\ open' \in 1..Len(Documents) /\ Document' \notin Opened \cup {Empty, None}
      /\ Opened \subseteq Opened'
  BY <1>1, <1>2, NextDocumentIsNew
<1>4. run' = run /\ Current' = Current
  BY <1>1 DEF run, Current
<1>5. PICK s \in Box!State : /\ s = state' /\ WorkerAlike(s, state) /\ OfOneRun(s, {})
                             /\ \A n \in Nodes : s.previews[n] = 0
  BY Zenon, <1>1, <1>2, EmptiedState
<1>6. \A b : Caught(b)' = Caught(b)
  BY Zenon, <1>1 DEF Caught, Counting
<1>7. Caught(state)' = Caught(s)
  BY Zenon, <1>1, <1>5 DEF Caught, Counting
<1>8. TypeInv'
  BY <1>1, <1>3, <1>5 DEF TypeInv, ScriptType
<1>9. IntentInv'
  BY <1>1, <1>3, <1>4 DEF IntentInv
<1>10. OrderInv'
  <2>1. installed # Document' /\ intent.graph # Document' /\ pending.graph # Document'
    BY <1>1, <1>3 DEF IntentInv
  <2>2. \A i \in 1..run : ranUnder[i] # Document'
    BY <1>1, <1>3 DEF IntentInv
  <2>. QED  BY <1>1, <1>4, <2>1, <2>2 DEF OrderInv, Ran
<1>11. RunInv'
  BY <1>1, <1>4 DEF RunInv
<1>12. ViewInv'
  <2>1. PICK c, d : c = Caught(state) /\ d = Caught(s)
    OBVIOUS
  <2>2. WorkerAlike(d, c)
    BY Zenon, <2>1, <1>1, <1>2, <1>5, CaughtState
  <2>3. ShowsTheWorker(c)
    BY Zenon, <2>1, <1>1 DEF ViewInv
  <2>4. ShowsTheWorker(d)'
    BY <1>1, <1>4, <2>2, <2>3 DEF ShowsTheWorker, WorkerAlike
  <2>5. ShowsTheRun(d)'
    <3>1. run > 0 => ranUnder[run] \in Opened
      BY <1>1, <1>2 DEF IntentInv
    <3>2. ~(run' > 0 /\ ranUnder'[run'] = Document')
      BY <3>1, <1>1, <1>3, <1>4
    <3>. QED  BY Zenon, <3>2 DEF ShowsTheRun
  <2>. QED  BY Zenon, <2>1, <2>4, <2>5, <1>7 DEF ViewInv
<1>13. ResultsInv'
  <2>. SUFFICES ASSUME NEW b \in Box!State, b = state' \/ OfOneRun(b, {})
                PROVE  OfOneRun(Caught(b)', Current')
    BY Zenon DEF ResultsInv, OfOneRun
  <2>1. OfOneRun(b, {})
    BY Zenon, <1>5
  <2>. QED  BY Zenon, <2>1, <1>1, <1>4, <1>6 DEF ResultsInv
<1>14. PreviewInv'
  <2>1. \A n \in Nodes : state'.previews[n] = 0 /\ ~Own(n)'
    BY <1>5 DEF Own
  <2>2. NothingPublished' = NothingPublished
    BY DEF NothingPublished
  <2>. QED  BY <1>1, <1>2, <1>4, <2>1, <2>2 DEF PreviewInv
<1>. QED  BY <1>8, <1>9, <1>10, <1>11, <1>12, <1>13, <1>14 DEF IInv

\* A post lands in the batch: behind the open document it is the document's.
LEMMA PostNextSteps ==
    ASSUME IInv, PostNext PROVE IInv'
<1>1. /\ TypeInv /\ IntentInv /\ OrderInv /\ RunInv /\ ViewInv /\ ResultsInv /\ PreviewInv
      /\ UNCHANGED <<open, frame, state, sink, published>>
      /\ UNCHANGED <<phase, intent, installed, invoked, ranUnder, reports, superseded>>
  BY Zenon DEF IInv, PostNext, workerVars, boxVars
<1>2. /\ pending' \in Intent /\ ScriptType'
      /\ \/ /\ script = ClearProgram /\ script' # ClearProgram
            /\ pending'.graph = Empty
         \/ /\ script # ClearProgram /\ script' # ClearProgram
            /\ pending'.graph \in {pending.graph, Document}
  BY <1>1, PostLands
<1>3. Document' = Document /\ run' = run /\ Opened' = Opened
  BY <1>1 DEF Document, run, Opened
<1>4. Document \in Opened /\ Document # Empty /\ Document # None
  BY <1>1, DocumentIsProgram DEF TypeInv
<1>5. ViewInv' /\ ResultsInv'
  <2>1. state \in Box!State
    BY <1>1 DEF TypeInv
  <2>2. WorkerAlike(state', state) /\ ResultsAlike(state', state)
    BY <1>1 DEF WorkerAlike, ResultsAlike
  <2>. QED  BY <1>1, <2>1, <2>2, ViewKept
<1>6. TypeInv'
  BY <1>1, <1>2 DEF TypeInv
<1>7. IntentInv'
  BY <1>1, <1>2, <1>3, <1>4 DEF IntentInv
<1>8. OrderInv'
  BY <1>1, <1>2, <1>3, <1>4 DEF OrderInv, Ran
<1>9. RunInv'
  BY <1>1, <1>3 DEF RunInv
<1>10. PreviewInv'
  BY <1>1, <1>3 DEF PreviewInv, Own, NothingPublished
<1>. QED  BY <1>5, <1>6, <1>7, <1>8, <1>9, <1>10 DEF IInv

\* The first half of a frame takes over what is caught up to.
LEMMA DrainReportsSteps ==
    ASSUME IInv, DrainReports PROVE IInv'
<1>1. /\ TypeInv /\ IntentInv /\ OrderInv /\ RunInv /\ ViewInv /\ ResultsInv /\ PreviewInv
      /\ frame' = "drained" /\ reports' = <<>> /\ superseded' = 0
      /\ UNCHANGED <<open, script, pending, sink, published>>
      /\ UNCHANGED <<phase, intent, installed, invoked, ranUnder>>
  BY Zenon DEF IInv, DrainReports, workerVars
<1>2. PICK s \in Box!State : /\ s = state' /\ s = Caught(state) /\ FewerPreviews(s, state)
                             /\ state \in Box!State
  <2>1. state' = Caught(state)
    BY Zenon DEF DrainReports, Caught, Counting
  <2>2. state \in Box!State
    BY <1>1 DEF TypeInv
  <2>. QED  BY Zenon, <2>1, <2>2, <1>1, CaughtState
<1>3. \A b \in Box!State : Caught(b)' = b
  BY <1>1, Drained
<1>4. Caught(state)' = s
  <2>1. Caught(state)' = Caught(s)'
    BY Zenon, <1>2 DEF Caught, Counting
  <2>. QED  BY <2>1, <1>3
<1>5. Document' = Document /\ run' = run /\ Opened' = Opened /\ Current' = Current /\ run \in Nat
  BY <1>1 DEF Document, run, Opened, Current, TypeInv
<1>6. TypeInv'
  <2>1. <<>> \in Seq(Box!Report)
    OBVIOUS
  <2>. QED  BY <1>1, <1>2, <2>1 DEF TypeInv, ScriptType, Document
<1>7. IntentInv'
  BY <1>1, <1>5 DEF IntentInv
<1>8. OrderInv'
  BY <1>1, <1>5 DEF OrderInv, Ran
<1>9. RunInv'
  BY <1>1, <1>5 DEF RunInv
<1>10. ViewInv'
  <2>1. ShowsTheWorker(s) /\ ShowsTheRun(s)
    BY Zenon, <1>1, <1>2 DEF ViewInv
  <2>2. ShowsTheWorker(s)' /\ ShowsTheRun(s)'
    BY <2>1, <1>1, <1>5 DEF ShowsTheWorker, ShowsTheRun
  <2>. QED  BY Zenon, <2>2, <1>4 DEF ViewInv
<1>11. ResultsInv'
  <2>. SUFFICES ASSUME NEW b \in Box!State, b = state' \/ OfOneRun(b, {})
                PROVE  OfOneRun(Caught(b)', Current')
    BY Zenon DEF ResultsInv, OfOneRun
  <2>1. OfOneRun(s, Current)
    BY Zenon, <1>1, <1>2 DEF ResultsInv
  <2>2. OfOneRun(b, Current)
    BY <2>1, <1>2 DEF OfOneRun
  <2>. QED  BY Zenon, <2>2, <1>3, <1>5
<1>12. PreviewInv'
  <2>1. \A n \in Nodes : s.previews[n] \in {0, state.previews[n]} /\ state.previews[n] \in Nat
    BY <1>2 DEF FewerPreviews, Box!State
  <2>2. ASSUME NEW n \in Nodes, Own(n)' PROVE Own(n) /\ s.previews[n] = state.previews[n]
    BY <2>1, <2>2, <1>1, <1>2, <1>5 DEF Own
  <2>3. ASSUME NEW n \in Nodes, Own(n)' PROVE state'.compiled = Document'
    <3>1. state.previews[n] \in 1..run /\ ranUnder[state.previews[n]] = Document
      BY <2>1, <2>2, <2>3, <1>1, <1>5 DEF PreviewInv, Own
    <3>2. installed = Document
      BY <3>1, <1>1 DEF OrderInv, Ran
    <3>3. Document # Empty
      BY <1>1, DocumentIsProgram DEF TypeInv
    <3>4. ShowsTheWorker(s)
      BY Zenon, <1>1, <1>2 DEF ViewInv
    <3>. QED  BY <3>2, <3>3, <3>4, <1>2, <1>5 DEF ShowsTheWorker
  <2>4. ASSUME NEW n \in Nodes
        PROVE  /\ sink'[n] \in {0, published'[n]}
               /\ published'[n] <= run' /\ state'.previews[n] <= run'
               /\ state'.previews[n] # 0 => n \in NodesIn(Document')
               /\ Own(n)' => sink'[n] # 0 \/ state'.previews[n] = published'[n]
    BY <2>1, <2>2, <1>1, <1>2, <1>5 DEF PreviewInv
  <2>. QED  BY <2>3, <2>4, <1>1 DEF PreviewInv
<1>. QED  BY <1>6, <1>7, <1>8, <1>9, <1>10, <1>11, <1>12 DEF IInv

\* The second half shows the previews that waited: the latest of each node.
LEMMA DrainPreviewsSteps ==
    ASSUME IInv, DrainPreviews PROVE IInv'
<1>1. /\ TypeInv /\ IntentInv /\ OrderInv /\ RunInv /\ ViewInv /\ ResultsInv /\ PreviewInv
      /\ frame = "drained" /\ frame' = "idle" /\ sink' = NothingPublished
      /\ UNCHANGED <<open, script, pending, published>>
      /\ UNCHANGED <<phase, intent, installed, invoked, ranUnder, reports, superseded>>
  BY Zenon DEF IInv, DrainPreviews, workerVars, boxVars
<1>2. /\ state \in Box!State /\ sink \in [Nodes -> Nat] /\ open \in 1..Len(Documents)
      /\ run \in Nat
  BY <1>1 DEF TypeInv, run
<1>3. PICK s \in Box!State :
         /\ s = state' /\ WorkerAlike(s, state) /\ ResultsAlike(s, state)
         /\ \A n \in Nodes : s.previews[n] =
               IF n \notin NodesIn(Document) THEN 0
               ELSE IF sink[n] # 0 /\ n \in NodesIn(state.compiled) THEN sink[n]
               ELSE state.previews[n]
  <2>1. state' = ShowPreviews(state, sink, NodesIn(Document))
    BY Zenon DEF DrainPreviews
  <2>2. PICK t : t = ShowPreviews(state, sink, NodesIn(Document))
    OBVIOUS
  <2>3. /\ t \in Box!State /\ WorkerAlike(t, state) /\ ResultsAlike(t, state)
        /\ \A n \in Nodes : t.previews[n] =
              IF n \notin NodesIn(Document) THEN 0
              ELSE IF sink[n] # 0 /\ n \in NodesIn(state.compiled) THEN sink[n]
              ELSE state.previews[n]
    BY <2>2, <1>2, ShownState
  <2>. QED  BY Zenon, <2>1, <2>2, <2>3
<1>4. Document' = Document /\ run' = run /\ Opened' = Opened
  BY <1>1 DEF Document, run, Opened
<1>5. /\ NothingPublished' = NothingPublished /\ NothingPublished \in [Nodes -> Nat]
      /\ \A n \in Nodes : NothingPublished[n] = 0
  BY DEF NothingPublished
<1>6. ViewInv' /\ ResultsInv'
  BY <1>1, <1>3, ViewKept
<1>7. TypeInv'
  BY <1>1, <1>3, <1>5 DEF TypeInv, ScriptType, Document
<1>8. IntentInv'
  BY <1>1, <1>4 DEF IntentInv
<1>9. OrderInv'
  BY <1>1, <1>4 DEF OrderInv, Ran
<1>10. RunInv'
  BY <1>1, <1>4 DEF RunInv
<1>11. PreviewInv'
  <2>1. ASSUME NEW n \in Nodes
        PROVE  /\ sink'[n] \in {0, published'[n]}
               /\ published'[n] <= run' /\ state'.previews[n] <= run'
               /\ state'.previews[n] # 0 => n \in NodesIn(Document')
               /\ Own(n)' => state'.previews[n] = published'[n]
    <3>1. /\ sink[n] \in {0, published[n]} /\ published[n] <= run /\ state.previews[n] <= run
          /\ state.previews[n] # 0 => n \in NodesIn(Document)
          /\ Own(n) => sink[n] # 0 \/ state.previews[n] = published[n]
          /\ Own(n) => state.compiled = Document
      BY <1>1 DEF PreviewInv
    <3>2. CASE n \notin NodesIn(Document)
      <4>1. state'.previews[n] = 0
        BY <3>2, <1>3
      <4>. QED  BY <4>1, <3>1, <1>1, <1>2, <1>4, <1>5 DEF Own
    <3>3. CASE n \in NodesIn(Document) /\ sink[n] # 0 /\ n \in NodesIn(state.compiled)
      <4>1. state'.previews[n] = published[n]
        BY <3>1, <3>3, <1>3
      <4>. QED  BY <4>1, <3>1, <3>3, <1>1, <1>2, <1>4, <1>5
    <3>4. CASE n \in NodesIn(Document) /\ ~(sink[n] # 0 /\ n \in NodesIn(state.compiled))
      <4>1. state'.previews[n] = state.previews[n]
        BY <3>4, <1>3
      <4>2. Own(n)' => Own(n)
        BY <4>1, <1>1, <1>4 DEF Own
      <4>3. Own(n)' => state.previews[n] = published[n]
        BY <4>2, <3>1, <3>4
      <4>. QED  BY <4>1, <4>3, <3>1, <3>4, <1>1, <1>2, <1>4, <1>5
    <3>. QED  BY <3>2, <3>3, <3>4
  <2>. QED  BY <2>1, <1>1, <1>5 DEF PreviewInv
<1>. QED  BY <1>6, <1>7, <1>8, <1>9, <1>10, <1>11 DEF IInv

-----------------------------------------------------------------------------
(* The worker's steps *)

\* What the worker leaves alone.
LEMMA EditorStays ==
    ASSUME IInv, UNCHANGED editorVars
    PROVE  /\ TypeInv /\ IntentInv /\ OrderInv /\ RunInv /\ ViewInv /\ ResultsInv /\ PreviewInv
           /\ UNCHANGED <<open, script, frame, state>> /\ ScriptType'
           /\ Document' = Document /\ Opened' = Opened /\ NothingPublished' = NothingPublished
           /\ state \in Box!State /\ run \in Nat /\ open \in 1..Len(Documents)
           /\ WorkerAlike(state', state) /\ ResultsAlike(state', state)
<1>1. /\ TypeInv /\ IntentInv /\ OrderInv /\ RunInv /\ ViewInv /\ ResultsInv /\ PreviewInv
      /\ UNCHANGED <<open, script, frame, state>>
  BY Zenon DEF IInv, editorVars
<1>2. Document' = Document /\ Opened' = Opened /\ NothingPublished' = NothingPublished
  BY <1>1 DEF Document, Opened, NothingPublished
<1>3. ScriptType'
  BY <1>1, <1>2 DEF TypeInv, ScriptType
<1>4. state \in Box!State /\ run \in Nat /\ open \in 1..Len(Documents)
  BY <1>1 DEF TypeInv, run
<1>5. WorkerAlike(state', state) /\ ResultsAlike(state', state)
  BY <1>1 DEF WorkerAlike, ResultsAlike
<1>. QED  BY <1>1, <1>2, <1>3, <1>4, <1>5

\* The batch taken.
LEMMA TakeBatchSteps ==
    ASSUME IInv, TakeBatch PROVE IInv'
<1>1. /\ UNCHANGED editorVars /\ phase = "rest" /\ phase' = "apply"
      /\ intent' = pending /\ pending' = EmptyIntent
      /\ UNCHANGED <<installed, invoked, ranUnder, sink, published, reports, superseded>>
  BY Zenon DEF TakeBatch, boxVars
<1>2. run' = run
  BY <1>1 DEF run
<1>3. EmptyIntent \in Intent /\ EmptyIntent.graph = None
  BY DEF EmptyIntent, Intent
<1>4. ViewInv' /\ ResultsInv'
  BY <1>1, EditorStays, ViewKept
<1>5. TypeInv'
  BY <1>1, EditorStays DEF TypeInv
<1>6. IntentInv'
  BY <1>1, <1>2, <1>3, EditorStays DEF IntentInv
<1>7. OrderInv'
  BY <1>1, <1>2, <1>3, EditorStays, DocumentIsProgram DEF OrderInv, Ran
<1>8. RunInv'
  BY <1>1, <1>2, EditorStays DEF RunInv
<1>9. PreviewInv'
  BY <1>1, <1>2, EditorStays DEF PreviewInv, Own
<1>. QED  BY <1>4, <1>5, <1>6, <1>7, <1>8, <1>9 DEF IInv

\* The batch done with.
LEMMA EndBatchSteps ==
    ASSUME IInv, EndBatch PROVE IInv'
<1>1. /\ UNCHANGED editorVars /\ phase = "applied" /\ phase' = "rest"
      /\ intent' = EmptyIntent /\ pending' = pending
      /\ UNCHANGED <<installed, invoked, ranUnder, sink, published, reports, superseded>>
  BY Zenon DEF EndBatch, boxVars
<1>2. run' = run
  BY <1>1 DEF run
<1>3. EmptyIntent \in Intent /\ EmptyIntent.graph = None
  BY DEF EmptyIntent, Intent
<1>4. ViewInv' /\ ResultsInv'
  BY <1>1, EditorStays, ViewKept
<1>5. TypeInv'
  BY <1>1, EditorStays DEF TypeInv
<1>6. IntentInv'
  BY <1>1, <1>2, <1>3, EditorStays DEF IntentInv
<1>7. OrderInv'
  BY <1>1, <1>2, EditorStays DEF OrderInv, Ran
<1>8. RunInv'
  BY <1>1, <1>2, EditorStays DEF RunInv
<1>9. PreviewInv'
  BY <1>1, <1>2, EditorStays DEF PreviewInv, Own
<1>. QED  BY <1>4, <1>5, <1>6, <1>7, <1>8, <1>9 DEF IInv

(* A report that takes what shows the worker before a step to what shows it  *)
(* after.                                                                     *)
KeepsUp(c, d) ==
    /\ ShowsTheWorker(c) => ShowsTheWorker(d)'
    /\ ShowsTheRun(c) => ShowsTheRun(d)'
    /\ OfOneRun(c, Current) => OfOneRun(d, Current')

\* What such a report is folded into shows the worker.
LEMMA ReportKeepsUp ==
    ASSUME IInv, UNCHANGED editorVars, NEW r \in Box!Report, Report(r),
           \A c \in Box!State : KeepsUp(c, ApplyReport(c, r))
    PROVE  /\ ViewInv' /\ ResultsInv'
           /\ reports' \in Seq(Box!Report) /\ superseded' \in Nat /\ reports' # <<>>
<1>1. TypeInv /\ ViewInv /\ ResultsInv /\ state' = state /\ state \in Box!State
  BY Zenon, EditorStays
<1>2. /\ reports' \in Seq(Box!Report) /\ superseded' \in Nat /\ reports' # <<>>
      /\ \A b \in Box!State :
            Caught(b)' = ApplyReport(Caught(b), r) /\ Caught(b) \in Box!State
  BY <1>1, Said
<1>3. PICK s \in Box!State : s = state
  BY <1>1
<1>4. Caught(state)' = ApplyReport(Caught(s), r)
  <2>1. Caught(state)' = Caught(s)'
    BY Zenon, <1>1, <1>3 DEF Caught, Counting
  <2>. QED  BY Zenon, <2>1, <1>2
<1>5. PICK c \in Box!State : c = Caught(s) /\ c = Caught(state)
  BY Zenon, <1>2, <1>3
<1>6. ViewInv'
  <2>1. ShowsTheWorker(c) /\ ShowsTheRun(c)
    BY Zenon, <1>1, <1>5 DEF ViewInv
  <2>2. PICK d : d = ApplyReport(c, r)
    OBVIOUS
  <2>3. ShowsTheWorker(d)' /\ ShowsTheRun(d)'
    BY Zenon, <2>1, <2>2 DEF KeepsUp
  <2>. QED  BY Zenon, <2>2, <2>3, <1>4, <1>5 DEF ViewInv
<1>7. ResultsInv'
  <2>. SUFFICES ASSUME NEW b \in Box!State, b = state' \/ OfOneRun(b, {})
                PROVE  OfOneRun(Caught(b)', Current')
    BY Zenon DEF ResultsInv, OfOneRun
  <2>1. PICK d \in Box!State : d = Caught(b)
    BY Zenon, <1>2
  <2>2. OfOneRun(d, Current)
    BY Zenon, <2>1, <1>1 DEF ResultsInv
  <2>3. OfOneRun(ApplyReport(d, r), Current')
    BY Zenon, <2>2 DEF KeepsUp
  <2>. QED  BY Zenon, <2>1, <2>3, <1>2
<1>. QED  BY <1>2, <1>6, <1>7

\* The graph op applied.
LEMMA ApplyGraphSteps ==
    ASSUME IInv, ApplyGraph PROVE IInv'
<1>1. /\ UNCHANGED editorVars /\ phase = "apply" /\ phase' = "applied"
      /\ UNCHANGED <<pending, intent, invoked, ranUnder, sink, published>>
  BY Zenon DEF ApplyGraph
<1>2. run' = run /\ Current' = {} /\ Current = {}
  BY <1>1 DEF run, Current
<1>3. CASE intent.graph = None
  <2>1. UNCHANGED <<installed, reports, superseded>>
    BY <1>3 DEF ApplyGraph, boxVars
  <2>2. ViewInv' /\ ResultsInv'
    BY <1>1, <2>1, EditorStays, ViewKept
  <2>3. TypeInv'
    BY <1>1, <2>1, EditorStays DEF TypeInv
  <2>4. IntentInv'
    BY <1>1, <1>2, <2>1, EditorStays DEF IntentInv
  <2>5. OrderInv'
    BY <1>1, <1>2, <2>1, EditorStays DEF OrderInv, Ran
  <2>6. RunInv'
    BY <1>1, <1>2, <2>1, EditorStays DEF RunInv
  <2>7. PreviewInv'
    BY <1>1, <1>2, <2>1, EditorStays DEF PreviewInv, Own
  <2>. QED  BY <2>2, <2>3, <2>4, <2>5, <2>6, <2>7 DEF IInv
<1>4. CASE intent.graph # None
  <2>1. PICK r : r = IF installed' = Empty THEN Cleared ELSE Installed(installed', {})
    OBVIOUS
  <2>2. installed' = intent.graph /\ Report(r)
    BY Zenon, <1>4, <2>1 DEF ApplyGraph
  <2>3. installed' \in Programs \cup {Empty} /\ installed' \in Opened \cup {Empty}
    <3>1. intent \in Intent /\ intent.graph \in Opened \cup {Empty, None}
      BY EditorStays, <1>1 DEF IntentInv
    <3>. QED  BY <3>1, <2>2, <1>4 DEF Intent
  <2>4. r \in Box!Report
    BY <2>1, <2>3 DEF Box!Report, Cleared, Installed
  <2>5. Ran(Document) => installed' = Document
    BY <1>1, <1>4, <2>2, EditorStays DEF OrderInv
  <2>6. ASSUME NEW c \in Box!State PROVE KeepsUp(c, ApplyReport(c, r))
    <3>1. PICK d : d = ApplyReport(c, r)
      OBVIOUS
    <3>2. CASE installed' = Empty
      <4>1. /\ d.nodes = Box!NoNodes /\ d.outcome = 0 /\ d.compiled = None
            /\ d.activity = c.activity /\ d.runsEnded = c.runsEnded
        BY <2>1, <3>1, <3>2, ClearedFold DEF Cleared
      <4>2. ShowsTheWorker(c) => ShowsTheWorker(d)'
        BY <1>1, <1>2, <3>2, <4>1 DEF ShowsTheWorker
      <4>3. ~(run' > 0 /\ ranUnder'[run'] = Document')
        <5>1. installed' # Document
          BY <1>1, <3>2, EditorStays, DocumentIsProgram
        <5>. QED  BY <5>1, <2>5, <1>1, <1>2, EditorStays DEF Ran
      <4>4. ShowsTheRun(d)'
        BY Zenon, <4>3 DEF ShowsTheRun
      <4>5. OfOneRun(d, Current')
        BY <4>1 DEF OfOneRun, Box!NoNodes, Box!NoNode
      <4>. QED  BY Zenon, <3>1, <4>2, <4>4, <4>5 DEF KeepsUp
    <3>3. CASE installed' # Empty
      <4>1. /\ d.nodes = c.nodes /\ d.outcome = c.outcome /\ d.compiled = installed'
            /\ d.activity = c.activity /\ d.runsEnded = c.runsEnded
        <5>1. r.type = "Installed" /\ r.program = installed'
          BY <2>1, <3>3 DEF Installed
        <5>. QED  BY <5>1, <3>1 DEF ApplyReport, Box!State
      <4>2. ShowsTheWorker(c) => ShowsTheWorker(d)'
        BY <1>1, <1>2, <3>3, <4>1 DEF ShowsTheWorker
      <4>3. ShowsTheRun(c) => ShowsTheRun(d)'
        BY <1>1, <1>2, <4>1, EditorStays DEF ShowsTheRun
      <4>4. OfOneRun(c, Current) => OfOneRun(d, Current')
        BY <1>2, <4>1 DEF OfOneRun
      <4>. QED  BY Zenon, <3>1, <4>2, <4>3, <4>4 DEF KeepsUp
    <3>. QED  BY <3>2, <3>3
  <2>7. /\ ViewInv' /\ ResultsInv'
        /\ reports' \in Seq(Box!Report) /\ superseded' \in Nat /\ reports' # <<>>
    BY <1>1, <2>2, <2>4, <2>6, ReportKeepsUp
  <2>8. TypeInv'
    BY <1>1, <2>3, <2>7, EditorStays DEF TypeInv
  <2>9. IntentInv'
    BY <1>1, <1>2, <2>3, EditorStays DEF IntentInv
  <2>10. OrderInv'
    <3>1. Ran(Document)' <=> Ran(Document)
      BY <1>1, <1>2, EditorStays DEF Ran
    <3>. QED  BY <1>1, <2>2, <2>5, <3>1, EditorStays DEF OrderInv
  <2>11. RunInv'
    BY <1>1, EditorStays DEF RunInv
  <2>12. PreviewInv'
    BY <1>1, <1>2, <2>7, EditorStays DEF PreviewInv, Own
  <2>. QED  BY <2>7, <2>8, <2>9, <2>10, <2>11, <2>12 DEF IInv
<1>. QED  BY <1>3, <1>4

\* A run begun, of the program installed.
LEMMA BeginRunSteps ==
    ASSUME IInv, BeginRun PROVE IInv'
<1>1. /\ UNCHANGED editorVars /\ phase = "applied" /\ phase' = "run"
      /\ ranUnder' = Append(ranUnder, installed) /\ invoked' = << >>
      /\ UNCHANGED <<pending, intent, installed, sink, published>>
      /\ NodesIn(installed) # {}
  BY Zenon DEF BeginRun, Runs
<1>2. PICK r : r = Activity("Executing")
  OBVIOUS
<1>3. Report(r) /\ r \in Box!Report
  <2>1. Report(r)
    BY Zenon, <1>2 DEF BeginRun
  <2>2. r \in Box!Report
    BY <1>2 DEF Box!Report, Box!Activities, Activity
  <2>. QED  BY <2>1, <2>2
<1>4. installed \in Programs
  BY <1>1 DEF NodesIn
<1>5. /\ run' = run + 1 /\ ranUnder' \in Seq(Programs) /\ ranUnder'[run'] = installed
      /\ \A i \in 1..run : ranUnder'[i] = ranUnder[i]
      /\ \A i \in 1..run' : ranUnder'[i] = installed \/ i \in 1..run
      /\ Current = {} /\ Current' = {run'}
  <2>1. ranUnder \in Seq(Programs)
    BY <1>1, EditorStays DEF TypeInv
  <2>2. /\ run' = run + 1 /\ ranUnder' \in Seq(Programs) /\ ranUnder'[run'] = installed
        /\ \A i \in 1..run : ranUnder'[i] = ranUnder[i]
        /\ Current = {} /\ Current' = {run'}
    BY <1>1, <1>4, <2>1 DEF run, Current
  <2>3. \A i \in 1..run' : i = run' \/ i \in 1..run
    BY <2>2, <1>1, EditorStays
  <2>. QED  BY <2>2, <2>3
<1>6. ASSUME NEW c \in Box!State PROVE KeepsUp(c, ApplyReport(c, r))
  <2>1. PICK d : d = ApplyReport(c, r)
    OBVIOUS
  <2>2. /\ d.nodes = c.nodes /\ d.outcome = c.outcome /\ d.compiled = c.compiled
        /\ d.activity = "Executing" /\ d.runsEnded = c.runsEnded
    <3>1. r.type = "Activity" /\ r.activity = "Executing"
      BY <1>2 DEF Activity
    <3>. QED  BY <3>1, <2>1 DEF ApplyReport, Box!State
  <2>3. ShowsTheWorker(c) => ShowsTheWorker(d)'
    BY <1>1, <1>5, <2>2, EditorStays DEF ShowsTheWorker
  <2>4. ShowsTheRun(d)'
    BY <1>1 DEF ShowsTheRun
  <2>5. OfOneRun(c, Current) => OfOneRun(d, Current')
    BY <1>5, <2>2 DEF OfOneRun
  <2>. QED  BY Zenon, <2>1, <2>3, <2>4, <2>5 DEF KeepsUp
<1>7. /\ ViewInv' /\ ResultsInv'
      /\ reports' \in Seq(Box!Report) /\ superseded' \in Nat /\ reports' # <<>>
  BY <1>1, <1>3, <1>6, ReportKeepsUp
<1>8. TypeInv'
  BY <1>1, <1>5, <1>7, EditorStays DEF TypeInv
<1>9. IntentInv'
  <2>1. installed \in Opened
    BY <1>1, <1>4, EditorStays, ProgramAssumption DEF IntentInv
  <2>2. \A i \in 1..run' : ranUnder'[i] \in Opened
    BY <1>1, <1>5, <2>1, EditorStays DEF IntentInv
  <2>. QED  BY <1>1, <2>1, <2>2, EditorStays DEF IntentInv
<1>10. OrderInv'
  <2>1. Ran(Document)' => Ran(Document) \/ installed = Document
    BY <1>1, <1>5, EditorStays DEF Ran
  <2>. QED  BY <1>1, <2>1, EditorStays DEF OrderInv
<1>11. RunInv'
  BY <1>1, <1>5, EditorStays DEF RunInv
<1>12. PreviewInv'
  <2>1. \A n \in Nodes : state.previews[n] \in Nat /\ published[n] \in Nat
    BY <1>1, EditorStays DEF TypeInv, Box!State
  <2>2. ASSUME NEW n \in Nodes PROVE Own(n)' <=> Own(n)
    <3>1. state.previews[n] # 0 => state.previews[n] \in 1..run
      BY <1>1, <2>1, EditorStays DEF PreviewInv
    <3>. QED  BY <3>1, <1>5, EditorStays, <1>1 DEF Own
  <2>. QED  BY <1>1, <1>5, <1>7, <2>1, <2>2, EditorStays DEF PreviewInv
<1>. QED  BY <1>7, <1>8, <1>9, <1>10, <1>11, <1>12 DEF IInv

\* The progress of a node shown: the node's status, of this run.
LEMMA ProgressKeepsUp ==
    ASSUME IInv, UNCHANGED editorVars, phase = "run",
           UNCHANGED <<phase, pending, intent, installed, ranUnder, sink, published>>,
           NEW n \in NodesIn(installed), NEW status \in Phases, Report(Progress(n, status, run)),
           DOMAIN invoked' = DOMAIN invoked \cup {n}, invoked'[n] = status,
           \A m \in DOMAIN invoked \ {n} : invoked'[m] = invoked[m]
    PROVE  IInv'
<1>1. run' = run /\ Current = {run} /\ Current' = {run} /\ run \in Nat /\ run > 0
  BY EditorStays DEF run, Current, RunInv
<1>2. n \in Nodes
  <2>1. installed \in Programs
    BY DEF NodesIn
  <2>. QED  BY <2>1, ProgramAssumption DEF NodesIn
<1>3. PICK r : r = Progress(n, status, run)
  OBVIOUS
<1>4. /\ Report(r) /\ r \in Box!Report
      /\ r.type = "Progress" /\ r.node = n /\ r.phase = status /\ r.run = run
  <2>1. Report(r)
    BY Zenon, <1>3
  <2>2. /\ r \in Box!Report
        /\ r.type = "Progress" /\ r.node = n /\ r.phase = status /\ r.run = run
    BY <1>1, <1>2, <1>3 DEF Progress, Box!Report, Box!Phases, Phases
  <2>. QED  BY <2>1, <2>2
<1>5. ASSUME NEW c \in Box!State PROVE KeepsUp(c, ApplyReport(c, r))
  <2>1. PICK d : d = ApplyReport(c, r)
    OBVIOUS
  <2>2. /\ d.outcome = c.outcome /\ d.compiled = c.compiled
        /\ d.activity = c.activity /\ d.runsEnded = c.runsEnded
        /\ d.nodes = Box!Progressed(c.nodes, r)
    BY <1>4, <2>1, ProgressFold
  <2>3. /\ d.nodes[n].status = status /\ d.nodes[n].run = run
        /\ \A m \in Nodes : m # n => d.nodes[m] = c.nodes[m]
    BY <1>2, <1>4, <2>2, ProgressedNodes
  <2>4. ShowsTheWorker(c) => ShowsTheWorker(d)'
    BY <1>1, <2>2 DEF ShowsTheWorker
  <2>5. ShowsTheRun(c) => ShowsTheRun(d)'
    <3>1. DOMAIN invoked \subseteq Nodes /\ Shown(status) = status
      BY EditorStays DEF RunInv, Shown, Phases
    <3>2. ASSUME ShowsTheRun(c), run > 0, ranUnder[run] = Document, NEW m \in DOMAIN invoked'
          PROVE  d.nodes[m].status = Shown(invoked'[m])
      <4>1. CASE m = n
        BY <4>1, <2>3, <3>1
      <4>2. CASE m # n
        BY <4>2, <2>3, <3>1, <3>2 DEF ShowsTheRun
      <4>. QED  BY <4>1, <4>2
    <3>. QED  BY <1>1, <3>2, EditorStays DEF ShowsTheRun, Shown
  <2>6. OfOneRun(c, Current) => OfOneRun(d, Current')
    BY <1>1, <2>2, <2>3 DEF OfOneRun
  <2>. QED  BY Zenon, <2>1, <2>4, <2>5, <2>6 DEF KeepsUp
<1>6. /\ ViewInv' /\ ResultsInv'
      /\ reports' \in Seq(Box!Report) /\ superseded' \in Nat /\ reports' # <<>>
  BY <1>4, <1>5, ReportKeepsUp
<1>7. TypeInv'
  BY <1>6, EditorStays DEF TypeInv
<1>8. IntentInv'
  BY <1>1, EditorStays DEF IntentInv
<1>9. OrderInv'
  BY <1>1, EditorStays DEF OrderInv, Ran
<1>10. RunInv'
  <2>1. \A m \in DOMAIN invoked' : invoked'[m] \in Statuses \cup {"Published"}
    BY EditorStays DEF RunInv, Statuses
  <2>. QED  BY <1>1, <1>2, <2>1, EditorStays DEF RunInv
<1>11. PreviewInv'
  BY <1>1, <1>6, EditorStays DEF PreviewInv, Own
<1>. QED  BY <1>6, <1>7, <1>8, <1>9, <1>10, <1>11 DEF IInv

\* A node started, and one finished.
LEMMA NodeSteps ==
    ASSUME IInv, NEW n \in Nodes
    PROVE  /\ StartNode(n) => IInv'
           /\ \A result \in {"Executed", "Errored"} : FinishNode(n, result) => IInv'
<1>1. ASSUME StartNode(n) PROVE IInv'
  <2>1. /\ UNCHANGED editorVars /\ phase = "run" /\ n \in NodesIn(installed) \ DOMAIN invoked
        /\ invoked' = [m \in DOMAIN invoked \cup {n} |-> IF m = n THEN "Running" ELSE invoked[m]]
        /\ Report(Progress(n, "Running", run))
        /\ UNCHANGED <<phase, pending, intent, installed, ranUnder, sink, published>>
    BY Zenon, <1>1 DEF StartNode
  <2>2. /\ DOMAIN invoked' = DOMAIN invoked \cup {n} /\ invoked'[n] = "Running"
        /\ \A m \in DOMAIN invoked \ {n} : invoked'[m] = invoked[m]
    BY <2>1
  <2>3. "Running" \in Phases
    BY DEF Phases
  <2>. QED  BY <2>1, <2>2, <2>3, ProgressKeepsUp
<1>2. ASSUME NEW result \in {"Executed", "Errored"}, FinishNode(n, result) PROVE IInv'
  <2>1. /\ UNCHANGED editorVars /\ phase = "run" /\ n \in Underway
        /\ invoked' = [invoked EXCEPT ![n] = result]
        /\ Report(Progress(n, result, run))
        /\ UNCHANGED <<phase, pending, intent, installed, ranUnder, sink, published>>
    BY Zenon, <1>2 DEF FinishNode
  <2>2. n \in DOMAIN invoked /\ n \in NodesIn(installed)
    BY <2>1, EditorStays DEF Underway, RunInv
  <2>3. /\ DOMAIN invoked' = DOMAIN invoked \cup {n} /\ invoked'[n] = result
        /\ \A m \in DOMAIN invoked \ {n} : invoked'[m] = invoked[m]
    BY <2>1, <2>2
  <2>4. result \in Phases
    BY DEF Phases
  <2>. QED  BY <2>1, <2>2, <2>3, <2>4, ProgressKeepsUp
<1>. QED  BY <1>1, <1>2

\* A value published: it waits for a frame, and no report tells of it.
LEMMA PublishSteps ==
    ASSUME IInv, NEW n \in Nodes, Publish(n) PROVE IInv'
<1>1. /\ UNCHANGED editorVars /\ phase = "run" /\ n \in Underway /\ invoked[n] = "Running"
      /\ invoked' = [invoked EXCEPT ![n] = "Published"]
      /\ sink' = [sink EXCEPT ![n] = run] /\ published' = [published EXCEPT ![n] = run]
      /\ UNCHANGED <<phase, pending, intent, installed, ranUnder, reports, superseded>>
  BY Zenon DEF Publish, boxVars
<1>2. /\ run' = run /\ run \in Nat /\ run > 0 /\ Current' = Current
      /\ sink \in [Nodes -> Nat] /\ published \in [Nodes -> Nat]
  BY <1>1, EditorStays DEF run, Current, RunInv, TypeInv
<1>3. /\ DOMAIN invoked' = DOMAIN invoked
      /\ \A m \in DOMAIN invoked : /\ Shown(invoked'[m]) = Shown(invoked[m])
                                   /\ invoked'[m] \in {invoked[m], "Published"}
  BY <1>1 DEF Shown
<1>4. \A b : Caught(b)' = Caught(b)
  BY Zenon, <1>1 DEF Caught, Counting
<1>5. PICK s \in Box!State : s = state /\ Caught(state)' = Caught(s)
  <2>1. state' = state /\ state \in Box!State
    BY <1>1, EditorStays
  <2>2. PICK s : s = state
    OBVIOUS
  <2>3. Caught(state)' = Caught(s)
    BY Zenon, <1>1, <2>1, <2>2 DEF Caught, Counting
  <2>. QED  BY Zenon, <2>1, <2>2, <2>3
<1>6. ViewInv'
  <2>1. PICK c : c = Caught(s)
    OBVIOUS
  <2>2. ShowsTheWorker(c) /\ ShowsTheRun(c)
    BY Zenon, <1>1, <1>5, <2>1, EditorStays DEF ViewInv
  <2>3. ShowsTheWorker(c)'
    BY <1>1, <1>2, <2>2 DEF ShowsTheWorker
  <2>4. ShowsTheRun(c)'
    BY <1>1, <1>2, <1>3, <2>2, EditorStays DEF ShowsTheRun
  <2>. QED  BY Zenon, <2>1, <2>3, <2>4, <1>5 DEF ViewInv
<1>7. ResultsInv'
  <2>. SUFFICES ASSUME NEW b \in Box!State, b = state' \/ OfOneRun(b, {})
                PROVE  OfOneRun(Caught(b)', Current')
    BY Zenon DEF ResultsInv, OfOneRun
  <2>1. ResultsInv /\ state' = state
    BY <1>1, EditorStays
  <2>. QED  BY Zenon, <2>1, <1>2, <1>4 DEF ResultsInv
<1>8. TypeInv'
  BY <1>1, <1>2, EditorStays DEF TypeInv
<1>9. IntentInv'
  BY <1>1, <1>2, EditorStays DEF IntentInv
<1>10. OrderInv'
  BY <1>1, <1>2, EditorStays DEF OrderInv, Ran
<1>11. RunInv'
  BY <1>1, <1>2, <1>3, EditorStays DEF RunInv
<1>12. PreviewInv'
  BY <1>1, <1>2, EditorStays DEF PreviewInv, Own
<1>. QED  BY <1>6, <1>7, <1>8, <1>9, <1>10, <1>11, <1>12 DEF IInv

\* What a node shows after a run completed: the verdict on it, of this run.
LEMMA ResultsShown ==
    ASSUME NEW r, NEW n \in Nodes
    PROVE  /\ n \in DOMAIN r.statuses => Box!ResultsOf(r)[n].status = r.statuses[n]
           /\ n \notin DOMAIN r.statuses => Box!ResultsOf(r)[n].status = "None"
           /\ Box!ResultsOf(r)[n].run \in {0, r.run}
BY DEF Box!ResultsOf

\* A run completed: what each node came to takes the place of what was shown.
LEMMA CompleteRunSteps ==
    ASSUME IInv, NEW others \in [NodesIn(installed) \ DOMAIN invoked -> {"None", "Cached"}],
           CompleteRun(others)
    PROVE  IInv'
<1>1. /\ UNCHANGED editorVars /\ phase = "run" /\ phase' = "rest" /\ intent' = EmptyIntent
      /\ invoked' = [n \in NodesIn(installed) |->
                        IF n \notin DOMAIN invoked THEN others[n]
                        ELSE IF n \in Underway THEN "None" ELSE invoked[n]]
      /\ UNCHANGED <<pending, installed, ranUnder, sink, published>>
  BY Zenon DEF CompleteRun
<1>2. run' = run /\ Current = {run} /\ Current' = {} /\ run \in Nat /\ run > 0
  BY <1>1, EditorStays DEF run, Current, RunInv
<1>3. NodesIn(installed) \in SUBSET Nodes
  BY ProgramAssumption DEF NodesIn
<1>4. PICK verdicts \in [NodesIn(installed) -> Phases \cup Unrun] : verdicts = invoked'
  <2>1. ASSUME NEW n \in NodesIn(installed) PROVE invoked'[n] \in Phases \cup Unrun
    <3>1. CASE n \notin DOMAIN invoked
      BY <1>1, <3>1 DEF Unrun
    <3>2. CASE n \in Underway
      BY <1>1, <3>2 DEF Underway, Unrun
    <3>3. CASE n \in DOMAIN invoked /\ n \notin Underway
      <4>1. invoked[n] \in Phases \cup Unrun \cup {"Published"} /\ invoked[n] # "Published"
        BY <1>1, <3>3, EditorStays DEF RunInv, Statuses, Underway
      <4>. QED  BY <1>1, <3>3, <4>1
    <3>. QED  BY <3>1, <3>2, <3>3
  <2>2. invoked' \in [NodesIn(installed) -> Phases \cup Unrun]
    BY <1>1, <2>1
  <2>. QED  BY <2>2
<1>5. PICK r : r = Completed(run, "Idle", verdicts, {})
  OBVIOUS
<1>6. /\ Report(r) /\ r \in Box!Report
      /\ r.type = "Completed" /\ r.run = run /\ r.activity = "Idle" /\ r.statuses = verdicts
  <2>1. Report(r)
    BY Zenon, <1>4, <1>5 DEF CompleteRun
  <2>2. verdicts \in UNION {[D -> Box!Phases \cup Box!Unrun] : D \in SUBSET Nodes}
    BY <1>3, <1>4 DEF Box!Phases, Phases, Box!Unrun, Unrun
  <2>3. "Idle" \in Box!Activities
    BY DEF Box!Activities
  <2>4. r = [type |-> "Completed", run |-> run, activity |-> "Idle", statuses |-> verdicts,
             ram |-> {}]
    BY <1>5 DEF Completed
  <2>5. r \in Box!Report
    BY <2>2, <2>3, <2>4, <1>2 DEF Box!Report
  <2>. QED  BY <2>1, <2>4, <2>5
<1>7. ASSUME NEW c \in Box!State PROVE KeepsUp(c, ApplyReport(c, r))
  <2>1. PICK d : d = ApplyReport(c, r)
    OBVIOUS
  <2>2. /\ d.outcome = run /\ d.compiled = c.compiled
        /\ d.activity = "Idle" /\ d.runsEnded = c.runsEnded + 1
        /\ d.nodes = Box!ResultsOf(r)
    BY <1>6, <2>1, CompletedFold
  <2>3. ASSUME NEW n \in Nodes
        PROVE  /\ n \in DOMAIN invoked' => d.nodes[n].status = invoked'[n]
               /\ n \notin DOMAIN invoked' => d.nodes[n].status = "None"
               /\ d.nodes[n].run \in {0, run}
    BY <1>4, <1>6, <2>2, ResultsShown
  <2>4. ShowsTheWorker(c) => ShowsTheWorker(d)'
    BY <1>1, <1>2, <2>2 DEF ShowsTheWorker
  <2>5. ShowsTheRun(d)'
    <3>1. ASSUME NEW n \in DOMAIN invoked' PROVE n \in Nodes /\ Shown(invoked'[n]) = invoked'[n]
      BY <1>3, <1>4 DEF Shown, Phases, Unrun
    <3>. QED  BY <2>3, <3>1 DEF ShowsTheRun, Shown
  <2>6. OfOneRun(d, Current')
    BY <1>2, <2>2, <2>3 DEF OfOneRun
  <2>. QED  BY Zenon, <2>1, <2>4, <2>5, <2>6 DEF KeepsUp
<1>8. /\ ViewInv' /\ ResultsInv'
      /\ reports' \in Seq(Box!Report) /\ superseded' \in Nat /\ reports' # <<>>
  BY <1>1, <1>6, <1>7, ReportKeepsUp
<1>9. TypeInv'
  BY <1>1, <1>8, EditorStays DEF TypeInv
<1>10. IntentInv'
  <2>1. EmptyIntent \in Intent /\ EmptyIntent.graph = None
    BY DEF EmptyIntent, Intent
  <2>. QED  BY <1>1, <1>2, <2>1, EditorStays DEF IntentInv
<1>11. OrderInv'
  BY <1>1, <1>2, EditorStays DEF OrderInv, Ran
<1>12. RunInv'
  <2>1. \A n \in DOMAIN invoked' : invoked'[n] \in Statuses /\ invoked'[n] # "Published"
    BY <1>4 DEF Statuses, Phases, Unrun
  <2>. QED  BY <1>1, <1>3, <1>4, <2>1 DEF RunInv
<1>13. PreviewInv'
  BY <1>1, <1>2, <1>8, EditorStays DEF PreviewInv, Own
<1>. QED  BY <1>8, <1>9, <1>10, <1>11, <1>12, <1>13 DEF IInv

\* A step of nothing.
LEMMA StutterSteps ==
    ASSUME IInv, UNCHANGED vars PROVE IInv'
<1>1. /\ UNCHANGED editorVars
      /\ UNCHANGED <<phase, pending, intent, installed, invoked, ranUnder, sink, published>>
      /\ UNCHANGED <<reports, superseded>>
  BY DEF vars, workerVars, boxVars
<1>2. run' = run
  BY <1>1 DEF run
<1>3. ViewInv' /\ ResultsInv'
  BY <1>1, EditorStays, ViewKept
<1>4. TypeInv'
  BY <1>1, EditorStays DEF TypeInv
<1>5. IntentInv' /\ OrderInv' /\ RunInv'
  BY <1>1, <1>2, EditorStays DEF IntentInv, OrderInv, Ran, RunInv
<1>6. PreviewInv'
  BY <1>1, <1>2, EditorStays DEF PreviewInv, Own
<1>. QED  BY <1>3, <1>4, <1>5, <1>6 DEF IInv

-----------------------------------------------------------------------------
(* The theorems *)

\* Every step keeps the invariant.
LEMMA IInvSteps == IInv /\ [Next]_vars => IInv'
<1>. SUFFICES ASSUME IInv, [Next]_vars PROVE IInv'
  OBVIOUS
<1>1. ASSUME Editor PROVE IInv'
  <2>1. CASE Run \/ \E n \in Nodes : Flush(n) \/ \E cone \in SUBSET Nodes : Evict(n, cone)
    BY Zenon, <2>1, CommandSteps
  <2>2. CASE OpenDocument
    BY <2>2, OpenDocumentSteps
  <2>3. CASE PostNext
    BY <2>3, PostNextSteps
  <2>4. CASE DrainReports
    BY <2>4, DrainReportsSteps
  <2>5. CASE DrainPreviews
    BY <2>5, DrainPreviewsSteps
  <2>. QED  BY Zenon, <1>1, <2>1, <2>2, <2>3, <2>4, <2>5 DEF Editor
<1>2. ASSUME Worker PROVE IInv'
  <2>1. CASE TakeBatch
    BY <2>1, TakeBatchSteps
  <2>2. CASE ApplyGraph
    BY <2>2, ApplyGraphSteps
  <2>3. CASE EndBatch
    BY <2>3, EndBatchSteps
  <2>4. CASE BeginRun
    BY <2>4, BeginRunSteps
  <2>5. CASE \E others \in [NodesIn(installed) \ DOMAIN invoked -> {"None", "Cached"}] :
                CompleteRun(others)
    BY Zenon, <2>5, CompleteRunSteps
  <2>6. CASE \E n \in Nodes : StartNode(n) \/ Publish(n)
    BY Zenon, <2>6, NodeSteps, PublishSteps
  <2>7. CASE \E n \in Nodes, result \in {"Executed", "Errored"} : FinishNode(n, result)
    BY Zenon, <2>7, NodeSteps
  <2>. QED  BY Zenon, <1>2, <2>1, <2>2, <2>3, <2>4, <2>5, <2>6, <2>7 DEF Worker
<1>. QED  BY Zenon, <1>1, <1>2, StutterSteps DEF Next

\* Whatever the documents, the commands and the interleaving, the two sides
\* stay tied to each other: what a frame would show is what the worker does.
THEOREM FeedHolds == Spec => []IInv
<1>. QED  BY IInvStarts, IInvSteps, PTL DEF Spec

\* At rest the state is what is caught up to.
LEMMA QuietIsCaughtUp ==
    ASSUME IInv, Quiet
    PROVE  /\ Caught(state) = state /\ state \in Box!State
           /\ phase = "rest" /\ reports = <<>> /\ frame = "idle"
<1>1. TypeInv /\ reports = <<>> /\ phase = "rest" /\ frame = "idle"
  BY Zenon DEF IInv, Quiet, AtCommands
<1>. QED  BY <1>1, NothingToFold DEF TypeInv

\* The editor at rest shows the worker as it is, and no value published waits
\* unseen.
THEOREM SettledViewHolds == Spec => []SettledViewIsTruthful
<1>1. ASSUME IInv PROVE SettledViewIsTruthful
  <2>. SUFFICES ASSUME Quiet
                PROVE  /\ ShowsTheWorker(state) /\ phase = "rest" /\ sink = NothingPublished
    BY DEF SettledViewIsTruthful, ShowsTheWorker
  <2>1. ShowsTheWorker(state)
    BY Zenon, <1>1, QuietIsCaughtUp DEF IInv, ViewInv
  <2>2. sink = NothingPublished
    BY <1>1, QuietIsCaughtUp DEF IInv, PreviewInv
  <2>. QED  BY <1>1, <2>1, <2>2, QuietIsCaughtUp
<1>. QED  BY <1>1, FeedHolds, PTL

\* The statuses at rest are of one run, and of the last one as it went when it
\* was of the open document.
THEOREM ResultsOfTheLastRunHold == Spec => []ResultsAreOfTheLastRun
<1>1. ASSUME IInv PROVE ResultsAreOfTheLastRun
  <2>. SUFFICES ASSUME Quiet
                PROVE  /\ \A n \in Nodes : state.nodes[n].run \in {0, state.outcome}
                       /\ run > 0 /\ ranUnder[run] = Document =>
                             \A n \in Nodes : state.nodes[n].status =
                                (IF n \in DOMAIN invoked THEN invoked[n] ELSE "None")
    BY Zenon DEF ResultsAreOfTheLastRun
  <2>1. OfOneRun(state, {}) /\ phase = "rest"
    <3>1. OfOneRun(state, Current)
      BY Zenon, <1>1, QuietIsCaughtUp DEF IInv, ResultsInv
    <3>2. phase = "rest"
      BY <1>1, QuietIsCaughtUp
    <3>. QED  BY <3>1, <3>2 DEF Current
  <2>2. ShowsTheRun(state)
    BY Zenon, <1>1, QuietIsCaughtUp DEF IInv, ViewInv
  <2>3. \A n \in DOMAIN invoked : Shown(invoked[n]) = invoked[n]
    BY <1>1, <2>1 DEF IInv, RunInv, Shown
  <2>. QED  BY <2>1, <2>2, <2>3 DEF OfOneRun, ShowsTheRun
<1>. QED  BY <1>1, FeedHolds, PTL

\* No preview of the open document at rest is of a run another one followed.
THEOREM LatestPreviewsHold == Spec => []PreviewsAreTheLatest
<1>1. ASSUME IInv PROVE PreviewsAreTheLatest
  <2>. SUFFICES ASSUME Quiet, NEW n \in Nodes
                PROVE  \/ state.previews[n] \in {0, published[n]}
                       \/ ranUnder[state.previews[n]] # Document
    BY DEF PreviewsAreTheLatest
  <2>1. sink = NothingPublished
    BY <1>1, QuietIsCaughtUp DEF IInv, PreviewInv
  <2>. QED  BY <1>1, <2>1 DEF IInv, PreviewInv, Own, NothingPublished
<1>. QED  BY <1>1, FeedHolds, PTL
=============================================================================
