-------------------------- MODULE ReportMailbox_proofs --------------------------
(***************************************************************************)
(* The mailbox keeps its bound and its promises, and implements the queue  *)
(* that keeps every report.                                                *)
(*                                                                         *)
(* Why a merge shows in no frame: supersedes is documented as "folding new *)
(* after old leaves what folding new alone leaves, the run count aside"    *)
(* (report_mailbox.rs:95), but post drops old whatever was reported        *)
(* between the two.  The argument has three steps: folding old changes     *)
(* only what new overwrites and the count (SupersededIsOverwritten), every *)
(* report folded after it keeps it that way (OverwrittenStaysSo), and new  *)
(* then leaves no difference but the count (OverwritingLeavesTheCount).    *)
(* MergeLeavesTheFold adds them up along the box.  The invariant IInv then *)
(* ties the box to the list of all that was posted: both fold alike, both  *)
(* name only nodes acknowledged, and the box is sparse.                    *)
(***************************************************************************)
EXTENDS ReportMailbox, FiniteSetTheorems, TLAPS

(* What the fold works on. *)
NodeState == [status : Phases \cup Unrun, run : Nat, ram : BOOLEAN]

State ==
    [nodes : [Nodes -> NodeState], previews : [Nodes -> Nat], outcome : Nat,
     compiled : Programs \cup {None}, activity : Activities, cacheRam : SUBSET Nodes,
     runsEnded : Nat, parked : {"none", "failure"}]

Report ==
    [type : {"Installed"}, program : Programs, ram : SUBSET Nodes]
      \cup [type : {"Cleared", "ExecError", "OtherError"}]
      \cup [type : {"Activity"}, activity : Activities]
      \cup [type : {"Progress"}, node : Nodes, phase : Phases, run : Nat]
      \cup [type : {"Completed"}, run : Nat, activity : Activities,
             statuses : UNION {[D -> Phases \cup Unrun] : D \in SUBSET Nodes},
                   ram : SUBSET Nodes]

(* s and t differ in nothing but what a later new overwrites, and s counts   *)
(* k more runs.                                                               *)
SameBut(new, k, s, t) ==
    /\ s.runsEnded = t.runsEnded + k
    /\ s.compiled = t.compiled
    /\ new.type \in {"Activity", "Completed"} => s.previews = t.previews
    /\ new.type \in {"Activity", "ExecError"} => s.cacheRam = t.cacheRam
    /\ new.type = "ExecError" => s.activity = t.activity
    /\ new.type = "Activity" =>
          s.nodes = t.nodes /\ s.outcome = t.outcome /\ s.parked = t.parked

(* The runs a report counts. *)
Counted(report) == IF EndsARun(report) THEN 1 ELSE 0

-----------------------------------------------------------------------------
NoNodes    == [n \in Nodes |-> NoNode]
NoPreviews == [n \in Nodes |-> 0]

(* What the fold leaves in each field, for the reports that set many.         *)
LEMMA FoldedCleared ==
    ASSUME NEW s \in State, NEW r, r.type = "Cleared"
    PROVE  ApplyReport(s, r) =
             [nodes |-> NoNodes, previews |-> NoPreviews,
              outcome |-> 0, compiled |-> None, activity |-> s.activity, cacheRam |-> {},
              runsEnded |-> s.runsEnded, parked |-> s.parked]
BY DEF State, ApplyReport, Emptied, NoNodes, NoPreviews

\* What apply_report makes of an engine error: everything of the document goes.
LEMMA FoldedExecError ==
    ASSUME NEW s \in State, NEW r, r.type = "ExecError"
    PROVE  ApplyReport(s, r) =
             [nodes |-> NoNodes, previews |-> NoPreviews,
              outcome |-> 0, compiled |-> s.compiled, activity |-> s.activity,
              cacheRam |-> s.cacheRam, runsEnded |-> s.runsEnded + 1, parked |-> "failure"]
BY DEF State, ApplyReport, Emptied, NoNodes, NoPreviews

(* The nodes a progress report leaves.                                        *)
Progressed(nodes, r) ==
    [nodes EXCEPT ![r.node] = [nodes[r.node] EXCEPT !.status = r.phase, !.run = r.run]]

\* What it makes of a node's progress: one node's status...
LEMMA FoldedProgress ==
    ASSUME NEW s \in State, NEW r \in Report, r.type = "Progress"
    PROVE  /\ Progressed(s.nodes, r) \in [Nodes -> NodeState]
           /\ ApplyReport(s, r) =
                [nodes |-> Progressed(s.nodes, r), previews |-> s.previews, outcome |-> s.outcome,
                 compiled |-> s.compiled, activity |-> s.activity, cacheRam |-> s.cacheRam,
                 runsEnded |-> s.runsEnded, parked |-> s.parked]
<1>1. r.node \in Nodes /\ r.phase \in Phases /\ r.run \in Nat
  BY DEF Report
<1>2. s.nodes[r.node] \in NodeState
  BY <1>1 DEF State
<1> QED
  BY <1>1, <1>2 DEF State, NodeState, ApplyReport, ApplyProgress, Progressed

(* The nodes a completed run leaves, whatever they showed before.             *)
ResultsOf(r) ==
    [n \in Nodes |->
        LET status == IF n \in DOMAIN r.statuses THEN r.statuses[n] ELSE "None"
        IN [status |-> status,
            run |-> IF status = "None" THEN 0 ELSE r.run,
            ram |-> n \in r.ram]]

\* ...and of a completed run: every result replaced.
LEMMA FoldedCompleted ==
    ASSUME NEW s \in State, NEW r, r.type = "Completed"
    PROVE  ApplyReport(s, r) =
             [nodes |-> ResultsOf(r), previews |-> s.previews, outcome |-> r.run,
              compiled |-> s.compiled, activity |-> r.activity, cacheRam |-> r.ram,
              runsEnded |-> s.runsEnded + 1, parked |-> "none"]
BY DEF State, ApplyReport, ReplaceResults, ResultsOf

(* Folding a report keeps a state one.                                        *)
LEMMA FoldTypeCorrect ==
    ASSUME NEW s \in State, NEW r \in Report
    PROVE  ApplyReport(s, r) \in State
<1>1. NoNodes \in [Nodes -> NodeState] /\ NoPreviews \in [Nodes -> Nat]
  BY DEF NodeState, NoNode, Unrun, NoNodes, NoPreviews
<1>2. CASE r.type = "Installed"
  BY <1>2 DEF Report, ApplyReport, State
<1>3. CASE r.type = "Cleared"
  BY <1>1, <1>3, FoldedCleared DEF State
<1>4. CASE r.type = "ExecError"
  BY <1>1, <1>4, FoldedExecError DEF State
<1>5. CASE r.type = "OtherError"
  BY <1>5 DEF ApplyReport, State
<1>6. CASE r.type = "Activity"
  BY <1>6 DEF Report, ApplyReport, State
<1>7. CASE r.type = "Progress"
  BY <1>7, FoldedProgress DEF State
<1>8. CASE r.type = "Completed"
  <2>1. /\ r.ram \in SUBSET Nodes /\ r.run \in Nat /\ r.activity \in Activities
        /\ \A n \in DOMAIN r.statuses : r.statuses[n] \in Phases \cup Unrun
    BY <1>8 DEF Report
  <2>2. ResultsOf(r) \in [Nodes -> NodeState]
    BY <2>1 DEF ResultsOf, NodeState, Unrun
  <2> QED
    BY <1>8, <2>1, <2>2, FoldedCompleted DEF State
<1> QED
  BY <1>2, <1>3, <1>4, <1>5, <1>6, <1>7, <1>8 DEF Report

-----------------------------------------------------------------------------
(* A report that a later one supersedes changes only what that one           *)
(* overwrites, and counts its run.                                            *)
THEOREM SupersededIsOverwritten ==
    ASSUME NEW s \in State, NEW old \in Report, NEW new \in Report, Supersedes(new, old)
    PROVE  SameBut(new, Counted(old), ApplyReport(s, old), s)
<1> s.runsEnded \in Nat
  BY DEF State
<1> USE DEF SameBut, Counted, EndsARun, Supersedes
<1>1. CASE old.type = "Activity"
  BY <1>1 DEF State, ApplyReport
<1>2. CASE old.type = "Progress"
  BY <1>2, FoldedProgress
<1>3. CASE old.type = "ExecError"
  BY <1>3, FoldedExecError
<1>4. CASE old.type = "Completed"
  BY <1>4, FoldedCompleted
<1> QED
  BY <1>1, <1>2, <1>3, <1>4

(* Whatever is reported in between, the two states stay the same but for     *)
(* what the later report overwrites.                                          *)
THEOREM OverwrittenStaysSo ==
    ASSUME NEW s \in State, NEW t \in State, NEW k \in Nat,
           NEW new \in Report, NEW between \in Report,
           SameBut(new, k, s, t)
    PROVE  SameBut(new, k, ApplyReport(s, between), ApplyReport(t, between))
<1> s.runsEnded \in Nat /\ t.runsEnded \in Nat
  BY DEF State
<1> USE DEF SameBut
<1>1. CASE between.type \in {"Installed", "OtherError", "Activity"}
  BY <1>1 DEF State, ApplyReport
<1>2. CASE between.type = "Cleared"
  <2>1. ApplyReport(s, between).cacheRam = {} /\ ApplyReport(t, between).cacheRam = {}
    BY <1>2, FoldedCleared
  <2> QED
    BY <1>2, <2>1, FoldedCleared
<1>3. CASE between.type = "ExecError"
  BY <1>3, FoldedExecError
<1>4. CASE between.type = "Progress"
  BY <1>4, FoldedProgress
<1>5. CASE between.type = "Completed"
  BY <1>5, FoldedCompleted
<1> QED
  BY <1>1, <1>2, <1>3, <1>4, <1>5 DEF Report

(* The later report itself leaves no difference but the count.                *)
THEOREM OverwritingLeavesTheCount ==
    ASSUME NEW s \in State, NEW t \in State, NEW k \in Nat,
           NEW new \in Report, new.type \in {"Activity", "ExecError", "Completed"},
           SameBut(new, k, s, t)
    PROVE  ApplyReport(s, new) =
             [ApplyReport(t, new) EXCEPT !.runsEnded = ApplyReport(t, new).runsEnded + k]
<1> s.runsEnded \in Nat /\ t.runsEnded \in Nat
  BY DEF State
<1> USE DEF SameBut
<1>1. CASE new.type = "Activity"
  BY <1>1 DEF State, ApplyReport
<1>2. CASE new.type = "ExecError"
  BY <1>2, FoldedExecError
<1>3. CASE new.type = "Completed"
  BY <1>3, FoldedCompleted
<1> QED
  BY <1>1, <1>2, <1>3

-----------------------------------------------------------------------------
(* The fold, report by report *)

FoldBody(env, s, r) == ApplyReport(s, r)
Folding == INSTANCE Recursion WITH Body <- FoldBody

(* Picked, place by place: what is picked among the first i of env.seq.       *)
PickBody(env, f, i) ==
    IF i = 0 THEN <<>>
    ELSE IF i \in env.places THEN Append(f[i - 1], env.seq[i]) ELSE f[i - 1]
Picking == INSTANCE Recursion WITH Body <- PickBody

(* The states a fold of q goes through. *)
IsTrace(g, s, q) ==
    /\ g[0] = s
    /\ \A k \in 1..Len(q) : g[k] = ApplyReport(g[k - 1], q[k])

\* What a sequence of reports is, spelled out for the provers.
LEMMA ReportAt ==
    ASSUME NEW q \in Seq(Report)
    PROVE  Len(q) \in Nat /\ DOMAIN q = 1..Len(q) /\ \A i \in 1..Len(q) : q[i] \in Report
OBVIOUS

\* A statement about the places up to n that holds at 0 and passes from each
\* place to the next holds at them all.
LEMMA PlaceByPlace ==
    ASSUME NEW n \in Nat, NEW S, 0 \in S,
           \A k \in 1..n : k - 1 \in S => k \in S
    PROVE  \A k \in 0..n : k \in S
<1>. DEFINE Bad == {k \in 0..n : k \notin S}
<1>1. SUFFICES ASSUME Bad # {} PROVE FALSE
  OBVIOUS
<1>2. PICK k \in Bad : \A m \in Bad : k <= m
  <2>1. Bad \subseteq Nat
    OBVIOUS
  <2>. HIDE DEF Bad
  <2>. QED  BY <1>1, <2>1, Picking!LeastNatural
<1>3. k # 0 /\ k \in 1..n /\ k - 1 \in 0..n
  BY <1>2
<1>4. k - 1 \notin Bad
  BY <1>2, <1>3
<1>. QED  BY <1>2, <1>3, <1>4

\* A trace is of states.
LEMMA TraceOfStates ==
    ASSUME NEW g, NEW s \in State, NEW q \in Seq(Report), IsTrace(g, s, q)
    PROVE  \A k \in 0..Len(q) : g[k] \in State
<1>. DEFINE S == {k \in 0..Len(q) : g[k] \in State}
<1>1. Len(q) \in Nat /\ \A i \in 1..Len(q) : q[i] \in Report
  BY ReportAt
<1>2. 0 \in S
  BY <1>1 DEF IsTrace
<1>3. ASSUME NEW k \in 1..Len(q), k - 1 \in S PROVE k \in S
  <2>1. g[k] = ApplyReport(g[k - 1], q[k]) /\ q[k] \in Report
    BY <1>1 DEF IsTrace
  <2>2. g[k - 1] \in State
    BY <1>3
  <2>3. g[k] \in State
    BY <2>1, <2>2, FoldTypeCorrect
  <2>. QED  BY <1>1, <2>3
<1>. HIDE DEF S
<1>4. \A k \in 0..Len(q) : k \in S
  BY <1>1, <1>2, <1>3, PlaceByPlace
<1>. QED  BY <1>4 DEF S

\* A fold has a trace, and ends where it does.
LEMMA FoldHasTrace ==
    ASSUME NEW s \in State, NEW q \in Seq(Report)
    PROVE  \E g : IsTrace(g, s, q) /\ Fold(s, q) = g[Len(q)]
<1>1. Fold(s, q) = Folding!FoldOf(0, s, q)
  BY Zenon DEF Fold, Folding!FoldOf, Folding!IsFolding, Folding!Largest, FoldBody,
               FoldLeft, MapThenFoldSet, Max
<1>2. Len(q) \in Nat /\ DOMAIN q = 1..Len(q)
  BY ReportAt
<1>3. PICK f : Folding!Unfolds(f, 0, s, q, Len(q))
  BY <1>2, Folding!FoldUnfolds
<1>. DEFINE g == [k \in 0..Len(q) |-> f[1..k]]
<1>4. /\ Folding!FoldOf(0, s, q) = f[1..Len(q)]
      /\ f[{}] = s
      /\ \A k \in 1..Len(q) : f[1..k] = ApplyReport(f[1..(k - 1)], q[k])
  BY <1>3 DEF Folding!Unfolds, FoldBody
<1>5. g[0] = s
  <2>1. 1..0 = {} /\ 0 \in 0..Len(q)
    BY <1>2
  <2>. QED  BY <1>4, <2>1
<1>6. ASSUME NEW k \in 1..Len(q) PROVE g[k] = ApplyReport(g[k - 1], q[k])
  <2>1. k \in 0..Len(q) /\ k - 1 \in 0..Len(q)
    BY <1>2
  <2>. QED  BY <1>4, <2>1
<1>7. g[Len(q)] = f[1..Len(q)]
  BY <1>2
<1>. HIDE DEF g
<1>. QED  BY <1>1, <1>4, <1>5, <1>6, <1>7 DEF IsTrace

\* Two traces agree as far as the reports do.
LEMMA TracesAgree ==
    ASSUME NEW f, NEW g, NEW s, NEW p \in Seq(Report), NEW q \in Seq(Report),
           IsTrace(f, s, p), IsTrace(g, s, q),
           NEW n \in Nat, n <= Len(p), n <= Len(q), \A i \in 1..n : p[i] = q[i]
    PROVE  \A k \in 0..n : f[k] = g[k]
<1>. DEFINE S == {k \in 0..n : f[k] = g[k]}
<1>1. Len(p) \in Nat /\ Len(q) \in Nat
  BY ReportAt
<1>2. 0 \in S
  BY DEF IsTrace
<1>3. ASSUME NEW k \in 1..n, k - 1 \in S PROVE k \in S
  <2>1. k \in 1..Len(p) /\ k \in 1..Len(q) /\ f[k - 1] = g[k - 1] /\ p[k] = q[k]
    BY <1>1, <1>3
  <2>2. f[k] = ApplyReport(f[k - 1], p[k]) /\ g[k] = ApplyReport(g[k - 1], q[k])
    BY <2>1 DEF IsTrace
  <2>3. f[k] = g[k]
    BY <2>1, <2>2
  <2>. QED  BY <2>3
<1>. HIDE DEF S
<1>4. \A k \in 0..n : k \in S
  BY <1>2, <1>3, PlaceByPlace
<1>. QED  BY <1>4 DEF S

\* A fold is a state.
LEMMA FoldIsState ==
    ASSUME NEW s \in State, NEW q \in Seq(Report)
    PROVE  Fold(s, q) \in State
<1>1. PICK g : IsTrace(g, s, q) /\ Fold(s, q) = g[Len(q)]
  BY FoldHasTrace
<1>2. Len(q) \in 0..Len(q)
  BY ReportAt
<1>. QED  BY <1>1, <1>2, TraceOfStates

\* The fold of nothing.
LEMMA FoldNothing ==
    ASSUME NEW s \in State
    PROVE  Fold(s, <<>>) = s
<1>1. <<>> \in Seq(Report) /\ Len(<<>>) = 0
  OBVIOUS
<1>2. PICK g : IsTrace(g, s, <<>>) /\ Fold(s, <<>>) = g[Len(<<>>)]
  BY <1>1, FoldHasTrace
<1>. QED  BY <1>1, <1>2 DEF IsTrace

\* One report more.
LEMMA FoldOneMore ==
    ASSUME NEW s \in State, NEW q \in Seq(Report), NEW r \in Report
    PROVE  Fold(s, Append(q, r)) = ApplyReport(Fold(s, q), r)
<1>. DEFINE p == Append(q, r)
<1>1. /\ p \in Seq(Report) /\ Len(q) \in Nat /\ Len(p) = Len(q) + 1
      /\ p[Len(p)] = r /\ \A i \in 1..Len(q) : p[i] = q[i]
  OBVIOUS
<1>. HIDE DEF p
<1>2. PICK f : IsTrace(f, s, p) /\ Fold(s, p) = f[Len(p)]
  BY <1>1, FoldHasTrace
<1>3. PICK g : IsTrace(g, s, q) /\ Fold(s, q) = g[Len(q)]
  BY FoldHasTrace
<1>4. f[Len(q)] = g[Len(q)]
  <2>1. \A k \in 0..Len(q) : f[k] = g[k]
    BY <1>1, <1>2, <1>3, TracesAgree
  <2>. QED  BY <1>1, <2>1
<1>5. f[Len(p)] = ApplyReport(f[Len(p) - 1], p[Len(p)])
  BY <1>1, <1>2 DEF IsTrace
<1>6. Len(p) - 1 = Len(q)
  BY <1>1
<1>7. Fold(s, p) = ApplyReport(Fold(s, q), r)
  BY <1>1, <1>2, <1>3, <1>4, <1>5, <1>6
<1>. QED  BY <1>7 DEF p

-----------------------------------------------------------------------------
(* The picks of a merge, report by report *)

(* f lists what is picked among the first i reports of q, for each i.        *)
IsPicking(f, q, places) ==
    /\ f[0] = <<>>
    /\ \A i \in 1..Len(q) :
          f[i] = IF i \in places THEN Append(f[i - 1], q[i]) ELSE f[i - 1]

PickEquation(f, q, places) ==
    f = [i \in 0..Len(q) |->
            IF i = 0 THEN <<>>
            ELSE IF i \in places THEN Append(f[i - 1], q[i]) ELSE f[i - 1]]

\* The recursion of Picked has a solution.
LEMMA PickingExists ==
    ASSUME NEW q \in Seq(Report), NEW places
    PROVE  \E f : PickEquation(f, q, places)
<1>. DEFINE env == [seq |-> q, places |-> places]
            D == 0..Len(q)
            rank == [i \in D |-> i]
<1>1. Len(q) \in Nat
  BY ReportAt
<1>2. rank \in [D -> Nat] /\ Len(q) + 1 \in Nat /\ \A i \in D : rank[i] < Len(q) + 1
  BY <1>1
<1>3. ASSUME NEW i \in D, NEW f, NEW g, \A m \in D : rank[m] < rank[i] => f[m] = g[m]
      PROVE  PickBody(env, f, i) = PickBody(env, g, i)
  <2>1. CASE i = 0
    BY <2>1 DEF PickBody
  <2>2. CASE i # 0
    <3>1. i - 1 \in D /\ rank[i - 1] < rank[i]
      BY <1>1, <2>2
    <3>2. f[i - 1] = g[i - 1]
      BY <1>3, <3>1
    <3>. HIDE DEF env
    <3>. QED  BY <3>2 DEF PickBody
  <2>. QED  BY <2>1, <2>2
<1>4. Picking!ReadsBelow(env, D, rank)
  <2>. HIDE DEF env, D, rank
  <2>. QED  BY <1>3 DEF Picking!ReadsBelow
<1>5. \E f : f = [n \in D |-> PickBody(env, f, n)]
  <2>. HIDE DEF env, D, rank
  <2>. QED  BY <1>2, <1>4, Picking!RecursionSolved
<1>6. PICK f : f = [n \in D |-> PickBody(env, f, n)]
  BY <1>5
<1>7. [n \in D |-> PickBody(env, f, n)]
        = [n \in D |-> IF n = 0 THEN <<>>
                       ELSE IF n \in places THEN Append(f[n - 1], q[n]) ELSE f[n - 1]]
  BY DEF PickBody
<1>8. PickEquation(f, q, places)
  BY <1>6, <1>7, Zenon DEF PickEquation
<1>. QED  BY <1>8

\* What post picks, it picks report by report.
LEMMA PickedStepwise ==
    ASSUME NEW q \in Seq(Report), NEW places
    PROVE  \E f : IsPicking(f, q, places) /\ Picked(q, places) = f[Len(q)]
<1>. DEFINE f == CHOOSE f : PickEquation(f, q, places)
<1>1. Len(q) \in Nat
  BY ReportAt
<1>2. PickEquation(f, q, places)
  BY PickingExists
<1>3. Picked(q, places) = f[Len(q)]
  BY Zenon DEF Picked, PickEquation
<1>. HIDE DEF f
<1>4. f[0] = <<>>
  BY <1>1, <1>2 DEF PickEquation
<1>5. ASSUME NEW i \in 1..Len(q)
      PROVE  f[i] = IF i \in places THEN Append(f[i - 1], q[i]) ELSE f[i - 1]
  <2>1. i \in 0..Len(q) /\ i # 0
    BY <1>1
  <2>. QED  BY <1>2, <2>1 DEF PickEquation
<1>6. IsPicking(f, q, places)
  BY <1>4, <1>5 DEF IsPicking
<1>. QED  BY <1>3, <1>6

(* The picks so far are reports of q from the places, in its order: at says   *)
(* where each is from.                                                        *)
PickedFrom(p, q, places, k) ==
    /\ p \in Seq(Report)
    /\ \E at \in [1..Len(p) -> 1..k] :
          /\ \A i \in 1..Len(p) : at[i] \in places /\ p[i] = q[at[i]]
          /\ \A i, j \in 1..Len(p) : i < j => at[i] < at[j]

\* The picks so far, at every place.
LEMMA PicksAreFrom ==
    ASSUME NEW q \in Seq(Report), NEW places, NEW f, IsPicking(f, q, places)
    PROVE  \A k \in 0..Len(q) : PickedFrom(f[k], q, places, k)
<1>. DEFINE S == {k \in 0..Len(q) : PickedFrom(f[k], q, places, k)}
<1>1. Len(q) \in Nat /\ \A i \in 1..Len(q) : q[i] \in Report
  BY ReportAt
<1>2. 0 \in S
  <2>1. f[0] = <<>>
    BY DEF IsPicking
  <2>2. PickedFrom(<<>>, q, places, 0)
    <3>1. <<>> \in [1..Len(<<>>) -> 1..0]
      OBVIOUS
    <3>2. 1..Len(<<>>) = {} /\ <<>> \in Seq(Report)
      OBVIOUS
    <3>. QED  BY <3>1, <3>2 DEF PickedFrom
  <2>. QED  BY <1>1, <2>1, <2>2
<1>3. ASSUME NEW k \in 1..Len(q), k - 1 \in S PROVE k \in S
  <2>1. /\ f[k] = IF k \in places THEN Append(f[k - 1], q[k]) ELSE f[k - 1]
        /\ q[k] \in Report
    BY <1>1 DEF IsPicking
  <2>. DEFINE p == f[k - 1]
  <2>2. PickedFrom(p, q, places, k - 1)
    BY <1>3
  <2>3. p \in Seq(Report) /\ Len(p) \in Nat
    BY <2>2 DEF PickedFrom
  <2>4. PICK at \in [1..Len(p) -> 1..(k - 1)] :
          /\ \A i \in 1..Len(p) : at[i] \in places /\ p[i] = q[at[i]]
          /\ \A i, j \in 1..Len(p) : i < j => at[i] < at[j]
    BY <2>2 DEF PickedFrom
  <2>. HIDE DEF p
  <2>5. CASE k \in places
    <3>. DEFINE p2 == Append(p, q[k])
                at2 == [i \in 1..(Len(p) + 1) |-> IF i <= Len(p) THEN at[i] ELSE k]
    <3>1. /\ p2 \in Seq(Report) /\ Len(p2) = Len(p) + 1
          /\ \A i \in 1..Len(p) : p2[i] = p[i]
          /\ p2[Len(p) + 1] = q[k]
      BY <2>1, <2>3
    <3>2. at2 \in [1..Len(p2) -> 1..k]
      BY <2>3, <2>4, <3>1
    <3>. HIDE DEF p2
    <3>3. ASSUME NEW i \in 1..Len(p2) PROVE at2[i] \in places /\ p2[i] = q[at2[i]]
      BY <2>3, <2>4, <2>5, <3>1
    <3>4. ASSUME NEW i \in 1..Len(p2), NEW j \in 1..Len(p2), i < j PROVE at2[i] < at2[j]
      BY <2>3, <2>4, <3>1, <3>4
    <3>. HIDE DEF at2
    <3>5. PickedFrom(p2, q, places, k)
      BY <3>1, <3>2, <3>3, <3>4 DEF PickedFrom
    <3>6. f[k] = p2
      BY <2>1, <2>5 DEF p, p2
    <3>. QED  BY <1>1, <3>5, <3>6
  <2>6. CASE k \notin places
    <3>1. at \in [1..Len(p) -> 1..k]
      OBVIOUS
    <3>2. PickedFrom(p, q, places, k)
      BY <2>3, <2>4, <3>1 DEF PickedFrom
    <3>3. f[k] = p
      BY <2>1, <2>6 DEF p
    <3>. QED  BY <1>1, <3>2, <3>3
  <2>. QED  BY <2>5, <2>6
<1>. HIDE DEF S
<1>4. \A k \in 0..Len(q) : k \in S
  BY <1>1, <1>2, <1>3, PlaceByPlace
<1>. QED  BY <1>4 DEF S

\* What is picked is from the sequence.
LEMMA PickedIsFrom ==
    ASSUME NEW q \in Seq(Report), NEW places
    PROVE  PickedFrom(Picked(q, places), q, places, Len(q))
<1>1. PICK f : IsPicking(f, q, places) /\ Picked(q, places) = f[Len(q)]
  BY PickedStepwise
<1>2. Len(q) \in 0..Len(q)
  BY ReportAt
<1>. QED  BY <1>1, <1>2, PicksAreFrom

-----------------------------------------------------------------------------
(* The recent reports *)

\* A set of places of 1..n that is not empty has a last one.
LEMMA LastExists ==
    ASSUME NEW n \in Nat, NEW S \in SUBSET (1..n), S # {}
    PROVE  Max(S) \in S /\ \A y \in S : Max(S) >= y
<1>. DEFINE Bounds == {m \in Nat : \A y \in S : m >= y}
<1>1. n \in Bounds /\ Bounds \subseteq Nat
  OBVIOUS
<1>2. PICK m \in Bounds : \A k \in Bounds : m <= k
  <2>. HIDE DEF Bounds
  <2>. QED  BY <1>1, Picking!LeastNatural
<1>3. m \in S
  <2>1. SUFFICES ASSUME m \notin S PROVE FALSE
    OBVIOUS
  <2>2. \A y \in S : y \in Nat /\ y >= 1 /\ m >= y /\ y # m
    BY <1>2, <2>1
  <2>3. PICK y \in S : TRUE
    OBVIOUS
  <2>4. m \in Nat /\ m >= 1
    BY <1>2, <2>2, <2>3
  <2>5. m - 1 \in Nat /\ \A z \in S : m - 1 >= z
    BY <2>2, <2>4
  <2>. QED  BY <1>2, <2>4, <2>5
<1>4. \E x \in S : \A y \in S : x >= y
  BY <1>2, <1>3
<1>. QED  BY <1>4, Zenon DEF Max

\* Since is the place of the last structural report, 0 if there is none.
LEMMA SinceIsTheLast ==
    ASSUME NEW box \in Seq(Report)
    PROVE  /\ Since(box) \in 0..Len(box)
           /\ Since(box) # 0 => IsStructural(box[Since(box)])
           /\ \A i \in 1..Len(box) : i > Since(box) => ~IsStructural(box[i])
<1>. DEFINE I == {i \in 1..Len(box) : IsStructural(box[i])}
<1>1. Len(box) \in Nat
  BY ReportAt
<1>2. Since(box) = IF I # {} THEN Max(I) ELSE 0
  BY Zenon DEF Since, SelectLastInSeq
<1>3. CASE I = {}
  BY <1>1, <1>2, <1>3
<1>4. CASE I # {}
  <2>1. I \in SUBSET (1..Len(box))
    OBVIOUS
  <2>2. Max(I) \in I /\ \A y \in I : Max(I) >= y
    <3>. HIDE DEF I
    <3>. QED  BY <1>1, <1>4, <2>1, LastExists
  <2>3. Since(box) \in I /\ \A y \in I : Since(box) >= y
    BY <1>2, <1>4, <2>2
  <2>4. Since(box) \in 1..Len(box) /\ IsStructural(box[Since(box)])
    BY <2>3
  <2>5. ASSUME NEW i \in 1..Len(box), i > Since(box) PROVE ~IsStructural(box[i])
    <3>1. i \notin I
      BY <1>1, <2>3, <2>4, <2>5
    <3>. QED  BY <3>1
  <2>. QED  BY <1>1, <2>4, <2>5
<1>. QED  BY <1>3, <1>4

\* The box is what stands before, and what is recent.
LEMMA RecentParts ==
    ASSUME NEW box \in Seq(Report)
    PROVE  /\ Since(box) \in 0..Len(box)
           /\ SubSeq(box, 1, Since(box)) \in Seq(Report)
           /\ Len(SubSeq(box, 1, Since(box))) = Since(box)
           /\ \A i \in 1..Since(box) : SubSeq(box, 1, Since(box))[i] = box[i]
           /\ Recent(box) \in Seq(Report)
           /\ Len(Recent(box)) = Len(box) - Since(box)
           /\ \A i \in 1..Len(Recent(box)) :
                 Recent(box)[i] = box[Since(box) + i] /\ ~IsStructural(Recent(box)[i])
<1>. DEFINE m == Since(box)
<1>1. m \in 0..Len(box) /\ \A i \in 1..Len(box) : i > m => ~IsStructural(box[i])
  BY SinceIsTheLast
<1>2. Recent(box) = SubSeq(box, m + 1, Len(box))
  BY DEF Recent
<1>. HIDE DEF m
<1>3. Len(box) \in Nat /\ m \in Nat
  BY <1>1, ReportAt
<1>4. SubSeq(box, 1, m) \in Seq(Report) /\ Len(SubSeq(box, 1, m)) = m
  BY <1>1, <1>3
<1>5. \A i \in 1..m : SubSeq(box, 1, m)[i] = box[i]
  BY <1>1, <1>3
<1>6. Recent(box) \in Seq(Report) /\ Len(Recent(box)) = Len(box) - m
  BY <1>1, <1>2, <1>3
<1>7. \A i \in 1..Len(Recent(box)) : Recent(box)[i] = box[m + i]
  BY <1>1, <1>2, <1>3, <1>6
<1>8. \A i \in 1..Len(Recent(box)) : m + i \in 1..Len(box) /\ m + i > m
  BY <1>1, <1>3, <1>6
<1>9. \A i \in 1..Len(Recent(box)) : Recent(box)[i] = box[m + i] /\ ~IsStructural(Recent(box)[i])
  BY <1>1, <1>7, <1>8
<1>. QED  BY <1>1, <1>4, <1>5, <1>6, <1>9 DEF m

-----------------------------------------------------------------------------
(* What a merge leaves of a fold *)

(* k runs more. *)
Counting(s, k) == [s EXCEPT !.runsEnded = s.runsEnded + k]

\* Counting leaves a state.
LEMMA CountingIsState ==
    ASSUME NEW s \in State, NEW k \in Nat
    PROVE  Counting(s, k) \in State /\ s.runsEnded \in Nat
BY DEF State, Counting

\* The count of the runs matters to nothing else a report does.
LEMMA CountingCommutes ==
    ASSUME NEW s \in State, NEW k \in Nat, NEW r \in Report
    PROVE  /\ Counting(s, k) \in State
           /\ ApplyReport(Counting(s, k), r) = Counting(ApplyReport(s, r), k)
<1>1. Counting(s, k) \in State /\ s.runsEnded \in Nat
  BY CountingIsState
<1>2. CASE r.type \in {"Installed", "OtherError", "Activity"}
  <2>1. CASE r.type = "Installed"
    BY <1>1, <2>1 DEF State, ApplyReport, Counting
  <2>2. CASE r.type = "OtherError"
    BY <1>1, <2>2 DEF State, ApplyReport, Counting
  <2>3. CASE r.type = "Activity"
    BY <1>1, <2>3 DEF State, ApplyReport, Counting
  <2>. QED  BY <1>2, <2>1, <2>2, <2>3
<1>3. CASE r.type = "Cleared"
  <2>1. /\ Counting(s, k).activity = s.activity /\ Counting(s, k).parked = s.parked
        /\ Counting(s, k).runsEnded = s.runsEnded + k
    BY <1>1 DEF Counting, State
  <2>2. ApplyReport(Counting(s, k), r) =
           [nodes |-> NoNodes, previews |-> NoPreviews,
            outcome |-> 0, compiled |-> None, activity |-> s.activity, cacheRam |-> {},
            runsEnded |-> s.runsEnded + k, parked |-> s.parked]
    BY Zenon, <1>1, <1>3, <2>1, FoldedCleared
  <2>. QED  BY <1>1, <1>3, <2>2, FoldedCleared DEF Counting
<1>4. CASE r.type = "ExecError"
  BY <1>1, <1>4, FoldedExecError DEF Counting, State
<1>5. CASE r.type = "Progress"
  BY <1>1, <1>5, FoldedProgress DEF Counting, State
<1>6. CASE r.type = "Completed"
  BY <1>1, <1>6, FoldedCompleted DEF Counting, State
<1>. QED  BY <1>1, <1>2, <1>3, <1>4, <1>5, <1>6 DEF Report

\* Nor to a fold.
LEMMA FoldCounting ==
    ASSUME NEW s \in State, NEW k \in Nat, NEW q \in Seq(Report)
    PROVE  Counting(s, k) \in State /\ Fold(Counting(s, k), q) = Counting(Fold(s, q), k)
<1>1. Counting(s, k) \in State
  BY CountingIsState
<1>2. PICK f : IsTrace(f, s, q) /\ Fold(s, q) = f[Len(q)]
  BY FoldHasTrace
<1>3. PICK g : IsTrace(g, Counting(s, k), q) /\ Fold(Counting(s, k), q) = g[Len(q)]
  BY <1>1, FoldHasTrace
<1>. DEFINE S == {i \in 0..Len(q) : g[i] = Counting(f[i], k)}
<1>4. Len(q) \in Nat /\ \A i \in 1..Len(q) : q[i] \in Report
  BY ReportAt
<1>5. 0 \in S
  BY <1>2, <1>3, <1>4 DEF IsTrace
<1>6. ASSUME NEW i \in 1..Len(q), i - 1 \in S PROVE i \in S
  <2>1. /\ f[i] = ApplyReport(f[i - 1], q[i]) /\ g[i] = ApplyReport(g[i - 1], q[i])
        /\ q[i] \in Report /\ g[i - 1] = Counting(f[i - 1], k)
    BY <1>2, <1>3, <1>4, <1>6 DEF IsTrace
  <2>2. i - 1 \in 0..Len(q) /\ i \in 0..Len(q)
    BY <1>4
  <2>3. f[i - 1] \in State
    BY <1>2, <2>2, TraceOfStates
  <2>4. g[i] = Counting(f[i], k)
    BY <2>1, <2>3, CountingCommutes
  <2>. QED  BY <2>2, <2>4
<1>. HIDE DEF S
<1>7. \A i \in 0..Len(q) : i \in S
  BY <1>4, <1>5, <1>6, PlaceByPlace
<1>8. Len(q) \in S
  BY <1>4, <1>7
<1>. QED  BY <1>1, <1>2, <1>3, <1>8 DEF S

(* The fold that keeps every report and the one a merge leaves, as far as    *)
(* the two have come: what new overwrites, and the runs new supersedes.       *)
Similar(new, k, s, t) ==
    IF new.type \in {"Activity", "ExecError", "Completed"} THEN SameBut(new, k, s, t)
    ELSE k = 0 /\ s = t

\* One recent report more: dropped, its run is counted aside; kept, it is
\* folded in both.
LEMMA OneRecentMore ==
    ASSUME NEW s \in State, NEW t \in State, NEW k \in Nat, NEW new \in Report, NEW old \in Report,
           Similar(new, k, s, t)
    PROVE  /\ Supersedes(new, old) => Similar(new, k + Counted(old), ApplyReport(s, old), t)
           /\ ~Supersedes(new, old) =>
                Similar(new, k, ApplyReport(s, old), ApplyReport(t, old))
<1>1. CASE new.type \in {"Activity", "ExecError", "Completed"}
  <2>1. SameBut(new, k, s, t)
    BY <1>1 DEF Similar
  <2>2. SameBut(new, k, ApplyReport(s, old), ApplyReport(t, old))
    BY <2>1, OverwrittenStaysSo
  <2>3. ASSUME Supersedes(new, old) PROVE SameBut(new, k + Counted(old), ApplyReport(s, old), t)
    <3>1. SameBut(new, Counted(old), ApplyReport(s, old), s)
      BY <2>3, SupersededIsOverwritten
    <3>2. t.runsEnded \in Nat /\ Counted(old) \in Nat
      BY DEF State, Counted
    <3>. QED  BY <2>1, <3>1, <3>2 DEF SameBut
  <2>. QED  BY <1>1, <2>2, <2>3 DEF Similar
<1>2. CASE ~ (new.type \in {"Activity", "ExecError", "Completed"})
  <2>1. ~Supersedes(new, old) /\ k = 0 /\ s = t
    BY <1>2 DEF Similar, Supersedes
  <2>. QED  BY <1>2, <2>1 DEF Similar
<1>. QED  BY <1>1, <1>2

\* The last report of a prefix, and the prefix before it.
LEMMA PrefixGrows ==
    ASSUME NEW q \in Seq(Report), NEW k \in 1..Len(q)
    PROVE  /\ SubSeq(q, 1, k - 1) \in Seq(Report) /\ q[k] \in Report
           /\ SubSeq(q, 1, k) = Append(SubSeq(q, 1, k - 1), q[k])
<1>1. Len(q) \in Nat /\ k - 1 \in 0..Len(q)
  BY ReportAt
<1>. QED  BY <1>1

\* A sequence grows by a report the same whatever stands before it.
LEMMA ConcatGrows ==
    ASSUME NEW p \in Seq(Report), NEW q \in Seq(Report), NEW r \in Report
    PROVE  /\ p \o q \in Seq(Report)
           /\ p \o Append(q, r) = Append(p \o q, r)
           /\ p \o q \o <<r>> = Append(p \o q, r)
           /\ p \o <<>> = p
OBVIOUS

\* What stands where in two sequences put together.
LEMMA ConcatParts ==
    ASSUME NEW p \in Seq(Report), NEW q \in Seq(Report)
    PROVE  /\ Len(p \o q) = Len(p) + Len(q)
           /\ \A i \in 1..Len(p) : (p \o q)[i] = p[i]
           /\ \A j \in 1..Len(q) : (p \o q)[Len(p) + j] = q[j]
<1>1. Len(p) \in Nat /\ Len(q) \in Nat
  OBVIOUS
<1>2. Len(p \o q) = Len(p) + Len(q)
  OBVIOUS
<1>3. \A i \in 1..Len(p) : (p \o q)[i] = p[i]
  BY <1>1
<1>4. \A j \in 1..Len(q) : (p \o q)[Len(p) + j] = q[j]
  BY <1>1
<1>. QED  BY <1>2, <1>3, <1>4

\* The reports a merge goes through, folded with every one kept and as it keeps them.
LEMMA MergeStepwise ==
    ASSUME NEW s \in State, NEW box \in Seq(Report), NEW new \in Report
    PROVE  LET kept == SubSeq(box, 1, Since(box)) \o Kept(Recent(box), new)
               k    == RunsSuperseded(box, new)
           IN  /\ kept \in Seq(Report) /\ k \in Nat
               /\ Similar(new, k, Fold(s, box), Fold(s, kept))
<1>. DEFINE m == Since(box)
            before == SubSeq(box, 1, m)
            R == Recent(box)
            Staying == {i \in DOMAIN R : ~Supersedes(new, R[i])}
            Ending == {i \in DOMAIN R : Supersedes(new, R[i]) /\ EndsARun(R[i])}
<1>1. /\ m \in 0..Len(box) /\ before \in Seq(Report) /\ Len(before) = m
      /\ R \in Seq(Report) /\ Len(R) = Len(box) - m
      /\ \A i \in 1..Len(R) : R[i] = box[m + i]
  BY RecentParts
<1>2. /\ Len(box) \in Nat /\ m \in Nat /\ Len(R) \in Nat
      /\ DOMAIN R = 1..Len(R) /\ \A i \in 1..Len(R) : R[i] \in Report
  BY <1>1, ReportAt
<1>3. PICK f : IsPicking(f, R, Staying) /\ Kept(R, new) = f[Len(R)]
  <2>1. Kept(R, new) = Picked(R, Staying)
    BY DEF Kept
  <2>. HIDE DEF R, Staying
  <2>. QED  BY <1>1, <2>1, PickedStepwise
<1>4. PICK e : IsPicking(e, R, Ending) /\ Ended(R, new) = e[Len(R)]
  <2>1. Ended(R, new) = Picked(R, Ending)
    BY DEF Ended
  <2>. HIDE DEF R, Ending
  <2>. QED  BY <1>1, <2>1, PickedStepwise
<1>5. RunsSuperseded(box, new) = Len(e[Len(R)])
  BY <1>4 DEF RunsSuperseded
<1>6. ASSUME NEW j \in 0..Len(R) PROVE f[j] \in Seq(Report) /\ e[j] \in Seq(Report)
  <2>. HIDE DEF R, Staying, Ending
  <2>1. PickedFrom(f[j], R, Staying, j) /\ PickedFrom(e[j], R, Ending, j)
    BY <1>1, <1>3, <1>4, PicksAreFrom
  <2>. QED  BY <2>1 DEF PickedFrom
<1>7. ASSUME NEW j \in 1..Len(R)
      PROVE  /\ Supersedes(new, R[j]) =>
                   f[j] = f[j - 1] /\ Len(e[j]) = Len(e[j - 1]) + Counted(R[j])
             /\ ~Supersedes(new, R[j]) =>
                   f[j] = Append(f[j - 1], R[j]) /\ Len(e[j]) = Len(e[j - 1])
  <2>1. (j \in Staying <=> ~Supersedes(new, R[j]))
        /\ (j \in Ending <=> Supersedes(new, R[j]) /\ EndsARun(R[j]))
    <3>. HIDE DEF R
    <3>. QED  BY <1>2
  <2>2. j - 1 \in 0..Len(R) /\ R[j] \in Report
    <3>. HIDE DEF R
    <3>. QED  BY <1>2
  <2>3. e[j - 1] \in Seq(Report)
    BY <1>6, <2>2
  <2>. HIDE DEF R, Staying, Ending
  <2>4. f[j] = IF j \in Staying THEN Append(f[j - 1], R[j]) ELSE f[j - 1]
    BY <1>3 DEF IsPicking
  <2>5. e[j] = IF j \in Ending THEN Append(e[j - 1], R[j]) ELSE e[j - 1]
    BY <1>4 DEF IsPicking
  <2>6. Len(Append(e[j - 1], R[j])) = Len(e[j - 1]) + 1 /\ Len(e[j - 1]) + 0 = Len(e[j - 1])
    BY <2>2, <2>3
  <2>7. ASSUME Supersedes(new, R[j])
        PROVE  f[j] = f[j - 1] /\ Len(e[j]) = Len(e[j - 1]) + Counted(R[j])
    <3>1. f[j] = f[j - 1]
      BY <2>1, <2>4, <2>7
    <3>2. CASE EndsARun(R[j])
      <4>1. e[j] = Append(e[j - 1], R[j]) /\ Counted(R[j]) = 1
        BY Zenon, <2>1, <2>5, <2>7, <3>2 DEF Counted
      <4>. QED  BY <2>6, <3>1, <4>1
    <3>3. CASE ~EndsARun(R[j])
      <4>1. e[j] = e[j - 1] /\ Counted(R[j]) = 0
        BY Zenon, <2>1, <2>5, <3>3 DEF Counted
      <4>. QED  BY <2>6, <3>1, <4>1
    <3>. QED  BY <3>2, <3>3
  <2>8. ASSUME ~Supersedes(new, R[j])
        PROVE  f[j] = Append(f[j - 1], R[j]) /\ Len(e[j]) = Len(e[j - 1])
    BY Zenon, <2>1, <2>4, <2>5, <2>8
  <2>. QED  BY Zenon, <2>7, <2>8
<1>. DEFINE U(j) == Fold(s, SubSeq(box, 1, m + j))
            T(j) == Fold(s, before \o f[j])
            Holds(j) == Len(e[j]) \in Nat /\ Similar(new, Len(e[j]), U(j), T(j))
            S == {j \in 0..Len(R) : Holds(j)}
<1>. HIDE DEF m, before, R, Staying, Ending
<1>8. 0 \in S
  <2>1. f[0] = <<>> /\ e[0] = <<>> /\ Len(<<>>) = 0
    BY <1>3, <1>4 DEF IsPicking
  <2>2. before \o f[0] = before
    BY <1>1, <2>1
  <2>3. SubSeq(box, 1, m + 0) = before
    BY <1>2 DEF before
  <2>4. U(0) = T(0) /\ U(0) \in State
    BY <1>1, <2>2, <2>3, FoldIsState
  <2>5. U(0).runsEnded = U(0).runsEnded + 0
    <3>. HIDE DEF U
    <3>. QED  BY <2>4 DEF State
  <2>6. Similar(new, 0, U(0), T(0))
    <3>. HIDE DEF U, T
    <3>. QED  BY <2>4, <2>5 DEF Similar, SameBut
  <2>. HIDE DEF U, T
  <2>. QED  BY <1>2, <2>1, <2>6
<1>9. ASSUME NEW j \in 1..Len(R), j - 1 \in S PROVE j \in S
  <2>1. /\ j - 1 \in 0..Len(R) /\ j \in 0..Len(R) /\ m + j \in 1..Len(box)
        /\ (m + j) - 1 = m + (j - 1)
    BY <1>1, <1>2
  <2>2. R[j] = box[m + j] /\ R[j] \in Report
    BY <1>1, <1>2
  <2>3. SubSeq(box, 1, m + (j - 1)) \in Seq(Report) /\ U(j) = ApplyReport(U(j - 1), R[j])
    <3>1. /\ SubSeq(box, 1, m + (j - 1)) \in Seq(Report)
          /\ SubSeq(box, 1, m + j) = Append(SubSeq(box, 1, m + (j - 1)), R[j])
      BY <2>1, <2>2, PrefixGrows
    <3>. QED  BY ZenonT(60), <2>2, <3>1, FoldOneMore
  <2>4. f[j - 1] \in Seq(Report) /\ before \o f[j - 1] \in Seq(Report)
    BY <1>1, <1>6, <2>1, <2>2, ConcatGrows
  <2>5. U(j - 1) \in State /\ T(j - 1) \in State
    BY <2>3, <2>4, FoldIsState
  <2>6. Len(e[j - 1]) \in Nat /\ Similar(new, Len(e[j - 1]), U(j - 1), T(j - 1))
    BY <1>9
  <2>7. CASE Supersedes(new, R[j])
    <3>1. T(j) = T(j - 1)
      BY Zenon, <1>7, <2>7
    <3>2. Len(e[j]) = Len(e[j - 1]) + Counted(R[j])
      BY Zenon, <1>7, <2>7
    <3>3. Len(e[j]) \in Nat
      <4>1. Counted(R[j]) \in Nat
        BY DEF Counted
      <4>2. Len(e[j - 1]) \in Nat
        BY <2>6
      <4>. HIDE DEF U, T
      <4>. QED  BY <3>2, <4>1, <4>2
    <3>. HIDE DEF U, T
    <3>4. Similar(new, Len(e[j]), U(j), T(j))
      BY <2>2, <2>3, <2>5, <2>6, <2>7, <3>1, <3>2, OneRecentMore
    <3>. QED  BY <2>1, <3>3, <3>4
  <2>8. CASE ~Supersedes(new, R[j])
    <3>1. T(j) = ApplyReport(T(j - 1), R[j])
      <4>1. f[j] = Append(f[j - 1], R[j])
        BY Zenon, <1>7, <2>8
      <4>2. before \o Append(f[j - 1], R[j]) = Append(before \o f[j - 1], R[j])
        BY <1>1, <2>2, <2>4, ConcatGrows
      <4>3. Fold(s, Append(before \o f[j - 1], R[j])) = ApplyReport(T(j - 1), R[j])
        BY <2>2, <2>4, FoldOneMore
      <4>. QED  BY Zenon, <4>1, <4>2, <4>3
    <3>2. Len(e[j]) = Len(e[j - 1])
      BY Zenon, <1>7, <2>8
    <3>. HIDE DEF U, T
    <3>3. Similar(new, Len(e[j]), U(j), T(j))
      BY <2>2, <2>3, <2>5, <2>6, <2>8, <3>1, <3>2, OneRecentMore
    <3>. QED  BY <2>1, <2>6, <3>2, <3>3
  <2>. QED  BY <2>7, <2>8
<1>10. Len(R) \in S
  <2>. HIDE DEF S
  <2>1. \A j \in 0..Len(R) : j \in S
    BY <1>2, <1>8, <1>9, PlaceByPlace
  <2>. QED  BY <1>2, <2>1
<1>11. SubSeq(box, 1, m + Len(R)) = box
  <2>1. m + Len(R) = Len(box)
    BY <1>1, <1>2
  <2>. QED  BY <2>1
<1>12. before \o f[Len(R)] \in Seq(Report)
  BY <1>1, <1>2, <1>6
<1>. QED  BY <1>3, <1>5, <1>10, <1>11, <1>12 DEF m, before, R

(* Merging a report leaves what every frame shows as keeping them all would: *)
(* the fold of the merged box, the runs it dropped counted aside, is the fold *)
(* of the box with the report added to it.                                    *)
THEOREM MergeLeavesTheFold ==
    ASSUME NEW s \in State, NEW box \in Seq(Report), NEW new \in Report
    PROVE  /\ Merge(box, new) \in Seq(Report) /\ RunsSuperseded(box, new) \in Nat
           /\ Fold(Counting(s, RunsSuperseded(box, new)), Merge(box, new))
                = Fold(s, Append(box, new))
<1>. DEFINE kept == SubSeq(box, 1, Since(box)) \o Kept(Recent(box), new)
            k == RunsSuperseded(box, new)
            u == Fold(s, box)
            t == Fold(s, kept)
<1>1. kept \in Seq(Report) /\ k \in Nat /\ Similar(new, k, u, t)
  BY MergeStepwise
<1>2. Merge(box, new) = Append(kept, new)
  <2>1. SubSeq(box, 1, Since(box)) \in Seq(Report) /\ Kept(Recent(box), new) \in Seq(Report)
    <3>1. Recent(box) \in Seq(Report)
      BY RecentParts
    <3>2. Kept(Recent(box), new) \in Seq(Report)
      BY <3>1, PickedIsFrom DEF Kept, PickedFrom
    <3>. QED  BY <3>2, RecentParts
  <2>. QED  BY <2>1, ConcatGrows DEF Merge
<1>. HIDE DEF kept, k
<1>3. Append(kept, new) \in Seq(Report)
  BY <1>1
<1>4. u \in State /\ t \in State
  BY <1>1, FoldIsState
<1>5. Fold(s, Append(box, new)) = ApplyReport(u, new)
  BY FoldOneMore
<1>6. Fold(Counting(s, k), Append(kept, new)) = Counting(ApplyReport(t, new), k)
  <2>1. Fold(Counting(s, k), Append(kept, new)) = Counting(Fold(s, Append(kept, new)), k)
    BY <1>1, <1>3, FoldCounting
  <2>2. Fold(s, Append(kept, new)) = ApplyReport(t, new)
    BY <1>1, FoldOneMore
  <2>. QED  BY <2>1, <2>2
<1>. HIDE DEF u, t
<1>7. ApplyReport(u, new) = Counting(ApplyReport(t, new), k)
  <2>1. CASE new.type \in {"Activity", "ExecError", "Completed"}
    <3>1. SameBut(new, k, u, t)
      BY <1>1, <2>1 DEF Similar
    <3>. QED  BY <1>1, <1>4, <2>1, <3>1, OverwritingLeavesTheCount DEF Counting
  <2>2. CASE ~ (new.type \in {"Activity", "ExecError", "Completed"})
    <3>1. k = 0 /\ u = t
      BY <1>1, <2>2 DEF Similar
    <3>2. ApplyReport(t, new) \in State
      BY <1>4, FoldTypeCorrect
    <3>3. Counting(ApplyReport(t, new), 0) = ApplyReport(t, new)
      <4>. DEFINE x == ApplyReport(t, new)
      <4>1. x.runsEnded \in Nat /\ x = [x EXCEPT !.runsEnded = x.runsEnded]
        <5>. HIDE DEF x
        <5>. QED  BY <3>2 DEF x, State
      <4>. QED  BY <4>1 DEF Counting
    <3>. QED  BY <3>1, <3>3
  <2>. QED  BY <2>1, <2>2
<1>. QED  BY <1>1, <1>2, <1>3, <1>5, <1>6, <1>7 DEF k

-----------------------------------------------------------------------------
(* The inductive invariant *)

Typed ==
    /\ phase \in {"rest", "plan", "run", "failed"}
    /\ installed \in Programs \cup {Empty} /\ held \in SUBSET Nodes /\ run \in Nat
    /\ DOMAIN invoked \in SUBSET Nodes /\ \A n \in DOMAIN invoked : invoked[n] \in Phases
    /\ reports \in Seq(Report) /\ posted \in Seq(Report) /\ superseded \in Nat
    /\ state \in State

(* A run is of a program with nodes, and one of the runs there may be.       *)
RunsAreOfAProgram ==
    /\ phase \in {"plan", "run"} =>
          installed \in Programs /\ DOMAIN invoked \subseteq NodesIn(installed)
    /\ run <= MaxRuns

(* The box folds to what the posts do, its dropped runs counted aside.       *)
FoldsAsPosted ==
    /\ Fold(Counting(state, superseded), reports) = Fold(state, posted)
    /\ posted = <<>> => reports = <<>> /\ superseded = 0

(* Once the frame has folded the box, the editor's program is the worker's.  *)
Shown(p) == IF p \in Programs THEN p ELSE None
EditorCatchesUp ==
    /\ Fold(state, reports).compiled = Shown(installed)
    /\ AllAcknowledged(state, reports)

(* What the recent reports are, place by place.                              *)
SparseIn(recent) ==
    /\ \A i, j \in 1..Len(recent) :
          recent[i].type = recent[j].type
            /\ recent[i].type \in {"Activity", "Completed", "ExecError"} => i = j
    /\ \A i, j \in 1..Len(recent) :
          recent[i].type = "Progress" /\ recent[j].type \in {"Completed", "ExecError"} => j < i

(* Only a run under way has progress in the box since the last structural    *)
(* report, and the progress is its own.                                       *)
ProgressIsOfTheRun(recent) ==
    \A i \in 1..Len(recent) :
        recent[i].type = "Progress" => phase = "run" /\ recent[i].run = run

RecentIsSparse == SparseIn(Recent(reports)) /\ ProgressIsOfTheRun(Recent(reports))

-----------------------------------------------------------------------------
(* What a step of the worker says: a report of a kind its phase allows, of   *)
(* the program it is on.                                                      *)
Says(r) ==
    /\ r \in Report /\ PostReport(r) /\ UNCHANGED editorVars
    /\ r.type \in {"Progress", "Completed"} =>
          /\ Shown(installed) # None
          /\ NamedNodes(r) \subseteq NodesIn(Shown(installed))
    /\ Shown(installed') = IF r.type = "Installed" THEN r.program
                           ELSE IF r.type = "Cleared" THEN None ELSE Shown(installed)
    /\ r.type = "Progress" => phase' = "run" /\ r.run = run'
    /\ phase = "run" => (phase' = "run" /\ run' = run) \/ r.type = "Completed"

WorkerTyped ==
    /\ phase \in {"rest", "plan", "run", "failed"}
    /\ installed \in Programs \cup {Empty} /\ held \in SUBSET Nodes /\ run \in Nat
    /\ DOMAIN invoked \in SUBSET Nodes /\ \A n \in DOMAIN invoked : invoked[n] \in Phases

\* The nodes of a program are nodes; a program with any is one installed.
LEMMA NodesOfPrograms ==
    /\ \A p : NodesIn(p) \subseteq Nodes /\ (NodesIn(p) # {} => p \in Programs)
    /\ \A p \in Programs : Shown(p) = p /\ p # None
    /\ Shown(Empty) = None
BY ProgramAssumption DEF NodesIn, Shown

Spoken == \E r : Says(r)

\* Every step of the worker says one report and keeps its state typed.
LEMMA WorkerSays ==
    Typed /\ RunsAreOfAProgram /\ Worker => Spoken /\ WorkerTyped' /\ RunsAreOfAProgram'
<1> SUFFICES ASSUME Typed, RunsAreOfAProgram, Worker
             PROVE  Spoken /\ WorkerTyped' /\ RunsAreOfAProgram'
  OBVIOUS
<1>. USE DEF Typed, RunsAreOfAProgram, WorkerTyped
<1>1. ASSUME NEW p \in Programs, Install(p)
      PROVE  Spoken /\ WorkerTyped' /\ RunsAreOfAProgram'
  <2>. DEFINE r == Installed(p, held')
  <2>1. r \in Report /\ r.type = "Installed" /\ r.program = p
    BY <1>1 DEF Install, Installed, Report
  <2>2. Says(r)
    <3>. HIDE DEF r
    <3>1. PostReport(r)
      BY <1>1 DEF Install, r
    <3>. QED  BY <1>1, <2>1, <3>1, NodesOfPrograms DEF Says, Install
  <2>3. WorkerTyped' /\ RunsAreOfAProgram'
    BY <1>1 DEF Install
  <2>. QED  BY <2>2, <2>3 DEF Spoken
<1>2. ASSUME ClearEngine
      PROVE  Spoken /\ WorkerTyped' /\ RunsAreOfAProgram'
  <2>1. Cleared \in Report /\ Cleared.type = "Cleared"
    BY DEF Cleared, Report
  <2>2. Says(Cleared)
    <3>1. PostReport(Cleared)
      BY <1>2 DEF ClearEngine
    <3>2. Shown(installed') = None
      BY <1>2, NodesOfPrograms DEF ClearEngine
    <3>. QED  BY <1>2, <2>1, <3>1, <3>2 DEF Says, ClearEngine
  <2>3. WorkerTyped' /\ RunsAreOfAProgram'
    BY <1>2 DEF ClearEngine
  <2>. QED  BY <2>2, <2>3 DEF Spoken
<1>3. ASSUME ReportOtherError
      PROVE  Spoken /\ WorkerTyped' /\ RunsAreOfAProgram'
  <2>1. OtherError \in Report /\ OtherError.type = "OtherError"
    BY DEF OtherError, Report
  <2>2. PostReport(OtherError)
    BY <1>3 DEF ReportOtherError
  <2>3. Says(OtherError)
    BY <1>3, <2>1, <2>2 DEF Says, ReportOtherError, workerVars
  <2>. QED  BY <1>3, <2>3 DEF ReportOtherError, workerVars, Spoken
<1>4. ASSUME NEW a \in Activities, PostReport(Activity(a)), UNCHANGED <<installed, editorVars>>,
             phase # "run"
      PROVE  Spoken
  <2>1. Activity(a) \in Report /\ Activity(a).type = "Activity"
    BY DEF Activity, Report
  <2>. QED  BY <1>4, <2>1 DEF Says, Spoken
<1>5. ASSUME ReportIdle
      PROVE  Spoken /\ WorkerTyped' /\ RunsAreOfAProgram'
  <2>1. PostReport(Activity("Idle")) /\ UNCHANGED <<installed, editorVars>> /\ phase # "run"
    BY <1>5 DEF ReportIdle, workerVars
  <2>2. Spoken
    BY <1>4, <2>1 DEF Activities
  <2>. QED  BY <1>5, <2>2 DEF ReportIdle, workerVars
<1>6. ASSUME BeginRun
      PROVE  Spoken /\ WorkerTyped' /\ RunsAreOfAProgram'
  <2>1. PostReport(Activity("Executing")) /\ UNCHANGED <<installed, editorVars>> /\ phase # "run"
    BY <1>6 DEF BeginRun
  <2>2. Spoken
    BY <1>4, <2>1 DEF Activities
  <2>3. installed \in Programs /\ run' <= MaxRuns /\ run' \in Nat
    BY <1>6, NodesOfPrograms, BoundsAssumption DEF BeginRun
  <2>. QED  BY <1>6, <2>2, <2>3 DEF BeginRun
<1>7. ASSUME FailPlan
      PROVE  Spoken /\ WorkerTyped' /\ RunsAreOfAProgram'
  <2>1. PostReport(Activity("Idle")) /\ UNCHANGED <<installed, editorVars>> /\ phase # "run"
    BY <1>7 DEF FailPlan
  <2>2. Spoken
    BY <1>4, <2>1 DEF Activities
  <2>. QED  BY <1>7, <2>2 DEF FailPlan
<1>8. ASSUME ReportRunError
      PROVE  Spoken /\ WorkerTyped' /\ RunsAreOfAProgram'
  <2>1. ExecError \in Report /\ ExecError.type = "ExecError"
    BY DEF ExecError, Report
  <2>2. PostReport(ExecError)
    BY <1>8 DEF ReportRunError
  <2>3. Says(ExecError)
    BY <1>8, <2>1, <2>2 DEF Says, ReportRunError
  <2>. QED  BY <1>8, <2>3 DEF ReportRunError, Spoken
<1>9. ASSUME NEW n \in Nodes, NEW ph \in Phases,
             PostReport(Progress(n, ph, run)), UNCHANGED <<installed, run, editorVars>>,
             n \in NodesIn(installed), phase' = "run"
      PROVE  Spoken
  <2>. DEFINE r == Progress(n, ph, run)
  <2>1. r \in Report /\ r.type = "Progress" /\ r.run = run /\ NamedNodes(r) = {n}
    BY DEF Progress, Report, NamedNodes
  <2>2. installed \in Programs
    BY <1>9, NodesOfPrograms
  <2>. HIDE DEF r
  <2>3. Says(r)
    <3>1. PostReport(r)
      BY <1>9 DEF r
    <3>. QED  BY <1>9, <2>1, <2>2, <3>1, NodesOfPrograms DEF Says
  <2>. QED  BY <2>3 DEF Spoken
<1>10. ASSUME NEW n \in Nodes, StartNode(n)
       PROVE  Spoken /\ WorkerTyped' /\ RunsAreOfAProgram'
  <2>1. Spoken
    BY <1>9, <1>10 DEF StartNode, Phases
  <2>2. invoked' = [m \in DOMAIN invoked \cup {n} |->
                      IF m = n THEN "Running" ELSE invoked[m]]
    BY <1>10 DEF StartNode
  <2>3. DOMAIN invoked' \in SUBSET Nodes /\ \A m \in DOMAIN invoked' : invoked'[m] \in Phases
    BY <2>2 DEF Phases
  <2>. QED  BY <1>10, <2>1, <2>3 DEF StartNode
<1>11. ASSUME NEW n \in Nodes, NEW result \in {"Executed", "Errored"}, FinishNode(n, result)
       PROVE  Spoken /\ WorkerTyped' /\ RunsAreOfAProgram'
  <2>1. /\ phase = "run" /\ n \in DOMAIN invoked /\ phase' = phase /\ run' = run
        /\ invoked' = [invoked EXCEPT ![n] = result] /\ installed' = installed
        /\ held' \in SUBSET Nodes /\ editorVars' = editorVars
        /\ PostReport(Progress(n, result, run))
    BY <1>11 DEF FinishNode
  <2>2. DOMAIN invoked' \in SUBSET Nodes /\ \A m \in DOMAIN invoked' : invoked'[m] \in Phases
    BY <2>1 DEF Phases
  <2>3. Spoken
    <3>1. n \in NodesIn(installed)
      BY <2>1
    <3>. QED  BY <1>9, <2>1, <3>1 DEF Phases
  <2>. QED  BY <2>1, <2>2, <2>3
<1>12. ASSUME NEW others \in [NodesIn(installed) \ DOMAIN invoked -> Unrun],
              NEW kept \in SUBSET held, CompleteRun(others, kept)
       PROVE  Spoken /\ WorkerTyped' /\ RunsAreOfAProgram'
  <2>. DEFINE statuses == [n \in NodesIn(installed) |->
                CASE n \notin DOMAIN invoked  -> others[n]
                  [] invoked[n] = "Running" -> "None"
                  [] OTHER -> invoked[n]]
              r == Completed(run, "Idle", statuses, kept)
  <2>1. PostReport(r)
    BY <1>12 DEF CompleteRun
  <2>2. installed \in Programs /\ NodesIn(installed) \in SUBSET Nodes
    BY <1>12, NodesOfPrograms DEF CompleteRun
  <2>3. statuses \in [NodesIn(installed) -> Phases \cup Unrun]
    <3>1. ASSUME NEW n \in NodesIn(installed)
          PROVE  (CASE n \notin DOMAIN invoked  -> others[n]
                    [] invoked[n] = "Running" -> "None"
                    [] OTHER -> invoked[n]) \in Phases \cup Unrun
      BY DEF Unrun
    <3>. QED  BY <3>1
  <2>. HIDE DEF statuses
  <2>4. statuses \in UNION {[D -> Phases \cup Unrun] : D \in SUBSET Nodes}
    BY <2>2, <2>3
  <2>5. kept \in SUBSET Nodes /\ "Idle" \in Activities
    BY DEF Activities
  <2>6. r \in Report /\ r.type = "Completed" /\ NamedNodes(r) = NodesIn(installed)
    BY <2>3, <2>4, <2>5 DEF Completed, Report, NamedNodes
  <2>. HIDE DEF r
  <2>7. Says(r)
    BY <1>12, <2>1, <2>2, <2>6, NodesOfPrograms DEF Says, CompleteRun
  <2>. QED  BY <1>12, <2>5, <2>7 DEF CompleteRun, Spoken
<1>. QED  BY <1>1, <1>2, <1>3, <1>5, <1>6, <1>7, <1>8, <1>10, <1>11, <1>12 DEF Worker

-----------------------------------------------------------------------------
(* The editor's program along a fold *)

\* Only an install and a clear change it.
LEMMA CompiledAfter ==
    ASSUME NEW s \in State, NEW r \in Report
    PROVE  ApplyReport(s, r).compiled =
             IF r.type = "Installed" THEN r.program
             ELSE IF r.type = "Cleared" THEN None ELSE s.compiled
<1>1. CASE r.type \in {"Installed", "OtherError", "Activity"}
  BY <1>1 DEF State, ApplyReport
<1>2. CASE r.type = "Cleared"
  BY <1>2, FoldedCleared
<1>3. CASE r.type = "ExecError"
  BY <1>3, FoldedExecError
<1>4. CASE r.type = "Progress"
  BY <1>4, FoldedProgress
<1>5. CASE r.type = "Completed"
  BY <1>5, FoldedCompleted
<1>. QED  BY <1>1, <1>2, <1>3, <1>4, <1>5 DEF Report

\* A fold of a prefix is where the trace then is.
LEMMA PrefixOfTrace ==
    ASSUME NEW s \in State, NEW q \in Seq(Report), NEW g, IsTrace(g, s, q)
    PROVE  \A k \in 0..Len(q) : Fold(s, SubSeq(q, 1, k)) = g[k]
<1>. TAKE k \in 0..Len(q)
<1>. DEFINE p == SubSeq(q, 1, k)
<1>1. Len(q) \in Nat
  BY ReportAt
<1>2. p \in Seq(Report) /\ Len(p) = k /\ \A i \in 1..k : p[i] = q[i]
  BY <1>1
<1>. HIDE DEF p
<1>3. PICK f : IsTrace(f, s, p) /\ Fold(s, p) = f[Len(p)]
  BY <1>2, FoldHasTrace
<1>4. \A j \in 0..k : f[j] = g[j]
  BY <1>1, <1>2, <1>3, TracesAgree
<1>. QED  BY <1>1, <1>2, <1>3, <1>4 DEF p

AckedBy(program, r) ==
    r.type \in {"Progress", "Completed"} =>
        program # None /\ NamedNodes(r) \subseteq NodesIn(program)

AckedAlong(g, q) == \A i \in 1..Len(q) : AckedBy(g[i - 1].compiled, q[i])

\* Whether a box is acknowledged shows along its trace.
LEMMA AcknowledgedAlong ==
    ASSUME NEW s \in State, NEW q \in Seq(Report), NEW g, IsTrace(g, s, q)
    PROVE  AllAcknowledged(s, q) <=> AckedAlong(g, q)
<1>1. Len(q) \in Nat /\ DOMAIN q = 1..Len(q)
  BY ReportAt
<1>2. ASSUME NEW i \in 1..Len(q)
      PROVE  Acknowledged(Fold(s, SubSeq(q, 1, i - 1)), q[i]) <=> AckedBy(g[i - 1].compiled, q[i])
  <2>1. i - 1 \in 0..Len(q)
    BY <1>1
  <2>2. Fold(s, SubSeq(q, 1, i - 1)) = g[i - 1]
    BY <2>1, PrefixOfTrace
  <2>. QED  BY <2>2 DEF Acknowledged, AckedBy
<1>. QED  BY Zenon, <1>1, <1>2 DEF AllAcknowledged, AckedAlong

\* The editor's program stays from the last structural report on.
LEMMA CompiledStays ==
    ASSUME NEW s \in State, NEW q \in Seq(Report), NEW g, IsTrace(g, s, q),
           NEW m \in 0..Len(q), \A i \in 1..Len(q) : i > m => ~IsStructural(q[i])
    PROVE  \A k \in m..Len(q) : g[k].compiled = g[m].compiled
<1>. DEFINE S == {k \in 0..Len(q) : k >= m => g[k].compiled = g[m].compiled}
<1>1. Len(q) \in Nat /\ \A i \in 1..Len(q) : q[i] \in Report
  BY ReportAt
<1>2. 0 \in S
  BY <1>1
<1>3. ASSUME NEW k \in 1..Len(q), k - 1 \in S PROVE k \in S
  <2>1. k \in 0..Len(q) /\ k - 1 \in 0..Len(q)
    BY <1>1
  <2>2. CASE k > m
    <3>1. g[k - 1].compiled = g[m].compiled
      BY <1>3, <2>1, <2>2
    <3>2. g[k] = ApplyReport(g[k - 1], q[k]) /\ q[k] \in Report
      BY <1>1 DEF IsTrace
    <3>3. g[k - 1] \in State
      BY <2>1, TraceOfStates
    <3>4. q[k].type # "Installed" /\ q[k].type # "Cleared"
      BY <2>2 DEF IsStructural
    <3>5. g[k].compiled = g[k - 1].compiled
      BY <3>2, <3>3, <3>4, CompiledAfter
    <3>. QED  BY <2>1, <3>1, <3>5
  <2>3. CASE ~ (k > m)
    <3>1. k >= m => k = m
      BY <2>1, <2>3
    <3>. QED  BY <2>1, <3>1
  <2>. QED  BY <2>2, <2>3
<1>. HIDE DEF S
<1>4. \A k \in 0..Len(q) : k \in S
  BY <1>1, <1>2, <1>3, PlaceByPlace
<1>5. \A k \in m..Len(q) : k \in 0..Len(q) /\ k >= m
  BY <1>1
<1>. QED  BY <1>4, <1>5 DEF S

\* The reports before the one a merge adds: those up to the last structural
\* one, and recent ones it does not supersede, in their order.
LEMMA KeptParts ==
    ASSUME NEW box \in Seq(Report), NEW new \in Report
    PROVE  LET m == Since(box)
               K == Kept(Recent(box), new)
               q == SubSeq(box, 1, m) \o K
           IN  /\ K \in Seq(Report) /\ q \in Seq(Report) /\ Len(q) = m + Len(K)
               /\ \A i \in 1..m : q[i] = box[i]
               /\ \A j \in 1..Len(K) : q[m + j] = K[j]
               /\ \E at \in [1..Len(K) -> 1..Len(Recent(box))] :
                     /\ \A j \in 1..Len(K) :
                           K[j] = Recent(box)[at[j]] /\ ~Supersedes(new, K[j])
                     /\ \A i, j \in 1..Len(K) : i < j => at[i] < at[j]
               /\ Merge(box, new) = Append(q, new)
<1>. DEFINE m == Since(box)
            R == Recent(box)
            K == Kept(R, new)
            P == SubSeq(box, 1, m)
            Staying == {i \in DOMAIN R : ~Supersedes(new, R[i])}
<1>1. /\ m \in 0..Len(box) /\ P \in Seq(Report) /\ Len(P) = m
      /\ \A i \in 1..m : P[i] = box[i]
      /\ R \in Seq(Report)
  BY RecentParts
<1>2. Len(R) \in Nat /\ m \in Nat
  BY <1>1, ReportAt
<1>3. PickedFrom(K, R, Staying, Len(R))
  <2>1. K = Picked(R, Staying)
    BY DEF Kept
  <2>. HIDE DEF K, R, Staying
  <2>. QED  BY <1>1, <2>1, PickedIsFrom
<1>4. Merge(box, new) = P \o K \o <<new>>
  BY DEF Merge
<1>5. \A i \in Staying : ~Supersedes(new, R[i])
  OBVIOUS
<1>. HIDE DEF m, R, K, P, Staying
<1>6. K \in Seq(Report) /\ Len(K) \in Nat
  BY <1>3 DEF PickedFrom
<1>7. P \o K \in Seq(Report) /\ P \o K \o <<new>> = Append(P \o K, new)
  <2>1. P \in Seq(Report) /\ K \in Seq(Report) /\ new \in Report
    BY <1>1, <1>6
  <2>2. P \o K \in Seq(Report)
    BY Zenon, <2>1, ConcatGrows
  <2>3. P \o K \o <<new>> = Append(P \o K, new)
    BY ZenonT(60), <2>1, ConcatGrows
  <2>. QED  BY <2>2, <2>3
<1>8. /\ Len(P \o K) = m + Len(K)
      /\ \A i \in 1..m : (P \o K)[i] = P[i]
      /\ \A j \in 1..Len(K) : (P \o K)[m + j] = K[j]
  BY Zenon, <1>1, <1>6, ConcatParts
<1>9. \A i \in 1..m : (P \o K)[i] = box[i]
  BY Zenon, <1>1, <1>8
<1>10. \A j \in 1..Len(K) : (P \o K)[m + j] = K[j]
  BY Zenon, <1>8
<1>11. \E at \in [1..Len(K) -> 1..Len(R)] :
          /\ \A j \in 1..Len(K) : K[j] = R[at[j]] /\ ~Supersedes(new, K[j])
          /\ \A i, j \in 1..Len(K) : i < j => at[i] < at[j]
  <2>1. PICK at \in [1..Len(K) -> 1..Len(R)] :
          /\ \A i \in 1..Len(K) : at[i] \in Staying /\ K[i] = R[at[i]]
          /\ \A i, j \in 1..Len(K) : i < j => at[i] < at[j]
    BY <1>3 DEF PickedFrom
  <2>2. ASSUME NEW j \in 1..Len(K) PROVE K[j] = R[at[j]] /\ ~Supersedes(new, K[j])
    <3>1. at[j] \in Staying /\ K[j] = R[at[j]]
      BY <2>1
    <3>2. ~Supersedes(new, R[at[j]])
      BY <1>5, <3>1
    <3>. QED  BY Zenon, <3>1, <3>2
  <2>. QED  BY Zenon, <2>1, <2>2
<1>. QED  BY <1>4, <1>6, <1>7, <1>8, <1>9, <1>10, <1>11 DEF m, R, K, P

\* Merging moves no report across the structural report it is about.
LEMMA MergeAcknowledged ==
    ASSUME NEW s \in State, NEW box \in Seq(Report), NEW new \in Report,
           AllAcknowledged(s, box), AckedBy(Fold(s, box).compiled, new)
    PROVE  /\ AllAcknowledged(s, Merge(box, new))
           /\ Fold(s, Merge(box, new)).compiled = ApplyReport(Fold(s, box), new).compiled
<1>. DEFINE m == Since(box)
            R == Recent(box)
            K == Kept(R, new)
            q == SubSeq(box, 1, m) \o K
            b == Merge(box, new)
<1>1. /\ K \in Seq(Report) /\ q \in Seq(Report) /\ Len(q) = m + Len(K)
      /\ \A i \in 1..m : q[i] = box[i]
      /\ \A j \in 1..Len(K) : q[m + j] = K[j]
      /\ b = Append(q, new)
  BY KeptParts
<1>2. PICK at \in [1..Len(K) -> 1..Len(R)] : \A j \in 1..Len(K) : K[j] = R[at[j]]
  <2>1. \E at \in [1..Len(K) -> 1..Len(R)] :
          /\ \A j \in 1..Len(K) : K[j] = R[at[j]] /\ ~Supersedes(new, K[j])
          /\ \A i, j \in 1..Len(K) : i < j => at[i] < at[j]
    BY KeptParts
  <2>. QED  BY Zenon, <2>1
<1>3. /\ m \in 0..Len(box) /\ R \in Seq(Report) /\ Len(R) = Len(box) - m
      /\ \A i \in 1..Len(R) : R[i] = box[m + i] /\ ~IsStructural(R[i])
  BY RecentParts
<1>4. \A i \in 1..Len(box) : i > m => ~IsStructural(box[i])
  BY SinceIsTheLast
<1>. HIDE DEF m, R, K, q, b
<1>5. Len(box) \in Nat /\ m \in Nat /\ Len(K) \in Nat /\ Len(R) \in Nat /\ Len(q) \in Nat
  BY <1>1, <1>3, ReportAt
<1>6. ASSUME NEW i \in 1..Len(q), i > m
      PROVE  \E l \in 1..Len(box) : l > m /\ q[i] = box[l]
  <2>1. i - m \in 1..Len(K) /\ i = m + (i - m)
    BY <1>1, <1>5, <1>6
  <2>2. q[i] = K[i - m] /\ K[i - m] = R[at[i - m]] /\ at[i - m] \in 1..Len(R)
    BY <1>1, <1>2, <2>1
  <2>3. PICK a \in 1..Len(R) : q[i] = R[a]
    BY Zenon, <2>2
  <2>4. R[a] = box[m + a]
    BY <1>3
  <2>5. m + a \in 1..Len(box) /\ m + a > m
    BY <1>3, <1>5
  <2>. QED  BY <2>3, <2>4, <2>5
<1>7. \A i \in 1..Len(q) : i > m => ~IsStructural(q[i])
  BY Zenon, <1>4, <1>6
<1>8. PICK g : IsTrace(g, s, box) /\ Fold(s, box) = g[Len(box)]
  BY FoldHasTrace
<1>9. /\ b \in Seq(Report) /\ Len(b) = Len(q) + 1 /\ b[Len(b)] = new
      /\ \A i \in 1..Len(q) : b[i] = q[i]
  BY <1>1
<1>10. PICK f : IsTrace(f, s, b) /\ Fold(s, b) = f[Len(b)]
  BY <1>9, FoldHasTrace
<1>11. IsTrace(f, s, q)
  <2>1. f[0] = s /\ \A k \in 1..Len(b) : f[k] = ApplyReport(f[k - 1], b[k])
    BY <1>10 DEF IsTrace
  <2>2. ASSUME NEW k \in 1..Len(q) PROVE f[k] = ApplyReport(f[k - 1], q[k])
    <3>1. k \in 1..Len(b) /\ b[k] = q[k]
      BY <1>5, <1>9
    <3>. QED  BY <2>1, <3>1
  <2>. QED  BY <2>1, <2>2 DEF IsTrace
<1>12. \A k \in 0..m : f[k] = g[k]
  <2>1. m \in Nat /\ m <= Len(q) /\ m <= Len(box) /\ \A i \in 1..m : q[i] = box[i]
    BY <1>1, <1>3, <1>5
  <2>. QED  BY <1>1, <1>8, <1>11, <2>1, TracesAgree
<1>13. \A k \in m..Len(q) : f[k].compiled = g[m].compiled
  <2>1. m \in 0..Len(q)
    BY <1>1, <1>5
  <2>2. \A k \in m..Len(q) : f[k].compiled = f[m].compiled
    BY <1>1, <1>7, <1>11, <2>1, CompiledStays
  <2>3. f[m] = g[m]
    BY <1>5, <1>12
  <2>. QED  BY <2>2, <2>3
<1>14. \A k \in m..Len(box) : g[k].compiled = g[m].compiled
  BY <1>3, <1>4, <1>8, CompiledStays
<1>15. AckedAlong(g, box)
  BY <1>8, AcknowledgedAlong
<1>16. ASSUME NEW i \in 1..Len(b) PROVE AckedBy(f[i - 1].compiled, b[i])
  <2>1. CASE i <= m
    <3>1. i \in 1..Len(box) /\ i \in 1..m /\ i \in 1..Len(q) /\ i - 1 \in 0..m
      BY <1>1, <1>3, <1>5, <2>1
    <3>2. f[i - 1] = g[i - 1] /\ b[i] = box[i]
      BY <1>1, <1>9, <1>12, <3>1
    <3>. QED  BY <1>15, <3>1, <3>2 DEF AckedAlong
  <2>2. CASE i > m /\ i <= Len(q)
    <3>1. i \in 1..Len(q) /\ i - 1 \in m..Len(q)
      BY <1>5, <2>2
    <3>2. PICK l \in 1..Len(box) : l > m /\ q[i] = box[l]
      BY <1>6, <2>2, <3>1
    <3>3. l - 1 \in m..Len(box)
      BY <1>5, <3>2
    <3>4. AckedBy(g[l - 1].compiled, box[l])
      BY <1>15, <3>2 DEF AckedAlong
    <3>5. f[i - 1].compiled = g[l - 1].compiled /\ b[i] = box[l]
      BY <1>9, <1>13, <1>14, <3>1, <3>2, <3>3
    <3>. QED  BY <3>4, <3>5
  <2>3. CASE i = Len(b)
    <3>1. i - 1 \in m..Len(q) /\ Len(box) \in m..Len(box)
      BY <1>1, <1>3, <1>5, <1>9, <2>3
    <3>2. f[i - 1].compiled = Fold(s, box).compiled
      BY <1>8, <1>13, <1>14, <3>1
    <3>. QED  BY <1>9, <2>3, <3>2
  <2>. QED  BY <1>5, <1>9, <2>1, <2>2, <2>3
<1>17. AllAcknowledged(s, b)
  BY <1>9, <1>10, <1>16, AcknowledgedAlong DEF AckedAlong
<1>18. Fold(s, b).compiled = ApplyReport(Fold(s, box), new).compiled
  <2>1. Len(b) \in 1..Len(b) /\ Len(b) - 1 = Len(q)
    BY <1>5, <1>9
  <2>2. Fold(s, b) = ApplyReport(f[Len(q)], new)
    BY <1>9, <1>10, <2>1 DEF IsTrace
  <2>3. f[Len(q)] \in State /\ Fold(s, box) \in State
    BY <1>1, <1>5, <1>11, TraceOfStates, FoldIsState
  <2>4. f[Len(q)].compiled = Fold(s, box).compiled
    <3>1. Len(q) \in m..Len(q) /\ Len(box) \in m..Len(box)
      BY <1>1, <1>3, <1>5
    <3>. QED  BY <1>8, <1>13, <1>14, <3>1
  <2>5. Fold(s, b).compiled =
          IF new.type = "Installed" THEN new.program
          ELSE IF new.type = "Cleared" THEN None ELSE f[Len(q)].compiled
    BY <2>2, <2>3, CompiledAfter
  <2>6. ApplyReport(Fold(s, box), new).compiled =
          IF new.type = "Installed" THEN new.program
          ELSE IF new.type = "Cleared" THEN None ELSE Fold(s, box).compiled
    BY <2>3, CompiledAfter
  <2>. QED  BY <2>4, <2>5, <2>6
<1>. QED  BY <1>17, <1>18 DEF b

-----------------------------------------------------------------------------
(* The recent reports along the merges *)

\* Nothing but the last structural report's place is Since.
LEMMA SinceIsUnique ==
    ASSUME NEW box \in Seq(Report), NEW m \in 0..Len(box),
           m # 0 => IsStructural(box[m]),
           \A i \in 1..Len(box) : i > m => ~IsStructural(box[i])
    PROVE  Since(box) = m
<1>1. /\ Since(box) \in 0..Len(box)
      /\ Since(box) # 0 => IsStructural(box[Since(box)])
      /\ \A i \in 1..Len(box) : i > Since(box) => ~IsStructural(box[i])
  BY SinceIsTheLast
<1>2. Len(box) \in Nat
  BY ReportAt
<1>3. ~ (Since(box) > m)
  <2>1. SUFFICES ASSUME Since(box) > m PROVE FALSE
    OBVIOUS
  <2>2. Since(box) \in 1..Len(box) /\ Since(box) # 0
    BY <1>1, <1>2, <2>1
  <2>3. IsStructural(box[Since(box)])
    BY Zenon, <1>1, <2>2
  <2>. QED  BY Zenon, <2>1, <2>2, <2>3
<1>4. ~ (m > Since(box))
  <2>1. SUFFICES ASSUME m > Since(box) PROVE FALSE
    OBVIOUS
  <2>2. m \in 1..Len(box) /\ m # 0
    BY <1>1, <1>2, <2>1
  <2>3. IsStructural(box[m])
    BY Zenon, <2>2
  <2>. QED  BY Zenon, <1>1, <2>1, <2>2, <2>3
<1>. QED  BY <1>1, <1>2, <1>3, <1>4

\* After a merge the recent reports are the ones kept, then the new one; none
\* if that one is structural.
LEMMA RecentOfMerged ==
    ASSUME NEW box \in Seq(Report), NEW new \in Report
    PROVE  LET now == Recent(Merge(box, new))
               R == Recent(box)
           IN  IF IsStructural(new) THEN Len(now) = 0
               ELSE \E n \in Nat : \E at \in [1..n -> 1..Len(R)] :
                       /\ Len(now) = n + 1 /\ now[n + 1] = new
                       /\ \A j \in 1..n : now[j] = R[at[j]] /\ ~Supersedes(new, R[at[j]])
                       /\ \A i, j \in 1..n : i < j => at[i] < at[j]
<1>. DEFINE m == Since(box)
            R == Recent(box)
            K == Kept(R, new)
            q == SubSeq(box, 1, m) \o K
            b == Merge(box, new)
            n == Len(K)
<1>1. /\ K \in Seq(Report) /\ q \in Seq(Report) /\ Len(q) = m + Len(K)
      /\ \A i \in 1..m : q[i] = box[i]
      /\ \A j \in 1..Len(K) : q[m + j] = K[j]
      /\ b = Append(q, new)
  BY KeptParts
<1>2. PICK at \in [1..Len(K) -> 1..Len(R)] :
          /\ \A j \in 1..Len(K) : K[j] = R[at[j]] /\ ~Supersedes(new, K[j])
          /\ \A i, j \in 1..Len(K) : i < j => at[i] < at[j]
  BY KeptParts
<1>3. /\ m \in 0..Len(box) /\ R \in Seq(Report)
      /\ \A i \in 1..Len(R) : ~IsStructural(R[i])
  BY RecentParts
<1>4. m # 0 => IsStructural(box[m])
  BY SinceIsTheLast
<1>. HIDE DEF m, R, K, q, b
<1>5. Len(box) \in Nat /\ m \in Nat /\ n \in Nat /\ Len(q) \in Nat
  BY <1>1, <1>3, ReportAt
<1>6. /\ b \in Seq(Report) /\ Len(b) = Len(q) + 1 /\ b[Len(b)] = new
      /\ \A i \in 1..Len(q) : b[i] = q[i]
  BY <1>1
<1>7. CASE IsStructural(new)
  <2>1. Since(b) = Len(b)
    <3>1. Len(b) \in 0..Len(b) /\ \A i \in 1..Len(b) : ~ (i > Len(b))
      BY <1>5, <1>6
    <3>2. IsStructural(b[Len(b)])
      BY Zenon, <1>6, <1>7
    <3>. QED  BY <1>6, <3>1, <3>2, SinceIsUnique
  <2>2. Len(Recent(b)) = 0
    BY <1>5, <1>6, <2>1, RecentParts
  <2>. QED  BY Zenon, <1>7, <2>2 DEF b
<1>8. CASE ~IsStructural(new)
  <2>1. ASSUME NEW i \in 1..Len(b), i > m PROVE ~IsStructural(b[i])
    <3>1. CASE i = Len(b)
      BY Zenon, <1>6, <1>8, <3>1
    <3>2. CASE i # Len(b)
      <4>1. i \in 1..Len(q) /\ i - m \in 1..Len(K) /\ i = m + (i - m)
        BY <1>1, <1>5, <1>6, <2>1, <3>2
      <4>2. b[i] = q[i] /\ q[i] = K[i - m] /\ K[i - m] = R[at[i - m]] /\ at[i - m] \in 1..Len(R)
        BY <1>1, <1>2, <1>6, <4>1
      <4>. QED  BY Zenon, <1>3, <4>2
    <3>. QED  BY <3>1, <3>2
  <2>2. m \in 0..Len(b) /\ (m # 0 => IsStructural(b[m]))
    <3>1. m \in 0..Len(b)
      BY <1>1, <1>5, <1>6
    <3>2. ASSUME m # 0 PROVE IsStructural(b[m])
      <4>1. m \in 1..m /\ m \in 1..Len(q)
        BY <1>1, <1>5, <3>2
      <4>2. b[m] = box[m]
        BY <1>1, <1>6, <4>1
      <4>. QED  BY Zenon, <1>4, <3>2, <4>2
    <3>. QED  BY <3>1, <3>2
  <2>3. Since(b) = m
    BY <1>6, <2>1, <2>2, SinceIsUnique
  <2>. DEFINE now == Recent(b)
  <2>4. now \in Seq(Report) /\ Len(now) = n + 1 /\ \A i \in 1..Len(now) : now[i] = b[m + i]
    <3>1. /\ Recent(b) \in Seq(Report) /\ Len(Recent(b)) = Len(b) - Since(b)
          /\ \A i \in 1..Len(Recent(b)) : Recent(b)[i] = b[Since(b) + i]
      BY <1>6, RecentParts
    <3>2. Len(b) - m = n + 1
      BY <1>1, <1>5, <1>6
    <3>. QED  BY <2>3, <3>1, <3>2
  <2>. HIDE DEF now
  <2>5. now[n + 1] = new
    <3>1. n + 1 \in 1..Len(now) /\ m + (n + 1) = Len(b)
      BY <1>1, <1>5, <1>6, <2>4
    <3>. QED  BY <1>6, <2>4, <3>1
  <2>6. ASSUME NEW j \in 1..n PROVE now[j] = R[at[j]] /\ ~Supersedes(new, R[at[j]])
    <3>1. j \in 1..Len(now) /\ m + j \in 1..Len(q) /\ j \in 1..Len(K)
      BY <1>1, <1>5, <2>4
    <3>2. now[j] = b[m + j] /\ b[m + j] = q[m + j] /\ q[m + j] = K[j] /\ K[j] = R[at[j]]
      BY <1>1, <1>2, <1>6, <2>4, <3>1
    <3>. QED  BY Zenon, <1>2, <3>1, <3>2
  <2>7. \E l \in Nat : \E a \in [1..l -> 1..Len(R)] :
            /\ Len(now) = l + 1 /\ now[l + 1] = new
            /\ \A j \in 1..l : now[j] = R[a[j]] /\ ~Supersedes(new, R[a[j]])
            /\ \A i, j \in 1..l : i < j => a[i] < a[j]
    <3>. HIDE DEF n
    <3>1. at \in [1..n -> 1..Len(R)] /\ \A i, j \in 1..n : i < j => at[i] < at[j]
      BY <1>2 DEF n
    <3>. QED  BY Zenon, <1>5, <2>4, <2>5, <2>6, <3>1
  <2>. QED  BY Zenon, <1>8, <2>7 DEF now, b, R
<1>. QED  BY <1>7, <1>8

\* A merge keeps the recent reports sparse.
LEMMA MergeKeepsSparse ==
    ASSUME NEW box \in Seq(Report), NEW new \in Report, SparseIn(Recent(box))
    PROVE  SparseIn(Recent(Merge(box, new)))
<1>. DEFINE now == Recent(Merge(box, new))
            R == Recent(box)
<1>1. CASE IsStructural(new)
  <2>1. Len(now) = 0
    BY Zenon, <1>1, RecentOfMerged
  <2>2. 1..Len(now) = {}
    <3>. HIDE DEF now
    <3>. QED  BY <2>1
  <2>. QED  BY Zenon, <2>2 DEF SparseIn
<1>2. CASE ~IsStructural(new)
  <2>1. \E n \in Nat : \E at \in [1..n -> 1..Len(R)] :
           /\ Len(now) = n + 1 /\ now[n + 1] = new
           /\ \A j \in 1..n : now[j] = R[at[j]] /\ ~Supersedes(new, R[at[j]])
           /\ \A i, j \in 1..n : i < j => at[i] < at[j]
    BY Zenon, <1>2, RecentOfMerged
  <2>. HIDE DEF now, R
  <2>2. PICK n \in Nat : \E at \in [1..n -> 1..Len(R)] :
           /\ Len(now) = n + 1 /\ now[n + 1] = new
           /\ \A j \in 1..n : now[j] = R[at[j]] /\ ~Supersedes(new, R[at[j]])
           /\ \A i, j \in 1..n : i < j => at[i] < at[j]
    BY Zenon, <2>1
  <2>3. PICK at \in [1..n -> 1..Len(R)] :
           /\ Len(now) = n + 1 /\ now[n + 1] = new
           /\ \A j \in 1..n : now[j] = R[at[j]] /\ ~Supersedes(new, R[at[j]])
           /\ \A i, j \in 1..n : i < j => at[i] < at[j]
    BY Zenon, <2>2
  <2>4. R \in Seq(Report)
    BY RecentParts DEF R
  <2>5. Len(R) \in Nat
    BY <2>4, ReportAt
  <2>6. /\ \A i, j \in 1..Len(R) :
              R[i].type = R[j].type /\ R[i].type \in {"Activity", "Completed", "ExecError"} => i = j
        /\ \A i, j \in 1..Len(R) :
              R[i].type = "Progress" /\ R[j].type \in {"Completed", "ExecError"} => j < i
    BY Zenon DEF SparseIn, R
  <2>7. ASSUME NEW i \in 1..Len(now), NEW j \in 1..Len(now),
               now[i].type = now[j].type, now[i].type \in {"Activity", "Completed", "ExecError"}
        PROVE  i = j
    <3>1. ASSUME NEW k \in 1..n PROVE R[at[k]].type # new.type \/ new.type # now[i].type
      <4>1. ~Supersedes(new, R[at[k]])
        BY <2>3
      <4>. QED  BY <2>7, <4>1 DEF Supersedes
    <3>2. CASE i \in 1..n /\ j \in 1..n
      <4>1. at[i] \in 1..Len(R) /\ at[j] \in 1..Len(R) /\ now[i] = R[at[i]] /\ now[j] = R[at[j]]
        BY <2>3, <3>2
      <4>2. at[i] = at[j]
        BY <2>6, <2>7, <4>1
      <4>3. ~ (i < j) /\ ~ (j < i)
        BY <2>3, <2>5, <3>2, <4>1, <4>2
      <4>. QED  BY <3>2, <4>3
    <3>3. CASE i \in 1..n /\ j = n + 1
      <4>1. now[i] = R[at[i]] /\ now[j] = new
        BY <2>3, <3>3
      <4>. QED  BY <2>7, <3>1, <3>3, <4>1
    <3>4. CASE i = n + 1 /\ j \in 1..n
      <4>1. now[j] = R[at[j]] /\ now[i] = new
        BY <2>3, <3>4
      <4>. QED  BY <2>7, <3>1, <3>4, <4>1
    <3>. QED  BY <2>2, <2>3, <3>2, <3>3, <3>4
  <2>8. ASSUME NEW i \in 1..Len(now), NEW j \in 1..Len(now),
               now[i].type = "Progress", now[j].type \in {"Completed", "ExecError"}
        PROVE  j < i
    <3>1. i # j
      BY <2>8
    <3>2. CASE i \in 1..n /\ j \in 1..n
      <4>1. at[i] \in 1..Len(R) /\ at[j] \in 1..Len(R) /\ now[i] = R[at[i]] /\ now[j] = R[at[j]]
        BY <2>3, <3>2
      <4>2. at[j] < at[i]
        BY <2>6, <2>8, <4>1
      <4>3. ~ (i < j)
        BY <2>3, <2>5, <3>2, <4>1, <4>2
      <4>. QED  BY <3>1, <3>2, <4>3
    <3>3. CASE i \in 1..n /\ j = n + 1
      <4>1. now[i] = R[at[i]] /\ now[j] = new /\ ~Supersedes(new, R[at[i]])
        BY <2>3, <3>3
      <4>. QED  BY <2>8, <4>1 DEF Supersedes
    <3>4. CASE i = n + 1
      BY <2>2, <2>3, <3>1, <3>4
    <3>. QED  BY <2>2, <2>3, <3>2, <3>3, <3>4
  <2>. QED  BY Zenon, <2>7, <2>8 DEF SparseIn, now
<1>. QED  BY <1>1, <1>2

-----------------------------------------------------------------------------
(* Steps of the invariant *)

IInv == Typed /\ RunsAreOfAProgram /\ FoldsAsPosted /\ EditorCatchesUp /\ RecentIsSparse

\* A report folds as the post it is.
LEMMA SaidFolds ==
    ASSUME IInv, NEW r, Says(r)
    PROVE  /\ reports' \in Seq(Report) /\ posted' \in Seq(Report) /\ superseded' \in Nat
           /\ state' \in State /\ FoldsAsPosted'
<1>1. /\ state \in State /\ reports \in Seq(Report) /\ posted \in Seq(Report)
      /\ superseded \in Nat /\ r \in Report
      /\ Fold(Counting(state, superseded), reports) = Fold(state, posted)
  BY DEF IInv, Typed, FoldsAsPosted, Says
<1>2. /\ reports' = Merge(reports, r) /\ posted' = Append(posted, r) /\ state' = state
      /\ superseded' = superseded + RunsSuperseded(reports, r)
  BY DEF Says, PostReport, editorVars
<1>. DEFINE k == RunsSuperseded(reports, r)
            s == Counting(state, superseded)
<1>3. s \in State
  BY <1>1, CountingIsState
<1>. HIDE DEF s
<1>4. Merge(reports, r) \in Seq(Report) /\ k \in Nat
      /\ Fold(Counting(s, k), Merge(reports, r)) = Fold(s, Append(reports, r))
  BY <1>1, <1>3, MergeLeavesTheFold
<1>. HIDE DEF k
<1>5. Counting(s, k) = Counting(state, superseded + k)
  <2>1. state.runsEnded \in Nat
    BY <1>1, CountingIsState
  <2>2. s.runsEnded = state.runsEnded + superseded
    BY <1>1 DEF s, Counting, State
  <2>3. s.runsEnded + k = state.runsEnded + (superseded + k)
    BY <1>1, <1>4, <2>1, <2>2
  <2>. QED  BY <1>1, <2>3 DEF s, Counting, State
<1>6. Fold(s, Append(reports, r)) = ApplyReport(Fold(s, reports), r)
  BY <1>1, <1>3, FoldOneMore
<1>7. Fold(state, Append(posted, r)) = ApplyReport(Fold(state, posted), r)
  BY <1>1, FoldOneMore
<1>8. Fold(Counting(state, superseded + k), Merge(reports, r)) = Fold(state, Append(posted, r))
  BY Zenon, <1>1, <1>4, <1>5, <1>6, <1>7 DEF s
<1>9. Append(posted, r) \in Seq(Report) /\ Append(posted, r) # <<>> /\ superseded + k \in Nat
  BY <1>1, <1>4
<1>. QED  BY <1>1, <1>2, <1>4, <1>8, <1>9 DEF FoldsAsPosted, k

\* The editor will catch up with the program it is of.
LEMMA SaidIsAcknowledged ==
    ASSUME IInv, NEW r, Says(r)
    PROVE  EditorCatchesUp'
<1>1. /\ state \in State /\ reports \in Seq(Report) /\ r \in Report
      /\ Fold(state, reports).compiled = Shown(installed) /\ AllAcknowledged(state, reports)
  BY DEF IInv, Typed, EditorCatchesUp, Says
<1>2. reports' = Merge(reports, r) /\ state' = state
  BY DEF Says, PostReport, editorVars
<1>3. AckedBy(Fold(state, reports).compiled, r)
  BY <1>1 DEF Says, AckedBy
<1>4. /\ AllAcknowledged(state, Merge(reports, r))
      /\ Fold(state, Merge(reports, r)).compiled = ApplyReport(Fold(state, reports), r).compiled
  BY <1>1, <1>3, MergeAcknowledged
<1>5. ApplyReport(Fold(state, reports), r).compiled =
        IF r.type = "Installed" THEN r.program
        ELSE IF r.type = "Cleared" THEN None ELSE Shown(installed)
  BY <1>1, FoldIsState, CompiledAfter
<1>6. Shown(installed') = IF r.type = "Installed" THEN r.program
                           ELSE IF r.type = "Cleared" THEN None ELSE Shown(installed)
  BY DEF Says
<1>7. Shown(installed)' = Shown(installed')
  BY DEF Shown
<1>8. Fold(state, Merge(reports, r)).compiled = Shown(installed')
  BY <1>4, <1>5, <1>6
<1>9. AllAcknowledged(state, reports)' = AllAcknowledged(state', reports')
  OBVIOUS
<1>. QED  BY Zenon, <1>2, <1>4, <1>7, <1>8, <1>9 DEF EditorCatchesUp

\* A report leaves the recent ones sparse.
LEMMA SaidIsSparse ==
    ASSUME IInv, NEW r, Says(r)
    PROVE  RecentIsSparse'
<1>1. /\ reports \in Seq(Report) /\ r \in Report
      /\ SparseIn(Recent(reports)) /\ ProgressIsOfTheRun(Recent(reports))
  BY DEF IInv, Typed, RecentIsSparse, Says
<1>. DEFINE R == Recent(reports)
            now == Recent(Merge(reports, r))
<1>2. reports' = Merge(reports, r)
  BY DEF Says, PostReport
<1>3. SparseIn(now)
  BY <1>1, MergeKeepsSparse
<1>4. ASSUME NEW i \in 1..Len(now), now[i].type = "Progress"
      PROVE  phase' = "run" /\ now[i].run = run'
  <2>1. ~IsStructural(r)
    <3>1. SUFFICES ASSUME IsStructural(r) PROVE FALSE
      OBVIOUS
    <3>2. Len(now) = 0
      BY Zenon, <1>1, <3>1, RecentOfMerged
    <3>. HIDE DEF now
    <3>. QED  BY <1>4, <3>2
  <2>2. PICK n \in Nat : \E at \in [1..n -> 1..Len(R)] :
           /\ Len(now) = n + 1 /\ now[n + 1] = r
           /\ \A j \in 1..n : now[j] = R[at[j]] /\ ~Supersedes(r, R[at[j]])
           /\ \A h, j \in 1..n : h < j => at[h] < at[j]
    BY Zenon, <1>1, <2>1, RecentOfMerged
  <2>. HIDE DEF now, R
  <2>3. PICK at \in [1..n -> 1..Len(R)] :
           /\ Len(now) = n + 1 /\ now[n + 1] = r
           /\ \A j \in 1..n : now[j] = R[at[j]] /\ ~Supersedes(r, R[at[j]])
    BY Zenon, <2>2
  <2>4. CASE i \in 1..n
    <3>1. now[i] = R[at[i]] /\ ~Supersedes(r, R[at[i]]) /\ at[i] \in 1..Len(R)
      BY <2>3, <2>4
    <3>2. phase = "run" /\ now[i].run = run
      BY <1>1, <1>4, <3>1 DEF ProgressIsOfTheRun, R
    <3>3. r.type # "Completed"
      BY <1>4, <3>1 DEF Supersedes
    <3>. QED  BY <3>2, <3>3 DEF Says
  <2>5. CASE i = n + 1
    BY <1>4, <2>3, <2>5 DEF Says
  <2>. QED  BY <1>4, <2>3, <2>4, <2>5
<1>5. ProgressIsOfTheRun(now)'
        <=> \A i \in 1..Len(now') : now'[i].type = "Progress" => phase' = "run" /\ now'[i].run = run'
  BY DEF ProgressIsOfTheRun
<1>. HIDE DEF now, R
<1>6. SparseIn(Recent(reports))' /\ ProgressIsOfTheRun(Recent(reports))'
  BY <1>2, <1>3, <1>4 DEF ProgressIsOfTheRun, SparseIn, now
<1>. QED  BY <1>6 DEF RecentIsSparse

\* With nothing in the box everything about it holds.
LEMMA EmptyBox ==
    ASSUME NEW s \in State
    PROVE  /\ Fold(Counting(s, 0), <<>>) = Fold(s, <<>>) /\ Fold(s, <<>>) = s
           /\ AllAcknowledged(s, <<>>)
           /\ Len(Recent(<<>>)) = 0
<1>1. Counting(s, 0) = s
  BY DEF Counting, State
<1>2. AllAcknowledged(s, <<>>)
  <2>1. DOMAIN <<>> = {}
    OBVIOUS
  <2>. QED  BY Zenon, <2>1 DEF AllAcknowledged
<1>3. Len(Recent(<<>>)) = 0
  <2>1. <<>> \in Seq(Report) /\ Len(<<>>) = 0
    OBVIOUS
  <2>2. Since(<<>>) \in 0..0 /\ Len(Recent(<<>>)) = Len(<<>>) - Since(<<>>)
    BY <2>1, RecentParts
  <2>. QED  BY <2>1, <2>2
<1>. QED  BY <1>1, <1>2, <1>3, FoldNothing

\* A frame and what else the editor does leave an empty box, and a state that
\* shows the worker's program.
LEMMA EmptyBoxHolds ==
    ASSUME IInv, reports' = <<>>, superseded' = 0, posted' = <<>>, UNCHANGED workerVars,
           state' \in State, state'.compiled = Shown(installed)
    PROVE  IInv'
<1>1. Typed' /\ RunsAreOfAProgram'
  <2>1. <<>> \in Seq(Report)
    OBVIOUS
  <2>. QED  BY <2>1 DEF IInv, Typed, RunsAreOfAProgram, workerVars
<1>2. FoldsAsPosted'
  BY EmptyBox DEF FoldsAsPosted
<1>3. EditorCatchesUp'
  <2>1. Shown(installed)' = Shown(installed)
    BY DEF Shown, workerVars
  <2>. QED  BY <2>1, EmptyBox DEF EditorCatchesUp
<1>4. RecentIsSparse'
  <2>1. 1..Len(Recent(reports')) = {}
    BY EmptyBox
  <2>. QED  BY Zenon, <2>1 DEF RecentIsSparse, SparseIn, ProgressIsOfTheRun
<1>. QED  BY <1>1, <1>2, <1>3, <1>4 DEF IInv

\* What the editor changes of a state leaves a state, of the same program.
LEMMA EditsKeepTheProgram ==
    ASSUME NEW s \in State
    PROVE  /\ Emptied(s) \in State /\ Emptied(s).compiled = s.compiled
           /\ \A evicted \in SUBSET Nodes :
                 /\ ClearProjections(s, evicted) \in State
                 /\ ClearProjections(s, evicted).compiled = s.compiled
           /\ \A published \in [Nodes -> Nat] :
                 /\ ShowPreviews(s, published, Nodes) \in State
                 /\ ShowPreviews(s, published, Nodes).compiled = s.compiled
<1>1. Emptied(s) \in State /\ Emptied(s).compiled = s.compiled
  <2>1. NoNodes \in [Nodes -> NodeState] /\ NoPreviews \in [Nodes -> Nat]
    BY DEF NodeState, NoNode, Unrun, NoNodes, NoPreviews
  <2>2. Emptied(s) =
          [nodes |-> NoNodes, previews |-> NoPreviews, outcome |-> 0, compiled |-> s.compiled,
           activity |-> s.activity, cacheRam |-> s.cacheRam, runsEnded |-> s.runsEnded,
           parked |-> s.parked]
    <3>1. s.nodes \in [Nodes -> NodeState] /\ s.previews \in [Nodes -> Nat]
      BY DEF State
    <3>. DEFINE t == [nodes |-> s.nodes, previews |-> s.previews, outcome |-> s.outcome,
                      compiled |-> s.compiled, activity |-> s.activity, cacheRam |-> s.cacheRam,
                      runsEnded |-> s.runsEnded, parked |-> s.parked]
    <3>2. s = t
      BY DEF State
    <3>3. Emptied(t) =
            [nodes |-> NoNodes, previews |-> NoPreviews, outcome |-> 0, compiled |-> s.compiled,
             activity |-> s.activity, cacheRam |-> s.cacheRam, runsEnded |-> s.runsEnded,
             parked |-> s.parked]
      <4>1. Emptied(t) = [t EXCEPT !.nodes = NoNodes, !.previews = NoPreviews, !.outcome = 0]
        BY Zenon DEF Emptied, NoNodes, NoPreviews
      <4>. QED  BY <4>1
    <3>. QED  BY Zenon, <3>2, <3>3
  <2>. QED  BY <2>1, <2>2 DEF State
<1>2. ASSUME NEW evicted \in SUBSET Nodes
      PROVE  /\ ClearProjections(s, evicted) \in State
             /\ ClearProjections(s, evicted).compiled = s.compiled
  <2>. DEFINE nodes == [n \in Nodes |->
            IF n \in evicted THEN [s.nodes[n] EXCEPT !.ram = FALSE] ELSE s.nodes[n]]
              previews == [n \in Nodes |-> IF n \in evicted THEN 0 ELSE s.previews[n]]
  <2>1. s.nodes \in [Nodes -> NodeState] /\ s.previews \in [Nodes -> Nat]
    BY DEF State
  <2>2. nodes \in [Nodes -> NodeState]
    <3>1. ASSUME NEW x \in NodeState PROVE [x EXCEPT !.ram = FALSE] \in NodeState
      BY DEF NodeState
    <3>. QED  BY <2>1, <3>1
  <2>3. previews \in [Nodes -> Nat]
    BY <2>1
  <2>4. ClearProjections(s, evicted) =
          [s EXCEPT !.cacheRam = {}, !.nodes = nodes, !.previews = previews]
    BY DEF ClearProjections
  <2>. HIDE DEF nodes, previews
  <2>. QED  BY <2>2, <2>3, <2>4 DEF State
<1>3. ASSUME NEW published \in [Nodes -> Nat]
      PROVE  /\ ShowPreviews(s, published, Nodes) \in State
             /\ ShowPreviews(s, published, Nodes).compiled = s.compiled
  <2>. DEFINE previews == [n \in Nodes |->
        IF n \notin Nodes THEN 0
        ELSE IF published[n] # 0 /\ n \in NodesIn(s.compiled) THEN published[n]
        ELSE s.previews[n]]
  <2>1. s.previews \in [Nodes -> Nat]
    BY DEF State
  <2>2. previews \in [Nodes -> Nat]
    BY <2>1
  <2>3. ShowPreviews(s, published, Nodes) = [s EXCEPT !.previews = previews]
    BY DEF ShowPreviews
  <2>. HIDE DEF previews
  <2>. QED  BY <2>2, <2>3 DEF State
<1>. QED  BY <1>1, <1>2, <1>3

\* A frame shows what every post would have shown.
LEMMA DrainFolds ==
    ASSUME IInv, DrainReports
    PROVE  /\ state' = Fold(state, posted) /\ state' \in State
           /\ state'.compiled = Shown(installed)
<1>1. /\ state \in State /\ reports \in Seq(Report) /\ posted \in Seq(Report)
      /\ superseded \in Nat
      /\ Fold(Counting(state, superseded), reports) = Fold(state, posted)
      /\ Fold(state, reports).compiled = Shown(installed)
  BY DEF IInv, Typed, FoldsAsPosted, EditorCatchesUp
<1>2. state' = Fold(Counting(state, superseded), reports)
  BY DEF DrainReports, Counting
<1>3. Fold(Counting(state, superseded), reports) = Counting(Fold(state, reports), superseded)
  BY <1>1, FoldCounting
<1>4. Counting(Fold(state, reports), superseded).compiled = Fold(state, reports).compiled
  <2>1. Fold(state, reports) \in State
    BY <1>1, FoldIsState
  <2>. QED  BY <2>1 DEF Counting, State
<1>5. state' \in State
  BY <1>1, <1>2, FoldIsState
<1>. QED  BY <1>1, <1>2, <1>3, <1>4, <1>5

\* What the editor does is one of three things.
LEMMA ChangeKinds ==
    ASSUME IInv, Editor
    PROVE  \/ DrainReports
           \/ /\ posted = <<>> /\ reports = <<>> /\ superseded = 0
              /\ UNCHANGED <<workerVars, boxVars>>
              /\ \/ state' = Emptied(state)
                 \/ \E evicted \in SUBSET Nodes : state' = ClearProjections(state, evicted)
                 \/ \E n \in Nodes, r \in 1..MaxRuns :
                       state' = ShowPreviews(state, [m \in Nodes |-> IF m = n THEN r ELSE 0], Nodes)
<1>. USE DEF Change
<1>0. posted = <<>> => reports = <<>> /\ superseded = 0
  BY DEF IInv, FoldsAsPosted
<1>1. CASE SwapDocument
  BY <1>0, <1>1 DEF SwapDocument
<1>2. ASSUME NEW n \in Nodes, EvictNode(n)
      PROVE  /\ posted = <<>> /\ UNCHANGED <<workerVars, boxVars>>
             /\ \E evicted \in SUBSET Nodes : state' = ClearProjections(state, evicted)
  BY <1>2 DEF EvictNode
<1>3. ASSUME NEW n \in Nodes, ShowPreview(n)
      PROVE  /\ posted = <<>> /\ UNCHANGED <<workerVars, boxVars>>
             /\ \E l \in Nodes, r \in 1..MaxRuns :
                   state' = ShowPreviews(state, [m \in Nodes |-> IF m = l THEN r ELSE 0], Nodes)
  <2>1. run \in 1..MaxRuns
    BY <1>3, BoundsAssumption DEF ShowPreview, IInv, Typed, RunsAreOfAProgram
  <2>2. state' = ShowPreviews(state, [m \in Nodes |-> IF m = n THEN run ELSE 0], Nodes)
    BY <1>3 DEF ShowPreview
  <2>. QED  BY Zenon, <1>3, <2>1, <2>2 DEF ShowPreview
<1>. QED  BY <1>0, <1>1, <1>2, <1>3 DEF Editor

-----------------------------------------------------------------------------
(* The theorems *)

\* The first state is one of the invariant.
LEMMA IInvStarts == Init => IInv
<1>. SUFFICES ASSUME Init PROVE IInv
  OBVIOUS
<1>1. BlankState \in State /\ BlankState.compiled = None
  <2>1. [n \in Nodes |-> NoNode] \in [Nodes -> NodeState] /\ [n \in Nodes |-> 0] \in [Nodes -> Nat]
    BY DEF NodeState, NoNode, Unrun
  <2>. QED  BY <2>1 DEF State, BlankState, Activities
<1>2. Typed
  <2>1. <<>> \in Seq(Report)
    OBVIOUS
  <2>2. DOMAIN invoked = {}
    BY DEF Init
  <2>. QED  BY <1>1, <2>1, <2>2 DEF Init, Typed
<1>3. RunsAreOfAProgram
  BY BoundsAssumption DEF Init, RunsAreOfAProgram
<1>4. FoldsAsPosted
  BY <1>1, EmptyBox DEF Init, FoldsAsPosted
<1>5. EditorCatchesUp
  BY <1>1, EmptyBox, NodesOfPrograms DEF Init, EditorCatchesUp
<1>6. RecentIsSparse
  <2>1. 1..Len(Recent(reports)) = {}
    BY <1>1, EmptyBox DEF Init
  <2>. QED  BY Zenon, <2>1 DEF RecentIsSparse, SparseIn, ProgressIsOfTheRun
<1>. QED  BY <1>2, <1>3, <1>4, <1>5, <1>6 DEF IInv

\* And every step keeps it.
LEMMA IInvSteps == IInv /\ [Next]_vars => IInv'
<1>. SUFFICES ASSUME IInv, [Next]_vars PROVE IInv'
  OBVIOUS
<1>1. CASE Worker
  <2>1. Spoken /\ WorkerTyped' /\ RunsAreOfAProgram'
    BY <1>1, WorkerSays DEF IInv
  <2>2. PICK r : Says(r)
    BY <2>1 DEF Spoken
  <2>3. /\ reports' \in Seq(Report) /\ posted' \in Seq(Report) /\ superseded' \in Nat
        /\ state' \in State /\ FoldsAsPosted'
    BY <2>2, SaidFolds
  <2>4. Typed'
    BY <2>1, <2>3 DEF Typed, WorkerTyped
  <2>. QED  BY <2>1, <2>2, <2>3, <2>4, SaidIsAcknowledged, SaidIsSparse DEF IInv
<1>2. CASE Editor
  <2>1. CASE DrainReports
    BY <2>1, DrainFolds, EmptyBoxHolds DEF DrainReports
  <2>2. CASE ~DrainReports
    <3>1. /\ posted = <<>> /\ reports = <<>> /\ superseded = 0
          /\ UNCHANGED <<workerVars, boxVars>>
          /\ \/ state' = Emptied(state)
             \/ \E evicted \in SUBSET Nodes : state' = ClearProjections(state, evicted)
             \/ \E n \in Nodes, r \in 1..MaxRuns :
                   state' = ShowPreviews(state, [m \in Nodes |-> IF m = n THEN r ELSE 0], Nodes)
      BY <1>2, <2>2, ChangeKinds
    <3>2. state \in State /\ state.compiled = Shown(installed)
      BY <3>1, EmptyBox DEF IInv, Typed, EditorCatchesUp
    <3>3. \A n \in Nodes, r \in 1..MaxRuns :
             [m \in Nodes |-> IF m = n THEN r ELSE 0] \in [Nodes -> Nat]
      OBVIOUS
    <3>4. state' \in State /\ state'.compiled = state.compiled
      BY <3>1, <3>2, <3>3, EditsKeepTheProgram
    <3>. QED  BY <3>1, <3>2, <3>4, EmptyBoxHolds DEF boxVars
  <2>. QED  BY <2>1, <2>2
<1>3. CASE UNCHANGED vars
  <2>1. UNCHANGED <<phase, installed, held, run, invoked, reports, superseded, state, posted>>
    BY <1>3 DEF vars, workerVars, boxVars, editorVars
  <2>2. Typed' /\ RunsAreOfAProgram' /\ FoldsAsPosted'
    BY <2>1 DEF IInv, Typed, RunsAreOfAProgram, FoldsAsPosted
  <2>3. EditorCatchesUp'
    BY <2>1 DEF IInv, EditorCatchesUp, Shown
  <2>4. RecentIsSparse'
    BY <2>1 DEF IInv, RecentIsSparse, ProgressIsOfTheRun
  <2>. QED  BY <2>2, <2>3, <2>4 DEF IInv
<1>. QED  BY <1>1, <1>2, <1>3 DEF Next

(* The mailbox stays well-typed, a run is of a program, the box folds as the *)
(* posts do, the editor catches up, and the recent reports stay sparse.       *)
THEOREM MailboxHolds == Spec => []IInv
<1>1. Init => IInv
  BY IInvStarts
<1>2. IInv /\ [Next]_vars => IInv'
  BY IInvSteps
<1>. QED  BY <1>1, <1>2, PTL DEF Spec

\* At most one of what there is at most one of.
LEMMA AtMostOne ==
    ASSUME NEW S, \A x, y \in S : x = y
    PROVE  Cardinality(S) <= 1
<1>1. CASE S = {}
  BY <1>1, FS_EmptySet
<1>2. CASE S # {}
  <2>1. PICK x \in S : TRUE
    BY <1>2
  <2>2. S = {x}
    BY <2>1
  <2>. QED  BY <2>2, FS_Singleton
<1>. QED  BY <1>1, <1>2

(* Back to the last structural report the box holds at most one Activity,    *)
(* one Completed, one run error, and the progress of one run after both:      *)
(* what a frame late by any number of reports still has to fold is bounded.   *)
THEOREM MailboxIsBounded == Spec => []BoxIsBounded
<1>1. ASSUME IInv PROVE BoxIsBounded
  <2>. DEFINE R == Recent(reports)
              At(type) == {i \in DOMAIN R : R[i].type = type}
  <2>1. /\ R \in Seq(Report) /\ SparseIn(R) /\ ProgressIsOfTheRun(R)
    BY <1>1, RecentParts DEF IInv, Typed, RecentIsSparse
  <2>. HIDE DEF R
  <2>2. DOMAIN R = 1..Len(R)
    BY <2>1, ReportAt
  <2>3. ASSUME NEW type \in {"Activity", "Completed", "ExecError"}
        PROVE  Cardinality(At(type)) <= 1
    <3>1. \A i, j \in At(type) : i = j
      BY <2>1, <2>2 DEF SparseIn
    <3>. HIDE DEF At
    <3>. QED  BY <3>1, AtMostOne
  <2>4. \A i \in At("Progress"), j \in At("Completed") \cup At("ExecError") : j < i
    BY <2>1, <2>2 DEF SparseIn
  <2>5. \A i, j \in At("Progress") : R[i].run = R[j].run
    BY <2>1, <2>2 DEF ProgressIsOfTheRun
  <2>. QED  BY Zenon, <2>3, <2>4, <2>5 DEF BoxIsBounded, R
<1>2. IInv => BoxIsBounded
  BY <1>1
<1>. QED  BY <1>2, MailboxHolds, PTL

(* Whenever a frame folds the box, each node named is of the program then    *)
(* acknowledged: the assertions of apply_report hold, and merging moves no    *)
(* report across the install it is about.                                     *)
THEOREM MailboxIsAcknowledged == Spec => []ReportsAreAcknowledged
<1>1. IInv => ReportsAreAcknowledged
  BY DEF IInv, EditorCatchesUp, ReportsAreAcknowledged
<1>. QED  BY <1>1, MailboxHolds, PTL

-----------------------------------------------------------------------------
(* The mailbox implements the queue that keeps every report *)

\* The queue folds as the mailbox does.
LEMMA QueueFolds ==
    ASSUME NEW s, NEW q
    PROVE  Queue!Fold(s, q) = Fold(s, q)
BY Zenon DEF Fold, FoldLeft, MapThenFoldSet, Max, ApplyReport, Emptied, ApplyProgress,
             ReplaceResults, NoNode,
             Queue!Fold, Queue!FoldLeft, Queue!MapThenFoldSet, Queue!Max, Queue!ApplyReport,
             Queue!Emptied, Queue!ApplyProgress, Queue!ReplaceResults, Queue!NoNode

\* And edits as the editor does.
LEMMA QueueEdits ==
    /\ Queue!BlankState = BlankState
    /\ \A s : Queue!Emptied(s) = Emptied(s)
    /\ \A s, evicted : Queue!ClearProjections(s, evicted) = ClearProjections(s, evicted)
    /\ \A s, published, inDocument :
          Queue!ShowPreviews(s, published, inDocument) = ShowPreviews(s, published, inDocument)
BY Zenon DEF BlankState, NoNode, Emptied, ClearProjections, ShowPreviews, NodesIn,
             Queue!BlankState, Queue!NoNode, Queue!Emptied, Queue!ClearProjections,
             Queue!ShowPreviews, Queue!NodesIn

\* A report posted is one report more in the queue.
LEMMA SaidIsPosted ==
    ASSUME IInv, NEW r, Says(r)
    PROVE  Queue!Post
<1>1. posted \in Seq(Report) /\ r \in Report /\ posted' = Append(posted, r) /\ state' = state
  BY DEF IInv, Typed, Says, PostReport, editorVars
<1>2. posted' # <<>> /\ posted = SubSeq(posted', 1, Len(posted') - 1)
  BY <1>1
<1>. QED  BY <1>1, <1>2, Zenon DEF Queue!Post, Front, Queue!Front

(* Merging shows in no frame: every behaviour of the mailbox is one of the   *)
(* queue that drops nothing, the count of the runs that ended included.       *)
THEOREM MailboxImplementsQueue == Spec => MergeIsInvisible
<1>1. Init => Queue!Init
  BY QueueEdits DEF Init, Queue!Init
<1>2. IInv /\ [Next]_vars => [Queue!Next]_<<posted, state>>
  <2>. SUFFICES ASSUME IInv, [Next]_vars PROVE [Queue!Next]_<<posted, state>>
    OBVIOUS
  <2>1. CASE Worker
    <3>1. Spoken
      BY <2>1, WorkerSays DEF IInv
    <3>2. PICK r : Says(r)
      BY <3>1 DEF Spoken
    <3>. QED  BY <3>2, SaidIsPosted DEF Queue!Next
  <2>2. CASE Editor
    <3>1. CASE DrainReports
      <4>1. state' = Queue!Fold(state, posted) /\ posted' = <<>>
        BY <3>1, DrainFolds, QueueFolds DEF DrainReports
      <4>. QED  BY <4>1 DEF Queue!Next, Queue!Drain
    <3>2. CASE ~DrainReports
      <4>1. /\ UNCHANGED posted
            /\ \/ state' = Emptied(state)
               \/ \E evicted \in SUBSET Nodes : state' = ClearProjections(state, evicted)
               \/ \E n \in Nodes, r \in 1..MaxRuns :
                     state' = ShowPreviews(state, [m \in Nodes |-> IF m = n THEN r ELSE 0], Nodes)
        BY <2>2, <3>2, ChangeKinds DEF boxVars
      <4>2. Queue!Editor
        BY Zenon, <4>1, QueueEdits DEF Queue!Editor
      <4>. QED  BY <4>2 DEF Queue!Next
    <3>. QED  BY <3>1, <3>2
  <2>3. CASE UNCHANGED vars
    BY <2>3 DEF vars, boxVars, editorVars
  <2>. QED  BY <2>1, <2>2, <2>3 DEF Next
<1>3. Spec => Queue!Spec
  BY <1>1, <1>2, MailboxHolds, PTL DEF Spec, Queue!Spec
<1>. QED  BY <1>3 DEF MergeIsInvisible
=============================================================================
