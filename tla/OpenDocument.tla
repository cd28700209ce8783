---------------------------- MODULE OpenDocument ----------------------------
(***************************************************************************)
(* The document being edited (src/darkroom/src/core/open_document): the    *)
(* requests a frame raises against it, the commit that lands them, undo    *)
(* and redo, save and load.  One thread does it all; what interleaves is   *)
(* the order of frames, chords and gestures.                               *)
(*                                                                         *)
(* A commit is one step up to a cancel in its batch, which takes two more: *)
(* what is before it is recorded, the gesture is withdrawn, and the rest   *)
(* follows.  The file behind the document, and the node set that the       *)
(* caches keyed by the graph revision were last told of, are state too.    *)
(***************************************************************************)
EXTENDS CanvasGestures, UndoHistory, DocumentLoad

CONSTANTS
    Files,           \* what the file may hold when the program first opens it
    EditsFrom,       \* [Files -> Nat], the edits and saves after opening each
    Libraries,       \* the libraries a launch may find
    MaxFrames,       \* frames a held gesture raises after it latched
    Values           \* the const and node values an edit writes

ASSUME FilesAssumption == \A doc \in Files : IsDocument(doc)
ASSUME LibrariesAssumption == \A lib \in Libraries : lib \subseteq NodeIds

VARIABLES
    document,        \* OpenDocument::document
    dirty,           \* OpenDocument::dirty
    history,         \* OpenDocument::history
    stamp,           \* the node set when OpenDocument::revision last moved
    queue,           \* DocumentQueue::requests
    lastGesture,     \* DocumentQueue::last_gesture
    signals,         \* StepSignals of a commit a cancel cut in two
    committing,      \* such a commit is under way
    held,            \* {} or the canvas's held gesture
    line,            \* {} or what the tie line crosses
    file,            \* what is at OpenDocument::path
    library,         \* the library this session runs with
    minted,          \* ids given out, of nodes and ties
    left,            \* edits and saves still to come
    panicked         \* a malformed intent or a node out of the view crashed
                     \* the program

vars == <<document, dirty, history, stamp, queue, lastGesture, signals,
          committing, held, line, file, library, minted, left, panicked>>
surface == <<held, line, minted, lastGesture, left>>
disk == <<file, library>>

-----------------------------------------------------------------------------
(***************************************************************************)
(* StepSignals: what a commit or a replay owes those that read the         *)
(* document.                                                               *)
(***************************************************************************)
SignalsOf(steps) ==
    {s \in {"dirtied", "nodeSet"} :
        \E k \in DOMAIN steps : \/ s = "dirtied" /\ Dirties(steps[k])
                                \/ s = "nodeSet" /\ MovesNodeSet(steps[k])}
\* OpenDocument::land.
Land(folded) ==
    /\ dirty' = (dirty \/ "dirtied" \in folded)
    /\ stamp' = IF "nodeSet" \in folded THEN Ids(document') ELSE stamp

\* BatchGesture: the gestures the steps so far join, 0 for a step that joins
\* none.  It names the batch only while every step joins the same one.
And(gestures, joins) == gestures \cup (IF joins = {} THEN {0} ELSE joins)
Named(gestures) ==
    IF Cardinality(gestures) = 1 /\ 0 \notin gestures THEN gestures ELSE {}

\* One request of a batch that is no cancel.
JoinsOf(request) ==
    IF request.kind = "joins" THEN {request.gesture}
    ELSE GestureOf(request.intent)
Batch(doc) == [doc |-> doc, steps |-> <<>>, gestures |-> {}, panicked |-> FALSE]
Crash(batch) == [batch EXCEPT !.panicked = TRUE]
LandGraph(batch, request) ==
    LET landed == CommitIntent(request.intent, batch.doc)
    IN  [batch EXCEPT
            !.doc = landed.doc,
            !.steps = @ \o landed.steps,
            !.gestures = IF landed.steps = <<>> THEN @
                        ELSE And(@, JoinsOf(request))]
LandView(batch, request) ==
    [batch EXCEPT !.doc.tabs = IF request.shows THEN @ \cup {request.node}
                               ELSE @ \ {request.node}]
LandRequest(batch, request) ==
    IF batch.panicked THEN batch
    ELSE IF request.kind = "view" THEN LandView(batch, request)
    ELSE IF \/ IsMalformed(request.intent, batch.doc, library)
            \/ IsUnplaced(request.intent, batch.doc)
    THEN Crash(batch)
    ELSE LandGraph(batch, request)
LandAll(doc, requests) == FoldLeft(LandRequest, Batch(doc), requests)

-----------------------------------------------------------------------------
(***************************************************************************)
(* OpenDocument::commit.                                                   *)
(***************************************************************************)
Cancels(requests) == {k \in DOMAIN requests : requests[k].kind = "cancel"}
Record(batch) ==
    /\ document' = batch.doc
    /\ history' = Push(history, batch.steps, Named(batch.gestures))
    /\ panicked' = batch.panicked

Commit ==
    /\ ~panicked /\ (queue # <<>> \/ committing)
    /\ Cancels(queue) = {}
    /\ \E batch \in {LandAll(document, queue)} :
          /\ Record(batch)
          /\ Land(signals \cup SignalsOf(batch.steps))
    /\ queue' = <<>> /\ signals' = {} /\ committing' = FALSE
    /\ UNCHANGED <<surface, disk>>

\* The batch before a cancel is an entry of its own.
CommitToCancel ==
    /\ ~panicked
    /\ Cancels(queue) # {} /\ 1 \notin Cancels(queue)
    /\ LET k == CHOOSE c \in Cancels(queue) : \A d \in Cancels(queue) : c <= d
       IN  /\ \E batch \in {LandAll(document, SubSeq(queue, 1, k - 1))} :
                 /\ Record(batch)
                 /\ signals' = signals \cup SignalsOf(batch.steps)
           /\ queue' = SubSeq(queue, k, Len(queue))
    /\ committing' = TRUE
    /\ UNCHANGED <<dirty, stamp, surface, disk>>
\* The gesture's open entry is taken back, or, when it is not the open one,
\* the intent that puts back what it can joins the gesture.
WithdrawGesture ==
    /\ ~panicked
    /\ 1 \in Cancels(queue)
    /\ IsOpenFor(history, Head(queue).gesture)
    /\ \E taken \in {Withdraw(history, document, Head(queue).gesture)} :
          /\ document' = taken.doc /\ history' = taken.history
          /\ signals' = signals \cup SignalsOf(taken.replayed)
    /\ queue' = Tail(queue) /\ committing' = TRUE
    /\ UNCHANGED <<dirty, stamp, surface, disk, panicked>>
WithdrawNothing ==
    /\ ~panicked
    /\ 1 \in Cancels(queue)
    /\ ~IsOpenFor(history, Head(queue).gesture)
    /\ queue' = <<InGesture(Head(queue).gesture, Head(queue).otherwise)>>
                    \o Tail(queue)
    /\ committing' = TRUE
    /\ UNCHANGED <<document, dirty, history, stamp, signals, surface, disk,
                   panicked>>

\* OpenDocument::undo and redo, one chord read at the top of a frame.  The tie
\* line still crosses what it crossed when the frame before drew it: the frame's
\* input releases it so, or its record draws it again.
Spend == left > 0 /\ left' = left - 1
AtRest == queue = <<>> /\ ~committing /\ ~panicked
Replays(answer) ==
    /\ document' = answer.doc /\ history' = answer.history
    /\ Land(SignalsOf(answer.replayed))
    /\ line' = {Crossing(l.wires, l.tie, TRUE) : l \in line}
    /\ UNCHANGED <<queue, signals, committing, held, minted, lastGesture, left,
                   disk, panicked>>
ChordsRead == AtRest /\ \A l \in line : ~l.stale
UndoChord ==
    /\ ChordsRead
    /\ \E answer \in {Undo(history, document)} : Replays(answer)
RedoChord ==
    /\ ChordsRead
    /\ \E answer \in {Redo(history, document)} : Replays(answer)

\* OpenDocument::save_to; a save that fails changes nothing.
Save ==
    /\ AtRest /\ Spend
    /\ file' = document /\ dirty' = FALSE
    /\ UNCHANGED <<document, history, stamp, queue, signals, committing,
                   held, line, minted, lastGesture, library, panicked>>
\* OpenDocument::load at a launch, whose library may be another, and in a
\* fresh UI.  A launch may follow a crash, which loses what was not saved.
Opens(doc, lib) ==
    \E load \in {Reconcile(doc, lib)} :
        /\ document' = load.doc
        /\ dirty' = (load.repairs # {})
        /\ stamp' = Ids(load.doc)
Load ==
    /\ AtRest \/ panicked
    /\ \E lib \in Libraries : Opens(file, lib) /\ library' = lib
    /\ history' = NewHistory
    /\ queue' = <<>> /\ signals' = {} /\ committing' = FALSE
    /\ held' = {} /\ line' = {} /\ panicked' = FALSE
    /\ UNCHANGED <<minted, lastGesture, file, left>>

-----------------------------------------------------------------------------
(***************************************************************************)
(* The canvas: one group of requests of the pointer a frame, and after it  *)
(* the keys, both read off the document the frame began with.              *)
(***************************************************************************)
Raise(requests) ==
    /\ queue' = queue \o requests
    /\ UNCHANGED <<document, dirty, history, stamp, signals, committing, disk,
                   panicked>>
Free == AtRest /\ held = {} /\ line = {}
FreshNodes == (NodeIds \cap library) \ minted.nodes
FreshTies == TieIds \ minted.ties
Minted(nodes, ties) ==
    minted' = [nodes |-> minted.nodes \cup nodes, ties |-> minted.ties \cup ties]

AllItems(doc) ==
    {NodeItem(n) : n \in DOMAIN doc.place} \cup {TieItem(t) : t \in DOMAIN doc.ties}
InputEdits(doc) ==
    {[op |-> "setInput", input |-> i, to |-> b] :
        i \in UNION {DeclaredInputs(n) : n \in DOMAIN doc.nodes},
        b \in {{}} \cup {{Const(v)} : v \in Values}
                \cup {{Wire(n)} : n \in DOMAIN doc.nodes}}
Admitted(intent) == \A b \in intent.to : Admits(intent.input, b)
\* What a click, a rubber band, a menu pick or a widget of a node asks for.
Edits(doc) ==
    {ClickOn(item) : item \in AllItems(doc)}
    \cup {<<[op |-> "setSelection", to |-> AllItems(doc)]>>}
    \cup {<<e>> : e \in {x \in InputEdits(doc) : Admitted(x)}}
    \cup {<<[op |-> "setSubscription", emitter |-> s[1], subscriber |-> s[2],
             to |-> s \notin doc.subs]>> :
            s \in {p \in (DOMAIN doc.nodes) \X (DOMAIN doc.nodes) :
                      AdmitsSub(p[1], p[2])}}
    \cup {<<[op |-> "setValue", id |-> n, to |-> v]>> :
            n \in DOMAIN doc.nodes, v \in Values}
    \cup {<<[op |-> "releaseWire", tie |-> w[1], wire |-> w[2]]>> :
            w \in {p \in (DOMAIN doc.ties) \X (DOMAIN doc.routes) :
                      p[1] \in ToSet(doc.routes[p[2]])}}
    \cup {<<[op |-> "setTieAngle", tie |-> t, angle |-> "auto",
             gesture |-> {}]>> : t \in DOMAIN doc.ties}
EditGraph ==
    /\ Free /\ Spend
    /\ \E intents \in Edits(document) : Raise(Graphs(intents))
    /\ UNCHANGED <<held, line, minted, lastGesture>>
ShowTab ==
    /\ Free /\ Spend
    /\ \E n \in DOMAIN document.nodes \cap Previews :
          Raise(<<View(n \notin document.tabs, n)>>)
    /\ UNCHANGED <<held, line, minted, lastGesture>>
\* The breaker cuts across a node, a wire and a subscription, or some of them.
AtMostOne(set) == {s \in SUBSET set : Cardinality(s) <= 1}
WiredInputs(doc) == {i \in DOMAIN doc.bindings : IsWire(doc.bindings[i])}
BreakAcross ==
    /\ Free /\ Spend
    /\ \E nodes \in AtMostOne(DOMAIN document.place),
          inputs \in AtMostOne(WiredInputs(document)),
          subs \in AtMostOne(document.subs) :
          Raise(Graphs(Severed(nodes, inputs, subs)))
    /\ UNCHANGED <<held, line, minted, lastGesture>>
\* The camera moves ahead of whatever else the frame raises.
MoveCamera ==
    /\ AtRest /\ line = {} /\ Spend
    /\ Raise(<<Graph([op |-> "setViewport", to |-> 1])>>)
    /\ UNCHANGED <<held, line, minted, lastGesture>>
OfCamera(request) ==
    request.kind = "graph" /\ request.intent.op = "setViewport"
FrameStarts ==
    ~committing /\ ~panicked /\ \A k \in DOMAIN queue : OfCamera(queue[k])
\* A node picked from the palette.
AddNode ==
    /\ Free /\ Spend
    /\ \E n \in FreshNodes :
          /\ Raise(<<Graph([op |-> "addNode", id |-> n, pos |-> 0,
                            bindings |-> [i \in {j \in DeclaredInputs(n) :
                                                    Unwired(j) # {}} |->
                                CHOOSE b \in Unwired(i) : TRUE]])>>)
          /\ Minted({n}, {})
    /\ UNCHANGED <<held, line, lastGesture>>

\* The Delete and Duplicate chords, after what a held gesture raised.
OfGesture(request) ==
    \/ request.kind \in {"joins", "cancel"}
    \/ request.kind = "graph" /\ GestureOf(request.intent) # {}
KeysFollow ==
    /\ ~committing /\ ~panicked /\ line = {}
    /\ \A k \in DOMAIN queue : OfGesture(queue[k]) \/ OfCamera(queue[k])
DeleteSelection ==
    /\ KeysFollow /\ Spend
    /\ document.selected # {} /\ Raise(Graphs(RemoveSelection(document)))
    /\ UNCHANGED <<held, line, minted, lastGesture>>
Alike(n, m) ==
    /\ InputsOf[n] = InputsOf[m]
    /\ (n \in Emitters) = (m \in Emitters) /\ (n \in Previews) = (m \in Previews)
Copied(doc) == SelectedNodes(doc) \cap DOMAIN doc.nodes
DuplicateSelection(keep) ==
    /\ KeysFollow /\ Spend /\ Copied(document) # {}
    /\ \E clones \in [Copied(document) -> FreshNodes],
          tied \in [TiesWithin(document, Copied(document)) -> FreshTies] :
          /\ IsInjective(clones) /\ \A n \in DOMAIN clones : Alike(n, clones[n])
          /\ IsInjective(tied)
          /\ Raise(Graphs(Duplicate(document, clones, tied, keep)))
          /\ Minted(Range(clones), Range(tied))
    /\ UNCHANGED <<held, line, lastGesture>>
DuplicateChord == DuplicateSelection(FALSE)
\* The node menu's second pick, which keeps the wires from outside.
DuplicatePick == Free /\ DuplicateSelection(TRUE)

-----------------------------------------------------------------------------
(***************************************************************************)
(* Held gestures.                                                          *)
(***************************************************************************)
Gesture == lastGesture + 1

OpensGesture == lastGesture' = Gesture

\* A press on a node or a tie latches the group drag and raises its first
\* frame.
GrabItem ==
    /\ Free /\ Spend /\ OpensGesture
    /\ \E item \in AllItems(document) :
          LET anchor == GroupAnchor(item, GrabMembers(document, item),
                                    Gesture, MaxFrames)
          IN  /\ held' = {anchor}
              /\ Raise(InGestures(Gesture, GrabJoins(document, item))
                           \o <<Graph(MoveFrame(anchor, 1))>>)
    /\ UNCHANGED <<line, minted>>
\* preview_drag::start: the node a drag off an output spawns is what it drags.
GrabSpawn ==
    /\ Free /\ Spend /\ OpensGesture
    /\ \E n \in FreshNodes \cap Previews, output \in DOMAIN document.nodes :
          LET item   == NodeItem(n)
              pos    == document.place[output].pos
              anchor == GroupAnchor(item, [i \in {item} |-> pos], Gesture,
                                    MaxFrames)
          IN  /\ <<<<n, 0>>, output>> \in Takes
              /\ held' = {anchor}
              /\ Raise(InGestures(Gesture, Spawn(n, pos, output))
                           \o <<Graph(MoveFrame(anchor, 1))>>)
              /\ Minted({n}, {})
    /\ UNCHANGED line
GrabKnob ==
    /\ Free /\ Spend /\ OpensGesture
    /\ \E t \in DOMAIN document.ties :
          /\ TieItem(t) \in document.selected
          /\ held' = {KnobAnchor(document, t, Gesture, MaxFrames)}
    /\ Raise(<<>>)
    /\ UNCHANGED <<line, minted>>

\* A frame of the held gesture, unless what it holds has left the view.
Moves(anchor) ==
    IF anchor.drag = "group" THEN {MoveFrame(anchor, d) : d \in 0..2}
    ELSE {TurnFrame(anchor, a) : a \in {"pinned", "turned"}}
HoldGesture ==
    /\ FrameStarts
    /\ \E anchor \in held :
          /\ Holds(document, anchor.item) /\ anchor.frames > 0
          /\ held' = {[anchor EXCEPT !.frames = @ - 1]}
          /\ \E frame \in Moves(anchor) : Raise(<<Graph(frame)>>)
    /\ UNCHANGED <<line, minted, lastGesture, left>>
\* Its release, its item gone, or the canvas out of sight.
DropGesture ==
    /\ FrameStarts /\ held # {}
    /\ held' = {} /\ Raise(<<>>)
    /\ UNCHANGED <<line, minted, lastGesture, left>>
\* Esc.  A group drag takes its entry back; a knob puts its angle back.
EscapeDrag ==
    /\ FrameStarts
    /\ \E anchor \in held :
          /\ anchor.drag = "group" /\ Holds(document, anchor.item)
          /\ Raise(<<Cancel(anchor.gesture, MoveFrame(anchor, 0))>>)
    /\ held' = {}
    /\ UNCHANGED <<line, minted, lastGesture, left>>
EscapeKnob ==
    /\ FrameStarts
    /\ \E anchor \in held :
          /\ anchor.drag = "knob"
          /\ Raise(<<Graph(TurnFrame(anchor, anchor.from))>>)
    /\ held' = {}
    /\ UNCHANGED <<line, minted, lastGesture, left>>

\* The tie line is drawn across some wires and ties, again after a chord, and
\* released a frame later over what it crossed then.
DrawLine ==
    /\ AtRest /\ held = {} /\ left > 0 /\ \A l \in line : l.stale
    /\ \E crossed \in SUBSET WiresOf(document.bindings, document.subs),
          tie \in {{}} \cup {{t} : t \in DOMAIN document.ties} :
       \E pieces \in [crossed -> 0..Cardinality(TieIds)] :
          /\ crossed # {}
          /\ \A w \in crossed : pieces[w] <= Len(RouteIn(document, w))
          /\ line' = {Crossing(pieces, tie, FALSE)}
    /\ Raise(<<>>)
    /\ UNCHANGED <<held, minted, lastGesture, left>>
ReleaseLine ==
    /\ AtRest /\ Spend
    /\ \E l \in line, t \in FreshTies :
          /\ Raise(Graphs(ReleasedLine(document, l, t)))
          /\ Minted({}, {t})
    /\ line' = {}
    /\ UNCHANGED <<held, lastGesture>>
\* Esc drops the line.
DropLine ==
    /\ AtRest /\ line # {}
    /\ line' = {} /\ Raise(<<>>)
    /\ UNCHANGED <<held, minted, lastGesture, left>>

Init ==
    /\ file \in Files /\ library \in Libraries
    /\ document = Reconcile(file, library).doc
    /\ dirty = (Reconcile(file, library).repairs # {})
    /\ stamp = Ids(document)
    /\ history = NewHistory
    /\ queue = <<>> /\ signals = {} /\ committing = FALSE
    /\ held = {} /\ line = {} /\ lastGesture = 0
    /\ minted = [nodes |-> DOMAIN file.nodes \cup DOMAIN file.stubs,
                 ties |-> DOMAIN file.ties]
    /\ left = EditsFrom[file]
    /\ panicked = FALSE

Lands == Commit \/ CommitToCancel \/ WithdrawGesture \/ WithdrawNothing
Chords == UndoChord \/ RedoChord \/ DeleteSelection \/ DuplicateChord
Pointer ==
    \/ EditGraph \/ BreakAcross \/ ShowTab \/ AddNode \/ DuplicatePick
    \/ MoveCamera
    \/ GrabItem \/ GrabSpawn \/ GrabKnob
    \/ HoldGesture \/ DropGesture \/ EscapeDrag \/ EscapeKnob
    \/ DrawLine \/ ReleaseLine \/ DropLine
Next == Lands \/ Chords \/ Pointer \/ Save \/ Load

Spec == Init /\ [][Next]_vars

-----------------------------------------------------------------------------
(***************************************************************************)
(* Properties.                                                             *)
(***************************************************************************)
\* Every edit, replay and load leaves a document that Document::validate
\* accepts and a compile takes: no edge, route, tie, selection or tab names
\* what is gone, no data cycle closes, no node's func is missing.
DocumentIsSound ==
    IsValid(document) /\ Compiles(document) /\ DOMAIN document.nodes \subseteq library

\* The history's ranges, head, cursor and budget hold together (see
\* UndoHistory), whatever was sealed, withdrawn, evicted or cut back.
HistoryHolds == HistoryIsSound(history)

\* Undo and redo promise exactly what DocumentHistory says: each entry, a
\* folded gesture's too, gives back the document its change found.  Tabs and
\* the viewport are no part of it.
Core(doc) == [doc EXCEPT !.tabs = {}, !.viewport = 0]
Ungestured == Revert(OpenSteps(history), document)
PastOf(h, base) ==
    LET before[i \in 0..h.cursor] ==
            IF i = h.cursor THEN base ELSE Revert(Decode(h, i + 1), before[i + 1])
    IN  [i \in 1..h.cursor |-> Core(before[i - 1])]
            \o (IF h.open = {} THEN <<>> ELSE <<Core(base)>>)
FutureOf(h, doc) ==
    LET after[i \in h.cursor..Len(h.entries)] ==
            IF i = h.cursor THEN doc ELSE Apply(Decode(h, i), after[i - 1])
    IN  [k \in 1..(Len(h.entries) - h.cursor) |-> Core(after[h.cursor + k])]
History == INSTANCE DocumentHistory WITH
    doc      <- Core(document),
    past     <- PastOf(history, Ungestured),
    future   <- FutureOf(history, document),
    held     <- history.open # {},
    openable <- {Core(Reconcile(file, lib).doc) : lib \in Libraries}
UndoIsExact == History!Spec

\* A document that is not dirty holds what its file holds, but for where the
\* user was: the selection, the stacking, the tabs and the viewport.  And the
\* caches keyed by the graph revision were told of the last node that came or
\* went, whichever of a commit, an undo, a redo or an Esc moved it.
Content(doc) ==
    [nodes |-> doc.nodes, bindings |-> doc.bindings, subs |-> doc.subs,
     stubs |-> doc.stubs, ties |-> doc.ties, routes |-> doc.routes,
     pos |-> [n \in DOMAIN doc.place |-> doc.place[n].pos]]
FlagsFollowTheDocument ==
    ~committing =>
        /\ ~dirty => Content(document) = Content(file)
        /\ stamp = Ids(document)

\* What a save writes, the next launch of the same library opens as it is; and
\* a launch whose library lacks some funcs loses nothing of the graph: saved
\* from there, the next one with the full library has every node and wire.
GraphOf(doc) == <<doc.nodes, doc.bindings, doc.subs>>
SavesComeBack ==
    ~committing =>
        /\ Reconcile(document, library) = [doc |-> document, repairs |-> {}]
        /\ \A lib \in Libraries :
              GraphOf(Reconcile(Reconcile(document, lib).doc, library).doc)
                  = GraphOf(document)

\* A load loses no node, and no wire of the file it could have kept: one that
\* is gone though both its ends are there and take it closes a cycle.
LoadKeepsWhatItCan ==
    [][Load =>
        /\ Ids(file) = Ids(document')
        /\ \A i \in DOMAIN file.bindings \ DOMAIN document'.bindings :
              /\ EndsHeld(document', i, file.bindings[i])
              /\ Admits(i, file.bindings[i])
              => i[1] \in Upstream(document'.bindings, file.bindings[i][2])
      ]_vars

\* open_document/mod.rs:177-182: no request raised here is ever malformed.
NothingIsMalformed == ~panicked

\* The one request that is, is a tie line's, of a wire that has gone or that has
\* fewer pieces than when the line crossed it: nothing else a widget, a gesture
\* or a command raises crashes the program, whatever the frame's earlier requests
\* and the chords before it did (set_node.rs:54: nor does a node out of the view).
OutlivesItsWire(intent, doc) ==
    /\ intent.op \in {"tieWires", "joinTie"}
    /\ \E w \in DOMAIN intent.wires :
          \/ ~IsHeld(w, doc.bindings, doc.subs)
          \/ intent.wires[w] > Len(RouteIn(doc, w))
OnlyALineIsMalformed ==
    [][~panicked /\ panicked' =>
        \E k \in DOMAIN queue :
            queue[k].kind = "graph" /\ OutlivesItsWire(queue[k].intent, document)
      ]_vars

\* unwired.rs: an input whose wire goes, by a cut through it or through the
\* node that fed it, holds its declared default.  Only an input that the same
\* stroke clears behind the removal of the node that fed it holds nothing.
Severs(request) ==
    /\ request.kind = "graph"
    /\ \/ request.intent.op \in {"removeNode", "removeTie"}
       \/ request.intent.op = "setInput" /\ request.intent.to = {}
       \/ request.intent.op = "setSubscription" /\ ~request.intent.to
Clears(intents, i) ==
    \E j, k \in DOMAIN intents :
        /\ j < k
        /\ intents[j].intent.op = "removeNode"
        /\ Wire(intents[j].intent.id) = document.bindings[i]
        /\ intents[k].intent.op = "setInput" /\ intents[k].intent.input = i
SeveredInputsShowDefaults ==
    [][Commit /\ (\A k \in DOMAIN queue : Severs(queue[k])) =>
        \A i \in WiredInputs(document) :
            i[1] \in DOMAIN document'.nodes /\ i \notin WiredInputs(document')
            => BindingOf(document', i) =
                   IF Clears(queue, i) THEN {} ELSE Unwired(i)
      ]_vars

=============================================================================
