---------------------------- MODULE GraphIntents ----------------------------
(***************************************************************************)
(* What a widget wants the graph to look like and how that lands           *)
(* (src/darkroom/src/core/edit/graph_intent/mod.rs).  An intent is a       *)
(* record whose `op` names the variant; it is forward only.  IntoStep      *)
(* reads what the intent overwrites out of the document and answers the    *)
(* step, or none for an intent gone stale; CommitIntent is                 *)
(* GraphIntent::commit.  IsMalformed is a payload that could never have    *)
(* applied, which the program answers with a panic.                        *)
(***************************************************************************)
EXTENDS UndoSteps

\* What an input holds once the wire into it goes.
Unwired(input) == DefaultOf[input]
BindingOf(doc, input) ==
    IF input \in DOMAIN doc.bindings THEN {doc.bindings[input]} ELSE {}

AddNodeStep(intent, doc) ==
    {[kind  |-> "node", edit |-> "insertion", ties |-> NoTies,
      entry |-> [id |-> intent.id, home |-> "graph", selected |-> FALSE,
                 place |-> [pos |-> intent.pos, z |-> FrontZ(doc)],
                 detached |-> [value |-> 0, bindings |-> intent.bindings,
                               subs |-> {}]]]}

RemoveNodeStep(intent, doc) ==
    {[kind  |-> "node", edit |-> "removal", entry |-> Capture(doc, n),
      ties  |-> Finish(doc, Release(doc, NewDraft,
                                    EntryWires(Capture(doc, n))))]
        : n \in {intent.id} \cap Ids(doc)}

\* A member whose item vanished mid-drag drops out of the move.
MoveSelectionStep(intent, doc) ==
    LET held == {item \in DOMAIN intent.members : Holds(doc, item)}
    IN  {[kind  |-> "positions",
          moves |-> [item \in held |->
                        Change(PosOf(doc, item),
                               intent.members[item] + intent.offset)]]}

\* Mutant: a wire cleared leaves its input empty.
WantedAsAsked(intent, doc) == intent.to

\* The binding a request asks for: clearing a wire leaves the default.
Wanted(intent, doc) ==
    IF /\ intent.to = {}
       /\ \E b \in BindingOf(doc, intent.input) : IsWire(b)
    THEN Unwired(intent.input) ELSE intent.to
\* A wire that leaves its output leaves its ties.
LeftWires(input, before, after) ==
    {DataWire(b[2], input) : b \in {x \in before : IsWire(x)} \ after}
SetInputStep(intent, doc) ==
    LET to   == Wanted(intent, doc)
        from == BindingOf(doc, intent.input)
        lands(b) == IsWire(b) =>
            /\ b[2] \in DOMAIN doc.nodes
            /\ ~ProducesCycle(doc, b[2], intent.input[1])
    IN  IF intent.input[1] \in DOMAIN doc.nodes /\ \A b \in to : lands(b)
        THEN {[kind |-> "input", input |-> intent.input,
               binding |-> Change(from, to),
               ties |-> Finish(doc, Release(doc, NewDraft,
                                   LeftWires(intent.input, from, to)))]}
        ELSE {}

SetSelectionStep(intent, doc) ==
    LET to == {item \in intent.to : Holds(doc, item)}
    IN  {[kind |-> "selection", toggled |-> Toggle(doc.selected, to)]}

RaiseStep(intent, doc) ==
    {[kind |-> "depth", id |-> n,
      z |-> Change(doc.place[n].z, RaisedZ(doc, n))]
        : n \in {intent.id} \cap DOMAIN doc.place}

SetValueStep(intent, doc) ==
    {[kind |-> "value", id |-> n, value |-> Change(doc.nodes[n], intent.to)]
        : n \in {intent.id} \cap DOMAIN doc.nodes}

SetSubscriptionStep(intent, doc) ==
    LET sub  == <<intent.emitter, intent.subscriber>>
        from == sub \in doc.subs
        gone == IF from /\ ~intent.to THEN {EventWire(sub[1], sub[2])} ELSE {}
    IN  IF intent.to => {sub[1], sub[2]} \subseteq DOMAIN doc.nodes
        THEN {[kind |-> "subscription", sub |-> sub,
               subscribed |-> Change(from, intent.to),
               ties |-> Finish(doc, Release(doc, NewDraft, gone))]}
        ELSE {}

\* insert_routes: the tie joins each wire's route at its crossed piece,
\* counted from the output end.
InsertRoutes(doc, draft, tie, wires) ==
    [draft EXCEPT !.routes =
        Merge(@, [w \in DOMAIN wires |->
                     InsertAt(DraftRoute(doc, draft, w), wires[w] + 1, tie)])]
TieWiresStep(intent, doc) ==
    LET placed == {[pos |-> intent.pos, angle |-> "auto"]}
    IN  {[kind |-> "ties",
          set |-> Finish(doc, InsertRoutes(doc,
                            SetTie(NewDraft, intent.tie, placed),
                            intent.tie, intent.wires))]}
JoinTieStep(intent, doc) ==
    {[kind |-> "ties",
      set |-> Finish(doc, InsertRoutes(doc, NewDraft, t, intent.wires))]
        : t \in {intent.tie} \cap DOMAIN doc.ties}
RemoveTieStep(intent, doc) ==
    {[kind |-> "ties", set |-> Finish(doc, RemoveTie(doc, NewDraft, t))]
        : t \in {intent.tie} \cap DOMAIN doc.ties}
SetTieAngleStep(intent, doc) ==
    {[kind |-> "ties",
      set |-> Finish(doc, SetTie(NewDraft, t,
                        {[doc.ties[t] EXCEPT !.angle = intent.angle]}))]
        : t \in {intent.tie} \cap DOMAIN doc.ties}
ReleaseWireStep(intent, doc) ==
    IF intent.tie \in ToSet(RouteIn(doc, intent.wire))
    THEN {[kind |-> "ties",
           set |-> Finish(doc, Leave(doc, NewDraft, {intent.wire},
                                     intent.tie))]}
    ELSE {}

IntoStep(intent, doc) ==
    CASE intent.op = "addNode"         -> AddNodeStep(intent, doc)
      [] intent.op = "removeNode"      -> RemoveNodeStep(intent, doc)
      [] intent.op = "moveSelection"   -> MoveSelectionStep(intent, doc)
      [] intent.op = "setInput"        -> SetInputStep(intent, doc)
      [] intent.op = "setSelection"    -> SetSelectionStep(intent, doc)
      [] intent.op = "raise"           -> RaiseStep(intent, doc)
      [] intent.op = "setValue"        -> SetValueStep(intent, doc)
      [] intent.op = "setSubscription" -> SetSubscriptionStep(intent, doc)
      [] intent.op = "tieWires"        -> TieWiresStep(intent, doc)
      [] intent.op = "joinTie"         -> JoinTieStep(intent, doc)
      [] intent.op = "removeTie"       -> RemoveTieStep(intent, doc)
      [] intent.op = "setTieAngle"     -> SetTieAngleStep(intent, doc)
      [] intent.op = "releaseWire"     -> ReleaseWireStep(intent, doc)

\* A route that cannot take the tie (WireAbsent, TieAlreadyOnRoute,
\* RouteIndexOutOfRange).
Misfits(doc, tie, wires) ==
    \E w \in DOMAIN wires :
        \/ ~IsHeld(w, doc.bindings, doc.subs)
        \/ tie \in ToSet(RouteIn(doc, w))
        \/ wires[w] > Len(RouteIn(doc, w))
\* seed_bindings: an insertion wires inputs of its own node, from nodes there,
\* as its declaration admits.
MisSeeds(doc, node, bindings) ==
    \E i \in DOMAIN bindings :
        LET b == bindings[i]
        IN  \/ i[1] # node
            \/ IsWire(b) /\ b[2] \notin (DOMAIN doc.nodes) \ {node}
            \/ ~Admits(i, b)
\* MalformedIntent, by the op that raises it: what could never have applied.
\* Admission is asked only of what is not stale, so of a step that would land.
\* Nil ids and angles out of range have no counterpart among the ids and angles
\* of the model, nor has an input seeded twice in a map.
IsMalformed(intent, doc, library) ==
    \/ /\ intent.op = "addNode"
       /\ \/ intent.id \in Ids(doc) \/ intent.id \notin library
          \/ intent.pos = NotFinite
          \/ MisSeeds(doc, intent.id, intent.bindings)
    \/ /\ intent.op = "moveSelection"
       /\ \E item \in DOMAIN intent.members :
             intent.members[item] + intent.offset = NotFinite
    \/ /\ intent.op = "setInput" /\ SetInputStep(intent, doc) # {}
       /\ \E b \in Wanted(intent, doc) : ~Admits(intent.input, b)
    \/ /\ intent.op = "setSubscription" /\ intent.to
       /\ SetSubscriptionStep(intent, doc) # {}
       /\ ~AdmitsSub(intent.emitter, intent.subscriber)
    \/ /\ intent.op = "tieWires"
       /\ \/ intent.tie \in DOMAIN doc.ties \/ intent.pos = NotFinite
          \/ intent.wires = Nothing
          \/ Misfits(doc, intent.tie, intent.wires)
    \/ /\ intent.op = "joinTie" /\ intent.tie \in DOMAIN doc.ties
       /\ Misfits(doc, intent.tie, intent.wires)
    \/ intent.op = "setViewport" /\ intent.to = NotFinite
\* NodeEntry::capture expects a placement of what it captures.
IsUnplaced(intent, doc) ==
    intent.op = "removeNode" /\ intent.id \in Ids(doc) \ DOMAIN doc.place

-----------------------------------------------------------------------------
(***************************************************************************)
(* GraphIntent::commit: build the step, drop a no-op, apply it, and after  *)
(* a removal give each input it fed its default back, as a step of its     *)
(* own.  Answers the document and the steps that landed, in order.         *)
(***************************************************************************)
LandStep(landed, step) ==
    IF IsNoop(step) THEN landed
    ELSE [doc   |-> Write(step, landed.doc, Forward),
          steps |-> Append(landed.steps, step)]
LandIntent(landed, intent) ==
    LET steps == IntoStep(intent, landed.doc)
    IN  IF steps = {} THEN landed
        ELSE LandStep(landed, CHOOSE s \in steps : TRUE)
Rewire(landed, input) ==
    IF Unwired(input) = {} THEN landed
    ELSE LandIntent(landed, [op |-> "setInput", input |-> input,
                             to |-> Unwired(input)])
CommitIntent(intent, doc) ==
    IF intent.op = "setViewport"
    THEN [doc |-> [doc EXCEPT !.viewport = intent.to], steps |-> <<>>]
    ELSE LET landed == LandIntent([doc |-> doc, steps |-> <<>>], intent)
             fed    == IF landed.steps = <<>> THEN {}
                       ELSE FedInputs(landed.steps[1])
         IN  FoldLeft(Rewire, landed, SetToSeq(fed))

\* The held gesture an intent is a frame of, if any.
GestureOf(intent) ==
    IF "gesture" \in DOMAIN intent THEN intent.gesture ELSE {}

-----------------------------------------------------------------------------
(***************************************************************************)
(* Editor commands built out of the vocabulary.                            *)
(***************************************************************************)
SelectedNodes(doc) == {i[2] : i \in {j \in doc.selected : j[1] = "node"}}
SelectedTies(doc) == {i[2] : i \in {j \in doc.selected : j[1] = "tie"}}
EachOf(ids, intent(_)) ==
    LET order == InIdOrder(ids) IN [k \in DOMAIN order |-> intent(order[k])]

\* GraphIntent::remove_selection: every node before every tie.
RemoveSelection(doc) ==
    EachOf(SelectedNodes(doc), LAMBDA n : [op |-> "removeNode", id |-> n])
    \o EachOf(SelectedTies(doc), LAMBDA t : [op |-> "removeTie", tie |-> t])
\* GraphIntent::click, of a replacing click on a node or a tie.
ClickOn(item) ==
    <<[op |-> "setSelection", to |-> {item}]>>
        \o (IF item[1] = "node" THEN <<[op |-> "raise", id |-> item[2]]>> ELSE <<>>)

\* GraphIntent::duplicate: `clones` names the copy of each selected node,
\* `tied` that of each tie within them.  A wire from outside the selection is
\* kept by a pick of the node menu, dropped by the chord.
IsInner(doc, input, clones) ==
    IsWire(doc.bindings[input]) /\ doc.bindings[input][2] \in DOMAIN clones
Seed(doc, input, keep) ==
    LET b == doc.bindings[input]
    IN  IF IsWire(b) /\ ~keep THEN Unwired(input) ELSE {b}
SeededInputs(doc, clones, keep) ==
    {i \in DOMAIN doc.bindings :
        /\ i[1] \in DOMAIN clones
        /\ ~IsInner(doc, i, clones) /\ Seed(doc, i, keep) # {}}
CloneNode(doc, clones, keep, node) ==
    [op |-> "addNode", id |-> clones[node], pos |-> doc.place[node].pos + 1,
     bindings |->
        [i \in {<<clones[node], j[2]>> : j \in
                   {k \in SeededInputs(doc, clones, keep) : k[1] = node}} |->
            CHOOSE b \in Seed(doc, <<node, i[2]>>, keep) : TRUE]]
CloneWire(doc, clones, input) ==
    [op |-> "setInput", input |-> <<clones[input[1]], input[2]>>,
     to |-> {Wire(clones[doc.bindings[input][2]])}]
CloneSub(clones, sub) ==
    [op |-> "setSubscription", to |-> TRUE, subscriber |-> clones[sub[2]],
     emitter |-> IF sub[1] \in DOMAIN clones THEN clones[sub[1]] ELSE sub[1]]

ClonedWire(wire, clones) ==
    IF wire[1] = "data"
    THEN DataWire(clones[wire[2]], <<clones[wire[3][1]], wire[3][2]>>)
    ELSE EventWire(clones[wire[2]], clones[wire[3]])
\* A clone joins each route behind the clones already made on it.
MadeBefore(route, tied, tie) ==
    Cardinality({k \in DOMAIN route :
        /\ \E j \in DOMAIN route : route[j] = tie /\ k < j
        /\ route[k] \in DOMAIN tied /\ route[k] < tie})
CloneTie(doc, clones, tied, tie) ==
    LET original == [v \in {ClonedWire(w, clones) :
                               w \in Through(doc.routes, tie)} |->
                        CHOOSE w \in Through(doc.routes, tie) :
                            ClonedWire(w, clones) = v]
        made == [op |-> "tieWires", tie |-> tied[tie],
                 pos |-> doc.ties[tie].pos + 1,
                 wires |-> [v \in DOMAIN original |->
                     MadeBefore(doc.routes[original[v]], tied, tie)]]
    IN  <<made>> \o
        IF doc.ties[tie].angle = "auto" THEN <<>>
        ELSE <<[op |-> "setTieAngle", tie |-> tied[tie], gesture |-> {},
                angle |-> doc.ties[tie].angle]>>
Duplicate(doc, clones, tied, keep) ==
    LET inner  == {i \in DOMAIN doc.bindings :
                      i[1] \in DOMAIN clones /\ IsInner(doc, i, clones)}
        heard  == {s \in doc.subs :
                      s[2] \in DOMAIN clones /\ (keep \/ s[1] \in DOMAIN clones)}
    IN  EachOf(DOMAIN clones, LAMBDA n : CloneNode(doc, clones, keep, n))
        \o SetToSeq({CloneWire(doc, clones, i) : i \in inner})
        \o SetToSeq({CloneSub(clones, s) : s \in heard})
        \o FlattenSeq(EachOf(DOMAIN tied,
                             LAMBDA t : CloneTie(doc, clones, tied, t)))
        \o <<[op |-> "setSelection",
              to |-> {NodeItem(clones[n]) : n \in DOMAIN clones}
                         \cup {TieItem(tied[t]) : t \in DOMAIN tied}]>>

=============================================================================
