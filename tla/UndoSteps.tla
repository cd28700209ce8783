------------------------------ MODULE UndoSteps ------------------------------
(***************************************************************************)
(* The undo history's vocabulary (src/darkroom/src/core/edit/step): each   *)
(* kind of step, how it writes one of its halves into the document, and    *)
(* what a caller must know of it.  A step is a record whose `kind` names   *)
(* the payload.                                                            *)
(***************************************************************************)
EXTENDS Document

Forward == "forward"
Backward == "backward"
Change(before, after) == [from |-> before, to |-> after]
Half(change, dir) == IF dir = Forward THEN change.to ELSE change.from
Unchanged(change) == change.from = change.to

NoTies == [ties |-> Nothing, routes |-> Nothing]

-----------------------------------------------------------------------------
(***************************************************************************)
(* TiesDraft: the ties and routes an edit changes, as what they become.  A *)
(* tie that goes is {}, a route that goes is <<>>.                         *)
(***************************************************************************)
NewDraft == [ties |-> Nothing, routes |-> Nothing]
DraftRoute(doc, draft, wire) ==
    IF wire \in DOMAIN draft.routes THEN draft.routes[wire]
    ELSE IF wire \in DOMAIN doc.routes THEN doc.routes[wire] ELSE <<>>
SetRoute(draft, wire, route) ==
    [draft EXCEPT !.routes = Put(@, wire, route)]
SetTie(draft, tie, to) == [draft EXCEPT !.ties = Put(@, tie, to)]

\* TiesDraft::release: the wires an edit ends keep no route.
Release(doc, draft, wires) ==
    LET routed == {w \in wires : DraftRoute(doc, draft, w) # <<>>}
    IN  [draft EXCEPT !.routes = Merge(@, [w \in routed |-> <<>>])]
\* TiesDraft::leave and remove_tie.
Without(route, tie) == Picked(route, {k \in DOMAIN route : route[k] # tie})
Leave(doc, draft, wires, tie) ==
    [draft EXCEPT !.routes =
        Merge(@, [w \in wires |->
                     Without(DraftRoute(doc, draft, w), tie)])]
RemoveTie(doc, draft, tie) ==
    LET through == {w \in DOMAIN doc.routes \cup DOMAIN draft.routes :
                       tie \in ToSet(DraftRoute(doc, draft, w))}
    IN  SetTie(Leave(doc, draft, through, tie), tie, {})

\* TiesDraft::finish: each tie a changed route named before and no route
\* names after goes too, and each change takes what the view held.
TieIn(doc, tie) == IF tie \in DOMAIN doc.ties THEN {doc.ties[tie]} ELSE {}
RouteIn(doc, wire) ==
    IF wire \in DOMAIN doc.routes THEN doc.routes[wire] ELSE <<>>
Routed(doc, draft, tie) ==
    \E w \in DOMAIN doc.routes \cup DOMAIN draft.routes :
        tie \in ToSet(DraftRoute(doc, draft, w))

\* Mutant: a tie whose last wire leaves stays.
FinishKeepingBareTies(doc, draft) ==
    [ties   |-> [t \in DOMAIN draft.ties |->
                    [placed   |-> Change(TieIn(doc, t), draft.ties[t]),
                     selected |-> TieItem(t) \in doc.selected]],
     routes |-> [w \in DOMAIN draft.routes |->
                    Change(RouteIn(doc, w), draft.routes[w])]]

Finish(doc, draft) ==
    LET named == UNION {ToSet(RouteIn(doc, w)) : w \in DOMAIN draft.routes}
        bare  == {t \in named \ DOMAIN draft.ties : ~Routed(doc, draft, t)}
        ties  == Merge(draft.ties, [t \in bare |-> {}])
    IN  [ties   |-> [t \in DOMAIN ties |->
                        [placed   |-> Change(TieIn(doc, t), ties[t]),
                         selected |-> TieItem(t) \in doc.selected]],
         routes |-> [w \in DOMAIN draft.routes |->
                        Change(RouteIn(doc, w), draft.routes[w])]]

\* SetTies::write: the routes, then the ties with their selection.
WriteTies(set, doc, dir) ==
    LET route(w) == Half(set.routes[w], dir)
        tie(t)   == Half(set.ties[t].placed, dir)
        back     == IF dir = Forward THEN Backward ELSE Forward
        kept     == {w \in DOMAIN set.routes : route(w) # <<>>}
        there    == {t \in DOMAIN set.ties : tie(t) # {}}
        gone     == DOMAIN set.ties \ there
        restored == {t \in there : /\ set.ties[t].selected
                                   /\ Half(set.ties[t].placed, back) = {}}
    IN  [doc EXCEPT
            !.routes = Merge(Drop(@, DOMAIN set.routes),
                             [w \in kept |-> route(w)]),
            !.ties = Merge(Drop(@, gone),
                           [t \in there |-> CHOOSE x \in tie(t) : TRUE]),
            !.selected = (@ \ {TieItem(t) : t \in gone})
                             \cup {TieItem(t) : t \in restored}]
TiesAreNoop(set) ==
    /\ \A t \in DOMAIN set.ties : Unchanged(set.ties[t].placed)
    /\ \A w \in DOMAIN set.routes : Unchanged(set.routes[w])

-----------------------------------------------------------------------------
(***************************************************************************)
(* SetNode: a node's whole entry coming into the document or leaving it.   *)
(***************************************************************************)
\* NodeEntry::capture, for a node the document holds.
Capture(doc, node) ==
    LET graph == node \in DOMAIN doc.nodes
    IN  [id       |-> node,
         home     |-> IF graph THEN "graph" ELSE "stubs",
         detached |-> IF graph THEN Snapshot(doc, node) ELSE doc.stubs[node],
         place    |-> doc.place[node],
         selected |-> NodeItem(node) \in doc.selected]
\* NodeEntry::wires: a stub's record keeps its wiring off the graph.
EntryWires(entry) ==
    IF entry.home = "stubs" THEN {}
    ELSE WiresOf(entry.detached.bindings, entry.detached.subs)

\* Graph::attach_node and NodeEntry::restore.
Restore(entry, doc) ==
    LET there == [doc EXCEPT
                    !.place = Put(@, entry.id, entry.place),
                    !.selected = IF entry.selected
                                 THEN @ \cup {NodeItem(entry.id)} ELSE @]
    IN  IF entry.home = "stubs"
        THEN [there EXCEPT !.stubs = Put(@, entry.id, entry.detached)]
        ELSE [there EXCEPT
                !.nodes = Put(@, entry.id, entry.detached.value),
                !.bindings = Merge(@, entry.detached.bindings),
                !.subs = @ \cup entry.detached.subs]

\* Document::remove_node, with the tabs that show it, and remove_stub.
RemoveNode(doc, node) ==
    [doc EXCEPT
        !.place = Drop(@, {node}),
        !.selected = @ \ {NodeItem(node)},
        !.tabs = @ \ {node},
        !.nodes = Drop(@, {node}),
        !.bindings = Drop(@, InputsTouching(@, node)),
        !.subs = @ \ SubsTouching(@, node)]
RemoveStub(doc, node) ==
    [doc EXCEPT
        !.place = Drop(@, {node}),
        !.selected = @ \ {NodeItem(node)},
        !.stubs = Drop(@, {node})]
TakeOut(entry, doc) ==
    IF entry.home = "stubs" THEN RemoveStub(doc, entry.id)
    ELSE RemoveNode(doc, entry.id)
WriteNode(step, doc, dir) ==
    WriteTies(step.ties,
              IF (step.edit = "insertion") = (dir = Forward)
              THEN Restore(step.entry, doc)
              ELSE TakeOut(step.entry, doc),
              dir)

\* SetNode::fed_inputs: the inputs of others that a removal leaves unbound.
FedInputs(step) ==
    IF step.kind = "node" /\ step.edit = "removal"
    THEN {w[3] : w \in {v \in EntryWires(step.entry) :
                           v[1] = "data" /\ v[2] = step.entry.id}}
    ELSE {}

-----------------------------------------------------------------------------
(***************************************************************************)
(* The other kinds, and the questions every step answers.                  *)
(***************************************************************************)
WriteInput(step, doc, dir) ==
    LET to == Half(step.binding, dir)
    IN  WriteTies(step.ties,
                  [doc EXCEPT !.bindings =
                      IF to = {} THEN Drop(@, {step.input})
                      ELSE Put(@, step.input, CHOOSE b \in to : TRUE)],
                  dir)
WriteSubscription(step, doc, dir) ==
    WriteTies(step.ties,
              [doc EXCEPT !.subs =
                  IF Half(step.subscribed, dir) THEN @ \cup {step.sub}
                  ELSE @ \ {step.sub}],
              dir)
WritePositions(step, doc, dir) ==
    LET moved(item) == Half(step.moves[item], dir)
    IN  [doc EXCEPT
            !.place = [n \in DOMAIN @ |->
                IF NodeItem(n) \in DOMAIN step.moves
                THEN [@[n] EXCEPT !.pos = moved(NodeItem(n))] ELSE @[n]],
            !.ties = [t \in DOMAIN @ |->
                IF TieItem(t) \in DOMAIN step.moves
                THEN [@[t] EXCEPT !.pos = moved(TieItem(t))] ELSE @[t]]]
\* Toggling is its own inverse, so a selection step has no halves.
Toggle(set, toggled) == (set \ toggled) \cup (toggled \ set)

Write(step, doc, dir) ==
    CASE step.kind = "node"         -> WriteNode(step, doc, dir)
      [] step.kind = "positions"    -> WritePositions(step, doc, dir)
      [] step.kind = "input"        -> WriteInput(step, doc, dir)
      [] step.kind = "subscription" -> WriteSubscription(step, doc, dir)
      [] step.kind = "ties"         -> WriteTies(step.set, doc, dir)
      [] step.kind = "selection"    ->
            [doc EXCEPT !.selected = Toggle(@, step.toggled)]
      [] step.kind = "depth"        ->
            [doc EXCEPT !.place[step.id].z = Half(step.z, dir)]
      [] step.kind = "value"        ->
            [doc EXCEPT !.nodes[step.id] = Half(step.value, dir)]

IsNoop(step) ==
    CASE step.kind = "node"         -> FALSE
      [] step.kind = "positions"    ->
            \A item \in DOMAIN step.moves : Unchanged(step.moves[item])
      [] step.kind = "input"        -> Unchanged(step.binding)
      [] step.kind = "subscription" -> Unchanged(step.subscribed)
      [] step.kind = "ties"         -> TiesAreNoop(step.set)
      [] step.kind = "selection"    -> step.toggled = {}
      [] step.kind = "depth"        -> Unchanged(step.z)
      [] step.kind = "value"        -> Unchanged(step.value)

\* Mutant: ties count as navigation.
DirtiesButTies(step) == step.kind \notin {"selection", "depth", "ties"}

\* Selection and stacking are navigation: saved, and not worth a prompt.
Dirties(step) == step.kind \notin {"selection", "depth"}
MovesNodeSet(step) == step.kind = "node"

\* UndoStep::absorbs and absorb: frames of one gesture fold in place,
\* keeping the first "from" and adopting the latest "to".
Absorbs(step, next) == step.kind = next.kind /\ step.kind \in {"positions", "ties"}

\* Mutant: a folded move starts where the frame before left it.
AbsorbMovesWhole(moves, next) ==
    [item \in DOMAIN moves |->
        IF item \in DOMAIN next THEN next[item] ELSE moves[item]]

AbsorbMoves(moves, next) ==
    [item \in DOMAIN moves |->
        IF item \in DOMAIN next
        THEN Change(moves[item].from, next[item].to) ELSE moves[item]]
AbsorbTies(set, next) ==
    [ties   |-> Merge(next.ties,
                      [t \in DOMAIN set.ties |->
                         IF t \in DOMAIN next.ties
                         THEN [set.ties[t] EXCEPT
                                 !.placed.to = next.ties[t].placed.to]
                         ELSE set.ties[t]]),
     routes |-> Merge(next.routes,
                      [w \in DOMAIN set.routes |->
                         IF w \in DOMAIN next.routes
                         THEN [set.routes[w] EXCEPT !.to = next.routes[w].to]
                         ELSE set.routes[w]])]
Absorb(step, next) ==
    IF step.kind = "positions"
    THEN [step EXCEPT !.moves = AbsorbMoves(@, next.moves)]
    ELSE [step EXCEPT !.set = AbsorbTies(@, next.set)]

\* Steps replayed in order, and taken back newest first.
Apply(steps, doc) ==
    FoldLeft(LAMBDA d, step : Write(step, d, Forward), doc, steps)
Revert(steps, doc) ==
    FoldLeft(LAMBDA d, step : Write(step, d, Backward), doc, Reverse(steps))

=============================================================================
