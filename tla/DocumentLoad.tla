---------------------------- MODULE DocumentLoad ----------------------------
(***************************************************************************)
(* What a load makes of a decoded document (Document::reconcile in         *)
(* src/darkroom/src/core/document/mod.rs, over Graph::reconcile in         *)
(* src/scenarium/src/graph/mod.rs).  Each pass answers the document after  *)
(* it and the repairs it reports; a load that reports none opened the file *)
(* as it was.  A decoded document may hold anything a file can say.  A     *)
(* library is the set of the nodes whose func it resolves: a load may meet *)
(* another library than the save did.                                      *)
(***************************************************************************)
EXTENDS Document

Decoded(doc) == [doc |-> doc, repairs |-> {}]
Repaired(load, doc, repairs) ==
    [doc |-> doc, repairs |-> load.repairs \cup repairs]

-----------------------------------------------------------------------------
(***************************************************************************)
(* reattach_stubs: a stub under a graph node's id goes; each other whose   *)
(* func resolves comes back, all nodes before any wiring.                  *)
(***************************************************************************)
EndsHeld(doc, input, binding) ==
    /\ input[1] \in DOMAIN doc.nodes
    /\ IsWire(binding) => binding[2] \in DOMAIN doc.nodes
SubEndsHeld(doc, sub) == {sub[1], sub[2]} \subseteq DOMAIN doc.nodes

DropDuplicateStubs(load) ==
    LET twice == DOMAIN load.doc.stubs \cap DOMAIN load.doc.nodes
    IN  Repaired(load, [load.doc EXCEPT !.stubs = Drop(@, twice)],
                 {<<"duplicateStub", n>> : n \in twice})

\* One record's wiring, what still has both ends and lands on a free input.
Reattach(load, record) ==
    LET doc  == load.doc
        kept == {i \in DOMAIN record.bindings :
                    /\ EndsHeld(doc, i, record.bindings[i])
                    /\ i \notin DOMAIN doc.bindings}
        held == {s \in record.subs : SubEndsHeld(doc, s)}
    IN  Repaired(load,
                 [doc EXCEPT !.bindings =
                                Merge(@, [i \in kept |-> record.bindings[i]]),
                             !.subs = @ \cup held],
                 {<<"stubBindingDropped", i>> :
                     i \in DOMAIN record.bindings \ kept}
                 \cup {<<"stubSubscriptionDropped", s>> :
                         s \in record.subs \ held})
\* Mutant: each stub is wired as it comes back, before the next one is there.
ReattachOneByOne(load, library) ==
    LET back(l, n) ==
            Reattach(Repaired(l, [l.doc EXCEPT
                                    !.stubs = Drop(@, {n}),
                                    !.nodes = Put(@, n, l.doc.stubs[n].value)],
                              {<<"reattached", n>>}),
                     l.doc.stubs[n])
    IN  FoldLeft(back, load, InIdOrder(DOMAIN load.doc.stubs \cap library))

ReattachStubs(load, library) ==
    LET doc       == load.doc
        resolving == DOMAIN doc.stubs \cap library
        ids       == InIdOrder(resolving)
        back      == [doc EXCEPT
                        !.stubs = Drop(@, resolving),
                        !.nodes = Merge(@, [n \in resolving |->
                                               doc.stubs[n].value])]
    IN  FoldLeft(Reattach,
                 Repaired(load, back, {<<"reattached", n>> : n \in resolving}),
                 [k \in DOMAIN ids |-> doc.stubs[ids[k]]])

-----------------------------------------------------------------------------
(***************************************************************************)
(* Graph::reconcile.                                                       *)
(***************************************************************************)
DropDangling(load) ==
    LET doc  == load.doc
        bad  == {i \in DOMAIN doc.bindings : ~EndsHeld(doc, i, doc.bindings[i])}
        lone == {s \in doc.subs : ~SubEndsHeld(doc, s)}
    IN  Repaired(load, [doc EXCEPT !.bindings = Drop(@, bad), !.subs = @ \ lone],
                 {<<"danglingBinding", i>> : i \in bad}
                 \cup {<<"danglingSubscription", s>> : s \in lone})

\* Graph::detach_node, kept as a stub with the wiring that touches it still.
Stub(load, node) ==
    LET doc == load.doc
    IN  Repaired(load,
                 [doc EXCEPT
                    !.stubs = Put(@, node, Snapshot(doc, node)),
                    !.nodes = Drop(@, {node}),
                    !.bindings = Drop(@, InputsTouching(@, node)),
                    !.subs = @ \ SubsTouching(@, node)],
                 {<<"stubbed", node>>})
StubUnresolved(load, library) ==
    FoldLeft(Stub, load, InIdOrder(DOMAIN load.doc.nodes \ library))

DropRefused(load) ==
    LET doc  == load.doc
        bad  == {i \in DOMAIN doc.bindings : ~Admits(i, doc.bindings[i])}
        subs == {s \in doc.subs : ~AdmitsSub(s[1], s[2])}
    IN  Repaired(load, [doc EXCEPT !.bindings = Drop(@, bad), !.subs = @ \ subs],
                 {<<"rejectedBinding", i>> : i \in bad}
                 \cup {<<"rejectedSubscription", s>> : s \in subs})

\* closing_wires: a depth-first walk on an explicit stack, whose top is its
\* end, from every node in id order, from consumer to producer.  Entering a
\* node pushes its exit and over it its wires, the first port's on top.
RootOf(node) == [kind |-> "root", node |-> node]
ExitOf(node) == [kind |-> "exit", node |-> node]
WireInto(bindings, input) ==
    [kind |-> "wire", input |-> input, node |-> bindings[input][2]]
WiredPorts(bindings, node) ==
    {i \in 0..(InputsOf[node] - 1) :
        /\ <<node, i>> \in DOMAIN bindings
        /\ IsWire(bindings[<<node, i>>])}
Enter(walk, bindings, node) ==
    LET ports == Reverse(InIdOrder(WiredPorts(bindings, node)))
    IN  [walk EXCEPT
            !.onPath = @ \cup {node},
            !.stack = Append(@, ExitOf(node))
                      \o [k \in DOMAIN ports |->
                             WireInto(bindings, <<node, ports[k]>>)]]

\* Mutant: a wire into a node already done with counts as closing.
VisitOnce(walk, bindings) ==
    LET visit == Last(walk.stack)
        past  == [walk EXCEPT !.stack = Front(@)]
    IN  CASE visit.kind = "exit" ->
                [past EXCEPT !.onPath = @ \ {visit.node},
                             !.done = @ \cup {visit.node}]
          [] visit.kind = "root" /\ visit.node \in walk.done -> past
          [] visit.kind = "wire" /\ visit.node \in walk.onPath \cup walk.done ->
                [past EXCEPT !.closing = @ \cup {visit.input}]
          [] visit.kind # "exit" /\ visit.node \notin walk.onPath \cup walk.done ->
                Enter(past, bindings, visit.node)

Visit(walk, bindings) ==
    LET visit == Last(walk.stack)
        past  == [walk EXCEPT !.stack = Front(@)]
    IN  CASE visit.kind = "exit" ->
                [past EXCEPT !.onPath = @ \ {visit.node},
                             !.done = @ \cup {visit.node}]
          [] visit.kind # "exit" /\ visit.node \in walk.done -> past
          [] visit.kind = "wire" /\ visit.node \in walk.onPath ->
                [past EXCEPT !.closing = @ \cup {visit.input}]
          [] visit.kind # "exit" /\ visit.node \notin walk.onPath \cup walk.done ->
                Enter(past, bindings, visit.node)
\* A root and an exit of each node and a visit of each wire: no walk is longer.
MostVisits(bindings) == 2 * Cardinality(NodeIds) + Cardinality(DOMAIN bindings)
WalkFrom(nodes) ==
    LET roots == Reverse(InIdOrder(nodes))
    IN  [onPath |-> {}, done |-> {}, closing |-> {},
         stack  |-> [k \in DOMAIN roots |-> RootOf(roots[k])]]
WalkOn(walk, bindings) ==
    IF walk.stack = <<>> THEN walk ELSE Visit(walk, bindings)
ClosingWires(doc) ==
    LET walk[k \in 0..MostVisits(doc.bindings)] ==
            IF k = 0 THEN WalkFrom(DOMAIN doc.nodes)
            ELSE WalkOn(walk[k - 1], doc.bindings)
    IN  walk[MostVisits(doc.bindings)].closing
DropClosing(load) ==
    LET closing == ClosingWires(load.doc)
    IN  Repaired(load, [load.doc EXCEPT !.bindings = Drop(@, closing)],
                 {<<"cycleWire", i>> : i \in closing})

ReconcileGraph(load, library) ==
    DropClosing(DropRefused(StubUnresolved(DropDangling(load), library)))

-----------------------------------------------------------------------------
(***************************************************************************)
(* repair_view, with repair_ties, and repair_layout.                       *)
(***************************************************************************)
RepairViewport(load) ==
    IF load.doc.viewport # NotFinite THEN load
    ELSE Repaired(load, [load.doc EXCEPT !.viewport = 0],
                  {<<"viewportReset">>})

RepairPlacements(load) ==
    LET doc   == load.doc
        lost  == DOMAIN doc.place \ Ids(doc)
        bad   == {n \in DOMAIN doc.place \ lost :
                     doc.place[n].pos = NotFinite}
        new   == Ids(doc) \ DOMAIN doc.place
        drawn == [n \in DOMAIN doc.place \ lost |->
                     IF n \in bad THEN [doc.place[n] EXCEPT !.pos = 0]
                     ELSE doc.place[n]]
    IN  Repaired(load,
                 [doc EXCEPT !.place =
                     Merge(drawn, [n \in new |-> [pos |-> 0, z |-> 0]])],
                 {<<"placementDropped", n>> : n \in lost}
                 \cup {<<"posReset", n>> : n \in bad}
                 \cup {<<"placed", n>> : n \in new})

\* A route keeps the first of each tie the document has.
FirstOf(route, k) == \A j \in 1..(k - 1) : route[j] # route[k]
KeptSteps(route, ties) ==
    Picked(route, {k \in DOMAIN route : route[k] \in ties /\ FirstOf(route, k)})
RepairRoutes(load) ==
    LET doc   == load.doc
        steps == [w \in DOMAIN doc.routes |->
                     IF IsHeld(w, doc.bindings, doc.subs)
                     THEN KeptSteps(doc.routes[w], DOMAIN doc.ties) ELSE <<>>]
        gone  == {w \in DOMAIN steps : steps[w] = <<>>}
    IN  Repaired(load, [doc EXCEPT !.routes = Drop(steps, gone)],
                 {<<"routeDropped", w>> : w \in gone}
                 \cup {<<"routeStepDropped", w>> :
                         w \in {v \in DOMAIN steps :
                                   steps[v] # doc.routes[v]}})
RepairTies(load) ==
    LET doc  == load.doc
        bare == {t \in DOMAIN doc.ties : Through(doc.routes, t) = {}}
        far  == {t \in DOMAIN doc.ties \ bare : doc.ties[t].pos = NotFinite}
    IN  Repaired(load,
                 [doc EXCEPT !.ties =
                     [t \in DOMAIN @ \ bare |->
                         IF t \in far THEN [@[t] EXCEPT !.pos = 0] ELSE @[t]]],
                 {<<"tieDropped", t>> : t \in bare}
                 \cup {<<"tiePosReset", t>> : t \in far})

RepairSelection(load) ==
    LET gone == {item \in load.doc.selected : ~Holds(load.doc, item)}
    IN  Repaired(load, [load.doc EXCEPT !.selected = @ \ gone],
                 {<<"selectionDropped", item>> : item \in gone})
RepairLayout(load) ==
    LET stale == load.doc.tabs \ (DOMAIN load.doc.nodes \cap Previews)
    IN  Repaired(load, [load.doc EXCEPT !.tabs = @ \ stale],
                 {<<"viewerClosed", n>> : n \in stale})

RepairView(load) ==
    RepairSelection(RepairTies(RepairRoutes(
        RepairPlacements(RepairViewport(load)))))

Reconcile(doc, library) ==
    LET attached == ReattachStubs(DropDuplicateStubs(Decoded(doc)), library)
    IN  RepairLayout(RepairView(ReconcileGraph(attached, library)))

=============================================================================
