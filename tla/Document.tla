------------------------------ MODULE Document ------------------------------
(***************************************************************************)
(* The document darkroom edits (src/darkroom/src/core/document) over       *)
(* scenarium's authoring graph (src/scenarium/src/graph/mod.rs): its state *)
(* as one record, the rules that make it valid, and what a load repairs.   *)
(*                                                                         *)
(* A node is its id; what a library declares of it is a function of the    *)
(* id (inputs, defaults, which outputs an input takes, whether it emits,   *)
(* whether it is a preview node).  A wire is keyed by both of its ends.    *)
(* An optional value is a set of at most one element; a wire with no route *)
(* is one outside DOMAIN routes.  Positions and angles are small numbers;  *)
(* names, properties and cache modes are one `value` per node.             *)
(***************************************************************************)
EXTENDS Naturals, FiniteSets, Sequences, SequencesExt

CONSTANTS
    NodeIds,      \* ids of nodes, numbers: ties in depth break by id
    TieIds,       \* ids of ties, numbers too
    InputsOf,     \* [NodeIds -> Nat], how many inputs a node declares
    DefaultOf,    \* input -> {} or {binding}, the const an unwired input takes
    Takes,        \* set of <<input, node>>: the outputs an input accepts
    Emitters,     \* nodes that declare an event
    Previews,     \* nodes of the preview func, the ones with a viewer tab
    NotFinite     \* stands for a number no canvas can draw

ASSUME DocumentAssumption ==
    /\ NodeIds \subseteq Nat /\ IsFiniteSet(NodeIds) /\ TieIds \subseteq Nat
    /\ InputsOf \in [NodeIds -> Nat]
    /\ Emitters \subseteq NodeIds
    /\ Previews \subseteq NodeIds
    /\ NotFinite \in Nat

Wire(node) == <<"wire", node>>
Const(value) == <<"const", value>>
DataWire(node, input) == <<"data", node, input>>
EventWire(emitter, subscriber) == <<"event", emitter, subscriber>>
NodeItem(node) == <<"node", node>>
TieItem(tie) == <<"tie", tie>>

\* A map with one key written, or taken out.
Put(map, key, value) ==
    [x \in DOMAIN map \cup {key} |-> IF x = key THEN value ELSE map[x]]
Drop(map, keys) == [x \in DOMAIN map \ keys |-> map[x]]
Merge(map, more) ==
    [x \in DOMAIN map \cup DOMAIN more |->
        IF x \in DOMAIN more THEN more[x] ELSE map[x]]
Nothing == [x \in {} |-> x]
InIdOrder(ids) ==
    [k \in 1..Cardinality(ids) |->
        CHOOSE n \in ids : Cardinality({m \in ids : m < n}) = k - 1]
\* What a sequence holds at some of its places, in their order.
Picked(seq, places) ==
    LET order == InIdOrder(places) IN [k \in DOMAIN order |-> seq[order[k]]]

EmptyDocument ==
    [nodes |-> Nothing, bindings |-> Nothing, subs |-> {}, stubs |-> Nothing,
     place |-> Nothing, ties |-> Nothing, routes |-> Nothing,
     selected |-> {}, tabs |-> {}, viewport |-> 0]

\* What any document is, one a file holds too: finite maps and sets, whatever
\* they say of one another.
IsMap(map) == map = [x \in DOMAIN map |-> map[x]]
IsFiniteMap(map) == IsMap(map) /\ IsFiniteSet(DOMAIN map)
IsDetached(record) ==
    /\ record = [value |-> record.value, bindings |-> record.bindings,
                 subs |-> record.subs]
    /\ IsFiniteMap(record.bindings) /\ IsFiniteSet(record.subs)
IsRoute(route) == route \in Seq(ToSet(route))
AreRoutes(routes) == IsMap(routes) /\ \A w \in DOMAIN routes : IsRoute(routes[w])
IsPlacement(placement) == placement = [pos |-> placement.pos, z |-> placement.z]
IsDocument(doc) ==
    /\ doc = [nodes |-> doc.nodes, bindings |-> doc.bindings, subs |-> doc.subs,
              stubs |-> doc.stubs, place |-> doc.place, ties |-> doc.ties,
              routes |-> doc.routes, selected |-> doc.selected,
              tabs |-> doc.tabs, viewport |-> doc.viewport]
    /\ IsFiniteMap(doc.nodes) /\ DOMAIN doc.nodes \subseteq Nat
    /\ IsFiniteMap(doc.stubs) /\ DOMAIN doc.stubs \subseteq Nat
    /\ \A n \in DOMAIN doc.stubs : IsDetached(doc.stubs[n])
    /\ IsFiniteMap(doc.place)
    /\ \A n \in DOMAIN doc.place : IsPlacement(doc.place[n])
    /\ IsFiniteMap(doc.bindings) /\ IsFiniteMap(doc.ties)
    /\ AreRoutes(doc.routes)
    /\ IsFiniteSet(doc.subs) /\ IsFiniteSet(doc.selected)

-----------------------------------------------------------------------------
(***************************************************************************)
(* Reading the graph.                                                      *)
(***************************************************************************)
IsWire(binding) == binding[1] = "wire"
Ids(doc) == DOMAIN doc.nodes \cup DOMAIN doc.stubs

\* Binding::touches and Subscription::touches.
BindingTouches(input, binding, node) ==
    input[1] = node \/ (IsWire(binding) /\ binding[2] = node)
InputsTouching(bindings, node) ==
    {i \in DOMAIN bindings : BindingTouches(i, bindings[i], node)}
SubsTouching(subs, node) == {s \in subs : node \in {s[1], s[2]}}

\* Graph::snapshot_node: the node with every edge that touches it.
Snapshot(doc, node) ==
    [value    |-> doc.nodes[node],
     bindings |-> [i \in InputsTouching(doc.bindings, node) |->
                      doc.bindings[i]],
     subs     |-> SubsTouching(doc.subs, node)]

\* WireKey::is_held_by.
IsHeld(wire, bindings, subs) ==
    \/ /\ wire[1] = "data"
       /\ wire[3] \in DOMAIN bindings
       /\ bindings[wire[3]] = Wire(wire[2])
    \/ wire[1] = "event" /\ <<wire[2], wire[3]>> \in subs

WiresOf(bindings, subs) ==
    {DataWire(bindings[i][2], i) : i \in {j \in DOMAIN bindings :
                                             IsWire(bindings[j])}}
        \cup {EventWire(s[1], s[2]) : s \in subs}

\* Graph::admit and Graph::admit_subscription.
DeclaredInputs(node) == {<<node, i>> : i \in 0..(InputsOf[node] - 1)}
Admits(input, binding) ==
    /\ input \in DeclaredInputs(input[1])
    /\ IsWire(binding) => <<input, binding[2]>> \in Takes
AdmitsSub(emitter, subscriber) ==
    emitter # subscriber /\ emitter \in Emitters

\* What a walk from `from` backwards over the wires reaches: one more level
\* of producers at a time, as many levels as there are nodes.
Feeding(bindings, nodes) ==
    {bindings[i][2] : i \in {j \in DOMAIN bindings :
                                IsWire(bindings[j]) /\ j[1] \in nodes}}
Upstream(bindings, from) ==
    LET reach[k \in 0..Cardinality(NodeIds)] ==
            IF k = 0 THEN {from}
            ELSE LET near == reach[k - 1]
                 IN  near \cup Feeding(bindings, near)
    IN  reach[Cardinality(NodeIds)]
\* Graph::produces_cycle.
ProducesCycle(doc, producer, consumer) ==
    consumer \in Upstream(doc.bindings, producer)

\* GraphView::holds, pos, front_z, raised_z and ties_within.
Holds(doc, item) ==
    \/ item[1] = "node" /\ item[2] \in DOMAIN doc.place
    \/ item[1] = "tie" /\ item[2] \in DOMAIN doc.ties
PosOf(doc, item) ==
    IF item[1] = "node" THEN doc.place[item[2]].pos
    ELSE doc.ties[item[2]].pos
Depths(doc, except) == {doc.place[n].z : n \in DOMAIN doc.place \ except}
Above(depths) ==
    IF depths = {} THEN 0
    ELSE 1 + CHOOSE z \in depths : \A y \in depths : y <= z
FrontZ(doc) == Above(Depths(doc, {}))
InFrontOf(doc, m, n) ==
    \/ doc.place[m].z > doc.place[n].z
    \/ doc.place[m].z = doc.place[n].z /\ m > n
RaisedZ(doc, node) ==
    IF \E m \in DOMAIN doc.place \ {node} : InFrontOf(doc, m, node)
    THEN Above(Depths(doc, {node}))
    ELSE doc.place[node].z
WireNodes(wire) ==
    IF wire[1] = "data" THEN {wire[2], wire[3][1]} ELSE {wire[2], wire[3]}
Through(routes, tie) == {w \in DOMAIN routes : tie \in ToSet(routes[w])}
TiesWithin(doc, nodes) ==
    {t \in DOMAIN doc.ties :
        \A w \in Through(doc.routes, t) : WireNodes(w) \subseteq nodes}

-----------------------------------------------------------------------------
(***************************************************************************)
(* What a document must hold: Document::validate and, for the graph a      *)
(* compile accepts, Graph::validate_with.                                  *)
(***************************************************************************)
GraphHoldsTogether(doc) ==
    /\ \A i \in DOMAIN doc.bindings :
          /\ i[1] \in DOMAIN doc.nodes
          /\ IsWire(doc.bindings[i]) => doc.bindings[i][2] \in DOMAIN doc.nodes
    /\ \A s \in doc.subs : {s[1], s[2]} \subseteq DOMAIN doc.nodes
GraphIsAdmitted(doc) ==
    /\ \A i \in DOMAIN doc.bindings : Admits(i, doc.bindings[i])
    /\ \A s \in doc.subs : AdmitsSub(s[1], s[2])
GraphIsAcyclic(doc) ==
    \A i \in DOMAIN doc.bindings :
        IsWire(doc.bindings[i]) =>
            i[1] \notin Upstream(doc.bindings, doc.bindings[i][2])
ViewPlacesTheNodes(doc) == DOMAIN doc.place = Ids(doc)
TiesHoldWires(doc) ==
    /\ \A w \in DOMAIN doc.routes :
          /\ IsHeld(w, doc.bindings, doc.subs)
          /\ doc.routes[w] # <<>>
          /\ IsInjective(doc.routes[w])
          /\ ToSet(doc.routes[w]) \subseteq DOMAIN doc.ties
    /\ \A t \in DOMAIN doc.ties : Through(doc.routes, t) # {}
SelectionIsHeld(doc) == \A item \in doc.selected : Holds(doc, item)
TabsAreHeld(doc) == doc.tabs \subseteq DOMAIN doc.nodes \cap Previews

IsValid(doc) ==
    /\ GraphHoldsTogether(doc)
    /\ DOMAIN doc.nodes \cap DOMAIN doc.stubs = {}
    /\ ViewPlacesTheNodes(doc)
    /\ TiesHoldWires(doc)
    /\ SelectionIsHeld(doc)
    /\ TabsAreHeld(doc)
Compiles(doc) == GraphIsAdmitted(doc) /\ GraphIsAcyclic(doc)

=============================================================================
