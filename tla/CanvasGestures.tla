--------------------------- MODULE CanvasGestures ---------------------------
(***************************************************************************)
(* What the canvas's held gestures raise (src/darkroom/src/gui/pane/       *)
(* graph_ui/gesture): the group drag of a node or of the selection, the    *)
(* knob that turns a tie, the preview node a drag off a port spawns, the   *)
(* breaker and the tie line.  A gesture keeps what it latched; each of its frames is   *)
(* built from that and not from the document it finds.  A request carries  *)
(* an intent and the gesture it joins, or cancels a gesture.               *)
(***************************************************************************)
EXTENDS GraphIntents

Graph(intent) == [kind |-> "graph", intent |-> intent]
InGesture(id, intent) == [kind |-> "joins", gesture |-> id, intent |-> intent]
Cancel(id, otherwise) ==
    [kind |-> "cancel", gesture |-> id, otherwise |-> otherwise]
View(shows, node) == [kind |-> "view", shows |-> shows, node |-> node]
Graphs(intents) == [k \in DOMAIN intents |-> Graph(intents[k])]
InGestures(id, intents) == [k \in DOMAIN intents |-> InGesture(id, intents[k])]

-----------------------------------------------------------------------------
(***************************************************************************)
(* The group drag.  `frames` counts what the model lets it still raise.    *)
(***************************************************************************)
\* with_inner_ties: each member at its position, and the ties inside.
Members(doc, items) ==
    LET nodes == {i[2] : i \in {j \in items : j[1] = "node"}}
        all   == items \cup {TieItem(t) : t \in TiesWithin(doc, nodes)}
    IN  [item \in all |-> PosOf(doc, item)]
GroupAnchor(item, members, id, frames) ==
    [drag |-> "group", item |-> item, members |-> members, gesture |-> id,
     frames |-> frames]
\* node_grab, and the grab of a tie: an item in the selection takes the
\* selection along, another is clicked.
GrabMembers(doc, item) ==
    Members(doc, IF item \in doc.selected THEN doc.selected ELSE {item})
GrabJoins(doc, item) == IF item \in doc.selected THEN <<>> ELSE ClickOn(item)
MoveFrame(anchor, offset) ==
    [op |-> "moveSelection", gesture |-> {anchor.gesture},
     members |-> anchor.members, offset |-> offset]

\* PreviewSpawn::intents.
Spawn(node, pos, output) ==
    <<[op |-> "addNode", id |-> node, pos |-> pos,
       bindings |-> [i \in {j \in DeclaredInputs(node) : Unwired(j) # {}} |->
                        CHOOSE b \in Unwired(i) : TRUE]],
      [op |-> "setInput", input |-> <<node, 0>>, to |-> {Wire(output)}]>>

-----------------------------------------------------------------------------
(***************************************************************************)
(* The knob, and the tie line: what it crossed when it was last drawn,     *)
(* each wire with the piece it crossed, and the first tie if any.          *)
(***************************************************************************)
KnobAnchor(doc, tie, id, frames) ==
    [drag |-> "knob", item |-> TieItem(tie), from |-> doc.ties[tie].angle,
     gesture |-> id, frames |-> frames]
TurnFrame(anchor, angle) ==
    [op |-> "setTieAngle", tie |-> anchor.item[2], angle |-> angle,
     gesture |-> {anchor.gesture}]

\* Breaker release: a removed node's own inputs and subscriptions go with it.
Severed(nodes, inputs, subs) ==
    EachOf(nodes, LAMBDA n : [op |-> "removeNode", id |-> n])
    \o SetToSeq({[op |-> "setInput", input |-> i, to |-> {}] :
                    i \in {j \in inputs : j[1] \notin nodes}})
    \o SetToSeq({[op |-> "setSubscription", emitter |-> s[1],
                  subscriber |-> s[2], to |-> FALSE] :
                    s \in {x \in subs : {x[1], x[2]} \cap nodes = {}}})

\* `stale` is set once a chord has changed the document under the line.
Crossing(wires, tie, stale) == [wires |-> wires, tie |-> tie, stale |-> stale]

\* Mutant: a wire the tie holds already joins it again.
ReleasedLineWhole(doc, line, fresh) ==
    LET select(t) == [op |-> "setSelection", to |-> {TieItem(t)}]
    IN  CASE line.tie # {} ->
                LET t == CHOOSE x \in line.tie : TRUE
                IN  <<[op |-> "joinTie", tie |-> t, wires |-> line.wires],
                      select(t)>>
          [] line.tie = {} /\ line.wires = Nothing -> <<>>
          [] line.tie = {} /\ line.wires # Nothing ->
                <<[op |-> "tieWires", tie |-> fresh, pos |-> 0,
                   wires |-> line.wires], select(fresh)>>

\* release: the crossed wires join the first tie crossed, less those it holds
\* by now, or tie into a new one.
ReleasedLine(doc, line, fresh) ==
    LET select(t) == [op |-> "setSelection", to |-> {TieItem(t)}]
        join(t) ==
            LET free == {w \in DOMAIN line.wires :
                            t \notin ToSet(RouteIn(doc, w))}
            IN  IF free = {} THEN <<>>
                ELSE <<[op |-> "joinTie", tie |-> t,
                        wires |-> [w \in free |-> line.wires[w]]], select(t)>>
    IN  CASE line.tie # {} -> join(CHOOSE t \in line.tie : TRUE)
          [] line.tie = {} /\ line.wires = Nothing -> <<>>
          [] line.tie = {} /\ line.wires # Nothing ->
                <<[op |-> "tieWires", tie |-> fresh, pos |-> 0,
                   wires |-> line.wires], select(fresh)>>

=============================================================================
