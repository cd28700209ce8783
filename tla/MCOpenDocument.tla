--------------------------- MODULE MCOpenDocument ---------------------------
(* Instances of OpenDocument for TLC: a source that emits, two filters with a *)
(* default, a preview; a tied pair of them, and files as a hand or an older   *)
(* program may have left them.                                                *)
EXTENDS OpenDocument, TLC

MCInputsOf == [n \in NodeIds |-> IF n = 1 THEN 0 ELSE 1]
Inputs == UNION {DeclaredInputs(n) : n \in NodeIds}
MCDefaultOf == [i \in Inputs |-> IF i[1] \in {2, 3} THEN {Const(0)} ELSE {}]
MCTakes == Inputs \X {1, 2, 3}

Placed(n) == [pos |-> n, z |-> 0]
\* The source feeds a filter and fires it, through one tie.
Tied ==
    [EmptyDocument EXCEPT
        !.nodes = (1 :> 0) @@ (2 :> 0),
        !.bindings = (<<2, 0>> :> Wire(1)),
        !.subs = {<<1, 2>>},
        !.place = (1 :> Placed(1)) @@ (2 :> Placed(2)),
        !.ties = (1 :> [pos |-> 1, angle |-> "pinned"]),
        !.routes = (DataWire(1, <<2, 0>>) :> <<1>>)]

\* A chain of all four through two ties, all but the source selected.
Chain ==
    [EmptyDocument EXCEPT
        !.nodes = [n \in NodeIds |-> 0],
        !.bindings = [i \in Inputs |-> Wire(i[1] - 1)],
        !.subs = {<<1, 2>>, <<1, 4>>},
        !.place = [n \in NodeIds |-> Placed(n)],
        !.ties = [t \in TieIds |-> [pos |-> t, angle |-> "auto"]],
        !.routes = (DataWire(1, <<2, 0>>) :> <<1, 2>>)
                   @@ (DataWire(2, <<3, 0>>) :> <<2>>)
                   @@ (EventWire(1, 4) :> <<1>>),
        !.selected = {NodeItem(2), NodeItem(3), TieItem(2)},
        !.tabs = {4}]

\* What can be wrong with a file, one fault at a time.
Lost(n) == [Chain EXCEPT !.nodes = Drop(@, {n})]
Stubbed(n) ==
    [RemoveNode(Chain, n) EXCEPT
        !.place = Chain.place, !.stubs = (n :> Snapshot(Chain, n))]
Faulty ==
    {Lost(n) : n \in NodeIds} \cup {Stubbed(n) : n \in NodeIds}
    \cup {[Chain EXCEPT !.bindings[<<n, 0>>] = Wire(m)] : n \in {2, 3, 4}, m \in NodeIds}
    \cup {[Chain EXCEPT !.bindings = Put(@, <<1, 0>>, b)] : b \in {Wire(3), Const(0)}}
    \cup {[Chain EXCEPT !.stubs = (n :> Snapshot(Chain, n))] : n \in NodeIds}
    \cup {[Chain EXCEPT !.subs = @ \cup {s}] : s \in {<<2, 3>>, <<1, 1>>, <<1, 9>>}}
    \cup {[Chain EXCEPT !.routes = Put(@, w, r)] :
            w \in {DataWire(1, <<2, 0>>), DataWire(1, <<3, 0>>), EventWire(1, 2)},
            r \in {<<>>, <<1, 1>>, <<3>>, <<2, 3, 1, 2>>}}
    \cup {[Chain EXCEPT !.place[2].pos = NotFinite],
          [Chain EXCEPT !.place = Drop(@, {3})],
          [Chain EXCEPT !.ties[2].pos = NotFinite],
          [Chain EXCEPT !.ties = Put(@, 3, @[1])],
          [Chain EXCEPT !.viewport = NotFinite],
          [Chain EXCEPT !.selected = @ \cup {NodeItem(9), TieItem(3)}],
          [Chain EXCEPT !.tabs = {2, 4, 9}]}

MCFiles == {Tied, Chain} \cup Faulty
MCEditsFrom == [f \in MCFiles |-> CASE f = Tied -> 2 [] f = Chain -> 1 [] OTHER -> 0]
MCLibraries == {NodeIds, {1, 4}}
=============================================================================
