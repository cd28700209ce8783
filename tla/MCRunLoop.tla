------------------------------ MODULE MCRunLoop ------------------------------
(* Instances of RunLoop for TLC: a loader, a path producer, a node that reads *)
(* the file the path names, and a sink; and the edits of that program.        *)
EXTENDS RunLoop, TLC

Unbound    == [kind |-> "unbound", from |-> 0, port |-> 0, required |-> FALSE, path |-> FALSE]
File       == [Unbound EXCEPT !.kind = "file", !.required = TRUE, !.path = TRUE]
Wire(n, p) == [Unbound EXCEPT !.kind = "wire", !.from = n, !.port = p]
Path(n, p) == [Wire(n, p) EXCEPT !.path = TRUE]
Need(i)    == [i EXCEPT !.required = TRUE]

Node(key, inputs, outputs, mode) ==
    [key |-> key, inputs |-> inputs, outputs |-> outputs, mode |-> mode, pure |-> TRUE,
     disabled |-> FALSE, sink |-> FALSE, runSinks |-> FALSE, opaque |-> FALSE,
     subscribers |-> {}]

Document ==
    << Node("load", <<File>>, 2, "both"),
       Node("name", <<>>, 1, "ram"),
       Node("read", <<Path(2, 1), Need(Wire(1, 1))>>, 1, "disk"),
       [Node("show", <<Wire(1, 2), Need(Wire(3, 1))>>, 1, "none")
            EXCEPT !.sink = TRUE, !.pure = FALSE] >>

(* The loader is kept in RAM alone; the name is off.                          *)
Muted == [Document EXCEPT ![1].mode = "ram", ![2].disabled = TRUE]

(* The name is made anew by every run and fires the sink.                     *)
Ticking == [Document EXCEPT ![2].pure = FALSE, ![2].mode = "none",
                            ![2].subscribers = {4}, ![1].opaque = TRUE]

(* The loader loads no file and keeps nothing in RAM, the reader keeps nothing *)
(* at all, and the path producer has grown an output.                         *)
Lean == [Document EXCEPT ![1].mode = "disk", ![1].inputs = <<>>, ![3].mode = "none",
                         ![2].key = "names", ![2].outputs = 2]

MCPrograms == {Document, Muted, Ticking, Lean}

(* A producer of names always binds its first.                                *)
MCBinds == [key \in {"load", "name", "names", "read", "show"} |->
                IF key \in {"name", "names"} THEN {1} ELSE {}]

ASSUME MCPathsAreBound == PathsAreBound(MCPrograms)

Ask == [nodes |-> {}, sinks |-> FALSE, sources |-> FALSE, fired |-> {}]
MCSeeds == {[Ask EXCEPT !.sinks = TRUE], [Ask EXCEPT !.nodes = {3}],
            [Ask EXCEPT !.sources = TRUE], [Ask EXCEPT !.fired = {2}]}

(* A path producer of two ports, a sink that reads the first and a node that  *)
(* reads the file the second names.                                           *)
TwoPorts ==
    {<< Node("name", <<>>, 2, "ram"),
        [Node("show", <<Wire(1, 1)>>, 1, "none") EXCEPT !.sink = TRUE, !.pure = FALSE],
        Node("read", <<Path(1, 2)>>, 1, "both") >>}

MCPathSeeds == {[Ask EXCEPT !.sinks = TRUE], [Ask EXCEPT !.nodes = {3}]}
=============================================================================
