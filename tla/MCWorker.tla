------------------------------ MODULE MCWorker ------------------------------
(* Instances of Worker for TLC: two programs, the first with the events, so  *)
(* that an install can arm them, keep them or remove them, and one event's   *)
(* task can panic while the other's fires.                                   *)
EXTENDS Worker, HostCommands

CONSTANTS p1, p2, n1, n2, e1, e2, root

MCNodesOf  == (p1 :> {n1, n2}) @@ (p2 :> {n2})
MCEventsOf == (p1 :> {e1, e2}) @@ (p2 :> {})

(* The commands of an editor session, the ones a shared pair of programs     *)
(* tells apart.                                                              *)
MCEditorScripts ==
    {RunOnce(p1), RunNode(p2, n2), StartLoop(p1), StopLoop, ClearProgram,
     EvictNode(p1, n1)}

(* A host that also posts messages one at a time, as the worker's tests do.  *)
MCRawScripts ==
    {RunOnce(p1), StartLoop(p1), << <<RunNodes({n1})>> >>, << <<Update(p2)>> >>,
     << <<SetDiskStore(root), FlushAllCaches>> >>}

(* One of those is enough for a run whose planning fails. *)
MCScripts == MCEditorScripts \cup {<< <<RunNodes({n1})>> >>}
=============================================================================
