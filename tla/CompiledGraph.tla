---------------------------- MODULE CompiledGraph ----------------------------
(***************************************************************************)
(* A compiled program as everything but the engine sees it                 *)
(* (scenarium/src/exec/compile/compiled_graph.rs): a model value that      *)
(* answers which nodes it holds and which events its nodes declare.        *)
(***************************************************************************)
CONSTANTS
    Programs,   \* compiled programs a host may install
    Nodes,      \* node identities, which outlive any one program
    Events,     \* event ports: an emitter node and one of its events
    NodesOf,    \* the nodes each program holds
    EventsOf,   \* the events each program declares
    None,       \* an empty slot
    Empty       \* the empty program, which Clear installs

ASSUME ProgramAssumption ==
    /\ NodesOf \in [Programs -> SUBSET Nodes]
    /\ EventsOf \in [Programs -> SUBSET Events]
    /\ \A p \in Programs : NodesOf[p] = {} => EventsOf[p] = {}
    /\ None \notin Programs \cup {Empty}
    /\ Empty \notin Programs

(* What the installed program answers; the empty program holds nothing. *)
NodesIn(program)  == IF program \in Programs THEN NodesOf[program] ELSE {}
EventsIn(program) == IF program \in Programs THEN EventsOf[program] ELSE {}
=============================================================================
