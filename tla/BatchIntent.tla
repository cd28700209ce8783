----------------------------- MODULE BatchIntent -----------------------------
(***************************************************************************)
(* The messages a host sends the evaluation worker and the BatchIntent     *)
(* they merge into (scenarium/src/worker/batch_intent/mod.rs and           *)
(* protocol.rs).  A batch has one slot per kind of message, so the order   *)
(* messages arrived in is lost except where Push says otherwise.           *)
(***************************************************************************)
EXTENDS CompiledGraph, Naturals, Sequences

CONSTANT Stores   \* disk stores a host may attach, the memory-only one included

ASSUME StoreAssumption == None \notin Stores

-----------------------------------------------------------------------------
(* WorkerMessage, the variants a shipped build has. *)
Update(p)       == [type |-> "Update", program |-> p]
Clear           == [type |-> "Clear"]
EvictCache(ns)  == [type |-> "EvictCache", nodes |-> ns]
FlushCache(ns)  == [type |-> "FlushCache", nodes |-> ns]
FlushAllCaches  == [type |-> "FlushAllCaches"]
SetDiskStore(s) == [type |-> "SetDiskStore", store |-> s]
RunSinks        == [type |-> "RunSinks"]
RunNodes(ns)    == [type |-> "RunNodes", nodes |-> ns]
StartEventLoop  == [type |-> "StartEventLoop"]
StopEventLoop   == [type |-> "StopEventLoop"]

Message ==
    [type : {"Update"}, program : Programs]
      \cup [type : {"EvictCache", "FlushCache", "RunNodes"}, nodes : SUBSET Nodes]
      \cup [type : {"SetDiskStore"}, store : Stores]
      \cup [type : {"Clear", "FlushAllCaches", "RunSinks", "StartEventLoop", "StopEventLoop"}]

-----------------------------------------------------------------------------
(* BatchIntent, with the four fields of its RunSeeds inlined.  A Clear is the *)
(* installation of the empty program, so one slot holds both graph ops.       *)
Intent ==
    [graph    : Programs \cup {Empty, None},
     store    : Stores \cup {None},
     flushAll : BOOLEAN,
     loop     : {"none", "start", "stop"},
     sinks    : BOOLEAN,
     sources  : BOOLEAN,
     events   : SUBSET Events,
     nodes    : SUBSET Nodes,
     evict    : SUBSET Nodes,
     flush    : SUBSET Nodes]

EmptyIntent ==
    [graph |-> None, store |-> None, flushAll |-> FALSE, loop |-> "none",
     sinks |-> FALSE, sources |-> FALSE, events |-> {}, nodes |-> {},
     evict |-> {}, flush |-> {}]

(* RunSeeds::is_empty: no trigger on and nothing named. *)
NoSeeds(intent) ==
    ~intent.sinks /\ ~intent.sources /\ intent.events = {} /\ intent.nodes = {}

IsEmpty(intent) ==
    /\ intent.graph = None
    /\ intent.store = None
    /\ ~intent.flushAll
    /\ intent.loop = "none"
    /\ NoSeeds(intent)
    /\ intent.evict = {}
    /\ intent.flush = {}

(* Mutant: the seeds named before a graph op are kept. *)
InstallBesideSeeds(intent, program) == [intent EXCEPT !.graph = program]

(* A graph op supersedes the node seeds named before it: those the program   *)
(* lacks are void.  The sinks, the fired events and the other slots stay.     *)
InstallInto(intent, program) ==
    [intent EXCEPT !.graph = program, !.nodes = @ \cap NodesIn(program)]

(* BatchIntent::push *)
Push(intent, m) ==
    CASE m.type = "Update"         -> InstallInto(intent, m.program)
      [] m.type = "Clear"          -> InstallInto(intent, Empty)
      [] m.type = "EvictCache"     -> [intent EXCEPT !.evict = @ \cup m.nodes]
      [] m.type = "FlushCache"     -> [intent EXCEPT !.flush = @ \cup m.nodes]
      [] m.type = "FlushAllCaches" -> [intent EXCEPT !.flushAll = TRUE]
      [] m.type = "SetDiskStore"   -> [intent EXCEPT !.store = m.store]
      [] m.type = "RunSinks"       -> [intent EXCEPT !.sinks = TRUE]
      [] m.type = "RunNodes"       -> [intent EXCEPT !.nodes = @ \cup m.nodes]
      [] m.type = "StartEventLoop" -> [intent EXCEPT !.loop = "start"]
      [] m.type = "StopEventLoop"  -> [intent EXCEPT !.loop = "stop"]

(* RunSeeds::add_events: the events the running loop fired, beside any message. *)
AddEvents(intent, fired) == [intent EXCEPT !.events = @ \cup fired]

(* Mutant: an install leaves a running loop alone. *)
TransitionOnRequestOnly(intent, loopActive) ==
    CASE intent.loop = "start" -> "Rebuild"
      [] intent.loop = "stop"  -> "Stop"
      [] OTHER -> "Preserve"

(* EventLoopTransition::for_intent *)
Transition(intent, loopActive) ==
    CASE intent.loop = "start" -> "Rebuild"
      [] intent.loop = "stop"  -> "Stop"
      [] intent.loop = "none" /\ loopActive /\ intent.graph # None -> "Rebuild"
      [] OTHER -> "Preserve"
=============================================================================
