---------------------------- MODULE HostCommands ----------------------------
(***************************************************************************)
(* The commands the editor's RuntimeHost gives the worker                  *)
(* (darkroom/src/core/runtime_host/mod.rs over worker_bridge/mod.rs).  A   *)
(* command is a script: the posts it makes one after the other, each post  *)
(* the messages one send merges under the mailbox lock.  The worker may    *)
(* wake between two posts of a script, never between two messages of one.  *)
(***************************************************************************)
EXTENDS BatchIntent

RunOnce(p)      == << <<Update(p)>>, <<RunSinks>> >>
RunNode(p, n)   == << <<Update(p)>>, <<RunNodes({n})>> >>
EvictNode(p, n) == << <<Update(p), EvictCache({n}), StopEventLoop>> >>
FlushNode(p, n) == << <<Update(p), FlushCache({n})>> >>
StartLoop(p)    == << <<Update(p)>>, <<StartEventLoop>> >>
StopLoop        == << <<StopEventLoop>> >>
ClearProgram    == << <<Clear>> >>

(* A command that names a node is refused before it reaches the worker when  *)
(* the program just compiled holds no work for it (compiled_for).            *)
NamingScripts ==
    UNION {UNION {{RunNode(p, n), EvictNode(p, n), FlushNode(p, n)} : n \in NodesOf[p]} :
              p \in Programs}

EditorScripts ==
    {RunOnce(p) : p \in Programs} \cup {StartLoop(p) : p \in Programs}
      \cup {StopLoop, ClearProgram} \cup NamingScripts

(* What every editor command obeys: a node is named to run only in a post    *)
(* after the one that installed, in the same script, a program holding it.   *)
NamesOnlyInstalled(script) ==
    \A k \in DOMAIN script : \A i \in DOMAIN script[k] :
        script[k][i].type = "RunNodes" =>
            \E p \in Programs :
                /\ script[k][i].nodes \subseteq NodesOf[p]
                /\ k = 2 /\ script[1] = <<Update(p)>>
                /\ Len(script) = 2 /\ Len(script[2]) = 1
=============================================================================
