----------------------------- MODULE DocumentCache -----------------------------
(***************************************************************************)
(* The document beside its disk store: the editor opens, saves and runs    *)
(* documents (gui/app/mod.rs over core/runtime_host), each with a cache    *)
(* root beside its file, and the worker keeps values in RAM and writes     *)
(* their blobs into the store attached when it does.  The posts of a       *)
(* command, and those of commands after it, fall into batches in every     *)
(* way the worker's wakes allow (Worker).                                  *)
(*                                                                         *)
(* A value is its node's, current under its digest; a node is disk-backed  *)
(* in Both mode.  The store does not fail here (RunLoop has its faults).   *)
(***************************************************************************)
EXTENDS Worker, HostCommands

CONSTANTS
    Documents,   \* what the editor may have open
    DocumentOf,  \* the document each program was compiled from
    Unsaved,     \* the document open at first, which has no file yet
    Saved,       \* the roots of the documents on disk at first
    Memory,      \* the store of a document without a file
    HomeOf,      \* the document each cache root stands beside the file of
    Backed,      \* the nodes cached in RAM and on disk
    Readers      \* a node and all downstream of it

Roots == Stores \ {Memory}

ASSUME CacheAssumption ==
    /\ DocumentOf \in [Programs -> Documents]
    /\ Memory \in Stores
    /\ HomeOf \in [Roots -> Documents]
    /\ Saved \subseteq Roots
    /\ Unsaved \in Documents \ {HomeOf[r] : r \in Saved}
    /\ Backed \subseteq Nodes
    /\ Readers \in [Nodes -> SUBSET Nodes]
    /\ \A p, q \in Programs :
          NodesOf[p] \cap NodesOf[q] # {} => DocumentOf[p] = DocumentOf[q]

VARIABLES
    open,      \* the document on the screen
    root,      \* RuntimeHost::disk_root
    files,     \* the roots whose document was saved beside them
    begun,     \* history: the documents the editor has had open
    resident,  \* the disk-backed nodes with a value in RAM
    owed,      \* ...of which no blob is believed to be written
    blobs      \* the blobs on disk: the root and the node of each

hostCacheVars == <<open, root, files, begun>>
diskVars == <<resident, owed, blobs>>
cacheVars == <<vars, hostCacheVars, diskVars>>

CacheInit ==
    /\ Init
    /\ open = Unsaved /\ root = Memory /\ begun = {Unsaved}
    /\ files = Saved
    /\ resident = {} /\ owed = {} /\ blobs = {}

-----------------------------------------------------------------------------
(* The editor *)

\* Mutant: the sweep is asked for before the store it is for.
RootChangeSweepFirst(prev, cur) ==
    IF prev = cur THEN <<>>
    ELSE (IF prev = Memory THEN << <<FlushAllCaches>> >> ELSE <<>>)
            \o << <<SetDiskStore(cur)>> >>

\* RuntimeHost::set_document_cache: only a root gained owes a sweep.
RootChange(prev, cur) ==
    IF prev = cur THEN <<>>
    ELSE << <<SetDiskStore(cur)>> >>
            \o (IF prev = Memory THEN << <<FlushAllCaches>> >> ELSE <<>>)

Adopt(prev, cur) == ClearProgram \o RootChange(prev, cur)

Ask(posts) == HostCall(posts) /\ UNCHANGED <<hostCacheVars, diskVars>>

\* The commands of an edit session, over the programs of the open document.
Command ==
    \E p \in {q \in Programs : DocumentOf[q] = open} :
        \/ Ask(RunOnce(p))
        \/ \E n \in NodesOf[p] :
              Ask(RunNode(p, n)) \/ Ask(EvictNode(p, n)) \/ Ask(FlushNode(p, n))

\* load_document, through adopt_document.
OpenFile(r) ==
    /\ r \in files
    /\ HostCall(Adopt(root, r))
    /\ open' = HomeOf[r] /\ root' = r /\ begun' = begun \cup {open'}
    /\ UNCHANGED <<files, diskVars>>

\* new_document: one never seen before, whose nodes have ids of their own.
NewDocument(d) ==
    /\ d \notin begun \cup {HomeOf[r] : r \in Saved}
    /\ HostCall(Adopt(root, Memory))
    /\ open' = d /\ root' = Memory /\ begun' = begun \cup {d}
    /\ UNCHANGED <<files, diskVars>>

\* save_document, first or elsewhere; a save in place posts nothing.
SaveTo(r) ==
    /\ HomeOf[r] = open /\ r # root
    /\ HostCall(RootChange(root, r))
    /\ root' = r /\ files' = files \cup {r}
    /\ UNCHANGED <<open, begun, diskVars>>

-----------------------------------------------------------------------------
(* The worker *)

Written(s, nodes) == IF s \in Roots THEN {s} \X nodes ELSE {}
Owing(s, nodes) == IF s \in Roots THEN {} ELSE nodes

\* Mutant: the sweep goes by the program the batch replaces.
ApplyAndSweepFirst ==
    /\ ApplyCommands
    /\ LET swept == IF intent.flushAll THEN resident ELSE {}
           kept  == resident \cap NodesIn(installed')
       IN  /\ resident' = kept
           /\ owed' = (owed \cap kept) \ (swept \ Owing(store', swept))
           /\ blobs' = blobs \cup Written(store', swept)
    /\ UNCHANGED hostCacheVars

(* The batch's commands in the order of apply_intent: an install keeps what  *)
(* its program still holds, the store is attached, the cones evicted lose    *)
(* value and blob, and what is left to flush is written.                     *)
ApplyToDisk ==
    /\ ApplyCommands
    /\ LET held    == IF intent.graph = None THEN resident
                      ELSE resident \cap NodesIn(installed')
           evicted == UNION {Readers[n] : n \in intent.evict \cap NodesIn(installed')}
                        \cap NodesIn(installed')
           kept    == held \ evicted
           flushed == IF intent.flushAll THEN kept ELSE kept \cap intent.flush
       IN  /\ resident' = kept
           /\ owed' = (owed \cap kept) \ (flushed \ Owing(store', flushed))
           /\ blobs' = (blobs \ Written(store', evicted)) \cup Written(store', flushed)
    /\ UNCHANGED hostCacheVars

(* The next node of a run, when it is disk-backed: its value is computed and *)
(* stored as it finishes...                                                  *)
Compute(n) ==
    /\ resident' = resident \cup {n}
    /\ owed' = (owed \ {n}) \cup Owing(store, {n})
    /\ blobs' = blobs \cup Written(store, {n})

(* ...or served from RAM, with the blob it owes settled...                   *)
Serve(n) ==
    /\ n \in resident
    /\ owed' = owed \ ({n} \ Owing(store, {n}))
    /\ blobs' = blobs \cup (IF n \in owed THEN Written(store, {n}) ELSE {})
    /\ UNCHANGED resident

(* ...or loaded from its blob.                                               *)
Load(n) ==
    /\ n \notin resident /\ <<store, n>> \in blobs
    /\ resident' = resident \cup {n}
    /\ UNCHANGED <<owed, blobs>>

RunNodeToDisk ==
    /\ RunNextNode
    /\ \/ UNCHANGED diskVars
       \/ \E n \in Backed \cap NodesIn(installed) : Compute(n) \/ Serve(n) \/ Load(n)
    /\ UNCHANGED hostCacheVars

CacheNext ==
    \/ Command
    \/ \E r \in Roots : OpenFile(r) \/ SaveTo(r)
    \/ \E d \in Documents : NewDocument(d)
    \/ ApplyToDisk \/ RunNodeToDisk
    \/ /\ \/ HostStep \/ ExitShutdown
          \/ ShutdownWake \/ MailboxWake \/ TakeBatch \/ CommitBatch
          \/ SkipRun \/ RefuseRun \/ BeginRun \/ PlanRun \/ FinishRun \/ Yield
          \/ DrainAndEnd
       /\ UNCHANGED <<hostCacheVars, diskVars>>

CacheSpec == CacheInit /\ [][CacheNext]_cacheVars

-----------------------------------------------------------------------------
(* A blob lies only in a root of its own document: neither a batch that      *)
(* joins a swap to what was asked before it, nor one that parts them, sweeps *)
(* or runs one document into the store of another (worker_task/mod.rs:220,   *)
(* runtime_host/mod.rs:187).                                                 *)
BlobsStayHome ==
    \A b \in blobs : \E p \in Programs :
        DocumentOf[p] = HomeOf[b[1]] /\ b[2] \in NodesOf[p]

Quiet ==
    /\ hostPc = "idle" /\ pc = "poll" /\ ~closed
    /\ IsEmpty(pending)

(* At rest the worker's store is the one the host attached last, and under a *)
(* root no resident value owes a blob: what was computed before a document   *)
(* had a file is in the root its first save gave it.                         *)
SavedValuesAreKept ==
    Quiet =>
        /\ store \in {root} \cup (IF root = Memory THEN {None} ELSE {})
        /\ root \in Roots => owed = {}
=============================================================================
