-------------------------------- MODULE RunLoop --------------------------------
(***************************************************************************)
(* The execution engine: a run is planned, keyed, swept against the cache  *)
(* and walked node by node (scenarium/src/exec: engine, executor, resolve, *)
(* cache/runtime_cache, cache/runtime_slot, cache/disk_store).             *)
(*                                                                         *)
(* A value is the term of what computed it: the node's key, what each      *)
(* input delivered, and the run for a node that is not pure.  A digest is  *)
(* a term of the same shape, built from the digests of the producers, so a *)
(* digest that tells the truth about a value equals it.  Every term lists  *)
(* the versions of the file it mentions.                                   *)
(***************************************************************************)
EXTENDS RunSchedule

CONSTANTS
    Seeds,       \* what a run may be asked for
    None,
    Binds,       \* by key, the ports a lambda binds whatever is demanded of it
    MaxRuns,     \* bound: runs begun
    MaxFaults,   \* bound: stores, removals and identifications that fail, blobs that rot
    MaxFile      \* bound: versions of the file the path inputs name

VARIABLES
    program,     \* ExecEngine::compiled
    slots,       \* RuntimeCache::slots: each node's current digest and value
    disk,        \* the blob under each node's name
    file,        \* the version of the file on disk
    phase,       \* "rest" or "run"
    seeds,       \* the seeds of this run or the last
    state,       \* RunSchedule::states
    demand,      \* ResolvedOutputs::demand, by node
    reads,       \* RemainingOutputReads::counts, by node and port
    outcome,     \* NodeOutcome of each node
    turn,        \* the node in the middle of its turn, and how far it is
    memo,        \* PathIdentities::cur: the version identified this run, 0 before
    cancelled,   \* the run's CancelToken
    runs,        \* runs begun
    faults,      \* faults spent
    calm,        \* history: the file has not changed under this run
    evicted      \* nodes evicted from RAM and disk that have not run since

cacheVars == <<slots, disk>>
world     == <<file, calm>>
planVars  == <<seeds, state, demand>>
runVars   == <<phase, reads, outcome, turn, memo, cancelled>>
vars == <<program, cacheVars, world, planVars, runVars, runs, faults, evicted>>

NoTurn    == [node |-> 0, at |-> "none", made |-> None]

(* What a slot without a value and a name without a blob hold.               *)
Nothing   == [ports |-> {}]
EmptySlot == [cur |-> None, val |-> Nothing]

(* What an input contributes to a term, and the term it contributes to.      *)
Unset              == [names |-> {}]
Named(v)           == [names |-> {v}]
Output(t, p)       == [names |-> t.names, of |-> t, port |-> p]
NamedBy(t, p, v)   == [names |-> t.names \cup {v}, of |-> t, port |-> p, file |-> v]
Term(key, ins, run) ==
    [key |-> key, ins |-> ins, run |-> run,
     names |-> UNION {ins[k].names : k \in DOMAIN ins}]

Ram(n)  == CachesInRam(program, n)
Disk(n) == PersistsToDisk(program, n)

(* RuntimeSlot::cur_snapshot and OutputSnapshot::covers_demand.              *)
IsCurrent(slot) == slot.val # Nothing /\ slot.cur # None /\ slot.val.under = slot.cur
IsResidentHit(slot, wanted) == IsCurrent(slot) /\ wanted \subseteq slot.val.ports

(* BlobTarget::covers_demand: what the blob's header answers.                *)
Covers(blob, digest, wanted, arity) ==
    /\ blob # Nothing /\ digest # None /\ blob.digest = digest
    /\ blob.arity = arity /\ wanted \subseteq blob.ports

Init ==
    /\ program = <<>>
    /\ slots = [n \in Nodes |-> EmptySlot]
    /\ disk = [n \in Nodes |-> Nothing]
    /\ file = 1
    /\ phase = "rest" /\ seeds = None
    /\ state = <<>> /\ demand = <<>> /\ reads = <<>> /\ outcome = <<>>
    /\ turn = NoTurn /\ memo = 0 /\ cancelled = FALSE
    /\ runs = 0 /\ faults = 0 /\ calm = TRUE /\ evicted = {}

-----------------------------------------------------------------------------
(* Between runs.                                                             *)

(* RuntimeCache::release_dead_outputs: keep what may be a RAM hit under g.   *)
Alive(g, n, slot) ==
    /\ CachesInRam(g, n) /\ g[n].pure
    /\ slot.val # Nothing /\ slot.val.arity = g[n].outputs /\ IsCurrent(slot)

ReleaseDead(g, s) ==
    [n \in Nodes |-> IF n \in DOMAIN g /\ ~Alive(g, n, s[n])
                     THEN [s[n] EXCEPT !.val = Nothing] ELSE s[n]]

(* RuntimeSlot::reconsider_unwritable_blob                                   *)
Reconsidered(slot) ==
    IF slot.val # Nothing /\ slot.val.blob = "unwritable"
    THEN [slot EXCEPT !.val.blob = "owed"] ELSE slot

(* ExecEngine::install, by CompiledGraph::realign.                           *)
Realigned(g) ==
    [n \in Nodes |-> IF n \in DOMAIN g \cap DOMAIN program THEN Reconsidered(slots[n])
                     ELSE EmptySlot]

Install(g) ==
    /\ phase = "rest"
    /\ program' = g
    /\ slots' = ReleaseDead(g, Realigned(g))
    /\ evicted' = {}
    /\ UNCHANGED <<disk, world, planVars, runVars, runs, faults>>

(* ExecEngine::clear                                                         *)
Clear ==
    /\ phase = "rest"
    /\ program' = <<>>
    /\ slots' = [n \in Nodes |-> EmptySlot] /\ memo' = 0
    /\ evicted' = {}
    /\ UNCHANGED <<disk, world, planVars, phase, reads, outcome, turn, cancelled, runs,
                   faults>>

(* Mutant: the node alone, its consumers left to reuse and prune it.         *)
TheNodesAlone(from) == from

(* The nodes an eviction takes.                                              *)
EvictedWith(from) == ConsumerCone(program, from)

(* RuntimeCache::evict: a node whose blob will not go keeps its value.       *)
Evict(from) ==
    /\ phase = "rest"
    /\ LET cone == EvictedWith(from) IN
       \E stuck \in SUBSET {n \in cone : disk[n] # Nothing} :
        /\ faults' = faults + Cardinality(stuck) /\ faults' <= MaxFaults
        /\ disk' = [n \in Nodes |-> IF n \in cone \ stuck THEN Nothing ELSE disk[n]]
        /\ slots' = [n \in Nodes |-> IF n \in cone \ stuck
                                     THEN [slots[n] EXCEPT !.val = Nothing] ELSE slots[n]]
        /\ evicted' = IF stuck = {} THEN evicted \cup cone ELSE evicted
    /\ UNCHANGED <<program, world, planVars, runVars, runs>>

(* RuntimeCache::store_node: what the slot believes and the disk holds after *)
(* a store of this slot under a StorePolicy.                                 *)
Stores(n, slot, policy) ==
    IF ~Disk(n) \/ ~IsCurrent(slot)
    THEN {[slot |-> slot, blob |-> disk[n], fault |-> 0]}
    ELSE LET noted(belief) == [slot EXCEPT !.val.blob = belief]
             fresh == [digest |-> slot.cur, ports |-> slot.val.ports, made |-> slot.val.made,
                       arity |-> slot.val.arity, intact |-> TRUE]
         IN CASE program[n].opaque ->
                    {[slot |-> noted("unwritable"), blob |-> disk[n], fault |-> 0]}
              [] ~program[n].opaque /\ policy = "PreserveCovering"
                 /\ Covers(disk[n], slot.cur, slot.val.ports, slot.val.arity) ->
                    {[slot |-> noted("written"), blob |-> disk[n], fault |-> 0]}
              [] OTHER ->
                    {[slot |-> noted("written"), blob |-> fresh, fault |-> 0],
                     [slot |-> noted("owed"), blob |-> disk[n], fault |-> 1]}

(* RuntimeCache::flush, over one of the nodes it walks.                      *)
Flush(n) ==
    /\ phase = "rest" /\ n \in DOMAIN program
    /\ \E s \in Stores(n, slots[n], "PreserveCovering") :
        /\ slots' = [slots EXCEPT ![n] = s.slot]
        /\ disk' = [disk EXCEPT ![n] = s.blob]
        /\ faults' = faults + s.fault /\ faults' <= MaxFaults
    /\ UNCHANGED <<program, world, planVars, runVars, runs, evicted>>

-----------------------------------------------------------------------------
(* RuntimeCache::node_digest.                                                *)

(* hash_bound_fs_path: the producer's current value at the port; None is a   *)
(* path not readable yet, 0 the marker of a value that is no path.           *)
BoundPath(slot, port, known) ==
    IF ~IsCurrent(slot) THEN None
    ELSE IF port \notin slot.val.ports THEN 0
    ELSE IF known = 0 THEN None ELSE known

(* What one input contributes to the digest; None is not known yet.          *)
FoldedInput(i, delivery, s, cur, known) ==
    LET path == BoundPath([s[i.from] EXCEPT !.cur = cur[i.from]], i.port, known) IN
    CASE delivery = "unbound" -> Unset
      [] delivery = "file" -> IF known = 0 THEN None ELSE Named(known)
      [] OTHER -> IF cur[i.from] = None THEN None
                  ELSE IF ~i.path THEN Output(cur[i.from], i.port)
                  ELSE IF path = None THEN None ELSE NamedBy(cur[i.from], i.port, path)

(* Mutant: a wire folds its producer's stamp, whether or not the run skips   *)
(* the producer.                                                             *)
FoldedByBinding(i, st, s, cur, known) == FoldedInput(i, i.kind, s, cur, known)

Folded(i, st, s, cur, known) == FoldedInput(i, Delivery(i, st), s, cur, known)

Keyed(g, n, st, s, cur, known) ==
    LET items == [k \in DOMAIN g[n].inputs |-> Folded(g[n].inputs[k], st, s, cur, known)]
    IN  IF ~g[n].pure \/ \E k \in DOMAIN items : items[k] = None THEN None
        ELSE Term(g[n].key, items, 0)

(* RuntimeCache::stamp_digests: every runnable node, producers first.        *)
Keys(g, st, s, known) ==
    LET cur[n \in DOMAIN g] ==
        IF IsRunnable(st[n]) THEN Keyed(g, n, st, s, cur, known) ELSE s[n].cur
    IN  cur

Stamps(g, st, s, known) ==
    LET cur == Keys(g, st, s, known)
    IN  [n \in Nodes |-> IF n \in DOMAIN g THEN [s[n] EXCEPT !.cur = cur[n]] ELSE s[n]]

(* request_node_paths: whether n reads a path that can be named by now.      *)
RequestsPath(g, n, s) ==
    g[n].pure /\ \E k \in DOMAIN g[n].inputs :
        LET i == g[n].inputs[k] IN
            \/ i.kind = "file"
            \/ i.kind = "wire" /\ i.path /\ s[i.from].val # Nothing
                /\ i.port \in s[i.from].val.ports

(* RuntimeCache::probe_reuse                                                 *)
Reusable(g, n, slot, wanted) ==
    \/ IsResidentHit(slot, wanted)
    \/ PersistsToDisk(g, n) /\ Covers(disk[n], slot.cur, wanted, g[n].outputs)

Served(g, s) ==
    [n \in DOMAIN g |-> {wanted \in SUBSET Ports(g, n) : Reusable(g, n, s[n], wanted)}]

(* ExecEngine::execute up to the run loop: plan, prepare, sweep.  The cancel *)
(* may have landed by then, and stops the identification.                    *)
Asked(asked) ==
    /\ asked.nodes \subseteq DOMAIN program
    /\ \A e \in asked.fired : e \in DOMAIN program /\ program[e].subscribers # {}

(* Mutant: the memo of the last run is still there.                          *)
PrepareOnOldMemo(st, c) ==
    /\ memo' = IF memo # 0 THEN memo
               ELSE IF \E n \in DOMAIN program :
                        IsRunnable(st[n]) /\ RequestsPath(program, n, slots)
                    THEN file ELSE 0
    /\ faults' = faults

Prepare(st, c) ==
    LET named == \E n \in DOMAIN program :
                    IsRunnable(st[n]) /\ RequestsPath(program, n, slots)
    IN  \/ named /\ memo' = file /\ faults' = faults
        \/ named /\ memo' = 0 /\ faults' = faults + (IF c THEN 0 ELSE 1)
        \/ ~named /\ memo' = 0 /\ faults' = faults

BeginRun(asked) ==
    /\ phase = "rest" /\ runs < MaxRuns /\ program # <<>>
    /\ Asked(asked)
    /\ \E c \in BOOLEAN, planned \in {[n \in DOMAIN program |-> Plan(program, asked)[n]]} :
        /\ cancelled' = c
        /\ Prepare(planned, c) /\ faults' <= MaxFaults
        /\ slots' = Stamps(program, planned, slots, memo')
        /\ state' = Sweep(program, asked, planned, Served(program, slots'))
    /\ demand' = [n \in DOMAIN program |->
                    Demand(program, asked, state', Running(program, state'), n)]
    /\ reads' = Readers(program, state')
    /\ outcome' = [n \in DOMAIN program |-> "Pending"]
    /\ phase' = "run" /\ seeds' = asked /\ runs' = runs + 1 /\ turn' = NoTurn
    /\ calm' = TRUE
    /\ UNCHANGED <<program, disk, file, evicted>>

-----------------------------------------------------------------------------
(* Reads, taken or given up: each counts down, and a producer that keeps no  *)
(* RAM copy lets go of a port, then of the slot, once nothing will read it.  *)
ReadsLeft(consumers) ==
    [n \in DOMAIN program |-> [p \in Ports(program, n) |->
        reads[n][p] - Cardinality(ReadsOf(program, state, consumers, n, p))]]

Drained(left, n) == \A p \in Ports(program, n) : left[n][p] = 0

(* Mutant: the whole value goes with the first port nothing will read.       *)
LetGoAtFirstPort(s, left) ==
    [n \in Nodes |->
        IF /\ n \in DOMAIN program /\ s[n].val # Nothing /\ ~Ram(n)
           /\ \E p \in Ports(program, n) : reads[n][p] > 0 /\ left[n][p] = 0
        THEN [s[n] EXCEPT !.val = Nothing] ELSE s[n]]

LetGo(s, left) ==
    [n \in Nodes |->
        IF n \notin DOMAIN program \/ s[n].val = Nothing THEN s[n]
        ELSE LET spent == {p \in Ports(program, n) : reads[n][p] > 0 /\ left[n][p] = 0} IN
            IF Ram(n) \/ spent = {} THEN s[n]
            ELSE IF Drained(left, n) THEN [s[n] EXCEPT !.val = Nothing]
            ELSE [s[n] EXCEPT !.val.ports = @ \ spent]]

(* Mutant: a value nobody reads is never released.                           *)
ReleaseNothing(n, slot) == slot

(* release_drained_outputs                                                   *)
ReleaseDrained(n, slot) ==
    IF ~Ram(n) /\ Drained(reads, n) THEN [slot EXCEPT !.val = Nothing] ELSE slot

(* A node whose turn has come: every producer the run schedules had its own. *)
Ready(n) ==
    /\ phase = "run" /\ ~cancelled /\ turn = NoTurn
    /\ n \in DOMAIN program /\ outcome[n] = "Pending"
    /\ \A m \in Producers(program, n) : IsRunnable(state[m]) => outcome[m] # "Pending"

Settle(n, how) == outcome' = [outcome EXCEPT ![n] = how]

(* mark_skipped                                                              *)
Skip(n) == Settle(n, "Skipped") /\ slots' = [slots EXCEPT ![n].val = Nothing]

(* run_node of a node the sweep cut.                                         *)
PassCut(n) ==
    /\ Ready(n) /\ state[n] = "Cut"
    /\ Settle(n, "Cut")
    /\ UNCHANGED <<program, cacheVars, world, planVars, phase, reads, turn, memo,
                   cancelled, runs, faults, evicted>>

(* hydrate_reuse over a slot: a resident value settles the blob it owes, a   *)
(* blob is decoded into the slot, or deleted when it will not decode.        *)
Hydrated(n, slot) ==
    IF IsResidentHit(slot, demand[n])
    THEN IF slot.val.blob = "owed" THEN Stores(n, slot, "PreserveCovering")
         ELSE {[slot |-> slot, blob |-> disk[n], fault |-> 0]}
    ELSE IF Disk(n) /\ Covers(disk[n], slot.cur, demand[n], program[n].outputs) /\ disk[n].intact
    THEN {[slot |-> [slot EXCEPT !.val =
              [made |-> disk[n].made, ports |-> disk[n].ports, under |-> slot.cur,
               blob |-> "written", arity |-> program[n].outputs]],
           blob |-> disk[n], fault |-> 0]}
    ELSE {}

(* The blobs a miss may leave: one that does not decode is removed, unless   *)
(* the removal fails.                                                        *)
MissedBlobs(n, slot) ==
    IF Disk(n) /\ Covers(disk[n], slot.cur, demand[n], program[n].outputs)
    THEN {[blob |-> Nothing, fault |-> 0], [blob |-> disk[n], fault |-> 1]}
    ELSE {[blob |-> disk[n], fault |-> 0]}

(* ExecFrame::serve_reuse                                                    *)
ServeReuse(n) ==
    /\ Ready(n) /\ state[n] = "Reuse"
    /\ \/ \E h \in Hydrated(n, slots[n]) :
            /\ slots' = [slots EXCEPT ![n] = ReleaseDrained(n, h.slot)]
            /\ disk' = [disk EXCEPT ![n] = h.blob]
            /\ faults' = faults + h.fault
            /\ Settle(n, "Reused")
       \/ /\ Hydrated(n, slots[n]) = {}
          /\ \E m \in MissedBlobs(n, slots[n]) :
                disk' = [disk EXCEPT ![n] = m.blob] /\ faults' = faults + m.fault
          /\ Skip(n)
    /\ faults' <= MaxFaults
    /\ UNCHANGED <<program, world, planVars, phase, reads, turn, memo, cancelled, runs,
                   evicted>>

-----------------------------------------------------------------------------
(* needs_invoke of a node without a digest: its paths are identified now     *)
(* that its producers have settled, and the digest they complete may hit.    *)
Unkeyed(n) == Ready(n) /\ state[n] = "Run" /\ slots[n].cur = None

Unidentified(n) == memo = 0 /\ RequestsPath(program, n, slots)

IdentifyCancelled(n) ==
    /\ Unkeyed(n) /\ Unidentified(n)
    /\ cancelled' = TRUE
    /\ Skip(n)
    /\ UNCHANGED <<program, disk, world, planVars, phase, reads, turn, memo, runs, faults,
                   evicted>>

IdentifyFails(n) ==
    /\ Unkeyed(n) /\ Unidentified(n)
    /\ faults < MaxFaults /\ faults' = faults + 1
    /\ turn' = [NoTurn EXCEPT !.node = n, !.at = "keyed"]
    /\ UNCHANGED <<program, cacheVars, world, planVars, phase, reads, outcome, memo,
                   cancelled, runs, evicted>>

Restamped(n) ==
    [slots[n] EXCEPT !.cur = Keyed(program, n, state, slots,
                                   [m \in DOMAIN program |-> slots[m].cur], memo')]

Identify(n) == memo' = IF Unidentified(n) THEN file ELSE memo

(* Mutant: a node served late keeps the reads it was counted for.            *)
LateServeKeepsReads(n) ==
    /\ Unkeyed(n) /\ Identify(n)
    /\ \E h \in Hydrated(n, Restamped(n)) :
        /\ slots' = [slots EXCEPT ![n] = ReleaseDrained(n, h.slot)]
        /\ disk' = [disk EXCEPT ![n] = h.blob]
        /\ faults' = faults + h.fault /\ faults' <= MaxFaults
    /\ Settle(n, "Reused")
    /\ UNCHANGED <<program, world, planVars, phase, reads, turn, cancelled, runs, evicted>>

LateServe(n) ==
    /\ Unkeyed(n) /\ Identify(n)
    /\ \E h \in Hydrated(n, Restamped(n)) :
        /\ reads' = ReadsLeft({n})
        /\ slots' = LetGo([slots EXCEPT ![n] = ReleaseDrained(n, h.slot)], reads')
        /\ disk' = [disk EXCEPT ![n] = h.blob]
        /\ faults' = faults + h.fault /\ faults' <= MaxFaults
    /\ Settle(n, "Reused")
    /\ UNCHANGED <<program, world, planVars, phase, turn, cancelled, runs, evicted>>

LateMiss(n) ==
    /\ Unkeyed(n) /\ Identify(n)
    /\ Hydrated(n, Restamped(n)) = {}
    /\ slots' = [slots EXCEPT ![n] = Restamped(n)]
    /\ \E m \in MissedBlobs(n, Restamped(n)) :
        /\ disk' = [disk EXCEPT ![n] = m.blob]
        /\ faults' = faults + m.fault /\ faults' <= MaxFaults
    /\ turn' = [NoTurn EXCEPT !.node = n, !.at = "keyed"]
    /\ UNCHANGED <<program, world, planVars, phase, reads, outcome, cancelled, runs,
                   evicted>>

-----------------------------------------------------------------------------
(* ExecFrame::invoke_node.                                                   *)
ToInvoke(n) ==
    \/ Ready(n) /\ state[n] = "Run" /\ slots[n].cur # None
    \/ turn.at = "keyed" /\ turn.node = n

HasErroredDependency(n) ==
    \E m \in Producers(program, n) : outcome[m] \in {"Failed", "Skipped"}

SkipUpstream(n) ==
    /\ ToInvoke(n) /\ HasErroredDependency(n)
    /\ reads' = ReadsLeft({n})
    /\ slots' = LetGo([slots EXCEPT ![n].val = Nothing], reads')
    /\ Settle(n, "Skipped")
    /\ turn' = NoTurn
    /\ UNCHANGED <<program, disk, world, planVars, phase, memo, cancelled, runs, faults,
                   evicted>>

(* collect_inputs: what the lambda is handed, and what it reads of the file  *)
(* a path input names.                                                       *)
Delivered(i) ==
    LET val == slots[i.from].val IN
    CASE Delivery(i, state) = "unbound" -> Unset
      [] Delivery(i, state) = "file" -> Named(file)
      [] OTHER -> IF i.port \notin val.ports THEN Unset
                  ELSE IF i.path THEN NamedBy(val.made, i.port, file)
                  ELSE Output(val.made, i.port)

Stamp(n) == IF program[n].pure THEN 0 ELSE runs

Computed(n) ==
    Term(program[n].key,
         [k \in DOMAIN program[n].inputs |-> Delivered(program[n].inputs[k])], Stamp(n))

(* invoke_outputs: the buffer is emptied in place and keeps its old stamp.   *)
InvokeBuffer(n) ==
    LET kept == IF slots[n].val = Nothing THEN [under |-> None, blob |-> "owed"]
                ELSE slots[n].val
    IN  [slots[n] EXCEPT !.val =
            [made |-> None, ports |-> {}, under |-> kept.under, blob |-> kept.blob,
             arity |-> program[n].outputs]]

StartInvoke(n) ==
    /\ ToInvoke(n) /\ ~HasErroredDependency(n)
    /\ turn' = [node |-> n, at |-> "invoking", made |-> Computed(n)]
    /\ reads' = ReadsLeft({n})
    /\ slots' = LetGo([slots EXCEPT ![n] = InvokeBuffer(n)], reads')
    /\ UNCHANGED <<program, disk, world, planVars, phase, outcome, memo, cancelled, runs,
                   faults, evicted>>

(* Mutant: the buffer keeps the blob it carried for the value before.        *)
ProducedKeepsBelief(n, ports) ==
    [slots[n] EXCEPT !.val = [made |-> turn.made, ports |-> ports, under |-> slots[n].cur,
                              blob |-> @.blob, arity |-> @.arity]]

(* RuntimeSlot::stamp_produced                                               *)
Produced(n, ports) ==
    [slots[n] EXCEPT !.val = [made |-> turn.made, ports |-> ports, under |-> slots[n].cur,
                              blob |-> "owed", arity |-> @.arity]]

(* A lambda that returns with every demanded port bound, in a run nobody     *)
(* cancelled: stamp_produced, then the store.  It may bind others too, and   *)
(* some it always binds.                                                     *)
Succeed(n) ==
    /\ turn.at = "invoking" /\ turn.node = n /\ ~cancelled
    /\ \E ports \in SUBSET Ports(program, n) :
        /\ demand[n] \cup Binds[program[n].key] \subseteq ports
        /\ \E s \in Stores(n, Produced(n, ports), "KnownMiss") :
            /\ slots' = [slots EXCEPT ![n] = ReleaseDrained(n, s.slot)]
            /\ disk' = [disk EXCEPT ![n] = s.blob]
            /\ faults' = faults + s.fault /\ faults' <= MaxFaults
    /\ Settle(n, "Ran")
    /\ turn' = NoTurn
    /\ evicted' = evicted \ {n}
    /\ UNCHANGED <<program, world, planVars, phase, reads, memo, cancelled, runs>>

(* ...and any other end of it: an error, a port it left unbound, a cancel.   *)
Fail(n) ==
    /\ turn.at = "invoking" /\ turn.node = n
    /\ slots' = [slots EXCEPT ![n].val = Nothing]
    /\ Settle(n, "Failed")
    /\ turn' = NoTurn
    /\ UNCHANGED <<program, disk, world, planVars, phase, reads, memo, cancelled, runs,
                   faults, evicted>>

-----------------------------------------------------------------------------
Scheduled == {n \in DOMAIN program : IsRunnable(state[n])}
Waiting   == {n \in Scheduled : outcome[n] = "Pending"}

(* The loop ends at its last node or at a cancel, which gives up the reads   *)
(* of the nodes it did not reach; then what cannot be a later hit goes.      *)
EndRun ==
    /\ phase = "run" /\ turn = NoTurn
    /\ Waiting = {} \/ cancelled
    /\ slots' = ReleaseDead(program, LetGo(slots, ReadsLeft(Waiting \cap Running(program, state))))
    /\ phase' = "rest" /\ seeds' = None /\ cancelled' = FALSE
    /\ state' = <<>> /\ demand' = <<>> /\ reads' = <<>> /\ outcome' = <<>>
    /\ calm' = TRUE
    /\ UNCHANGED <<program, disk, file, turn, memo, runs, faults, evicted>>

(* The host cancels; the file changes, under a run too, where a node is      *)
(* keyed by the identity taken as the run began and reads what is there at   *)
(* its turn.                                                                 *)
Cancel ==
    /\ phase = "run" /\ ~cancelled /\ cancelled' = TRUE
    /\ UNCHANGED <<program, cacheVars, world, planVars, phase, reads, outcome, turn, memo,
                   runs, faults, evicted>>

Touch ==
    /\ file < MaxFile /\ file' = file + 1 /\ calm' = (phase = "rest")
    /\ UNCHANGED <<program, cacheVars, planVars, runVars, runs, faults, evicted>>

(* The process dies in the middle of a run: what was in RAM is gone, the     *)
(* blobs published are there, each whole, the one being written is not.      *)
Crash ==
    /\ phase = "run"
    /\ program' = <<>>
    /\ slots' = [n \in Nodes |-> EmptySlot] /\ memo' = 0
    /\ phase' = "rest" /\ seeds' = None /\ turn' = NoTurn /\ cancelled' = FALSE
    /\ state' = <<>> /\ demand' = <<>> /\ reads' = <<>> /\ outcome' = <<>>
    /\ calm' = TRUE /\ evicted' = {}
    /\ UNCHANGED <<disk, file, runs, faults>>

(* Rot, or what a power loss leaves of a blob never synced.                  *)
Corrupt(n) ==
    /\ phase = "rest" /\ disk[n] # Nothing /\ disk[n].intact /\ faults < MaxFaults
    /\ disk' = [disk EXCEPT ![n].intact = FALSE] /\ faults' = faults + 1
    /\ UNCHANGED <<program, slots, world, planVars, runVars, runs, evicted>>

Turn(n) ==
    \/ PassCut(n) \/ ServeReuse(n)
    \/ IdentifyCancelled(n) \/ IdentifyFails(n) \/ LateServe(n) \/ LateMiss(n)
    \/ SkipUpstream(n) \/ StartInvoke(n) \/ Succeed(n) \/ Fail(n)

Next ==
    \/ \E g \in Programs : Install(g)
    \/ Clear
    \/ \E n \in DOMAIN program : Evict({n})
    \/ \E n \in Nodes : Flush(n) \/ Turn(n) \/ Corrupt(n)
    \/ \E asked \in Seeds : BeginRun(asked)
    \/ EndRun \/ Cancel \/ Touch \/ Crash

Spec == Init /\ [][Next]_vars
-----------------------------------------------------------------------------
(* A path wire leads from a port its producer binds whatever is asked of it.  *)
PathsAreBound(programs) ==
    \A g \in programs : \A n \in DOMAIN g : \A k \in DOMAIN g[n].inputs :
        LET i == g[n].inputs[k] IN
            i.kind = "wire" /\ i.path => i.port \in Binds[g[i.from].key]

(* The nodes of a program as a run of it would compute them from scratch.    *)
FreshInput(i, st, version, made) ==
    CASE Delivery(i, st) = "unbound" -> Unset
      [] Delivery(i, st) = "file" -> Named(version)
      [] OTHER -> IF i.path THEN NamedBy(made[i.from], i.port, version)
                  ELSE Output(made[i.from], i.port)

FreshTerm(g, st, version, run, made, n) ==
    Term(g[n].key,
         [k \in DOMAIN g[n].inputs |-> FreshInput(g[n].inputs[k], st, version, made)],
         IF g[n].pure THEN 0 ELSE run)

FreshOf(g, st, version, run) ==
    LET made[n \in DOMAIN g] == FreshTerm(g, st, version, run, made, n)
    IN  made

(* ...and the program's, as this run would.                                  *)
Fresh == FreshOf(program, state, file, runs)

Invoking(n) == turn.at = "invoking" /\ turn.node = n
Held(n)     == slots[n].val # Nothing /\ ~Invoking(n)

(* A digest that no later run can come to: it names a version of the file    *)
(* that is gone.                                                             *)
Outdated(digest) == \E v \in 1..(file - 1) : v \in digest.names

(* "Equal digests => identical computation": whatever a slot or a blob holds *)
(* under a digest was computed from what the digest says, or else from a     *)
(* file that changed under the run, and then no later run asks for it.       *)
KeysAreHonest ==
    \A n \in Nodes :
        /\ Held(n) /\ slots[n].val.under # None =>
              slots[n].val.made = slots[n].val.under \/ Outdated(slots[n].val.under)
        /\ disk[n] # Nothing => disk[n].made = disk[n].digest \/ Outdated(disk[n].digest)

(* What a node of this run has settled on, computed, resident or decoded, is *)
(* what the whole program computes now: no edit, file change, disabled       *)
(* producer, cancelled or failed run leaves a stale value to be served.  A   *)
(* file that changes under a run costs that run this, and no later one.      *)
RunIsFresh ==
    phase = "run" /\ calm =>
        \A n \in DOMAIN program :
            outcome[n] \in {"Ran", "Reused"} /\ Held(n) => slots[n].val.made = Fresh[n]

(* A lambda is handed every value its inputs are wired to, each of this run: *)
(* no producer was pruned, served or let go while a read of it was to come.  *)
InputsAreDelivered ==
    turn.at = "invoking" /\ calm => turn.made = Fresh[turn.node]

(* The counts that decide a release are the reads still to come, over every  *)
(* way a turn may end; a cancelled run may leave some behind.                *)
ReadsAreExact ==
    LET owing == {c \in Running(program, state) : outcome[c] = "Pending" /\ ~Invoking(c)} IN
    program # <<>> /\ reads # <<>> /\ ~cancelled /\ phase = "run" =>
        reads = [n \in DOMAIN program |-> [p \in Ports(program, n) |->
                    Cardinality(ReadsOf(program, state, owing, n, p))]]

(* A node that keeps no RAM copy holds a value only while a read of it is to *)
(* come, and a port of it only until its last read.                          *)
SpentOutputsAreReleased ==
    \A n \in DOMAIN program :
        Held(n) /\ ~Ram(n) =>
            /\ phase = "run" /\ ~Drained(reads, n)
            /\ \A p \in slots[n].val.ports :
                reads[n][p] = 0 => Readers(program, state)[n][p] = 0

(* A value held is one of its node as the program has it now, and what is   *)
(* believed of its blob holds: one believed to be on disk is there, as wide  *)
(* as it is held, and one held unwritable has no codec, else no later run    *)
(* would pay the blob owed.                                                  *)
BeliefIsBacked ==
    \A n \in Nodes :
        Held(n) /\ turn.node # n =>
            /\ n \in DOMAIN program
            /\ slots[n].val.arity = program[n].outputs
            /\ slots[n].val.blob = "written" =>
                Covers(disk[n], slots[n].val.under, slots[n].val.ports, program[n].outputs)
            /\ slots[n].val.blob = "unwritable" => program[n].opaque

(* An evicted node that the next run reaches runs: no consumer of it is left *)
(* with a value whose reuse would prune it.                                  *)
EvictionTakesHold ==
    LET wanted[n \in DOMAIN program] ==
        /\ IsRunnable(state[n])
        /\ \/ n \in Roots(program, seeds)
           \/ \E c \in DOMAIN program : n \in Producers(program, c) /\ wanted[c]
    IN  phase = "run" => \A n \in evicted : wanted[n] => state[n] = "Run"
=============================================================================
