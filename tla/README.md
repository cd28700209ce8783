# Darkroom in TLA+

Darkroom is a node-graph editor for images: a window edits a graph of nodes, the graph is compiled to
a dense program, and a worker task plans and executes the program while the window goes on drawing
frames.  The worker, its event tasks, the frames, the converter behind the previews and the runs that
share a cache of decoded frames go on at the same time; they share mailboxes, tokens, files and
caches.  This directory holds TLA+ models of the parts where that matters, the TLC configurations
that check them on small instances, and the theorems TLAPS proves about them for every instance.

`PROJECT.json` lists the components, the runs, the mutants (one plausible bug of the code for each
property of each passing run, which breaks it), the source lines every definition stands for, the
hazards, the findings and the theorems.

## The system

| component | source | state it keeps | operations | models |
|---|---|---|---|---|
| mailbox and batch | `scenarium/src/worker/mailbox.rs`, `batch_intent/` | pending `BatchIntent`, `Notify` permit, closed | post, merge a message, take, close | `BatchIntent`, `Worker` |
| worker handle | `scenarium/src/worker/mod.rs` | `run_cancel`, `shutdown` | send, request_cancel, request_exit, exit, drop | `Worker` |
| worker task | `scenarium/src/worker/worker_task/` | the batch, the loop transition, the engine | next_intent, apply_intent, execute, drain | `Worker` |
| event loop and gate | `worker/active_event_loop/`, `pause_gate/` | tasks, event channel, close count | arm, fire, send, wait, stop, panic | `Worker` |
| compiled program | `scenarium/src/exec/compile/compiled_graph.rs` | nodes and events | contains, events | `CompiledGraph` |
| runtime host, worker bridge | `darkroom/src/core/runtime_host/`, `worker_bridge/` | the compiled program, the store root | run, run node, evict, flush, start, stop, clear, set the document's cache | `HostCommands`, `RunFeed`, `DocumentCache` |
| report mailbox | `worker_bridge/report_mailbox.rs` | reports not yet drained, runs superseded | post with merge, drain | `Reports`, `ReportMailbox`, `ReportQueue` |
| run state, preview sink | `darkroom/src/gui/state/run_state/`, `core/preview_sink/` | per-node results, previews, activity, run count | fold a report, show previews, clear | `RunState`, `RunFeed` |
| preview store, converter | `gui/state/preview_store/` | tickets, cards, spans converting, the job queue | publish, convert, land a card or a full raster, remove, reconcile | `PreviewStore` |
| application | `darkroom/src/gui/app/` | the open document | frames, commands, new, open, save | `RunFeed`, `DocumentCache` |
| driver | `darkroom/src/driver/` | runs counted when an act began | act, wait_run | `Driver` |
| engine, planner, executor | `scenarium/src/exec/` | schedule, demand, remaining reads, outcomes | plan, sweep, run a node, release | `RunSchedule`, `RunLoop` |
| runtime cache, disk store | `scenarium/src/exec/cache/` | slots, digests, file identities, blobs | reconcile, stamp, probe, hydrate, store, evict, flush, attach | `RunLoop`, `DocumentCache` |
| document and graph model | `darkroom/src/core/document/`, `scenarium/src/graph/` | nodes, bindings, subscriptions, stubs, ties and routes, places, tabs | wiring, admission, detach, attach, validate, reconcile | `Document`, `DocumentLoad` |
| edits and undo | `darkroom/src/core/edit/` | the packed history, its cursor, the open gesture | intents, steps, push, fold, seal, withdraw, undo, redo, trim | `GraphIntents`, `UndoSteps`, `UndoHistory`, `DocumentHistory` |
| open document | `darkroom/src/core/open_document/` | document, dirty, revision, history | commit a batch, undo, redo, save, load | `OpenDocument` |
| canvas gestures | `gui/pane/graph_ui/gesture/` | what a drag, a knob, a breaker, a tie line latched | grab, frame, release, Esc | `CanvasGestures`, `OpenDocument` |
| frame store, decode cache | `lumos/src/frame_store/`, `ingest/frame_intake.rs`, `combine/frame_cache/loader/` | kept planes, commits and gains on disk; a run's probes and shared gains | probe, peek, resolve, reuse, decode, keep, commit | `FrameCache` |
| compiler | `scenarium/src/exec/compile/` | | flatten, lay out | not modelled |
| other GUI panes, MCP transport, imaging kernels, codecs, utilities | rest of `darkroom/`, `lumos/`, `imaginarium/`, `lens/`, `simd/`, `common/` | | | not modelled |

How they interact.  A frame of the window reads its chords, draws, and its gestures raise requests;
the open document lands the requests of a frame as one batch, which it packs as one undo entry or
folds into the entry of the gesture still held.  The application compiles the graph and calls the
runtime host, which calls `Worker::send*`: that merges messages into one pending batch under a lock
and then stores a wake permit; cancel and exit go through two atomic tokens.  The worker reports
through a callback that posts into the report mailbox and wakes a frame; a frame drains the mailbox,
and then, under another lock, the preview sink the preview nodes publish into, hands what it found
to the converter's thread and lands what that thread converted.  The event tasks send into a bounded
channel the worker selects on beside its mailbox, and wait on the pause gate a run holds closed.

Inside a run the engine plans the program for the seeds, identifies the files its paths name, stamps
every node with a digest of what it would compute, sweeps the plan from the roots down against the
slots in RAM and the blobs on disk, and walks what is left, producers first.  A node that stacks
frames opens the decode cache of its document and takes each frame from it or decodes it anew.

What is hard.  The two posts of one command can fall in one batch or in two; messages of several
commands merge into one batch that has a slot per kind and forgets their order; a cancel, an exit
or an abort can come between any two steps; a run can fail in planning, be cancelled, or panic; an
event task can fire as the gate closes or panic beside one that never stops firing; reports are
merged while no frame takes them, previews travel outside the report stream and come back from a
thread of their own, and a document can be opened over another while the run of the first is still
reporting.  A value outlives the run that made it, in RAM and on disk, across edits, mode switches,
disabled producers, changed files, evictions, faults of the store and a change of the store itself;
the decision to serve it is taken before the run and prunes the producers that could have made it
again.  A gesture edits the document frame by frame while chords, other edits and Esc come between,
and the history packs what it did into bytes that are folded, cut back, trimmed and drained.  A load
meets files an older or a foreign program left.  A kept frame is several files, published one by one
and never synced, under a name that is a hash, while its source is being rewritten.

What makes each part correct, in a sentence:

- *worker*: no post is slept on, a cancel reaches the run it is for and no later one, exit ends a
  run and the task, the armed loop is always the installed program's, the gate is closed once in a
  run and open outside, and the activity told is what the worker does;
- *batch*: a node named after the install of its program survives the merge, and one named for an
  earlier program that a later one lacks does not;
- *engine and caches*: what is served is what the program would compute now, a lambda is handed
  every value its inputs are wired to, the reads still planned are counted exactly and a value is
  held until the last of them and no longer, a value believed to be on disk is there, and an
  evicted node that a run needs runs;
- *document cache*: a blob lies beside its own document and no other, and what was computed before a
  first save is in the root that save gave;
- *report mailbox*: bounded, and a frame cannot tell that anything was merged away;
- *run state and feed*: when all is quiet the editor shows the installed program, the idle
  worker, every run counted, the statuses of one run, and no preview older than the last one;
- *preview store*: a node shows the last of its values that was converted and not dropped since, an
  image no raster but its own, and nothing converts for ever;
- *open document*: every undo gives back the very document its change found and every redo the one
  the undo left; a document that is not dirty is the one in its file; what is saved comes back;
- *decode cache*: a frame taken is the decode of one version of its own file, a commit names what is
  there, and damage is healed by the run that meets it;
- *driver*: a wait for a run ends after a run that began after the act.

## The modules

| module | what it is |
|---|---|
| `CompiledGraph` | a program: the nodes it holds, the events they declare |
| `BatchIntent` | the worker's messages and `Push`, the merge of a message into a batch |
| `HostCommands` | the editor's commands, each a script of posts |
| `Worker` | host thread, worker task, event tasks, mailbox, tokens, gate |
| `DocumentCache` | `Worker` under an editor that opens, saves and runs documents, each with a cache root |
| `Reports` | the worker's reports; `Supersedes` and `Merge`, what `post` drops |
| `RunState` | the editor's projection: the fold of a report, and the two local changes to it |
| `ReportQueue` | the abstract mailbox: keeps every report, a drain folds them all |
| `ReportMailbox` | the mailbox that merges, under the worker's report stream; implements `ReportQueue` |
| `RunFeed` | editor, worker, report mailbox and preview sink composed, over documents opened in turn |
| `Driver` | `RunFeed` with a driver that acts and waits |
| `PreviewStore` | frames, the store of cards, the converter's thread |
| `RunSchedule` | a program as the engine reads it; plan, delivery, demand and the cache-aware sweep |
| `RunLoop` | the engine: caches between runs, a run planned, keyed, swept and walked |
| `Document` | the document as one record, the rules that make it valid, cycle test, detach and attach |
| `UndoSteps` | every kind of undo step, how it applies forward and backward, what it tells its callers |
| `GraphIntents` | every graph intent, the step it becomes against a document, `CommitIntent` |
| `UndoHistory` | the packed history: push, fold, seal, withdraw, undo, redo, trim, reclaim |
| `DocumentLoad` | the passes of `reconcile`, each a document and the repairs it reports |
| `CanvasGestures` | what the canvas's gestures latch and raise |
| `DocumentHistory` | the abstract history: past and future documents |
| `OpenDocument` | all of these composed: frames, chords, gestures, save, load; implements `DocumentHistory` |
| `FrameCache` | runs over one decode cache, under changing files, kills and damage |
| `Recursion` | a recursion over ranked indices has a solution, and a fold along a sequence goes element by element |
| `Worker_proofs`, `ReportMailbox_proofs`, `RunFeed_proofs`, `RunLoop_proofs`, `PreviewStore_proofs`, `OpenDocument_proofs`, `FrameCache_proofs` | the theorems |
| `MCWorker`, `MCReportMailbox`, `MCRunFeed`, `MCDriver`, `MCRunLoop`, `MCDocumentCache`, `MCPreviewStore`, `MCOpenDocument`, `MCFrameCache` | the instances TLC checks |

### Worker

`hostPc` is where the host thread is in a `send` or in `exit`; `script` and `post` are what it has
still to merge.  A lock is modelled by its critical section: `LockMailbox`, one `MergeMessage` per
message, `UnlockMailbox`, then `NotifyWorker`, and the worker's `TakeBatch` is not enabled while
the host merges.  `permit` is the one permit `Notify` stores.  `ExitShutdown` and `ExitCancel` are
the two stores of `request_exit`; dropping the handle adds `AbortTask`, after which `DropTask` may
end the task wherever it awaits.

`pc` is where the worker task is: `poll` (the biased select: shutdown, mailbox, panicked task,
events), `take`, `commit` (the reset of `run_cancel`), `apply` (loop stop, graph, store, eviction,
flush), `execute` (the decision to run, under the shutdown check), `plan`, `run`, `yield`,
`draining`.  Of the engine the model keeps what the worker can see: planning refuses a seed the
program lacks, panics on an event it does not declare, and otherwise a run is up to `MaxRunNodes`
nodes with a poll of the token before each.  An event task is `fire`, `send`, `gate` or
`panicked`.

`pendingNewer`, `batchNewer`, `raised` and `sent` are history variables: whether the batch holds a
message posted after the last cancel, whether a cancel came after the commit, and how many events
each task sent since the gate last closed or opened.

### The document cache

`DocumentCache` takes `Worker` as it is, with no event loop and no cancels, and gives it a host that
opens, saves and makes documents: `Adopt` is `adopt_document`, the `Clear` and then
`set_document_cache`, whose posts `RootChange` lists.  `resident`, `owed` and `blobs` are the values
in RAM, those of which no blob is believed written, and the blobs by root and node.  `ApplyToDisk`
is `ApplyCommands` with what it does to values and blobs, in the order of `apply_intent`: install,
store, eviction with its readers, flush.  `RunNodeToDisk` is one node of a run that computes, serves
from RAM (settling what it owes) or loads.

Abstractions: a value is its node's and current under its digest; a disk-backed node is one in the
mode that keeps both; the store does not fail (`RunLoop` has its faults); programs of different
documents share no node; saving over the file of another document is left out; a worker without a
store counts as one with the store of an unsaved document, since neither writes.

### Reports, run state, mailbox

A report is a record of what the fold reads of it.  `RunState` is the projection with one field
per part of the editor's `RunState` that a report can change; `ApplyReport` is the fold, field by
field.  `parked` is the failure card an error parks.  `ReportMailbox` drives the mailbox with the
stream of reports the worker can make (an install, a clear, a run with its progress, a run that
fails in planning, stray errors and idles) and drains it at any moment.  `posted`, the unmerged
list, is a history variable, and the mapping of the refinement `Queue == INSTANCE ReportQueue`.

### The run feed and the driver

`RunFeed` puts the editor's thread (a command between frames, its posts one by one, a frame in two
halves) beside the worker at the grain of reports.  The event loop and run errors are left out:
`Worker` has the first, and no editor command can cause the second (`NamedNodesAreInstalled`).  A
document is the program it compiles to; two documents may share node ids, as a document reopened
does.  `ranUnder` and `published` are history variables: the program of each run, and the run of
each node's latest value.  `Driver` adds the count `act` notes and the condition `wait_run`
returns on.

### The preview store

A value is its ticket and whether it is an image.  `entries` and `converting` are the store's two
maps, `queue`, `job` and `results` the way of a value through the converter's thread, which sends a
result (`SendResult`) and then wakes the host (`Wake`).  A frame is `BeginFrame` (it consumes the
wake before it drains), one `Publish` per drained value, one `Land` per result, and `EndFrame` with
`reconcile`, which keeps the nodes the document holds: any set, since edits and undos may have
removed or brought back any.  `Publish` replaces the card of its node that still waits in the queue;
`LandCard` lands any ticket within the node's span; `LandFull` lands on the image of the same
ticket.  `published`, `voided` and `converted` are history variables.  The conversion, textures and
formatting are left out, and so are a panic of the thread and the exit of the editor.

### The schedule and the run loop

`RunSchedule` is pure: a program is a function from nodes to records, and `Plan` and `Sweep` are
recursive functions over it, the walk back from the roots (`Reached`, `Verdict`) and the pass that
turns `Cut` into `Reuse` or `Run` once every consumer has told its demand (`Swept`).

`RunLoop` has a slot per node (`cur`, the digest stamped; `val`, the value with the digest it was
produced under, the ports bound, its arity and the belief about its blob), a blob per node (its
digest, its ports and arity, which are what its header answers from, and its value), and the run: `state`, `demand`, `reads`, `outcome`, and `turn`, the node between two awaits of its turn
(`keyed`: late identification missed; `invoking`: its lambda runs).  A value is a term: the key of
the node, what each input delivered and, where a path is read, the version of the file; the value
of an impure node has the number of the run besides.  A digest is a term of the same shape, made of
the producers' digests, so a digest tells the truth about a value when the two are equal.  Each term
lists the versions of the file it mentions (`names`), at any depth.  `Binds` says which ports a
lambda binds whatever is demanded of it; it may bind others.
`BeginRun` is `execute` up to the walk: plan, identify, stamp, sweep.  Each turn is an action per
way out of `run_node`: `PassCut`, `ServeReuse`, the late chance of `needs_invoke`
(`IdentifyCancelled`, `IdentifyFails`, `LateServe`, `LateMiss`), and `invoke_node` (`SkipUpstream`,
`StartInvoke`, `Succeed`, `Fail`).  `EndRun` gives up the reads of a cancelled tail and releases
what cannot be a later hit.  `Touch` changes the file, under a run too: what the run computes after
is stored under the identity taken before, which no later run asks for again.  `Crash` is the death
of the process in a run: the published blobs stay.  `calm` (the file has not changed under this run)
and `evicted` are history variables.  `KeysAreHonest` lets a value differ from its digest where the
digest names a version of the file that is gone, so that no later run comes to it; `RunIsFresh` and
`InputsAreDelivered` speak of the runs that are `calm`.

Abstractions: all path inputs name one file; nodes are numbered along the wires; a walk may take
any order that puts producers first, where the code takes one of them; the store is attached from
the start; a blob rots only between runs; a store succeeds whole or fails, since it publishes by
rename; a lambda reads its file as it begins and binds at least the ports demanded of it, or fails.

### The document, its edits, its history

`Document` is the document as one record: nodes, bindings, subscriptions, stubs, places, ties, the
routes of wires through ties, selection, viewer tabs, viewport.  What a library declares of a node
is a function of its id.  Positions and angles are small numbers; the name, properties, flags and
cache mode of a node are one `value`.  `IsValid` is `Document::validate`, `ProducesCycle` the
depth-first test of the graph, `Capture` and `Restore` what a removed node takes along and brings
back.

`UndoSteps` has a record per kind of step with the two halves of what it changes, `ApplyStep` in
either direction, the folding of one step into the one before (`FoldStep`), and the three questions
callers ask of a step: is it a no-op, does it dirty, does it move the node set.  `GraphIntents` has
`IntoStep` for each intent, which reads the overwritten half off the document and answers no step
for a stale intent; `IsMalformed`, every payload the program panics on (an id taken or unknown to the
library, a position or viewport that is not a number, a seed binding, a wire or a subscription the
library refuses, a tie of no wires, a route that cannot take the tie); and `IsUnplaced`, the removal
of a node the view does not place, which `NodeEntry::capture` expects never to meet.  Nil ids and
angles out of range have no counterpart among the model's ids and angles.

`UndoHistory` is the packed buffer: a cell stands for a packed step, an entry is a range of cells,
`head` the dead prefix, `cursor` the boundary between applied and undone, `open` the gesture held.
`Push` seals or folds, drops the redo tail and trims; a range decodes to its entry only if it is
exactly where the entry was put.

`OpenDocument` puts them together.  A frame is: chords (`UndoChord`, `RedoChord`), the canvas
(`Pointer`), keys (`DeleteSelection`, `DuplicateChord`), then `Lands`, the commit of the queue as
one batch.  A batch with a cancel in it lands in parts: `CommitToCancel`, then `WithdrawGesture` or
`WithdrawNothing`, then `Commit`.  `held` is what a gesture latched as it began; its frames are
built from that and not from the document they find.  `line` is what the tie line crossed when it was
last drawn; a chord leaves it `stale`, and the same frame's input then releases it so (`ReleaseLine`)
or its record draws it again (`DrawLine`).  A request that is malformed sets `panicked`, after which
only a launch follows.  `Save` writes `file`; `Load` is a launch, after a quit or a crash, whose
library may lack some of the functions the last one had.  `minted` keeps ids from being
given out twice, `left` bounds the edits, `stamp` is the node set the revision was last moved for.

`DocumentHistory` is what undo promises: the documents before each change and after each undo, with
the right to forget the oldest.  `UndoIsExact` maps the packed bytes onto it by replaying them:
`PastOf` reverts the applied entries one after another from the document on the screen, `FutureOf`
applies the undone ones.

`DocumentLoad` is `Document::reconcile`, one operator per pass in the order of the code: stubs that
come back, nodes without a function set aside as stubs, wiring that no longer fits, cycles found by
the depth-first walk, positions that are not numbers, ties, routes, selection, tabs.

### The decode cache

A version of a file is its `FileIdentity`, and with it the `CacheKey`; a digest is the plane it is
of.  `file` is what the sources hold; `planes`, `commits` and `gainFile` the cache's directory, by
`Stem`, the hash a kept frame is named by, which may clash.  A run is `phase`, `mode` (`take` for
`FileSet::take`, `decode` for `FileSet::decode`), the frame read early for its plan, and its two sets
of gains: `held` those it shares, `wrote` those it wrote.  A job, a frame of a run, goes from `idle`
over its probe, the resolution of its source, and then either `Reuse` to `done`, or
`StartDecode`, `FinishDecode`, `EnsureUnchanged`, `KeepGain`, `PublishChannels`, `PublishSamples`,
`Commit`; it fails at any point.  A decode that overlaps a rewrite reads parts of two versions: its
image names both.  Beside the runs, `Kill` ends one between any two steps and leaves the directory as it is,
`Rewrite` and `Remove` change a source, `Damage` a file of the cache, as an edit from outside or a
power loss before anything was synced would.  `since`, `calm` and `harmed` are history variables.

Abstractions: `channels` stands for the channel planes and the flags; the commit a probe finds is
read in one step; two writes of a source never leave the same identity; free space, the memory
tiers with their scratch files, and what an admission looks at are left out but for their failing.

## What TLC checks

| run | question | bounds | distinct states |
|---|---|---|---|
| `worker_live` | do the worker's promises hold under the editor's commands and under bare posts, with a cancel, an exit and an abort at any moment, and does the biased select reach every post, every shutdown, every panicked task? | 2 calls, 2 programs, 2 events, 1 cancel, runs of up to 1 node, channel of 1 | 694,237 |
| `worker_events` | is a fired event always one the installed program declares? (violated) | 2 calls, 2 events, channel of 2 | |
| `document_cache` | is every node a batch names one its program has, does every blob land beside its own document, and is what was computed before a first save in the root it gave? | 3 commands, 3 documents, 4 programs, 4 roots | 673,968 |
| `report_mailbox` | does merging show in any frame? | 2 runs, 7 reports, 1 local change, 2 one-node programs | 781,376 |
| `run_feed` | once at rest, does the editor show the worker as it is and the last run as it went? | 3 commands, 2 documents sharing a preview node | 1,918,851 |
| `driver_wait` | does `wait_run` see a run that began after the act? (violated) | 2 commands, 1 document | |
| `preview_store` | does each card show the last value converted that nothing dropped, each image its own raster, and does every conversion end? | 2 preview nodes, 3 values published | 229,399 |
| `run_loop` | is what a run serves what it would compute, and is a value held exactly as long as it is read? | 2 runs, 4 programs of 4 nodes, 4 seeds, 2 file versions, 1 fault | 635,497 |
| `run_loop_paths` | and when a path comes from a port the producer's last run did not make? (violated) | 4 runs, 1 program of 3 nodes | |
| `open_document` | does every undo give back the document its change found, do the flags follow, does a save come back, does a load keep what it can, does a severed input show its default, is no request malformed but a stale line's? | 4 nodes, 2 ties, 2 files with edits (2 and 1), some 45 faulty files, 2 libraries, budget of 3 steps, 1 more frame per gesture | 89,552 |
| `open_document_line` | is no request a widget builds malformed? (violated) | as `open_document` | |
| `frame_cache` | is every frame taken the decode of its own file, every commit whole, every damage healed? | 2 runs, 2 files, one clash of names, one gain, 2 starts, 1 rewrite, removal or damage | 803,293 |

Why the bounds are enough.

*Worker.*  Two calls give a loop armed by the first and replaced, stopped or evicted under by the
second, with every split of the posts into batches; two programs give an install that keeps and one
that drops the event and the named node.  One cancel is enough because the token is a Boolean that a
commit resets: a second cancel of a batch changes nothing, and one of a later batch is a first.  A
run of one node polls the token before its node and after the last one.  Two events are two tasks: one
that panics beside one that keeps firing, and one behind the closed gate beside one that waits for
room in a channel of one.

*Document cache.*  Three commands are a run, a save or a swap, and a command that meets its posts in
the mailbox; the unsaved document may be saved to either of two roots, and back.  With four commands
it has 4,994,219 states and passes too.

*Mailbox and feed.*  Seven reports hold two full runs of a node, or a run and an install and its own
run's beginning; the proofs of `ReportMailbox_proofs` do not depend on the bound.  Two documents with a
shared node are the least in which a late report can land on the wrong document.  Two nodes and
three tickets are a card that waits, one that converts and one that is replaced, beside a second
node; the proofs of `PreviewStore_proofs` depend on no bound.

*Run loop.*  Two runs are a value made and the value served, with any edits between.  The four
programs differ in what decides a reuse: the loader is kept in RAM and on disk, in RAM alone, on
disk alone, or cannot be encoded; the path producer is reusable, off, impure, or has grown an
output; the seeds ask for the sinks, for one node, for the event sources, or fire an event.  Between
them every way out of a turn happens.  One fault is enough to have any single store, removal,
identification or blob fail.  The file changes once, before, between or under the runs: a run it
changes under, and one that finds what that run left.

*Open document.*  `Tied` has a wire and a subscription through one tie and two nodes still to be
added; `Chain` has all four nodes in a row through two ties, so a removal in the middle takes
bindings, subscriptions, routes and a tie at once.  The two edits from `Tied` are any edit or
gesture followed by any other, with undo, redo, save and launch at every point.  A
budget of three steps makes the history trim and drain.  The faulty files have one fault each:
a node lost, a stub beside its node, a wire of the wrong kind or closing a cycle, a route that names
a tie twice or one that is gone, a number that is not one; they are loaded and not edited.  A gesture raises
its first frame and one more, at offsets 0 to 2; a breaker stroke cuts at most one of each kind.
One chord may come between two drawings of the tie line, before its release too.

*Frame cache.*  Two starts are a run and the one that finds what it left, or two at once.  The second
version of one file has the name of the other.  With `MaxUpsets = 2` the run has 4,833,786 states and
passes too.

`CHECK_DEADLOCK FALSE` is set in four configurations: those of `Worker` and `DocumentCache`, where
the host may have spent its commands, or have panicked on a closed mailbox, with the task ended; and
that of `FrameCache`, where the runs may all be over.  The other runs check for deadlock.

### Fairness

Two runs assume any.  `worker_live`: `WF_vars(WorkerStep) /\ WF_vars(HostStep)`.  tokio polls a task
that is ready, and the host thread finishes a call it has begun.  Nothing is assumed of what the
host asks (`HostRequest`), of whether an event fires or a task panics (`EventStep`), or of a node
that panics.  Weak fairness of the whole worker is enough because the select is biased, not random:
which branch it takes is the guard of the branch.

`preview_store`: the converter's thread runs (`TakeJob`, `SendResult`, `Wake`), a frame that was
asked for is drawn, and a frame begun is finished.  Nothing draws a frame that was not asked for:
the fairness is of `woken /\ BeginFrame`, so a wake lost or spent too early leaves the window idle
and the card converting, which is what `ConversionsEnd` excludes.

### Mutants

Next to a definition stands the bug its properties are tested against, under a comment that begins
*Mutant*: the permit stored only for a sleeping worker, a commit that does not reset the token, a
transition that ignores an install, an install that keeps the seeds named before it, a select that
polls the shutdown last, an event loop that receives events before it joins a panicked task, a task
that sends through a closed gate, a wire cleared that leaves no default, a sweep posted before its
store, a merge that drops across an install, a drain that forgets the superseded runs, a sink that
keeps the first value, a card that lands whatever was dropped since, a memo that outlives its run,
a key that folds a disabled producer's stamp, a value let go with its first port, a tie left bare,
stubs wired one by one, a commit taken for the frame's by its name alone, and so on.  None of them
is part of a specification.

## What disagrees

1. `worker_events`: `collect_roots` expects a fired event's emitter to be in the installed program
   (`exec/schedule/mod.rs:385`), and `seeds.rs:18-20` says events come in a batch of their own.
   `next_intent` joins them with whatever was posted meanwhile, an install included, so the
   expect can fail and end the task.
2. `driver_wait`: `wait_run` promises a run that began after the act; a run already in flight
   passes its count too.
3. `run_loop_paths`: a node that reads the file named by a producer's port is keyed without the file
   when the port is unbound in the producer's current value (`runtime_cache/mod.rs:442`), because
   the last run did not demand it: it folds as a mis-typed value, where the comments say an
   unreadable path leaves the node without a digest.  In four runs the sink and the reader of one
   producer are asked for in turn, the file changes, and the reader is served what it made of the
   old content.
4. `open_document_line`: `open_document/mod.rs:179-181` says a malformed intent can not be raised,
   since widgets read every identity they emit out of the live document.  The tie line's release
   hands over what the line crossed when it was last drawn (`gesture/tie_ui/mod.rs:64`), and an undo or redo
   chord is read before it in the same frame (`gui/app/session/mod.rs:81`): a wire it crosses may be
   gone, or the piece of it, and the commit panics.  `OnlyALineIsMalformed`, which `open_document`
   checks, says that nothing else is.

Met while modelling, without a run of their own:

- `adopt_document` (`gui/app/mod.rs:431-432`) counts on the worker's `Cleared` to reset the
  projection.  A `Clear` that meets a later `Update` in the mailbox is never acknowledged
  (`batch_intent/mod.rs:64-70`), so after a swap followed at once by an eviction or a flush the
  results of the old document's run stay on the nodes the two documents share.
- `run_state/mod.rs:465-468` drops a published value of a node the compile at hand has not got, and
  adds that a preview only ever shows the current run's value.  The two halves of `sync` take two
  locks.  When two documents share a preview node, and a third was opened between them, a late value
  of the first shows in the last, the frame that follows folds the middle one's install, the last
  one's run publishes the shared node between the two halves, and the second half drops that value:
  the old one stays until the node publishes again.  Of every
  value shown, TLC refutes `PreviewsAreTheLatest` in 34 steps, with programs on nodes n1, n2 and n1 and
  five commands; two documents, as `run_feed` has, hide it.  It therefore speaks of values published by
  runs of the open document, of which it is proved for any number of documents.
- `unwired.rs:5-6` says an input whose wire goes holds its declared default.  A breaker stroke across
  a node and the wire out of it removes the node, which leaves the default, and then clears the input
  (`breaker_ui/mod.rs:117-125`), which finds a constant and clears it too.  `SeveredInputsShowDefaults`
  states both: the default for every other severed input, and nothing for this one; with its
  exception left out, TLC refutes it in two steps.
- `group_drag/mod.rs:141-142` says an Esc that finds its entry sealed puts the members back where the
  drag latched them.  When the drag went on after the seal, its frames opened a new entry under the
  same id, and that one alone is withdrawn.
- A first save followed by New or Open before the worker wakes is one batch, in which the sweep the
  save asked for is dropped: the values computed before the save are not written.  `SavedValuesAreKept`
  speaks of the document that is open.
- `run_state/mod.rs:457-459` says a card of a superseded value is dropped; `land_card` lands any ticket
  within the node's span (`preview_store/mod.rs:351-366`), so an older card of the same node shows
  until the newer one is converted.
- `worker/tests/shutdown.rs:5-6` says exit publishes idle before it returns.  A loop stopped quietly
  for a replacement counts on the run to report (`worker_task/mod.rs:214-216`), and `execute` under a
  shutdown reports nothing.

## What TLAPS proves

### Worker_proofs

From the named assumptions on the constants alone (`ProgramAssumption`, `StoreAssumption`,
`WorkerAssumption`: scripts are sequences of sequences of messages, the channel has room for one),
for every set of programs, nodes, events, scripts and every bound: `TypeCorrect`, `ExitIsHeard`,
`CancelIsHeardByItsRun`, `NoPostIsSleptOn`, `LoopFollowsTheProgram`, `HostIsToldTheTruth`,
`EventsWaitForTheRun`, over the inductive invariant `IInv` (`Invariance`).

None of the properties is inductive alone.  `IInv` is `TypeOK` and six parts:

- `GateInv`: the count is one exactly in `plan` and `run`; what makes every path out of `execute`
  accountable for the one decrement;
- `MailInv`: outside the critical section a non-empty batch of a worker at rest has its permit, or
  the worker is already past the wake, on its way to `take`;
- `CancelInv`: relates the three history bits to the token from the commit on, and says that under
  `exited` the shutdown is up, so a run past the shutdown check has its token raised;
- `LoopInv`: `LoopIsOfTheProgram` itself: an armed loop is of the installed program in every state;
- `ActivityInv`: what was last told, by `pc` and by whether the loop was stopped quietly: the
  obligation `execute` inherits from `apply`;
- `OneEventBehindTheRun`: while the gate is closed a task has sent nothing, or one event, and then
  stands at the gate or is gone.

Each part has one lemma (or a step of one) per action that disturbs it; an action that leaves the
part's variables alone is discharged by `UNCHANGED`.

The second half is about `DocumentCache`, whose steps but the editor's commands are the worker's: with
`CacheAssumption` (roots belong to documents, nodes of two documents are disjoint, an unsaved document
has no root), `NamedNodesRunInTheirProgram`, `BlobsNeverCross` and `FirstSaveKeepsTheValues`, all
three properties of `document_cache`, and `WorkerHoldsInTheEditor`, over `CacheIInv` (`CacheInvariance`).
It speaks of where graph and store *will* be: once the batch in the worker's hands is applied
(`NextGraph`, `NextStore`), and once the one pending is too (`LastGraph`, `LastStore`).

- `CommandInv` says what is left to post of the command under way, shape by shape, with what holds of
  `LastGraph` and `LastStore` there: before its second post, a run's program is the last graph; a swap
  clears the program before it moves the store; a root gained has its sweep to come.
- `HomeInv`: graph and store are of one document now, after the next batch and after the last.  It
  needs the `Clear` before the store and one install per command, of the open document.
- `SeedsInv`: the seeds of a batch are in the graph it leaves.  A later install cuts them, so a
  `RunNodes` is only ever beside, or after, the install it was compiled with.
- `SweepInv`: where a root is attached, or will be, while values are owed, a sweep is in the same
  batch, in one after it, or still to be posted; three clauses, one per stage.
- `StageInv`, `PlaceInv`: a command is in the worker's hands only from its take to its application,
  and a post is under way only in the critical section.

### ReportMailbox_proofs

From `ProgramAssumption` and `BoundsAssumption` (the bounds are naturals), for every set of programs
and nodes and a box of any length: all three properties of `report_mailbox`, `MailboxImplementsQueue`
(the mailbox implements the queue that drops nothing), `MailboxIsBounded` and `MailboxIsAcknowledged`.

`supersedes` is documented as "folding new after old leaves what folding new alone leaves, the run
count aside", while `post` drops the old report whatever was reported between them.  The argument
goes report by report.  Folding an old report changes only what the new one overwrites, and the count
(`SupersededIsOverwritten`); whatever is folded next keeps it so (`OverwrittenStaysSo`); the new
report then leaves no difference but the count (`OverwritingLeavesTheCount`).  `MergeStepwise` walks
the recent reports with both folds, the one that keeps every report and the one that keeps what
`retain` keeps, and `MergeLeavesTheFold` concludes for one post.

The invariant has five parts.  `FoldsAsPosted`: the box, its dropped runs counted aside, folds to what
every post since the last frame folds to; the refinement's `Drain` step is this part.
`EditorCatchesUp`: once folded, the program acknowledged is the worker's own, and every report on the
way names nodes of the program acknowledged by then.  The fold across an install or a clear would not
suffer if `post` superseded past it: that it stops there is what this part needs (`CompiledStays`:
from the last structural report on the program stays).  `RecentIsSparse`: what there may be one of
since the last structural report is there once, with progress last and of the run under way only,
which needs the order in which `execute` reports.  `RunsAreOfAProgram` and `Typed` carry these.

The folds are those of the library, whose functions over sets of indices `Recursion` unfolds into a
trace of states (`FoldHasTrace`), and with them the sequence `retain` leaves (`PickedStepwise`).

### RunFeed_proofs

From `ProgramAssumption` and `FeedAssumption` (each document is one program, no two the same), for any
documents, preview nodes and commands and every interleaving: the three properties of `run_feed`
(`SettledViewHolds`, `ResultsOfTheLastRunHold`, `LatestPreviewsHold`), over `IInv` (`FeedHolds`).

The invariant is not about the editor's state but about `Caught(state)`, what a frame begun now would
make of it.  A report the worker posts is a report folded into that, whatever the mailbox merged
(`Said`, which is `MergeLeavesTheFold` of the mailbox's proofs), a frame takes over what is already
there (`Drained`), and so it follows the worker step by step; at rest the box is empty and it is the
state itself.  Its parts:

- `ViewInv`: it shows the program installed, the activity, the runs counted, and, when the run is of
  the open document, what each node came to so far.
- `ResultsInv`: the statuses are of one run, from the state as it is and from *any* state with
  nothing of an earlier run in it.  The second half is what opening a document needs, which empties
  the state under reports still in the box (`EmptiedState`).
- `OrderInv`: once the open document is installed, or its install waits ahead, nothing behind it
  clears it or is of another document.  Without it a late `Cleared` could reach a state that
  shows the document's own run.  `IntentInv` says that what is on its way was opened by now: a
  document opened next is none of it (`NextDocumentIsNew`).
- `PreviewInv`: a preview of a run of the open document is the latest, or a later value waits which
  the next frame takes, since by then the program acknowledged is the document's; and a value waits
  only while something is coming that wakes a frame.

`PushedOne`, `PushedTwo`, `PushedThree` and `PostLands` unfold the posts of a command, and
`ReportKeepsUp` is the step shared by all actions that report.

### PreviewStore_proofs

From `TicketsAssumption` alone, for any nodes, any number of values and any order of frames, drops
and conversions: `CardsStayTruthful` and `RastersAreAwaited`, over `IInv` (`IInvHolds`).

The argument follows the line of jobs on their way back, `results \o job \o queue`, which is handed
on at one end and joined at the other.  `LineHolds` says that each card in it is newer than any of
its node that came back and is awaited unless it was dropped, that each full raster is of a card that
came back, and that of two cards of one node the one in front is older.  `OneWaits` says at most one
card of a node waits in the queue: the one a newer publish may replace without overtaking another.
`SpansHold` ties a node's span to what was published and dropped.  Together they give that a card
which lands is the latest converted, which is `CardsAreTruthful`.

### RunLoop_proofs

From `ScheduleAssumption` (the nodes are numbered from one, each program is one), for every set of
programs, seeds and files and every bound, all seven properties of `run_loop`: `ReadsAreCounted`,
`ReleasesAreExact`, `BeliefsHold`, and, for programs whose path wires lead from ports their producers
always bind, `DigestsAreHonest`, `ServedIsFresh`, `LambdasAreFed` and `EvictedNodesRun`.  The hypothesis,
`PathsAreBound(Programs)`, is the one `run_loop_paths` shows to be needed; TLC finds it true of the
programs of `run_loop`.

Five invariants stand on one another:

- `Typed` (`TypedHolds`): the shape of slots, blobs and turns; `TurnsInOrder`, no node settles before
  a scheduled producer; `CountsExact`, the counts are those of `Owing`, the running nodes still to
  take their reads.  A turn takes its node out of `Owing` and its reads off the counts
  (`ReadsOfTheRest`: cardinalities of disjoint sets of reads).
- `Releases` (`ReleasesHold`): `BeliefIsBacked` and `SpentOutputsAreReleased`; between runs only what
  may be a RAM hit is held (`AtRest`); a node still to have its turn holds nothing it would not keep
  (`WaitingHoldNothing`); ports held are ports of the node (`PortsInRange`).
- `Planned` (`PlannedHolds`): the sweep supplies each scheduled node (`Supplied`: every wire leads to
  a node scheduled before it, and to a port demanded of it when the reader runs); what a node still to
  read is wired to is held, port by port (`ReadsAreThere`: no release, eviction or late miss takes it,
  which needs the exact counts); the memo is the file's version in a calm run.
- `Honest` (`HonestHolds`): each digest stamped is the term over its producers' digests under the memo
  (`DigestsAreStamped`), what a lambda computes is what its digest says or the digest is outdated
  (`MadeAsStamped`), what is kept binds what its lambda always binds (`PortsAreBound`, which is how a
  path wire is read before its producer's turn), `KeysAreHonest`, `RunIsFresh` and
  `InputsAreDelivered`.  In a calm run a digest that is honest and of this run equals the term the
  whole program computes from scratch (`DigestsAreFresh`, by the least node where it would not), so a
  value served from RAM or from disk is fresh; one without a digest was computed in this very run.
- `Evictions` (`EvictionsHold`): what is held or stored under a digest downstream of an evicted node,
  and what a run has settled on there, goes without the nodes evicted (`ValuesSpare`,
  `RunGoesWithout`).  That is said of a digest of any depth by exhibiting the digests it folds
  (`Spares`): none downstream is an evicted node's, and each folds those of its producers downstream,
  or finds them disabled.  A digest with that property that a run stamps again would be stamped on
  every node along the way to the evicted one, down to that one itself (`EvictedIsKeyed`); so where the
  run schedules the way, the caches miss, and the sweep leaves each node on it to run or cut
  (`UnservedRun`).  An eviction keeps it because the values it leaves are outside the cone
  (`SparesCone`), a run because a lambda returns only where all it reads has settled (`ReturnedJoins`,
  which is also how its node stops being evicted).

The recursive functions of the model (`Keys`, `Reached`, `Plan`, `Sweep`, `FreshOf`, the cone of an
eviction) are CHOOSE
expressions to the prover.  `Recursion` takes the body and proves once that an equation which gives
each index its value from those of lower rank has a solution (`RecursionSolved`); an `INSTANCE` per
function, with a lemma that its body reads only lower ranks, gives each its equation (`KeysAt`,
`ReachedAt`, `PlanAt`, `SweepAt`, `FreshAt`).

### OpenDocument_proofs

For every budget and every sequence of steps, each operation of the history keeps what `HistoryHolds`
checks, ranges that follow each other from the head to the end of the buffer, a cursor within them, an
open gesture only at the tip (`NewHistoryIsSound`, `SealKeeps`, `PushKeeps`, `WithdrawKeeps`,
`UndoKeeps`, `RedoKeeps`), with the trimming to the budget and the draining of the dead prefix
included; and what was packed is what is decoded: `UndoReturnsThePush` (an undo right after a push
replays the very steps pushed) and `RedoReturnsTheUndo`.

From `DocumentAssumption` (the ids there are, of the nodes a library can resolve, are finitely many
numbers, and so is the number no canvas can draw), `BudgetAssumption`, `LibrariesAssumption` (a
library resolves nodes there are) and `FilesAssumption` (a file holds a document: the types `serde` decodes it into, nothing about
how its parts agree, which is for `Reconcile` to mend; it may name nodes no library has), for every
file, library, budget and bound: `HistoryStaysSound`, `FlagsStayTrue` and `LoadsKeepWhatTheyCan`, the
properties `HistoryHolds`, `FlagsFollowTheDocument` and `LoadKeepsWhatItCan`, and `LoadsAreSound`, what
`DocumentIsSound` says of the document a session begins on and of each a load leaves.  The invariant
`IInv` has three parts.

- `document` and `file` are documents, the history is sound and of well-formed steps, and the queue
  holds well-formed requests (`CanvasHolds`: also that a held gesture and its requests carry a number,
  so that a push is given one gesture or none).
- `DirtyTells` and `StampTells`: the two conjuncts of `FlagsFollowTheDocument` in every state.  Between
  the parts of a commit that a cancel cuts, the flags may be behind, and what they owe is in `signals`.
- `IsSettled`: with no commit under way nothing is owed, which is why a chord may land its own signals
  alone.

What makes it inductive is `Same(before, after, folded)`: a document changed no content unless
`folded` says it is dirtied, and no node set unless it says so.  `WriteKeeps` proves it of each kind of
step in both directions, `ReplayedKeeps` of any sequence of them, forward or backward; `LandAllKeeps`
of a whole batch, whose steps are read off the document as it changes (each intent's step, the
rewiring of ties after it, what the batch folds); `ReconcileLoads` says that a load with no repair to
report changed no content.  So an undo of whatever range the history hands out moves the flags as far
as it moved the document, and it does not matter which edit the range once was.  `Core`, which is
behind `UndoIsExact`, is not needed for it.

What a load leaves is followed pass by pass (`PassesLeave`, `ReattachStubsLoads`,
`StubUnresolvedLoads`, `GraphIsReconciled`): stubs come back whole and on ids of their own, a wire goes
only for an end that is gone or a library that refuses it, and the passes over the view see the graph
they are to fit.  That leaves the cycles, which `closing_wires` finds by a depth-first walk on an
explicit stack.  `ClosingWiresCloseCycles` is its correctness, over any finite graph, by an invariant
of the walk with four parts.
- `PathStands`, `WiresHang`: the stack holds the exits of the nodes on the path, in the order they
  were entered, and above each the wires of that node still to follow.
- `PathCovers`: of a wire into a node on the path, the wire was found closing, its producer is done, or
  above the node's exit there still is the wire itself or the producer's exit.
- `DoneIsRanked`: the nodes done have ranks that each wire left of them descends.  When a node's exit is
  reached all its producers are done, so it ranks above them all.
- `PathLeads`: from each node on the path the wires followed lead to those entered after it, which is
  why a wire back to the path closes a cycle of wires that stay.

No walk is longer than a root and an exit for each node and a visit for each wire (`VisitsRunOut`), so
the model's walk of that many visits is the whole one.  Ranks leave no cycle (`UpstreamIsWithin`: the
nodes ranked no higher than a producer are closed under feeding), and a wire dropped has its consumer
upstream of its producer (`UpstreamIsClosed`: as many levels as there are nodes reach everything).

`seal` keeps the steps worth keeping and folds the rest, and a replay, a batch, a rewiring and two
passes of the load are folds along a sequence.  `Recursion` takes the step as a constant of the
module, so that an `INSTANCE` of it gives each fold its induction: `FoldUnfolds` and `StepsReach`,
what one step keeps the fold keeps, by the least index at which it would not.

### FrameCache_proofs

From `SourcesAssumption`, `KeyAssumption` and `CommitAssumption` (the `None` that stands for no commit
is none), for any runs, files, clashes of names and gains, and any number of kills, rewrites and
damages, all three properties of `frame_cache`: `TakenFramesAreDecodes` (with `CommitsStayHonest`),
`CommitsAreWhole` and `FinishedRunsHeal`.

`FramesAreDecodes` needs that what a commit lists is the decode of what it names (`CommitsAreHonest`),
and, for each frame of a run, the order of the versions its turn meets: since the run began, as
probed, as read for the plan or resolved, as opened, as read to its end, now (`ProbeOK`, `PeekOK`,
`TurnOK`).  A decode that ends at the version it was keyed by, with `EnsureUnchanged` in between, was
then of that version throughout.  `CommitsAreWhole` has a second invariant, `KeepInv`: while nothing
was damaged, a frame alone under its name has its planes before its commit, each where the keep that
writes it has come to, and every gain a run has written, or a commit names, is in its file.

`FinishedRunsHeal` cannot use `KeepInv`, for it is about a cache that was damaged.  Its invariant,
`HealInv`, speaks of a run with no file changed or damaged since it began (`RunHeals`).  The versions
it meets are all the one its files have (`CalmVersions`), and beside it the cache only grows (`Grows`:
no other run takes a plane, a gain or a commit of a frame alone under its name away).  So what a probe
found committed still is, what the run published is there, and a frame that is done has its gain held.
A gain held need not be in its file: `FinishDecode` shares it among the frames of the run before
`KeepGain` writes it, and a reuse may take it then.  `GainComing` is what makes up for that: it is in
its file, or a frame of the run still on the way to its keep owes it, and since a run that ends well
has every frame done, none is left to owe it.

### Only model-checked

- Liveness (`PostsAreTaken`, `ShutdownEndsTheTask`, `PanickedLoopStops`, `ConversionsEnd`), which
  is beyond the prover under fairness.
- The refinement `UndoIsExact`, whose mapping replays packed steps.
- `DocumentIsSound` between loads, `OnlyALineIsMalformed`, `SavesComeBack` and `SeveredInputsShowDefaults`:
  they need the agreement of the document's parts, not just their types, kept by every kind of step and
  by its inverse (what an undo brings back is sound because it is the very document there was, which is
  `UndoIsExact`), and of the requests in the queue with the document they will land on.

## What is not modelled, and why

- *Imaging kernels and codecs* (`imaginarium/`, `simd/`, `lens/`, most of `lumos/`), by far the larger
  part of the repository: sequential numerical code, where what could be wrong is floating-point
  accuracy and the agreement of SIMD backends with scalar ones.  TLC reaches neither.  For that reason
  the map covers a small share of all lines, and most of those of the parts it is about.
- *Compiler*: a sequential transformation; a program is a constant of the models.
- *Other GUI panes, painting, hit tests*: layout and input, with no protocol beyond the requests
  they raise.
- *MCP transport, locators, shots*: I/O and wording.
- *Disk formats*: a blob of the runtime store is whole, or is found and will not decode, which is
  what a power loss may leave of one never synced (`Corrupt`).
- *The memory tiers of `lumos`* (which frames are held in RAM, in scratch files or in the cache, by
  free space): a choice of where, decided once before the load, with no state a later run reads.
- *Time, logs*: elapsed times and memory totals are left out of reports; nothing decides on them.
- *Messages of test builds*: the worker's `cfg(test)` variants.

## Plan

1. `DocumentIsSound` through edits and undos and `OnlyALineIsMalformed`, on top of `IInv` and
   `LoadsAreSound` of `OpenDocument_proofs`.
2. The identity of a source rewritten within the resolution of its timestamp, in `RunLoop` and in
   `FrameCache`.
