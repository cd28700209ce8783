------------------------------- MODULE Worker -------------------------------
(***************************************************************************)
(* The evaluation worker (scenarium/src/worker): the mailbox the host      *)
(* posts into, the task that takes it a batch at a time, the event loop    *)
(* whose tasks fire events beside it, the pause gate a run closes on those *)
(* tasks, and the two tokens the handle trips: run_cancel and shutdown.    *)
(*                                                                         *)
(* Three kinds of process interleave: the host thread, the worker task and *)
(* one task per armed event.  The engine is what the worker sees of it:    *)
(* the program installed, whether planning accepts the seeds, and a number *)
(* of nodes to run with a poll of the cancel token before each.            *)
(***************************************************************************)
EXTENDS BatchIntent, SequencesExt

CONSTANTS
    Scripts,        \* what the host may ask: sequences of posts (HostCommands)
    Backpressure,   \* EVENT_LOOP_BACKPRESSURE, the event channel's capacity
    MaxCalls,       \* bound: host commands in a behaviour
    MaxCancels,     \* bound: cancel requests in a behaviour
    MaxRunNodes     \* bound: nodes one run may process

ASSUME WorkerAssumption ==
    /\ Scripts \subseteq Seq(Seq(Message))
    /\ Backpressure \in Nat \ {0}
    /\ MaxCalls \in Nat /\ MaxCancels \in Nat /\ MaxRunNodes \in Nat

VARIABLES
    \* the host thread
    hostPc,      \* where it is in a post, or in exit()
    script,      \* posts of the current command not made yet
    post,        \* messages of the current post not merged yet
    calls, cancels,
    \* shared: the mailbox and the tokens
    pending,     \* the batch the worker has not taken
    permit,      \* the one permit the mailbox's Notify stores
    closed,      \* posts are refused
    runCancel, shutdown, aborted,
    \* the worker task
    pc, fired, intent, transition, stoppedLoop, installed, store, work,
    activity,    \* the activity the host was last told
    \* the event loop
    loop,        \* the events armed in the active loop; {} is no loop
    task,        \* where each event's task is
    channel,     \* events fired and not received
    gate,        \* PauseGate's close_count
    \* history
    pendingNewer, batchNewer,  \* a message was posted after the last cancel
    raised,      \* a cancel came after the current batch committed
    sent         \* events each task sent since the gate closed

hostVars   == <<hostPc, script, post, calls, cancels>>
mailVars   == <<pending, permit, closed>>
tokenVars  == <<runCancel, shutdown, aborted>>
batchVars  == <<fired, intent, transition, stoppedLoop>>
engineVars == <<installed, store, work>>
loopVars   == <<loop, task, channel>>
gateVars   == <<gate, sent>>
histVars   == <<pendingNewer, batchNewer, raised>>
vars == <<hostVars, mailVars, tokenVars, pc, batchVars, engineVars, activity,
          loopVars, gateVars, histVars>>

Activities == {"Idle", "Executing", "EventLoop", "ExecutingEventLoop"}

Init ==
    /\ hostPc = "idle" /\ script = <<>> /\ post = <<>> /\ calls = 0 /\ cancels = 0
    /\ pending = EmptyIntent /\ permit = FALSE /\ closed = FALSE
    /\ runCancel = FALSE /\ shutdown = FALSE /\ aborted = FALSE
    /\ pc = "poll" /\ fired = {} /\ intent = EmptyIntent
    /\ transition = "Preserve" /\ stoppedLoop = FALSE
    /\ installed = Empty /\ store = None /\ work = 0
    /\ activity = "Idle"
    /\ loop = {} /\ task = [e \in Events |-> "off"] /\ channel = <<>>
    /\ gate = 0 /\ sent = [e \in Events |-> 0]
    /\ pendingNewer = FALSE /\ batchNewer = FALSE /\ raised = FALSE

-----------------------------------------------------------------------------
(* The host thread *)

(* RuntimeHost dispatches one command. *)
HostCall(s) ==
    /\ hostPc = "idle" /\ calls < MaxCalls
    /\ calls' = calls + 1
    /\ script' = s
    /\ hostPc' = "posting"
    /\ UNCHANGED <<post, cancels, mailVars, tokenVars, pc, batchVars, engineVars,
                   activity, loopVars, gateVars, histVars>>

(* Mailbox::post takes the lock; the worker that has ended refuses, and the *)
(* editor's dispatch panics on the refusal.                                  *)
LockMailbox ==
    /\ hostPc = "posting" /\ script # <<>>
    /\ IF closed
       THEN /\ hostPc' = "panicked"
            /\ UNCHANGED <<post, script>>
       ELSE /\ hostPc' = "merging"
            /\ post' = Head(script)
            /\ script' = Tail(script)
    /\ UNCHANGED <<calls, cancels, mailVars, tokenVars, pc, batchVars, engineVars,
                   activity, loopVars, gateVars, histVars>>

(* Under the lock, one message merged into the pending batch. *)
MergeMessage ==
    /\ hostPc = "merging" /\ post # <<>>
    /\ pending' = Push(pending, Head(post))
    /\ post' = Tail(post)
    /\ pendingNewer' = TRUE
    /\ UNCHANGED <<hostPc, script, calls, cancels, permit, closed, tokenVars, pc,
                   batchVars, engineVars, activity, loopVars, gateVars,
                   batchNewer, raised>>

UnlockMailbox ==
    /\ hostPc = "merging" /\ post = <<>>
    /\ hostPc' = "notifying"
    /\ UNCHANGED <<script, post, calls, cancels, mailVars, tokenVars, pc, batchVars,
                   engineVars, activity, loopVars, gateVars, histVars>>

(* Mutant: notify_waiters, which stores nothing for a worker not waiting. *)
WakeOnlyASleeper == permit' = (permit \/ pc = "poll")

(* Notify::notify_one: the permit is stored until a wait takes it. *)
StorePermit == permit' = TRUE

NotifyWorker ==
    /\ hostPc = "notifying"
    /\ StorePermit
    /\ hostPc' = IF script = <<>> THEN "idle" ELSE "posting"
    /\ UNCHANGED <<script, post, calls, cancels, pending, closed, tokenVars, pc,
                   batchVars, engineVars, activity, loopVars, gateVars, histVars>>

(* The token is raised; what was posted so far was posted before it. *)
RaiseCancel ==
    /\ runCancel' = TRUE
    /\ raised' = TRUE
    /\ pendingNewer' = FALSE
    /\ batchNewer' = FALSE

(* Worker::request_cancel *)
RequestCancel ==
    /\ hostPc = "idle" /\ cancels < MaxCancels
    /\ cancels' = cancels + 1
    /\ RaiseCancel
    /\ UNCHANGED <<hostPc, script, post, calls, mailVars, shutdown, aborted, pc,
                   batchVars, engineVars, activity, loopVars, gateVars>>

(* Worker::request_exit raises shutdown first and run_cancel second: the two *)
(* are separate stores, and the worker may run between them.                 *)
ExitShutdown ==
    /\ hostPc = "idle"
    /\ shutdown' = TRUE
    /\ hostPc' = "exiting"
    /\ UNCHANGED <<script, post, calls, cancels, mailVars, runCancel, aborted, pc,
                   batchVars, engineVars, activity, loopVars, gateVars, histVars>>

ExitCancel ==
    /\ hostPc = "exiting"
    /\ RaiseCancel
    /\ hostPc' = "exited"
    /\ UNCHANGED <<script, post, calls, cancels, mailVars, shutdown, aborted, pc,
                   batchVars, engineVars, activity, loopVars, gateVars>>

(* Dropping the handle instead of awaiting exit() also aborts the task. *)
AbortTask ==
    /\ hostPc = "exited" /\ ~aborted
    /\ aborted' = TRUE
    /\ UNCHANGED <<hostVars, mailVars, runCancel, shutdown, pc, batchVars, engineVars,
                   activity, loopVars, gateVars, histVars>>

HostStep ==
    \/ LockMailbox \/ MergeMessage \/ UnlockMailbox \/ NotifyWorker \/ ExitCancel

HostRequest ==
    \/ \E s \in Scripts : HostCall(s)
    \/ RequestCancel \/ ExitShutdown \/ AbortTask

-----------------------------------------------------------------------------
(* The event loop's tasks: wait for the lambda to fire, send the event, wait *)
(* for the gate, again.  A task that panics ends and waits to be joined.     *)

TaskStep(e, from, to) ==
    /\ e \in loop /\ task[e] = from
    /\ task' = [task EXCEPT ![e] = to]

EventFires(e) ==
    /\ TaskStep(e, "fire", "send")
    /\ UNCHANGED <<hostVars, mailVars, tokenVars, pc, batchVars, engineVars, activity,
                   loop, channel, gateVars, histVars>>

EventPanics(e) ==
    /\ TaskStep(e, "fire", "panicked")
    /\ UNCHANGED <<hostVars, mailVars, tokenVars, pc, batchVars, engineVars, activity,
                   loop, channel, gateVars, histVars>>

EventSends(e) ==
    /\ TaskStep(e, "send", "gate")
    /\ Len(channel) < Backpressure
    /\ channel' = Append(channel, e)
    /\ sent' = IF gate > 0 THEN [sent EXCEPT ![e] = @ + 1] ELSE sent
    /\ UNCHANGED <<hostVars, mailVars, tokenVars, pc, batchVars, engineVars, activity,
                   loop, gate, histVars>>

(* Mutant: a task that never waits for the gate. *)
GateIgnored == TRUE

(* PauseGate::wait *)
GateOpen == gate = 0

EventPassesGate(e) ==
    /\ TaskStep(e, "gate", "fire")
    /\ GateOpen
    /\ UNCHANGED <<hostVars, mailVars, tokenVars, pc, batchVars, engineVars, activity,
                   loop, channel, gateVars, histVars>>

EventStep ==
    \E e \in Events :
        EventFires(e) \/ EventPanics(e) \/ EventSends(e) \/ EventPassesGate(e)

-----------------------------------------------------------------------------
(* The worker task: next_intent *)

LoopActive == loop # {}
SomeTaskPanicked == \E e \in loop : task[e] = "panicked"

(* finish_event_loop, and dropping the loop: every task is aborted and       *)
(* joined, and what they sent goes with the channel.                         *)
StopTasks ==
    /\ loop' = {}
    /\ task' = [e \in Events |-> "off"]
    /\ channel' = <<>>

RestingActivity(armed) == IF armed # {} THEN "EventLoop" ELSE "Idle"

(* Mutant: the select polls the shutdown last. *)
ShutdownPolledLast == shutdown /\ ~permit /\ channel = <<>>

(* The select is biased: shutdown, then the mailbox, then the event loop.    *)
ShutdownReady == shutdown
MailboxReady  == permit /\ ~ShutdownReady
LoopReady     == LoopActive /\ ~permit /\ ~ShutdownReady

ShutdownWake ==
    /\ pc = "poll" /\ ShutdownReady
    /\ pc' = "draining"
    /\ UNCHANGED <<hostVars, mailVars, tokenVars, batchVars, engineVars, activity,
                   loopVars, gateVars, histVars>>

MailboxWake ==
    /\ pc = "poll" /\ MailboxReady
    /\ permit' = FALSE
    /\ pc' = "take"
    /\ UNCHANGED <<hostVars, pending, closed, tokenVars, batchVars, engineVars, activity,
                   loopVars, gateVars, histVars>>

(* Mutant: the select's arms swapped, the events polled before the panics. *)
EventsFirst ==
    CASE channel # <<>>                      -> "events"
      [] channel = <<>> /\ SomeTaskPanicked  -> "panic"
      [] channel = <<>> /\ ~SomeTaskPanicked -> "none"

(* The arm ActiveEventLoop::recv takes, "none" when it waits.  Its select is *)
(* biased too: a task that panicked is joined before any event is received.  *)
LoopArm ==
    CASE SomeTaskPanicked                    -> "panic"
      [] ~SomeTaskPanicked /\ channel # <<>> -> "events"
      [] ~SomeTaskPanicked /\ channel = <<>> -> "none"

(* recv_many takes up to EVENT_LOOP_BACKPRESSURE events: the whole channel. *)
EventWake ==
    /\ pc = "poll" /\ LoopReady /\ LoopArm = "events"
    /\ fired' = ToSet(channel)
    /\ channel' = <<>>
    /\ pc' = "take"
    /\ UNCHANGED <<hostVars, mailVars, tokenVars, intent, transition, stoppedLoop,
                   engineVars, activity, loop, task, gateVars, histVars>>

(* fail_event_loop: the other tasks are aborted, and what they sent is lost. *)
PanicWake ==
    /\ pc = "poll" /\ LoopReady /\ LoopArm = "panic"
    /\ StopTasks
    /\ activity' = "Idle"
    /\ UNCHANGED <<hostVars, mailVars, tokenVars, pc, batchVars, engineVars, gateVars,
                   histVars>>

(* take_into swaps the pending batch in under the lock and the fired events  *)
(* join it: whatever was posted since the wake travels with them.            *)
TakeBatch ==
    /\ pc = "take" /\ hostPc # "merging"
    /\ LET batch == AddEvents(pending, fired)
       IN /\ intent' = batch
          /\ pc' = IF IsEmpty(batch) THEN "poll" ELSE "commit"
    /\ pending' = EmptyIntent
    /\ fired' = {}
    /\ batchNewer' = pendingNewer
    /\ pendingNewer' = FALSE
    /\ UNCHANGED <<hostVars, permit, closed, tokenVars, transition, stoppedLoop, engineVars,
                   activity, loopVars, gateVars, raised>>

(* Mutant: the token is left as the last batch's cancel set it. *)
CommitWithoutReset ==
    /\ pc = "commit"
    /\ pc' = "apply"
    /\ raised' = FALSE
    /\ UNCHANGED <<hostVars, mailVars, tokenVars, batchVars, engineVars, activity,
                   loopVars, gateVars, pendingNewer, batchNewer>>

(* The cancellation commit boundary. *)
CommitBatch ==
    /\ pc = "commit"
    /\ runCancel' = FALSE
    /\ raised' = FALSE
    /\ pc' = "apply"
    /\ UNCHANGED <<hostVars, mailVars, shutdown, aborted, batchVars, engineVars, activity,
                   loopVars, gateVars, pendingNewer, batchNewer>>

-----------------------------------------------------------------------------
(* The worker task: apply_intent *)

(* Stop the loop a transition ends, then the graph op, then the store, the   *)
(* eviction and the flushes (DocumentCache models what those do to blobs):   *)
(* every slot but the seeds and the loop request is consumed.                *)
ApplyCommands ==
    /\ pc = "apply"
    /\ transition' = Transition(intent, LoopActive)
    /\ stoppedLoop' = (transition' # "Preserve" /\ LoopActive)
    /\ IF stoppedLoop' THEN StopTasks ELSE UNCHANGED loopVars
    /\ installed' = IF intent.graph = None THEN installed ELSE intent.graph
    /\ store' = IF intent.store = None THEN store ELSE intent.store
    /\ intent' = [intent EXCEPT !.graph = None, !.store = None, !.evict = {},
                                !.flush = {}, !.flushAll = FALSE]
    /\ pc' = "execute"
    /\ UNCHANGED <<hostVars, mailVars, tokenVars, fired, work, activity, gateVars, histVars>>

(* PendingRun::take: a rebuild runs even with nothing named, to initialize   *)
(* the event sources; the empty program runs nothing.                        *)
StartsLoop == transition = "Rebuild"
WantsRun == (StartsLoop \/ ~NoSeeds(intent)) /\ NodesIn(installed) # {}

EndBatch ==
    /\ pc' = "yield"
    /\ intent' = EmptyIntent
    /\ transition' = "Preserve"
    /\ stoppedLoop' = FALSE

(* Mutant: the quiet stop is never followed by an Idle. *)
SkipRunInSilence ==
    /\ pc = "execute" /\ ~WantsRun
    /\ EndBatch
    /\ UNCHANGED <<hostVars, mailVars, tokenVars, fired, engineVars, activity, loopVars,
                   gateVars, histVars>>

SkipRun ==
    /\ pc = "execute" /\ ~WantsRun
    /\ activity' = IF stoppedLoop THEN "Idle" ELSE activity
    /\ EndBatch
    /\ UNCHANGED <<hostVars, mailVars, tokenVars, fired, engineVars, loopVars, gateVars,
                   histVars>>

(* execute returns at once under a shutdown, reporting nothing. *)
RefuseRun ==
    /\ pc = "execute" /\ WantsRun /\ shutdown
    /\ EndBatch
    /\ UNCHANGED <<hostVars, mailVars, tokenVars, fired, engineVars, activity, loopVars,
                   gateVars, histVars>>

(* PauseGate::close *)
CloseGate ==
    /\ gate' = gate + 1
    /\ sent' = [e \in Events |-> 0]

(* Mutant: the shutdown is not looked at again after the commit. *)
BeginRunUnderShutdown ==
    /\ pc = "execute" /\ WantsRun
    /\ activity' = IF LoopActive THEN "ExecutingEventLoop" ELSE "Executing"
    /\ CloseGate
    /\ intent' = [intent EXCEPT !.sources = @ \/ StartsLoop]
    /\ pc' = "plan"
    /\ UNCHANGED <<hostVars, mailVars, tokenVars, fired, transition, stoppedLoop,
                   engineVars, loopVars, histVars>>

BeginRun ==
    /\ pc = "execute" /\ WantsRun /\ ~shutdown
    /\ activity' = IF LoopActive THEN "ExecutingEventLoop" ELSE "Executing"
    /\ CloseGate
    /\ intent' = [intent EXCEPT !.sources = @ \/ StartsLoop]
    /\ pc' = "plan"
    /\ UNCHANGED <<hostVars, mailVars, tokenVars, fired, transition, stoppedLoop,
                   engineVars, loopVars, histVars>>

(* The guard drops: the gate reopens as the last one goes. *)
OpenGate ==
    /\ gate' = gate - 1
    /\ sent' = [e \in Events |-> 0]

(* Dropping the task closes the mailbox and ends the loop. *)
EndTask(end) ==
    /\ hostPc # "merging"
    /\ pc' = end
    /\ closed' = TRUE
    /\ StopTasks
    /\ fired' = {} /\ intent' = EmptyIntent
    /\ transition' = "Preserve" /\ stoppedLoop' = FALSE
    /\ work' = 0

SeedsFound   == intent.nodes \subseteq NodesIn(installed)
EventsFound  == intent.events \subseteq EventsIn(installed)

(* collect_roots: a node seed the program lacks fails the run... *)
PlanFails ==
    /\ pc = "plan" /\ ~SeedsFound
    /\ activity' = RestingActivity(loop)
    /\ OpenGate
    /\ EndBatch
    /\ UNCHANGED <<hostVars, mailVars, tokenVars, fired, engineVars, loopVars, histVars>>

(* ...and a fired event it does not declare panics, which ends the task. *)
PlanPanics ==
    /\ pc = "plan" /\ SeedsFound /\ ~EventsFound
    /\ EndTask("panicked")
    /\ OpenGate
    /\ UNCHANGED <<hostVars, pending, permit, tokenVars, installed, store, activity, histVars>>

PlanRun ==
    /\ pc = "plan" /\ SeedsFound /\ EventsFound
    /\ work' \in 0..MaxRunNodes
    /\ pc' = "run"
    /\ UNCHANGED <<hostVars, mailVars, tokenVars, batchVars, installed, store, activity,
                   loopVars, gateVars, histVars>>

(* Mutant: the run loop passes its last node. *)
RunPastTheLastNode ==
    /\ pc = "run" /\ ~runCancel
    /\ work' = work - 1
    /\ UNCHANGED <<hostVars, mailVars, tokenVars, pc, batchVars, installed, store, activity,
                   loopVars, gateVars, histVars>>

(* The executor polls the token before each node. *)
RunNextNode ==
    /\ pc = "run" /\ work > 0 /\ ~runCancel
    /\ work' = work - 1
    /\ UNCHANGED <<hostVars, mailVars, tokenVars, pc, batchVars, installed, store, activity,
                   loopVars, gateVars, histVars>>

(* Nothing catches a node lambda's panic. *)
NodePanics ==
    /\ pc = "run" /\ work > 0 /\ ~runCancel
    /\ EndTask("panicked")
    /\ OpenGate
    /\ UNCHANGED <<hostVars, pending, permit, tokenVars, installed, store, activity, histVars>>

(* A bootstrap run starts the loop over the triggers it initialized, unless  *)
(* a shutdown came meanwhile.                                                *)
ArmLoop(triggers) ==
    /\ loop' = triggers
    /\ task' = [e \in Events |-> IF e \in triggers THEN "fire" ELSE "off"]
    /\ channel' = <<>>

FinishRun ==
    /\ pc = "run" /\ (work = 0 \/ runCancel)
    /\ IF StartsLoop /\ ~shutdown
       THEN \E triggers \in SUBSET EventsIn(installed) : ArmLoop(triggers)
       ELSE UNCHANGED loopVars
    /\ activity' = RestingActivity(loop')
    /\ OpenGate
    /\ work' = 0
    /\ EndBatch
    /\ UNCHANGED <<hostVars, mailVars, tokenVars, fired, installed, store, histVars>>

Yield ==
    /\ pc = "yield"
    /\ pc' = "poll"
    /\ UNCHANGED <<hostVars, mailVars, tokenVars, batchVars, engineVars, activity, loopVars,
                   gateVars, histVars>>

(* run() leaves its loop: the event loop is drained and Idle reported, when  *)
(* there is one to drain.                                                    *)
DrainAndEnd ==
    /\ pc = "draining"
    /\ activity' = IF LoopActive THEN "Idle" ELSE activity
    /\ EndTask("ended")
    /\ UNCHANGED <<hostVars, pending, permit, tokenVars, installed, store, gateVars, histVars>>

(* The places the task awaits, where an abort can drop it. *)
Awaiting == pc \in {"poll", "apply", "run", "yield", "draining"}

DropTask ==
    /\ aborted /\ Awaiting
    /\ EndTask("aborted")
    /\ IF pc = "run" THEN OpenGate ELSE UNCHANGED gateVars
    /\ UNCHANGED <<hostVars, pending, permit, tokenVars, installed, store, activity, histVars>>

WorkerStep ==
    \/ ShutdownWake \/ MailboxWake \/ EventWake \/ PanicWake
    \/ TakeBatch \/ CommitBatch
    \/ ApplyCommands \/ SkipRun \/ RefuseRun \/ BeginRun
    \/ PlanFails \/ PlanPanics \/ PlanRun \/ RunNextNode \/ FinishRun \/ Yield
    \/ DrainAndEnd \/ DropTask

Next == HostRequest \/ HostStep \/ EventStep \/ WorkerStep \/ NodePanics

Spec == Init /\ [][Next]_vars

(* tokio polls a ready task and the host finishes a call it began.  What the *)
(* host asks, an event's firing and a panic are nobody's obligation.         *)
Fairness == WF_vars(WorkerStep) /\ WF_vars(HostStep)

FairSpec == Spec /\ Fairness

-----------------------------------------------------------------------------
(* Types.  The history variables and the bounds are typed with the rest. *)

HostPcs == {"idle", "posting", "merging", "notifying", "exiting", "exited", "panicked"}
Ended == {"ended", "panicked", "aborted"}
Pcs == {"poll", "take", "commit", "apply", "execute", "plan", "run", "yield",
        "draining"} \cup Ended
TaskPcs == {"off", "fire", "send", "gate", "panicked"}

HostTypeOK ==
    /\ hostPc \in HostPcs
    /\ script \in Seq(Seq(Message))
    /\ post \in Seq(Message)
    /\ calls \in 0..MaxCalls
    /\ cancels \in 0..MaxCancels

WorkerTypeOK ==
    /\ pc \in Pcs
    /\ fired \in SUBSET Events
    /\ intent \in Intent
    /\ transition \in {"Preserve", "Stop", "Rebuild"}
    /\ stoppedLoop \in BOOLEAN
    /\ installed \in Programs \cup {Empty}
    /\ store \in Stores \cup {None}
    /\ work \in 0..MaxRunNodes
    /\ activity \in Activities

LoopTypeOK ==
    /\ loop \in SUBSET Events
    /\ task \in [Events -> TaskPcs]
    /\ channel \in Seq(Events)
    /\ gate \in Nat
    /\ sent \in [Events -> Nat]

MailTypeOK ==
    /\ pending \in Intent
    /\ permit \in BOOLEAN /\ closed \in BOOLEAN

TokenTypeOK ==
    /\ runCancel \in BOOLEAN /\ shutdown \in BOOLEAN /\ aborted \in BOOLEAN
    /\ pendingNewer \in BOOLEAN /\ batchNewer \in BOOLEAN /\ raised \in BOOLEAN

(* Every variable holds a value of the type the code gives it. *)
TypeOK == HostTypeOK /\ MailTypeOK /\ TokenTypeOK /\ WorkerTypeOK /\ LoopTypeOK

-----------------------------------------------------------------------------
(* Safety *)

Running == pc \in {"plan", "run"}

(* Once request_exit has returned, no run goes on with its token lowered: a  *)
(* commit cannot rearm the token of a run that starts after the shutdown     *)
(* (Worker::exit would otherwise join a run nobody cancels).                 *)
ExitCancelsTheRun == Running /\ hostPc = "exited" => runCancel

(* A cancel raised after a batch committed reaches its run, and one raised   *)
(* before the batch's last message was posted does not: cancelling, then     *)
(* asking for a run, never cancels the run asked for.                        *)
CancelTargetsItsBatch ==
    Running => /\ raised => runCancel
               /\ batchNewer => ~runCancel

(* The worker never sleeps on a batch: when the task waits and no post is    *)
(* half made, a batch with something in it has its wake stored.              *)
NoLostWake ==
    pc = "poll" /\ hostPc \notin {"merging", "notifying"} /\ ~IsEmpty(pending) => permit

(* Between batches the loop armed is one the installed program declares:     *)
(* every install stops or rebuilds a loop of the program before it.          *)
LoopIsOfTheProgram == loop \subseteq EventsIn(installed)

(* What the host was last told of the worker is what the worker is doing,    *)
(* at rest and in a run, until a shutdown is under way.                      *)
ActivityIsTruthful ==
    /\ pc = "poll" /\ ~shutdown => activity = RestingActivity(loop)
    /\ Running => activity = IF LoopActive THEN "ExecutingEventLoop" ELSE "Executing"

(* While a run holds the gate closed, an event task sends at most one event, *)
(* the one it was firing as the gate closed, and then fires no other: it     *)
(* waits at the gate, or is gone.                                            *)
OneEventBehindTheRun ==
    \A e \in Events : gate > 0 => \/ sent[e] = 0
                                  \/ sent[e] = 1 /\ task[e] \in {"gate", "off"}

(* The gate is closed exactly while a run is planned or executed, and once:  *)
(* no path out of execute, a panic and an abort included, leaves it closed.  *)
GateClosedOnlyInRuns == gate = IF Running THEN 1 ELSE 0

(* PauseGate as its two users see it: the events wait for the run, but for   *)
(* the one each task was firing, and for nothing else.                       *)
GateHoldsTheEventsBack == OneEventBehindTheRun /\ GateClosedOnlyInRuns

(* A node named in the program the same command installed is in the program  *)
(* its run plans, however the worker splits or merges the posts between.     *)
NamedNodesAreInstalled == pc = "plan" => SeedsFound

(* seeds.rs:19-20 and schedule/mod.rs:385-386: an event a batch runs is one  *)
(* its installed program declares.                                           *)
FiredEventsAreDeclared == pc = "plan" => EventsFound

-----------------------------------------------------------------------------
(* Liveness, under Fairness *)

(* Every batch posted is taken, or the task has ended: no event stream keeps *)
(* the mailbox from its turn.                                                *)
PostsAreTaken == ~IsEmpty(pending) ~> IsEmpty(pending) \/ closed

(* A shutdown ends the task, whatever the event loop and the run are doing.  *)
ShutdownEndsTheTask == shutdown ~> pc \in Ended

(* A loop one of whose tasks panicked is torn down, or the worker's task has *)
(* ended, however often the loop's other tasks fire.                         *)
PanickedLoopStops == SomeTaskPanicked ~> ~SomeTaskPanicked
=============================================================================
