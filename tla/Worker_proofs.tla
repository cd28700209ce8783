---------------------------- MODULE Worker_proofs ----------------------------
(***************************************************************************)
(* Proofs about Worker, and about DocumentCache which composes it with the *)
(* editor's commands and the disk store, for every value of the constants: *)
(* the types and the safety invariants the runs of both check.             *)
(*                                                                         *)
(* Each property of Worker is the consequence of a named part of IInv,     *)
(* whose parts say what holds at the places of the worker's loop the       *)
(* property does not look at.  NamedNodesAreInstalled is not one of them:  *)
(* it rests on what the editor posts, so it is proved, with the blobs, of  *)
(* the composition, whose invariant CacheInv follows a command's posts     *)
(* from the script to the batch, and the batch to its application.         *)
(***************************************************************************)
EXTENDS DocumentCache, TLAPS

(* The gate's count follows the runs, and once. *)
GateInv == GateClosedOnlyInRuns

(* A batch with something in it has a wake stored, or on its way, or the     *)
(* worker past its wait and about to take it.                                *)
MailInv == ~IsEmpty(pending) =>
    \/ permit
    \/ hostPc \in {"merging", "notifying"}
    \/ pc = "take"
    \/ pc \in Ended

(* Only exit raises the shutdown, and it raises run_cancel next: from the    *)
(* commit to the end of the run the token tells what came since.             *)
CancelInv ==
    /\ shutdown <=> hostPc \in {"exiting", "exited"}
    /\ Running /\ hostPc = "exited" => runCancel
    /\ pc \in {"apply", "execute", "plan", "run"} =>
         /\ raised => runCancel
         /\ batchNewer => ~runCancel

LoopInv == LoopIsOfTheProgram

(* Between a batch's quiet stop and its run, the host is told of a loop that *)
(* is gone: stoppedLoop remembers it.                                        *)
ActivityInv ==
    /\ pc \in {"poll", "take", "commit", "apply", "yield"} /\ ~shutdown
         => activity = RestingActivity(loop)
    /\ pc = "execute" /\ ~shutdown
         => activity = IF stoppedLoop THEN "EventLoop" ELSE RestingActivity(loop)
    /\ pc = "execute" /\ stoppedLoop => loop = {}
    /\ Running => activity = IF LoopActive THEN "ExecutingEventLoop" ELSE "Executing"

IInv ==
    /\ TypeOK /\ GateInv /\ MailInv /\ CancelInv /\ LoopInv /\ ActivityInv
    /\ OneEventBehindTheRun

-----------------------------------------------------------------------------
(* The batch's operators return batches. *)

(* BatchIntent::push keeps a batch a batch, whatever the message. *)
LEMMA PushType ==
  ASSUME NEW i \in Intent, NEW m \in Message
  PROVE  Push(i, m) \in Intent
<1>. USE DEF Intent, Message
<1>1. ASSUME NEW p \in Programs \cup {Empty} PROVE InstallInto(i, p) \in Intent
  BY <1>1 DEF InstallInto
<1>. QED
  BY <1>1, ZenonT(40) DEF Push

(* So does RunSeeds::add_events. *)
LEMMA AddEventsType ==
  ASSUME NEW i \in Intent, NEW f \in SUBSET Events
  PROVE  AddEvents(i, f) \in Intent
BY DEF AddEvents, Intent

(* The cleared batch is one. *)
LEMMA EmptyIntentType == EmptyIntent \in Intent
BY DEF EmptyIntent, Intent

(* A program declares events of the universe, the empty program none. *)
LEMMA EventsInType == ASSUME NEW p PROVE EventsIn(p) \subseteq Events
BY ProgramAssumption DEF EventsIn

-----------------------------------------------------------------------------
(* What each process leaves alone. *)

USE DEF hostVars, mailVars, tokenVars, batchVars, engineVars, loopVars, gateVars, histVars

(* The host thread reaches the worker by the mailbox and the tokens only, and *)
(* never lowers the shutdown.                                                *)
LEMMA HostFrame ==
  HostRequest \/ HostStep =>
    /\ UNCHANGED <<pc, batchVars, engineVars, activity, loopVars, gateVars>>
    /\ shutdown => shutdown'
BY DEF HostRequest, HostStep, HostCall, RequestCancel, RaiseCancel, ExitShutdown, AbortTask,
       LockMailbox, MergeMessage, UnlockMailbox, NotifyWorker, ExitCancel

(* An event task reaches the worker by the channel only. *)
LEMMA EventFrame ==
  EventStep =>
    UNCHANGED <<hostVars, mailVars, tokenVars, pc, batchVars, engineVars, activity, loop,
                gate, histVars>>
BY DEF EventStep, TaskStep, EventFires, EventPanics, EventSends, EventPassesGate

(* The worker never touches the host's own state. *)
LEMMA WorkerFrame == WorkerStep \/ NodePanics => UNCHANGED hostVars
BY DEF WorkerStep, NodePanics, ShutdownWake, MailboxWake, EventWake, PanicWake, TakeBatch,
       CommitBatch, ApplyCommands, SkipRun, RefuseRun, BeginRun, PlanFails, PlanPanics,
       PlanRun, RunNextNode, FinishRun, Yield, DrainAndEnd, DropTask

-----------------------------------------------------------------------------
(* Every step keeps the types. *)

(* The host's thread stays in its types: the bounds are its guards. *)
LEMMA HostTypeStep == TypeOK /\ [Next]_vars => HostTypeOK'
<1>. SUFFICES ASSUME TypeOK, [Next]_vars PROVE HostTypeOK'
  OBVIOUS
<1>. USE DEF TypeOK, HostTypeOK, HostPcs
<1>1. ASSUME NEW s \in Scripts, HostCall(s) PROVE HostTypeOK'
  BY <1>1, WorkerAssumption DEF HostCall
<1>2. CASE RequestCancel
  BY <1>2, WorkerAssumption DEF RequestCancel, RaiseCancel
<1>3. CASE ExitShutdown
  BY <1>3 DEF ExitShutdown
<1>4. CASE AbortTask
  BY <1>4 DEF AbortTask
<1>5. CASE LockMailbox
  <2>1. CASE closed
    BY <1>5, <2>1 DEF LockMailbox
  <2>2. CASE ~closed
    <3>1. Head(script) \in Seq(Message) /\ Tail(script) \in Seq(Seq(Message))
      BY <1>5 DEF LockMailbox
    <3>. QED
      BY <1>5, <2>2, <3>1 DEF LockMailbox
  <2>. QED
    BY <2>1, <2>2
<1>6. CASE MergeMessage
  <2>1. Tail(post) \in Seq(Message)
    BY <1>6 DEF MergeMessage
  <2>. QED
    BY <1>6, <2>1 DEF MergeMessage
<1>7. CASE UnlockMailbox
  BY <1>7 DEF UnlockMailbox
<1>8. CASE NotifyWorker
  BY <1>8 DEF NotifyWorker, StorePermit
<1>9. CASE ExitCancel
  BY <1>9 DEF ExitCancel, RaiseCancel
<1>10. CASE EventStep
  BY <1>10, EventFrame
<1>11. CASE WorkerStep \/ NodePanics
  BY <1>11, WorkerFrame
<1>12. CASE UNCHANGED vars
  BY <1>12 DEF vars
<1>. QED
  BY <1>1, <1>2, <1>3, <1>4, <1>5, <1>6, <1>7, <1>8, <1>9, <1>10, <1>11,
     <1>12 DEF Next, HostRequest, HostStep

(* The mailbox always holds a batch. *)
LEMMA MailTypeStep == TypeOK /\ [Next]_vars => MailTypeOK'
<1>. SUFFICES ASSUME TypeOK, [Next]_vars PROVE MailTypeOK'
  OBVIOUS
<1>. USE DEF TypeOK, MailTypeOK, HostTypeOK
<1>1. CASE RequestCancel \/ ExitShutdown \/ AbortTask \/ LockMailbox \/
          UnlockMailbox \/ ExitCancel \/ ShutdownWake \/ EventWake \/
          PanicWake \/ CommitBatch \/ ApplyCommands \/ SkipRun \/ RefuseRun \/
          BeginRun \/ PlanFails \/ PlanRun \/ RunNextNode \/ FinishRun \/
          Yield
  BY <1>1 DEF LockMailbox, UnlockMailbox, RequestCancel, RaiseCancel,
     ExitShutdown, AbortTask, ExitCancel, ShutdownWake, EventWake, PanicWake,
     StopTasks, CommitBatch, ApplyCommands, LoopActive, SkipRun, EndBatch,
     RefuseRun, BeginRun, CloseGate, PlanFails, OpenGate, PlanRun, RunNextNode,
     FinishRun, ArmLoop, Yield
<1>2. ASSUME NEW s \in Scripts, HostCall(s) PROVE MailTypeOK'
  BY <1>2 DEF HostCall
<1>3. CASE MergeMessage
  <2>1. Head(post) \in Message
    BY <1>3 DEF MergeMessage
  <2>2. Push(pending, Head(post)) \in Intent
    BY <2>1, PushType
  <2>. QED
    BY <1>3, <2>2 DEF MergeMessage
<1>4. CASE NotifyWorker
  BY <1>4 DEF NotifyWorker, StorePermit
<1>5. CASE EventStep
  BY <1>5, EventFrame
<1>6. CASE MailboxWake
  BY <1>6 DEF MailboxWake
<1>7. CASE TakeBatch
  BY <1>7, EmptyIntentType DEF TakeBatch
<1>8. CASE PlanPanics
  BY <1>8 DEF PlanPanics, EndTask, StopTasks, OpenGate
<1>9. CASE DrainAndEnd
  BY <1>9 DEF DrainAndEnd, EndTask, StopTasks
<1>10. CASE DropTask
  BY <1>10 DEF DropTask, Awaiting, EndTask, StopTasks, OpenGate
<1>11. CASE NodePanics
  BY <1>11 DEF NodePanics, EndTask, StopTasks, OpenGate
<1>12. CASE UNCHANGED vars
  BY <1>12 DEF vars
<1>. QED
  BY <1>1, <1>2, <1>3, <1>4, <1>5, <1>6, <1>7, <1>8, <1>9, <1>10, <1>11,
     <1>12 DEF Next, HostRequest, HostStep, WorkerStep

(* The tokens and the history of them stay flags. *)
LEMMA TokenTypeStep == TypeOK /\ [Next]_vars => TokenTypeOK'
<1>. SUFFICES ASSUME TypeOK, [Next]_vars PROVE TokenTypeOK'
  OBVIOUS
<1>. USE DEF TypeOK, TokenTypeOK, MailTypeOK
<1>1. CASE LockMailbox \/ UnlockMailbox \/ NotifyWorker \/ ShutdownWake \/
          MailboxWake \/ EventWake \/ PanicWake \/ ApplyCommands \/ SkipRun \/
          RefuseRun \/ BeginRun \/ PlanFails \/ PlanPanics \/ PlanRun \/
          RunNextNode \/ FinishRun \/ Yield \/ DrainAndEnd \/ DropTask \/
          NodePanics
  BY <1>1 DEF LockMailbox, UnlockMailbox, NotifyWorker, StorePermit,
     ShutdownWake, MailboxWake, EventWake, PanicWake, StopTasks, ApplyCommands,
     LoopActive, SkipRun, EndBatch, RefuseRun, BeginRun, CloseGate, PlanFails,
     OpenGate, PlanPanics, EndTask, PlanRun, RunNextNode, FinishRun, ArmLoop,
     Yield, DrainAndEnd, DropTask, Awaiting, NodePanics
<1>2. ASSUME NEW s \in Scripts, HostCall(s) PROVE TokenTypeOK'
  BY <1>2 DEF HostCall
<1>3. CASE RequestCancel
  BY <1>3 DEF RequestCancel, RaiseCancel
<1>4. CASE ExitShutdown
  BY <1>4 DEF ExitShutdown
<1>5. CASE AbortTask
  BY <1>5 DEF AbortTask
<1>6. CASE MergeMessage
  BY <1>6 DEF MergeMessage
<1>7. CASE ExitCancel
  BY <1>7 DEF ExitCancel, RaiseCancel
<1>8. CASE EventStep
  BY <1>8, EventFrame
<1>9. CASE TakeBatch
  BY <1>9 DEF TakeBatch
<1>10. CASE CommitBatch
  BY <1>10 DEF CommitBatch
<1>11. CASE UNCHANGED vars
  BY <1>11 DEF vars
<1>. QED
  BY <1>1, <1>2, <1>3, <1>4, <1>5, <1>6, <1>7, <1>8, <1>9, <1>10, <1>11 DEF
     Next, HostRequest, HostStep, WorkerStep

(* The loop's state stays in its types: the gate is opened by who closed it. *)
LEMMA LoopTypeStep == TypeOK /\ GateInv /\ [Next]_vars => LoopTypeOK'
<1>. SUFFICES ASSUME TypeOK, GateInv, [Next]_vars PROVE LoopTypeOK'
  OBVIOUS
<1>. USE DEF TypeOK, LoopTypeOK, TaskPcs
<1>1. CASE ShutdownWake \/ MailboxWake \/ TakeBatch \/ CommitBatch \/ SkipRun
          \/ RefuseRun \/ PlanRun \/ RunNextNode \/ Yield
  BY <1>1 DEF ShutdownWake, MailboxWake, TakeBatch, CommitBatch, SkipRun,
     EndBatch, RefuseRun, PlanRun, RunNextNode, Yield
<1>2. CASE HostRequest \/ HostStep
  BY <1>2, HostFrame
<1>3. ASSUME NEW e \in Events, EventFires(e) PROVE LoopTypeOK'
  BY <1>3 DEF EventFires, TaskStep
<1>4. ASSUME NEW e \in Events, EventPanics(e) PROVE LoopTypeOK'
  BY <1>4 DEF EventPanics, TaskStep
<1>5. ASSUME NEW e \in Events, EventSends(e) PROVE LoopTypeOK'
  BY <1>5 DEF EventSends, TaskStep
<1>6. ASSUME NEW e \in Events, EventPassesGate(e) PROVE LoopTypeOK'
  BY <1>6 DEF EventPassesGate, TaskStep, GateOpen
<1>7. CASE EventWake
  BY <1>7 DEF EventWake
<1>8. CASE PanicWake
  BY <1>8 DEF PanicWake, StopTasks
<1>9. CASE ApplyCommands
  <2>1. CASE stoppedLoop'
    <3>1. StopTasks /\ UNCHANGED gateVars
      BY <1>9, <2>1 DEF ApplyCommands
    <3>. QED
      BY <3>1 DEF StopTasks
  <2>2. CASE ~stoppedLoop'
    BY <1>9, <2>2 DEF ApplyCommands
  <2>. QED
    BY <2>1, <2>2
<1>10. CASE BeginRun
  BY <1>10 DEF BeginRun, CloseGate
<1>11. CASE PlanFails
  BY <1>11 DEF PlanFails, EndBatch, OpenGate, GateInv, GateClosedOnlyInRuns, Running
<1>12. CASE PlanPanics
  BY <1>12 DEF PlanPanics, EndTask, StopTasks, OpenGate, GateInv, GateClosedOnlyInRuns, Running
<1>13. CASE FinishRun
  <2>1. sent' \in [Events -> Nat] /\ gate' \in Nat
    BY <1>13 DEF FinishRun, OpenGate, GateInv, GateClosedOnlyInRuns, Running
  <2>2. CASE StartsLoop /\ ~shutdown
    <3>1. PICK triggers \in SUBSET EventsIn(installed) : ArmLoop(triggers)
      BY <1>13, <2>2 DEF FinishRun
    <3>2. EventsIn(installed) \subseteq Events
      BY EventsInType
    <3>. QED
      BY <2>1, <3>1, <3>2 DEF ArmLoop
  <2>3. CASE ~(StartsLoop /\ ~shutdown)
    BY <1>13, <2>1, <2>3 DEF FinishRun
  <2>. QED
    BY <2>2, <2>3
<1>14. CASE DrainAndEnd
  BY <1>14 DEF DrainAndEnd, EndTask, StopTasks
<1>15. CASE DropTask
  BY <1>15 DEF DropTask, Awaiting, EndTask, StopTasks, OpenGate, GateInv, GateClosedOnlyInRuns, Running
<1>16. CASE NodePanics
  BY <1>16 DEF NodePanics, EndTask, StopTasks, OpenGate, GateInv, GateClosedOnlyInRuns, Running
<1>17. CASE UNCHANGED vars
  BY <1>17 DEF vars
<1>. QED
  BY <1>1, <1>2, <1>3, <1>4, <1>5, <1>6, <1>7, <1>8, <1>9, <1>10, <1>11,
     <1>12, <1>13, <1>14, <1>15, <1>16, <1>17 DEF Next, EventStep, WorkerStep

(* The worker's own state stays in its types. *)
LEMMA WorkerTypeStep == TypeOK /\ [Next]_vars => WorkerTypeOK'
<1>. SUFFICES ASSUME TypeOK, [Next]_vars PROVE WorkerTypeOK'
  OBVIOUS
<1>. USE DEF TypeOK, WorkerTypeOK, Pcs, Ended, Activities, RestingActivity
<1>1. CASE HostRequest \/ HostStep
  BY <1>1, HostFrame
<1>2. CASE EventStep
  BY <1>2, EventFrame
<1>3. CASE ShutdownWake
  BY <1>3 DEF ShutdownWake
<1>4. CASE MailboxWake
  BY <1>4 DEF MailboxWake
<1>5. CASE EventWake
  <2>1. ToSet(channel) \in SUBSET Events
    BY DEF ToSet, LoopTypeOK
  <2>. QED
    BY <1>5, <2>1 DEF EventWake
<1>6. CASE PanicWake
  BY <1>6 DEF PanicWake, StopTasks
<1>7. CASE TakeBatch
  <2>1. AddEvents(pending, fired) \in Intent
    BY AddEventsType DEF MailTypeOK
  <2>. QED
    BY <1>7, <2>1 DEF TakeBatch
<1>8. CASE CommitBatch
  BY <1>8 DEF CommitBatch
<1>9. CASE ApplyCommands
  <2>1. transition' \in {"Preserve", "Stop", "Rebuild"} /\ stoppedLoop' \in BOOLEAN
    BY <1>9 DEF ApplyCommands, Transition
  <2>2. installed' \in Programs \cup {Empty} /\ store' \in Stores \cup {None}
    BY <1>9 DEF ApplyCommands, Intent
  <2>3. intent' \in Intent
    BY <1>9 DEF ApplyCommands, Intent
  <2>. QED
    BY <1>9, <2>1, <2>2, <2>3 DEF ApplyCommands
<1>10. CASE SkipRun
  <2>1. EndBatch
    BY <1>10 DEF SkipRun
  <2>. QED
    BY <1>10, <2>1, EmptyIntentType, WorkerAssumption DEF SkipRun, EndBatch
<1>11. CASE RefuseRun
  <2>1. EndBatch
    BY <1>11 DEF RefuseRun
  <2>. QED
    BY <1>11, <2>1, EmptyIntentType, WorkerAssumption DEF RefuseRun, EndBatch
<1>12. CASE BeginRun
  <2>1. intent' \in Intent
    BY <1>12 DEF BeginRun, Intent
  <2>. QED
    BY <1>12, <2>1 DEF BeginRun
<1>13. CASE PlanFails
  <2>1. EndBatch
    BY <1>13 DEF PlanFails
  <2>. QED
    BY <1>13, <2>1, EmptyIntentType, WorkerAssumption DEF PlanFails, EndBatch
<1>14. CASE PlanPanics
  <2>1. EndTask("panicked")
    BY <1>14 DEF PlanPanics
  <2>2. work' \in 0..MaxRunNodes
    BY <2>1, WorkerAssumption DEF EndTask
  <2>. QED
    BY <1>14, <2>1, <2>2, EmptyIntentType DEF PlanPanics, EndTask
<1>15. CASE PlanRun
  BY <1>15 DEF PlanRun
<1>16. CASE RunNextNode
  BY <1>16, WorkerAssumption DEF RunNextNode
<1>17. CASE FinishRun
  <2>1. EndBatch
    BY <1>17 DEF FinishRun
  <2>2. work' \in 0..MaxRunNodes
    BY <1>17, WorkerAssumption DEF FinishRun
  <2>3. activity' \in Activities
    BY <1>17 DEF FinishRun
  <2>. QED
    BY <1>17, <2>1, <2>2, <2>3, EmptyIntentType DEF FinishRun, EndBatch
<1>18. CASE Yield
  BY <1>18 DEF Yield
<1>19. CASE DrainAndEnd
  <2>1. EndTask("ended")
    BY <1>19 DEF DrainAndEnd
  <2>2. work' \in 0..MaxRunNodes
    BY <2>1, WorkerAssumption DEF EndTask
  <2>. QED
    BY <1>19, <2>1, <2>2, EmptyIntentType DEF DrainAndEnd, EndTask
<1>20. CASE DropTask
  <2>1. EndTask("aborted")
    BY <1>20 DEF DropTask
  <2>2. work' \in 0..MaxRunNodes
    BY <2>1, WorkerAssumption DEF EndTask
  <2>. QED
    BY <1>20, <2>1, <2>2, EmptyIntentType DEF DropTask, EndTask
<1>21. CASE NodePanics
  <2>1. EndTask("panicked")
    BY <1>21 DEF NodePanics
  <2>2. work' \in 0..MaxRunNodes
    BY <2>1, WorkerAssumption DEF EndTask
  <2>. QED
    BY <1>21, <2>1, <2>2, EmptyIntentType DEF NodePanics, EndTask
<1>22. CASE UNCHANGED vars
  BY <1>22 DEF vars
<1>. QED
  BY <1>1, <1>2, <1>3, <1>4, <1>5, <1>6, <1>7, <1>8, <1>9, <1>10, <1>11,
     <1>12, <1>13, <1>14, <1>15, <1>16, <1>17, <1>18, <1>19, <1>20, <1>21,
     <1>22 DEF Next, WorkerStep

-----------------------------------------------------------------------------
(* Every step keeps the parts of the invariant. *)

(* A run closes the gate once and every way out of it opens it. *)
LEMMA GateStep == TypeOK /\ GateInv /\ [Next]_vars => GateInv'
<1>. SUFFICES ASSUME TypeOK, GateInv, [Next]_vars PROVE GateInv'
  OBVIOUS
<1>. USE DEF GateInv, GateClosedOnlyInRuns, Running, Ended
<1>1. CASE ShutdownWake \/ MailboxWake \/ EventWake \/ PanicWake \/ TakeBatch
          \/ CommitBatch \/ ApplyCommands \/ SkipRun \/ RefuseRun \/ PlanRun
          \/ RunNextNode \/ Yield \/ DrainAndEnd
  BY <1>1 DEF ShutdownWake, MailboxWake, EventWake, PanicWake, StopTasks,
     TakeBatch, CommitBatch, ApplyCommands, LoopActive, SkipRun, EndBatch,
     RefuseRun, PlanRun, RunNextNode, Yield, DrainAndEnd, EndTask
<1>2. CASE HostRequest \/ HostStep
  BY <1>2, HostFrame
<1>3. CASE EventStep
  BY <1>3, EventFrame
<1>4. CASE BeginRun
  BY <1>4 DEF BeginRun, CloseGate
<1>5. CASE PlanFails
  BY <1>5 DEF PlanFails, EndBatch, OpenGate
<1>6. CASE PlanPanics
  BY <1>6 DEF PlanPanics, EndTask, StopTasks, OpenGate
<1>7. CASE FinishRun
  BY <1>7 DEF FinishRun, OpenGate, EndBatch, ArmLoop
<1>8. CASE DropTask
  BY <1>8 DEF DropTask, Awaiting, EndTask, StopTasks, OpenGate
<1>9. CASE NodePanics
  BY <1>9 DEF NodePanics, EndTask, StopTasks, OpenGate
<1>10. CASE UNCHANGED vars
  BY <1>10 DEF vars
<1>. QED
  BY <1>1, <1>2, <1>3, <1>4, <1>5, <1>6, <1>7, <1>8, <1>9, <1>10 DEF Next,
     WorkerStep

(* A post is followed by its wake, and a wake by the taking of the batch. *)
LEMMA MailStep == TypeOK /\ MailInv /\ [Next]_vars => MailInv'
<1>. SUFFICES ASSUME TypeOK, MailInv, [Next]_vars PROVE MailInv'
  OBVIOUS
<1>. USE DEF MailInv, Ended
<1>1. CASE RequestCancel \/ ExitShutdown \/ AbortTask \/ LockMailbox \/
          ExitCancel \/ ShutdownWake \/ EventWake \/ PanicWake \/ CommitBatch
          \/ ApplyCommands \/ SkipRun \/ RefuseRun \/ BeginRun \/ PlanFails \/
          PlanRun \/ RunNextNode \/ FinishRun \/ Yield
  BY <1>1 DEF RequestCancel, RaiseCancel, ExitShutdown, AbortTask,
     LockMailbox, ExitCancel, ShutdownWake, EventWake, PanicWake, StopTasks,
     CommitBatch, ApplyCommands, LoopActive, SkipRun, EndBatch, RefuseRun,
     BeginRun, CloseGate, PlanFails, OpenGate, PlanRun, RunNextNode, FinishRun,
     ArmLoop, Yield
<1>2. ASSUME NEW s \in Scripts, HostCall(s) PROVE MailInv'
  BY <1>2 DEF HostCall
<1>3. CASE MergeMessage
  BY <1>3 DEF MergeMessage
<1>4. CASE UnlockMailbox
  BY <1>4 DEF UnlockMailbox
<1>5. CASE NotifyWorker
  BY <1>5 DEF NotifyWorker, StorePermit
<1>6. CASE EventStep
  BY <1>6, EventFrame
<1>7. CASE MailboxWake
  BY <1>7 DEF MailboxWake
<1>8. CASE TakeBatch
  BY <1>8 DEF TakeBatch, EmptyIntent, IsEmpty, NoSeeds
<1>9. CASE PlanPanics
  BY <1>9 DEF PlanPanics, EndTask, StopTasks, OpenGate
<1>10. CASE DrainAndEnd
  BY <1>10 DEF DrainAndEnd, EndTask, StopTasks
<1>11. CASE DropTask
  BY <1>11 DEF DropTask, Awaiting, EndTask, StopTasks, OpenGate
<1>12. CASE NodePanics
  BY <1>12 DEF NodePanics, EndTask, StopTasks, OpenGate
<1>13. CASE UNCHANGED vars
  BY <1>13 DEF vars
<1>. QED
  BY <1>1, <1>2, <1>3, <1>4, <1>5, <1>6, <1>7, <1>8, <1>9, <1>10, <1>11,
     <1>12, <1>13 DEF Next, HostRequest, HostStep, WorkerStep

(* Only the commit lowers the token, and BeginRun looks at the shutdown after it. *)
LEMMA CancelStep == TypeOK /\ CancelInv /\ [Next]_vars => CancelInv'
<1>. SUFFICES ASSUME TypeOK, CancelInv, [Next]_vars PROVE CancelInv'
  OBVIOUS
<1>. USE DEF CancelInv, Running, Ended
<1>1. CASE AbortTask \/ LockMailbox \/ UnlockMailbox \/ NotifyWorker \/
          ShutdownWake \/ MailboxWake \/ EventWake \/ PanicWake \/ SkipRun \/
          RefuseRun \/ PlanFails \/ PlanPanics \/ PlanRun \/ RunNextNode \/
          FinishRun \/ Yield \/ DrainAndEnd \/ DropTask \/ NodePanics
  BY <1>1 DEF AbortTask, LockMailbox, UnlockMailbox, NotifyWorker,
     StorePermit, ShutdownWake, MailboxWake, EventWake, PanicWake, StopTasks,
     SkipRun, EndBatch, RefuseRun, PlanFails, OpenGate, PlanPanics, EndTask,
     PlanRun, RunNextNode, FinishRun, ArmLoop, Yield, DrainAndEnd, DropTask,
     Awaiting, NodePanics
<1>2. ASSUME NEW s \in Scripts, HostCall(s) PROVE CancelInv'
  BY <1>2 DEF HostCall
<1>3. CASE RequestCancel
  BY <1>3 DEF RequestCancel, RaiseCancel
<1>4. CASE ExitShutdown
  BY <1>4 DEF ExitShutdown
<1>5. CASE MergeMessage
  BY <1>5 DEF MergeMessage
<1>6. CASE ExitCancel
  BY <1>6 DEF ExitCancel, RaiseCancel
<1>7. CASE EventStep
  BY <1>7, EventFrame
<1>8. CASE TakeBatch
  BY <1>8 DEF TakeBatch
<1>9. CASE CommitBatch
  BY <1>9 DEF CommitBatch
<1>10. CASE ApplyCommands
  BY <1>10 DEF ApplyCommands, StopTasks, LoopActive
<1>11. CASE BeginRun
  BY <1>11 DEF BeginRun, CloseGate
<1>12. CASE UNCHANGED vars
  BY <1>12 DEF vars
<1>. QED
  BY <1>1, <1>2, <1>3, <1>4, <1>5, <1>6, <1>7, <1>8, <1>9, <1>10, <1>11,
     <1>12 DEF Next, HostRequest, HostStep, WorkerStep

(* An install under an active loop is a rebuild, which stops it first. *)
LEMMA LoopStep == TypeOK /\ LoopInv /\ [Next]_vars => LoopInv'
<1>. SUFFICES ASSUME TypeOK, LoopInv, [Next]_vars PROVE LoopInv'
  OBVIOUS
<1>. USE DEF LoopInv, LoopIsOfTheProgram, EventsIn, Ended
<1>1. CASE ShutdownWake \/ MailboxWake \/ EventWake \/ TakeBatch \/
          CommitBatch \/ SkipRun \/ RefuseRun \/ BeginRun \/ PlanFails \/
          PlanRun \/ RunNextNode \/ Yield
  BY <1>1 DEF ShutdownWake, MailboxWake, EventWake, TakeBatch, CommitBatch,
     SkipRun, EndBatch, RefuseRun, BeginRun, CloseGate, PlanFails, OpenGate,
     PlanRun, RunNextNode, Yield
<1>2. CASE HostRequest \/ HostStep
  BY <1>2, HostFrame
<1>3. CASE EventStep
  BY <1>3, EventFrame
<1>4. CASE PanicWake
  BY <1>4 DEF PanicWake, StopTasks
<1>5. CASE ApplyCommands
  <2>1. CASE stoppedLoop'
    BY <1>5, <2>1 DEF ApplyCommands, StopTasks
  <2>2. CASE ~stoppedLoop' /\ LoopActive
    <3>1. transition' = "Preserve"
      BY <1>5, <2>2 DEF ApplyCommands
    <3>2. intent.graph = None
      BY <1>5, <2>2, <3>1 DEF ApplyCommands, Transition, TypeOK, WorkerTypeOK, Intent
    <3>. QED
      BY <1>5, <2>2, <3>2 DEF ApplyCommands
  <2>3. CASE ~stoppedLoop' /\ ~LoopActive
    BY <1>5, <2>3 DEF ApplyCommands, LoopActive
  <2>. QED
    BY <2>1, <2>2, <2>3
<1>6. CASE PlanPanics
  BY <1>6 DEF PlanPanics, EndTask, StopTasks, OpenGate
<1>7. CASE FinishRun
  BY <1>7 DEF FinishRun, OpenGate, EndBatch, ArmLoop
<1>8. CASE DrainAndEnd
  BY <1>8 DEF DrainAndEnd, EndTask, StopTasks
<1>9. CASE DropTask
  BY <1>9 DEF DropTask, Awaiting, EndTask, StopTasks, OpenGate
<1>10. CASE NodePanics
  BY <1>10 DEF NodePanics, EndTask, StopTasks, OpenGate
<1>11. CASE UNCHANGED vars
  BY <1>11 DEF vars
<1>. QED
  BY <1>1, <1>2, <1>3, <1>4, <1>5, <1>6, <1>7, <1>8, <1>9, <1>10, <1>11 DEF
     Next, WorkerStep

(* Whatever ends a batch tells the host what it left running. *)
LEMMA ActivityStep == TypeOK /\ ActivityInv /\ [Next]_vars => ActivityInv'
<1>. SUFFICES ASSUME TypeOK, ActivityInv, [Next]_vars PROVE ActivityInv'
  OBVIOUS
<1>. USE DEF ActivityInv, RestingActivity, Running, Ended, LoopActive
<1>1. CASE MailboxWake \/ EventWake \/ TakeBatch \/ CommitBatch \/ PlanRun \/
          RunNextNode \/ Yield
  BY <1>1 DEF MailboxWake, EventWake, TakeBatch, CommitBatch, PlanRun,
     RunNextNode, Yield
<1>2. CASE HostRequest \/ HostStep
  BY <1>2, HostFrame
<1>3. CASE EventStep
  BY <1>3, EventFrame
<1>4. CASE ShutdownWake
  BY <1>4 DEF ShutdownWake, ShutdownReady
<1>5. CASE PanicWake
  BY <1>5 DEF PanicWake, StopTasks, LoopReady, ShutdownReady
<1>6. CASE ApplyCommands
  <2>1. CASE stoppedLoop'
    BY <1>6, <2>1 DEF ApplyCommands, StopTasks
  <2>2. CASE ~stoppedLoop'
    BY <1>6, <2>2 DEF ApplyCommands
  <2>. QED
    BY <2>1, <2>2
<1>7. CASE SkipRun
  BY <1>7 DEF SkipRun, EndBatch
<1>8. CASE RefuseRun
  BY <1>8 DEF RefuseRun, EndBatch
<1>9. CASE BeginRun
  BY <1>9 DEF BeginRun, CloseGate
<1>10. CASE PlanFails
  BY <1>10 DEF PlanFails, EndBatch, OpenGate
<1>11. CASE PlanPanics
  BY <1>11 DEF PlanPanics, EndTask, StopTasks, OpenGate
<1>12. CASE FinishRun
  BY <1>12 DEF FinishRun, OpenGate, EndBatch, ArmLoop
<1>13. CASE DrainAndEnd
  BY <1>13 DEF DrainAndEnd, EndTask, StopTasks
<1>14. CASE DropTask
  BY <1>14 DEF DropTask, Awaiting, EndTask, StopTasks, OpenGate
<1>15. CASE NodePanics
  BY <1>15 DEF NodePanics, EndTask, StopTasks, OpenGate
<1>16. CASE UNCHANGED vars
  BY <1>16 DEF vars
<1>. QED
  BY <1>1, <1>2, <1>3, <1>4, <1>5, <1>6, <1>7, <1>8, <1>9, <1>10, <1>11,
     <1>12, <1>13, <1>14, <1>15, <1>16 DEF Next, WorkerStep

(* A task sends before the gate, and passes it only when it is open. *)
LEMMA SentStep == TypeOK /\ OneEventBehindTheRun /\ [Next]_vars => OneEventBehindTheRun'
<1>. SUFFICES ASSUME TypeOK, OneEventBehindTheRun, [Next]_vars PROVE OneEventBehindTheRun'
  OBVIOUS
<1>. USE DEF OneEventBehindTheRun, TypeOK, LoopTypeOK, Running, Ended
<1>1. CASE ShutdownWake \/ MailboxWake \/ EventWake \/ TakeBatch \/
          CommitBatch \/ SkipRun \/ RefuseRun \/ PlanRun \/ RunNextNode \/
          Yield
  BY <1>1 DEF ShutdownWake, MailboxWake, EventWake, TakeBatch, CommitBatch,
     SkipRun, EndBatch, RefuseRun, PlanRun, RunNextNode, Yield
<1>2. CASE HostRequest \/ HostStep
  BY <1>2, HostFrame
<1>3. ASSUME NEW e \in Events, EventFires(e) PROVE OneEventBehindTheRun'
  BY <1>3 DEF EventFires, TaskStep
<1>4. ASSUME NEW e \in Events, EventPanics(e) PROVE OneEventBehindTheRun'
  BY <1>4 DEF EventPanics, TaskStep
<1>5. ASSUME NEW e \in Events, EventSends(e) PROVE OneEventBehindTheRun'
  BY <1>5 DEF EventSends, TaskStep
<1>6. ASSUME NEW e \in Events, EventPassesGate(e) PROVE OneEventBehindTheRun'
  BY <1>6 DEF EventPassesGate, TaskStep, GateOpen
<1>7. CASE PanicWake
  BY <1>7 DEF PanicWake, StopTasks
<1>8. CASE ApplyCommands
  BY <1>8 DEF ApplyCommands, StopTasks, LoopActive
<1>9. CASE BeginRun
  BY <1>9 DEF BeginRun, CloseGate
<1>10. CASE PlanFails
  BY <1>10 DEF PlanFails, EndBatch, OpenGate
<1>11. CASE PlanPanics
  BY <1>11 DEF PlanPanics, EndTask, StopTasks, OpenGate
<1>12. CASE FinishRun
  BY <1>12 DEF FinishRun, OpenGate, EndBatch, ArmLoop
<1>13. CASE DrainAndEnd
  BY <1>13 DEF DrainAndEnd, EndTask, StopTasks
<1>14. CASE DropTask
  BY <1>14 DEF DropTask, Awaiting, EndTask, StopTasks, OpenGate
<1>15. CASE NodePanics
  BY <1>15 DEF NodePanics, EndTask, StopTasks, OpenGate
<1>16. CASE UNCHANGED vars
  BY <1>16 DEF vars
<1>. QED
  BY <1>1, <1>2, <1>3, <1>4, <1>5, <1>6, <1>7, <1>8, <1>9, <1>10, <1>11,
     <1>12, <1>13, <1>14, <1>15, <1>16 DEF Next, EventStep, WorkerStep

-----------------------------------------------------------------------------
(* The inductive invariant and what follows from it. *)

(* It holds as the worker starts... *)
LEMMA InitInv == Init => IInv
<1>. SUFFICES ASSUME Init PROVE IInv
  OBVIOUS
<1>. USE DEF Init
<1>1. HostTypeOK
  BY WorkerAssumption DEF HostTypeOK, HostPcs
<1>2. MailTypeOK /\ TokenTypeOK
  BY EmptyIntentType DEF MailTypeOK, TokenTypeOK
<1>3. WorkerTypeOK
  <2>1. work \in 0..MaxRunNodes
    BY WorkerAssumption
  <2>. QED
    BY <2>1, EmptyIntentType DEF WorkerTypeOK, Pcs, Activities
<1>4. LoopTypeOK
  BY DEF LoopTypeOK, TaskPcs
<1>5. GateInv /\ MailInv /\ CancelInv /\ LoopInv /\ ActivityInv /\ OneEventBehindTheRun
  BY DEF GateInv, GateClosedOnlyInRuns, MailInv, CancelInv, LoopInv, LoopIsOfTheProgram,
         ActivityInv, OneEventBehindTheRun, Running, RestingActivity, EmptyIntent, IsEmpty, NoSeeds
<1>. QED
  BY <1>1, <1>2, <1>3, <1>4, <1>5 DEF IInv, TypeOK

(* ...every step keeps it... *)
LEMMA NextInv == IInv /\ [Next]_vars => IInv'
BY HostTypeStep, MailTypeStep, TokenTypeStep, WorkerTypeStep, LoopTypeStep, GateStep,
   MailStep, CancelStep, LoopStep, ActivityStep, SentStep DEF IInv, TypeOK

(* ...so it always holds. *)
THEOREM Invariance == Spec => []IInv
BY InitInv, NextInv, PTL DEF Spec

(* The worker, its host and its event tasks stay in their types. *)
THEOREM TypeCorrect == Spec => []TypeOK
<1>1. IInv => TypeOK
  BY DEF IInv
<1>. QED
  BY <1>1, Invariance, PTL

(* Worker::request_exit: a run that goes on once it has returned is cancelled. *)
THEOREM ExitIsHeard == Spec => []ExitCancelsTheRun
<1>1. IInv => ExitCancelsTheRun
  BY DEF IInv, CancelInv, ExitCancelsTheRun
<1>. QED
  BY <1>1, Invariance, PTL

(* Worker::request_cancel: the run under way hears it, the run asked for after *)
(* it does not.                                                                *)
THEOREM CancelIsHeardByItsRun == Spec => []CancelTargetsItsBatch
<1>1. IInv => CancelTargetsItsBatch
  BY DEF IInv, CancelInv, CancelTargetsItsBatch, Running
<1>. QED
  BY <1>1, Invariance, PTL

(* Mailbox::post: the worker never waits on a batch without the wake for it. *)
THEOREM NoPostIsSleptOn == Spec => []NoLostWake
<1>1. IInv => NoLostWake
  BY DEF IInv, MailInv, NoLostWake, Ended
<1>. QED
  BY <1>1, Invariance, PTL

(* apply_intent: no install leaves a loop armed over another program's events. *)
THEOREM LoopFollowsTheProgram == Spec => []LoopIsOfTheProgram
<1>1. IInv => LoopIsOfTheProgram
  BY DEF IInv, LoopInv
<1>. QED
  BY <1>1, Invariance, PTL

(* The Activity the host was last told is the worker's, at rest and in a run. *)
THEOREM HostIsToldTheTruth == Spec => []ActivityIsTruthful
<1>1. IInv => ActivityIsTruthful
  BY DEF IInv, ActivityInv, ActivityIsTruthful
<1>. QED
  BY <1>1, Invariance, PTL

(* PauseGate: a task sends at most one event behind the back of a run, and   *)
(* every path out of execute reopens the gate it closed.                     *)
THEOREM EventsWaitForTheRun == Spec => []GateHoldsTheEventsBack
<1>1. IInv => OneEventBehindTheRun
  BY DEF IInv
<1>2. IInv => GateClosedOnlyInRuns
  BY DEF IInv, GateInv
<1>3. IInv => GateHoldsTheEventsBack
  BY <1>1, <1>2 DEF GateHoldsTheEventsBack
<1>. QED
  BY <1>3, Invariance, PTL

-----------------------------------------------------------------------------
(* The messages of the editor's commands, merged into a batch. *)

(* Each message of a command is a message, and only the sweep is the sweep.  *)
LEMMA MessageKinds ==
    ASSUME NEW p \in Programs, NEW ns \in SUBSET Nodes, NEW s \in Stores,
           NEW m \in {Update(p), Clear, EvictCache(ns), FlushCache(ns), SetDiskStore(s),
                      RunSinks, RunNodes(ns), StopEventLoop}
    PROVE  m \in Message /\ FlushAllCaches \in Message /\ m # FlushAllCaches
BY DEF Update, Clear, EvictCache, FlushCache, FlushAllCaches, SetDiskStore, RunSinks, RunNodes,
       StopEventLoop, Message

(* What the invariants look at in a batch. *)
Holds(batch, graph, root_, sweep, nodes) ==
    /\ batch.graph = graph /\ batch.store = root_
    /\ batch.flushAll = sweep /\ batch.nodes = nodes

(* BatchIntent::push, message by message: an install voids the seeds the     *)
(* program lacks...                                                          *)
LEMMA PushUpdate ==
    ASSUME NEW i \in Intent, NEW p \in Programs
    PROVE  Holds(Push(i, Update(p)), p, i.store, i.flushAll, i.nodes \cap NodesIn(p))
<1>1. \A m : m.type = "Update" => Push(i, m) = InstallInto(i, m.program)
  BY DEF Push
<1>2. Update(p).type = "Update" /\ Update(p).program = p
  BY DEF Update
<1>3. Holds(InstallInto(i, p), p, i.store, i.flushAll, i.nodes \cap NodesIn(p))
  BY DEF InstallInto, Intent, Holds
<1>. QED  BY <1>1, <1>2, <1>3

(* ...and a Clear, which installs the empty program, all of them...          *)
LEMMA PushClear ==
    ASSUME NEW i \in Intent
    PROVE  Holds(Push(i, Clear), Empty, i.store, i.flushAll, {})
<1>1. \A m : m.type = "Clear" => Push(i, m) = InstallInto(i, Empty)
  BY DEF Push
<1>2. Clear.type = "Clear" /\ NodesIn(Empty) = {}
  BY ProgramAssumption DEF Clear, NodesIn
<1>3. Holds(InstallInto(i, Empty), Empty, i.store, i.flushAll, i.nodes \cap NodesIn(Empty))
  BY DEF InstallInto, Intent, Holds
<1>. QED  BY <1>1, <1>2, <1>3

(* ...the last store asked for stands...                                     *)
LEMMA PushStore ==
    ASSUME NEW i \in Intent, NEW s \in Stores
    PROVE  Holds(Push(i, SetDiskStore(s)), i.graph, s, i.flushAll, i.nodes)
<1>1. \A m : m.type = "SetDiskStore" => Push(i, m) = [i EXCEPT !.store = m.store]
  BY DEF Push
<1>2. SetDiskStore(s).type = "SetDiskStore" /\ SetDiskStore(s).store = s
  BY DEF SetDiskStore
<1>. QED  BY <1>1, <1>2 DEF Intent, Holds

(* ...a sweep is remembered...                                               *)
LEMMA PushSweep ==
    ASSUME NEW i \in Intent
    PROVE  Holds(Push(i, FlushAllCaches), i.graph, i.store, TRUE, i.nodes)
<1>1. \A m : m.type = "FlushAllCaches" => Push(i, m) = [i EXCEPT !.flushAll = TRUE]
  BY DEF Push
<1>2. FlushAllCaches.type = "FlushAllCaches"
  BY DEF FlushAllCaches
<1>. QED  BY <1>1, <1>2 DEF Intent, Holds

(* ...the seeds add up...                                                    *)
LEMMA PushNodes ==
    ASSUME NEW i \in Intent, NEW n \in Nodes
    PROVE  Holds(Push(i, RunNodes({n})), i.graph, i.store, i.flushAll, i.nodes \cup {n})
<1>1. \A m : m.type = "RunNodes" => Push(i, m) = [i EXCEPT !.nodes = @ \cup m.nodes]
  BY DEF Push
<1>2. RunNodes({n}).type = "RunNodes" /\ RunNodes({n}).nodes = {n}
  BY DEF RunNodes
<1>. QED  BY <1>1, <1>2 DEF Intent, Holds

(* ...and the other messages leave all four alone.                           *)
LEMMA PushRest ==
    ASSUME NEW i \in Intent, NEW ns \in SUBSET Nodes,
           NEW m \in {RunSinks, StopEventLoop, EvictCache(ns), FlushCache(ns)}
    PROVE  Holds(Push(i, m), i.graph, i.store, i.flushAll, i.nodes)
<1>1. m.type \in {"RunSinks", "StopEventLoop", "EvictCache", "FlushCache"}
  BY DEF RunSinks, StopEventLoop, EvictCache, FlushCache
<1>2. \/ Push(i, m) = [i EXCEPT !.sinks = TRUE]
      \/ Push(i, m) = [i EXCEPT !.loop = "stop"]
      \/ Push(i, m) = [i EXCEPT !.evict = @ \cup m.nodes]
      \/ Push(i, m) = [i EXCEPT !.flush = @ \cup m.nodes]
  BY <1>1 DEF Push
<1>. QED  BY <1>2 DEF Intent, Holds

-----------------------------------------------------------------------------
(* The document beside its disk store. *)

OpenPrograms == {p \in Programs : DocumentOf[p] = open}

(* The graph and the store there will be once the batch the worker has is    *)
(* applied, and once the one pending is too.                                 *)
NextGraph == IF intent.graph = None THEN installed ELSE intent.graph
NextStore == IF intent.store = None THEN store ELSE intent.store
LastGraph == IF pending.graph = None THEN NextGraph ELSE pending.graph
LastStore == IF pending.store = None THEN NextStore ELSE pending.store

GraphIsOpen == LastGraph \in Programs => DocumentOf[LastGraph] = open
StoreIsSet == LastStore = root \/ (root = Memory /\ LastStore = None)
RootGained == root \in Roots /\ LastStore \notin Roots

(* What is left to post of the command under way, if any: a run of a program *)
(* of the open document...                                                   *)
SeedsOf(p) == {RunSinks} \cup {RunNodes({n}) : n \in NodesOf[p]}

RunLeft(p, seed) ==
    \/ post = <<>> /\ script = << <<Update(p)>>, <<seed>> >> /\ GraphIsOpen
    \/ post = <<Update(p)>> /\ script = << <<seed>> >> /\ GraphIsOpen
    \/ post = <<>> /\ script = << <<seed>> >> /\ LastGraph = p
    \/ post = <<seed>> /\ script = <<>> /\ LastGraph = p

(* ...an eviction or a flush in it...                                        *)
TouchesOf(p) == {EvictCache({n}) : n \in NodesOf[p]} \cup {FlushCache({n}) : n \in NodesOf[p]}

TouchLeft(p, touch) ==
    /\ GraphIsOpen
    /\ \/ post = <<>> /\ script = << <<Update(p), touch>> >>
       \/ post = <<>> /\ script = << <<Update(p), touch, StopEventLoop>> >>
       \/ /\ script = <<>>
          /\ \/ post = <<Update(p), touch>>
             \/ post = <<Update(p), touch, StopEventLoop>>
             \/ post = <<touch>>
             \/ post = <<touch, StopEventLoop>>
             \/ post = <<StopEventLoop>>

(* ...the store of the document, with a sweep of what it owes when it is the *)
(* first...                                                                  *)
Sweep == <<FlushAllCaches>>

SetsStore(rest) ==
    \/ rest = << <<SetDiskStore(root)>>, Sweep >>
    \/ rest = << <<SetDiskStore(root)>> >> /\ ~RootGained

StoreLeft ==
    \/ post = <<>> /\ SetsStore(script)
    \/ post = <<SetDiskStore(root)>> /\ script = <<Sweep>>
    \/ post = <<SetDiskStore(root)>> /\ script = <<>> /\ ~RootGained
    \/ post = <<>> /\ script = <<Sweep>> /\ StoreIsSet
    \/ post = Sweep /\ script = <<>> /\ StoreIsSet

(* ...which an opened or a new document asks for once the last is cleared.   *)
SettlesStore(rest) == SetsStore(rest) \/ (rest = <<>> /\ StoreIsSet)

SwapLeft ==
    \/ post = <<Clear>> /\ SettlesStore(script)
    \/ /\ post = <<>>
       /\ \/ script = << <<Clear>>, <<SetDiskStore(root)>>, Sweep >>
          \/ script = << <<Clear>>, <<SetDiskStore(root)>> >> /\ ~RootGained
          \/ script = << <<Clear>> >> /\ StoreIsSet

NothingLeft == post = <<>> /\ script = <<>> /\ StoreIsSet /\ GraphIsOpen

CommandInv ==
    \/ NothingLeft
    \/ StoreIsSet /\ \E p \in OpenPrograms :
          \/ \E seed \in SeedsOf(p) : RunLeft(p, seed)
          \/ \E touch \in TouchesOf(p) : TouchLeft(p, touch)
    \/ StoreLeft /\ GraphIsOpen
    \/ SwapLeft

PlaceInv ==
    /\ hostPc \in {"idle", "exiting", "exited"} => post = <<>> /\ script = <<>>
    /\ hostPc \in {"posting", "notifying"} => post = <<>>

HostInv == CommandInv /\ PlaceInv

(* Graph and store are of one document now, and will be after each batch.    *)
AtHome(graph, s) == graph \in Programs /\ s \in Roots => DocumentOf[graph] = HomeOf[s]

HomeInv ==
    /\ root \in Stores
    /\ root \in Roots => HomeOf[root] = open
    /\ AtHome(installed, store) /\ AtHome(NextGraph, NextStore) /\ AtHome(LastGraph, LastStore)

(* Only between the take of a batch and its application is there a command   *)
(* in the worker's hands.                                                    *)
StageInv == pc \notin {"commit", "apply"} =>
    intent.graph = None /\ intent.store = None /\ ~intent.flushAll

SeedsInv ==
    /\ intent.nodes \subseteq NodesIn(NextGraph)
    /\ pending.nodes \subseteq NodesIn(LastGraph)

(* A store attached while values are owed is followed by its sweep, in the   *)
(* same batch or in a later one.                                             *)
SweepLeft == post = Sweep \/ (script # <<>> /\ script[Len(script)] = Sweep)

SweepInv ==
    /\ store \in Roots /\ owed # {} => intent.flushAll \/ pending.flushAll \/ SweepLeft
    /\ NextStore \in Roots /\ store \notin Roots => intent.flushAll \/ pending.flushAll \/ SweepLeft
    /\ LastStore \in Roots /\ NextStore \notin Roots => pending.flushAll \/ SweepLeft

DiskInv ==
    /\ resident \subseteq NodesIn(installed)
    /\ owed \subseteq resident
    /\ BlobsStayHome

CacheInv == HostInv /\ HomeInv /\ StageInv /\ SeedsInv /\ SweepInv /\ DiskInv

-----------------------------------------------------------------------------
(* The host's command, post by post and message by message. *)

(* The first of a short sequence, and the rest of it.                        *)
LEMMA Firsts ==
    ASSUME NEW a, NEW b, NEW c
    PROVE  /\ Head(<<a>>) = a /\ Head(<<a, b>>) = a /\ Head(<<a, b, c>>) = a
           /\ Tail(<<a>>) = <<>> /\ Tail(<<a, b>>) = <<b>> /\ Tail(<<a, b, c>>) = <<b, c>>
           /\ <<>> # <<a>> /\ <<>> # <<a, b>> /\ <<>> # <<a, b, c>>
OBVIOUS

(* Taking the lock begins the next post.                                     *)
LEMMA LockKeepsTheCommand ==
    HostInv /\ LockMailbox /\ ~closed /\ UNCHANGED <<open, root>> => CommandInv'
<1>. SUFFICES ASSUME HostInv, LockMailbox, ~closed, UNCHANGED <<open, root>> PROVE CommandInv'
  OBVIOUS
<1>1. /\ post = <<>> /\ script # <<>> /\ post' = Head(script) /\ script' = Tail(script)
      /\ UNCHANGED <<pending, intent, installed, store>>
  BY DEF LockMailbox, HostInv, PlaceInv
<1>2. /\ GraphIsOpen' <=> GraphIsOpen
      /\ StoreIsSet' <=> StoreIsSet
      /\ RootGained' <=> RootGained
      /\ LastGraph' = LastGraph
      /\ OpenPrograms' = OpenPrograms /\ root' = root
  BY <1>1 DEF GraphIsOpen, StoreIsSet, RootGained, LastGraph, LastStore, NextGraph, NextStore,
              OpenPrograms
<1>3. ASSUME NEW a, NEW b, NEW c
      PROVE  /\ script = <<a>> => post' = a /\ script' = <<>>
             /\ script = <<a, b>> => post' = a /\ script' = <<b>>
             /\ script = <<a, b, c>> => post' = a /\ script' = <<b, c>>
             /\ <<>> # <<a>>
  <2>1. post' = Head(script) /\ script' = Tail(script)
    BY <1>1
  <2>2. CASE script = <<a>>
    BY <2>1, <2>2
  <2>3. CASE script = <<a, b>>
    BY <2>1, <2>3
  <2>4. CASE script = <<a, b, c>>
    BY <2>1, <2>4
  <2>5. <<>> # <<a>>
    OBVIOUS
  <2>. QED  BY <2>2, <2>3, <2>4, <2>5
<1>4. ASSUME NEW p \in OpenPrograms, NEW seed \in SeedsOf(p), RunLeft(p, seed)
      PROVE  RunLeft(p, seed)'
  <2>1. \/ script = << <<Update(p)>>, <<seed>> >> /\ GraphIsOpen
        \/ script = << <<seed>> >> /\ LastGraph = p
    BY Zenon, <1>1, <1>4 DEF RunLeft
  <2>. QED  BY Zenon, <1>2, <1>3, <2>1 DEF RunLeft
<1>5. ASSUME NEW p \in OpenPrograms, NEW touch \in TouchesOf(p), TouchLeft(p, touch)
      PROVE  TouchLeft(p, touch)'
  <2>1. GraphIsOpen' /\ script \in {<< <<Update(p), touch>> >>, << <<Update(p), touch, StopEventLoop>> >>}
    BY <1>1, <1>2, <1>5 DEF TouchLeft
  <2>. QED  BY Zenon, <1>3, <2>1 DEF TouchLeft
<1>6. CASE StoreLeft /\ GraphIsOpen
  <2>1. \/ script = << <<SetDiskStore(root)>>, Sweep >>
        \/ script = << <<SetDiskStore(root)>> >> /\ ~RootGained
        \/ script = <<Sweep>> /\ StoreIsSet
    BY Zenon, <1>1, <1>6, <1>3 DEF StoreLeft, SetsStore
  <2>2. StoreLeft'
    BY Zenon, <1>2, <1>3, <2>1 DEF StoreLeft
  <2>. QED  BY Zenon, <1>2, <1>6, <2>2 DEF CommandInv
<1>7. CASE SwapLeft
  <2>1. \/ script = << <<Clear>>, <<SetDiskStore(root)>>, Sweep >>
        \/ script = << <<Clear>>, <<SetDiskStore(root)>> >> /\ ~RootGained
        \/ script = << <<Clear>> >> /\ StoreIsSet
    BY Zenon, <1>1, <1>7, <1>3 DEF SwapLeft
  <2>2. SwapLeft'
    BY Zenon, <1>2, <1>3, <2>1 DEF SwapLeft, SettlesStore, SetsStore
  <2>. QED  BY Zenon, <2>2 DEF CommandInv
<1>8. ~NothingLeft
  BY <1>1 DEF NothingLeft
<1>. QED  BY <1>1, <1>2, <1>4, <1>5, <1>6, <1>7, <1>8 DEF HostInv, CommandInv

(* A batch's four slots after a message, for each message a command posts.   *)
PushedInstall == \E p \in OpenPrograms :
    /\ Holds(pending', p, pending.store, pending.flushAll, pending.nodes \cap NodesIn(p))
    /\ StoreIsSet
PushedClear == Holds(pending', Empty, pending.store, pending.flushAll, {})
PushedStore ==
    /\ Holds(pending', pending.graph, root, pending.flushAll, pending.nodes)
    /\ GraphIsOpen /\ root \in Stores
    /\ RootGained => script = <<Sweep>>
PushedSweep == Holds(pending', pending.graph, pending.store, TRUE, pending.nodes)
PushedSeed == \E n \in NodesIn(LastGraph) :
    Holds(pending', pending.graph, pending.store, pending.flushAll, pending.nodes \cup {n})
PushedRest == Holds(pending', pending.graph, pending.store, pending.flushAll, pending.nodes)

(* What is left of the command is what was left of it before, or its end.    *)
SweepStays == SweepLeft => SweepLeft'

(* Where the graph and the store end after a message.                        *)
LEMMA Pushed ==
    ASSUME TypeOK, MergeMessage, NEW g, NEW s, NEW f, NEW ns, Holds(pending', g, s, f, ns)
    PROVE  /\ LastGraph' = IF g = None THEN NextGraph ELSE g
           /\ LastStore' = IF s = None THEN NextStore ELSE s
           /\ NextGraph' = NextGraph /\ NextStore' = NextStore
BY DEF Holds, MergeMessage, LastGraph, LastStore, NextGraph, NextStore

(* A message merged is one step of the command, and leaves its sweep to come *)
(* unless it is the sweep.                                                   *)
LEMMA MergeKeepsTheCommand ==
    ASSUME TypeOK, HostInv, root \in Stores, MergeMessage, UNCHANGED <<open, root>>
    PROVE  /\ CommandInv'
           /\ \/ /\ PushedInstall \/ PushedClear \/ PushedStore \/ PushedSeed \/ PushedRest
                 /\ SweepStays
              \/ PushedSweep
<1>1. /\ pending' = Push(pending, Head(post)) /\ post' = Tail(post) /\ post # <<>>
      /\ script' = script /\ pending \in Intent
      /\ OpenPrograms' = OpenPrograms /\ root' = root /\ open' = open
  BY DEF MergeMessage, TypeOK, MailTypeOK, OpenPrograms
<1>2. ASSUME NEW m
      PROVE  /\ post = <<m>> => pending' = Push(pending, m) /\ post' = <<>>
             /\ \A a : post = <<m, a>> => pending' = Push(pending, m) /\ post' = <<a>>
             /\ \A a, b : post = <<m, a, b>> => pending' = Push(pending, m) /\ post' = <<a, b>>
  <2>1. CASE post = <<m>>
    BY <1>1, <2>1
  <2>2. ASSUME NEW a, post = <<m, a>> PROVE pending' = Push(pending, m) /\ post' = <<a>>
    BY <1>1, <2>2
  <2>3. ASSUME NEW a, NEW b, post = <<m, a, b>>
        PROVE  pending' = Push(pending, m) /\ post' = <<a, b>>
    BY <1>1, <2>3
  <2>. QED  BY <2>1, <2>2, <2>3
<1>3. SweepLeft => SweepLeft' \/ post = Sweep
  BY <1>1 DEF SweepLeft
<1>4. ASSUME PushedRest \/ PushedSweep \/ PushedSeed
      PROVE  /\ LastGraph' = LastGraph /\ LastStore' = LastStore
             /\ StoreIsSet' <=> StoreIsSet
             /\ GraphIsOpen' <=> GraphIsOpen
  <2>1. LastGraph' = LastGraph /\ LastStore' = LastStore
    BY <1>4, Pushed DEF PushedRest, PushedSweep, PushedSeed, LastGraph, LastStore
  <2>. QED  BY <1>1, <2>1 DEF StoreIsSet, GraphIsOpen
<1>5. ASSUME NEW p \in OpenPrograms, Holds(pending', p, pending.store, pending.flushAll,
                                           pending.nodes \cap NodesIn(p))
      PROVE  /\ LastGraph' = p /\ LastStore' = LastStore
             /\ StoreIsSet' <=> StoreIsSet
             /\ GraphIsOpen'
  <2>1. p # None /\ DocumentOf[p] = open
    BY ProgramAssumption DEF OpenPrograms
  <2>2. LastGraph' = p /\ LastStore' = LastStore
    BY <1>5, <2>1, Pushed DEF LastStore
  <2>. QED  BY <1>1, <2>1, <2>2 DEF StoreIsSet, GraphIsOpen
<1>6. CASE \E p \in OpenPrograms : \E seed \in SeedsOf(p) : StoreIsSet /\ RunLeft(p, seed)
  <2>1. PICK p \in OpenPrograms : \E seed \in SeedsOf(p) : StoreIsSet /\ RunLeft(p, seed)
    BY <1>6
  <2>2. PICK seed \in SeedsOf(p) : StoreIsSet /\ RunLeft(p, seed)
    BY <2>1
  <2>3. p \in Programs /\ NodesOf[p] \subseteq Nodes /\ NodesIn(p) = NodesOf[p]
    BY ProgramAssumption DEF OpenPrograms, NodesIn
  <2>4. post # Sweep
    <3>1. Memory \in Stores /\ {} \in SUBSET Nodes /\ \A n \in NodesOf[p] : {n} \in SUBSET Nodes
      BY <2>3, CacheAssumption
    <3>2. seed # FlushAllCaches
      BY <2>3, <3>1, MessageKinds DEF SeedsOf
    <3>3. Update(p) # FlushAllCaches
      BY <2>3, <3>1, MessageKinds
    <3>. QED  BY <1>1, <2>2, <3>2, <3>3 DEF RunLeft, Sweep
  <2>5. CASE post = <<Update(p)>> /\ script = << <<seed>> >>
    <3>1. pending' = Push(pending, Update(p)) /\ post' = <<>>
      BY <1>2, <2>5
    <3>2. Holds(pending', p, pending.store, pending.flushAll, pending.nodes \cap NodesIn(p))
      BY <1>1, <2>3, <3>1, PushUpdate
    <3>3. PushedInstall
      BY <2>2, <3>2 DEF PushedInstall
    <3>4. RunLeft(p, seed)' /\ StoreIsSet'
      BY Zenon, <1>1, <1>5, <2>2, <2>5, <3>1, <3>2 DEF RunLeft
    <3>5. CommandInv'
      BY Zenon, <1>1, <2>2, <3>4 DEF CommandInv, SeedsOf
    <3>. QED  BY <1>3, <2>4, <3>3, <3>5 DEF SweepStays
  <2>6. CASE post = <<seed>> /\ script = <<>> /\ LastGraph = p
    <3>1. pending' = Push(pending, seed) /\ post' = <<>>
      BY <1>2, <2>6
    <3>2. PushedRest \/ PushedSeed
      <4>1. CASE seed = RunSinks
        <5>1. {} \in SUBSET Nodes
          OBVIOUS
        <5>. QED  BY <1>1, <3>1, <4>1, <5>1, PushRest DEF PushedRest
      <4>2. ASSUME NEW n \in NodesOf[p], seed = RunNodes({n}) PROVE PushedSeed
        BY <1>1, <2>3, <2>6, <3>1, <4>2, PushNodes DEF PushedSeed
      <4>. QED  BY <2>2, <4>1, <4>2 DEF SeedsOf
    <3>3. CommandInv'
      BY <1>1, <1>4, <2>2, <2>6, <3>1, <3>2 DEF CommandInv, NothingLeft, GraphIsOpen, OpenPrograms
    <3>. QED  BY <1>3, <2>4, <3>2, <3>3 DEF SweepStays
  <2>. QED  BY <1>1, <2>2, <2>5, <2>6 DEF RunLeft
<1>7. CASE \E p \in OpenPrograms : \E touch \in TouchesOf(p) : StoreIsSet /\ TouchLeft(p, touch)
  <2>1. PICK p \in OpenPrograms : \E touch \in TouchesOf(p) : StoreIsSet /\ TouchLeft(p, touch)
    BY <1>7
  <2>2. PICK touch \in TouchesOf(p) : StoreIsSet /\ TouchLeft(p, touch)
    BY <2>1
  <2>3. p \in Programs /\ NodesOf[p] \subseteq Nodes
    BY ProgramAssumption DEF OpenPrograms
  <2>4. PICK n \in NodesOf[p] : touch \in {EvictCache({n}), FlushCache({n})}
    BY <2>2 DEF TouchesOf
  <2>5. {n} \in SUBSET Nodes /\ Memory \in Stores /\ pending \in Intent
    BY <1>1, <2>3, CacheAssumption
  <2>6. Update(p) # FlushAllCaches /\ touch # FlushAllCaches /\ StopEventLoop # FlushAllCaches
    BY <2>3, <2>4, <2>5, MessageKinds
  <2>7. post # Sweep /\ GraphIsOpen /\ script = <<>> /\ script' = <<>>
    BY <1>1, <2>2, <2>6 DEF TouchLeft, Sweep
  <2>8. CASE post \in {<<Update(p), touch>>, <<Update(p), touch, StopEventLoop>>}
    <3>1. pending' = Push(pending, Update(p)) /\ post' \in {<<touch>>, <<touch, StopEventLoop>>}
      BY <1>2, <2>8
    <3>2. Holds(pending', p, pending.store, pending.flushAll, pending.nodes \cap NodesIn(p))
      BY <2>3, <2>5, <3>1, PushUpdate
    <3>3. PushedInstall
      BY <2>2, <3>2 DEF PushedInstall
    <3>4. GraphIsOpen' /\ StoreIsSet'
      BY Zenon, <1>5, <2>2, <3>2
    <3>5. TouchLeft(p, touch)'
      BY <2>7, <3>1, <3>4 DEF TouchLeft
    <3>6. CommandInv'
      BY Zenon, <1>1, <2>2, <3>4, <3>5 DEF CommandInv, TouchesOf
    <3>. QED  BY <1>3, <2>7, <3>3, <3>6 DEF SweepStays
  <2>9. CASE post \in {<<touch>>, <<touch, StopEventLoop>>, <<StopEventLoop>>}
    <3>1. /\ post' \in {<<StopEventLoop>>, <<>>}
          /\ pending' = Push(pending, touch) \/ pending' = Push(pending, StopEventLoop)
      BY <1>2, <2>9
    <3>2. PushedRest
      BY <2>4, <2>5, <3>1, PushRest DEF PushedRest
    <3>3. GraphIsOpen' /\ StoreIsSet'
      BY Zenon, <1>4, <2>2, <2>7, <3>2
    <3>4. TouchLeft(p, touch)' \/ NothingLeft'
      BY <2>7, <3>1, <3>3 DEF TouchLeft, NothingLeft
    <3>5. CommandInv'
      BY Zenon, <1>1, <2>2, <3>3, <3>4 DEF CommandInv, TouchesOf
    <3>. QED  BY <1>3, <2>7, <3>2, <3>5 DEF SweepStays
  <2>. QED  BY <1>1, <2>2, <2>8, <2>9 DEF TouchLeft
<1>8. CASE StoreLeft /\ GraphIsOpen
  <2>1. CASE post = <<SetDiskStore(root)>>
    <3>1. pending' = Push(pending, SetDiskStore(root)) /\ post' = <<>>
      BY <1>2, <2>1
    <3>2. Holds(pending', pending.graph, root, pending.flushAll, pending.nodes)
      BY <1>1, <3>1, PushStore
    <3>3. script = <<Sweep>> \/ (script = <<>> /\ ~RootGained)
      <4>1. SetDiskStore(root) # FlushAllCaches
        BY DEF SetDiskStore, FlushAllCaches
      <4>. QED  BY <1>1, <1>8, <2>1, <4>1 DEF StoreLeft, Sweep
    <3>4. PushedStore
      BY <1>8, <3>2, <3>3 DEF PushedStore
    <3>5. LastGraph' = LastGraph /\ LastStore' = root
      <4>1. root # None
        BY StoreAssumption
      <4>. QED  BY <3>2, <4>1, Pushed DEF LastGraph
    <3>6. GraphIsOpen' /\ StoreIsSet'
      BY <1>1, <1>8, <3>5 DEF GraphIsOpen, StoreIsSet
    <3>7. StoreLeft' \/ NothingLeft'
      BY <1>1, <3>1, <3>3, <3>6 DEF StoreLeft, NothingLeft
    <3>8. post # Sweep
      <4>1. SetDiskStore(root) # FlushAllCaches
        BY DEF SetDiskStore, FlushAllCaches
      <4>. QED  BY <2>1, <4>1 DEF Sweep
    <3>. QED  BY <1>3, <3>4, <3>6, <3>7, <3>8 DEF SweepStays, CommandInv
  <2>2. CASE post = Sweep /\ script = <<>> /\ StoreIsSet
    <3>1. pending' = Push(pending, FlushAllCaches) /\ post' = <<>>
      BY <1>2, <2>2 DEF Sweep
    <3>2. PushedSweep
      BY <1>1, <3>1, PushSweep DEF PushedSweep
    <3>3. GraphIsOpen' /\ StoreIsSet'
      BY Zenon, <1>4, <1>8, <2>2, <3>2
    <3>. QED  BY <1>1, <2>2, <3>1, <3>2, <3>3 DEF CommandInv, NothingLeft
  <2>. QED  BY <1>1, <1>8, <2>1, <2>2 DEF StoreLeft
<1>9. CASE SwapLeft
  <2>1. post = <<Clear>> /\ SettlesStore(script)
    BY <1>1, <1>9 DEF SwapLeft
  <2>2. pending' = Push(pending, Clear) /\ post' = <<>>
    BY <1>2, <2>1
  <2>3. PushedClear
    BY <1>1, <2>2, PushClear DEF PushedClear
  <2>4. LastGraph' = Empty /\ LastStore' = LastStore
    BY <2>3, ProgramAssumption, Pushed DEF PushedClear, LastStore
  <2>5. /\ GraphIsOpen'
        /\ StoreIsSet' <=> StoreIsSet
        /\ RootGained' <=> RootGained
    BY <1>1, <2>4, ProgramAssumption DEF GraphIsOpen, StoreIsSet, RootGained
  <2>6. StoreLeft' \/ NothingLeft'
    BY Zenon, <1>1, <2>1, <2>2, <2>5 DEF StoreLeft, SettlesStore, SetsStore, NothingLeft
  <2>7. post # Sweep
    <3>1. Clear # FlushAllCaches
      BY DEF Clear, FlushAllCaches
    <3>. QED  BY <2>1, <3>1 DEF Sweep
  <2>8. CommandInv'
    BY Zenon, <2>5, <2>6 DEF CommandInv
  <2>. QED  BY Zenon, <1>3, <2>3, <2>7, <2>8 DEF SweepStays
<1>. QED  BY <1>1, <1>6, <1>7, <1>8, <1>9 DEF HostInv, CommandInv, NothingLeft

(* A host that waits has posted all of its last command.                     *)
LEMMA IdleHost == HostInv /\ hostPc = "idle" => NothingLeft /\ post = <<>> /\ script = <<>>
<1>. SUFFICES ASSUME HostInv, hostPc = "idle" PROVE NothingLeft /\ post = <<>> /\ script = <<>>
  OBVIOUS
<1>1. post = <<>> /\ script = <<>>
  BY DEF HostInv, PlaceInv
<1>2. \A p, seed : ~RunLeft(p, seed)
  BY <1>1 DEF RunLeft
<1>3. \A p, touch : ~TouchLeft(p, touch)
  BY <1>1 DEF TouchLeft
<1>4. ~StoreLeft
  BY <1>1 DEF StoreLeft, SetsStore, Sweep
<1>5. ~SwapLeft
  BY <1>1 DEF SwapLeft
<1>. QED  BY Zenon, <1>1, <1>2, <1>3, <1>4, <1>5 DEF HostInv, CommandInv

(* One item before one or two more.                                          *)
LEMMA OneAndMore ==
    ASSUME NEW S, NEW p \in Seq(S), NEW q \in Seq(S)
    PROVE  /\ Len(p) = 1 /\ Len(q) = 1 => p \o q = <<p[1], q[1]>>
           /\ Len(p) = 1 /\ Len(q) = 2 => p \o q = <<p[1], q[1], q[2]>>
<1>. DEFINE t == p \o q
<1>1. t \in Seq(S) /\ Len(t) = Len(p) + Len(q)
  OBVIOUS
<1>2. \A k \in 1..Len(p) : t[k] = p[k]
  OBVIOUS
<1>3. \A k \in 1..Len(q) : t[Len(p) + k] = q[k]
  OBVIOUS
<1>. HIDE DEF t
<1>4. CASE Len(p) = 1 /\ Len(q) = 1
  <2>1. t \in Seq(S) /\ Len(t) = 2 /\ t[1] = p[1] /\ t[2] = q[1]
    BY <1>1, <1>2, <1>3, <1>4
  <2>2. t = <<p[1], q[1]>>
    BY <2>1
  <2>. QED  BY <1>4, <2>2 DEF t
<1>5. CASE Len(p) = 1 /\ Len(q) = 2
  <2>1. t \in Seq(S) /\ Len(t) = 3 /\ t[1] = p[1] /\ t[2] = q[1] /\ t[3] = q[2]
    BY <1>1, <1>2, <1>3, <1>5
  <2>2. t = <<p[1], q[1], q[2]>>
    BY <2>1
  <2>. QED  BY <1>5, <2>2 DEF t
<1>. QED  BY Zenon, <1>4, <1>5 DEF t

(* One post before none, one or two more.                                    *)
LEMMA OnePostAndMore ==
    ASSUME NEW a, NEW b, NEW c
    PROVE  <<a>> \o <<>> = <<a>> /\ <<a>> \o <<b>> = <<a, b>> /\ <<a>> \o <<b, c>> = <<a, b, c>>
<1>1. <<a>> \o <<>> = <<a>>
  OBVIOUS
<1>4. /\ <<a>> \in Seq({a, b, c}) /\ <<b>> \in Seq({a, b, c}) /\ <<b, c>> \in Seq({a, b, c})
      /\ Len(<<a>>) = 1 /\ <<a>>[1] = a /\ Len(<<b>>) = 1 /\ <<b>>[1] = b
      /\ Len(<<b, c>>) = 2 /\ <<b, c>>[1] = b /\ <<b, c>>[2] = c
  OBVIOUS
<1>5. <<a>> \o <<b>> = << <<a>>[1], <<b>>[1] >>
  BY Zenon, <1>4, OneAndMore
<1>6. <<a>> \o <<b, c>> = << <<a>>[1], <<b, c>>[1], <<b, c>>[2] >>
  BY Zenon, <1>4, OneAndMore
<1>. QED  BY Zenon, <1>1, <1>4, <1>5, <1>6

(* RuntimeHost::set_document_cache posts the store, and a sweep for a first. *)
LEMMA RootChangePosts ==
    ASSUME NEW prev \in Stores, NEW cur \in Stores
    PROVE  /\ prev = cur => RootChange(prev, cur) = <<>> /\ Adopt(prev, cur) = << <<Clear>> >>
           /\ prev # cur /\ prev = Memory =>
                 /\ RootChange(prev, cur) = << <<SetDiskStore(cur)>>, Sweep >>
                 /\ Adopt(prev, cur) = << <<Clear>>, <<SetDiskStore(cur)>>, Sweep >>
           /\ prev # cur /\ prev # Memory =>
                 /\ RootChange(prev, cur) = << <<SetDiskStore(cur)>> >>
                 /\ Adopt(prev, cur) = << <<Clear>>, <<SetDiskStore(cur)>> >>
<1>1. Adopt(prev, cur) = << <<Clear>> >> \o RootChange(prev, cur)
  BY DEF Adopt, ClearProgram
<1>2. CASE prev = cur
  <2>1. RootChange(prev, cur) = <<>>
    BY <1>2 DEF RootChange
  <2>. QED  BY Zenon, <1>1, <1>2, <2>1, OnePostAndMore
<1>3. CASE prev # cur /\ prev = Memory
  <2>1. RootChange(prev, cur) = << <<SetDiskStore(cur)>> >> \o << <<FlushAllCaches>> >>
    BY <1>3 DEF RootChange
  <2>2. RootChange(prev, cur) = << <<SetDiskStore(cur)>>, Sweep >>
    BY Zenon, <2>1, OnePostAndMore DEF Sweep
  <2>3. << <<Clear>> >> \o << <<SetDiskStore(cur)>>, Sweep >> = << <<Clear>>, <<SetDiskStore(cur)>>, Sweep >>
    BY Zenon, OnePostAndMore
  <2>4. Adopt(prev, cur) = << <<Clear>>, <<SetDiskStore(cur)>>, Sweep >>
    BY Zenon, <1>1, <2>2, <2>3
  <2>. QED  BY Zenon, <1>3, <2>2, <2>4
<1>4. CASE prev # cur /\ prev # Memory
  <2>1. RootChange(prev, cur) = << <<SetDiskStore(cur)>> >> \o <<>>
    BY <1>4 DEF RootChange
  <2>. QED  BY Zenon, <1>1, <1>4, <2>1, OnePostAndMore
<1>. QED  BY <1>2, <1>3, <1>4

(* Every command of the editor is a list of posts.                           *)
LEMMA CommandsArePosts ==
    /\ \A p \in Programs : RunOnce(p) \in Seq(Seq(Message))
    /\ \A p \in Programs : \A n \in NodesOf[p] :
          {RunNode(p, n), EvictNode(p, n), FlushNode(p, n)} \subseteq Seq(Seq(Message))
    /\ \A prev, cur \in Stores :
          {RootChange(prev, cur), Adopt(prev, cur)} \subseteq Seq(Seq(Message))
<1>1. ASSUME NEW p \in Programs
      PROVE  /\ Update(p) \in Message /\ RunSinks \in Message /\ StopEventLoop \in Message
             /\ \A n \in NodesOf[p] : {RunNodes({n}), EvictCache({n}), FlushCache({n})} \subseteq Message
  BY ProgramAssumption DEF Update, RunSinks, StopEventLoop, RunNodes, EvictCache, FlushCache, Message
<1>2. Clear \in Message /\ FlushAllCaches \in Message /\ \A s \in Stores : SetDiskStore(s) \in Message
  BY DEF Clear, FlushAllCaches, SetDiskStore, Message
<1>3. ASSUME NEW a \in Message, NEW b \in Message, NEW c \in Message
      PROVE  {<<a>>, <<a, b>>, <<a, b, c>>} \subseteq Seq(Message)
  OBVIOUS
<1>4. ASSUME NEW a \in Seq(Message), NEW b \in Seq(Message), NEW c \in Seq(Message)
      PROVE  {<<>>, <<a>>, <<a, b>>, <<a, b, c>>} \subseteq Seq(Seq(Message))
  OBVIOUS
<1>5. ASSUME NEW p \in Programs PROVE RunOnce(p) \in Seq(Seq(Message))
  BY <1>1, <1>3, <1>4, <1>5 DEF RunOnce
<1>6. ASSUME NEW p \in Programs, NEW n \in NodesOf[p]
      PROVE  {RunNode(p, n), EvictNode(p, n), FlushNode(p, n)} \subseteq Seq(Seq(Message))
  BY <1>1, <1>3, <1>4, <1>6 DEF RunNode, EvictNode, FlushNode
<1>7. ASSUME NEW prev \in Stores, NEW cur \in Stores
      PROVE  {RootChange(prev, cur), Adopt(prev, cur)} \subseteq Seq(Seq(Message))
  <2>1. <<Clear>> \in Seq(Message) /\ Sweep \in Seq(Message) /\ <<SetDiskStore(cur)>> \in Seq(Message)
    BY <1>2, <1>3 DEF Sweep
  <2>2. RootChange(prev, cur) \in Seq(Seq(Message))
    BY <1>4, <2>1, RootChangePosts
  <2>3. Adopt(prev, cur) \in Seq(Seq(Message))
    BY <1>4, <2>1, RootChangePosts
  <2>. QED  BY <2>2, <2>3
<1>. QED  BY <1>5, <1>6, <1>7

(* An editor's command begins with all of its posts to make.                 *)
BeginsCommand ==
    /\ open' = open /\ root' = root
    /\ \E p \in OpenPrograms :
          \/ HostCall(RunOnce(p))
          \/ \E n \in NodesOf[p] :
                HostCall(RunNode(p, n)) \/ HostCall(EvictNode(p, n)) \/ HostCall(FlushNode(p, n))

BeginsSwap == \/ \E r \in Roots : OpenFile(r)
              \/ \E d \in Documents : NewDocument(d)
BeginsSave == \E r \in Roots : SaveTo(r)

(* The worker's state stays, and with it where graph and store end.          *)
LEMMA CallFrame ==
    ASSUME NEW posts, HostCall(posts)
    PROVE  /\ post' = post /\ script' = posts /\ hostPc = "idle" /\ hostPc' = "posting"
           /\ LastGraph' = LastGraph /\ LastStore' = LastStore
           /\ NextGraph' = NextGraph /\ NextStore' = NextStore
           /\ UNCHANGED <<pending, intent, installed, store, pc>>
BY DEF HostCall, LastGraph, LastStore, NextGraph, NextStore

(* The editor runs, evicts or flushes a node, or runs all, of the open one.  *)
LEMMA CallBeginsTheCommand ==
    HostInv /\ BeginsCommand => CommandInv'
<1>. SUFFICES ASSUME HostInv, BeginsCommand PROVE CommandInv'
  OBVIOUS
<1>1. PICK p \in OpenPrograms :
          \/ HostCall(RunOnce(p))
          \/ \E n \in NodesOf[p] :
                HostCall(RunNode(p, n)) \/ HostCall(EvictNode(p, n)) \/ HostCall(FlushNode(p, n))
  BY DEF BeginsCommand
<1>2. /\ post' = post /\ hostPc = "idle" /\ LastGraph' = LastGraph /\ LastStore' = LastStore
      /\ open' = open /\ root' = root /\ p \in OpenPrograms'
  BY <1>1, CallFrame DEF BeginsCommand, OpenPrograms
<1>3. post' = <<>> /\ StoreIsSet' /\ GraphIsOpen'
  BY <1>2, IdleHost DEF NothingLeft, StoreIsSet, GraphIsOpen
<1>4. CASE HostCall(RunOnce(p))
  <2>1. RunLeft(p, RunSinks)'
    BY <1>3, <1>4, CallFrame DEF RunLeft, RunOnce
  <2>. QED  BY <1>2, <1>3, <2>1 DEF CommandInv, SeedsOf
<1>5. ASSUME NEW n \in NodesOf[p], HostCall(RunNode(p, n)) PROVE CommandInv'
  <2>1. RunLeft(p, RunNodes({n}))'
    BY <1>3, <1>5, CallFrame DEF RunLeft, RunNode
  <2>. QED  BY <1>2, <1>3, <2>1 DEF CommandInv, SeedsOf
<1>6. ASSUME NEW n \in NodesOf[p], HostCall(EvictNode(p, n)) PROVE CommandInv'
  <2>1. TouchLeft(p, EvictCache({n}))'
    BY <1>3, <1>6, CallFrame DEF TouchLeft, EvictNode
  <2>. QED  BY <1>2, <1>3, <2>1 DEF CommandInv, TouchesOf
<1>7. ASSUME NEW n \in NodesOf[p], HostCall(FlushNode(p, n)) PROVE CommandInv'
  <2>1. TouchLeft(p, FlushCache({n}))'
    BY <1>3, <1>7, CallFrame DEF TouchLeft, FlushNode
  <2>. QED  BY <1>2, <1>3, <2>1 DEF CommandInv, TouchesOf
<1>. QED  BY <1>1, <1>4, <1>5, <1>6, <1>7

(* Opening or making a document clears the program before the store moves.   *)
LEMMA CallBeginsTheSwap ==
    HostInv /\ root \in Stores /\ BeginsSwap => SwapLeft' /\ root' \in Stores
<1>. SUFFICES ASSUME HostInv, root \in Stores, BeginsSwap PROVE SwapLeft' /\ root' \in Stores
  OBVIOUS
<1>1. HostCall(Adopt(root, root')) /\ root' \in Stores
  BY CacheAssumption DEF BeginsSwap, OpenFile, NewDocument, Roots
<1>2. /\ post' = <<>> /\ script' = Adopt(root, root') /\ LastStore' = LastStore
      /\ StoreIsSet
  BY <1>1, CallFrame, IdleHost DEF NothingLeft
<1>3. CASE root = root'
  BY <1>1, <1>2, <1>3, RootChangePosts DEF SwapLeft, StoreIsSet
<1>4. CASE root # root' /\ root = Memory
  BY <1>1, <1>2, <1>4, RootChangePosts DEF SwapLeft
<1>5. CASE root # root' /\ root # Memory
  <2>1. ~RootGained'
    BY <1>2, <1>5 DEF RootGained, StoreIsSet, Roots
  <2>. QED  BY <1>1, <1>2, <1>5, <2>1, RootChangePosts DEF SwapLeft
<1>. QED  BY <1>1, <1>3, <1>4, <1>5

(* Saving elsewhere moves the store, with the program left as it is.         *)
LEMMA CallBeginsTheSave ==
    HostInv /\ root \in Stores /\ BeginsSave => StoreLeft' /\ GraphIsOpen' /\ root' \in Stores
<1>. SUFFICES ASSUME HostInv, root \in Stores, BeginsSave
              PROVE  StoreLeft' /\ GraphIsOpen' /\ root' \in Stores
  OBVIOUS
<1>1. /\ HostCall(RootChange(root, root')) /\ root' \in Stores /\ root # root' /\ open' = open
  BY CacheAssumption DEF BeginsSave, SaveTo, Roots
<1>2. /\ post' = <<>> /\ script' = RootChange(root, root') /\ LastStore' = LastStore
      /\ LastGraph' = LastGraph /\ StoreIsSet /\ GraphIsOpen
  BY <1>1, CallFrame, IdleHost DEF NothingLeft
<1>3. GraphIsOpen'
  BY <1>1, <1>2 DEF GraphIsOpen
<1>4. CASE root = Memory
  BY <1>1, <1>2, <1>3, <1>4, RootChangePosts DEF StoreLeft, SetsStore
<1>5. CASE root # Memory
  <2>1. ~RootGained'
    BY <1>2, <1>5 DEF RootGained, StoreIsSet, Roots
  <2>. QED  BY <1>1, <1>2, <1>3, <1>5, <2>1, RootChangePosts DEF StoreLeft, SetsStore
<1>. QED  BY <1>4, <1>5

-----------------------------------------------------------------------------
(* What a step does to the graphs, the stores, the sweeps and the seeds of   *)
(* the batches. *)

StagesStay ==
    /\ UNCHANGED <<installed, store, pending, intent.flushAll>>
    /\ NextGraph' = NextGraph /\ NextStore' = NextStore
    /\ LastGraph' = LastGraph /\ LastStore' = LastStore
    /\ intent'.nodes \subseteq intent.nodes

BatchTaken ==
    /\ UNCHANGED <<installed, store>>
    /\ NextGraph = installed /\ NextGraph' = LastGraph /\ LastGraph' = LastGraph
    /\ NextStore = store /\ NextStore' = LastStore /\ LastStore' = LastStore
    /\ ~intent.flushAll /\ intent'.flushAll = pending.flushAll /\ ~pending'.flushAll
    /\ intent'.nodes = pending.nodes /\ pending'.nodes = {}

BatchApplied ==
    /\ installed' = NextGraph /\ NextGraph' = NextGraph /\ LastGraph' = LastGraph
    /\ store' = NextStore /\ NextStore' = NextStore /\ LastStore' = LastStore
    /\ ~intent'.flushAll /\ pending' = pending /\ intent'.nodes = intent.nodes

(* The worker's places where it ends a batch, or begins to run one, or goes  *)
(* on, and the host's where it neither begins a post nor merges a message.   *)
GoesOn ==
    \/ UnlockMailbox \/ NotifyWorker \/ ExitCancel \/ ExitShutdown
    \/ LockMailbox /\ closed
    \/ ShutdownWake \/ MailboxWake \/ CommitBatch
    \/ SkipRun \/ RefuseRun \/ BeginRun \/ PlanRun \/ RunNextNode \/ FinishRun \/ Yield
    \/ DrainAndEnd

(* ...and there the batches keep what they ask for.                          *)
LEMMA GoesOnStays ==
    TypeOK /\ StageInv /\ GoesOn => StagesStay /\ UNCHANGED <<post, script>>
<1>. SUFFICES ASSUME TypeOK, StageInv, GoesOn PROVE StagesStay /\ UNCHANGED <<post, script>>
  OBVIOUS
<1>. USE DEF StagesStay, NextGraph, NextStore, LastGraph, LastStore
<1>1. CASE UnlockMailbox \/ NotifyWorker \/ ExitCancel \/ ExitShutdown \/ (LockMailbox /\ closed)
  BY <1>1 DEF UnlockMailbox, NotifyWorker, ExitCancel, ExitShutdown, LockMailbox
<1>2. CASE ShutdownWake \/ MailboxWake \/ CommitBatch \/ PlanRun \/ RunNextNode \/ Yield
  BY <1>2 DEF ShutdownWake, MailboxWake, CommitBatch, PlanRun, RunNextNode, Yield
<1>3. CASE BeginRun
  <2>1. /\ intent'.graph = intent.graph /\ intent'.store = intent.store
        /\ intent'.flushAll = intent.flushAll /\ intent'.nodes = intent.nodes
        /\ UNCHANGED <<installed, store, pending, post, script>>
    BY <1>3 DEF BeginRun, TypeOK, WorkerTypeOK, Intent
  <2>. QED  BY <2>1
<1>4. CASE SkipRun \/ RefuseRun \/ FinishRun \/ DrainAndEnd
  <2>1. /\ intent' = EmptyIntent /\ UNCHANGED <<installed, store, pending, post, script>>
        /\ pc \notin {"commit", "apply"}
    BY <1>4 DEF SkipRun, RefuseRun, FinishRun, DrainAndEnd, EndBatch, EndTask
  <2>2. /\ intent'.graph = None /\ intent'.store = None /\ ~intent'.flushAll /\ intent'.nodes = {}
        /\ intent'.flushAll \in BOOLEAN
    BY <2>1 DEF EmptyIntent
  <2>3. intent.graph = None /\ intent.store = None /\ ~intent.flushAll /\ intent.flushAll \in BOOLEAN
    BY <2>1 DEF StageInv, TypeOK, WorkerTypeOK, Intent
  <2>. QED  BY <2>1, <2>2, <2>3
<1>. QED  BY <1>1, <1>2, <1>3, <1>4 DEF GoesOn

(* The take moves what is asked for into the worker's hands...               *)
LEMMA TakeTakes == TypeOK /\ StageInv /\ TakeBatch => BatchTaken /\ UNCHANGED <<post, script>>
<1>. SUFFICES ASSUME TypeOK, StageInv, TakeBatch PROVE BatchTaken /\ UNCHANGED <<post, script>>
  OBVIOUS
<1>1. /\ intent' = AddEvents(pending, fired) /\ pending' = EmptyIntent /\ pc = "take"
      /\ UNCHANGED <<installed, store, post, script>>
  BY DEF TakeBatch
<1>2. /\ intent'.graph = pending.graph /\ intent'.store = pending.store
      /\ intent'.flushAll = pending.flushAll /\ intent'.nodes = pending.nodes
  BY <1>1 DEF AddEvents, TypeOK, MailTypeOK, Intent
<1>3. pending'.graph = None /\ pending'.store = None /\ ~pending'.flushAll /\ pending'.nodes = {}
  BY <1>1 DEF EmptyIntent
<1>4. intent.graph = None /\ intent.store = None /\ ~intent.flushAll
  BY <1>1 DEF StageInv
<1>. QED  BY <1>1, <1>2, <1>3, <1>4 DEF BatchTaken, NextGraph, NextStore, LastGraph, LastStore

(* ...and the application makes it so.                                       *)
LEMMA ApplyApplies == TypeOK /\ ApplyCommands => BatchApplied /\ UNCHANGED <<post, script>>
<1>. SUFFICES ASSUME TypeOK, ApplyCommands PROVE BatchApplied /\ UNCHANGED <<post, script>>
  OBVIOUS
<1>1. /\ installed' = IF intent.graph = None THEN installed ELSE intent.graph
      /\ store' = IF intent.store = None THEN store ELSE intent.store
      /\ UNCHANGED <<pending, post, script>>
  BY DEF ApplyCommands
<1>2. /\ intent'.graph = None /\ intent'.store = None /\ ~intent'.flushAll
      /\ intent'.nodes = intent.nodes
  BY DEF ApplyCommands, TypeOK, WorkerTypeOK, Intent
<1>. QED  BY <1>1, <1>2 DEF BatchApplied, NextGraph, NextStore, LastGraph, LastStore

(* A step of the composition, as the invariants look at it.                  *)
LEMMA CacheSteps ==
    ASSUME TypeOK, StageInv, CacheNext
    PROVE  \/ /\ BeginsCommand \/ BeginsSwap \/ BeginsSave
              /\ StagesStay /\ UNCHANGED <<diskVars, pc>>
           \/ LockMailbox /\ ~closed /\ StagesStay /\ UNCHANGED <<hostCacheVars, diskVars, pc>>
           \/ MergeMessage /\ UNCHANGED <<hostCacheVars, diskVars>>
           \/ TakeBatch /\ BatchTaken /\ UNCHANGED <<post, script, hostCacheVars, diskVars>>
           \/ ApplyToDisk /\ BatchApplied /\ UNCHANGED <<post, script, hostCacheVars>>
           \/ /\ GoesOn /\ StagesStay /\ UNCHANGED <<post, script, hostCacheVars>>
              /\ RunNodeToDisk \/ UNCHANGED diskVars
<1>1. ASSUME NEW posts, HostCall(posts)
      PROVE  StagesStay /\ pc' = pc
  BY <1>1, CallFrame DEF StagesStay, HostCall
<1>2. CASE Command
  <2>1. \E posts : HostCall(posts)
    BY <1>2 DEF Command, Ask
  <2>2. BeginsCommand /\ UNCHANGED diskVars
    BY <1>2 DEF Command, Ask, BeginsCommand, OpenPrograms, hostCacheVars
  <2>. QED  BY <1>1, <2>1, <2>2
<1>3. CASE \E r \in Roots : OpenFile(r) \/ SaveTo(r)
  <2>1. \E posts : HostCall(posts)
    BY <1>3 DEF OpenFile, SaveTo
  <2>2. (BeginsSwap \/ BeginsSave) /\ UNCHANGED diskVars
    BY <1>3 DEF OpenFile, SaveTo, BeginsSwap, BeginsSave
  <2>. QED  BY <1>1, <2>1, <2>2
<1>4. CASE \E d \in Documents : NewDocument(d)
  <2>1. \E posts : HostCall(posts)
    BY <1>4 DEF NewDocument
  <2>2. BeginsSwap /\ UNCHANGED diskVars
    BY <1>4 DEF NewDocument, BeginsSwap
  <2>. QED  BY <1>1, <2>1, <2>2
<1>5. CASE ApplyToDisk
  BY <1>5, ApplyApplies DEF ApplyToDisk
<1>6. CASE RunNodeToDisk
  BY <1>6, GoesOnStays DEF RunNodeToDisk, GoesOn
<1>7. CASE LockMailbox /\ ~closed /\ UNCHANGED <<hostCacheVars, diskVars>>
  <2>1. StagesStay /\ pc' = pc
    BY <1>7 DEF LockMailbox, StagesStay, NextGraph, NextStore, LastGraph, LastStore
  <2>. QED  BY <1>7, <2>1
<1>8. CASE (MergeMessage \/ TakeBatch) /\ UNCHANGED <<hostCacheVars, diskVars>>
  BY <1>8, TakeTakes
<1>9. CASE GoesOn /\ UNCHANGED <<hostCacheVars, diskVars>>
  BY <1>9, GoesOnStays
<1>. QED  BY <1>2, <1>3, <1>4, <1>5, <1>6, <1>7, <1>8, <1>9 DEF CacheNext, HostStep, GoesOn

-----------------------------------------------------------------------------
(* The worker's guarantees hold in the composition. *)

(* A command beginning disturbs nothing of the worker's.                     *)
LEMMA HostCallKeeps ==
    ASSUME NEW posts \in Seq(Seq(Message)), IInv, HostCall(posts)
    PROVE  IInv'
<1>. USE DEF IInv
<1>1. /\ hostPc = "idle" /\ hostPc' = "posting" /\ script' = posts
      /\ calls < MaxCalls /\ calls' = calls + 1
      /\ UNCHANGED <<post, cancels, mailVars, tokenVars, pc, batchVars, engineVars, activity,
                     loopVars, gateVars, histVars>>
  BY DEF HostCall
<1>2. HostTypeOK'
  BY <1>1, WorkerAssumption DEF TypeOK, HostTypeOK, HostPcs
<1>3. TypeOK'
  BY <1>1, <1>2 DEF TypeOK, MailTypeOK, TokenTypeOK, WorkerTypeOK, LoopTypeOK
<1>4. GateInv' /\ LoopInv' /\ OneEventBehindTheRun'
  BY <1>1 DEF GateInv, GateClosedOnlyInRuns, Running, LoopInv, LoopIsOfTheProgram,
              OneEventBehindTheRun
<1>5. MailInv'
  BY <1>1 DEF MailInv
<1>6. CancelInv'
  BY <1>1 DEF CancelInv, Running
<1>7. ActivityInv'
  BY <1>1 DEF ActivityInv, Running, LoopActive
<1>. QED  BY <1>3, <1>4, <1>5, <1>6, <1>7

(* Every step of the composition but the start of a command is one of Worker. *)
LEMMA CacheKeepsTheWorker ==
    IInv /\ root \in Stores /\ [CacheNext]_cacheVars => IInv'
<1>. SUFFICES ASSUME IInv, root \in Stores, [CacheNext]_cacheVars PROVE IInv'
  OBVIOUS
<1>1. CASE Command
  <2>1. PICK p \in Programs :
            \/ HostCall(RunOnce(p))
            \/ \E n \in NodesOf[p] :
                  HostCall(RunNode(p, n)) \/ HostCall(EvictNode(p, n)) \/ HostCall(FlushNode(p, n))
    BY <1>1 DEF Command, Ask
  <2>2. RunOnce(p) \in Seq(Seq(Message))
    BY CommandsArePosts
  <2>3. \A n \in NodesOf[p] :
            {RunNode(p, n), EvictNode(p, n), FlushNode(p, n)} \subseteq Seq(Seq(Message))
    BY CommandsArePosts
  <2>. QED  BY Zenon, <2>1, <2>2, <2>3, HostCallKeeps
<1>2. CASE \E r \in Roots : OpenFile(r) \/ SaveTo(r)
  <2>1. PICK r \in Stores : HostCall(Adopt(root, r)) \/ HostCall(RootChange(root, r))
    BY <1>2 DEF OpenFile, SaveTo, Roots
  <2>2. {RootChange(root, r), Adopt(root, r)} \subseteq Seq(Seq(Message))
    BY CommandsArePosts
  <2>. QED  BY <2>1, <2>2, HostCallKeeps
<1>3. CASE \E d \in Documents : NewDocument(d)
  <2>1. HostCall(Adopt(root, Memory)) /\ Memory \in Stores
    BY <1>3, CacheAssumption DEF NewDocument
  <2>2. {RootChange(root, Memory), Adopt(root, Memory)} \subseteq Seq(Seq(Message))
    BY <2>1, CommandsArePosts
  <2>. QED  BY <2>1, <2>2, HostCallKeeps
<1>4. CASE UNCHANGED cacheVars
  BY <1>4, NextInv DEF cacheVars
<1>5. CASE CacheNext /\ ~Command /\ ~(\E r \in Roots : OpenFile(r) \/ SaveTo(r))
                     /\ ~(\E d \in Documents : NewDocument(d))
  <2>1. Next
    BY <1>5 DEF CacheNext, ApplyToDisk, RunNodeToDisk, Next, HostRequest, WorkerStep
  <2>. QED  BY <2>1, NextInv
<1>. QED  BY <1>1, <1>2, <1>3, <1>4, <1>5

-----------------------------------------------------------------------------
(* The command under way, over every step. *)

(* What is left of a command is not touched by the worker.                   *)
LEMMA CommandStays ==
    ASSUME CommandInv, UNCHANGED <<post, script, open, root>>,
           LastGraph' = LastGraph, LastStore' = LastStore
    PROVE  CommandInv'
<1>1. /\ GraphIsOpen' <=> GraphIsOpen
      /\ StoreIsSet' <=> StoreIsSet
      /\ RootGained' <=> RootGained
  BY DEF GraphIsOpen, StoreIsSet, RootGained
<1>2. post' = post /\ script' = script /\ root' = root /\ LastGraph' = LastGraph
  OBVIOUS
<1>3. OpenPrograms' = OpenPrograms
  BY DEF OpenPrograms
<1>4. ASSUME NEW p, NEW seed, RunLeft(p, seed) PROVE RunLeft(p, seed)'
  BY Zenon, <1>1, <1>2, <1>4 DEF RunLeft
<1>5. ASSUME NEW p, NEW touch, TouchLeft(p, touch) PROVE TouchLeft(p, touch)'
  BY Zenon, <1>1, <1>2, <1>5 DEF TouchLeft
<1>6. StoreLeft => StoreLeft'
  BY Zenon, <1>1, <1>2 DEF StoreLeft, SetsStore
<1>7. SwapLeft => SwapLeft'
  BY Zenon, <1>1, <1>2 DEF SwapLeft, SettlesStore, SetsStore
<1>8. NothingLeft => NothingLeft'
  BY Zenon, <1>1, <1>2 DEF NothingLeft
<1>. QED  BY Zenon, <1>1, <1>3, <1>4, <1>5, <1>6, <1>7, <1>8 DEF CommandInv, SeedsOf, TouchesOf

(* The host's place tells whether a post is under way.                       *)
LEMMA PlaceStep == PlaceInv /\ [CacheNext]_cacheVars => PlaceInv'
<1>. SUFFICES ASSUME PlaceInv, [CacheNext]_cacheVars PROVE PlaceInv'
  OBVIOUS
<1>1. ASSUME NEW posts, HostCall(posts) PROVE PlaceInv'
  BY <1>1 DEF PlaceInv, HostCall
<1>2. CASE Command \/ (\E r \in Roots : OpenFile(r) \/ SaveTo(r)) \/ (\E d \in Documents : NewDocument(d))
  <2>1. \E posts : HostCall(posts)
    BY <1>2 DEF Command, Ask, OpenFile, SaveTo, NewDocument
  <2>. QED  BY <1>1, <2>1
<1>3. CASE HostStep \/ ExitShutdown
  BY <1>3 DEF PlaceInv, HostStep, LockMailbox, MergeMessage, UnlockMailbox, NotifyWorker, ExitCancel,
              ExitShutdown
<1>4. CASE WorkerStep \/ UNCHANGED cacheVars
  <2>1. UNCHANGED <<hostPc, post, script>>
    BY <1>4, WorkerFrame DEF cacheVars, vars
  <2>. QED  BY <2>1 DEF PlaceInv
<1>. QED  BY <1>2, <1>3, <1>4 DEF CacheNext, ApplyToDisk, RunNodeToDisk, WorkerStep

-----------------------------------------------------------------------------
(* What the worker holds, over every step. *)

(* A message merged leaves what the worker has in hand alone.                *)
LEMMA MergeFrame ==
    MergeMessage =>
        /\ UNCHANGED <<intent, installed, store, pc>>
        /\ NextGraph' = NextGraph /\ NextStore' = NextStore
BY DEF MergeMessage, NextGraph, NextStore

(* The graph and the store a message leaves last, by its kind.               *)
LEMMA PushedLast ==
    ASSUME TypeOK, MergeMessage
    PROVE  /\ PushedInstall => \E p \in OpenPrograms :
                 /\ LastGraph' = p /\ LastStore' = LastStore /\ StoreIsSet
                 /\ pending'.nodes \subseteq NodesIn(p) /\ pending'.flushAll = pending.flushAll
           /\ PushedClear =>
                 /\ LastGraph' = Empty /\ LastStore' = LastStore
                 /\ pending'.nodes = {} /\ pending'.flushAll = pending.flushAll
           /\ PushedStore =>
                 /\ LastGraph' = LastGraph /\ LastStore' = root /\ GraphIsOpen
                 /\ pending'.nodes = pending.nodes /\ pending'.flushAll = pending.flushAll
           /\ PushedSeed \/ PushedRest =>
                 /\ LastGraph' = LastGraph /\ LastStore' = LastStore
                 /\ pending'.nodes \subseteq pending.nodes \cup NodesIn(LastGraph)
                 /\ pending'.flushAll = pending.flushAll
           /\ PushedSweep =>
                 /\ LastGraph' = LastGraph /\ LastStore' = LastStore
                 /\ pending'.nodes = pending.nodes /\ pending'.flushAll
<1>1. ASSUME PushedInstall
      PROVE  \E p \in OpenPrograms :
                 /\ LastGraph' = p /\ LastStore' = LastStore /\ StoreIsSet
                 /\ pending'.nodes \subseteq NodesIn(p) /\ pending'.flushAll = pending.flushAll
  <2>1. PICK p \in OpenPrograms :
            Holds(pending', p, pending.store, pending.flushAll, pending.nodes \cap NodesIn(p))
    BY <1>1 DEF PushedInstall
  <2>2. p # None
    BY ProgramAssumption DEF OpenPrograms
  <2>3. LastGraph' = p /\ LastStore' = LastStore
    BY <2>1, <2>2, Pushed DEF LastStore
  <2>. QED  BY <1>1, <2>1, <2>3 DEF Holds, PushedInstall
<1>2. ASSUME PushedClear
      PROVE  /\ LastGraph' = Empty /\ LastStore' = LastStore
             /\ pending'.nodes = {} /\ pending'.flushAll = pending.flushAll
  <2>1. LastGraph' = Empty /\ LastStore' = LastStore
    BY <1>2, ProgramAssumption, Pushed DEF LastStore, PushedClear
  <2>. QED  BY <1>2, <2>1 DEF Holds, PushedClear
<1>3. ASSUME PushedStore
      PROVE  /\ LastGraph' = LastGraph /\ LastStore' = root /\ GraphIsOpen
             /\ pending'.nodes = pending.nodes /\ pending'.flushAll = pending.flushAll
  <2>1. LastGraph' = LastGraph /\ LastStore' = root
    BY <1>3, StoreAssumption, Pushed DEF LastGraph, PushedStore
  <2>. QED  BY <1>3, <2>1 DEF Holds, PushedStore
<1>4. ASSUME PushedSeed \/ PushedRest
      PROVE  /\ LastGraph' = LastGraph /\ LastStore' = LastStore
             /\ pending'.nodes \subseteq pending.nodes \cup NodesIn(LastGraph)
             /\ pending'.flushAll = pending.flushAll
  <2>1. LastGraph' = LastGraph /\ LastStore' = LastStore
    BY <1>4, Pushed DEF LastGraph, LastStore, PushedSeed, PushedRest
  <2>2. pending'.nodes \subseteq pending.nodes \cup NodesIn(LastGraph)
    BY <1>4 DEF Holds, PushedSeed, PushedRest
  <2>3. pending'.flushAll = pending.flushAll
    BY <1>4 DEF Holds, PushedSeed, PushedRest
  <2>. QED  BY <2>1, <2>2, <2>3
<1>5. ASSUME PushedSweep
      PROVE  /\ LastGraph' = LastGraph /\ LastStore' = LastStore
             /\ pending'.nodes = pending.nodes /\ pending'.flushAll
  <2>1. LastGraph' = LastGraph /\ LastStore' = LastStore
    BY <1>5, Pushed DEF LastGraph, LastStore, PushedSweep
  <2>. QED  BY <1>5, <2>1 DEF Holds, PushedSweep
<1>. QED  BY <1>1, <1>2, <1>3, <1>4, <1>5

(* A command is in the worker's hands only from its take to its application. *)
LEMMA StageStep == TypeOK /\ StageInv /\ [CacheNext]_cacheVars => StageInv'
<1>. SUFFICES ASSUME TypeOK, StageInv, [CacheNext]_cacheVars PROVE StageInv'
  OBVIOUS
<1>. USE DEF StageInv
<1>1. ASSUME NEW posts, HostCall(posts) PROVE StageInv'
  BY <1>1, CallFrame
<1>2. CASE Command \/ (\E r \in Roots : OpenFile(r) \/ SaveTo(r)) \/ (\E d \in Documents : NewDocument(d))
  <2>1. \E posts : HostCall(posts)
    BY <1>2 DEF Command, Ask, OpenFile, SaveTo, NewDocument
  <2>. QED  BY <1>1, <2>1
<1>3. CASE HostStep \/ ExitShutdown \/ UNCHANGED cacheVars
  <2>1. UNCHANGED <<pc, intent>>
    BY <1>3, HostFrame DEF HostRequest, cacheVars, vars
  <2>. QED  BY <2>1
<1>4. CASE ShutdownWake \/ MailboxWake \/ CommitBatch \/ PlanRun \/ RunNextNode \/ Yield
  BY <1>4 DEF ShutdownWake, MailboxWake, CommitBatch, PlanRun, RunNextNode, Yield
<1>5. CASE SkipRun \/ RefuseRun \/ FinishRun \/ DrainAndEnd
  BY <1>5 DEF SkipRun, RefuseRun, FinishRun, DrainAndEnd, EndBatch, EndTask, EmptyIntent
<1>6. CASE BeginRun
  <2>1. /\ intent'.graph = intent.graph /\ intent'.store = intent.store
        /\ intent'.flushAll = intent.flushAll /\ pc = "execute"
    BY <1>6 DEF BeginRun, TypeOK, WorkerTypeOK, Intent
  <2>. QED  BY <2>1
<1>7. CASE TakeBatch
  <2>1. pc' = (IF IsEmpty(intent') THEN "poll" ELSE "commit")
    BY <1>7 DEF TakeBatch
  <2>. QED  BY <2>1 DEF IsEmpty
<1>8. CASE ApplyCommands
  BY <1>8 DEF ApplyCommands, TypeOK, WorkerTypeOK, Intent
<1>. QED  BY <1>2, <1>3, <1>4, <1>5, <1>6, <1>7, <1>8 DEF CacheNext, ApplyToDisk, RunNodeToDisk

(* The graphs and the stores stay of one document.                           *)
LEMMA HomeStep ==
    ASSUME TypeOK, HostInv, HomeInv, StageInv, CacheNext
    PROVE  HomeInv'
<1>. DEFINE Stays == /\ installed' = installed /\ store' = store
                     /\ NextGraph' = NextGraph /\ NextStore' = NextStore
                     /\ LastGraph' = LastGraph /\ LastStore' = LastStore
            Places == /\ AtHome(installed, store) /\ AtHome(NextGraph, NextStore)
                      /\ AtHome(LastGraph, LastStore)
<1>1. Stays => Places'
  BY Zenon DEF HomeInv, AtHome
<1>2. UNCHANGED <<open, root>> => root' \in Stores /\ (root' \in Roots => HomeOf[root'] = open')
  BY DEF HomeInv
<1>3. ASSUME BeginsCommand \/ BeginsSwap \/ BeginsSave, StagesStay PROVE HomeInv'
  <2>1. root' \in Stores /\ (root' \in Roots => HomeOf[root'] = open')
    BY <1>3, CacheAssumption DEF HomeInv, BeginsCommand, BeginsSwap, BeginsSave, OpenFile, NewDocument,
                                 SaveTo, Roots
  <2>. QED  BY <1>1, <1>3, <2>1 DEF StagesStay, HomeInv
<1>4. ASSUME StagesStay, UNCHANGED <<open, root>> PROVE HomeInv'
  BY <1>1, <1>2, <1>4 DEF StagesStay, HomeInv
<1>5. ASSUME MergeMessage, UNCHANGED <<open, root>> PROVE HomeInv'
  <2>1. AtHome(LastGraph', LastStore')
    <3>1. \/ PushedInstall \/ PushedClear \/ PushedStore \/ PushedSeed \/ PushedRest
          \/ PushedSweep
      BY <1>5, MergeKeepsTheCommand DEF HomeInv
    <3>2. CASE PushedInstall
      <4>1. PICK p \in OpenPrograms : LastGraph' = p /\ LastStore' = LastStore /\ StoreIsSet
        BY <1>5, <3>2, PushedLast
      <4>2. LastStore \in Roots => LastStore = root
        BY <4>1, StoreAssumption DEF StoreIsSet, Roots
      <4>. QED  BY <4>1, <4>2 DEF AtHome, HomeInv, OpenPrograms
    <3>3. CASE PushedClear
      BY <1>5, <3>3, PushedLast, ProgramAssumption DEF AtHome
    <3>4. CASE PushedStore
      BY <1>5, <3>4, PushedLast DEF AtHome, GraphIsOpen, HomeInv
    <3>5. CASE PushedSeed \/ PushedRest \/ PushedSweep
      <4>1. LastGraph' = LastGraph /\ LastStore' = LastStore
        BY <1>5, <3>5, PushedLast
      <4>. QED  BY <4>1 DEF HomeInv
    <3>. QED  BY <3>1, <3>2, <3>3, <3>4, <3>5
  <2>2. /\ installed' = installed /\ store' = store
        /\ NextGraph' = NextGraph /\ NextStore' = NextStore
    BY <1>5, MergeFrame
  <2>3. Places'
    BY Zenon, <2>1, <2>2 DEF HomeInv, AtHome
  <2>. QED  BY <1>2, <1>5, <2>3 DEF HomeInv
<1>6. ASSUME BatchTaken \/ BatchApplied, UNCHANGED <<open, root>> PROVE HomeInv'
  <2>1. Places'
    BY <1>6 DEF BatchTaken, BatchApplied, HomeInv, AtHome
  <2>. QED  BY <1>2, <1>6, <2>1 DEF HomeInv
<1>. HIDE DEF Stays, Places
<1>. QED  BY <1>3, <1>4, <1>5, <1>6, CacheSteps DEF hostCacheVars

(* A batch names nodes of the program it will run in.                        *)
LEMMA SeedsStep ==
    ASSUME TypeOK, HostInv, HomeInv, StageInv, SeedsInv, CacheNext
    PROVE  SeedsInv'
<1>1. ASSUME StagesStay PROVE SeedsInv'
  BY <1>1 DEF StagesStay, SeedsInv
<1>2. ASSUME MergeMessage, UNCHANGED <<open, root>> PROVE SeedsInv'
  <2>1. intent' = intent /\ NextGraph' = NextGraph
    BY <1>2, MergeFrame
  <2>2. \/ PushedInstall \/ PushedClear \/ PushedStore \/ PushedSeed \/ PushedRest
        \/ PushedSweep
    BY <1>2, MergeKeepsTheCommand DEF HomeInv
  <2>3. pending'.nodes \subseteq NodesIn(LastGraph')
    <3>1. CASE PushedInstall
      BY <1>2, <3>1, PushedLast
    <3>2. CASE PushedClear
      BY <1>2, <3>2, PushedLast
    <3>3. CASE PushedStore \/ PushedSeed \/ PushedRest \/ PushedSweep
      <4>1. LastGraph' = LastGraph /\ pending'.nodes \subseteq pending.nodes \cup NodesIn(LastGraph)
        BY <1>2, <3>3, PushedLast
      <4>. QED  BY <4>1 DEF SeedsInv
    <3>. QED  BY <2>2, <3>1, <3>2, <3>3
  <2>. QED  BY <2>1, <2>3 DEF SeedsInv
<1>3. ASSUME BatchTaken \/ BatchApplied PROVE SeedsInv'
  BY <1>3 DEF BatchTaken, BatchApplied, SeedsInv
<1>. QED  BY <1>1, <1>2, <1>3, CacheSteps DEF hostCacheVars

(* A sweep still to come is not lost as its post begins.                     *)
LEMMA LockKeepsTheSweep == TypeOK /\ PlaceInv /\ LockMailbox /\ ~closed => SweepStays
<1>. SUFFICES ASSUME TypeOK, PlaceInv, LockMailbox, ~closed, SweepLeft PROVE SweepLeft'
  BY DEF SweepStays
<1>1. /\ script # <<>> /\ script \in Seq(Seq(Message)) /\ post = <<>>
      /\ post' = Head(script) /\ script' = Tail(script)
  BY DEF TypeOK, HostTypeOK, PlaceInv, LockMailbox
<1>2. script[Len(script)] = Sweep
  BY <1>1 DEF SweepLeft, Sweep
<1>3. CASE Len(script) = 1
  BY <1>1, <1>2, <1>3 DEF SweepLeft
<1>4. CASE Len(script) # 1
  <2>1. Len(script) \in Nat /\ Len(script) >= 2
    <3>1. script # <<>> /\ script \in Seq(Seq(Message))
      BY <1>1
    <3>2. Len(script) \in Nat /\ Len(script) # 0
      BY <3>1
    <3>3. \A k \in Nat : k # 0 /\ k # 1 => k >= 2
      OBVIOUS
    <3>. QED  BY Zenon, <1>4, <3>2, <3>3
  <2>2. /\ Len(Tail(script)) = Len(script) - 1 /\ Tail(script) # <<>>
        /\ \A k \in 1..Len(script) - 1 : Tail(script)[k] = script[k + 1]
    <3>1. script \in Seq(Seq(Message)) /\ Len(script) \in Nat /\ Len(script) >= 2
      BY <1>1, <2>1
    <3>2. Len(Tail(script)) = Len(script) - 1
      BY <3>1
    <3>3. Tail(script) # <<>>
      <4>1. Len(Tail(script)) # 0
        <5>1. \A k \in Nat : k >= 2 => k - 1 # 0
          OBVIOUS
        <5>. QED  BY Zenon, <3>1, <3>2, <5>1
      <4>2. Len(<<>>) = 0
        OBVIOUS
      <4>. QED  BY Zenon, <4>1, <4>2
    <3>4. \A k \in 1..Len(script) - 1 : Tail(script)[k] = script[k + 1]
      BY <3>1
    <3>. QED  BY <3>2, <3>3, <3>4
  <2>3. Tail(script)[Len(Tail(script))] = script[Len(script)]
    BY <2>1, <2>2
  <2>4. script' # <<>> /\ script'[Len(script')] = script[Len(script)]
    BY Zenon, <1>1, <2>2, <2>3
  <2>. QED  BY <1>2, <2>4 DEF SweepLeft
<1>. QED  BY <1>3, <1>4

(* What a batch applied leaves owed.                                         *)
LEMMA ApplySettles ==
    ApplyToDisk => /\ owed' \subseteq owed
                   /\ store' \in Roots /\ intent.flushAll => owed' = {}
                   /\ resident' \subseteq resident /\ owed' \subseteq resident'
BY DEF ApplyToDisk, Owing

(* A run under a root adds nothing to what is owed.                          *)
LEMMA RunSettles ==
    RunNodeToDisk => /\ store' = store /\ installed' = installed
                     /\ store \in Roots => owed' \subseteq owed
BY DEF RunNodeToDisk, RunNextNode, Compute, Serve, Load, Owing, diskVars

(* A store attached while values are owed has its sweep to come.             *)
LEMMA SweepStep ==
    ASSUME TypeOK, HostInv, HomeInv, StageInv, SweepInv, CacheNext
    PROVE  SweepInv'
<1>. USE DEF SweepInv
<1>1. ASSUME StagesStay, owed' = owed, SweepStays PROVE SweepInv'
  BY <1>1 DEF StagesStay, SweepStays
<1>2. ASSUME BeginsCommand \/ BeginsSwap \/ BeginsSave PROVE SweepStays
  <2>1. hostPc = "idle"
    BY <1>2 DEF BeginsCommand, BeginsSwap, BeginsSave, OpenFile, NewDocument, SaveTo, HostCall
  <2>. QED  BY <2>1, IdleHost DEF SweepStays, SweepLeft, Sweep
<1>3. ASSUME MergeMessage, UNCHANGED <<open, root>>, owed' = owed PROVE SweepInv'
  <2>1. /\ intent' = intent /\ store' = store /\ NextStore' = NextStore /\ script' = script
    BY <1>3, MergeFrame DEF MergeMessage
  <2>2. \/ /\ PushedInstall \/ PushedClear \/ PushedStore \/ PushedSeed \/ PushedRest
           /\ SweepStays
        \/ PushedSweep
    BY <1>3, MergeKeepsTheCommand DEF HomeInv
  <2>3. CASE PushedSweep
    <3>1. pending'.flushAll
      BY <1>3, <2>3, PushedLast
    <3>. QED  BY <3>1
  <2>4. CASE PushedStore /\ SweepStays
    <3>1. LastStore' = root /\ pending'.flushAll = pending.flushAll
      BY <1>3, <2>4, PushedLast
    <3>2. RootGained => SweepLeft'
      <4>1. << Sweep >> # <<>> /\ << Sweep >>[Len(<< Sweep >>)] = Sweep
        OBVIOUS
      <4>2. RootGained => script' = << Sweep >>
        BY <2>1, <2>4 DEF PushedStore
      <4>3. Sweep' = Sweep
        BY DEF Sweep
      <4>. QED  BY Zenon, <4>1, <4>2, <4>3 DEF SweepLeft
    <3>. QED  BY <1>3, <2>1, <2>4, <3>1, <3>2 DEF SweepStays, RootGained
  <2>5. CASE (PushedInstall \/ PushedClear \/ PushedSeed \/ PushedRest) /\ SweepStays
    <3>1. LastStore' = LastStore /\ pending'.flushAll = pending.flushAll
      BY <1>3, <2>5, PushedLast
    <3>. QED  BY <1>3, <2>1, <2>5, <3>1 DEF SweepStays
  <2>. QED  BY <2>2, <2>3, <2>4, <2>5
<1>4. ASSUME BatchTaken, UNCHANGED <<post, script, owed>> PROVE SweepInv'
  BY <1>4 DEF BatchTaken, SweepLeft
<1>5. ASSUME ApplyToDisk, BatchApplied, UNCHANGED <<post, script>> PROVE SweepInv'
  <2>1. SweepLeft' <=> SweepLeft
    BY <1>5 DEF SweepLeft
  <2>2. /\ store' = NextStore /\ NextStore' = NextStore /\ LastStore' = LastStore
        /\ pending' = pending
    BY <1>5 DEF BatchApplied
  <2>3. owed' \subseteq owed /\ (store' \in Roots /\ intent.flushAll => owed' = {})
    BY <1>5, ApplySettles
  <2>. QED  BY <2>1, <2>2, <2>3
<1>6. ASSUME RunNodeToDisk, StagesStay, UNCHANGED <<post, script>> PROVE SweepInv'
  <2>1. store \in Roots => owed' \subseteq owed
    BY <1>6, RunSettles
  <2>. QED  BY <1>6, <2>1 DEF StagesStay, SweepLeft
<1>7. ASSUME UNCHANGED <<post, script>> PROVE SweepStays
  BY <1>7 DEF SweepStays, SweepLeft
<1>. QED  BY <1>1, <1>2, <1>3, <1>4, <1>5, <1>6, <1>7, CacheSteps, LockKeepsTheSweep
          DEF hostCacheVars, diskVars, HostInv

(* Blobs written for a program go where its document's do.                   *)
LEMMA WrittenAtHome ==
    ASSUME NEW g, NEW s, AtHome(g, s), NEW nodes, nodes \subseteq NodesIn(g)
    PROVE  \A b \in Written(s, nodes) : \E p \in Programs :
              DocumentOf[p] = HomeOf[b[1]] /\ b[2] \in NodesOf[p]
BY DEF AtHome, Written, NodesIn

(* What is on disk, and what is owed to it, is the installed program's.      *)
LEMMA DiskStep ==
    ASSUME TypeOK, HomeInv, StageInv, DiskInv, CacheNext
    PROVE  DiskInv'
<1>1. ASSUME UNCHANGED <<installed, diskVars>> PROVE DiskInv'
  BY <1>1 DEF DiskInv, BlobsStayHome, diskVars
<1>2. ASSUME ApplyToDisk, BatchApplied PROVE DiskInv'
  <2>. DEFINE evicted == UNION {Readers[n] : n \in intent.evict \cap NodesIn(installed')}
                           \cap NodesIn(installed')
              held == IF intent.graph = None THEN resident ELSE resident \cap NodesIn(installed')
              kept == held \ evicted
              flushed == IF intent.flushAll THEN kept ELSE kept \cap intent.flush
  <2>1. /\ resident' = kept /\ owed' \subseteq kept
        /\ blobs' = (blobs \ Written(store', evicted)) \cup Written(store', flushed)
    BY <1>2 DEF ApplyToDisk
  <2>2. installed' = NextGraph /\ store' = NextStore
    BY <1>2 DEF BatchApplied
  <2>3. held \subseteq NodesIn(installed')
    BY <2>2 DEF DiskInv, NextGraph
  <2>4. flushed \subseteq kept /\ kept \subseteq NodesIn(installed')
    BY <2>3
  <2>. HIDE DEF flushed, kept, evicted, held
  <2>5. AtHome(installed', store')
    BY <2>2 DEF HomeInv
  <2>6. \A b \in Written(store', flushed) : \E p \in Programs :
           DocumentOf[p] = HomeOf[b[1]] /\ b[2] \in NodesOf[p]
    BY <2>4, <2>5, WrittenAtHome
  <2>. QED  BY <2>1, <2>4, <2>6 DEF DiskInv, BlobsStayHome
<1>3. ASSUME RunNodeToDisk PROVE DiskInv'
  <2>1. installed' = installed /\ store' = store
    BY <1>3, RunSettles
  <2>2. CASE UNCHANGED diskVars
    BY <1>1, <2>1, <2>2
  <2>3. ASSUME NEW n \in Backed \cap NodesIn(installed), Compute(n) \/ Serve(n) \/ Load(n)
        PROVE  DiskInv'
    <3>1. \A b \in Written(store, {n}) : \E p \in Programs :
             DocumentOf[p] = HomeOf[b[1]] /\ b[2] \in NodesOf[p]
      BY <2>3, WrittenAtHome DEF HomeInv
    <3>2. blobs' \subseteq blobs \cup Written(store, {n})
      BY <2>3 DEF Compute, Serve, Load
    <3>3. resident' \subseteq NodesIn(installed') /\ owed' \subseteq resident'
      BY <2>1, <2>3 DEF Compute, Serve, Load, Owing, DiskInv
    <3>. QED  BY <3>1, <3>2, <3>3 DEF DiskInv, BlobsStayHome
  <2>. QED  BY <1>3, <2>2, <2>3 DEF RunNodeToDisk
<1>. QED  BY <1>1, <1>2, <1>3, MergeFrame, CacheSteps DEF StagesStay, BatchTaken

-----------------------------------------------------------------------------
(* The invariant of the composition: the worker's, and the cache's beside it. *)

CacheIInv == IInv /\ CacheInv

(* The editor starts on an unsaved document, the worker with no store.       *)
LEMMA CacheInitInv == CacheInit => CacheIInv
<1>. SUFFICES ASSUME CacheInit PROVE CacheIInv
  OBVIOUS
<1>1. IInv
  BY InitInv DEF CacheInit
<1>2. /\ hostPc = "idle" /\ script = <<>> /\ post = <<>> /\ installed = Empty /\ store = None
      /\ pending = EmptyIntent /\ intent = EmptyIntent
      /\ root = Memory /\ resident = {} /\ owed = {} /\ blobs = {}
  BY DEF CacheInit, Init
<1>3. /\ EmptyIntent.graph = None /\ EmptyIntent.store = None /\ ~EmptyIntent.flushAll
      /\ EmptyIntent.nodes = {}
  BY DEF EmptyIntent
<1>4. NextGraph = Empty /\ LastGraph = Empty /\ NextStore = None /\ LastStore = None
  BY <1>2, <1>3 DEF NextGraph, LastGraph, NextStore, LastStore
<1>5. NothingLeft
  BY <1>2, <1>4, ProgramAssumption DEF NothingLeft, StoreIsSet, GraphIsOpen
<1>6. HostInv
  BY <1>2, <1>5 DEF HostInv, CommandInv, PlaceInv
<1>7. HomeInv
  BY <1>2, <1>4, ProgramAssumption, CacheAssumption DEF HomeInv, AtHome, Roots
<1>8. StageInv /\ SeedsInv
  BY <1>2, <1>3 DEF StageInv, SeedsInv
<1>9. SweepInv
  BY <1>2, <1>4, StoreAssumption DEF SweepInv, Roots
<1>10. DiskInv
  BY <1>2 DEF DiskInv, BlobsStayHome
<1>. QED  BY <1>1, <1>6, <1>7, <1>8, <1>9, <1>10 DEF CacheIInv, CacheInv

(* A command's posts stay one of the shapes the editor posts.                *)
LEMMA HostStepKeepsTheCommand ==
    ASSUME TypeOK, HostInv, HomeInv, StageInv, CacheNext
    PROVE  HostInv'
<1>1. PlaceInv'
  BY PlaceStep DEF HostInv
<1>. SUFFICES CommandInv'
  BY <1>1 DEF HostInv
<1>2. ASSUME LastGraph' = LastGraph, LastStore' = LastStore, UNCHANGED <<post, script, open, root>>
      PROVE  CommandInv'
  BY <1>2, CommandStays DEF HostInv
<1>3. CASE BeginsCommand
  BY <1>3, CallBeginsTheCommand
<1>4. CASE BeginsSwap
  BY <1>4, CallBeginsTheSwap DEF HomeInv, CommandInv
<1>5. CASE BeginsSave
  BY <1>5, CallBeginsTheSave DEF HomeInv, CommandInv
<1>6. CASE LockMailbox /\ ~closed /\ UNCHANGED hostCacheVars
  BY <1>6, LockKeepsTheCommand DEF hostCacheVars
<1>7. CASE MergeMessage /\ UNCHANGED hostCacheVars
  BY <1>7, MergeKeepsTheCommand DEF hostCacheVars, HomeInv
<1>8. CASE /\ StagesStay \/ BatchTaken \/ BatchApplied
           /\ UNCHANGED <<post, script, hostCacheVars>>
  <2>1. LastGraph' = LastGraph /\ LastStore' = LastStore
    BY <1>8 DEF StagesStay, BatchTaken, BatchApplied
  <2>. QED  BY <1>2, <1>8, <2>1 DEF hostCacheVars
<1>. QED  BY <1>3, <1>4, <1>5, <1>6, <1>7, <1>8, CacheSteps

(* A state nothing happened in.                                              *)
LEMMA CacheStutters == CacheInv /\ UNCHANGED cacheVars => CacheInv'
<1>. SUFFICES ASSUME CacheInv, UNCHANGED cacheVars PROVE CacheInv'
  OBVIOUS
<1>1. UNCHANGED <<open, root, post, script, hostPc, pc, intent, pending, installed, store,
                  resident, owed, blobs>>
  BY DEF cacheVars, vars, hostCacheVars, diskVars
<1>2. /\ NextGraph' = NextGraph /\ NextStore' = NextStore
      /\ LastGraph' = LastGraph /\ LastStore' = LastStore
  BY <1>1 DEF NextGraph, NextStore, LastGraph, LastStore
<1>3. HostInv'
  BY <1>1, <1>2, CommandStays DEF CacheInv, HostInv, PlaceInv
<1>4. HomeInv' /\ StageInv' /\ SeedsInv'
  BY <1>1, <1>2 DEF CacheInv, HomeInv, AtHome, StageInv, SeedsInv
<1>5. SweepInv'
  BY <1>1, <1>2 DEF CacheInv, SweepInv, SweepLeft
<1>6. DiskInv'
  BY <1>1 DEF CacheInv, DiskInv, BlobsStayHome
<1>. QED  BY <1>3, <1>4, <1>5, <1>6 DEF CacheInv

(* Every step of the composition keeps it.                                   *)
LEMMA CacheNextInv == CacheIInv /\ [CacheNext]_cacheVars => CacheIInv'
<1>. SUFFICES ASSUME CacheIInv, [CacheNext]_cacheVars PROVE CacheIInv'
  OBVIOUS
<1>1. IInv /\ TypeOK /\ CacheInv /\ HostInv /\ HomeInv /\ StageInv /\ SeedsInv /\ SweepInv /\ DiskInv
  BY DEF CacheIInv, CacheInv, IInv
<1>2. IInv'
  BY <1>1, CacheKeepsTheWorker DEF HomeInv
<1>3. CASE CacheNext
  <2>1. HostInv'
    BY <1>1, <1>3, HostStepKeepsTheCommand
  <2>2. HomeInv'
    BY <1>1, <1>3, HomeStep
  <2>3. StageInv'
    BY <1>1, StageStep
  <2>4. SeedsInv'
    BY <1>1, <1>3, SeedsStep
  <2>5. SweepInv'
    BY <1>1, <1>3, SweepStep
  <2>6. DiskInv'
    BY <1>1, <1>3, DiskStep
  <2>. QED  BY <1>2, <2>1, <2>2, <2>3, <2>4, <2>5, <2>6 DEF CacheIInv, CacheInv
<1>4. CASE UNCHANGED cacheVars
  BY <1>1, <1>2, <1>4, CacheStutters DEF CacheIInv
<1>. QED  BY <1>3, <1>4

(* The conjunction holds in every state of the composition.                  *)
THEOREM CacheInvariance == CacheSpec => []CacheIInv
<1>. QED  BY CacheInitInv, CacheNextInv, PTL DEF CacheSpec

(* Beside a document's store and under the editor's commands the worker's    *)
(* own guarantees hold, whatever it was asked before.                        *)
THEOREM WorkerHoldsInTheEditor ==
    CacheSpec => [](/\ TypeOK /\ CancelTargetsItsBatch /\ NoLostWake /\ ActivityIsTruthful
                    /\ GateClosedOnlyInRuns)
<1>1. CacheIInv => /\ TypeOK /\ CancelTargetsItsBatch /\ NoLostWake /\ ActivityIsTruthful
                   /\ GateClosedOnlyInRuns
  BY DEF CacheIInv, IInv, CancelInv, CancelTargetsItsBatch, MailInv, NoLostWake, ActivityInv,
         ActivityIsTruthful, GateInv, Running, Ended
<1>. QED  BY CacheInvariance, <1>1, PTL

(* Whatever commands the editor gives, and however the worker's wakes part   *)
(* or join their posts, a node named to run is in the program that runs: the *)
(* batch that names it carries that program's install, or comes after it     *)
(* (BatchIntent::push and the posts of RuntimeHost::run_node).               *)
THEOREM NamedNodesRunInTheirProgram == CacheSpec => []NamedNodesAreInstalled
<1>1. CacheIInv => NamedNodesAreInstalled
  BY DEF CacheIInv, CacheInv, StageInv, SeedsInv, NextGraph, NamedNodesAreInstalled, SeedsFound
<1>. QED  BY CacheInvariance, <1>1, PTL

(* No command leaves a blob of one document in the cache root of another:    *)
(* opening a document clears the last one's program before its store is      *)
(* attached, and a save moves a store only beside its own document           *)
(* (RuntimeHost::adopt_document, set_document_cache).                        *)
THEOREM BlobsNeverCross == CacheSpec => []BlobsStayHome
<1>1. CacheIInv => BlobsStayHome
  BY DEF CacheIInv, CacheInv, DiskInv
<1>. QED  BY CacheInvariance, <1>1, PTL

(* Once the posts of a save are taken and applied, nothing resident owes its *)
(* blob: the sweep set_document_cache posts after a first store is never     *)
(* lost, in the batch of its store or in one after.                          *)
THEOREM FirstSaveKeepsTheValues == CacheSpec => []SavedValuesAreKept
<1>1. ASSUME CacheIInv, Quiet
      PROVE  store \in {root} \cup (IF root = Memory THEN {None} ELSE {}) /\ (root \in Roots => owed = {})
  <2>1. NothingLeft /\ post = <<>> /\ script = <<>>
    BY <1>1, IdleHost DEF CacheIInv, CacheInv, Quiet
  <2>2. LastStore = store /\ ~pending.flushAll /\ ~intent.flushAll
    BY <1>1 DEF CacheIInv, CacheInv, StageInv, Quiet, IsEmpty, LastStore, NextStore
  <2>3. ~SweepLeft
    BY <2>1 DEF SweepLeft, Sweep
  <2>4. StoreIsSet
    BY <2>1 DEF NothingLeft
  <2>5. root \in Roots => owed = {}
    BY <1>1, <2>2, <2>3, <2>4 DEF StoreIsSet, Roots, CacheIInv, CacheInv, SweepInv
  <2>. QED  BY <2>2, <2>4, <2>5 DEF StoreIsSet
<1>2. CacheIInv => SavedValuesAreKept
  BY <1>1 DEF SavedValuesAreKept
<1>. QED  BY CacheInvariance, <1>2, PTL
=============================================================================
