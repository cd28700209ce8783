----------------------------- MODULE PreviewStore -----------------------------
(***************************************************************************)
(* What a preview node shows (gui/state/preview_store): a value published  *)
(* to the editor is queued for the converter's thread, and what comes back *)
(* lands on a later frame, while the user evicts nodes, opens documents,   *)
(* edits this one and looks at an image at full resolution.                *)
(*                                                                         *)
(* A value is its ticket, and whether it is an image.  Textures, sizes and *)
(* formatting are left out.  The thread does not panic, nor the editor     *)
(* exit: either ends both.                                                 *)
(***************************************************************************)
EXTENDS Naturals, Sequences, FiniteSets

CONSTANTS
    Nodes,      \* preview nodes
    MaxTickets  \* bound: values published in a behaviour

ASSUME TicketsAssumption == MaxTickets \in Nat

VARIABLES
    \* PreviewStore
    entries,     \* what each node shows
    converting,  \* the publishes of each node still converting
    lastTicket,
    \* PreviewConverter
    queue,       \* Jobs
    job,         \* the job being converted, in a sequence of at most one
    results,     \* what is converted and not yet landed
    waking,      \* the thread has sent a result and is about to wake the host
    \* the editor's thread
    woken,       \* a frame was asked for
    frame,       \* "idle", "sync"
    drained,     \* nodes whose value this frame has still to publish
    \* history
    published,   \* each node's last publish
    voided,      \* the last ticket there was when a node's value was last dropped
    converted    \* each node's last card handed back

storeVars == <<entries, converting, lastTicket>>
threadVars == <<queue, job, results, waking>>
frameVars == <<woken, frame, drained>>
histVars == <<published, voided, converted>>
vars == <<storeVars, threadVars, frameVars, histVars>>

NoCard == [ticket |-> 0, shows |-> "nothing", raster |-> 0]
NoSpan == [oldest |-> 1, newest |-> 0]

Card(n, ticket, image) == [node |-> n, ticket |-> ticket, work |-> "card", image |-> image]
Full(n, ticket) == [node |-> n, ticket |-> ticket, work |-> "full", image |-> TRUE]

Init ==
    /\ entries = [n \in Nodes |-> NoCard]
    /\ converting = [n \in Nodes |-> NoSpan]
    /\ lastTicket = 0
    /\ queue = <<>> /\ job = <<>> /\ results = <<>> /\ waking = FALSE
    /\ woken = FALSE /\ frame = "idle" /\ drained = {}
    /\ published = [n \in Nodes |-> 0]
    /\ voided = [n \in Nodes |-> 0]
    /\ converted = [n \in Nodes |-> 0]

-----------------------------------------------------------------------------
(* The editor between frames *)

\* The value of each of nodes is dropped, and what converts of it voided.
Drop(nodes) ==
    /\ entries' = [n \in Nodes |-> IF n \in nodes THEN NoCard ELSE entries[n]]
    /\ converting' = [n \in Nodes |-> IF n \in nodes THEN NoSpan ELSE converting[n]]
    /\ voided' = [n \in Nodes |-> IF n \in nodes THEN lastTicket ELSE voided[n]]
    /\ UNCHANGED lastTicket

\* PreviewStore::remove, of an evicted node
Remove(n) ==
    /\ frame = "idle"
    /\ Drop({n})
    /\ UNCHANGED <<threadVars, frameVars, published, converted>>

\* PreviewStore::clear, as a document is opened or a run fails
Clear ==
    /\ frame = "idle"
    /\ Drop(Nodes)
    /\ UNCHANGED <<threadVars, frameVars, published, converted>>

\* A viewer asks for the image it found unasked.
ConvertFull(n) ==
    /\ frame = "idle" /\ entries[n].shows = "pending"
    /\ entries' = [entries EXCEPT ![n].shows = "converting"]
    /\ queue' = Append(queue, Full(n, entries[n].ticket))
    /\ UNCHANGED <<converting, lastTicket, job, results, waking, frameVars, histVars>>

-----------------------------------------------------------------------------
(* A frame: RunState::sync_previews *)

\* The sink's values, of nodes the program last acknowledged has.
BeginFrame ==
    /\ frame = "idle"
    /\ frame' = "sync" /\ woken' = FALSE
    /\ drained' \in SUBSET Nodes
    /\ lastTicket + Cardinality(drained') <= MaxTickets
    /\ UNCHANGED <<storeVars, threadVars, histVars>>

\* A card takes the place of the card of its node that waits.
Waits(n) == {i \in DOMAIN queue : queue[i].node = n /\ queue[i].work = "card"}

Send(card) ==
    queue' = IF Waits(card.node) = {} THEN Append(queue, card)
             ELSE [i \in DOMAIN queue |-> IF i \in Waits(card.node) THEN card ELSE queue[i]]

Publish(n, image) ==
    /\ frame = "sync" /\ n \in drained
    /\ drained' = drained \ {n}
    /\ lastTicket' = lastTicket + 1
    /\ converting' = [converting EXCEPT ![n] =
          [oldest |-> IF @ = NoSpan THEN lastTicket' ELSE @.oldest, newest |-> lastTicket']]
    /\ Send(Card(n, lastTicket', image))
    /\ published' = [published EXCEPT ![n] = lastTicket']
    /\ UNCHANGED <<entries, job, results, waking, woken, frame, voided, converted>>

Awaits(n, ticket) == ticket \in converting[n].oldest .. converting[n].newest

\* Mutant: a card lands whatever was dropped since it was published.
LandVoidedCard(card, registers) ==
    LET n == card.node
    IN  IF converting[n] = NoSpan
        THEN UNCHANGED <<entries, converting>>
        ELSE /\ converting' = [converting EXCEPT ![n] =
                    IF card.ticket = @.newest THEN NoSpan
                    ELSE [@ EXCEPT !.oldest = card.ticket + 1]]
             /\ entries' = [entries EXCEPT ![n] =
                    [ticket |-> card.ticket, raster |-> 0,
                     shows |-> IF card.image /\ registers THEN "pending" ELSE "message"]]

\* land_card; a raster the window does not register shows why.
LandCard(card, registers) ==
    LET n == card.node
    IN  IF ~Awaits(n, card.ticket)
        THEN UNCHANGED <<entries, converting>>
        ELSE /\ converting' = [converting EXCEPT ![n] =
                    IF card.ticket = @.newest THEN NoSpan
                    ELSE [@ EXCEPT !.oldest = card.ticket + 1]]
             /\ entries' = [entries EXCEPT ![n] =
                    [ticket |-> card.ticket, raster |-> 0,
                     shows |-> IF card.image /\ registers THEN "pending" ELSE "message"]]

IsImage(entry) == entry.shows \in {"pending", "converting", "ready", "failed"}

\* Mutant: a full raster goes to whatever image its node shows.
LandFullAnywhere(full, registers) ==
    /\ LET n == full.node
       IN  entries' = IF IsImage(entries[n])
                      THEN [entries EXCEPT
                              ![n].shows = IF registers THEN "ready" ELSE "failed",
                              ![n].raster = full.ticket]
                      ELSE entries
    /\ UNCHANGED converting

LandFull(full, registers) ==
    /\ LET n == full.node
       IN  entries' = IF IsImage(entries[n]) /\ entries[n].ticket = full.ticket
                      THEN [entries EXCEPT
                              ![n].shows = IF registers THEN "ready" ELSE "failed",
                              ![n].raster = full.ticket]
                      ELSE entries
    /\ UNCHANGED converting

Land ==
    /\ frame = "sync" /\ drained = {} /\ results # <<>>
    /\ LET result == Head(results)
       IN  /\ \E registers \in BOOLEAN :
                 IF result.work = "card" THEN LandCard(result, registers)
                 ELSE LandFull(result, registers)
           /\ converted' = IF result.work = "card"
                           THEN [converted EXCEPT ![result.node] = result.ticket]
                           ELSE converted
    /\ results' = Tail(results)
    /\ UNCHANGED <<lastTicket, queue, job, waking, frameVars, published, voided>>

\* PreviewStore::reconcile, once nothing is left to land.  Any preview node
\* may have left the document since, or come back with an undo.
EndFrame ==
    /\ frame = "sync" /\ drained = {} /\ results = <<>>
    /\ frame' = "idle"
    /\ \E held \in SUBSET Nodes : Drop(Nodes \ held)
    /\ UNCHANGED <<threadVars, woken, drained, published, converted>>

-----------------------------------------------------------------------------
(* The converter's thread *)

TakeJob ==
    /\ job = <<>> /\ ~waking /\ queue # <<>>
    /\ job' = <<Head(queue)>>
    /\ queue' = Tail(queue)
    /\ UNCHANGED <<storeVars, results, waking, frameVars, histVars>>

\* Mutant: the host is woken before it is sent the result.
SendResultAfterWake ==
    /\ job # <<>>
    /\ IF waking
       THEN results' = results \o job /\ job' = <<>> /\ waking' = FALSE /\ UNCHANGED woken
       ELSE woken' = TRUE /\ waking' = TRUE /\ UNCHANGED <<results, job>>
    /\ UNCHANGED <<storeVars, queue, frame, drained, histVars>>

SendResult ==
    /\ job # <<>>
    /\ results' = results \o job
    /\ job' = <<>>
    /\ waking' = TRUE
    /\ UNCHANGED <<storeVars, queue, frameVars, histVars>>

Wake ==
    /\ waking /\ job = <<>>
    /\ waking' = FALSE /\ woken' = TRUE
    /\ UNCHANGED <<storeVars, queue, job, results, frame, drained, histVars>>

Next ==
    \/ Clear \/ BeginFrame \/ Land \/ EndFrame
    \/ \E n \in Nodes :
          Remove(n) \/ ConvertFull(n) \/ \E image \in BOOLEAN : Publish(n, image)
    \/ TakeJob \/ SendResult \/ Wake

Spec == Init /\ [][Next]_vars

-----------------------------------------------------------------------------
(* The thread runs, a frame asked for is drawn, and one begun is ended;      *)
(* nothing else draws frames for certain.                                    *)
FairSpec ==
    /\ Spec
    /\ WF_vars(TakeJob) /\ WF_vars(SendResult) /\ WF_vars(Wake)
    /\ WF_vars(woken /\ BeginFrame)
    /\ WF_vars(\E n \in Nodes, image \in BOOLEAN : Publish(n, image))
    /\ WF_vars(Land) /\ WF_vars(EndFrame)

(* A node shows the last of its values that was converted, however many were *)
(* published since, unless it was dropped after that one was published; and  *)
(* once nothing of it converts, the last it published                        *)
(* (preview_store/mod.rs:351).                                               *)
CardsAreTruthful ==
    \A n \in Nodes :
        /\ entries[n].ticket = IF converted[n] > voided[n] THEN converted[n] ELSE 0
        /\ converting[n] = NoSpan /\ published[n] > voided[n] =>
              entries[n].ticket = published[n]

(* A full raster is shown by the image it was converted from, which waits    *)
(* for it: the debug_assert of land_full.                                    *)
RastersFindTheirImage ==
    /\ \A n \in Nodes : entries[n].raster \in {0, entries[n].ticket}
    /\ \A i \in DOMAIN results :
          LET full == results[i]
          IN  full.work = "full" /\ IsImage(entries[full.node])
                /\ entries[full.node].ticket = full.ticket =>
                     entries[full.node].shows = "converting"

(* What converts, a card or a full raster, lands or is dropped in the end:   *)
(* no wake of the thread is lost to a frame that was under way               *)
(* (preview_store/preview_converter.rs:110).                                 *)
ConversionsEnd ==
    \A n \in Nodes, ticket \in 1 .. MaxTickets :
        LET underway == \/ Awaits(n, ticket)
                        \/ entries[n].ticket = ticket /\ entries[n].shows = "converting"
        IN  underway ~> ~underway
=============================================================================
