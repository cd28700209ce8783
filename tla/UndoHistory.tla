---------------------------- MODULE UndoHistory ----------------------------
(***************************************************************************)
(* The packed undo history (src/darkroom/src/core/edit/undo_history) as    *)
(* one record: a buffer, the ranges of its entries, the cursor between the *)
(* applied and the undone ones, and the entry of the gesture still held.   *)
(* One cell of the buffer is one packed step, so a range decodes to its    *)
(* entry only if it is exactly where the entry was put.                    *)
(***************************************************************************)
EXTENDS UndoSteps

CONSTANT MaxBytes     \* the budget of live cells, UNDO_HISTORY_BYTES

ASSUME BudgetAssumption == MaxBytes \in Nat \ {0}

NewHistory ==
    [bytes |-> <<>>, head |-> 0, entries |-> <<>>, cursor |-> 0, open |-> {}]

Decode(h, i) == SubSeq(h.bytes, h.entries[i].start + 1, h.entries[i].end)
LiveBytes(h) == Len(h.bytes) - h.head

\* The held gesture's steps, none when no gesture is open.
OpenSteps(h) == IF h.open = {} THEN <<>> ELSE (CHOOSE g \in h.open : TRUE).steps
IsOpenFor(h, gesture) == \E g \in h.open : g.id = gesture
Retain(kept, step) == IF IsNoop(step) THEN kept ELSE Append(kept, step)
Worthwhile(steps) == FoldLeft(Retain, <<>>, steps)

CanRedo(h) == h.cursor < Len(h.entries)

-----------------------------------------------------------------------------
(***************************************************************************)
(* trim_to_limit: the oldest entries go until what is live fits, the last  *)
(* one stays, and a dead prefix longer than the budget is drained.         *)
(***************************************************************************)
HeadAfter(h, dropped) ==
    IF dropped = 0 THEN h.head ELSE h.entries[dropped].end
Fits(h, dropped) == Len(h.bytes) - HeadAfter(h, dropped) <= MaxBytes
Dropped(h) ==
    CHOOSE k \in 0..(Len(h.entries) - 1) :
        /\ Fits(h, k) \/ k = Len(h.entries) - 1
        /\ \A j \in 0..(k - 1) : ~Fits(h, j)
EvictOldest(h, k) ==
    [h EXCEPT !.head = HeadAfter(h, k),
              !.entries = SubSeq(@, k + 1, Len(@)),
              !.cursor = @ - k]
Reclaim(h) ==
    IF h.head <= MaxBytes THEN h
    ELSE [h EXCEPT !.bytes = SubSeq(@, h.head + 1, Len(@)),
                   !.entries = [i \in DOMAIN @ |->
                                  [start |-> @[i].start - h.head,
                                   end   |-> @[i].end - h.head]],
                   !.head = 0]
TrimToLimit(h) == Reclaim(EvictOldest(h, Dropped(h)))

Packed(h, steps) ==
    [h EXCEPT !.bytes = @ \o steps,
              !.entries = Append(@, [start |-> Len(h.bytes),
                                     end   |-> Len(h.bytes) + Len(steps)]),
              !.cursor = Len(h.entries) + 1]
Pack(h, steps) == TrimToLimit(Packed(h, steps))

\* The gesture is over: what it did becomes an entry, unless that is nothing.
Closed(h) == [h EXCEPT !.open = {}]
Seal(h) ==
    IF Worthwhile(OpenSteps(h)) = <<>> THEN Closed(h)
    ELSE Pack(Closed(h), Worthwhile(OpenSteps(h)))

\* Mutant: the undone ranges go and their bytes stay.
CutBackRanges(h) == [h EXCEPT !.entries = SubSeq(@, 1, h.cursor)]

\* A fresh edit makes the undone tail unreachable.
CutBack(h) ==
    [h EXCEPT !.bytes = SubSeq(@, 1, h.entries[h.cursor + 1].start),
              !.entries = SubSeq(@, 1, h.cursor)]
DiscardRedo(h) ==
    IF ~CanRedo(h) THEN h
    ELSE IF h.cursor = 0
    THEN [CutBack(h) EXCEPT !.bytes = <<>>, !.head = 0]
    ELSE CutBack(h)

-----------------------------------------------------------------------------
(***************************************************************************)
(* push, withdraw, undo and redo.  The last three hand their caller the    *)
(* steps they replayed, to fold the signals off; a gesture is a set of at  *)
(* most one id.                                                            *)
(***************************************************************************)
FoldStep(steps, step) ==
    IF steps # <<>> /\ Absorbs(Last(steps), step)
    THEN Append(Front(steps), Absorb(Last(steps), step))
    ELSE Append(steps, step)
FoldFrames(steps, more) == FoldLeft(FoldStep, steps, more)

Opened(h, id) ==
    IF IsOpenFor(h, id) THEN h
    ELSE [DiscardRedo(Seal(h)) EXCEPT !.open = {[id |-> id, steps |-> <<>>]}]
Joined(h, id, steps) ==
    [h EXCEPT !.open = {[id |-> id, steps |-> FoldFrames(OpenSteps(h), steps)]}]
Push(h, steps, gesture) ==
    IF steps = <<>> THEN h
    ELSE IF gesture = {} THEN Pack(DiscardRedo(Seal(h)), steps)
    ELSE LET id == CHOOSE g \in gesture : TRUE
         IN  Joined(Opened(h, id), id, steps)

Withdrawn(h, doc) ==
    [history |-> Closed(h), doc |-> Revert(OpenSteps(h), doc),
     replayed |-> OpenSteps(h)]
Untouched(h, doc) == [history |-> h, doc |-> doc, replayed |-> <<>>]
Withdraw(h, doc, gesture) ==
    IF IsOpenFor(h, gesture) THEN Withdrawn(h, doc) ELSE Untouched(h, doc)

UndoEntry(h, doc) ==
    [history |-> [h EXCEPT !.cursor = @ - 1],
     doc |-> Revert(Decode(h, h.cursor), doc), replayed |-> Decode(h, h.cursor)]
Undo(h, doc) ==
    LET sealed == Seal(h)
    IN  IF sealed.cursor = 0 THEN Untouched(sealed, doc)
        ELSE UndoEntry(sealed, doc)
RedoEntry(h, doc) ==
    [history |-> [h EXCEPT !.cursor = @ + 1],
     doc |-> Apply(Decode(h, h.cursor + 1), doc),
     replayed |-> Decode(h, h.cursor + 1)]
Redo(h, doc) ==
    LET sealed == Seal(h)
    IN  IF ~CanRedo(sealed) THEN Untouched(sealed, doc)
        ELSE RedoEntry(sealed, doc)

-----------------------------------------------------------------------------
(***************************************************************************)
(* What the ranges, the head and the cursor owe one another: the entries   *)
(* tile the live part of the buffer, nothing is undone while a gesture is  *)
(* open, and the budget is kept but for a lone entry over it.              *)
(***************************************************************************)
EntriesTile(h) ==
    /\ h.head \in Nat
    /\ \A i \in DOMAIN h.entries :
          /\ h.entries[i].start \in Nat /\ h.entries[i].end \in Nat
          /\ h.entries[i].start < h.entries[i].end
          /\ h.entries[i].start = HeadAfter(h, i - 1)
    /\ Len(h.bytes) = HeadAfter(h, Len(h.entries))
HeadMarksTheOldest(h) == h.entries = <<>> => h.head = 0
CursorIsWithin(h) == h.cursor \in 0..Len(h.entries)
NoTailWhileOpen(h) == h.open # {} => h.cursor = Len(h.entries)
BudgetIsKept(h) ==
    /\ Len(h.entries) > 1 => LiveBytes(h) <= MaxBytes
    /\ h.head <= MaxBytes
HistoryIsSound(h) ==
    /\ EntriesTile(h)
    /\ HeadMarksTheOldest(h)
    /\ CursorIsWithin(h)
    /\ NoTailWhileOpen(h)
    /\ BudgetIsKept(h)

=============================================================================
