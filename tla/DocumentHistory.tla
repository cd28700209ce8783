--------------------------- MODULE DocumentHistory ---------------------------
(***************************************************************************)
(* What undo promises: the document as it was before each change, oldest   *)
(* first, the documents an undo left behind, nearest first, and whether    *)
(* the last change is a gesture still held.  How a change is recorded or   *)
(* replayed is not said; that an undo gives back the very document the     *)
(* change found, and a redo the one the undo left, is.  The oldest may be  *)
(* forgotten whenever a change is recorded, the newest never is.           *)
(***************************************************************************)
EXTENDS Sequences, Naturals

VARIABLES
    doc, past, future, held,
    openable      \* the documents that can be opened in place of this one

Before(documents) == SubSeq(documents, 1, Len(documents) - 1)
Newest(documents) == documents[Len(documents)]

\* What is left of a past that just grew: its newest part, never nothing.
Kept(documents) ==
    {SubSeq(documents, k, Len(documents)) : k \in 1..Len(documents)}

\* A held gesture that is over becomes a change like the others, or, when it
\* left the document as it found it, none.
Settled ==
    IF ~held THEN {past}
    ELSE Kept(past) \cup (IF Newest(past) = doc THEN {Before(past)} ELSE {})

Init == past = <<>> /\ future = <<>> /\ held = FALSE

\* A change, or a gesture that starts with one.
Edit ==
    /\ \E base \in Settled : past' \in Kept(Append(base, doc))
    /\ future' = <<>>
\* Another frame of the held gesture.
Extend == held /\ UNCHANGED <<past, future, held>>
\* The held gesture is taken back whole.
Withdraw ==
    /\ held
    /\ doc' = Newest(past) /\ past' = Before(past)
    /\ held' = FALSE
    /\ UNCHANGED future
\* A chord with nothing to replay still ends the held gesture.
Settle ==
    /\ held
    /\ past' \in Settled
    /\ held' = FALSE
    /\ UNCHANGED <<doc, future>>
Undo ==
    /\ \E base \in Settled :
          /\ base # <<>>
          /\ doc' = Newest(base) /\ past' = Before(base)
    /\ future' = <<doc>> \o future
    /\ held' = FALSE
Redo ==
    /\ ~held /\ future # <<>>
    /\ doc' = Head(future) /\ past' = Append(past, doc)
    /\ future' = Tail(future)
    /\ UNCHANGED held
\* Another document opens.
Open == doc' \in openable /\ past' = <<>> /\ future' = <<>> /\ held' = FALSE

Next == Edit \/ Extend \/ Withdraw \/ Settle \/ Undo \/ Redo \/ Open
Spec == Init /\ [][Next]_<<doc, past, future, held>>

=============================================================================
