------------------------------- MODULE MCRunFeed -------------------------------
(* Instances of RunFeed for TLC: two documents that share a preview node. *)
EXTENDS RunFeed

CONSTANTS p1, p2, n1, n2

MCNodesOf   == (p1 :> {n1, n2}) @@ (p2 :> {n1})
MCEventsOf  == (p1 :> {}) @@ (p2 :> {})
MCDocuments == <<p1, p2>>
=============================================================================
