------------------------------- MODULE MCDriver -------------------------------
(* Instances of Driver for TLC: one document. *)
EXTENDS Driver

CONSTANTS p1, p2, n1, n2

MCNodesOf   == (p1 :> {n1, n2}) @@ (p2 :> {n1})
MCEventsOf  == (p1 :> {}) @@ (p2 :> {})
MCDocuments == <<p2>>
=============================================================================
