--------------------------- MODULE MCReportMailbox ---------------------------
(* Instances of ReportMailbox for TLC: two programs with a node each. *)
EXTENDS ReportMailbox

CONSTANTS p1, p2, n1, n2

MCNodesOf  == (p1 :> {n1}) @@ (p2 :> {n2})
MCEventsOf == (p1 :> {}) @@ (p2 :> {})
=============================================================================
