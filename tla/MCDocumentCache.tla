---------------------------- MODULE MCDocumentCache ----------------------------
(* Instances of DocumentCache for TLC: an unsaved document of two programs   *)
(* that may gain either of two files, a document on disk, and a new one.     *)
EXTENDS DocumentCache

CONSTANTS a1, a2, b1, c1, n1, n2, m1, l1, rootA, rootA2, rootB, rootC, docA,
          docB, docC

MCNodesOf    == (a1 :> {n1, n2}) @@ (a2 :> {n2}) @@ (b1 :> {m1}) @@ (c1 :> {l1})
MCEventsOf   == [p \in {a1, a2, b1, c1} |-> {}]
MCDocumentOf == (a1 :> docA) @@ (a2 :> docA) @@ (b1 :> docB) @@ (c1 :> docC)
MCHomeOf     == (rootA :> docA) @@ (rootA2 :> docA) @@ (rootB :> docB)
                   @@ (rootC :> docC)
MCReaders    == (n1 :> {n1, n2}) @@ (n2 :> {n2}) @@ (m1 :> {m1})
                   @@ (l1 :> {l1})
=============================================================================
