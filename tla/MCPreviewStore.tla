----------------------------- MODULE MCPreviewStore -----------------------------
(* PreviewStore with two preview nodes. *)
EXTENDS PreviewStore

CONSTANTS n1, n2
=============================================================================
