----------------------------- MODULE MCFrameCache -----------------------------
(* FrameCache over two files whose gain is one, the second version of the   *)
(* first under the name of the other.                                        *)
EXTENDS FrameCache

CONSTANTS r1, r2, g

MCPaths == [r \in Runs |-> IF r = r1 THEN Sources ELSE {1}]
MCStem == [x \in FileVersions |-> IF x = <<1, 2>> THEN 5 ELSE 2 * x[1] + x[2]]
MCGainOf == [x \in FileVersions |-> g]
MCLastVersion == <<2, 1>>
=============================================================================
