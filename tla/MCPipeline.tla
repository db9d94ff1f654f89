----------------------------- MODULE MCPipeline -----------------------------
(* Pipeline with messages of two sources.                                  *)
EXTENDS Pipeline

CONSTANTS m1, m2, m3, sourceA, sourceB

MCSourceOf == [m \in Message |-> IF m = m2 THEN sourceB ELSE sourceA]
=============================================================================
