--------------------------- MODULE MCTaskRunner ---------------------------
(* TaskRunner on a small instance.                                         *)
EXTENDS TaskRunner

CONSTANTS c1, c2, r1, r2, u1, out, err

MCCallers == {c1, c2}
MCRuns    == {r1, r2}
MCSubs    == {u1}
MCPumps   == {out, err}
===========================================================================
