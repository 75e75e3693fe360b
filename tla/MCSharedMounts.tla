--------------------------- MODULE MCSharedMounts ---------------------------
EXTENDS SharedMounts, TLC

CONSTANTS x, y, x1, x2, y1

\* One session is started twice, another once.
SessionOfStart == (x1 :> x) @@ (x2 :> x) @@ (y1 :> y)
=============================================================================
