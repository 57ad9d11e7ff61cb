--------------------------- MODULE MCOptimizedV3 ---------------------------
(* OptimizedV3 for TLC: two threads, of which the second starts and stops   *)
(* the engine.  They are not declared symmetric, as the run checks          *)
(* liveness.                                                                *)
EXTENDS OptimizedV3

CONSTANTS t1, t2

EngineThreads == {t1, t2}
============================================================================
