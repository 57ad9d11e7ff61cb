------------------------ MODULE MCAsyncPersistence ------------------------
(* AsyncPersistence for TLC: two engine threads.  They are not declared     *)
(* symmetric, as the runs check liveness.                                   *)
EXTENDS AsyncPersistence

CONSTANTS t1, t2

EngineThreads == {t1, t2}
===========================================================================
