--------------------------- MODULE MCTraitsReload ---------------------------
(* A small instance of TraitsReload: one pool worker and one other thread.  *)
EXTENDS TraitsReload
CONSTANTS w1, h1
PoolThreads == {w1}
HostThreads == {h1}
=============================================================================
