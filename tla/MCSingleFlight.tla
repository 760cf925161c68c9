--------------------------- MODULE MCSingleFlight ---------------------------
(* A small instance of SingleFlight. *)
EXTENDS SingleFlight, TLC

CONSTANTS t1, t2, t3, t4, j1, j2, j3, j4, j5, a, b

\* Lane t1 of the pool analyses archive a (the cache answers for its members);
\* t2 has the path b, which a lane that waits for a flight may pull; t4 is a
\* plain worker of the pool.  The thread t3, off the pool, analyses another copy
\* of a, whose members are b (j4) and a copy of a itself (j5): the one or the
\* other is handed to the pool.  The configuration has b analysed on a leaf pool.
MCJobs == {j1, j2, j3, j4, j5}
MCKeyOf == j1 :> a @@ j2 :> b @@ j3 :> a @@ j4 :> b @@ j5 :> a
MCParent == j1 :> None @@ j2 :> None @@ j3 :> None @@ j4 :> j3 @@ j5 :> j3
MCLane == j1 :> t1 @@ j2 :> t2 @@ j3 :> t3 @@ j4 :> t3 @@ j5 :> t3
=============================================================================
