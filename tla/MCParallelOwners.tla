-------------------------- MODULE MCParallelOwners --------------------------
(* Small instances of ParallelOwners. *)
EXTENDS ParallelOwners, TLC

MCPoolCap == [k \in Kinds |-> 1]
MCHostCaps == {[s \in Slots |-> IF s = <<"inner", "foreground">> THEN 2 ELSE 1]}
Perms == Permutations(Threads)
=============================================================================
