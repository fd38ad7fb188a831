---------------------------- MODULE MCStoredRuns ----------------------------
(* Three tasks, two of them on one key, and a store that one key can fill. *)
EXTENDS StoredRuns, TLC

CONSTANTS t1, t2, t3, k1, k2

MCTasks == {t1, t2, t3}
MCKeys  == {k1, k2}
MCKeyOf == t1 :> k1 @@ t2 :> k1 @@ t3 :> k2
MCSizes == {1, 3}
=============================================================================
