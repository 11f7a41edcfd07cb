---------------------------- MODULE MCJoinTables ----------------------------
\* Instances of JoinTables whose keys collide in every size of the tables.
EXTENDS JoinTables

MCHash(k) == CASE k = 1 -> 3 [] k = 2 -> 7 [] k = 3 -> 4
MCHome(k, n) == MCHash(k) % n

R(k, v) == [key |-> k, val |-> v]
MCMerges == {<<>>, <<R(1, 1)>>, <<R(2, 1), R(1, 2)>>, <<R(1, 1), R(1, 1), R(3, 1)>>}
=============================================================================
