---------------------------- MODULE MCKeyedStore ----------------------------
(* A small instance of KeyedStore: a key, the same key with a padding byte, *)
(* a long and a short one.                                                  *)
EXTENDS KeyedStore

CONSTANTS k1, k1pad, klong, kshort

MCKeyBlock == [k \in Key |-> CASE k \in {k1, k1pad} -> 1
                               [] k = klong -> 2
                               [] k = kshort -> 3]

MCConfigs == {[key |-> Unset, session |-> Unset], [key |-> k1, session |-> k1],
              [key |-> k1pad, session |-> klong], [key |-> klong, session |-> k1],
              [key |-> kshort, session |-> kshort]}
=============================================================================
