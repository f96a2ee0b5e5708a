------------------------------- MODULE MCShared -------------------------------
(* Instances of Shared for TLC: more calls than connections or threads, three *)
(* clients for two records, and posts of which only some are published.       *)
EXTENDS Shared, TLC

Alike == Permutations(Tasks) \cup Permutations(Databases)
=============================================================================
