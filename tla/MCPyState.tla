------------------------------ MODULE MCPyState ------------------------------
(***************************************************************************)
(* Small instances of PyState.                                             *)
(***************************************************************************)
EXTENDS PyState, TLC

CONSTANTS t1, t2, t3, job1, old, new

Alike == Permutations(Threads) \cup Permutations(Values)

Everything == DOMAIN Program \ (Jobbing \cup {"getter_collects"})
=============================================================================
