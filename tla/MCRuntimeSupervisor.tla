------------------------ MODULE MCRuntimeSupervisor ------------------------
(* Small instances of RuntimeSupervisor for TLC. *)
EXTENDS RuntimeSupervisor, TLC

CONSTANTS l1, l2, w1, w2, w3, p1

LoadType == [j \in Job |-> "RUNTIME_LOAD"]
Once     == [j \in Job |-> 1]
OneProject == [j \in Job |-> p1]
=============================================================================
