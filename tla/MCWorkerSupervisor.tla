------------------------- MODULE MCWorkerSupervisor -------------------------
(* Small instances of WorkerSupervisor for TLC. *)
EXTENDS WorkerSupervisor, TLC

CONSTANTS j1, j2, j3, w1, w2, w3

RecordingType == [j \in Job |-> "RECORDING"]
RunType       == [j \in Job |-> "RUN"]
MixedType     == [j \in Job |-> IF j = j3 THEN "FLOW_TRIAL" ELSE "PROOF_PREFLIGHT"]

Twice == [j \in Job |-> 2]
Once  == [j \in Job |-> 1]
=============================================================================
