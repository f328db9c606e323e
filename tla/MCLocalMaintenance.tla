------------------------ MODULE MCLocalMaintenance ------------------------
(* Small instances of LocalMaintenance for TLC. *)
EXTENDS LocalMaintenance, TLC

CONSTANTS serve, cli, a, p1, p2

PlanSymmetry == Permutations(Plan)
=============================================================================
