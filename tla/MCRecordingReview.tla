------------------------ MODULE MCRecordingReview ------------------------
(* A small instance of RecordingReview for TLC. *)
EXTENDS RecordingReview

CONSTANTS demo, other, supplement, c1, c2, o1, first

\* The supplement of the first demonstration, which proves the result.
OfDemo == [r \in {supplement} |-> demo]
AsEvidence == [r \in {supplement} |-> "evidence"]
=============================================================================
