---------------------------- MODULE MCJobControl ----------------------------
(* Small instances of JobControl for TLC. *)
EXTENDS JobControl, TLC

CONSTANTS r1, r2, r3, r4, w1, w2

\* A recording with two attempts.
RecordingType == [j \in Job |-> "RECORDING"]
RecordingAttempts == [j \in Job |-> 2]

\* One job of each kind whose result is brought home in its own way; only the
\* recording has a second attempt.
TableType ==
    [j \in Job |-> CASE j = r1 -> "RECORDING" [] j = r2 -> "RUN"
                     [] j = r3 -> "REFERENCE_CAPTURE" [] OTHER -> "FLOW_TRIAL"]
TableAttempts == [j \in Job |-> IF j = r1 THEN 2 ELSE 1]

\* Bound: of the jobs one is touched.  Rows have nothing in common but the two
\* plans of the supervisor thread.
OneTouched == \A i, j \in Job : jobs[i] # NewRow /\ jobs[j] # NewRow => i = j

OwnerSymmetry == Permutations(Owner)
=============================================================================
