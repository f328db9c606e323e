--------------------------- MODULE MCJobAdmission ---------------------------
(* Small instances of JobAdmission for TLC. *)
EXTENDS JobAdmission, TLC

CONSTANTS c1, c2, c3, r1, r2

\* Three checks under one key, the third asking for something else, and two
\* recordings under keys of their own or under one key.
KindOf == [s \in Submission |-> IF s \in {r1, r2} THEN "BROWSER_RECORDING" ELSE "CHECK"]
OneProject == [s \in Submission |-> "p"]
KeyOf == [s \in Submission |-> IF s = r2 THEN "k2" ELSE "k1"]
OneKey == [s \in Submission |-> "k1"]
WishOf == [s \in Submission |-> IF s = c3 THEN "other" ELSE "this"]

\* Two processes serve the checks.
HomeOf == [s \in Submission |-> IF s = c1 THEN "h1" ELSE "h2"]

\* Under KeyOf the two recordings differ in nothing.
RecordingSymmetry == Permutations({r1, r2})

OneEach == [k \in Kinds |-> 1]
CheckUnclear == [k \in Kinds |-> IF k = "CHECK" THEN 1 ELSE 0]
=============================================================================
