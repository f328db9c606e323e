------------------------ MODULE MCPreparationBatch -------------------------
(* A small instance of PreparationBatch for TLC. *)
EXTENDS PreparationBatch

CONSTANTS b1, b2, s1, s2, c1, c2

\* The first request is c1's for b1; the others are the same by symmetry.
FirstNamed ==
    clock = 1 => /\ calls[c2] = None /\ rows[b2] = None
                 /\ calls[c1] # None => calls[c1].batch = b1

\* A request for the other batch is followed while the first batch has no items
\* yet and after it ended: in between it is refused as it is at the beginning.
\* Of the other batch itself the beginning is followed.
OneFollowed ==
    \A b, o \in Batch : b # o /\ IsActive(b) /\ rows[b].made =>
        /\ rows[o] = None
        /\ \A c \in Caller : calls[c] # None => calls[c].batch = b

BatchBound == FirstNamed /\ OneFollowed
=============================================================================
