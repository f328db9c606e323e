--------------------------- MODULE RecordingProofs ---------------------------
(* What RecordingReview promises, for any recordings, callers and bounds. *)
EXTENDS RecordingReview, TLAPS

LEMMA Bounds ==
    MaxRevision \in Nat \ {0} /\ MaxSource \in Nat /\ MaxOther \in Nat /\ MaxCalls \in Nat
BY ReviewAssumption

\* The first draft is there when the review begins, and only then.
LEMMA Initially == ASSUME Init PROVE ReviewTypeOK
<1>0. <<>> \in Seq(Reading) /\ Len(<<>>) = 0
  OBVIOUS
<1>1. \A r \in Recording : drafts[r] \in Seq(Reading) /\ Len(drafts[r]) <= MaxRevision
  <2>1. \A r \in Recording : drafts[r] = <<>>
    BY DEF Init
  <2>2. \A r \in Recording : drafts[r] \in Seq(Reading) /\ Len(drafts[r]) = 0
    BY <2>1, <1>0, Zenon
  <2>3. 0 <= MaxRevision
    BY Bounds
  <2> QED BY <2>2, <2>3
<1> QED BY <1>1, Bounds DEF Init, ReviewTypeOK, Reading

\* Nothing a request keeps or reads is disturbed when only other state changes.
LEMMA SubmitTypes == ASSUME ReviewTypeOK, NEW r \in Recording, Submit(r) PROVE ReviewTypeOK'
<1>1. frozen' \in [Recording -> 0..MaxSource]
  BY Bounds DEF ReviewTypeOK, Submit
<1>2. state' \in [Recording -> {"none", "RECORDING", "PENDING_REVIEW", "COMPLETED", "CANCELLED"}]
  BY DEF ReviewTypeOK, Submit
<1>3. \A q \in Recording : state'[q] \in {"none", "RECORDING"} <=> drafts'[q] = <<>>
  BY DEF ReviewTypeOK, Submit
<1> QED BY <1>1, <1>2, <1>3 DEF ReviewTypeOK, Submit

LEMMA CapturedTypes == ASSUME ReviewTypeOK, NEW r \in Recording, Captured(r) PROVE ReviewTypeOK'
<1>1. PICK ch \in Reading : drafts' = [drafts EXCEPT ![r] = <<ch>>]
  BY DEF Captured, FirstDraft
<1>2. /\ drafts' \in [Recording -> Seq(Reading)]
      /\ drafts'[r] # <<>> /\ Len(drafts'[r]) = 1
      /\ \A q \in Recording \ {r} : drafts'[q] = drafts[q]
  BY <1>1 DEF ReviewTypeOK
<1>3. \A q \in Recording : Len(drafts'[q]) <= MaxRevision
  <2>1. \A q \in Recording : Len(drafts[q]) <= MaxRevision
    BY DEF ReviewTypeOK
  <2>2. 1 <= MaxRevision
    BY Bounds
  <2> QED BY <1>2, <2>1, <2>2
<1>4. /\ state' \in [Recording -> {"none", "RECORDING", "PENDING_REVIEW", "COMPLETED", "CANCELLED"}]
      /\ state[r] = "RECORDING" /\ drafts[r] = <<>>
      /\ state'[r] = "PENDING_REVIEW"
      /\ \A q \in Recording \ {r} : state'[q] = state[q]
  BY DEF ReviewTypeOK, Captured
<1>5. \A q \in Recording : state'[q] \in {"none", "RECORDING"} <=> drafts'[q] = <<>>
  BY <1>2, <1>4 DEF ReviewTypeOK
<1>6. \A c \in Caller : calls[c] # None => calls[c].rec \in Recording /\ calls[c].rec # r
  BY <1>4 DEF ReviewTypeOK, Call
<1>7. \A c \in Caller : calls'[c] # None =>
        /\ drafts'[calls'[c].rec] # <<>>
        /\ calls'[c].at # "recording" => calls'[c].rev \in 1..Len(drafts'[calls'[c].rec])
  BY <1>2, <1>6 DEF ReviewTypeOK, Captured
<1> QED BY <1>2, <1>3, <1>4, <1>5, <1>7 DEF ReviewTypeOK, Captured

\* Beginning and answering a request leave the rest alone.
LEMMA CallTypes ==
    ASSUME ReviewTypeOK, NEW c \in Caller,
           UNCHANGED <<state, frozen, drafts, flow, bound, source, command, receipt, others,
                       told, accepted, writes>>,
           made' \in 0..MaxCalls,
           NEW call \in Call \cup {None}, calls' = [calls EXCEPT ![c] = call],
           call # None => /\ drafts[call.rec] # <<>>
                          /\ call.at # "recording" => call.rev \in 1..Len(drafts[call.rec])
    PROVE  ReviewTypeOK'
<1>1. calls' \in [Caller -> Call \cup {None}]
  BY DEF ReviewTypeOK
<1>2. \A d \in Caller : calls'[d] # None =>
        /\ drafts[calls'[d].rec] # <<>>
        /\ calls'[d].at # "recording" => calls'[d].rev \in 1..Len(drafts[calls'[d].rec])
  BY DEF ReviewTypeOK
<1> QED BY <1>1, <1>2 DEF ReviewTypeOK

LEMMA BeginTypes ==
    ASSUME ReviewTypeOK, NEW c \in Caller, NEW op \in {"review", "refresh", "finalize", "discard"},
           NEW r \in Recording, NEW seen \in {0, Len(drafts[r])}, Begin(c, op, r, seen)
    PROVE  ReviewTypeOK'
<1> DEFINE call == [op |-> op, rec |-> r, seen |-> seen, at |-> "recording", rev |-> 0]
<1>1. seen \in 0..MaxRevision
  <2>1. Len(drafts[r]) \in Nat /\ Len(drafts[r]) <= MaxRevision
    BY DEF ReviewTypeOK
  <2> QED BY <2>1, Bounds
<1>2. call \in Call
  BY <1>1, Bounds DEF Call
<1>3. drafts[r] # <<>>
  BY DEF ReviewTypeOK, Begin
<1>4. made' \in 0..MaxCalls
  BY Bounds DEF ReviewTypeOK, Begin
<1>5. calls' = [calls EXCEPT ![c] = call]
  BY DEF Begin
<1> HIDE DEF call
<1>6. call.at = "recording" /\ call.rec = r
  BY DEF call
<1> QED BY <1>2, <1>3, <1>4, <1>5, <1>6, CallTypes DEF Begin

\* A call on its way is one, with a draft it may have read.
LEMMA OnItsWay ==
    ASSUME ReviewTypeOK, NEW c \in Caller, calls[c] # None
    PROVE  /\ calls[c] \in Call /\ calls[c].rec \in Recording
           /\ drafts[calls[c].rec] \in Seq(Reading) /\ drafts[calls[c].rec] # <<>>
           /\ Len(drafts[calls[c].rec]) \in 1..MaxRevision
           /\ calls[c].at # "recording" =>
                /\ calls[c].rev \in 1..Len(drafts[calls[c].rec])
                /\ calls[c].rev \in 1..MaxRevision
                /\ drafts[calls[c].rec][calls[c].rev] \in Reading
<1>1. calls[c] \in Call
  BY DEF ReviewTypeOK
<1>2. calls[c].rec \in Recording
  BY <1>1 DEF Call
<1>3. drafts[calls[c].rec] \in Seq(Reading) /\ drafts[calls[c].rec] # <<>>
  BY <1>2 DEF ReviewTypeOK
<1>4. Len(drafts[calls[c].rec]) \in 1..MaxRevision
  <2>1. Len(drafts[calls[c].rec]) \in Nat \ {0}
    BY <1>3
  <2>2. Len(drafts[calls[c].rec]) <= MaxRevision
    BY <1>2 DEF ReviewTypeOK
  <2> QED BY <2>1, <2>2, Bounds
<1>5. calls[c].at # "recording" => calls[c].rev \in 1..Len(drafts[calls[c].rec])
  BY DEF ReviewTypeOK
<1>6. ASSUME calls[c].rev \in 1..Len(drafts[calls[c].rec])
      PROVE  calls[c].rev \in 1..MaxRevision /\ drafts[calls[c].rec][calls[c].rev] \in Reading
  BY <1>3, <1>4, <1>6, Bounds
<1> QED BY <1>1, <1>2, <1>3, <1>4, <1>5, <1>6

LEMMA MoveTypes ==
    ASSUME ReviewTypeOK, NEW c \in Caller, calls[c] # None, NEW at \in {"draft", "writing", "accepting"},
           NEW rev \in 1..Len(drafts[calls[c].rec]), Moves(c, at, rev),
           UNCHANGED <<state, frozen, drafts, flow, bound, source, made, command, receipt, others,
                       told, accepted, writes>>
    PROVE  ReviewTypeOK'
<1> DEFINE call == [calls[c] EXCEPT !.at = at, !.rev = rev]
<1>1. rev \in 0..MaxRevision
  BY OnItsWay, Bounds
<1>2. call \in Call /\ call.rec = calls[c].rec /\ call.rev = rev
  BY <1>1, OnItsWay DEF Call
<1>3. calls' = [calls EXCEPT ![c] = call]
  BY DEF Moves, ReviewTypeOK
<1>4. made' \in 0..MaxCalls
  BY DEF ReviewTypeOK
<1>5. drafts[calls[c].rec] # <<>>
  BY OnItsWay
<1> HIDE DEF call
<1> QED BY <1>2, <1>3, <1>4, <1>5, CallTypes

LEMMA AnswerTypes ==
    ASSUME ReviewTypeOK, NEW c \in Caller, Answers(c)
    PROVE  /\ calls' \in [Caller -> Call \cup {None}]
           /\ \A d \in Caller : calls'[d] # None => calls'[d] = calls[d] /\ calls[d] # None
BY DEF ReviewTypeOK, Answers

LEMMA ReadDraftTypes == ASSUME ReviewTypeOK, NEW c \in Caller, ReadDraft(c) PROVE ReviewTypeOK'
<1>1. calls[c] # None
  BY DEF ReadDraft
<1>2. Len(drafts[calls[c].rec]) \in 1..Len(drafts[calls[c].rec])
  BY <1>1, OnItsWay, Bounds
<1> QED BY <1>1, <1>2, MoveTypes DEF ReadDraft

LEMMA ReviewTypes == ASSUME ReviewTypeOK, NEW c \in Caller, Review(c) PROVE ReviewTypeOK'
<1> DEFINE r == calls[c].rec
           rev == calls[c].rev
<1>1. /\ r \in Recording /\ drafts[r] \in Seq(Reading) /\ drafts[r] # <<>>
      /\ rev \in 1..MaxRevision /\ drafts[r][rev] \in Reading
      /\ calls[c].op \in {"review", "refresh"}
  BY OnItsWay DEF Review, Working
<1>2. PICK ch \in Reading :
        Insert(r, rev, ch) /\ told' = told \cup {[rec |-> r, rev |-> rev + 1, choice |-> ch]}
  <2>1. None \in Reading
    BY DEF Reading
  <2> QED BY <1>1, <2>1 DEF Review
<1>3. rev + 1 \in 1..MaxRevision
  BY <1>1, Bounds DEF Review
<1> HIDE DEF r, rev
<1>4. /\ drafts' \in [Recording -> Seq(Reading)]
      /\ drafts'[r] # <<>> /\ Len(drafts'[r]) = rev + 1 /\ Len(drafts[r]) = rev
      /\ \A q \in Recording \ {r} : drafts'[q] = drafts[q]
  <2>1. drafts' = [drafts EXCEPT ![r] = Append(drafts[r], ch)] /\ Len(drafts[r]) = rev
    BY <1>2 DEF Insert
  <2>2. /\ Append(drafts[r], ch) \in Seq(Reading) /\ Append(drafts[r], ch) # <<>>
        /\ Len(Append(drafts[r], ch)) = Len(drafts[r]) + 1
    BY <1>1
  <2>3. drafts \in [Recording -> Seq(Reading)]
    BY DEF ReviewTypeOK
  <2> HIDE DEF ReviewTypeOK
  <2> QED BY <1>1, <2>1, <2>2, <2>3
<1>5. \A q \in Recording :
        /\ Len(drafts'[q]) <= MaxRevision
        /\ state'[q] \in {"none", "RECORDING"} <=> drafts'[q] = <<>>
        /\ Len(drafts[q]) <= Len(drafts'[q])
  <2>1. ASSUME NEW q \in Recording, q # r
        PROVE  drafts'[q] = drafts[q] /\ Len(drafts[q]) \in Nat
    BY <2>1, <1>4 DEF ReviewTypeOK
  <2>2. rev \in Nat /\ rev <= rev + 1 /\ rev + 1 <= MaxRevision
    BY <1>1, <1>3, Bounds
  <2>3. \A q \in Recording : (state'[q] \in {"none", "RECORDING"} <=> drafts[q] = <<>>) /\ Len(drafts[q]) <= MaxRevision
    BY DEF Review, ReviewTypeOK
  <2> QED BY <1>1, <1>4, <2>1, <2>2, <2>3
<1>6. \A d \in Caller : calls'[d] # None =>
        /\ drafts'[calls'[d].rec] # <<>>
        /\ calls'[d].at # "recording" => calls'[d].rev \in 1..Len(drafts'[calls'[d].rec])
  <2> SUFFICES ASSUME NEW d \in Caller, calls'[d] # None
               PROVE  /\ drafts'[calls[d].rec] # <<>>
                      /\ calls[d].at # "recording" => calls[d].rev \in 1..Len(drafts'[calls[d].rec])
    BY AnswerTypes DEF Review
  <2>1. calls[d] # None
    BY AnswerTypes DEF Review
  <2>2. /\ calls[d].rec \in Recording /\ drafts[calls[d].rec] # <<>>
        /\ Len(drafts[calls[d].rec]) \in Nat
        /\ calls[d].at # "recording" => calls[d].rev \in 1..Len(drafts[calls[d].rec])
    BY <2>1, OnItsWay, Bounds
  <2>3. drafts'[calls[d].rec] # <<>> /\ Len(drafts[calls[d].rec]) <= Len(drafts'[calls[d].rec])
    BY <1>4, <1>5, <2>2
  <2>4. Len(drafts'[calls[d].rec]) \in Nat
    BY <1>4, <2>2
  <2> QED BY <2>2, <2>3, <2>4
<1>7. told' \subseteq [rec : Recording, rev : 1..MaxRevision, choice : Reading]
  BY <1>1, <1>2, <1>3 DEF ReviewTypeOK
<1>8. calls' \in [Caller -> Call \cup {None}]
  BY AnswerTypes DEF Review
<1> QED BY <1>4, <1>5, <1>6, <1>7, <1>8 DEF ReviewTypeOK, Review

LEMMA CompileTypes == ASSUME ReviewTypeOK, NEW c \in Caller, Compile(c) PROVE ReviewTypeOK'
<1>1. calls[c] # None /\ calls[c].at = "draft"
  BY DEF Compile, Working
<1>2. calls[c].rev \in 1..Len(drafts[calls[c].rec])
  BY <1>1, OnItsWay
<1>3. PICK at \in {"draft", "writing", "accepting"} : Moves(c, at, calls[c].rev)
  BY DEF Compile, Publication
<1> QED BY <1>1, <1>2, <1>3, MoveTypes DEF Compile

LEMMA PublishTypes == ASSUME ReviewTypeOK, NEW c \in Caller, Publish(c) PROVE ReviewTypeOK'
<1> DEFINE call == [calls[c] EXCEPT !.at = "accepting", !.rev = calls[c].rev]
<1>1. calls[c] # None /\ calls[c].at = "writing"
  BY DEF Publish, Working
<1>2. call \in Call /\ call.rec = calls[c].rec /\ call.rev = calls[c].rev
  BY <1>1, OnItsWay, Bounds DEF Call
<1>3. calls' = [calls EXCEPT ![c] = call]
  BY DEF Publish, Moves, ReviewTypeOK
<1>4. drafts[call.rec] # <<>> /\ call.rev \in 1..Len(drafts[call.rec])
  BY <1>1, <1>2, OnItsWay
<1> HIDE DEF call
<1>5. calls' \in [Caller -> Call \cup {None}]
  BY <1>2, <1>3 DEF ReviewTypeOK
<1>6. \A d \in Caller : calls'[d] # None =>
        /\ drafts'[calls'[d].rec] # <<>>
        /\ calls'[d].at # "recording" => calls'[d].rev \in 1..Len(drafts'[calls'[d].rec])
  BY <1>3, <1>4 DEF ReviewTypeOK, Publish
<1>7. flow' \in [Recording -> Reading]
  BY <1>1, OnItsWay DEF Publish, ReviewTypeOK
<1> QED BY <1>5, <1>6, <1>7 DEF ReviewTypeOK, Publish

LEMMA BindTypes ==
    ASSUME ReviewTypeOK, NEW r \in Recording, NEW rev \in 1..MaxRevision, NEW used \in Reading
    PROVE  Bind(r, rev, used) \in [Material -> Binding \cup Elsewhere \cup {None}]
<1> DEFINE b == [rec |-> r, rev |-> rev, flow |-> IF r \in Target THEN used ELSE None]
<1>1. b \in Binding
  BY DEF Binding, Reading
<1> HIDE DEF b
<1>2. Bind(r, rev, used) = [m \in Material |-> IF m \in Slots(r) THEN b ELSE bound[m]]
  BY DEF Bind, b
<1>3. \A m \in Material : bound[m] \in Binding \cup Elsewhere \cup {None}
  BY DEF ReviewTypeOK
<1> QED BY <1>1, <1>2, <1>3

LEMMA AcceptTypes == ASSUME ReviewTypeOK, NEW c \in Caller, Accept(c) PROVE ReviewTypeOK'
<1> DEFINE r == calls[c].rec
           rev == calls[c].rev
<1>1. /\ r \in Recording /\ rev \in 1..MaxRevision
      /\ drafts[r][rev] \in Reading /\ drafts[r] # <<>>
  BY OnItsWay DEF Accept, Working
<1>2. bound' \in [Material -> Binding \cup Elsewhere \cup {None}]
  <2>1. bound' = bound \/ bound' = Bind(r, rev, drafts[r][rev])
    BY DEF Accept, Adopted
  <2> QED BY <1>1, <2>1, BindTypes DEF ReviewTypeOK
<1>3. rev \in 0..MaxRevision
  BY <1>1, Bounds
<1>4. accepted' \in [Recording -> 0..MaxRevision]
  BY <1>3 DEF Accept, ReviewTypeOK
<1>5. /\ state' \in [Recording -> {"none", "RECORDING", "PENDING_REVIEW", "COMPLETED", "CANCELLED"}]
      /\ \A q \in Recording : state'[q] \in {"none", "RECORDING"} <=> drafts'[q] = <<>>
  BY <1>1 DEF Accept, ReviewTypeOK
<1>6. /\ calls' \in [Caller -> Call \cup {None}]
      /\ \A d \in Caller : calls'[d] # None =>
            /\ drafts'[calls'[d].rec] # <<>>
            /\ calls'[d].at # "recording" => calls'[d].rev \in 1..Len(drafts'[calls'[d].rec])
  BY AnswerTypes DEF Accept, ReviewTypeOK
<1> QED BY <1>2, <1>4, <1>5, <1>6 DEF ReviewTypeOK, Accept

LEMMA DiscardTypes == ASSUME ReviewTypeOK, NEW c \in Caller, Discard(c) PROVE ReviewTypeOK'
<1>1. calls[c].rec \in Recording /\ drafts[calls[c].rec] # <<>>
  BY OnItsWay DEF Discard, Working
<1>2. /\ state' \in [Recording -> {"none", "RECORDING", "PENDING_REVIEW", "COMPLETED", "CANCELLED"}]
      /\ \A q \in Recording : state'[q] \in {"none", "RECORDING"} <=> drafts'[q] = <<>>
  BY <1>1 DEF Discard, ReviewTypeOK
<1>3. /\ calls' \in [Caller -> Call \cup {None}]
      /\ \A d \in Caller : calls'[d] # None =>
            /\ drafts'[calls'[d].rec] # <<>>
            /\ calls'[d].at # "recording" => calls'[d].rev \in 1..Len(drafts'[calls'[d].rec])
  BY AnswerTypes DEF Discard, ReviewTypeOK
<1> QED BY <1>2, <1>3 DEF ReviewTypeOK, Discard

LEMMA FailsTypes == ASSUME ReviewTypeOK, NEW c \in Caller, Fails(c) PROVE ReviewTypeOK'
<1>1. /\ calls' \in [Caller -> Call \cup {None}]
      /\ \A d \in Caller : calls'[d] # None =>
            /\ drafts'[calls'[d].rec] # <<>>
            /\ calls'[d].at # "recording" => calls'[d].rev \in 1..Len(drafts'[calls'[d].rec])
  BY AnswerTypes DEF Fails, ReviewTypeOK
<1> QED BY <1>1 DEF ReviewTypeOK, Fails

LEMMA PreviewTypes ==
    ASSUME ReviewTypeOK, NEW o \in Operation, NEW r \in Recording, Preview(o, r) PROVE ReviewTypeOK'
<1>1. Shown \in Basis
  BY DEF Shown, Basis, ReviewTypeOK
<1>2. command' \in [Operation -> [rec : Recording, basis : Basis] \cup {None}]
  BY <1>1 DEF Preview, ReviewTypeOK
<1> QED BY <1>2 DEF ReviewTypeOK, Preview

LEMMA ApplyTypes == ASSUME ReviewTypeOK, NEW o \in Operation, Apply(o) PROVE ReviewTypeOK'
<1> DEFINE r == command[o].rec
<1>1. r \in Recording
  BY DEF Apply, ReviewTypeOK
<1>2. Len(drafts[r]) \in 1..MaxRevision /\ flow[r] \in Reading
  <2>1. drafts[r] \in Seq(Reading) /\ drafts[r] # <<>>
    BY <1>1 DEF Apply, Offered, ReviewTypeOK
  <2>2. Len(drafts[r]) \in Nat \ {0}
    BY <2>1
  <2>3. Len(drafts[r]) <= MaxRevision /\ flow[r] \in Reading
    BY <1>1 DEF ReviewTypeOK
  <2> QED BY <2>2, <2>3, Bounds
<1>3. bound' \in [Material -> Binding \cup Elsewhere \cup {None}]
  BY <1>1, <1>2, BindTypes DEF Apply
<1>4. receipt' \in [Operation -> Recording \cup {None}] /\ writes' \in [Operation -> Nat]
  BY <1>1 DEF Apply, ReviewTypeOK
<1> QED BY <1>3, <1>4 DEF ReviewTypeOK, Apply

LEMMA ElsewhereTypes == ASSUME ReviewTypeOK, AdoptElsewhere PROVE ReviewTypeOK'
<1>1. others' \in 0..MaxOther
  BY Bounds DEF AdoptElsewhere, ReviewTypeOK
<1>2. [adopted |-> others'] \in Elsewhere
  BY <1>1 DEF Elsewhere
<1>3. bound' \in [Material -> Binding \cup Elsewhere \cup {None}]
  BY <1>2 DEF AdoptElsewhere, ReviewTypeOK
<1> QED BY <1>1, <1>3 DEF ReviewTypeOK, AdoptElsewhere

LEMMA SourceTypes == ASSUME ReviewTypeOK, ChangeSource PROVE ReviewTypeOK'
<1>1. source' \in 0..MaxSource
  BY Bounds DEF ChangeSource, ReviewTypeOK
<1> QED BY <1>1 DEF ReviewTypeOK, ChangeSource

LEMMA TypesStep == ASSUME ReviewTypeOK, [Next]_vars PROVE ReviewTypeOK'
<1>1. ASSUME NEW r \in Recording, Submit(r) \/ Captured(r) PROVE ReviewTypeOK'
  BY <1>1, SubmitTypes, CapturedTypes
<1>2. ASSUME NEW c \in Caller, NEW op \in {"review", "refresh", "finalize", "discard"},
             NEW r \in Recording, NEW seen \in {0, Len(drafts[r])}, Begin(c, op, r, seen)
      PROVE  ReviewTypeOK'
  BY <1>2, BeginTypes
<1>3. ASSUME NEW c \in Caller, ReadDraft(c) \/ Review(c) \/ Compile(c) \/ Publish(c) PROVE ReviewTypeOK'
  BY <1>3, ReadDraftTypes, ReviewTypes, CompileTypes, PublishTypes
<1>4. ASSUME NEW c \in Caller, Accept(c) \/ Discard(c) \/ Fails(c) PROVE ReviewTypeOK'
  BY <1>4, AcceptTypes, DiscardTypes, FailsTypes
<1>5. ASSUME NEW o \in Operation, Apply(o) \/ \E r \in Recording : Preview(o, r) PROVE ReviewTypeOK'
  BY <1>5, ApplyTypes, PreviewTypes
<1>6. ASSUME AdoptElsewhere \/ ChangeSource PROVE ReviewTypeOK'
  BY <1>6, ElsewhereTypes, SourceTypes
<1>7. ASSUME UNCHANGED vars PROVE ReviewTypeOK'
  BY <1>7 DEF vars, ReviewTypeOK
<1> QED BY <1>1, <1>2, <1>3, <1>4, <1>5, <1>6, <1>7 DEF Next

\* Every state is well formed: a review finds a draft from its first moment, and a
\* request on its way holds a revision that still exists (the repositories).
THEOREM Typing == Spec => []ReviewTypeOK
<1>1. Init => ReviewTypeOK
  BY Initially
<1>2. ReviewTypeOK /\ [Next]_vars => ReviewTypeOK'
  BY TypesStep
<1> QED BY <1>1, <1>2, PTL DEF Spec

-----------------------------------------------------------------------------
(* Reviews. *)

\* A draft only grows, and what it held stays where it was.
LEMMA DraftsGrow ==
    ASSUME ReviewTypeOK, [Next]_vars, NEW r \in Recording, NEW n \in 1..Len(drafts[r])
    PROVE  n \in 1..Len(drafts'[r]) /\ drafts'[r][n] = drafts[r][n]
<1>1. drafts[r] \in Seq(Reading)
  BY DEF ReviewTypeOK
<1>2. CASE drafts' = drafts
  BY <1>2
<1>3. ASSUME NEW q \in Recording, Captured(q)
      PROVE  n \in 1..Len(drafts'[r]) /\ drafts'[r][n] = drafts[r][n]
  <2>1. state[q] = "RECORDING" /\ drafts[q] = <<>>
    BY <1>3 DEF Captured, ReviewTypeOK
  <2>2. r # q
    BY <2>1, <1>1
  <2>3. drafts'[r] = drafts[r]
    BY <1>3, <2>2 DEF Captured, FirstDraft, ReviewTypeOK
  <2> QED BY <2>3
<1>4. ASSUME NEW c \in Caller, Review(c)
      PROVE  n \in 1..Len(drafts'[r]) /\ drafts'[r][n] = drafts[r][n]
  <2>1. PICK ch \in Reading : Insert(calls[c].rec, calls[c].rev, ch)
    <3>1. calls[c].rec \in Recording /\ drafts[calls[c].rec][calls[c].rev] \in Reading /\ None \in Reading
      BY <1>4, OnItsWay DEF Review, Working, Reading
    <3> QED BY <1>4, <3>1 DEF Review
  <2>2. drafts'[r] = drafts[r] \/ drafts'[r] = Append(drafts[r], ch)
    BY <2>1 DEF Insert, ReviewTypeOK
  <2>3. ASSUME drafts'[r] = Append(drafts[r], ch)
        PROVE  n \in 1..Len(drafts'[r]) /\ drafts'[r][n] = drafts[r][n]
    BY <1>1, <2>3
  <2> QED BY <2>2, <2>3
<1>5. drafts' = drafts \/ (\E q \in Recording : Captured(q)) \/ (\E c \in Caller : Review(c))
  BY DEF Next, vars, Submit, Begin, ReadDraft, Compile, Publish, Accept, Discard, Fails,
         Preview, Apply, AdoptElsewhere, ChangeSource
<1> QED BY <1>2, <1>3, <1>4, <1>5

LEMMA KeptStep == ASSUME ReviewTypeOK, KeptReviews, [Next]_vars PROVE KeptReviews'
<1>1. ASSUME NEW t \in told
      PROVE  t.rev \in DOMAIN drafts'[t.rec] /\ drafts'[t.rec][t.rev] = t.choice
  <2>1. t.rec \in Recording /\ drafts[t.rec] \in Seq(Reading)
    BY DEF ReviewTypeOK
  <2>2. t.rev \in 1..Len(drafts[t.rec]) /\ drafts[t.rec][t.rev] = t.choice
    BY <2>1 DEF KeptReviews
  <2>3. t.rev \in 1..Len(drafts'[t.rec]) /\ drafts'[t.rec][t.rev] = t.choice
    BY <2>1, <2>2, DraftsGrow
  <2>4. drafts'[t.rec] \in Seq(Reading)
    BY <2>1, TypesStep DEF ReviewTypeOK
  <2> QED BY <2>3, <2>4
<1>2. ASSUME NEW c \in Caller, Review(c)
      PROVE  \A t \in told' \ told : t.rev \in DOMAIN drafts'[t.rec] /\ drafts'[t.rec][t.rev] = t.choice
  <2> DEFINE r == calls[c].rec
             rev == calls[c].rev
  <2>1. /\ r \in Recording /\ drafts[r] \in Seq(Reading) /\ rev \in Nat
        /\ drafts[r][rev] \in Reading /\ None \in Reading
    BY <1>2, OnItsWay, Bounds DEF Review, Working, Reading
  <2>2. PICK ch \in Reading :
          Insert(r, rev, ch) /\ told' = told \cup {[rec |-> r, rev |-> rev + 1, choice |-> ch]}
    BY <1>2, <2>1 DEF Review
  <2> HIDE DEF r, rev
  <2>3. Len(drafts[r]) = rev /\ drafts'[r] = Append(drafts[r], ch)
    BY <2>1, <2>2 DEF Insert, ReviewTypeOK
  <2>4. rev + 1 \in DOMAIN drafts'[r] /\ drafts'[r][rev + 1] = ch
    BY <2>1, <2>3
  <2> QED BY <2>2, <2>4
<1>3. told' = told \/ \E c \in Caller : Review(c)
  BY DEF Next, vars, Submit, Captured, Begin, ReadDraft, Compile, Publish, Accept, Discard, Fails,
         Preview, Apply, AdoptElsewhere, ChangeSource
<1> QED BY <1>1, <1>2, <1>3 DEF KeptReviews

\* A review that was reported as saved stays as it was saved, whatever other
\* reviews of the same draft do meanwhile (RecordingLifecycle.review).
THEOREM ReviewsAreKept == Spec => []KeptReviews
<1>1. Init => ReviewTypeOK /\ KeptReviews
  BY Initially DEF Init, KeptReviews
<1>2. (ReviewTypeOK /\ KeptReviews) /\ [Next]_vars => (ReviewTypeOK /\ KeptReviews)'
  BY TypesStep, KeptStep
<1> QED BY <1>1, <1>2, PTL DEF Spec

-----------------------------------------------------------------------------
(* Publication before completion. *)

\* How far a request that accepts a demonstration has come with its file.
FlowReady ==
    \A c \in Caller : calls[c] # None /\ calls[c].rec \in Target =>
        /\ calls[c].at = "writing" => drafts[calls[c].rec][calls[c].rev] # None
        /\ calls[c].at = "accepting" => flow[calls[c].rec] # None

PublishedInv == ReviewTypeOK /\ FlowReady /\ PublishedFirst

\* A file that is there remains there.
LEMMA FlowsRemain ==
    ASSUME ReviewTypeOK, FlowReady, [Next]_vars, NEW r \in Target, flow[r] # None PROVE flow'[r] # None
<1>1. ASSUME NEW c \in Caller, Publish(c) PROVE flow'[r] # None
  <2>1. calls[c] # None /\ calls[c].at = "writing" /\ r \in Recording
    BY <1>1, ReviewAssumption DEF Publish, Working
  <2>2. calls[c].rec = r => drafts[calls[c].rec][calls[c].rev] # None
    BY <2>1 DEF FlowReady
  <2> QED BY <1>1, <2>1, <2>2 DEF Publish, ReviewTypeOK
<1>2. flow' = flow \/ \E c \in Caller : Publish(c)
  BY DEF Next, vars, Submit, Captured, Begin, ReadDraft, Review, Compile, Accept, Discard, Fails,
         Preview, Apply, AdoptElsewhere, ChangeSource
<1> QED BY <1>1, <1>2

\* A call keeps its promise as long as it stands still.
LEMMA Standing ==
    ASSUME PublishedInv, [Next]_vars, NEW c \in Caller, calls[c] # None, calls'[c] = calls[c],
           calls[c].rec \in Target
    PROVE  /\ calls'[c].at = "writing" => drafts'[calls'[c].rec][calls'[c].rev] # None
           /\ calls'[c].at = "accepting" => flow'[calls'[c].rec] # None
<1>1. calls[c].at = "writing" => calls[c].rec \in Recording /\ calls[c].rev \in 1..Len(drafts[calls[c].rec])
  BY OnItsWay DEF PublishedInv
<1>2. calls[c].at = "writing" => drafts'[calls[c].rec][calls[c].rev] = drafts[calls[c].rec][calls[c].rev]
  BY <1>1, DraftsGrow DEF PublishedInv
<1>3. calls[c].at = "accepting" => flow'[calls[c].rec] # None
  BY FlowsRemain DEF PublishedInv, FlowReady
<1> QED BY <1>2, <1>3 DEF PublishedInv, FlowReady

LEMMA FlowReadyStep == ASSUME PublishedInv, [Next]_vars PROVE FlowReady'
<1> USE DEF PublishedInv
<1> SUFFICES ASSUME NEW c \in Caller, calls'[c] # None, calls'[c].rec \in Target
             PROVE  /\ calls'[c].at = "writing" => drafts'[calls'[c].rec][calls'[c].rev] # None
                    /\ calls'[c].at = "accepting" => flow'[calls'[c].rec] # None
  BY DEF FlowReady
<1>1. CASE calls'[c] = calls[c]
  BY <1>1, Standing
<1>2. ASSUME NEW op \in {"review", "refresh", "finalize", "discard"}, NEW r \in Recording,
             NEW seen \in {0, Len(drafts[r])}, Begin(c, op, r, seen)
      PROVE  calls'[c].at = "recording"
  BY <1>2 DEF Begin, ReviewTypeOK
<1>3. ASSUME ReadDraft(c) PROVE calls'[c].at = "draft"
  BY <1>3, OnItsWay DEF ReadDraft, Moves, ReviewTypeOK, Call
<1>4. ASSUME Compile(c)
      PROVE  /\ calls'[c].at = "writing" => drafts'[calls'[c].rec][calls'[c].rev] # None
             /\ calls'[c].at = "accepting" => flow'[calls'[c].rec] # None
  <2>1. calls[c] # None /\ calls[c] \in Call
    BY <1>4, OnItsWay DEF Compile, Working
  <2>2. PICK at \in Publication(calls[c].rec, drafts[calls[c].rec][calls[c].rev]) : Moves(c, at, calls[c].rev)
    BY <1>4 DEF Compile
  <2>3. calls'[c] = [calls[c] EXCEPT !.at = at, !.rev = calls[c].rev]
    BY <2>2 DEF Moves, ReviewTypeOK
  <2>4. calls'[c].at = at /\ calls'[c].rec = calls[c].rec /\ calls'[c].rev = calls[c].rev
    BY <2>1, <2>3 DEF Call
  <2>5. drafts[calls[c].rec][calls[c].rev] # None /\ drafts' = drafts /\ flow' = flow
    BY <1>4, <2>4 DEF Compile
  <2>6. at = "accepting" => flow[calls[c].rec] # None
    BY <2>2, <2>4 DEF Publication
  <2> QED BY <2>4, <2>5, <2>6
<1>5. ASSUME Publish(c)
      PROVE  calls'[c].at = "accepting" /\ flow'[calls'[c].rec] # None
  <2>1. calls[c] # None /\ calls[c].at = "writing" /\ calls[c] \in Call /\ calls[c].rec \in Recording
    BY <1>5, OnItsWay DEF Publish, Working
  <2>2. calls'[c] = [calls[c] EXCEPT !.at = "accepting", !.rev = calls[c].rev]
    BY <1>5 DEF Publish, Moves, ReviewTypeOK
  <2>3. calls'[c].at = "accepting" /\ calls'[c].rec = calls[c].rec
    BY <2>1, <2>2 DEF Call
  <2>4. drafts[calls[c].rec][calls[c].rev] # None
    BY <2>1, <2>3 DEF FlowReady
  <2> QED BY <1>5, <2>1, <2>3, <2>4 DEF Publish, ReviewTypeOK
<1>6. ASSUME Answers(c) PROVE FALSE
  BY <1>6 DEF Answers, ReviewTypeOK
<1>7. ASSUME NEW d \in Caller, d # c,
             Answers(d) \/ (\E at, rev : Moves(d, at, rev)) \/ (\E call : calls' = [calls EXCEPT ![d] = call])
      PROVE  calls'[c] = calls[c]
  BY <1>7 DEF Answers, Moves, ReviewTypeOK
<1>8. \/ calls'[c] = calls[c]
      \/ \E op \in {"review", "refresh", "finalize", "discard"}, r \in Recording :
            \E seen \in {0, Len(drafts[r])} : Begin(c, op, r, seen)
      \/ ReadDraft(c) \/ Compile(c) \/ Publish(c) \/ Answers(c)
  <2>1. ASSUME NEW r \in Recording, Submit(r) \/ Captured(r) PROVE calls'[c] = calls[c]
    BY <2>1 DEF Submit, Captured
  <2>2. ASSUME NEW d \in Caller, NEW op \in {"review", "refresh", "finalize", "discard"},
               NEW r \in Recording, NEW seen \in {0, Len(drafts[r])}, Begin(d, op, r, seen), d # c
        PROVE  calls'[c] = calls[c]
    BY <2>2 DEF Begin, ReviewTypeOK
  <2>3. ASSUME NEW d \in Caller, d # c, ReadDraft(d) \/ Compile(d) \/ Publish(d) PROVE calls'[c] = calls[c]
    BY <2>3, <1>7 DEF ReadDraft, Compile, Publish
  <2>4. ASSUME NEW d \in Caller, Review(d) \/ Accept(d) \/ Discard(d) \/ Fails(d) PROVE Answers(d)
    BY <2>4 DEF Review, Accept, Discard, Fails
  <2>5. ASSUME NEW o \in Operation, Apply(o) \/ \E r \in Recording : Preview(o, r) PROVE calls'[c] = calls[c]
    BY <2>5 DEF Apply, Preview
  <2>6. ASSUME AdoptElsewhere \/ ChangeSource \/ UNCHANGED vars PROVE calls'[c] = calls[c]
    BY <2>6 DEF AdoptElsewhere, ChangeSource, vars
  <2> QED BY <1>7, <2>1, <2>2, <2>3, <2>4, <2>5, <2>6 DEF Next
<1> QED BY <1>1, <1>2, <1>3, <1>4, <1>5, <1>6, <1>8

LEMMA PublishedStep == ASSUME PublishedInv, [Next]_vars PROVE PublishedFirst'
<1> USE DEF PublishedInv
<1> SUFFICES ASSUME NEW r \in Target, state'[r] = "COMPLETED" PROVE flow'[r] # None
  BY DEF PublishedFirst
<1>1. r \in Recording
  BY ReviewAssumption
<1>2. CASE state[r] = "COMPLETED"
  BY <1>2, FlowsRemain DEF PublishedFirst
<1>3. ASSUME state[r] # "COMPLETED", NEW c \in Caller, Accept(c) PROVE flow'[r] # None
  <2>1. calls[c].rec = r
    BY <1>1, <1>3 DEF Accept, ReviewTypeOK
  <2>2. flow[r] # None
    BY <1>3, <2>1 DEF Accept, Working, FlowReady
  <2> QED BY <2>2, FlowsRemain
<1>4. ASSUME state[r] # "COMPLETED" PROVE \E c \in Caller : Accept(c)
  <2>1. ASSUME NEW q \in Recording, Submit(q) \/ Captured(q) PROVE state'[r] # "COMPLETED"
    BY <1>1, <1>4, <2>1 DEF Submit, Captured, ReviewTypeOK
  <2>2. ASSUME NEW c \in Caller, Discard(c) PROVE state'[r] # "COMPLETED"
    BY <1>1, <1>4, <2>2 DEF Discard, ReviewTypeOK
  <2>3. \/ state' = state
        \/ \E q \in Recording : Submit(q) \/ Captured(q)
        \/ \E c \in Caller : Accept(c) \/ Discard(c)
    BY DEF Next, vars, Begin, ReadDraft, Review, Compile, Publish, Fails,
           Preview, Apply, AdoptElsewhere, ChangeSource
  <2> QED BY <1>4, <2>1, <2>2, <2>3
<1> QED BY <1>2, <1>3, <1>4

\* No demonstration is complete without its published flow, wherever a request is
\* refused or cut off on the way (RecordingLifecycle.finalize).
THEOREM PublicationPrecedesCompletion == Spec => []PublishedFirst
<1>1. Init => PublishedInv
  BY Initially, ReviewAssumption DEF Init, PublishedInv, FlowReady, PublishedFirst
<1>2. PublishedInv /\ [Next]_vars => PublishedInv'
  <2>1. ASSUME PublishedInv, [Next]_vars PROVE ReviewTypeOK'
    BY <2>1, TypesStep DEF PublishedInv
  <2> QED BY <2>1, FlowReadyStep, PublishedStep DEF PublishedInv
<1>3. PublishedInv => PublishedFirst
  BY DEF PublishedInv
<1> QED BY <1>1, <1>2, <1>3, PTL DEF Spec

-----------------------------------------------------------------------------
(* What becomes material. *)

\* Material is written by an acceptance, a confirmed replacement, or elsewhere.
LEMMA Writers ==
    ASSUME [Next]_vars
    PROVE  \/ bound' = bound
           \/ \E c \in Caller : Accept(c)
           \/ \E o \in Operation : Apply(o)
           \/ AdoptElsewhere
BY DEF Next, vars, Submit, Captured, Begin, ReadDraft, Review, Compile, Publish, Discard, Fails,
       Preview, ChangeSource

\* What was adopted elsewhere is no recording.
LEMMA ElsewhereIsNone == ASSUME NEW b \in Elsewhere PROVE ~Recorded(b)
BY DEF Elsewhere, Recorded, Binding

LEMMA BuiltCurrent ==
    ASSUME NEW r \in Recording, NEW rev, NEW used, Builds(r, rev), bound' = Bind(r, rev, used)
    PROVE  BindsCurrent
<1> SUFFICES ASSUME NEW m \in Material, bound'[m] # bound[m]
             PROVE  /\ frozen[bound'[m].rec] = source
                    /\ bound'[m].rec \notin Target =>
                        Recorded(bound["resource"]) /\ bound["resource"].rec = Parent[bound'[m].rec]
  BY DEF BindsCurrent
<1>1. bound'[m].rec = r
  BY DEF Bind
<1>2. frozen[r] = source
  BY DEF Builds, Current
<1>3. r \notin Target => Recorded(bound["resource"]) /\ bound["resource"].rec = Parent[r]
  BY DEF Builds, ParentBound, ResourceUsable
<1> QED BY <1>1, <1>2, <1>3

LEMMA CurrentStep == ASSUME ReviewTypeOK, [Next]_vars PROVE BindsCurrent
<1>1. ASSUME NEW c \in Caller, Accept(c) PROVE BindsCurrent
  <2> DEFINE r == calls[c].rec
             rev == calls[c].rev
  <2>1. r \in Recording
    BY <1>1, OnItsWay DEF Accept, Working
  <2>2. Builds(r, rev) /\ (bound' = bound \/ bound' = Bind(r, rev, drafts[r][rev]))
    BY <1>1 DEF Accept, Adopted
  <2>3. CASE bound' = bound
    BY <2>3 DEF BindsCurrent
  <2> QED BY <2>1, <2>2, <2>3, BuiltCurrent
<1>2. ASSUME NEW o \in Operation, Apply(o) PROVE BindsCurrent
  <2> DEFINE r == command[o].rec
  <2>1. r \in Recording
    BY <1>2 DEF Apply, ReviewTypeOK
  <2>2. Builds(r, Len(drafts[r])) /\ bound' = Bind(r, Len(drafts[r]), flow[r])
    BY <1>2 DEF Apply, Offered
  <2> QED BY <2>1, <2>2, BuiltCurrent
<1>3. ASSUME AdoptElsewhere PROVE BindsCurrent
  <2>1. [adopted |-> others'] \in Elsewhere
    BY <1>3, Bounds DEF AdoptElsewhere, ReviewTypeOK, Elsewhere
  <2>2. \A m \in Material : bound'[m] = bound[m] \/ bound'[m] = [adopted |-> others']
    BY <1>3 DEF AdoptElsewhere
  <2> QED BY <2>1, <2>2, ElsewhereIsNone DEF BindsCurrent
<1>4. CASE bound' = bound
  BY <1>4 DEF BindsCurrent
<1> QED BY <1>1, <1>2, <1>3, <1>4, Writers

\* Material is only ever made of a recording whose source is the current one and,
\* for a supplement, next to the resource of its own demonstration
\* (build_recording_bindings), whatever changed since the request or the user looked.
THEOREM MaterialIsCurrent == Spec => BoundWhenCurrent
<1>1. Init => ReviewTypeOK
  BY Initially
<1>2. ReviewTypeOK /\ [Next]_vars => ReviewTypeOK'
  BY TypesStep
<1>3. ReviewTypeOK /\ [Next]_vars => [BindsCurrent]_vars
  BY CurrentStep
<1> QED BY <1>1, <1>2, <1>3, PTL DEF Spec, BoundWhenCurrent

\* The receipts and the writes of an operation change together, once.
LEMMA Receipts ==
    ASSUME ReviewTypeOK, [Next]_vars, NEW o \in Operation
    PROVE  \/ receipt'[o] = receipt[o] /\ writes'[o] = writes[o]
           \/ Apply(o) /\ receipt[o] = None /\ receipt'[o] = command[o].rec
              /\ command[o].rec \in Recording /\ writes'[o] = writes[o] + 1
<1>1. ASSUME NEW p \in Operation, Apply(p)
      PROVE  \/ receipt'[o] = receipt[o] /\ writes'[o] = writes[o]
             \/ Apply(o) /\ receipt[o] = None /\ receipt'[o] = command[o].rec
                /\ command[o].rec \in Recording /\ writes'[o] = writes[o] + 1
  <2>1. CASE p # o
    BY <1>1, <2>1 DEF Apply, ReviewTypeOK
  <2>2. CASE p = o
    BY <1>1, <2>2 DEF Apply, Fresh, ReviewTypeOK
  <2> QED BY <2>1, <2>2
<1>2. UNCHANGED <<receipt, writes>> \/ \E p \in Operation : Apply(p)
  BY DEF Next, vars, Submit, Captured, Begin, ReadDraft, Review, Compile, Publish, Accept, Discard,
         Fails, Preview, AdoptElsewhere, ChangeSource
<1> QED BY <1>1, <1>2

\* An operation without receipt has not written.
Unwritten == \A o \in Operation : writes[o] = IF receipt[o] = None THEN 0 ELSE 1

LEMMA OnceStep == ASSUME ReviewTypeOK, Unwritten, [Next]_vars PROVE Unwritten'
<1>1. None \notin Recording
  BY ReviewAssumption
<1> QED BY <1>1, Receipts DEF Unwritten

\* A replacement is carried out once, however often its request arrives
\* (MaterialService._apply_once).
THEOREM ReplacementsHappenOnce == Spec => []AppliedOnce
<1>1. Init => ReviewTypeOK /\ Unwritten
  BY Initially DEF Init, Unwritten
<1>2. (ReviewTypeOK /\ Unwritten) /\ [Next]_vars => (ReviewTypeOK /\ Unwritten)'
  BY TypesStep, OnceStep
<1>3. ReviewTypeOK /\ Unwritten => AppliedOnce
  BY DEF Unwritten, AppliedOnce
<1> QED BY <1>1, <1>2, <1>3, PTL DEF Spec

LEMMA ApprovalStep ==
    ASSUME ReviewTypeOK, CandidatesNeedApproval, [Next]_vars PROVE CandidatesNeedApproval'
<1>1. None \notin Recording
  BY ReviewAssumption
<1>2. ASSUME NEW m \in Material, bound'[m] = bound[m], Recorded(bound[m]), bound[m].rec \in Candidate
      PROVE  \E o \in Operation : receipt'[o] = bound'[m].rec
  <2>1. PICK o \in Operation : receipt[o] = bound[m].rec
    BY <1>2 DEF CandidatesNeedApproval
  <2>2. receipt[o] # None
    BY <1>1, <1>2, <2>1 DEF Recorded, Binding
  <2> QED BY <1>2, <2>1, <2>2, Receipts
<1>3. ASSUME NEW m \in Material, bound'[m] # bound[m], Recorded(bound'[m]), bound'[m].rec \in Candidate
      PROVE  \E o \in Operation : receipt'[o] = bound'[m].rec
  <2>1. ASSUME NEW c \in Caller, Accept(c) PROVE FALSE
    <3>1. bound' = Bind(calls[c].rec, calls[c].rev, drafts[calls[c].rec][calls[c].rev]) /\ calls[c].rec \notin Candidate
      BY <1>3, <2>1 DEF Accept, Adopted
    <3>2. bound'[m].rec = calls[c].rec
      BY <1>3, <3>1 DEF Bind
    <3> QED BY <1>3, <3>1, <3>2
  <2>2. ASSUME NEW o \in Operation, Apply(o) PROVE receipt'[o] = bound'[m].rec
    <3>1. bound' = Bind(command[o].rec, Len(drafts[command[o].rec]), flow[command[o].rec])
      BY <2>2 DEF Apply
    <3>2. bound'[m].rec = command[o].rec
      BY <1>3, <3>1 DEF Bind
    <3>3. receipt'[o] = command[o].rec
      BY <2>2 DEF Apply, ReviewTypeOK
    <3> QED BY <3>2, <3>3
  <2>3. ASSUME AdoptElsewhere PROVE FALSE
    <3>1. bound'[m] = [adopted |-> others'] /\ [adopted |-> others'] \in Elsewhere
      BY <1>3, <2>3, Bounds DEF AdoptElsewhere, ReviewTypeOK, Elsewhere
    <3> QED BY <1>3, <3>1, ElsewhereIsNone
  <2> QED BY <1>3, <2>1, <2>2, <2>3, Writers
<1> QED BY <1>2, <1>3 DEF CandidatesNeedApproval, Recorded

\* A candidate is no material before a replacement with it was confirmed
\* (RecordingLifecycle.finalize, MaterialService.apply).
THEOREM CandidatesAreApproved == Spec => []CandidatesNeedApproval
<1>1. Init => ReviewTypeOK /\ CandidatesNeedApproval
  BY Initially DEF Init, CandidatesNeedApproval, Recorded
<1>2. (ReviewTypeOK /\ CandidatesNeedApproval) /\ [Next]_vars => (ReviewTypeOK /\ CandidatesNeedApproval)'
  BY TypesStep, ApprovalStep
<1> QED BY <1>1, <1>2, PTL DEF Spec
=============================================================================
