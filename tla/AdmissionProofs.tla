-------------------------- MODULE AdmissionProofs --------------------------
(***************************************************************************)
(* Proofs about JobAdmission, for any number of calls, keys and processes. *)
(***************************************************************************)
EXTENDS JobAdmission, FiniteSetTheorems, TLAPS

USE DEF SameKey, JobsOf, Goes, Told

\* The steps of a call that change no row.
Quiet(s) ==
    \/ LookUp(s) \/ Prepare(s) \/ PrepareFails(s) \/ WriteSnapshot(s) \/ WriteFails(s)
    \/ ReadQueue(s) \/ InsertRefused(s) \/ ResolveRace(s) \/ Undo(s) \/ Ask(s)

\* The steps that insert one.
Admits(s) == Insert(s) \/ InsertUnclear(s)

\* The type invariant of the admission model: whatever the calls, rows are
\* rows, and an answer is a job or a reason.
THEOREM Typing == Spec => []TypeOK
<1>1. Init => TypeOK
  BY AdmissionAssumption DEF Init, TypeOK, Stage
<1>2. ASSUME TypeOK, [Next]_vars PROVE TypeOK'
  <2>1. ASSUME NEW s \in Submission, Quiet(s) PROVE TypeOK'
    <3>1. UNCHANGED <<jobs, unclear>>
      BY <2>1 DEF Quiet, LookUp, Prepare, PrepareFails, WriteSnapshot, WriteFails,
                  ReadQueue, InsertRefused, ResolveRace, Undo, Ask
    <3>2. \E stage \in Stage : Goes(s, stage)
      BY <2>1 DEF Quiet, LookUp, Prepare, PrepareFails, WriteSnapshot, WriteFails,
                  ReadQueue, InsertRefused, ResolveRace, Undo, Ask, Stage
    <3>3. \/ UNCHANGED answer
          \/ \E what \in Submission \cup Refusal : Told(s, what)
      BY <2>1 DEF Quiet, LookUp, Prepare, PrepareFails, WriteSnapshot, WriteFails,
                  ReadQueue, InsertRefused, ResolveRace, Undo, Ask, Resolved,
                  Recalled, Refusal
    <3>4. files' \subseteq files \cup {s} /\ sessions' \subseteq sessions \cup {s}
      BY <2>1 DEF Quiet, LookUp, Prepare, PrepareFails, WriteSnapshot, WriteFails,
                  ReadQueue, InsertRefused, ResolveRace, Undo, Ask
    <3> QED BY <1>2, <3>1, <3>2, <3>3, <3>4 DEF TypeOK
  <2>2. ASSUME NEW s \in Submission, Admits(s) PROVE TypeOK'
    BY <1>2, <2>2, AdmissionAssumption
    DEF Admits, Insert, InsertUnclear, TypeOK, Stage, JobState, Waiting, Refusal
  <2>3. ASSUME NEW s \in Submission, JobMoves(s) PROVE TypeOK'
    BY <1>2, <2>3 DEF JobMoves, TypeOK, JobState, Waiting
  <2>4. ASSUME NEW p \in {Home[s] : s \in Submission}, Stop(p) PROVE TypeOK'
    BY <1>2, <2>4 DEF Stop, TypeOK, Stage
  <2>5. ASSUME UNCHANGED vars PROVE TypeOK'
    BY <1>2, <2>5 DEF vars, TypeOK
  <2> QED BY <1>2, <2>1, <2>2, <2>3, <2>4, <2>5 DEF Next, Call, Quiet, Admits
<1> QED BY <1>1, <1>2, PTL DEF Spec

-----------------------------------------------------------------------------
(* Rows and their snapshots.                                               *)

\* Calls whose clean-up knows what became of the commit: a check reads its job
\* back, a recording has to be told.
Careful(s) == Kind[s] = "CHECK" \/ MaxUnclear["BROWSER_RECORDING"] = 0

\* A call past its write has its snapshot; a row stands only for a call past
\* its insert; a row whose call is careful has its snapshot, and only a check
\* goes on to clean up with a row of its own.
Backed ==
    \A s \in Submission :
        /\ at[s] \in {"written", "checked", "raced"} => s \in files
        /\ jobs[s] # None => at[s] \in {"undoing", "asking", "done", "lost"}
        /\ jobs[s] # None /\ Careful(s) =>
                /\ s \in files
                /\ at[s] = "undoing" => Kind[s] = "CHECK"

LEMMA FilesBacked == Spec => []Backed
<1>1. Init => Backed
  BY DEF Init, Backed
<1>2. ASSUME TypeOK, Backed, [Next]_vars PROVE Backed'
  <2> USE DEF Backed
  <2>1. ASSUME NEW s \in Submission, Quiet(s) PROVE Backed'
    <3>1. jobs' = jobs
      BY <2>1 DEF Quiet, LookUp, Prepare, PrepareFails, WriteSnapshot, WriteFails,
                  ReadQueue, InsertRefused, ResolveRace, Undo, Ask
    <3>2. \A t \in Submission \ {s} : at'[t] = at[t] /\ (t \in files' <=> t \in files)
      BY <1>2, <2>1
      DEF Quiet, LookUp, Prepare, PrepareFails, WriteSnapshot, WriteFails,
          ReadQueue, InsertRefused, ResolveRace, Undo, Ask, TypeOK
    <3>3. at'[s] \in {"written", "checked", "raced"} => s \in files'
      BY <1>2, <2>1
      DEF Quiet, LookUp, Prepare, PrepareFails, WriteSnapshot, WriteFails,
          ReadQueue, InsertRefused, ResolveRace, Undo, Ask, TypeOK
    <3>4. jobs[s] # None => at'[s] \in {"asking", "done"}
      BY <1>2, <2>1
      DEF Quiet, LookUp, Prepare, PrepareFails, WriteSnapshot, WriteFails,
          ReadQueue, InsertRefused, ResolveRace, Undo, Ask, TypeOK
    <3>5. jobs[s] # None /\ Careful(s) => s \in files'
      BY <1>2, <2>1
      DEF Quiet, LookUp, Prepare, PrepareFails, WriteSnapshot, WriteFails,
          ReadQueue, InsertRefused, ResolveRace, Undo, Ask, TypeOK, Orphan
    <3> QED BY <1>2, <3>1, <3>2, <3>3, <3>4, <3>5
  <2>2. ASSUME NEW s \in Submission, Insert(s) PROVE Backed'
    BY <1>2, <2>2 DEF Insert, TypeOK
  <2>3. ASSUME NEW s \in Submission, InsertUnclear(s) PROVE Backed'
    <3>1. Kind[s] \in Kinds
      BY AdmissionAssumption
    <3>2. unclear[Kind[s]] \in Nat /\ unclear[Kind[s]] < MaxUnclear[Kind[s]]
      BY <1>2, <2>3, <3>1 DEF InsertUnclear, TypeOK
    <3>3. MaxUnclear[Kind[s]] # 0
      BY <3>2
    <3>4. Careful(s) => Kind[s] = "CHECK"
      BY <3>1, <3>3 DEF Kinds, Careful
    <3> QED BY <1>2, <2>3, <3>4 DEF InsertUnclear, TypeOK
  <2>4. ASSUME NEW s \in Submission, JobMoves(s) PROVE Backed'
    BY <1>2, <2>4, AdmissionAssumption DEF JobMoves, TypeOK, Waiting
  <2>5. ASSUME NEW p \in {Home[s] : s \in Submission}, Stop(p) PROVE Backed'
    BY <1>2, <2>5 DEF Stop, TypeOK
  <2>6. ASSUME UNCHANGED vars PROVE Backed'
    BY <1>2, <2>6 DEF vars
  <2> QED BY <1>2, <2>1, <2>2, <2>3, <2>4, <2>5, <2>6 DEF Next, Call, Quiet
<1> QED BY <1>1, <1>2, Typing, PTL DEF Spec

\* Where the commits of recordings report what they did, the request of every
\* job still to be executed is on disk: the clean-up of a failed call never
\* takes the snapshot of a job, that of a check not even when its commit is
\* reported failed and took effect.
THEOREM SnapshotsKept ==
    ASSUME MaxUnclear["BROWSER_RECORDING"] = 0
    PROVE  Spec => []RequestsKept
<1>1. Backed => RequestsKept
  BY AdmissionAssumption DEF Backed, RequestsKept, Waiting, Careful
<1> QED BY <1>1, FilesBacked, PTL

\* Where a call stands says what it may have left on disk and in the vault.
Traces ==
    \A s \in Submission :
        /\ at[s] \in {"new", "fresh"} => s \notin files \cup sessions
        /\ at[s] = "frozen" => s \notin files
        /\ at[s] = "asking" => Kind[s] = "CHECK"
        /\ Kind[s] = "CHECK" => s \notin sessions
        /\ at[s] \in {"asking", "done"} /\ jobs[s] = None => s \notin files \cup sessions

\* A call that was refused, or given the job of another call, leaves neither
\* its snapshot nor its credentials behind, at whatever step it failed.
THEOREM FailuresLeaveNothing == Spec => []NothingLeftBehind
<1>1. Init => Traces
  BY DEF Init, Traces
<1>2. ASSUME TypeOK, Traces, [Next]_vars PROVE Traces'
  <2> USE DEF Traces
  <2>1. ASSUME NEW s \in Submission, Quiet(s) PROVE Traces'
    <3>1. jobs' = jobs
      BY <2>1 DEF Quiet, LookUp, Prepare, PrepareFails, WriteSnapshot, WriteFails,
                  ReadQueue, InsertRefused, ResolveRace, Undo, Ask
    <3>2. \A t \in Submission \ {s} :
            /\ at'[t] = at[t]
            /\ t \in files' <=> t \in files
            /\ t \in sessions' <=> t \in sessions
      BY <1>2, <2>1
      DEF Quiet, LookUp, Prepare, PrepareFails, WriteSnapshot, WriteFails,
          ReadQueue, InsertRefused, ResolveRace, Undo, Ask, TypeOK
    <3>3. Kind[s] \in Kinds
      BY AdmissionAssumption
    <3>4. CASE LookUp(s) \/ Prepare(s) \/ PrepareFails(s)
      BY <1>2, <3>1, <3>2, <3>3, <3>4 DEF LookUp, Prepare, PrepareFails, TypeOK, Kinds
    <3>5. CASE WriteSnapshot(s) \/ WriteFails(s) \/ ReadQueue(s)
      BY <1>2, <3>1, <3>2, <3>3, <3>5 DEF WriteSnapshot, WriteFails, ReadQueue, TypeOK
    <3>6. CASE InsertRefused(s) \/ ResolveRace(s) \/ Ask(s)
      BY <1>2, <3>1, <3>2, <3>3, <3>6 DEF InsertRefused, ResolveRace, Ask, TypeOK
    <3>7. CASE Undo(s)
      BY <1>2, <3>1, <3>2, <3>3, <3>7 DEF Undo, Orphan, TypeOK
    <3> QED BY <2>1, <3>4, <3>5, <3>6, <3>7 DEF Quiet
  <2>2. ASSUME NEW s \in Submission, Admits(s) PROVE Traces'
    BY <1>2, <2>2, AdmissionAssumption DEF Admits, Insert, InsertUnclear, TypeOK, Waiting
  <2>3. ASSUME NEW s \in Submission, JobMoves(s) PROVE Traces'
    BY <1>2, <2>3, AdmissionAssumption DEF JobMoves, TypeOK, Waiting
  <2>4. ASSUME NEW p \in {Home[s] : s \in Submission}, Stop(p) PROVE Traces'
    BY <1>2, <2>4 DEF Stop, TypeOK, Active
  <2>5. ASSUME UNCHANGED vars PROVE Traces'
    BY <1>2, <2>5 DEF vars
  <2> QED BY <1>2, <2>1, <2>2, <2>3, <2>4, <2>5 DEF Next, Call, Quiet, Admits
<1>3. Traces => NothingLeftBehind
  BY DEF Traces, NothingLeftBehind
<1> QED BY <1>1, <1>2, <1>3, Typing, PTL DEF Spec

-----------------------------------------------------------------------------
(* Answers.                                                                *)

\* One row per key, and a call is only ever given the row of its own key that
\* was inserted for what it asks.
Idempotent ==
    /\ \A r, s \in Submission :
        jobs[r] # None /\ jobs[s] # None /\ SameKey(r, s) => r = s
    /\ \A s \in Submission : answer[s] \in Submission =>
        /\ jobs[answer[s]] # None
        /\ SameKey(answer[s], s)
        /\ Wish[answer[s]] = Wish[s]

LEMMA OneRowPerKey == Spec => []Idempotent
<1>1. Init => Idempotent
  BY AdmissionAssumption DEF Init, Idempotent
<1>2. ASSUME TypeOK, Idempotent, [Next]_vars PROVE Idempotent'
  <2> USE DEF Idempotent
  <2>1. ASSUME NEW s \in Submission, Quiet(s) PROVE Idempotent'
    <3>1. jobs' = jobs
      BY <2>1 DEF Quiet, LookUp, Prepare, PrepareFails, WriteSnapshot, WriteFails,
                  ReadQueue, InsertRefused, ResolveRace, Undo, Ask
    <3>2. \/ answer' = answer
          \/ \E what \in Refusal : Told(s, what)
          \/ \E r \in JobsOf(s) : Wish[r] = Wish[s] /\ Told(s, r)
      BY <2>1 DEF Quiet, LookUp, Prepare, PrepareFails, WriteSnapshot, WriteFails,
                  ReadQueue, InsertRefused, ResolveRace, Undo, Ask, Resolved,
                  Recalled, SameRequest, Refusal
    <3>3. Refusal \cap Submission = {}
      BY AdmissionAssumption DEF Refusal
    <3> QED BY <1>2, <3>1, <3>2, <3>3 DEF TypeOK
  <2>2. ASSUME NEW s \in Submission, Admits(s) PROVE Idempotent'
    <3>1. JobsOf(s) = {}
      BY <2>2 DEF Admits, Insert, InsertUnclear, Taken
    <3>2. jobs' = [jobs EXCEPT ![s] = Waiting] /\ Waiting # None
      BY <2>2, AdmissionAssumption DEF Admits, Insert, InsertUnclear, Waiting
    <3>3. Told(s, s) \/ Told(s, "REFUSED")
      BY <2>2 DEF Admits, Insert, InsertUnclear
    <3>4. "REFUSED" \notin Submission
      BY AdmissionAssumption
    <3> QED BY <1>2, <3>1, <3>2, <3>3, <3>4 DEF TypeOK
  <2>3. ASSUME NEW s \in Submission, JobMoves(s) PROVE Idempotent'
    <3>1. /\ \A r \in Submission : jobs'[r] # None <=> jobs[r] # None
          /\ answer' = answer
      BY <1>2, <2>3, AdmissionAssumption DEF JobMoves, TypeOK, Waiting
    <3> QED BY <1>2, <3>1
  <2>4. ASSUME NEW p \in {Home[s] : s \in Submission}, Stop(p) PROVE Idempotent'
    BY <1>2, <2>4 DEF Stop
  <2>5. ASSUME UNCHANGED vars PROVE Idempotent'
    BY <1>2, <2>5 DEF vars
  <2> QED BY <1>2, <2>1, <2>2, <2>3, <2>4, <2>5 DEF Next, Call, Quiet, Admits
<1> QED BY <1>1, <1>2, Typing, PTL DEF Spec

\* Calls repeated under one key meet one job, the one they all ask for,
\* whichever of them inserted it and at whatever step the others met it.
THEOREM RepeatsMeet == Spec => []AnswersAgree
<1>1. Idempotent => AnswersAgree
  BY DEF Idempotent, AnswersAgree
<1> QED BY <1>1, OneRowPerKey, PTL

\* What a check is told of the one job of its key is not an error, unless the
\* job is one for another request.
LEMMA RecalledTold ==
    ASSUME TypeOK, Backed, Idempotent,
           NEW s \in Submission, Kind[s] = "CHECK", NEW r \in JobsOf(s), Recalled(s, r),
           answer'[s] \in Refusal, NEW t \in JobsOf(s)
    PROVE  Wish[t] # Wish[s]
<1>1. r \in files
  BY DEF Backed, Careful
<1>2. t = r
  BY DEF Idempotent
<1>3. r \notin Refusal
  BY AdmissionAssumption DEF Refusal
<1> QED BY <1>1, <1>2, <1>3 DEF Recalled, TypeOK

\* A check whose job was accepted, by its own call or by an equal one, is given
\* that job whatever error it met on the way.
THEOREM AcceptedChecksTold == Spec => AcceptedIsTold
<1> DEFINE Told1(s) == Kind[s] = "CHECK" /\ at[s] # "done" /\ at'[s] = "done"
                       /\ answer'[s] \in Refusal
           A == \A s \in Submission : Told1(s) => \A r \in JobsOf(s) : Wish[r] # Wish[s]
<1>1. ASSUME TypeOK, Backed, Idempotent, [Next]_vars PROVE [A]_vars
  <2>1. ASSUME NEW s \in Submission, Quiet(s) PROVE A
    <3>1. \A t \in Submission \ {s} : at'[t] = at[t]
      BY <1>1, <2>1
      DEF Quiet, LookUp, Prepare, PrepareFails, WriteSnapshot, WriteFails,
          ReadQueue, InsertRefused, ResolveRace, Undo, Ask, TypeOK
    <3>2. Told1(s) => \/ JobsOf(s) = {}
                      \/ \E r \in JobsOf(s) : Recalled(s, r)
      BY <1>1, <2>1
      DEF Quiet, LookUp, Prepare, PrepareFails, WriteSnapshot, WriteFails,
          ReadQueue, InsertRefused, ResolveRace, Undo, Ask, TypeOK
    <3>3. Told1(s) => \A r \in JobsOf(s) : Wish[r] # Wish[s]
      BY <1>1, <3>2, RecalledTold
    <3> QED BY <3>1, <3>3
  <2>2. ASSUME NEW s \in Submission, Admits(s) PROVE A
    <3>1. \A t \in Submission \ {s} : at'[t] = at[t]
      BY <1>1, <2>2 DEF Admits, Insert, InsertUnclear, TypeOK
    <3>2. at'[s] = "done" => answer'[s] = s
      BY <1>1, <2>2 DEF Admits, Insert, InsertUnclear, TypeOK
    <3>3. s \notin Refusal
      BY AdmissionAssumption DEF Refusal
    <3> QED BY <3>1, <3>2, <3>3
  <2>3. ASSUME NEW s \in Submission, JobMoves(s) PROVE A
    BY <2>3 DEF JobMoves
  <2>4. ASSUME NEW p \in {Home[s] : s \in Submission}, Stop(p) PROVE A
    BY <2>4 DEF Stop
  <2> QED BY <1>1, <2>1, <2>2, <2>3, <2>4 DEF Next, Call, Quiet, Admits
<1> QED BY <1>1, Typing, FilesBacked, OneRowPerKey, PTL DEF Spec, AcceptedIsTold

-----------------------------------------------------------------------------
(* The limits of the queue.  JobRepository.capacity counts rows, and so    *)
(* must the proof: every step inserts at most one, so the rows are finite  *)
(* however many calls there may be, and an INSERT below a limit leaves at  *)
(* most that many waiting.                                                 *)

Rows == {r \in Submission : jobs[r] # None}

FiniteRows == IsFiniteSet(Rows)

LEMMA StepFinite ==
    ASSUME TypeOK, FiniteRows, [Next]_vars
    PROVE  FiniteRows'
<1>1. \/ Rows' = Rows
      \/ \E s \in Submission : Rows' = Rows \cup {s}
  <2>1. ASSUME NEW s \in Submission, Quiet(s) PROVE Rows' = Rows
    BY <2>1 DEF Quiet, LookUp, Prepare, PrepareFails, WriteSnapshot, WriteFails,
                ReadQueue, InsertRefused, ResolveRace, Undo, Ask, Rows
  <2>2. ASSUME NEW s \in Submission, Admits(s) PROVE Rows' = Rows \cup {s}
    <3>1. jobs' = [jobs EXCEPT ![s] = Waiting] /\ Waiting # None
      BY <2>2, AdmissionAssumption DEF Admits, Insert, InsertUnclear, Waiting
    <3> QED BY <3>1 DEF TypeOK, Rows
  <2>3. ASSUME NEW s \in Submission, JobMoves(s) PROVE Rows' = Rows
    BY <2>3, AdmissionAssumption DEF JobMoves, TypeOK, Waiting, Rows
  <2>4. ASSUME (\E p \in {Home[s] : s \in Submission} : Stop(p)) \/ UNCHANGED vars
        PROVE  Rows' = Rows
    BY <2>4 DEF Stop, vars, Rows
  <2> QED BY <2>1, <2>2, <2>3, <2>4 DEF Next, Call, Quiet, Admits
<1>2. \A s \in Submission : IsFiniteSet(Rows \cup {s})
  BY FS_AddElement DEF FiniteRows
<1> QED BY <1>1, <1>2 DEF FiniteRows

\* The row a call adds to the waiting ones of R, where it found room.
LEMMA OneMoreWaits ==
    ASSUME TypeOK, FiniteRows, NEW s \in Submission, jobs[s] = None,
           jobs' = [jobs EXCEPT ![s] = Waiting],
           NEW R \in SUBSET Submission, NEW limit \in Nat, Queued(R) < limit
    PROVE  Cardinality({r \in R : jobs'[r] = Waiting}) <= limit
<1> DEFINE Q == {r \in R : jobs[r] = Waiting}
           P == {r \in R : jobs'[r] = Waiting}
<1>1. Waiting # None
  BY AdmissionAssumption DEF Waiting
<1>2. IsFiniteSet(Q)
  BY <1>1, FS_Subset, Q \in SUBSET Rows DEF FiniteRows, Rows
<1>3. P = Q \/ P = Q \cup {s}
  BY DEF TypeOK
<1>4. Cardinality(Q) \in Nat /\ Cardinality(Q) < limit
  BY <1>2, FS_CardinalityType DEF Queued
<1>5. Cardinality(Q \cup {s}) <= Cardinality(Q) + 1
  BY <1>2, <1>4, FS_AddElement
<1>6. Cardinality(P) <= Cardinality(Q) + 1
  BY <1>3, <1>4, <1>5
<1>7. Cardinality(Q \cup {s}) \in Nat
  BY <1>2, FS_AddElement, FS_CardinalityType
<1>8. Cardinality(P) \in Nat
  BY <1>3, <1>4, <1>7
<1> QED BY <1>4, <1>6, <1>8

\* No job is admitted beyond a limit: the rows are counted under the write lock
\* that inserts the next one, and where a retry has filled the queue beyond the
\* limit no job is admitted at all.
THEOREM LimitsKept == Spec => NotOversold
<1> DEFINE Mates(s)   == {r \in Submission : Project[r] = Project[s]}
           Likes(s)   == {r \in Mates(s) : Kind[r] = Kind[s]}
           Below(s)   == LET mates == {r \in Submission : Project[r] = Project[s]}
                             queued(R) == Cardinality({r \in R : jobs'[r] = Waiting})
                         IN /\ queued(Submission) <= GlobalLimit
                            /\ queued(mates) <= ProjectLimit
                            /\ queued({r \in mates : Kind[r] = Kind[s]})
                                    <= OperationLimit[Kind[s]]
<1>1. Init => FiniteRows
  <2>1. Init => Rows = {}
    BY DEF Init, Rows
  <2> QED BY <2>1, FS_EmptySet DEF FiniteRows
<1>2. ASSUME TypeOK, FiniteRows, [Next]_vars, NEW s \in Submission,
             jobs[s] = None, jobs'[s] # None
      PROVE  Below(s)
  <2>1. Admits(s)
    <3>1. ASSUME NEW t \in Submission, Quiet(t) PROVE FALSE
      BY <1>2, <3>1 DEF Quiet, LookUp, Prepare, PrepareFails, WriteSnapshot, WriteFails,
                  ReadQueue, InsertRefused, ResolveRace, Undo, Ask
    <3>2. ASSUME NEW t \in Submission, JobMoves(t) PROVE FALSE
      BY <1>2, <3>2, AdmissionAssumption DEF JobMoves, TypeOK, Waiting
    <3>3. ASSUME NEW t \in Submission, Admits(t) PROVE t = s
      BY <1>2, <3>3 DEF Admits, Insert, InsertUnclear, TypeOK
    <3> QED BY <1>2, <3>1, <3>2, <3>3 DEF Next, Call, Quiet, Admits, Stop, vars
  <2>2. Room(s) /\ jobs' = [jobs EXCEPT ![s] = Waiting]
    BY <2>1 DEF Admits, Insert, InsertUnclear, Crowded, Taken
  <2>3. /\ GlobalLimit \in Nat /\ ProjectLimit \in Nat /\ OperationLimit[Kind[s]] \in Nat
        /\ Mates(s) \in SUBSET Submission /\ Likes(s) \in SUBSET Submission
    BY AdmissionAssumption
  <2>4. Queued(Submission) < GlobalLimit /\ Queued(Mates(s)) < ProjectLimit
        /\ Queued(Likes(s)) < OperationLimit[Kind[s]]
    BY <2>2 DEF Room
  <2>5. Cardinality({r \in Submission : jobs'[r] = Waiting}) <= GlobalLimit
    BY <1>2, <2>2, <2>3, <2>4, OneMoreWaits
  <2>6. Cardinality({r \in Mates(s) : jobs'[r] = Waiting}) <= ProjectLimit
    BY <1>2, <2>2, <2>3, <2>4, OneMoreWaits
  <2>7. Cardinality({r \in Likes(s) : jobs'[r] = Waiting}) <= OperationLimit[Kind[s]]
    BY <1>2, <2>2, <2>3, <2>4, OneMoreWaits
  <2> QED BY <2>5, <2>6, <2>7
<1> DEFINE A == \A s \in Submission : jobs[s] = None /\ jobs'[s] # None => Below(s)
<1>3. TypeOK /\ FiniteRows /\ [Next]_vars => [A]_vars
  BY <1>2
<1>4. TypeOK /\ FiniteRows /\ [Next]_vars => FiniteRows'
  BY StepFinite
<1> QED BY <1>1, <1>3, <1>4, Typing, PTL DEF Spec, NotOversold
=============================================================================
