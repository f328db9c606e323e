-------------------------- MODULE JobControlProofs --------------------------
(***************************************************************************)
(* Proofs about JobControl, for every set of jobs and Workers, every       *)
(* attempt budget, lease duration, retry policy and age of a request.      *)
(***************************************************************************)
EXTENDS JobControl, TLAPS

-----------------------------------------------------------------------------
(* What each UPDATE does to the table: the fields it writes, the fields of *)
(* the row it keeps, and that it writes no other row.                      *)

LEMMA ReleasedRow ==
    ASSUME jobs \in [Job -> JobRow], NEW j \in Job,
           NEW to \in JobState, NEW at \in Nat, NEW available \in Nat
    PROVE  LET table == Released(j, to, at, available)
           IN /\ table \in [Job -> JobRow]
              /\ \A k \in Job \ {j} : table[k] = jobs[k]
              /\ table[j].state = to /\ table[j].owner = None /\ table[j].expires = 0
              /\ table[j].attempt = jobs[j].attempt /\ table[j].fence = jobs[j].fence
              /\ table[j].cancel = jobs[j].cancel
BY DEF Released, JobRow

LEMMA RenewedRow ==
    ASSUME jobs \in [Job -> JobRow], NEW j \in Job,
           NEW expires \in Nat, NEW at \in Nat
    PROVE  LET table == Renewed(j, expires, at)
           IN /\ table \in [Job -> JobRow]
              /\ \A k \in Job \ {j} : table[k] = jobs[k]
              /\ table[j].state = jobs[j].state /\ table[j].owner = jobs[j].owner
              /\ table[j].attempt = jobs[j].attempt /\ table[j].fence = jobs[j].fence
              /\ table[j].cancel = jobs[j].cancel /\ table[j].expires = expires
BY DEF JobRow, Renewed

LEMMA RequestedRow ==
    ASSUME jobs \in [Job -> JobRow], NEW j \in Job, NEW at \in Nat
    PROVE  LET table == Requested(j, at)
           IN /\ table \in [Job -> JobRow]
              /\ \A k \in Job \ {j} : table[k] = jobs[k]
              /\ table[j].state = jobs[j].state /\ table[j].owner = jobs[j].owner
              /\ table[j].attempt = jobs[j].attempt /\ table[j].fence = jobs[j].fence
              /\ table[j].expires = jobs[j].expires /\ table[j].cancel = TRUE
BY DEF JobRow, Requested

LEMMA CancelledRow ==
    ASSUME jobs \in [Job -> JobRow], NEW j \in Job, NEW at \in Nat
    PROVE  LET table == Cancelled(j, at)
           IN /\ table \in [Job -> JobRow]
              /\ \A k \in Job \ {j} : table[k] = jobs[k]
              /\ table[j].state = "CANCELLED" /\ table[j].owner = jobs[j].owner
              /\ table[j].attempt = jobs[j].attempt /\ table[j].fence = jobs[j].fence
              /\ table[j].expires = jobs[j].expires /\ table[j].cancel = TRUE
BY DEF JobRow, JobState, Terminal, Cancelled

LEMMA FailedRow ==
    ASSUME jobs \in [Job -> JobRow], NEW j \in Job, NEW at \in Nat
    PROVE  LET table == Failed(j, at)
           IN /\ table \in [Job -> JobRow]
              /\ \A k \in Job \ {j} : table[k] = jobs[k]
              /\ table[j].state = "FAILED" /\ table[j].owner = jobs[j].owner
              /\ table[j].attempt = jobs[j].attempt /\ table[j].fence = jobs[j].fence
              /\ table[j].expires = jobs[j].expires /\ table[j].cancel = jobs[j].cancel
BY DEF JobRow, JobState, Terminal, Failed

\* What the target handlers write is a target state.
LEMMA HandlersWriteTargets ==
    ASSUME NEW j \in Job
    PROVE  /\ NewTarget(j) \in TargetState
           /\ Advanced(j) \in TargetState
           /\ Finished(j, "FAILED") \in TargetState
           /\ Finished(j, "CANCELLED") \in TargetState
           /\ Successes(j) \subseteq TargetState
<1>1. TargetType[j] \in TargetTypes
    BY JobControlAssumption DEF JobControlAssumption
<1> QED
    BY <1>1 DEF TargetTypes, NewTarget, Advanced, Finished, HasLifecycle, Successes,
                TargetState, RunTarget, RecordingTarget

\* A request's clock reading is a number.
LEMMA RecentNat == ASSUME now \in Nat, NEW at \in Recent PROVE at \in Nat
BY DEF Recent

-----------------------------------------------------------------------------
(* What each action does to the rows.                                      *)

\* Only row j changes.
Only(j) == \A k \in Job \ {j} : jobs'[k] = jobs[k]

\* Row j leaves RUNNING for the given state, its lease cleared.
Leaves(j, to) ==
    /\ jobs' \in [Job -> JobRow]
    /\ Only(j)
    /\ jobs'[j].state = to /\ jobs'[j].owner = None /\ jobs'[j].expires = 0
    /\ jobs'[j].attempt = jobs[j].attempt /\ jobs'[j].fence = jobs[j].fence
    /\ jobs'[j].cancel = jobs[j].cancel

LEMMA ClaimEffect ==
    ASSUME TypeOK, NEW w \in Owner, NEW j \in Job, ClaimJob(w, j)
    PROVE  /\ jobs' \in [Job -> JobRow]
           /\ Only(j)
           /\ jobs'[j].state = "RUNNING" /\ jobs'[j].owner = w
           /\ jobs'[j].expires \in Nat \ {0}
           /\ jobs'[j].attempt = jobs[j].attempt + 1
           /\ jobs'[j].fence = jobs[j].fence + 1
           /\ jobs'[j].cancel = jobs[j].cancel
<1>1. PICK at \in Recent :
        jobs' = Leased(j, w, jobs[j].attempt + 1, NextFence(j), at + LeaseDuration, at)
    BY DEF ClaimJob
<1>2. at \in Nat /\ jobs \in [Job -> JobRow]
    BY RecentNat DEF TypeOK
<1> DEFINE n == jobs[j].attempt + 1
           f == NextFence(j)
           e == at + LeaseDuration
<1>3. n \in Nat /\ f \in Nat /\ e \in Nat \ {0} /\ f = jobs[j].fence + 1
    BY <1>2, JobControlAssumption DEF NextFence, JobControlAssumption, JobRow
<1>4. jobs' = Leased(j, w, n, f, e, at)
    BY <1>1
<1> HIDE DEF n, f, e
<1>5. /\ jobs' \in [Job -> JobRow]
      /\ \A k \in Job \ {j} : jobs'[k] = jobs[k]
      /\ jobs'[j].state = "RUNNING" /\ jobs'[j].owner = w /\ jobs'[j].expires = e
      /\ jobs'[j].attempt = n /\ jobs'[j].fence = f /\ jobs'[j].cancel = jobs[j].cancel
  <2>1. e \in Nat
      BY <1>3
  <2>2. LET table == Leased(j, w, n, f, e, at)
        IN /\ table \in [Job -> JobRow]
           /\ \A k \in Job \ {j} : table[k] = jobs[k]
           /\ table[j].state = "RUNNING" /\ table[j].owner = w /\ table[j].expires = e
           /\ table[j].attempt = n /\ table[j].fence = f
           /\ table[j].cancel = jobs[j].cancel
      BY <1>2, <1>3, <2>1 DEF Leased, JobRow, JobState
  <2> QED
      BY <1>4, <2>2
<1> QED
    BY <1>3, <1>5 DEF Only, n

LEMMA RenewEffect ==
    ASSUME TypeOK, NEW w \in Owner, NEW j \in Job, RenewLease(w, j)
    PROVE  /\ jobs' \in [Job -> JobRow]
           /\ Only(j)
           /\ jobs'[j].state = jobs[j].state /\ jobs'[j].owner = jobs[j].owner
           /\ jobs'[j].expires \in Nat \ {0} /\ jobs[j].expires < jobs'[j].expires
           /\ jobs'[j].attempt = jobs[j].attempt /\ jobs'[j].fence = jobs[j].fence
           /\ jobs'[j].cancel = jobs[j].cancel
<1>1. PICK at \in Recent :
        /\ jobs' = Renewed(j, at + LeaseDuration, at)
        /\ jobs[j].expires < at + LeaseDuration
    BY DEF RenewLease
<1>2. at \in Nat /\ jobs \in [Job -> JobRow]
    BY RecentNat DEF TypeOK
<1>3. at + LeaseDuration \in Nat \ {0}
    BY <1>2, JobControlAssumption DEF JobControlAssumption
<1> QED
    BY <1>1, <1>2, <1>3, RenewedRow DEF Only

LEMMA ReleaseEffect ==
    ASSUME TypeOK, NEW j \in Job, NEW to \in JobState, NEW at \in Nat,
           NEW available \in Nat, jobs' = Released(j, to, at, available)
    PROVE  Leaves(j, to)
BY ReleasedRow DEF TypeOK, Only, Leaves

LEMMA ResultEffect ==
    ASSUME TypeOK, NEW w \in Owner, NEW j \in Job, CompleteResult(w, j)
    PROVE  Leaves(j, "SUCCEEDED")
<1>1. PICK at \in Recent : jobs' = Released(j, "SUCCEEDED", at, jobs[j].available)
    BY DEF CompleteResult
<1>2. at \in Nat /\ jobs[j].available \in Nat /\ "SUCCEEDED" \in JobState
    BY RecentNat DEF TypeOK, JobRow, JobState, Terminal
<1> QED
    BY <1>1, <1>2, ReleaseEffect

LEMMA CancellationEffect ==
    ASSUME TypeOK, NEW w \in Owner, NEW j \in Job, NEW fence, NEW at \in Recent,
           EndCancelled(w, j, fence, at)
    PROVE  Leaves(j, "CANCELLED")
<1>1. jobs' = Released(j, "CANCELLED", at, jobs[j].available)
    BY DEF EndCancelled
<1>2. at \in Nat /\ jobs[j].available \in Nat /\ "CANCELLED" \in JobState
    BY RecentNat DEF TypeOK, JobRow, JobState, Terminal
<1> QED
    BY <1>1, <1>2, ReleaseEffect

LEMMA FatalEffect ==
    ASSUME TypeOK, NEW w \in Owner, NEW j \in Job, NEW fence, NEW at \in Recent,
           EndFailed(w, j, fence, at)
    PROVE  Leaves(j, "FAILED")
<1>1. jobs' = Released(j, "FAILED", at, jobs[j].available)
    BY DEF EndFailed
<1>2. at \in Nat /\ jobs[j].available \in Nat /\ "FAILED" \in JobState
    BY RecentNat DEF TypeOK, JobRow, JobState, Terminal
<1> QED
    BY <1>1, <1>2, ReleaseEffect

LEMMA RetryEffect ==
    ASSUME TypeOK, NEW w \in Owner, NEW j \in Job, WriteRetryableFailure(w, j)
    PROVE  Leaves(j, retrying[w].next)
<1>1. retrying[w] \in Retry
    BY DEF TypeOK, WriteRetryableFailure
<1>2. /\ retrying[w].at \in Nat /\ retrying[w].available \in Nat
      /\ retrying[w].next \in JobState
    BY <1>1 DEF Retry, JobState, Waiting, Terminal
<1> QED
    BY <1>2, ReleaseEffect DEF WriteRetryableFailure

LEMMA RecoveryEffect ==
    ASSUME TypeOK, ConfirmRecovery
    PROVE  recovering.job \in Job /\ Leaves(recovering.job, recovering.next)
<1>1. recovering \in Recovery
    BY DEF TypeOK, ConfirmRecovery
<1>2. /\ recovering.job \in Job /\ recovering.at \in Nat /\ recovering.available \in Nat
      /\ recovering.next \in JobState
    BY <1>1 DEF Recovery, JobState, Waiting, Terminal
<1> QED
    BY <1>2, ReleaseEffect DEF ConfirmRecovery

LEMMA ReconcileEffect ==
    ASSUME TypeOK, NEW j \in Job, ReconcileResult(j)
    PROVE  Leaves(j, "SUCCEEDED")
<1>1. PICK at \in Recent : jobs' = Released(j, "SUCCEEDED", at, jobs[j].available)
    BY DEF ReconcileResult
<1>2. at \in Nat /\ jobs[j].available \in Nat /\ "SUCCEEDED" \in JobState
    BY RecentNat DEF TypeOK, JobRow, JobState, Terminal
<1> QED
    BY <1>1, <1>2, ReleaseEffect

\* A request either marks a running row or ends a waiting one.
LEMMA RequestEffect ==
    ASSUME TypeOK, NEW j \in Job, RequestCancellation(j)
    PROVE  /\ jobs' \in [Job -> JobRow]
           /\ Only(j)
           /\ jobs'[j].owner = jobs[j].owner /\ jobs'[j].expires = jobs[j].expires
           /\ jobs'[j].attempt = jobs[j].attempt /\ jobs'[j].fence = jobs[j].fence
           /\ jobs'[j].cancel = TRUE
           /\ \/ jobs[j].state = "RUNNING" /\ jobs'[j].state = "RUNNING"
              \/ jobs[j].state \in Waiting /\ jobs'[j].state = "CANCELLED"
<1>1. PICK at \in Recent :
        \/ jobs[j].state = "RUNNING" /\ jobs' = Requested(j, at)
        \/ jobs[j].state \in Waiting /\ jobs' = Cancelled(j, at)
    BY DEF RequestCancellation
<1>2. at \in Nat /\ jobs \in [Job -> JobRow]
    BY RecentNat DEF TypeOK
<1>3. CASE jobs[j].state = "RUNNING" /\ jobs' = Requested(j, at)
    BY <1>2, <1>3, RequestedRow DEF Only
<1>4. CASE jobs[j].state \in Waiting /\ jobs' = Cancelled(j, at)
    BY <1>2, <1>4, CancelledRow DEF Only
<1> QED
    BY <1>1, <1>3, <1>4

LEMMA WaitingFailureEffect ==
    ASSUME TypeOK, RecordWaitingFailure
    PROVE  /\ failing.job \in Job
           /\ jobs' \in [Job -> JobRow]
           /\ Only(failing.job)
           /\ LET j == failing.job
              IN /\ jobs[j].state \in Waiting /\ jobs'[j].state = "FAILED"
                 /\ jobs'[j].owner = jobs[j].owner /\ jobs'[j].expires = jobs[j].expires
                 /\ jobs'[j].attempt = jobs[j].attempt /\ jobs'[j].fence = jobs[j].fence
                 /\ jobs'[j].cancel = jobs[j].cancel
<1> DEFINE j == failing.job
<1>1. j \in Job
    BY DEF RecordWaitingFailure, TypeOK
<1>2. PICK at \in Recent : jobs' = Failed(j, at)
    BY DEF RecordWaitingFailure
<1>3. /\ at \in Nat /\ jobs \in [Job -> JobRow] /\ jobs[j].state \in Waiting
    BY RecentNat DEF TypeOK, RecordWaitingFailure, StillWaiting
<1> HIDE DEF j
<1> QED
    BY <1>1, <1>2, <1>3, FailedRow DEF Only, j

-----------------------------------------------------------------------------
(* Type correctness.                                                       *)

Trails == [Job -> [source : JobState \cup {None}, target : JobState]]

LEMMA EventType ==
    ASSUME trail \in Trails, NEW j \in Job, NEW source \in JobState, NEW to \in JobState,
           Event(j, source, to)
    PROVE  trail' \in Trails
BY DEF Trails, Event

LEMMA States ==
    /\ "PENDING" \in JobState /\ "RETRY_WAIT" \in JobState /\ "RUNNING" \in JobState
    /\ "SUCCEEDED" \in JobState /\ "FAILED" \in JobState /\ "CANCELLED" \in JobState
BY DEF JobState, Waiting, Terminal

\* Ending an attempt keeps the types, whoever ends it.
LEMMA EndingTyping ==
    ASSUME TypeOK, NEW w \in Owner, NEW j \in Job, NEW fence, NEW at \in Recent,
           EndCancelled(w, j, fence, at) \/ EndFailed(w, j, fence, at),
           claim' \in [Owner -> Claim \cup {None}]
    PROVE  TypeOK'
<1>1. jobs' \in [Job -> JobRow]
    BY CancellationEffect, FatalEffect DEF Leaves
<1>2. trail' \in Trails
    BY EventType, States DEF EndCancelled, EndFailed, TypeOK, Trails
<1>3. target' \in [Job -> TargetState]
    BY HandlersWriteTargets DEF EndCancelled, EndFailed, TypeOK
<1> QED
    BY <1>1, <1>2, <1>3 DEF EndCancelled, EndFailed, TypeOK, Trails

\* The steps of a Worker keep the types.
LEMMA WorkerTyping ==
    ASSUME TypeOK, NEW w \in Owner, NEW j \in Job, WorkerStep(w, j)
    PROVE  TypeOK'
<1>0. trail \in Trails
    BY DEF TypeOK, Trails
<1>1. CASE ClaimJob(w, j)
  <2>1. jobs' \in [Job -> JobRow]
      BY <1>1, ClaimEffect
  <2>2. trail' \in Trails
      BY <1>0, <1>1, EventType, States DEF ClaimJob
  <2>3. target' \in [Job -> TargetState]
      BY <1>1, HandlersWriteTargets DEF ClaimJob, TypeOK
  <2>4. NextFence(j) \in Nat
      BY DEF NextFence, TypeOK, JobRow
  <2>5. claim' \in [Owner -> Claim \cup {None}]
      BY <1>1, <2>4 DEF ClaimJob, TypeOK, Claim
  <2> QED
      BY <1>1, <2>1, <2>2, <2>3, <2>5 DEF ClaimJob, TypeOK, Trails
<1>2. CASE RenewLease(w, j)
  <2>1. jobs' \in [Job -> JobRow]
      BY <1>2, RenewEffect
  <2>2. trail' \in Trails
      BY <1>0, <1>2, EventType, States DEF RenewLease
  <2> QED
      BY <1>2, <2>1, <2>2 DEF RenewLease, TypeOK, Trails
<1>3. CASE CompleteResult(w, j)
  <2>1. jobs' \in [Job -> JobRow]
      BY <1>3, ResultEffect DEF Leaves
  <2>2. trail' \in Trails
      BY <1>0, <1>3, EventType, States DEF CompleteResult
  <2>3. target' \in [Job -> TargetState]
      BY <1>3, HandlersWriteTargets DEF CompleteResult, TypeOK
  <2>4. claim' \in [Owner -> Claim \cup {None}]
      BY <1>3 DEF CompleteResult, TypeOK
  <2>5. published' \in [Job -> Manifest \cup {None}]
    <3>1. PICK at \in Recent :
            published' = IF TargetType[j] \in {"RUN", "REFERENCE_CAPTURE"}
                         THEN [published EXCEPT ![j] =
                                [owner |-> w, fence |-> claim[w].fence, at |-> at]]
                         ELSE published
        BY <1>3 DEF CompleteResult
    <3>2. at \in Nat
        BY RecentNat DEF TypeOK
    <3>3. claim[w].fence \in Nat
        BY <1>3 DEF CompleteResult, TypeOK, Claim
    <3> QED
        BY <3>1, <3>2, <3>3 DEF TypeOK, Manifest
  <2> QED
      BY <1>3, <2>1, <2>2, <2>3, <2>4, <2>5 DEF CompleteResult, TypeOK, Trails
<1>4. CASE PublishWithoutCommit(w, j)
  <2>1. PICK at \in Recent :
          published' = [published EXCEPT ![j] =
                [owner |-> w, fence |-> claim[w].fence, at |-> at]]
      BY <1>4 DEF PublishWithoutCommit
  <2>2. at \in Nat
      BY RecentNat DEF TypeOK
  <2>3. claim[w].fence \in Nat
      BY <1>4 DEF PublishWithoutCommit, TypeOK, Claim
  <2>4. published' \in [Job -> Manifest \cup {None}]
      BY <2>1, <2>2, <2>3 DEF TypeOK, Manifest
  <2>5. claim' \in [Owner -> Claim \cup {None}]
      BY <1>4 DEF PublishWithoutCommit, TypeOK
  <2> QED
      BY <1>4, <2>4, <2>5 DEF PublishWithoutCommit, TypeOK
<1>5. CASE CompleteCancellation(w, j)
    BY <1>5, EndingTyping DEF CompleteCancellation, TypeOK
<1>6. CASE RecordFatalFailure(w, j)
    BY <1>6, EndingTyping DEF RecordFatalFailure, TypeOK
<1>7. CASE ReadRetryableFailure(w, j)
  <2>1. PICK at \in Recent :
          \/ retrying' = [retrying EXCEPT ![w] =
                [at |-> at, next |-> "FAILED", available |-> jobs[j].available]]
          \/ \E d \in RetryDelays : retrying' = [retrying EXCEPT ![w] =
                [at |-> at, next |-> "RETRY_WAIT", available |-> at + d]]
      BY <1>7 DEF ReadRetryableFailure
  <2>2. at \in Nat /\ jobs[j].available \in Nat /\ \A d \in RetryDelays : at + d \in Nat
      BY RecentNat, JobControlAssumption DEF TypeOK, JobControlAssumption, JobRow
  <2>3. retrying' \in [Owner -> Retry \cup {None}]
      BY <2>1, <2>2 DEF TypeOK, Retry
  <2> QED
      BY <1>7, <2>3 DEF ReadRetryableFailure, TypeOK
<1>8. CASE WriteRetryableFailure(w, j)
  <2>1. jobs' \in [Job -> JobRow]
      BY <1>8, RetryEffect DEF Leaves
  <2>2. retrying[w].next \in JobState
      BY <1>8, States DEF WriteRetryableFailure, TypeOK, Retry
  <2>3. trail' \in Trails
      BY <1>0, <1>8, <2>2, EventType, States DEF WriteRetryableFailure
  <2>4. target' \in [Job -> TargetState] /\ claim' \in [Owner -> Claim \cup {None}]
      BY <1>8, HandlersWriteTargets DEF WriteRetryableFailure, TypeOK
  <2>5. retrying' \in [Owner -> Retry \cup {None}]
      BY <1>8 DEF WriteRetryableFailure, TypeOK
  <2> QED
      BY <1>8, <2>1, <2>3, <2>4, <2>5 DEF WriteRetryableFailure, TypeOK, Trails
<1>9. CASE RunnerReports(w, j)
  <2>1. now \in Nat /\ claim[w].fence \in Nat
      BY <1>9 DEF RunnerReports, TypeOK, Claim
  <2>2. published' \in [Job -> Manifest \cup {None}]
      BY <1>9, <2>1 DEF RunnerReports, TypeOK, Manifest
  <2> QED
      BY <1>9, <2>2 DEF RunnerReports, TypeOK
<1> QED
    BY <1>1, <1>2, <1>3, <1>4, <1>5, <1>6, <1>7, <1>8, <1>9 DEF WorkerStep

\* The steps of the control plane keep the types.
LEMMA ControlTyping ==
    ASSUME TypeOK,
           \/ \E j \in Job : ControlStep(j)
           \/ RecordWaitingFailure \/ DropWaitingFailure
           \/ ConfirmRecovery \/ DropRecovery
    PROVE  TypeOK'
<1>0. trail \in Trails
    BY DEF TypeOK, Trails
<1>1. ASSUME NEW j \in Job, RequestCancellation(j) PROVE TypeOK'
  <2>1. jobs' \in [Job -> JobRow]
      BY <1>1, RequestEffect
  <2>2. jobs[j].state \in JobState
      BY DEF TypeOK, JobRow
  <2>3. trail' \in Trails
      BY <1>0, <1>1, <2>2, EventType, States DEF RequestCancellation
  <2>4. target' \in [Job -> TargetState]
      BY <1>1, HandlersWriteTargets DEF RequestCancellation, TypeOK
  <2> QED
      BY <1>1, <2>1, <2>3, <2>4 DEF RequestCancellation, TypeOK, Trails
<1>2. ASSUME NEW j \in Job, ReadWaitingFailure(j) PROVE TypeOK'
    BY <1>2 DEF ReadWaitingFailure, TypeOK
<1>3. ASSUME NEW j \in Job, ReadRecovery(j) PROVE TypeOK'
  <2>1. PICK at \in Recent, to \in {"RETRY_WAIT", "FAILED", "CANCELLED"}, available \in Nat :
          recovering' = [job |-> j, owner |-> jobs[j].owner, fence |-> jobs[j].fence,
                         at |-> at, next |-> to, available |-> available]
    <3>1. PICK at \in Recent :
            LET plan(to, available) ==
                 [job |-> j, owner |-> jobs[j].owner, fence |-> jobs[j].fence,
                  at |-> at, next |-> to, available |-> available]
            IN \/ recovering' = plan("CANCELLED", jobs[j].available)
               \/ recovering' = plan("FAILED", jobs[j].available)
               \/ \E d \in RetryDelays : recovering' = plan("RETRY_WAIT", at + d)
        BY <1>3 DEF ReadRecovery
    <3>2. at \in Nat /\ jobs[j].available \in Nat /\ \A d \in RetryDelays : at + d \in Nat
        BY RecentNat, JobControlAssumption DEF TypeOK, JobControlAssumption, JobRow
    <3> QED
        BY <3>1, <3>2
  <2>2. recovering' \in Recovery
      BY <1>3, <2>1, RecentNat DEF ReadRecovery, TypeOK, JobRow, Recovery
  <2> QED
      BY <1>3, <2>2 DEF ReadRecovery, TypeOK
<1>4. ASSUME NEW j \in Job, ReconcileResult(j) PROVE TypeOK'
  <2>1. jobs' \in [Job -> JobRow]
      BY <1>4, ReconcileEffect DEF Leaves
  <2>2. trail' \in Trails
      BY <1>0, <1>4, EventType, States DEF ReconcileResult
  <2>3. target' \in [Job -> TargetState]
      BY <1>4, HandlersWriteTargets DEF ReconcileResult, TypeOK
  <2> QED
      BY <1>4, <2>1, <2>2, <2>3 DEF ReconcileResult, TypeOK, Trails
<1>5. CASE RecordWaitingFailure
  <2>1. failing.job \in Job /\ jobs' \in [Job -> JobRow]
      BY <1>5, WaitingFailureEffect
  <2>2. failing.seen \in JobState
      BY <1>5 DEF RecordWaitingFailure, TypeOK, JobState
  <2>3. trail' \in Trails
      BY <1>0, <1>5, <2>1, <2>2, EventType, States DEF RecordWaitingFailure
  <2>4. target' \in [Job -> TargetState]
      BY <1>5, <2>1, HandlersWriteTargets DEF RecordWaitingFailure, TypeOK
  <2> QED
      BY <1>5, <2>1, <2>3, <2>4 DEF RecordWaitingFailure, TypeOK, Trails
<1>6. CASE DropWaitingFailure
    BY <1>6 DEF DropWaitingFailure, TypeOK
<1>7. CASE ConfirmRecovery
  <2>1. recovering.job \in Job /\ jobs' \in [Job -> JobRow]
      BY <1>7, RecoveryEffect DEF Leaves
  <2>2. recovering.next \in {"RETRY_WAIT", "FAILED", "CANCELLED"}
      BY <1>7 DEF ConfirmRecovery, TypeOK, Recovery
  <2>3. trail' \in Trails
      BY <1>0, <1>7, <2>1, <2>2, EventType, States DEF ConfirmRecovery
  <2>4. target' \in [Job -> TargetState]
      BY <1>7, <2>1, <2>2, HandlersWriteTargets DEF ConfirmRecovery, TypeOK
  <2> QED
      BY <1>7, <2>1, <2>3, <2>4 DEF ConfirmRecovery, TypeOK, Trails
<1>8. CASE DropRecovery
    BY <1>8 DEF DropRecovery, TypeOK
<1> QED
    BY <1>1, <1>2, <1>3, <1>4, <1>5, <1>6, <1>7, <1>8 DEF ControlStep

LEMMA StepTyping ==
    ASSUME TypeOK, [Next]_vars
    PROVE  TypeOK'
<1>1. CASE Tick
    BY <1>1 DEF Tick, TypeOK
<1>2. ASSUME NEW w \in Owner, LeaveAttempt(w) PROVE TypeOK'
    BY <1>2 DEF LeaveAttempt, TypeOK
<1>3. CASE UNCHANGED vars
    BY <1>3 DEF vars, TypeOK
<1>4. ASSUME NEW w \in Owner, NEW j \in Job, CloseAttempt(w, j) PROVE TypeOK'
    BY <1>4, EndingTyping DEF CloseAttempt, TypeOK
<1>5. ASSUME NEW W, Outage(W) PROVE TypeOK'
    BY <1>5 DEF Outage, TypeOK
<1> QED
    BY <1>1, <1>2, <1>3, <1>4, <1>5, WorkerTyping, ControlTyping DEF Next

LEMMA InitTyping == Init => TypeOK
<1> SUFFICES ASSUME Init PROVE TypeOK
    OBVIOUS
<1>1. \A j \in Job : NewTarget(j) \in TargetState
    BY HandlersWriteTargets
<1>2. \A j \in Job : NewRow \in JobRow
    BY States DEF NewRow, JobRow
<1> QED
    BY <1>1, <1>2, States DEF Init, TypeOK

\* The type invariant, for every instance.
THEOREM Typing == Spec => []TypeOK
BY InitTyping, StepTyping, PTL DEF Spec

-----------------------------------------------------------------------------
(* The rows stay consistent.  A retry and a recovery decide from what they *)
(* read before the lock whether another attempt is left.  The decision     *)
(* still holds when their UPDATE runs, although the UPDATE does not repeat *)
(* the test: it repeats the fence, the fence counts the attempts, and the  *)
(* decision was within the budget at that fence.  PlansWithinBudget states *)
(* the last point and makes RowConstraints inductive.                      *)

PlansWithinBudget ==
    /\ \A w \in Owner : retrying[w] # None =>
        /\ claim[w] # None
        /\ retrying[w].next = "RETRY_WAIT" => claim[w].fence < MaxAttempts[claim[w].job]
    /\ recovering # None /\ recovering.next = "RETRY_WAIT"
        => recovering.fence < MaxAttempts[recovering.job]

RowInv == TypeOK /\ RowConstraints /\ PlansWithinBudget

\* One row changed and is consistent again: all rows are.
LEMMA OneRow ==
    ASSUME RowConstraints, NEW j \in Job, Only(j), RowOK(j)'
    PROVE  RowConstraints'
BY DEF RowConstraints, RowOK, Only

\* A row leaving RUNNING is consistent if the state it takes is allowed.
LEMMA LeavingRow ==
    ASSUME TypeOK, RowConstraints, NEW j \in Job, jobs[j].state = "RUNNING",
           NEW to \in JobState \ {"PENDING", "RUNNING"}, Leaves(j, to),
           to = "CANCELLED" => jobs[j].cancel,
           to = "RETRY_WAIT" => jobs[j].attempt < MaxAttempts[j]
    PROVE  RowConstraints'
<1>1. RowOK(j)
    BY DEF RowConstraints
<1>2. RowOK(j)'
    BY <1>1 DEF RowOK, Leaves
<1> QED
    BY <1>2, OneRow DEF Leaves

\* Ending an attempt keeps the rows consistent, whoever ends it.
LEMMA EndingRows ==
    ASSUME RowInv, NEW w \in Owner, NEW j \in Job, NEW fence, NEW at \in Recent,
           EndCancelled(w, j, fence, at) \/ EndFailed(w, j, fence, at)
    PROVE  RowConstraints'
<1>1. TypeOK /\ RowConstraints
    BY DEF RowInv
<1>2. CASE EndCancelled(w, j, fence, at)
    BY <1>1, <1>2, CancellationEffect, LeavingRow, States DEF EndCancelled, HeldBy
<1>3. CASE EndFailed(w, j, fence, at)
    BY <1>1, <1>3, FatalEffect, LeavingRow, States DEF EndFailed, HeldBy
<1> QED
    BY <1>2, <1>3

LEMMA WorkerRows ==
    ASSUME RowInv, NEW w \in Owner, NEW j \in Job, WorkerStep(w, j)
    PROVE  RowConstraints'
<1> USE DEF RowInv
<1>0. RowOK(j) /\ jobs[j] \in JobRow /\ MaxAttempts[j] \in Nat
    BY JobControlAssumption DEF RowConstraints, TypeOK, JobControlAssumption
<1>1. CASE ClaimJob(w, j)
  <2>1. /\ Only(j)
        /\ jobs'[j].state = "RUNNING" /\ jobs'[j].owner = w
        /\ jobs'[j].expires \in Nat \ {0}
        /\ jobs'[j].attempt = jobs[j].attempt + 1
        /\ jobs'[j].fence = jobs[j].fence + 1
      BY <1>1, ClaimEffect
  <2>2. jobs[j].attempt < MaxAttempts[j]
      BY <1>1 DEF ClaimJob, Claimable
  <2>3. w # None /\ jobs[j].attempt \in Nat
      BY <1>0, JobControlAssumption DEF JobControlAssumption, JobRow
  <2>4. RowOK(j)'
      BY <1>0, <2>1, <2>2, <2>3 DEF RowOK
  <2> QED
      BY <2>1, <2>4, OneRow
<1>2. CASE RenewLease(w, j)
  <2>1. RowOK(j)'
      BY <1>0, <1>2, RenewEffect DEF RowOK, RenewLease, HeldBy
  <2> QED
      BY <1>2, <2>1, RenewEffect, OneRow
<1>3. CASE CompleteResult(w, j)
    BY <1>3, ResultEffect, LeavingRow, States DEF CompleteResult, HeldBy
<1>4. CASE PublishWithoutCommit(w, j)
    BY <1>4 DEF PublishWithoutCommit, RowConstraints, RowOK
<1>5. CASE CompleteCancellation(w, j)
    BY <1>5, EndingRows DEF CompleteCancellation
<1>6. CASE RecordFatalFailure(w, j)
    BY <1>6, EndingRows DEF RecordFatalFailure
<1>7. CASE ReadRetryableFailure(w, j)
    BY <1>7 DEF ReadRetryableFailure, RowConstraints, RowOK
<1>8. CASE WriteRetryableFailure(w, j)
  <2>1. retrying[w].next \in {"RETRY_WAIT", "FAILED"}
      BY <1>8 DEF WriteRetryableFailure, TypeOK, Retry
  <2>2. retrying[w].next = "RETRY_WAIT" => jobs[j].attempt < MaxAttempts[j]
      BY <1>0, <1>8 DEF WriteRetryableFailure, HeldBy, PlansWithinBudget, RowOK
  <2> QED
      BY <1>8, <2>1, <2>2, RetryEffect, LeavingRow, States DEF WriteRetryableFailure, HeldBy
<1>9. CASE RunnerReports(w, j)
    BY <1>9 DEF RunnerReports, RowConstraints, RowOK
<1> QED
    BY <1>1, <1>2, <1>3, <1>4, <1>5, <1>6, <1>7, <1>8, <1>9 DEF WorkerStep

LEMMA ControlRows ==
    ASSUME RowInv,
           \/ \E j \in Job : ControlStep(j)
           \/ RecordWaitingFailure \/ DropWaitingFailure
           \/ ConfirmRecovery \/ DropRecovery
    PROVE  RowConstraints'
<1> USE DEF RowInv
<1>1. ASSUME NEW j \in Job, RequestCancellation(j) PROVE RowConstraints'
  <2>1. RowOK(j)
      BY DEF RowConstraints
  <2>2. RowOK(j)'
      BY <1>1, <2>1, RequestEffect DEF RowOK, Waiting
  <2> QED
      BY <1>1, <2>2, RequestEffect, OneRow
<1>2. ASSUME NEW j \in Job, ReadWaitingFailure(j) PROVE RowConstraints'
    BY <1>2 DEF ReadWaitingFailure, RowConstraints, RowOK
<1>3. ASSUME NEW j \in Job, ReadRecovery(j) PROVE RowConstraints'
    BY <1>3 DEF ReadRecovery, RowConstraints, RowOK
<1>4. ASSUME NEW j \in Job, ReconcileResult(j) PROVE RowConstraints'
    BY <1>4, ReconcileEffect, LeavingRow, States DEF ReconcileResult, Reconcilable, HeldBy
<1>5. CASE RecordWaitingFailure
  <2>0. PICK j \in Job : j = failing.job
      BY <1>5, WaitingFailureEffect
  <2>1. /\ Only(j)
        /\ jobs[j].state \in Waiting /\ jobs'[j].state = "FAILED"
        /\ jobs'[j].owner = jobs[j].owner /\ jobs'[j].expires = jobs[j].expires
        /\ jobs'[j].attempt = jobs[j].attempt /\ jobs'[j].fence = jobs[j].fence
      BY <1>5, <2>0, WaitingFailureEffect
  <2>2. RowOK(j)
      BY DEF RowConstraints
  <2>3. RowOK(j)'
      BY <2>1, <2>2 DEF RowOK, Waiting
  <2> QED
      BY <2>1, <2>3, OneRow
<1>6. CASE DropWaitingFailure
    BY <1>6 DEF DropWaitingFailure, RowConstraints, RowOK
<1>7. CASE ConfirmRecovery
  <2>0. PICK j \in Job : j = recovering.job
      BY <1>7, RecoveryEffect
  <2>1. Leaves(j, recovering.next) /\ jobs[j].state = "RUNNING"
      BY <1>7, <2>0, RecoveryEffect DEF ConfirmRecovery, StillExpired, HeldBy
  <2>2. recovering.next \in {"RETRY_WAIT", "FAILED", "CANCELLED"}
      BY <1>7 DEF ConfirmRecovery, TypeOK, Recovery
  <2>3. recovering.next = "CANCELLED" => jobs[j].cancel
      BY <1>7, <2>0 DEF ConfirmRecovery, StillExpired
  <2>4. recovering.next = "RETRY_WAIT" => jobs[j].attempt < MaxAttempts[j]
      BY <1>7, <2>0 DEF ConfirmRecovery, StillExpired, HeldBy, PlansWithinBudget,
                        RowConstraints, RowOK
  <2> QED
      BY <2>1, <2>2, <2>3, <2>4, LeavingRow, States
<1>8. CASE DropRecovery
    BY <1>8 DEF DropRecovery, RowConstraints, RowOK
<1> QED
    BY <1>1, <1>2, <1>3, <1>4, <1>5, <1>6, <1>7, <1>8 DEF ControlStep


\* What was decided before the lock stays within the budget.
LEMMA PlansStep ==
    ASSUME RowInv, [Next]_vars
    PROVE  PlansWithinBudget'
<1> USE DEF RowInv, PlansWithinBudget
<1>1. ASSUME NEW w \in Owner, NEW j \in Job, WorkerStep(w, j) PROVE PlansWithinBudget'
  <2>1. CASE ClaimJob(w, j)
      BY <2>1 DEF ClaimJob, TypeOK
  <2>2. CASE RenewLease(w, j)
      BY <2>2 DEF RenewLease
  <2>3. CASE CompleteResult(w, j)
      BY <2>3 DEF CompleteResult, TypeOK
  <2>4. CASE PublishWithoutCommit(w, j)
      BY <2>4 DEF PublishWithoutCommit, TypeOK
  <2>5. CASE CompleteCancellation(w, j)
      BY <2>5 DEF CompleteCancellation, EndCancelled, TypeOK
  <2>6. CASE RecordFatalFailure(w, j)
      BY <2>6 DEF RecordFatalFailure, EndFailed, TypeOK
  <2>7. CASE ReadRetryableFailure(w, j)
    <3>1. /\ claim[w] # None /\ claim[w].job = j
          /\ claim[w].fence = jobs[j].attempt
          /\ UNCHANGED <<claim, recovering>>
        BY <2>7 DEF ReadRetryableFailure, HeldBy, RowConstraints, RowOK
    <3>2. PICK at \in Recent :
            \/ retrying' = [retrying EXCEPT ![w] =
                  [at |-> at, next |-> "FAILED", available |-> jobs[j].available]]
            \/ /\ ~(jobs[j].attempt >= MaxAttempts[j])
               /\ \E d \in RetryDelays : retrying' = [retrying EXCEPT ![w] =
                  [at |-> at, next |-> "RETRY_WAIT", available |-> at + d]]
        BY <2>7 DEF ReadRetryableFailure
    <3>3. jobs[j].attempt \in Nat /\ MaxAttempts[j] \in Nat
        BY JobControlAssumption DEF TypeOK, JobRow, JobControlAssumption
    <3>4. \A v \in Owner \ {w} : retrying'[v] = retrying[v]
        BY <3>2 DEF TypeOK
    <3>5. \/ retrying'[w].next = "FAILED"
          \/ jobs[j].attempt < MaxAttempts[j]
        BY <3>2, <3>3 DEF TypeOK
    <3> QED
        BY <3>1, <3>4, <3>5
  <2>8. CASE WriteRetryableFailure(w, j)
      BY <2>8 DEF WriteRetryableFailure, TypeOK
  <2>9. CASE RunnerReports(w, j)
      BY <2>9 DEF RunnerReports
  <2> QED
      BY <1>1, <2>1, <2>2, <2>3, <2>4, <2>5, <2>6, <2>7, <2>8, <2>9 DEF WorkerStep
<1>2. ASSUME NEW j \in Job, ControlStep(j) PROVE PlansWithinBudget'
  <2>1. CASE RequestCancellation(j)
      BY <2>1 DEF RequestCancellation
  <2>2. CASE ReadWaitingFailure(j)
      BY <2>2 DEF ReadWaitingFailure
  <2>3. CASE ReconcileResult(j)
      BY <2>3 DEF ReconcileResult
  <2>4. CASE ReadRecovery(j)
    <3>1. /\ recovering'.job = j
          /\ recovering'.next = "RETRY_WAIT"
                => recovering'.fence = jobs[j].fence /\ jobs[j].attempt < MaxAttempts[j]
        BY <2>4 DEF ReadRecovery
    <3>2. jobs[j].attempt = jobs[j].fence
        BY DEF RowConstraints, RowOK
    <3> QED
        BY <2>4, <3>1, <3>2 DEF ReadRecovery
  <2> QED
      BY <1>2, <2>1, <2>2, <2>3, <2>4 DEF ControlStep
<1>3. CASE Tick
    BY <1>3 DEF Tick
<1>4. ASSUME NEW w \in Owner, LeaveAttempt(w) PROVE PlansWithinBudget'
    BY <1>4 DEF LeaveAttempt, TypeOK
<1>5. CASE RecordWaitingFailure
    BY <1>5 DEF RecordWaitingFailure
<1>6. CASE DropWaitingFailure
    BY <1>6 DEF DropWaitingFailure
<1>7. CASE ConfirmRecovery
    BY <1>7 DEF ConfirmRecovery
<1>8. CASE DropRecovery
    BY <1>8 DEF DropRecovery
<1>9. CASE UNCHANGED vars
    BY <1>9 DEF vars
<1>10. ASSUME NEW w \in Owner, NEW j \in Job, CloseAttempt(w, j) PROVE PlansWithinBudget'
    BY <1>10 DEF CloseAttempt, EndCancelled, EndFailed
<1>11. ASSUME NEW W, Outage(W) PROVE PlansWithinBudget'
    BY <1>11 DEF Outage, TypeOK
<1> QED
    BY <1>1, <1>2, <1>3, <1>4, <1>5, <1>6, <1>7, <1>8, <1>9, <1>10, <1>11 DEF Next

LEMMA InitRows == Init => RowInv
<1> SUFFICES ASSUME Init PROVE RowInv
    OBVIOUS
<1>1. \A j \in Job : MaxAttempts[j] \in Nat \ {0}
    BY JobControlAssumption DEF JobControlAssumption
<1>2. RowConstraints
  <2> SUFFICES ASSUME NEW j \in Job PROVE RowOK(j)
      BY DEF RowConstraints
  <2>1. jobs[j] = [state |-> "PENDING", attempt |-> 0, fence |-> 0, owner |-> None,
                   expires |-> 0, cancel |-> FALSE, available |-> 0, updated |-> 0]
      BY DEF Init, NewRow
  <2>2. /\ jobs[j].state = "PENDING" /\ jobs[j].attempt = 0 /\ jobs[j].fence = 0
        /\ jobs[j].owner = None /\ jobs[j].expires = 0
      BY <2>1
  <2> QED
      BY <1>1, <2>2 DEF RowOK
<1>3. PlansWithinBudget
    BY DEF Init, PlansWithinBudget
<1> QED
    BY <1>2, <1>3, InitTyping DEF RowInv

LEMMA StepRows == RowInv /\ [Next]_vars => RowInv'
<1> SUFFICES ASSUME RowInv, [Next]_vars PROVE RowInv'
    OBVIOUS
<1>1. TypeOK'
    BY StepTyping DEF RowInv
<1>2. PlansWithinBudget'
    BY PlansStep
<1>3. ASSUME Tick PROVE RowConstraints'
    BY <1>3 DEF Tick, RowInv, RowConstraints, RowOK
<1>4. ASSUME NEW w \in Owner, LeaveAttempt(w) PROVE RowConstraints'
    BY <1>4 DEF LeaveAttempt, RowInv, RowConstraints, RowOK
<1>5. ASSUME UNCHANGED vars PROVE RowConstraints'
    BY <1>5 DEF vars, RowInv, RowConstraints, RowOK
<1>6. ASSUME NEW w \in Owner, NEW j \in Job, CloseAttempt(w, j) PROVE RowConstraints'
    BY <1>6, EndingRows DEF CloseAttempt
<1>7. ASSUME NEW W, Outage(W) PROVE RowConstraints'
    BY <1>7 DEF Outage, RowInv, RowConstraints, RowOK
<1>8. RowConstraints'
    BY <1>3, <1>4, <1>5, <1>6, <1>7, WorkerRows, ControlRows DEF Next, RowInv, RowConstraints
<1> QED
    BY <1>1, <1>2, <1>8 DEF RowInv

\* The table's CHECK constraints and the attempt budget hold in every
\* reachable state, for every number of Workers, however stale.
THEOREM RowsConsistent == Spec => []RowConstraints
<1>1. RowInv => RowConstraints
    BY DEF RowInv
<1> QED
    BY <1>1, InitRows, StepRows, PTL DEF Spec

-----------------------------------------------------------------------------
(* How jobs end.  Every step changes at most one job, and that in one of   *)
(* five ways; what the job table promises about targets, events, the end   *)
(* of a job and cancellation follows from them, and so does that the table *)
(* implements JobLifecycle.                                                *)

(* The five ways a job may change.                                         *)

\* Job j alone changes, its last event names the new state, and a request to
\* cancel it stays on record.
Touches(j) ==
    /\ Only(j)
    /\ \A k \in Job \ {j} : target'[k] = target[k] /\ trail'[k] = trail[k]
    /\ trail'[j].target = jobs'[j].state
    /\ jobs[j].cancel => jobs'[j].cancel

Stays(j) ==
    /\ jobs[j].state = "RUNNING" /\ jobs'[j].state = "RUNNING"
    /\ jobs'[j].fence = jobs[j].fence /\ jobs'[j].owner = jobs[j].owner
    /\ jobs[j].expires <= jobs'[j].expires
    /\ target'[j] = target[j]

Begins(j) ==
    /\ jobs[j].state \in Waiting /\ jobs'[j].state = "RUNNING"
    /\ ~jobs[j].cancel /\ jobs[j].attempt < MaxAttempts[j]
    /\ jobs'[j].fence = jobs[j].fence + 1 /\ target'[j] = Advanced(j)

PutsBack(j) ==
    /\ jobs[j].state = "RUNNING" /\ jobs'[j].state = "RETRY_WAIT"
    /\ jobs'[j].fence = jobs[j].fence /\ target'[j] = target[j]

Succeeds(j) ==
    /\ jobs[j].state = "RUNNING" /\ jobs'[j].state = "SUCCEEDED"
    /\ TargetType[j] # "RECORDING" => ~jobs[j].cancel
    /\ jobs'[j].fence = jobs[j].fence /\ target'[j] \in Successes(j)

Stops(j) ==
    /\ jobs[j].state \in Waiting \cup {"RUNNING"}
    /\ jobs'[j].state \in {"FAILED", "CANCELLED"}
    /\ jobs'[j].fence = jobs[j].fence
    /\ target'[j] = Finished(j, jobs'[j].state)

Moves(j) ==
    Touches(j) /\ (Stays(j) \/ Begins(j) \/ PutsBack(j) \/ Succeeds(j) \/ Stops(j))

\* What an event and a row with its target leave behind.
LEMMA EventNames ==
    ASSUME TypeOK, NEW j \in Job, NEW source, NEW to, Event(j, source, to)
    PROVE  trail'[j].target = to /\ \A k \in Job \ {j} : trail'[k] = trail[k]
BY DEF TypeOK, Event

LEMMA TargetSet ==
    ASSUME TypeOK, NEW j \in Job, NEW t, target' = [target EXCEPT ![j] = t]
    PROVE  target'[j] = t /\ \A k \in Job \ {j} : target'[k] = target[k]
BY DEF TypeOK

LEMMA EndingMoves ==
    ASSUME TypeOK, NEW w \in Owner, NEW j \in Job, NEW fence, NEW at \in Recent,
           EndCancelled(w, j, fence, at) \/ EndFailed(w, j, fence, at)
    PROVE  Moves(j)
<1>1. CASE EndCancelled(w, j, fence, at)
  <2>1. Leaves(j, "CANCELLED") /\ jobs[j].state = "RUNNING"
      BY <1>1, CancellationEffect DEF EndCancelled, HeldBy
  <2>2. /\ trail'[j].target = "CANCELLED"
        /\ \A k \in Job \ {j} : trail'[k] = trail[k]
      BY <1>1, EventNames DEF EndCancelled
  <2>3. /\ target'[j] = Finished(j, "CANCELLED")
        /\ \A k \in Job \ {j} : target'[k] = target[k]
      BY <1>1, TargetSet DEF EndCancelled
  <2> QED
      BY <2>1, <2>2, <2>3 DEF Moves, Touches, Stops, Leaves
<1>2. CASE EndFailed(w, j, fence, at)
  <2>1. Leaves(j, "FAILED") /\ jobs[j].state = "RUNNING"
      BY <1>2, FatalEffect DEF EndFailed, HeldBy
  <2>2. /\ trail'[j].target = "FAILED"
        /\ \A k \in Job \ {j} : trail'[k] = trail[k]
      BY <1>2, EventNames DEF EndFailed
  <2>3. /\ target'[j] = Finished(j, "FAILED")
        /\ \A k \in Job \ {j} : target'[k] = target[k]
      BY <1>2, TargetSet DEF EndFailed
  <2> QED
      BY <2>1, <2>2, <2>3 DEF Moves, Touches, Stops, Leaves
<1> QED
    BY <1>1, <1>2

\* Nothing a reader of the table sees changes.
Rests == UNCHANGED <<jobs, target, trail>>

LEMMA WorkerMoves ==
    ASSUME TypeOK, NEW w \in Owner, NEW j \in Job, WorkerStep(w, j)
    PROVE  Moves(j) \/ Rests
<1>1. CASE ClaimJob(w, j)
  <2>1. /\ Only(j) /\ jobs'[j].state = "RUNNING"
        /\ jobs'[j].fence = jobs[j].fence + 1 /\ jobs'[j].cancel = jobs[j].cancel
      BY <1>1, ClaimEffect
  <2>2. /\ jobs[j].state \in Waiting /\ ~jobs[j].cancel
        /\ jobs[j].attempt < MaxAttempts[j]
      BY <1>1 DEF ClaimJob, Claimable
  <2>3. /\ trail'[j].target = "RUNNING"
        /\ \A k \in Job \ {j} : trail'[k] = trail[k]
      BY <1>1, EventNames DEF ClaimJob
  <2>4. /\ target'[j] = Advanced(j)
        /\ \A k \in Job \ {j} : target'[k] = target[k]
      BY <1>1, TargetSet DEF ClaimJob
  <2> QED
      BY <2>1, <2>2, <2>3, <2>4 DEF Moves, Touches, Begins
<1>2. CASE RenewLease(w, j)
  <2>1. /\ Only(j) /\ jobs'[j].state = jobs[j].state /\ jobs'[j].owner = jobs[j].owner
        /\ jobs'[j].fence = jobs[j].fence /\ jobs'[j].cancel = jobs[j].cancel
        /\ jobs[j].expires < jobs'[j].expires
        /\ jobs[j].expires \in Nat /\ jobs'[j].expires \in Nat
      BY <1>2, RenewEffect DEF TypeOK, JobRow
  <2>2. jobs[j].state = "RUNNING" /\ UNCHANGED target
      BY <1>2 DEF RenewLease, HeldBy
  <2>3. /\ trail'[j].target = "RUNNING"
        /\ \A k \in Job \ {j} : trail'[k] = trail[k]
      BY <1>2, EventNames DEF RenewLease
  <2> QED
      BY <2>1, <2>2, <2>3 DEF Moves, Touches, Stays
<1>3. CASE CompleteResult(w, j)
  <2>1. Leaves(j, "SUCCEEDED") /\ jobs[j].state = "RUNNING"
      BY <1>3, ResultEffect DEF CompleteResult, HeldBy
  <2>2. TargetType[j] # "RECORDING" => ~jobs[j].cancel
      BY <1>3 DEF CompleteResult, Acceptable
  <2>3. /\ trail'[j].target = "SUCCEEDED"
        /\ \A k \in Job \ {j} : trail'[k] = trail[k]
      BY <1>3, EventNames DEF CompleteResult
  <2>4. PICK t \in Successes(j) : target' = [target EXCEPT ![j] = t]
      BY <1>3 DEF CompleteResult
  <2>5. /\ target'[j] \in Successes(j)
        /\ \A k \in Job \ {j} : target'[k] = target[k]
      BY <2>4, TargetSet
  <2> QED
      BY <2>1, <2>2, <2>3, <2>5 DEF Moves, Touches, Succeeds, Leaves
<1>4. CASE PublishWithoutCommit(w, j)
    BY <1>4 DEF PublishWithoutCommit, Rests
<1>5. CASE CompleteCancellation(w, j)
    BY <1>5, EndingMoves DEF CompleteCancellation
<1>6. CASE RecordFatalFailure(w, j)
    BY <1>6, EndingMoves DEF RecordFatalFailure
<1>7. CASE ReadRetryableFailure(w, j)
    BY <1>7 DEF ReadRetryableFailure, Rests
<1>8. CASE WriteRetryableFailure(w, j)
  <2>1. /\ Leaves(j, retrying[w].next) /\ jobs[j].state = "RUNNING"
        /\ retrying[w].next \in {"RETRY_WAIT", "FAILED"}
      BY <1>8, RetryEffect DEF WriteRetryableFailure, HeldBy, TypeOK, Retry
  <2>2. /\ trail'[j].target = retrying[w].next
        /\ \A k \in Job \ {j} : trail'[k] = trail[k]
      BY <1>8, EventNames DEF WriteRetryableFailure
  <2>3. CASE retrying[w].next = "FAILED"
    <3>1. /\ target'[j] = Finished(j, "FAILED")
          /\ \A k \in Job \ {j} : target'[k] = target[k]
        BY <1>8, <2>3, TargetSet DEF WriteRetryableFailure
    <3> QED
        BY <2>1, <2>2, <2>3, <3>1 DEF Moves, Touches, Stops, Leaves
  <2>4. CASE retrying[w].next = "RETRY_WAIT"
    <3>1. UNCHANGED target
        BY <1>8, <2>4 DEF WriteRetryableFailure
    <3> QED
        BY <2>1, <2>2, <2>4, <3>1 DEF Moves, Touches, PutsBack, Leaves
  <2> QED
      BY <2>1, <2>3, <2>4
<1>9. CASE RunnerReports(w, j)
    BY <1>9 DEF RunnerReports, Rests
<1> QED
    BY <1>1, <1>2, <1>3, <1>4, <1>5, <1>6, <1>7, <1>8, <1>9 DEF WorkerStep

LEMMA ControlMoves ==
    ASSUME TypeOK,
           \/ \E j \in Job : ControlStep(j)
           \/ RecordWaitingFailure \/ DropWaitingFailure
           \/ ConfirmRecovery \/ DropRecovery
    PROVE  Rests \/ \E j \in Job : Moves(j)
<1>1. ASSUME NEW j \in Job, RequestCancellation(j) PROVE Moves(j)
  <2>1. /\ Only(j) /\ jobs'[j].owner = jobs[j].owner
        /\ jobs'[j].fence = jobs[j].fence /\ jobs'[j].cancel = TRUE
        /\ \/ jobs[j].state = "RUNNING" /\ jobs'[j].state = "RUNNING"
           \/ jobs[j].state \in Waiting /\ jobs'[j].state = "CANCELLED"
      BY <1>1, RequestEffect
  <2>2. /\ trail'[j].target = jobs'[j].state
        /\ \A k \in Job \ {j} : trail'[k] = trail[k]
    <3>1. \/ jobs[j].state = "RUNNING" /\ Event(j, "RUNNING", "RUNNING")
          \/ jobs[j].state \in Waiting /\ Event(j, jobs[j].state, "CANCELLED")
        BY <1>1 DEF RequestCancellation
    <3> QED
        BY <2>1, <3>1, EventNames DEF Waiting
  <2>3. CASE jobs[j].state = "RUNNING"
    <3>1. UNCHANGED target
        BY <1>1, <2>3 DEF RequestCancellation, Waiting
    <3>2. jobs[j].expires \in Nat /\ jobs'[j].expires = jobs[j].expires
        BY <1>1, RequestEffect DEF TypeOK, JobRow
    <3> QED
        BY <2>1, <2>2, <2>3, <3>1, <3>2 DEF Moves, Touches, Stays, Waiting
  <2>4. CASE jobs[j].state \in Waiting
    <3>1. /\ target'[j] = Finished(j, "CANCELLED")
          /\ \A k \in Job \ {j} : target'[k] = target[k]
        BY <1>1, <2>4, TargetSet DEF RequestCancellation, Waiting
    <3> QED
        BY <2>1, <2>2, <2>4, <3>1 DEF Moves, Touches, Stops, Waiting
  <2> QED
      BY <2>1, <2>3, <2>4
<1>2. ASSUME NEW j \in Job, ReadWaitingFailure(j) PROVE Rests
    BY <1>2 DEF ReadWaitingFailure, Rests
<1>3. ASSUME NEW j \in Job, ReadRecovery(j) PROVE Rests
    BY <1>3 DEF ReadRecovery, Rests
<1>4. ASSUME NEW j \in Job, ReconcileResult(j) PROVE Moves(j)
  <2>1. Leaves(j, "SUCCEEDED") /\ jobs[j].state = "RUNNING" /\ ~jobs[j].cancel
      BY <1>4, ReconcileEffect DEF ReconcileResult, Reconcilable, HeldBy
  <2>2. /\ trail'[j].target = "SUCCEEDED"
        /\ \A k \in Job \ {j} : trail'[k] = trail[k]
      BY <1>4, EventNames DEF ReconcileResult
  <2>3. PICK t \in Successes(j) : target' = [target EXCEPT ![j] = t]
      BY <1>4 DEF ReconcileResult
  <2>4. /\ target'[j] \in Successes(j)
        /\ \A k \in Job \ {j} : target'[k] = target[k]
      BY <2>3, TargetSet
  <2> QED
      BY <2>1, <2>2, <2>4 DEF Moves, Touches, Succeeds, Leaves
<1>5. CASE RecordWaitingFailure
  <2>1. PICK j \in Job : j = failing.job
      BY <1>5, WaitingFailureEffect
  <2>2. /\ Only(j) /\ jobs[j].state \in Waiting /\ jobs'[j].state = "FAILED"
        /\ jobs'[j].fence = jobs[j].fence /\ jobs'[j].cancel = jobs[j].cancel
      BY <1>5, <2>1, WaitingFailureEffect
  <2>3. /\ trail'[j].target = "FAILED"
        /\ \A k \in Job \ {j} : trail'[k] = trail[k]
      BY <1>5, <2>1, EventNames DEF RecordWaitingFailure
  <2>4. /\ target'[j] = Finished(j, "FAILED")
        /\ \A k \in Job \ {j} : target'[k] = target[k]
      BY <1>5, <2>1, TargetSet DEF RecordWaitingFailure
  <2> QED
      BY <2>2, <2>3, <2>4 DEF Moves, Touches, Stops
<1>6. CASE DropWaitingFailure
    BY <1>6 DEF DropWaitingFailure, Rests
<1>7. CASE ConfirmRecovery
  <2>1. PICK j \in Job : j = recovering.job
      BY <1>7, RecoveryEffect
  <2>2. /\ Leaves(j, recovering.next) /\ jobs[j].state = "RUNNING"
        /\ recovering.next \in {"RETRY_WAIT", "FAILED", "CANCELLED"}
      BY <1>7, <2>1, RecoveryEffect DEF ConfirmRecovery, StillExpired, HeldBy, TypeOK, Recovery
  <2>3. /\ trail'[j].target = recovering.next
        /\ \A k \in Job \ {j} : trail'[k] = trail[k]
      BY <1>7, <2>1, EventNames DEF ConfirmRecovery
  <2>4. CASE recovering.next = "RETRY_WAIT"
    <3>1. UNCHANGED target
        BY <1>7, <2>4 DEF ConfirmRecovery
    <3> QED
        BY <2>2, <2>3, <2>4, <3>1 DEF Moves, Touches, PutsBack, Leaves
  <2>5. CASE recovering.next # "RETRY_WAIT"
    <3>1. /\ target'[j] = Finished(j, recovering.next)
          /\ \A k \in Job \ {j} : target'[k] = target[k]
        BY <1>7, <2>1, <2>5, TargetSet DEF ConfirmRecovery
    <3> QED
        BY <2>2, <2>3, <2>5, <3>1 DEF Moves, Touches, Stops, Leaves
  <2> QED
      BY <2>4, <2>5
<1>8. CASE DropRecovery
    BY <1>8 DEF DropRecovery, Rests
<1> QED
    BY <1>1, <1>2, <1>3, <1>4, <1>5, <1>6, <1>7, <1>8 DEF ControlStep

\* Every step changes one job in one of the five ways, or none.
LEMMA StepMoves ==
    ASSUME TypeOK, [Next]_vars
    PROVE  Rests \/ \E j \in Job : Moves(j)
<1>1. ASSUME Tick PROVE Rests
    BY <1>1 DEF Tick, Rests
<1>2. ASSUME NEW w \in Owner, LeaveAttempt(w) PROVE Rests
    BY <1>2 DEF LeaveAttempt, Rests
<1>3. ASSUME UNCHANGED vars PROVE Rests
    BY <1>3 DEF vars, Rests
<1>4. ASSUME NEW w \in Owner, NEW j \in Job, CloseAttempt(w, j) PROVE Moves(j)
    BY <1>4, EndingMoves DEF CloseAttempt
<1>5. ASSUME NEW W, Outage(W) PROVE Rests
    BY <1>5 DEF Outage, Rests
<1> QED
    BY <1>1, <1>2, <1>3, <1>4, <1>5, WorkerMoves, ControlMoves DEF Next

-----------------------------------------------------------------------------
(* What follows for targets, events and the end of a job.                  *)

AgreesAt(j) ==
    CASE jobs[j].state = "PENDING" -> target[j] = NewTarget(j)
      [] jobs[j].state \in {"RUNNING", "RETRY_WAIT"} -> target[j] = Advanced(j)
      [] jobs[j].state = "SUCCEEDED" -> target[j] \in Successes(j)
      [] OTHER -> target[j] = IF HasLifecycle(j) THEN jobs[j].state ELSE "NONE"

LEMMA AgreesEverywhere == TargetAgrees <=> \A j \in Job : AgreesAt(j)
BY DEF TargetAgrees, AgreesAt

LEMMA MovedAgrees ==
    ASSUME TypeOK, NEW j \in Job, Moves(j), AgreesAt(j)
    PROVE  AgreesAt(j)'
<1>1. CASE Stays(j)
    BY <1>1 DEF Stays, AgreesAt, Advanced
<1>2. CASE Begins(j)
    BY <1>2 DEF Begins, AgreesAt, Advanced
<1>3. CASE PutsBack(j)
    BY <1>3 DEF PutsBack, AgreesAt, Advanced
<1>4. CASE Succeeds(j)
    BY <1>4 DEF Succeeds, AgreesAt, Successes
<1>5. CASE Stops(j)
    BY <1>5 DEF Stops, AgreesAt, Finished, HasLifecycle
<1> QED
    BY <1>1, <1>2, <1>3, <1>4, <1>5 DEF Moves

LEMMA StepAgrees == TypeOK /\ TargetAgrees /\ [Next]_vars => TargetAgrees'
<1> SUFFICES ASSUME TypeOK, TargetAgrees, [Next]_vars, NEW k \in Job PROVE AgreesAt(k)'
    BY AgreesEverywhere DEF TargetAgrees, AgreesAt
<1>1. \A j \in Job : AgreesAt(j)
    BY AgreesEverywhere
<1>2. CASE Rests
    BY <1>1, <1>2 DEF Rests, AgreesAt, Advanced, Successes, HasLifecycle, NewTarget
<1>3. ASSUME NEW j \in Job, Moves(j), j # k PROVE AgreesAt(k)'
  <2>1. jobs'[k] = jobs[k] /\ target'[k] = target[k]
      BY <1>3 DEF Moves, Touches, Only
  <2> QED
      BY <1>1, <2>1 DEF AgreesAt, Advanced, Successes, HasLifecycle, NewTarget
<1>4. ASSUME Moves(k) PROVE AgreesAt(k)'
    BY <1>1, <1>4, MovedAgrees
<1> QED
    BY <1>2, <1>3, <1>4, StepMoves

LEMMA InitRow ==
    ASSUME Init, NEW j \in Job
    PROVE  /\ jobs[j].state = "PENDING" /\ jobs[j].fence = 0
           /\ target[j] = NewTarget(j) /\ trail[j].target = "PENDING"
<1>1. jobs[j] = NewRow /\ target[j] = NewTarget(j)
    BY DEF Init
<1>2. trail[j] = [source |-> None, target |-> "PENDING"]
    BY DEF Init
<1> QED
    BY <1>1, <1>2 DEF NewRow

LEMMA InitAgrees == Init => TargetAgrees
BY InitRow DEF TargetAgrees

\* Job and target end together, whatever Workers and supervisor do: the
\* handlers of targets.py write in the transaction that writes the row.
THEOREM TargetsAgree == Spec => []TargetAgrees
BY InitAgrees, StepAgrees, Typing, PTL DEF Spec

LEMMA StepTrail == TypeOK /\ TrailEndsInState /\ [Next]_vars => TrailEndsInState'
<1> SUFFICES ASSUME TypeOK, TrailEndsInState, [Next]_vars, NEW k \in Job
             PROVE  trail'[k].target = jobs'[k].state
    BY DEF TrailEndsInState
<1>1. CASE Rests
    BY <1>1 DEF Rests, TrailEndsInState
<1>2. ASSUME NEW j \in Job, Moves(j) PROVE trail'[k].target = jobs'[k].state
    BY <1>2 DEF Moves, Touches, Only, TrailEndsInState
<1> QED
    BY <1>1, <1>2, StepMoves

\* Whoever reads the events of a job last reads the state it is in: every
\* service appends its event in the transaction that writes the row.
THEOREM EventsEndInState == Spec => []TrailEndsInState
<1>1. Init => TrailEndsInState
    BY InitRow DEF TrailEndsInState
<1> QED
    BY <1>1, StepTrail, Typing, PTL DEF Spec

\* No retry, recovery, cancellation or late Worker reopens a job that is over
\* or rewrites how its target ended.
THEOREM TerminalJobsStay == Spec => TerminalIsFinal
<1>1. ASSUME TypeOK, [Next]_vars, NEW k \in Job, jobs[k].state \in Terminal
      PROVE  jobs'[k] = jobs[k] /\ target'[k] = target[k]
  <2>1. CASE Rests
      BY <2>1 DEF Rests
  <2>2. ASSUME NEW j \in Job, Moves(j)
        PROVE  jobs'[k] = jobs[k] /\ target'[k] = target[k]
    <3>1. j # k
        BY <1>1, <2>2 DEF Moves, Stays, Begins, PutsBack, Succeeds, Stops, Waiting, Terminal
    <3> QED
        BY <2>2, <3>1 DEF Moves, Touches, Only
  <2> QED
      BY <1>1, <2>1, <2>2, StepMoves
<1>2. TypeOK /\ [Next]_vars =>
        [\A j \in Job : jobs[j].state \in Terminal
            => jobs'[j] = jobs[j] /\ target'[j] = target[j]]_vars
    BY <1>1
<1> QED
    BY <1>2, Typing, PTL DEF Spec, TerminalIsFinal

\* A cancellation on record wins over every attempt to come and, except for a
\* recording, over the result of the attempt under way.
THEOREM CancellationWins == Spec => CancelledNeverSucceeds
<1>1. ASSUME TypeOK, [Next]_vars, NEW k \in Job, jobs[k].cancel
      PROVE  /\ TargetType[k] # "RECORDING" /\ jobs[k].state # "SUCCEEDED"
                 => jobs'[k].state # "SUCCEEDED"
             /\ jobs[k].state # "RUNNING" => jobs'[k].state # "RUNNING"
  <2>1. CASE Rests
      BY <2>1 DEF Rests
  <2>2. ASSUME NEW j \in Job, Moves(j), j # k PROVE jobs'[k] = jobs[k]
      BY <2>2 DEF Moves, Touches, Only
  <2>3. CASE Moves(k)
      BY <1>1, <2>3 DEF Moves, Stays, Begins, PutsBack, Succeeds, Stops
  <2> QED
      BY <1>1, <2>1, <2>2, <2>3, StepMoves
<1>2. TypeOK /\ [Next]_vars =>
        [\A j \in Job : jobs[j].cancel =>
            /\ TargetType[j] # "RECORDING" /\ jobs[j].state # "SUCCEEDED"
                => jobs'[j].state # "SUCCEEDED"
            /\ jobs[j].state # "RUNNING" => jobs'[j].state # "RUNNING"]_vars
    BY <1>1
<1> QED
    BY <1>2, Typing, PTL DEF Spec, CancelledNeverSucceeds

-----------------------------------------------------------------------------
(* Fencing tokens.                                                         *)

LEMMA InitFences == Init => FencesAreUnique
<1> SUFFICES ASSUME Init, NEW w \in Owner PROVE claim[w] = None
    BY DEF FencesAreUnique
<1> QED
    BY DEF Init

\* A claim is the only step that gives a Worker anything to act upon.
LEMMA ClaimsShrink ==
    ASSUME TypeOK, [Next]_vars, ~ \E w \in Owner, j \in Job : ClaimJob(w, j), NEW v \in Owner
    PROVE  claim'[v] = claim[v] \/ claim'[v] = None
<1>1. ASSUME NEW w \in Owner, NEW j \in Job, WorkerStep(w, j)
      PROVE  claim'[v] = claim[v] \/ claim'[v] = None
    BY <1>1 DEF TypeOK, WorkerStep, RenewLease, CompleteResult, PublishWithoutCommit,
                CompleteCancellation, RecordFatalFailure, ReadRetryableFailure,
                WriteRetryableFailure, RunnerReports
<1>2. ASSUME NEW w \in Owner, LeaveAttempt(w)
      PROVE  claim'[v] = claim[v] \/ claim'[v] = None
    BY <1>2 DEF TypeOK, LeaveAttempt
<1>3. ASSUME NEW W, Outage(W) PROVE claim'[v] = claim[v] \/ claim'[v] = None
    BY <1>3 DEF Outage
<1>4. ASSUME NEW w \in Owner, NEW j \in Job, CloseAttempt(w, j) PROVE claim' = claim
    BY <1>4 DEF CloseAttempt
<1>5. ASSUME NEW j \in Job, ControlStep(j) PROVE claim' = claim
    BY <1>5 DEF ControlStep, RequestCancellation, ReadWaitingFailure, ReadRecovery,
                ReconcileResult
<1>6. ASSUME \/ Tick \/ RecordWaitingFailure \/ DropWaitingFailure
             \/ ConfirmRecovery \/ DropRecovery \/ UNCHANGED vars
      PROVE  claim' = claim
    BY <1>6 DEF Tick, RecordWaitingFailure, DropWaitingFailure, ConfirmRecovery,
                DropRecovery, vars
<1> QED
    BY <1>1, <1>2, <1>3, <1>4, <1>5, <1>6 DEF Next

\* Tokens never fall, and a job stays RUNNING under its token only for the
\* same owner, its lease at most extended.
LEMMA FencesRise ==
    ASSUME TypeOK, [Next]_vars, NEW k \in Job
    PROVE  /\ jobs[k].fence \in Nat /\ jobs'[k].fence \in Nat
           /\ jobs[k].fence <= jobs'[k].fence
           /\ jobs'[k].fence = jobs[k].fence /\ jobs'[k].state = "RUNNING"
                => /\ jobs[k].state = "RUNNING" /\ jobs'[k].owner = jobs[k].owner
                   /\ jobs[k].expires <= jobs'[k].expires
<1>0. jobs[k].fence \in Nat /\ jobs[k].expires \in Nat /\ jobs[k] \in JobRow
    BY DEF TypeOK, JobRow
<1>1. CASE jobs'[k] = jobs[k]
    BY <1>0, <1>1
<1>2. CASE Moves(k)
    BY <1>0, <1>2 DEF Moves, Stays, Begins, PutsBack, Succeeds, Stops
<1>3. CASE Rests
    BY <1>1, <1>3 DEF Rests
<1>4. ASSUME NEW j \in Job, Moves(j), j # k PROVE jobs'[k] = jobs[k]
    BY <1>4 DEF Moves, Touches, Only
<1> QED
    BY <1>1, <1>2, <1>3, <1>4, StepMoves

\* The conditions FencesAreUnique puts on one Worker.
FencedAt(w) ==
    LET j == claim[w].job
    IN /\ claim[w].fence <= jobs[j].fence
       /\ claim[w].fence = jobs[j].fence /\ jobs[j].state = "RUNNING"
            => jobs[j].owner = w
       /\ \A v \in Owner \ {w} : claim[v] # None /\ claim[v].job = j
            => claim[v].fence # claim[w].fence

LEMMA StepFences == TypeOK /\ FencesAreUnique /\ [Next]_vars => FencesAreUnique'
<1> SUFFICES ASSUME TypeOK, FencesAreUnique, [Next]_vars,
                    NEW w \in Owner, claim'[w] # None
             PROVE  FencedAt(w)'
    BY DEF FencesAreUnique, FencedAt
<1>0. ASSUME NEW v \in Owner, claim[v] # None
      PROVE  /\ claim[v].job \in Job /\ claim[v].fence \in Nat
             /\ FencedAt(v)
    BY <1>0 DEF TypeOK, Claim, FencesAreUnique, FencedAt
<1>1. CASE ~ \E v \in Owner, j \in Job : ClaimJob(v, j)
  <2>1. \A v \in Owner : claim'[v] # None => claim'[v] = claim[v]
      BY <1>1, ClaimsShrink
  <2>2. claim'[w] = claim[w] /\ claim[w] # None
      BY <2>1
  <2>3. claim[w].job \in Job /\ claim[w].fence \in Nat /\ FencedAt(w)
      BY <1>0, <2>2
  <2> QED
      BY <2>1, <2>2, <2>3, FencesRise DEF FencedAt
<1>2. ASSUME NEW v \in Owner, NEW i \in Job, ClaimJob(v, i) PROVE FencedAt(w)'
  <2>1. claim' = [claim EXCEPT ![v] = [job |-> i, fence |-> jobs[i].fence + 1]]
      BY <1>2 DEF ClaimJob, NextFence
  <2>2. /\ jobs'[i].owner = v /\ jobs'[i].fence = jobs[i].fence + 1
        /\ jobs[i].fence \in Nat /\ \A k \in Job \ {i} : jobs'[k] = jobs[k]
      BY <1>2, ClaimEffect DEF Only, TypeOK, JobRow
  <2>3. /\ claim'[v] = [job |-> i, fence |-> jobs[i].fence + 1]
        /\ \A u \in Owner \ {v} : claim'[u] = claim[u]
      BY <2>1 DEF TypeOK
  <2>4. CASE w = v
    <3>1. ASSUME NEW u \in Owner \ {w}, claim'[u] # None, claim'[u].job = i
          PROVE  claim'[u].fence # jobs[i].fence + 1
      <4>1. claim'[u] = claim[u]
          BY <2>3, <2>4
      <4>2. claim[u].fence \in Nat /\ claim[u].fence <= jobs[i].fence
          BY <1>0, <3>1, <4>1 DEF FencedAt
      <4> QED
          BY <2>2, <4>1, <4>2
    <3>2. claim'[w].job = i /\ claim'[w].fence = jobs[i].fence + 1
        BY <2>3, <2>4
    <3> QED
        BY <2>2, <2>4, <3>1, <3>2 DEF FencedAt
  <2>5. CASE w # v
    <3>1. claim'[w] = claim[w] /\ claim[w] # None
        BY <2>3, <2>5
    <3>2. claim[w].job \in Job /\ claim[w].fence \in Nat /\ FencedAt(w)
        BY <1>0, <3>1
    <3> DEFINE k == claim[w].job
    <3>3. claim[w].fence <= jobs[k].fence
        BY <3>2 DEF FencedAt
    <3>4. CASE k # i
      <4>1. jobs'[k] = jobs[k]
          BY <2>2, <3>2, <3>4
      <4>2. \A u \in Owner \ {w} : claim'[u] # None /\ claim'[u].job = k
                => claim'[u].fence # claim[w].fence
          BY <2>3, <3>2, <3>4 DEF FencedAt
      <4> QED
          BY <3>1, <3>2, <4>1, <4>2 DEF FencedAt
    <3>5. CASE k = i
      <4>1. claim[w].fence < jobs'[i].fence
          BY <2>2, <3>2, <3>3, <3>5
      <4>2. \A u \in Owner \ {w} : claim'[u] # None /\ claim'[u].job = k
                => claim'[u].fence # claim[w].fence
          BY <2>2, <2>3, <3>2, <3>3, <3>5 DEF FencedAt
      <4> QED
          BY <2>2, <3>1, <3>2, <3>5, <4>1, <4>2 DEF FencedAt
    <3> QED
        BY <3>4, <3>5
  <2> QED
      BY <2>4, <2>5
<1> QED
    BY <1>1, <1>2

\* JobAttempts.claim gives every attempt a token no other Worker ever held,
\* and the newest token is held by the owner on the row: a stale Worker is
\* always recognised.
THEOREM FencesUnique == Spec => []FencesAreUnique
BY InitFences, StepFences, Typing, PTL DEF Spec

-----------------------------------------------------------------------------
(* Who ends an attempt.  A recovery and the commit of a published result   *)
(* act on what was written down earlier: the reading of the clock in the   *)
(* plan of the recovery, the owner, fence and time in the manifest.  Both  *)
(* records are older than the step, and the row may have been renewed,     *)
(* released and claimed again since.                                       *)

\* A recovery was planned at a time that has come.
PlannedInPast == recovering # None => recovering.at <= now

\* A manifest bears a fence that was given out.  While its attempt goes on,
\* one that a fenced transaction put there is older than the lease: renewals
\* only extend it, and a later claim has a later fence.
SealedAt(j) ==
    published[j] # None =>
        /\ TargetType[j] \in {"RUN", "REFERENCE_CAPTURE", "FLOW_TRIAL"}
        /\ published[j].fence <= jobs[j].fence
        /\ TargetType[j] # "FLOW_TRIAL" /\ jobs[j].state = "RUNNING"
             /\ published[j].fence = jobs[j].fence
                => published[j].at < jobs[j].expires

SealedInLease == \A j \in Job : SealedAt(j)

HolderInv == TypeOK /\ FencesAreUnique /\ PlannedInPast /\ SealedInLease

LEMMA StepPlanned ==
    ASSUME TypeOK, PlannedInPast, [Next]_vars
    PROVE  PlannedInPast'
<1> USE DEF TypeOK, PlannedInPast
<1>1. CASE Tick
    BY <1>1 DEF Tick, Recovery
<1>2. ASSUME NEW w \in Owner, NEW j \in Job, WorkerStep(w, j) \/ CloseAttempt(w, j)
      PROVE  UNCHANGED <<now, recovering>>
    BY <1>2 DEF WorkerStep, ClaimJob, RenewLease, CompleteResult, PublishWithoutCommit,
                RunnerReports, CompleteCancellation, RecordFatalFailure, CloseAttempt,
                EndCancelled, EndFailed, ReadRetryableFailure, WriteRetryableFailure
<1>3. ASSUME NEW j \in Job, ReadRecovery(j) PROVE PlannedInPast'
  <2>1. PICK at \in Recent : recovering' # None => recovering'.at = at
      BY <1>3 DEF ReadRecovery
  <2> QED
      BY <1>3, <2>1 DEF ReadRecovery, Recent
<1>4. ASSUME NEW j \in Job, ControlStep(j), ~ReadRecovery(j)
      PROVE  UNCHANGED <<now, recovering>>
    BY <1>4 DEF ControlStep, RequestCancellation, ReadWaitingFailure, ReconcileResult
<1>5. ASSUME NEW W, Outage(W) PROVE PlannedInPast'
    BY <1>5 DEF Outage
<1>6. CASE RecordWaitingFailure \/ DropWaitingFailure \/ ConfirmRecovery \/ DropRecovery
    BY <1>6 DEF RecordWaitingFailure, DropWaitingFailure, ConfirmRecovery, DropRecovery
<1>7. ASSUME NEW w \in Owner, LeaveAttempt(w) PROVE UNCHANGED <<now, recovering>>
    BY <1>7 DEF LeaveAttempt
<1> QED
    BY <1>1, <1>2, <1>3, <1>4, <1>5, <1>6, <1>7 DEF Next, vars

\* A step leaves the manifest of a job alone, or writes one that a holder of
\* the job's fence is entitled to.
LEMMA SealsWritten ==
    ASSUME TypeOK, FencesAreUnique, [Next]_vars, NEW k \in Job,
           published'[k] # published[k]
    PROVE  SealedAt(k)'
<1>0. ASSUME NEW w \in Owner, claim[w] # None, claim[w].job = k
      PROVE  /\ claim[w].fence \in Nat /\ claim[w].fence <= jobs[k].fence
    BY <1>0 DEF FencesAreUnique, TypeOK, Claim
<1>1. ASSUME NEW w \in Owner, NEW j \in Job, CompleteResult(w, j) PROVE SealedAt(k)'
  <2>1. PICK at \in Recent :
          published' = IF TargetType[j] \in {"RUN", "REFERENCE_CAPTURE"}
                       THEN [published EXCEPT ![j] =
                              [owner |-> w, fence |-> claim[w].fence, at |-> at]]
                       ELSE published
      BY <1>1 DEF CompleteResult
  <2>2. /\ k = j /\ TargetType[k] \in {"RUN", "REFERENCE_CAPTURE"}
        /\ published'[k].fence = claim[w].fence
      BY <2>1 DEF TypeOK
  <2>3. jobs'[k].state = "SUCCEEDED" /\ jobs'[k].fence = jobs[k].fence
      BY <1>1, <2>2, ResultEffect DEF Leaves
  <2> QED
      BY <1>0, <1>1, <2>2, <2>3 DEF SealedAt, CompleteResult
<1>2. ASSUME NEW w \in Owner, NEW j \in Job, PublishWithoutCommit(w, j)
      PROVE  SealedAt(k)'
  <2>1. PICK at \in Recent :
          /\ jobs[j].expires > at
          /\ published' = [published EXCEPT ![j] =
                              [owner |-> w, fence |-> claim[w].fence, at |-> at]]
      BY <1>2 DEF PublishWithoutCommit
  <2>2. k = j /\ at \in Nat /\ jobs[k].expires \in Nat
      BY <2>1, RecentNat DEF TypeOK, JobRow
  <2>3. published'[k].fence = claim[w].fence /\ published'[k].at = at
      BY <2>1, <2>2 DEF TypeOK
  <2> QED
      BY <1>0, <1>2, <2>1, <2>2, <2>3 DEF SealedAt, PublishWithoutCommit
<1>3. ASSUME NEW w \in Owner, NEW j \in Job, RunnerReports(w, j) PROVE SealedAt(k)'
  <2>1. k = j /\ published'[k].fence = claim[w].fence
      BY <1>3 DEF RunnerReports, TypeOK
  <2> QED
      BY <1>0, <1>3, <2>1 DEF SealedAt, RunnerReports
<1>4. ASSUME NEW w \in Owner, NEW j \in Job, WorkerStep(w, j) PROVE SealedAt(k)'
  <2>1. ASSUME \/ ClaimJob(w, j) \/ RenewLease(w, j) \/ CompleteCancellation(w, j)
               \/ RecordFatalFailure(w, j) \/ ReadRetryableFailure(w, j)
               \/ WriteRetryableFailure(w, j)
        PROVE  published' = published
      BY <2>1 DEF ClaimJob, RenewLease, CompleteCancellation, RecordFatalFailure, EndCancelled,
             EndFailed, ReadRetryableFailure, WriteRetryableFailure
  <2> QED
      BY <1>1, <1>2, <1>3, <1>4, <2>1 DEF WorkerStep
<1>5. ASSUME ~ \E w \in Owner, j \in Job : WorkerStep(w, j)
      PROVE  published' = published
    BY <1>5 DEF Next, vars, Tick, CloseAttempt, EndCancelled, EndFailed, LeaveAttempt, Outage,
           ControlStep, RequestCancellation, ReadWaitingFailure, ReadRecovery, ReconcileResult,
           RecordWaitingFailure, DropWaitingFailure, ConfirmRecovery, DropRecovery
<1> QED
    BY <1>4, <1>5

LEMMA StepSealed ==
    ASSUME TypeOK, FencesAreUnique, SealedInLease, [Next]_vars
    PROVE  SealedInLease'
<1> SUFFICES ASSUME NEW k \in Job, published'[k] = published[k], published[k] # None
             PROVE  SealedAt(k)'
    BY SealsWritten DEF SealedInLease, SealedAt
<1>1. SealedAt(k) /\ published[k].fence \in Nat /\ published[k].at \in Nat
      /\ jobs[k].expires \in Nat /\ jobs'[k].expires \in Nat
    BY StepTyping DEF SealedInLease, TypeOK, Manifest, JobRow
<1> QED
    BY <1>1, FencesRise DEF SealedAt

LEMMA StepHolder == HolderInv /\ [Next]_vars => HolderInv'
BY StepTyping, StepFences, StepPlanned, StepSealed DEF HolderInv

LEMMA InitHolder == Init => HolderInv
BY InitTyping, InitFences DEF Init, HolderInv, PlannedInPast, SealedInLease, SealedAt

\* What OnlyHolderFinishes allows of a job.
HolderEnds(j) ==
    \/ /\ claim[jobs[j].owner] = [job |-> j, fence |-> jobs[j].fence]
       /\ claim'[jobs[j].owner] = None
    \/ /\ claim[jobs[j].owner] = None
       /\ claim' = claim /\ jobs[j].expires + Delay > now
    \/ recovering # None /\ recovering' = None /\ jobs[j].expires <= now
    \/ /\ published[j] # None
       /\ published[j].fence = jobs[j].fence
       /\ TargetType[j] = "FLOW_TRIAL" \/ published[j].at < jobs[j].expires

\* A Worker that ends an attempt holds the job.
LEMMA WorkerEndsHeld ==
    ASSUME TypeOK, NEW w \in Owner, NEW j \in Job, WorkerStep(w, j), NEW k \in Job,
           jobs[k].state = "RUNNING", jobs'[k].state # "RUNNING"
    PROVE  HolderEnds(k)
<1>1. /\ k = j /\ claim[w] # None /\ claim[w].job = j /\ HeldBy(j, w, claim[w].fence)
      /\ claim' = [claim EXCEPT ![w] = None]
  <2>1. CASE ClaimJob(w, j)
      BY <2>1, ClaimEffect DEF Only
  <2>2. CASE RenewLease(w, j)
      BY <2>2, RenewEffect DEF Only
  <2>3. CASE CompleteResult(w, j)
      BY <2>3, ResultEffect DEF CompleteResult, Leaves, Only
  <2>4. CASE CompleteCancellation(w, j)
      BY <2>4, CancellationEffect DEF CompleteCancellation, EndCancelled, Leaves, Only
  <2>5. CASE RecordFatalFailure(w, j)
      BY <2>5, FatalEffect DEF RecordFatalFailure, EndFailed, Leaves, Only
  <2>6. CASE WriteRetryableFailure(w, j)
      BY <2>6, RetryEffect DEF WriteRetryableFailure, Leaves, Only
  <2>7. CASE PublishWithoutCommit(w, j) \/ RunnerReports(w, j) \/ ReadRetryableFailure(w, j)
      BY <2>7 DEF PublishWithoutCommit, RunnerReports, ReadRetryableFailure
  <2> QED
      BY <2>1, <2>2, <2>3, <2>4, <2>5, <2>6, <2>7 DEF WorkerStep
<1>2. claim[w] \in Claim /\ claim'[w] = None
    BY <1>1 DEF TypeOK
<1> QED
    BY <1>1, <1>2 DEF HeldBy, Claim, HolderEnds

LEMMA HolderStep ==
    ASSUME HolderInv, [Next]_vars, NEW k \in Job,
           jobs[k].state = "RUNNING", jobs'[k].state # "RUNNING"
    PROVE  HolderEnds(k)
<1> USE DEF HolderInv
<1>1. ASSUME NEW w \in Owner, NEW j \in Job, CloseAttempt(w, j) PROVE HolderEnds(k)
  <2>1. PICK at \in Recent : EndCancelled(w, j, jobs[j].fence, at)
                             \/ EndFailed(w, j, jobs[j].fence, at)
      BY <1>1 DEF CloseAttempt
  <2>2. k = j
      BY <2>1, CancellationEffect, FatalEffect DEF Leaves, Only
  <2>3. jobs[j].owner = w /\ jobs[j].expires > at
      BY <2>1 DEF EndCancelled, EndFailed, HeldBy
  <2>4. jobs[j].expires + Delay > now
    <3>1. /\ at \in Nat /\ jobs[j].expires \in Nat /\ now \in Nat /\ Delay \in Nat
          /\ now <= at + Delay
        BY RecentNat, JobControlAssumption DEF TypeOK, JobRow, JobControlAssumption, Recent
    <3> QED
        BY <2>3, <3>1
  <2> QED
      BY <1>1, <2>2, <2>3, <2>4 DEF CloseAttempt, HolderEnds
<1>2. ASSUME NEW j \in Job, RequestCancellation(j) PROVE FALSE
    BY <1>2, RequestEffect DEF Only, Waiting
<1>3. ASSUME NEW j \in Job, ReconcileResult(j) PROVE HolderEnds(k)
  <2>1. k = j /\ Reconcilable(j)
      BY <1>3, ReconcileEffect DEF ReconcileResult, Leaves, Only
  <2>2. SealedAt(k)
      BY DEF SealedInLease
  <2> QED
      BY <2>1, <2>2 DEF Reconcilable, HeldBy, SealedAt, HolderEnds
<1>4. CASE RecordWaitingFailure
    BY <1>4, WaitingFailureEffect DEF Only, Waiting
<1>5. CASE ConfirmRecovery
  <2>1. k = recovering.job /\ StillExpired(recovering)
      BY <1>5, RecoveryEffect DEF ConfirmRecovery, Leaves, Only
  <2>2. jobs[k].expires <= recovering.at /\ recovering.at <= now
      BY <1>5, <2>1 DEF ConfirmRecovery, StillExpired, PlannedInPast
  <2>3. jobs[k].expires \in Nat /\ recovering.at \in Nat /\ now \in Nat
      BY <1>5 DEF ConfirmRecovery, TypeOK, JobRow, Recovery
  <2> QED
      BY <1>5, <2>2, <2>3 DEF ConfirmRecovery, HolderEnds
<1>6. ASSUME \/ Tick \/ UNCHANGED vars \/ DropWaitingFailure \/ DropRecovery
             \/ \E w \in Owner : LeaveAttempt(w)
             \/ \E W \in {{}, Owner} : Outage(W)
             \/ \E j \in Job : ReadWaitingFailure(j) \/ ReadRecovery(j)
      PROVE  FALSE
    BY <1>6 DEF Tick, vars, DropWaitingFailure, DropRecovery, LeaveAttempt, Outage,
                ReadWaitingFailure, ReadRecovery
<1> QED
    BY <1>1, <1>2, <1>3, <1>4, <1>5, <1>6, WorkerEndsHeld DEF Next, ControlStep

\* An attempt is ended by its holder, for a holder without a claim, after the
\* lease by a recovery, or by the commit of a result that was put in place under
\* its fence while the lease was valid.  JobRecovery compares the lease with the
\* time of its plan, not with the clock, and the commit of a published capture
\* does not compare it with anything.
THEOREM HolderFinishes == Spec => OnlyHolderFinishes
<1>1. HolderInv /\ [Next]_vars =>
        [\A j \in Job :
            jobs[j].state = "RUNNING" /\ jobs'[j].state # "RUNNING" =>
                \/ /\ claim[jobs[j].owner] = [job |-> j, fence |-> jobs[j].fence]
                   /\ claim'[jobs[j].owner] = None
                \/ /\ claim[jobs[j].owner] = None
                   /\ claim' = claim /\ jobs[j].expires + Delay > now
                \/ recovering # None /\ recovering' = None /\ jobs[j].expires <= now
                \/ /\ published[j] # None
                   /\ published[j].fence = jobs[j].fence
                   /\ TargetType[j] = "FLOW_TRIAL" \/ published[j].at < jobs[j].expires]_vars
    BY HolderStep DEF HolderEnds
<1> QED
    BY <1>1, InitHolder, StepHolder, PTL DEF Spec, OnlyHolderFinishes

-----------------------------------------------------------------------------
(* Sources of events.  Most services name the state their UPDATE compares; *)
(* a claim infers it from the attempts counted, a waiting failure from what*)
(* it read before.                                                         *)

\* What a waiting failure read still holds where its UPDATE would match.
SeenIsTrue ==
    failing # None /\ StillWaiting(failing.job) => jobs[failing.job].state = failing.seen

LEMMA EventSource ==
    ASSUME TypeOK, NEW j \in Job, NEW source, NEW to, Event(j, source, to)
    PROVE  trail'[j].source = source
BY DEF TypeOK, Event

LEMMA WorkerSources ==
    ASSUME RowInv, NEW w \in Owner, NEW j \in Job, WorkerStep(w, j), NEW k \in Job,
           jobs'[k].state # jobs[k].state
    PROVE  trail'[k].source = jobs[k].state
<1> USE DEF RowInv
<1>1. CASE ClaimJob(w, j)
  <2>1. k = j
      BY <1>1, ClaimEffect DEF Only
  <2>2. trail'[j].source = IF jobs[j].attempt = 0 THEN "PENDING" ELSE "RETRY_WAIT"
      BY <1>1, EventSource DEF ClaimJob
  <2>3. /\ jobs[j].state \in {"PENDING", "RETRY_WAIT"}
        /\ jobs[j].state = "PENDING" => jobs[j].attempt = 0
        /\ jobs[j].state = "RETRY_WAIT" => jobs[j].attempt > 0
      BY <1>1 DEF ClaimJob, Claimable, Waiting, RowConstraints, RowOK
  <2> QED
      BY <2>1, <2>2, <2>3
<1>2. CASE RenewLease(w, j)
    BY <1>2, RenewEffect DEF Only
<1>3. ASSUME HeldBy(j, w, claim[w].fence), NEW to, Event(j, "RUNNING", to), Only(j)
      PROVE  trail'[k].source = jobs[k].state
    BY <1>3, EventSource DEF HeldBy, Only
<1>4. CASE CompleteResult(w, j)
    BY <1>3, <1>4, ResultEffect DEF CompleteResult, Leaves
<1>5. CASE CompleteCancellation(w, j)
    BY <1>3, <1>5, CancellationEffect DEF CompleteCancellation, EndCancelled, Leaves
<1>6. CASE RecordFatalFailure(w, j)
    BY <1>3, <1>6, FatalEffect DEF RecordFatalFailure, EndFailed, Leaves
<1>7. CASE WriteRetryableFailure(w, j)
    BY <1>3, <1>7, RetryEffect DEF WriteRetryableFailure, Leaves
<1>8. CASE PublishWithoutCommit(w, j) \/ RunnerReports(w, j) \/ ReadRetryableFailure(w, j)
    BY <1>8 DEF PublishWithoutCommit, RunnerReports, ReadRetryableFailure
<1> QED
    BY <1>1, <1>2, <1>4, <1>5, <1>6, <1>7, <1>8 DEF WorkerStep

LEMMA StepSources ==
    ASSUME RowInv, SeenIsTrue, [Next]_vars, NEW k \in Job, jobs'[k].state # jobs[k].state
    PROVE  trail'[k].source = jobs[k].state
<1> USE DEF RowInv
<1>1. ASSUME NEW w \in Owner, NEW j \in Job, CloseAttempt(w, j)
      PROVE  trail'[k].source = jobs[k].state
  <2>1. PICK at \in Recent : EndCancelled(w, j, jobs[j].fence, at)
                             \/ EndFailed(w, j, jobs[j].fence, at)
      BY <1>1 DEF CloseAttempt
  <2>2. k = j
      BY <2>1, CancellationEffect, FatalEffect DEF Leaves, Only
  <2> QED
      BY <2>1, <2>2, EventSource DEF EndCancelled, EndFailed, HeldBy
<1>2. ASSUME NEW j \in Job, RequestCancellation(j) PROVE trail'[k].source = jobs[k].state
  <2>1. k = j
      BY <1>2, RequestEffect DEF Only
  <2>2. \/ jobs[j].state = "RUNNING" /\ Event(j, "RUNNING", "RUNNING")
        \/ Event(j, jobs[j].state, "CANCELLED")
      BY <1>2 DEF RequestCancellation
  <2> QED
      BY <2>1, <2>2, EventSource
<1>3. ASSUME NEW j \in Job, ReconcileResult(j) PROVE trail'[k].source = jobs[k].state
  <2>1. k = j
      BY <1>3, ReconcileEffect DEF Leaves, Only
  <2> QED
      BY <1>3, <2>1, EventSource DEF ReconcileResult, Reconcilable, HeldBy
<1>4. CASE RecordWaitingFailure
  <2>1. k = failing.job
      BY <1>4, WaitingFailureEffect DEF Only
  <2>2. trail'[k].source = failing.seen
      BY <1>4, <2>1, EventSource DEF RecordWaitingFailure
  <2> QED
      BY <1>4, <2>1, <2>2 DEF RecordWaitingFailure, SeenIsTrue
<1>5. CASE ConfirmRecovery
  <2>1. k = recovering.job
      BY <1>5, RecoveryEffect DEF Leaves, Only
  <2> QED
      BY <1>5, <2>1, EventSource DEF ConfirmRecovery, StillExpired, HeldBy
<1>6. ASSUME \/ Tick \/ UNCHANGED vars \/ DropWaitingFailure \/ DropRecovery
             \/ \E w \in Owner : LeaveAttempt(w)
             \/ \E W \in {{}, Owner} : Outage(W)
             \/ \E j \in Job : ReadWaitingFailure(j) \/ ReadRecovery(j)
      PROVE  FALSE
    BY <1>6 DEF Tick, vars, DropWaitingFailure, DropRecovery, LeaveAttempt, Outage,
                ReadWaitingFailure, ReadRecovery
<1> QED
    BY <1>1, <1>2, <1>3, <1>4, <1>5, <1>6, WorkerSources DEF Next, ControlStep

\* Only a claim takes a waiting job up, and only the job it was made for.
LEMMA WorkerBegins ==
    ASSUME TypeOK, NEW w \in Owner, NEW j \in Job, WorkerStep(w, j), NEW k \in Job, Begins(k)
    PROVE  j = k
<1> USE DEF Begins, Waiting
<1>1. CASE ClaimJob(w, j)
    BY <1>1, ClaimEffect DEF Only
<1>2. CASE RenewLease(w, j)
    BY <1>2, RenewEffect DEF Only
<1>3. CASE CompleteResult(w, j)
    BY <1>3, ResultEffect DEF Leaves, Only
<1>4. CASE CompleteCancellation(w, j)
    BY <1>4, CancellationEffect DEF CompleteCancellation, Leaves, Only
<1>5. CASE RecordFatalFailure(w, j)
    BY <1>5, FatalEffect DEF RecordFatalFailure, Leaves, Only
<1>6. CASE WriteRetryableFailure(w, j)
    BY <1>6, RetryEffect DEF Leaves, Only
<1>7. CASE PublishWithoutCommit(w, j) \/ RunnerReports(w, j) \/ ReadRetryableFailure(w, j)
    BY <1>7 DEF PublishWithoutCommit, RunnerReports, ReadRetryableFailure
<1> QED
    BY <1>1, <1>2, <1>3, <1>4, <1>5, <1>6, <1>7 DEF WorkerStep

LEMMA OthersBeginNothing ==
    ASSUME TypeOK, NEW k \in Job, Begins(k)
    PROVE  /\ \A w \in Owner, j \in Job, fence \in Nat, at \in Recent :
                ~EndCancelled(w, j, fence, at) /\ ~EndFailed(w, j, fence, at)
           /\ \A j \in Job : ~RequestCancellation(j) /\ ~ReconcileResult(j)
           /\ ~RecordWaitingFailure /\ ~ConfirmRecovery
<1> USE DEF Begins, Waiting
<1>1. ASSUME NEW w \in Owner, NEW j \in Job, NEW fence, NEW at \in Recent,
             EndCancelled(w, j, fence, at) \/ EndFailed(w, j, fence, at)
      PROVE  FALSE
    BY <1>1, CancellationEffect, FatalEffect DEF Leaves, Only
<1>2. ASSUME NEW j \in Job, RequestCancellation(j) \/ ReconcileResult(j) PROVE FALSE
    BY <1>2, RequestEffect, ReconcileEffect DEF Leaves, Only
<1>3. ASSUME RecordWaitingFailure \/ ConfirmRecovery PROVE FALSE
    BY <1>3, WaitingFailureEffect, RecoveryEffect
    DEF ConfirmRecovery, TypeOK, Recovery, Leaves, Only
<1> QED
    BY <1>1, <1>2, <1>3

-----------------------------------------------------------------------------
(* The job table implements JobLifecycle.                                  *)

\* The target tells how the job ended, and nothing before that.
ToldByRow(j) == IF jobs[j].state \in Terminal THEN jobs[j].state ELSE "OPEN"

OutcomesKnown == \A j \in Job : Outcome(j) = ToldByRow(j)

LEMMA AgreeingOutcomes == TypeOK /\ TargetAgrees => OutcomesKnown
<1> SUFFICES ASSUME TypeOK, TargetAgrees, NEW j \in Job PROVE Outcome(j) = ToldByRow(j)
    BY DEF OutcomesKnown
<1>1. AgreesAt(j) /\ jobs[j].state \in JobState
    BY AgreesEverywhere DEF TypeOK, JobRow
<1>2. CASE TargetType[j] = "RUN"
    BY <1>1, <1>2 DEF AgreesAt, Outcome, HasLifecycle, NewTarget, Advanced, Successes,
                      JobState, Waiting, Terminal, ToldByRow
<1>3. CASE TargetType[j] = "RECORDING"
    BY <1>1, <1>3 DEF AgreesAt, Outcome, HasLifecycle, NewTarget, Advanced, Successes,
                      JobState, Waiting, Terminal, ToldByRow
<1>4. CASE ~HasLifecycle(j)
    BY <1>4 DEF Outcome, ToldByRow
<1> QED
    BY <1>2, <1>3, <1>4 DEF HasLifecycle

LEMMA InitLifecycle == Init => Lifecycle!Init
<1> SUFFICES ASSUME Init PROVE Lifecycle!Init
    OBVIOUS
<1>1. ASSUME NEW j \in Job
      PROVE  jobs[j].state = "PENDING" /\ jobs[j].fence = 0 /\ Outcome(j) = "OPEN"
  <2>1. jobs[j].state = "PENDING" /\ jobs[j].fence = 0
      BY InitRow
  <2>2. Outcome(j) = "OPEN"
      BY <2>1, InitTyping, InitAgrees, AgreeingOutcomes DEF OutcomesKnown, ToldByRow, Terminal
  <2> QED
      BY <2>1, <2>2
<1> QED
    BY <1>1 DEF Lifecycle!Init

LEMMA StepLifecycle ==
    RowInv /\ OutcomesKnown /\ RowInv' /\ OutcomesKnown' /\ [Next]_vars
        => [Lifecycle!Next]_(Lifecycle!avars)
<1> SUFFICES ASSUME RowInv, OutcomesKnown, RowInv', OutcomesKnown', [Next]_vars
             PROVE  Lifecycle!Next \/ UNCHANGED Lifecycle!avars
    OBVIOUS
<1> DEFINE phase == [j \in Job |-> jobs[j].state]
           attempts == [j \in Job |-> jobs[j].fence]
           outcome == [j \in Job |-> Outcome(j)]
<1>1. TypeOK
    BY DEF RowInv
<1>2. \A j \in Job : Outcome(j) = ToldByRow(j) /\ Outcome(j)' = ToldByRow(j)'
    BY DEF OutcomesKnown
<1>3. CASE Rests
  <2>1. UNCHANGED <<phase, attempts, outcome>>
      BY <1>3 DEF Rests, Outcome, HasLifecycle
  <2> QED
      BY <2>1 DEF Lifecycle!avars
<1>4. ASSUME NEW j \in Job, Moves(j)
      PROVE  Lifecycle!Next \/ UNCHANGED Lifecycle!avars
  <2>1. \A k \in Job \ {j} : jobs'[k] = jobs[k]
      BY <1>4 DEF Moves, Touches, Only
  <2>2. \A k \in Job \ {j} : Outcome(k)' = Outcome(k)
      BY <1>2, <2>1 DEF ToldByRow
  <2>3. jobs[j].attempt = jobs[j].fence /\ jobs'[j].attempt = jobs'[j].fence
        /\ (jobs'[j].state = "RETRY_WAIT" => jobs'[j].attempt < MaxAttempts[j])
      BY DEF RowInv, RowConstraints, RowOK
  <2>4. CASE Stays(j)
    <3>1. UNCHANGED <<phase, attempts, outcome>>
        BY <1>2, <2>1, <2>2, <2>4 DEF Stays, Terminal, ToldByRow
    <3> QED
        BY <3>1 DEF Lifecycle!avars
  <2>5. CASE Begins(j)
    <3>1. Lifecycle!Begin(j)
        BY <1>2, <2>1, <2>2, <2>3, <2>5 DEF Begins, Lifecycle!Begin, Waiting, Terminal, ToldByRow
    <3> QED
        BY <3>1 DEF Lifecycle!Next
  <2>6. CASE PutsBack(j)
    <3>1. Lifecycle!PutBack(j)
        BY <1>2, <2>1, <2>2, <2>3, <2>6 DEF PutsBack, Lifecycle!PutBack, Terminal, ToldByRow
    <3> QED
        BY <3>1 DEF Lifecycle!Next
  <2>7. CASE Succeeds(j)
    <3>1. Lifecycle!End(j, "SUCCEEDED")
        BY <1>2, <2>1, <2>2, <2>7 DEF Succeeds, Lifecycle!End, Lifecycle!Open, Terminal, ToldByRow
    <3> QED
        BY <3>1 DEF Lifecycle!Next, Lifecycle!Ends
  <2>8. CASE Stops(j)
    <3>1. PICK how \in {"FAILED", "CANCELLED"} : how = jobs'[j].state
        BY <2>8 DEF Stops
    <3>2. Lifecycle!End(j, how)
        BY <1>2, <2>1, <2>2, <2>8, <3>1
           DEF Stops, Lifecycle!End, Lifecycle!Open, Waiting, Terminal, ToldByRow
    <3> QED
        BY <3>2 DEF Lifecycle!Next, Lifecycle!Ends
  <2> QED
      BY <1>4, <2>4, <2>5, <2>6, <2>7, <2>8 DEF Moves
<1> QED
    BY <1>1, <1>3, <1>4, StepMoves

\* Leases, clocks, stale Workers and recoveries taken together, a job is
\* still attempted within its budget, one attempt after another, and ends
\* once, its target with it.
THEOREM ControlImplementsLifecycle == Spec => ImplementsLifecycle
<1>1. RowInv => TypeOK
    BY DEF RowInv
<1> QED
    BY <1>1, InitRows, StepRows, InitAgrees, StepAgrees, AgreeingOutcomes,
       InitLifecycle, StepLifecycle, PTL
       DEF Spec, ImplementsLifecycle, Lifecycle!Spec

=============================================================================
