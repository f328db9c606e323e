----------------------------- MODULE JobControl -----------------------------
(***************************************************************************)
(* The job table of jiejian and the services that change it: claiming a    *)
(* job under a lease and a fencing token, renewing the lease, completing,  *)
(* failing, retrying, cancelling and recovering it.                        *)
(*                                                                         *)
(* Every service runs one database transaction.  Its UPDATE is a single    *)
(* conditional statement and takes the write lock, so UPDATE, target and   *)
(* event are one step here.  A SELECT before the first UPDATE runs outside *)
(* the lock; where the UPDATE does not repeat what that SELECT saw, read   *)
(* and write are two steps and the other actors may run between them.      *)
(*                                                                         *)
(* A request carries the caller's wall clock reading (now_us), taken       *)
(* before the lock is obtained: up to Delay units may pass until then.     *)
(***************************************************************************)
EXTENDS Naturals

CONSTANTS
    Job,            \* rows of table jobs
    Owner,          \* lease owners: one fresh name per Worker launch
    TargetType,     \* the kind of target each job has
    MaxAttempts,    \* max_attempts of each job
    LeaseDuration,  \* lease granted by a claim or a renewal
    RetryDelays,    \* delays the retry policy may choose, jitter included
    Delay,          \* age a request's now_us may reach before its UPDATE runs
    MaxTime,        \* bound of the wall clock, for model checking
    None            \* SQL NULL

\* A Run is a check.  The lifecycle of a Run or a Recording is kept here;
\* the records of the other targets say nothing a service looks at.
TargetTypes == {"RUN", "RECORDING", "RUNTIME_LOAD", "PROOF_PREFLIGHT",
                "IDENTITY_PREPARATION", "REFERENCE_CAPTURE", "FLOW_TRIAL"}

ASSUME JobControlAssumption ==
    /\ TargetType \in [Job -> TargetTypes]
    /\ MaxAttempts \in [Job -> Nat \ {0}]
    /\ LeaseDuration \in Nat \ {0}
    /\ RetryDelays \subseteq Nat
    /\ Delay \in Nat
    /\ MaxTime \in Nat
    /\ None \notin Owner
    \* Only a recording is ever submitted with more than one attempt.
    /\ \A j \in Job : TargetType[j] # "RECORDING" => MaxAttempts[j] = 1

VARIABLES
    now,        \* wall clock
    jobs,       \* table jobs
    target,     \* lifecycle of the Run or Recording, "NONE" for the others
    trail,      \* source and target state of the last row of job_events
    claim,      \* what each Worker knows of the claim it won
    retrying,   \* a retryable failure whose pre-read passed, per Worker
    recovering, \* a recovery whose pre-read passed (one supervisor thread)
    failing,    \* a waiting failure whose pre-read passed (the same thread)
    published   \* result in the file system: who put it there, and when

vars == <<now, jobs, target, trail, claim, retrying, recovering, failing, published>>

Waiting  == {"PENDING", "RETRY_WAIT"}
Terminal == {"SUCCEEDED", "FAILED", "CANCELLED"}
JobState == Waiting \cup {"RUNNING"} \cup Terminal

RunTarget       == {"QUEUED", "RUNNING", "COMPLETED", "SAFETY_STOPPED",
                    "FAILED", "CANCELLED"}
RecordingTarget == {"CREATED", "STARTING", "PENDING_REVIEW", "SAFETY_STOPPED",
                    "FAILED", "CANCELLED"}
TargetState     == RunTarget \cup RecordingTarget \cup {"NONE"}

\* cancel stands for cancel_requested_at_us IS NOT NULL; expires is 0 for NULL.
JobRow == [state : JobState, attempt : Nat, fence : Nat,
           owner : Owner \cup {None}, expires : Nat, cancel : BOOLEAN,
           available : Nat, updated : Nat]

Claim    == [job : Job, fence : Nat]
Manifest == [owner : Owner, fence : Nat, at : Nat]
Retry    == [at : Nat, next : {"RETRY_WAIT", "FAILED"}, available : Nat]
Recovery == [job : Job, owner : Owner \cup {None}, fence : Nat, at : Nat,
             next : {"RETRY_WAIT", "FAILED", "CANCELLED"}, available : Nat]

TypeOK ==
    /\ now \in Nat
    /\ jobs \in [Job -> JobRow]
    /\ target \in [Job -> TargetState]
    /\ trail \in [Job -> [source : JobState \cup {None}, target : JobState]]
    /\ claim \in [Owner -> Claim \cup {None}]
    /\ retrying \in [Owner -> Retry \cup {None}]
    /\ recovering \in Recovery \cup {None}
    /\ failing \in [job : Job, seen : Waiting] \cup {None}
    /\ published \in [Job -> Manifest \cup {None}]

-----------------------------------------------------------------------------
(* Rows, targets and events.                                               *)

\* A row as JobQueue.submit and _submit_transaction_in_work insert it.
NewRow == [state |-> "PENDING", attempt |-> 0, fence |-> 0, owner |-> None,
           expires |-> 0, cancel |-> FALSE, available |-> 0, updated |-> 0]

NewTarget(j) == CASE TargetType[j] = "RUN" -> "QUEUED"
                  [] TargetType[j] = "RECORDING" -> "CREATED"
                  [] OTHER -> "NONE"

\* The now_us values a request may carry when its UPDATE runs.
Recent == {t \in 0..now : now <= t + Delay}

\* Bound of the model: leases are granted only while they can still run out
\* before the clock stops.
InHorizon(at) == at + LeaseDuration <= MaxTime

\* The target still admits a claim.
TargetOpen(j) ==
    CASE TargetType[j] = "RUN" -> target[j] \in {"QUEUED", "RUNNING"}
      [] TargetType[j] = "RECORDING" -> target[j] \in {"CREATED", "STARTING"}
      [] OTHER -> TRUE

\* JobTargetHandler.advance_after_claim.
Advanced(j) == CASE TargetType[j] = "RUN" -> "RUNNING"
                 [] TargetType[j] = "RECORDING" -> "STARTING"
                 [] OTHER -> "NONE"

\* The target has a lifecycle of its own.
HasLifecycle(j) == TargetType[j] \in {"RUN", "RECORDING"}

\* JobTargetHandler.finish, outcome is "FAILED" or "CANCELLED".
Finished(j, outcome) == IF HasLifecycle(j) THEN outcome ELSE "NONE"

\* Target states a successful result may leave.
Successes(j) == CASE TargetType[j] = "RUN" -> {"COMPLETED", "SAFETY_STOPPED"}
                  [] TargetType[j] = "RECORDING" -> {"PENDING_REVIEW", "SAFETY_STOPPED"}
                  [] OTHER -> {"NONE"}

\* Mutated: source and target state swapped.
Event_swapped(j, source, to) ==
    trail' = [trail EXCEPT ![j] = [source |-> to, target |->
        IF source = None THEN "PENDING" ELSE source]]

\* append_job_event: the source the caller believes in, the state it wrote.
Event(j, source, to) == trail' = [trail EXCEPT ![j] = [source |-> source, target |-> to]]

\* A waiting row no lease, cancellation or spent budget keeps from a claim.
Claimable(j, at) ==
    /\ jobs[j].state \in Waiting
    /\ jobs[j].available <= at
    /\ ~jobs[j].cancel
    /\ jobs[j].attempt < MaxAttempts[j]
    /\ jobs[j].owner = None
    /\ jobs[j].expires = 0

\* Mutated: a retry reuses the fencing token of the attempt before.
NextFence_reused(j) == IF jobs[j].fence = 0 THEN 1 ELSE jobs[j].fence

\* The fencing token a claim gives out.
NextFence(j) == jobs[j].fence + 1

\* Mutated: any Worker passes while the job is RUNNING.
HeldBy_anyone(j, w, fence) == jobs[j].state = "RUNNING"

\* Mutated: the token alone is compared.
HeldBy_tokenOnly(j, w, fence) == jobs[j].fence = fence

\* The row RUNNING under this owner and fencing token.
HeldBy(j, w, fence) ==
    /\ jobs[j].state = "RUNNING"
    /\ jobs[j].owner = w
    /\ jobs[j].fence = fence

\* Mutated: the cancellation request is not looked at.
Acceptable_always(j) == TRUE

\* A result is accepted although a cancellation is requested only for a
\* recording: what was captured is kept.
Acceptable(j) == TargetType[j] # "RECORDING" => ~jobs[j].cancel

\* Every UPDATE refuses a row changed after the request's now_us.
Fresh(j, at) == jobs[j].updated <= at

\* The row a claim takes: attempt and fence counted, owner and lease set.
Leased(j, w, attempt, fence, expires, at) ==
    [jobs EXCEPT ![j] = [@ EXCEPT !.state = "RUNNING", !.attempt = attempt,
                                  !.fence = fence, !.owner = w,
                                  !.expires = expires, !.updated = at]]

Renewed(j, expires, at) ==
    [jobs EXCEPT ![j] = [@ EXCEPT !.expires = expires, !.updated = at]]

\* A running row whose cancellation is requested.
Requested(j, at) == [jobs EXCEPT ![j] = [@ EXCEPT !.cancel = TRUE, !.updated = at]]

\* A waiting row that ends without an attempt, on request or by a failure.
Cancelled(j, at) ==
    [jobs EXCEPT ![j] = [@ EXCEPT !.state = "CANCELLED", !.cancel = TRUE, !.updated = at]]
Failed(j, at) == [jobs EXCEPT ![j] = [@ EXCEPT !.state = "FAILED", !.updated = at]]

\* Mutated: the lease stays on the row.
Released_leased(j, to, at, available) ==
    [jobs EXCEPT ![j] = [@ EXCEPT !.state = to, !.available = available, !.updated = at]]

\* The row after it leaves RUNNING: the lease is cleared with the state.
Released(j, to, at, available) ==
    [jobs EXCEPT ![j] = [@ EXCEPT !.state = to, !.owner = None, !.expires = 0,
                                  !.available = available, !.updated = at]]

-----------------------------------------------------------------------------
Init ==
    /\ now = 0
    /\ jobs = [j \in Job |-> NewRow]
    /\ target = [j \in Job |-> NewTarget(j)]
    /\ trail = [j \in Job |-> [source |-> None, target |-> "PENDING"]]
    /\ claim = [w \in Owner |-> None]
    /\ retrying = [w \in Owner |-> None]
    /\ recovering = None
    /\ failing = None
    /\ published = [j \in Job |-> None]

Tick ==
    /\ now < MaxTime
    /\ now' = now + 1
    /\ UNCHANGED <<jobs, target, trail, claim, retrying, recovering, failing, published>>

\* JobAttempts.claim: one UPDATE takes the row, counts the attempt and the
\* fence; the target advances in the same transaction.
ClaimJob(w, j) ==
    /\ claim[w] = None
    /\ \E at \in Recent :
        /\ Claimable(j, at)
        /\ Fresh(j, at)
        /\ InHorizon(at)
        /\ TargetOpen(j)
        /\ jobs' = Leased(j, w, jobs[j].attempt + 1, NextFence(j), at + LeaseDuration, at)
    /\ target' = [target EXCEPT ![j] = Advanced(j)]
    /\ claim' = [claim EXCEPT ![w] = [job |-> j, fence |-> NextFence(j)]]
    /\ Event(j, IF jobs[j].attempt = 0 THEN "PENDING" ELSE "RETRY_WAIT", "RUNNING")
    /\ UNCHANGED <<now, retrying, recovering, failing, published>>

\* JobAttempts.renew_lease.
RenewLease(w, j) ==
    /\ claim[w] # None /\ claim[w].job = j /\ retrying[w] = None
    /\ HeldBy(j, w, claim[w].fence)
    /\ \E at \in Recent :
        /\ Fresh(j, at)
        /\ InHorizon(at)
        /\ jobs[j].expires > at
        /\ jobs[j].expires < at + LeaseDuration
        /\ jobs' = Renewed(j, at + LeaseDuration, at)
    /\ Event(j, "RUNNING", "RUNNING")
    /\ UNCHANGED <<now, target, claim, retrying, recovering, failing, published>>

\* What this Worker put into the file system in its attempt at the job.
Manifested(w, j) ==
    published[j] # None /\ published[j].owner = w /\ published[j].fence = claim[w].fence

\* The fenced completions of a successful attempt.  All but the recording's
\* refuse a row with a cancellation request.  Of a check and of a capture the
\* transaction puts the result in place first; of a trial it takes the report
\* that the Runner has written.
CompleteResult(w, j) ==
    /\ claim[w] # None /\ claim[w].job = j /\ retrying[w] = None
    /\ HeldBy(j, w, claim[w].fence)
    /\ Acceptable(j)
    /\ TargetOpen(j)
    /\ TargetType[j] = "FLOW_TRIAL" => Manifested(w, j)
    /\ \E at \in Recent :
        /\ Fresh(j, at)
        /\ jobs[j].expires > at
        /\ jobs' = Released(j, "SUCCEEDED", at, jobs[j].available)
        /\ published' = IF TargetType[j] \in {"RUN", "REFERENCE_CAPTURE"}
                        THEN [published EXCEPT ![j] =
                                [owner |-> w, fence |-> claim[w].fence, at |-> at]]
                        ELSE published
    /\ \E t \in Successes(j) : target' = [target EXCEPT ![j] = t]
    /\ claim' = [claim EXCEPT ![w] = None]
    /\ Event(j, "RUNNING", "SUCCEEDED")
    /\ UNCHANGED <<now, retrying, recovering, failing>>

\* CheckPublisher.publish, or the sealing of a capture, stopped between the
\* rename into place and the commit: the manifest stays, the database is rolled
\* back.
PublishWithoutCommit(w, j) ==
    /\ TargetType[j] \in {"RUN", "REFERENCE_CAPTURE"}
    /\ claim[w] # None /\ claim[w].job = j /\ retrying[w] = None
    /\ HeldBy(j, w, claim[w].fence)
    /\ published[j] = None
    /\ Acceptable(j)
    /\ TargetOpen(j)
    /\ \E at \in Recent :
        /\ Fresh(j, at)
        /\ jobs[j].expires > at
        /\ published' = [published EXCEPT ![j] =
                [owner |-> w, fence |-> claim[w].fence, at |-> at]]
    /\ claim' = [claim EXCEPT ![w] = None]
    /\ UNCHANGED <<now, jobs, target, trail, retrying, recovering, failing>>

\* The Runner of a trial leaves its report in the directory of the attempt.  It
\* knows nothing of lease and cancellation, and its Worker goes on.
RunnerReports(w, j) ==
    /\ TargetType[j] = "FLOW_TRIAL"
    /\ claim[w] # None /\ claim[w].job = j
    /\ published[j] = None
    /\ published' = [published EXCEPT ![j] =
            [owner |-> w, fence |-> claim[w].fence, at |-> now]]
    /\ UNCHANGED <<now, jobs, target, trail, claim, retrying, recovering, failing>>

\* JobAttempts.complete_cancellation; its UPDATE repeats every pre-read.
EndCancelled(w, j, fence, at) ==
    /\ HeldBy(j, w, fence)
    /\ jobs[j].cancel
    /\ TargetOpen(j)
    /\ Fresh(j, at)
    /\ jobs[j].expires > at
    /\ jobs' = Released(j, "CANCELLED", at, jobs[j].available)
    /\ target' = [target EXCEPT ![j] = Finished(j, "CANCELLED")]
    /\ Event(j, "RUNNING", "CANCELLED")
    /\ UNCHANGED <<now, retrying, recovering, failing, published>>

\* JobAttempts.record_fatal_failure: does not look at the cancellation.
EndFailed(w, j, fence, at) ==
    /\ HeldBy(j, w, fence)
    /\ TargetOpen(j)
    /\ Fresh(j, at)
    /\ jobs[j].expires > at
    /\ jobs' = Released(j, "FAILED", at, jobs[j].available)
    /\ target' = [target EXCEPT ![j] = Finished(j, "FAILED")]
    /\ Event(j, "RUNNING", "FAILED")
    /\ UNCHANGED <<now, retrying, recovering, failing, published>>

CompleteCancellation(w, j) ==
    /\ claim[w] # None /\ claim[w].job = j /\ retrying[w] = None
    /\ \E at \in Recent : EndCancelled(w, j, claim[w].fence, at)
    /\ claim' = [claim EXCEPT ![w] = None]

\* The handler of a trial never gets here: it asks its publisher for a list of
\* reports FlowTrialJobs does not have, and the AttributeError ends it.
RecordFatalFailure(w, j) ==
    /\ TargetType[j] # "FLOW_TRIAL"
    /\ claim[w] # None /\ claim[w].job = j /\ retrying[w] = None
    /\ \E at \in Recent : EndFailed(w, j, claim[w].fence, at)
    /\ claim' = [claim EXCEPT ![w] = None]

\* JobAttempts.record_retryable_failure up to its UPDATE: the fence and the
\* cancellation are read and the next state is decided outside the lock.
ReadRetryableFailure(w, j) ==
    /\ claim[w] # None /\ claim[w].job = j /\ retrying[w] = None
    /\ HeldBy(j, w, claim[w].fence)
    /\ ~jobs[j].cancel
    /\ \E at \in Recent :
        /\ jobs[j].expires > at
        /\ IF jobs[j].attempt >= MaxAttempts[j]
           THEN retrying' = [retrying EXCEPT ![w] =
                    [at |-> at, next |-> "FAILED", available |-> jobs[j].available]]
           ELSE \E d \in RetryDelays : retrying' = [retrying EXCEPT ![w] =
                    [at |-> at, next |-> "RETRY_WAIT", available |-> at + d]]
    /\ UNCHANGED <<now, jobs, target, trail, claim, recovering, failing, published>>

\* Its UPDATE: owner, fence, lease and age are checked, the cancellation is not.
WriteRetryableFailure(w, j) ==
    /\ claim[w] # None /\ claim[w].job = j /\ retrying[w] # None
    /\ HeldBy(j, w, claim[w].fence)
    /\ Fresh(j, retrying[w].at)
    /\ jobs[j].expires > retrying[w].at
    /\ retrying[w].next = "FAILED" => TargetOpen(j)
    /\ jobs' = Released(j, retrying[w].next, retrying[w].at, retrying[w].available)
    /\ target' = IF retrying[w].next = "FAILED"
                 THEN [target EXCEPT ![j] = Finished(j, "FAILED")]
                 ELSE target
    /\ Event(j, "RUNNING", retrying[w].next)
    /\ claim' = [claim EXCEPT ![w] = None]
    /\ retrying' = [retrying EXCEPT ![w] = None]
    /\ UNCHANGED <<now, recovering, failing, published>>

\* The handler raised, or the Worker died: what it knew is gone, its open
\* transaction is rolled back, the row stays as it is.
LeaveAttempt(w) ==
    /\ claim[w] # None
    /\ claim' = [claim EXCEPT ![w] = None]
    /\ retrying' = [retrying EXCEPT ![w] = None]
    /\ UNCHANGED <<now, jobs, target, trail, recovering, failing, published>>

\* The service process is gone: what its supervisor had read is lost, and with
\* it what the Workers in W knew whose trees the kernel ended.
Outage(W) ==
    /\ claim' = [w \in Owner |-> IF w \in W THEN None ELSE claim[w]]
    /\ retrying' = [w \in Owner |-> IF w \in W THEN None ELSE retrying[w]]
    /\ recovering' = None
    /\ failing' = None
    /\ UNCHANGED <<now, jobs, target, trail, published>>

-----------------------------------------------------------------------------
(* The control plane: cancellation, waiting failures and recovery.         *)

\* JobQueue.request_cancellation.  The request is recorded if there is none;
\* a waiting job ends at once, a running one is left to its Worker.
RequestCancellation(j) ==
    /\ \E at \in Recent :
        /\ Fresh(j, at)
        /\ \/ /\ jobs[j].state = "RUNNING"
              /\ ~jobs[j].cancel
              /\ jobs' = Requested(j, at)
              /\ Event(j, "RUNNING", "RUNNING")
              /\ UNCHANGED target
           \/ /\ jobs[j].state \in Waiting
              /\ TargetOpen(j)
              /\ jobs' = Cancelled(j, at)
              /\ Event(j, jobs[j].state, "CANCELLED")
              /\ target' = [target EXCEPT ![j] = Finished(j, "CANCELLED")]
    /\ UNCHANGED <<now, claim, retrying, recovering, failing, published>>

\* JobAttempts.record_waiting_fatal_failure, for a job whose Worker could not
\* be started or left before it claimed: the state to report is read first.
ReadWaitingFailure(j) ==
    /\ failing = None
    /\ jobs[j].state \in Waiting
    /\ failing' = [job |-> j, seen |-> jobs[j].state]
    /\ UNCHANGED <<now, jobs, target, trail, claim, retrying, recovering, published>>

\* The row its UPDATE looks for: still waiting, no lease, no cancellation.
StillWaiting(j) ==
    /\ jobs[j].state \in Waiting
    /\ jobs[j].owner = None /\ jobs[j].expires = 0
    /\ ~jobs[j].cancel
    /\ TargetOpen(j)

RecordWaitingFailure ==
    /\ failing # None
    /\ LET j == failing.job
       IN /\ StillWaiting(j)
          /\ \E at \in Recent : Fresh(j, at) /\ jobs' = Failed(j, at)
          /\ target' = [target EXCEPT ![j] = Finished(j, "FAILED")]
          /\ Event(j, failing.seen, "FAILED")
    /\ failing' = None
    /\ UNCHANGED <<now, claim, retrying, recovering, published>>

\* A claim or a cancellation came first: the UPDATE matched no row.
DropWaitingFailure ==
    /\ failing # None
    /\ failing' = None
    /\ UNCHANGED <<now, jobs, target, trail, claim, retrying, recovering, published>>

\* LocalWorkerSupervisor._finish_worker_exit, within the lease: the attempt
\* of a Worker that left is ended under the owner and fence on the row.
CloseAttempt(w, j) ==
    /\ claim[w] = None
    /\ \E at \in Recent :
        \/ EndCancelled(w, j, jobs[j].fence, at)
        \/ EndFailed(w, j, jobs[j].fence, at)
    /\ UNCHANGED claim

\* JobRecovery.confirm_recovery up to its UPDATE, for a candidate listed with
\* an expired lease: the outcome is decided from a row read outside the lock.
ReadRecovery(j) ==
    /\ recovering = None
    /\ jobs[j].state = "RUNNING"
    /\ \E at \in Recent :
        /\ jobs[j].expires <= at
        /\ LET plan(to, available) ==
                 [job |-> j, owner |-> jobs[j].owner, fence |-> jobs[j].fence,
                  at |-> at, next |-> to, available |-> available]
           IN \/ /\ jobs[j].cancel
                 /\ recovering' = plan("CANCELLED", jobs[j].available)
              \/ /\ ~jobs[j].cancel /\ jobs[j].attempt >= MaxAttempts[j]
                 /\ recovering' = plan("FAILED", jobs[j].available)
              \/ /\ ~jobs[j].cancel /\ jobs[j].attempt < MaxAttempts[j]
                 /\ \E d \in RetryDelays : recovering' = plan("RETRY_WAIT", at + d)
    /\ UNCHANGED <<now, jobs, target, trail, claim, retrying, failing, published>>

\* The row its UPDATE looks for: the original owner and fence, the lease
\* still expired, and cancelled only if a cancellation is asked for.
StillExpired(p) ==
    /\ HeldBy(p.job, p.owner, p.fence)
    /\ Fresh(p.job, p.at)
    /\ jobs[p.job].expires <= p.at
    /\ p.next = "CANCELLED" => jobs[p.job].cancel
    /\ p.next # "RETRY_WAIT" => TargetOpen(p.job)

ConfirmRecovery ==
    /\ recovering # None
    /\ LET p == recovering
           j == p.job
       IN /\ StillExpired(p)
          /\ jobs' = Released(j, p.next, p.at, p.available)
          /\ target' = IF p.next = "RETRY_WAIT" THEN target
                       ELSE [target EXCEPT ![j] = Finished(j, p.next)]
          /\ Event(j, "RUNNING", p.next)
    /\ recovering' = None
    /\ UNCHANGED <<now, claim, retrying, failing, published>>

\* LocalWorkerSupervisor._reconcile_check: the commit of a publication that
\* stopped half way.  The lease may have expired since, and no later claim or
\* cancellation may stand.  Only CheckPublisher.complete_existing compares the
\* lease with the time of the manifest.
Reconcilable(j) ==
    /\ published[j] # None
    /\ HeldBy(j, published[j].owner, published[j].fence)
    /\ ~jobs[j].cancel
    /\ TargetOpen(j)
    /\ TargetType[j] = "RUN" => jobs[j].expires > published[j].at

ReconcileResult(j) ==
    /\ Reconcilable(j)
    /\ \E at \in Recent :
        /\ Fresh(j, at)
        /\ published[j].at <= at
        /\ jobs' = Released(j, "SUCCEEDED", at, jobs[j].available)
    /\ \E t \in Successes(j) : target' = [target EXCEPT ![j] = t]
    /\ Event(j, "RUNNING", "SUCCEEDED")
    /\ UNCHANGED <<now, claim, retrying, recovering, failing, published>>

\* The UPDATE matched no row, or the service stopped in between.
DropRecovery ==
    /\ recovering # None
    /\ recovering' = None
    /\ UNCHANGED <<now, jobs, target, trail, claim, retrying, failing, published>>

-----------------------------------------------------------------------------
WorkerStep(w, j) ==
    \/ ClaimJob(w, j)
    \/ RenewLease(w, j)
    \/ CompleteResult(w, j)
    \/ PublishWithoutCommit(w, j)
    \/ RunnerReports(w, j)
    \/ CompleteCancellation(w, j)
    \/ RecordFatalFailure(w, j)
    \/ ReadRetryableFailure(w, j)
    \/ WriteRetryableFailure(w, j)

ControlStep(j) ==
    \/ RequestCancellation(j)
    \/ ReadWaitingFailure(j)
    \/ ReadRecovery(j)
    \/ ReconcileResult(j)

Next ==
    \/ Tick
    \/ \E w \in Owner, j \in Job : WorkerStep(w, j) \/ CloseAttempt(w, j)
    \/ \E w \in Owner : LeaveAttempt(w)
    \/ \E W \in {{}, Owner} : Outage(W)
    \/ \E j \in Job : ControlStep(j)
    \/ RecordWaitingFailure
    \/ DropWaitingFailure
    \/ ConfirmRecovery
    \/ DropRecovery

Spec == Init /\ [][Next]_vars

-----------------------------------------------------------------------------
(* What the job table promises.                                            *)

\* The CHECK constraints of the table and what the services add to them: one
\* fence per attempt, a lease exactly while RUNNING, a job put back for a
\* retry always has an attempt left, CANCELLED only on request.
RowOK(j) ==
    LET r == jobs[j]
    IN /\ r.attempt = r.fence
       /\ r.attempt <= MaxAttempts[j]
       /\ r.state = "PENDING" => r.attempt = 0
       /\ r.state \in {"RUNNING", "RETRY_WAIT", "SUCCEEDED"} => r.attempt > 0
       /\ r.state = "RETRY_WAIT" => r.attempt < MaxAttempts[j]
       /\ r.state = "RUNNING" <=> r.owner # None
       /\ r.state = "RUNNING" <=> r.expires # 0
       /\ r.state = "CANCELLED" => r.cancel

RowConstraints == \A j \in Job : RowOK(j)

\* Job and target change together: the target is closed exactly when the job
\* is over, and closed the way the job ended.
TargetAgrees ==
    \A j \in Job :
        CASE jobs[j].state = "PENDING" -> target[j] = NewTarget(j)
          [] jobs[j].state \in {"RUNNING", "RETRY_WAIT"} -> target[j] = Advanced(j)
          [] jobs[j].state = "SUCCEEDED" -> target[j] \in Successes(j)
          [] OTHER -> target[j] = IF HasLifecycle(j) THEN jobs[j].state ELSE "NONE"

\* Two Workers never hold the same fence of a job, none holds a fence not yet
\* given out, and the newest fence of a RUNNING job is its owner's.
FencesAreUnique ==
    \A w \in Owner : claim[w] # None =>
        LET j == claim[w].job
        IN /\ claim[w].fence <= jobs[j].fence
           /\ claim[w].fence = jobs[j].fence /\ jobs[j].state = "RUNNING"
                => jobs[j].owner = w
           /\ \A v \in Owner \ {w} : claim[v] # None /\ claim[v].job = j
                => claim[v].fence # claim[w].fence

\* A job that is over never changes again, nor does what it executed.
TerminalIsFinal ==
    [][\A j \in Job : jobs[j].state \in Terminal
            => jobs'[j] = jobs[j] /\ target'[j] = target[j]]_vars

\* A RUNNING job leaves that state by its own holder's hand, for a holder that
\* no longer acts under the lease, by a recovery after the lease ran out, or
\* by the commit of what its holder left in the file system: of a check or a
\* capture, while the lease was valid.  An older holder never ends it.
OnlyHolderFinishes ==
    [][\A j \in Job :
        jobs[j].state = "RUNNING" /\ jobs'[j].state # "RUNNING" =>
            \/ /\ claim[jobs[j].owner] = [job |-> j, fence |-> jobs[j].fence]
               /\ claim'[jobs[j].owner] = None
            \/ /\ claim[jobs[j].owner] = None
               /\ claim' = claim /\ jobs[j].expires + Delay > now
            \/ recovering # None /\ recovering' = None /\ jobs[j].expires <= now
            \/ /\ published[j] # None
               /\ published[j].fence = jobs[j].fence
               /\ TargetType[j] = "FLOW_TRIAL" \/ published[j].at < jobs[j].expires]_vars

\* Once a cancellation is on record no job is claimed again, and a check or a
\* preflight can no longer succeed.
CancelledNeverSucceeds ==
    [][\A j \in Job : jobs[j].cancel =>
            /\ TargetType[j] # "RECORDING" /\ jobs[j].state # "SUCCEEDED"
                => jobs'[j].state # "SUCCEEDED"
            /\ jobs[j].state # "RUNNING" => jobs'[j].state # "RUNNING"]_vars

\* The last event of a job names the state the job is really in.
TrailEndsInState == \A j \in Job : trail[j].target = jobs[j].state

\* Every event names the state the job was really in before it.
TrailNamesSource ==
    [][\A j \in Job : jobs'[j].state # jobs[j].state
            => trail'[j].source = jobs[j].state]_vars

\* attempts.py:205: a job under cancellation cannot enter RETRY_WAIT.
NoCancelledRetry ==
    \A j \in Job : jobs[j].state = "RETRY_WAIT" => ~jobs[j].cancel

-----------------------------------------------------------------------------
(* The job table implements JobLifecycle.                                  *)

\* How the target ended; the job itself tells where no lifecycle is kept.
Outcome(j) ==
    IF HasLifecycle(j)
    THEN CASE target[j] \in {"FAILED", "CANCELLED"} -> target[j]
           [] target[j] \in {"COMPLETED", "PENDING_REVIEW", "SAFETY_STOPPED"} -> "SUCCEEDED"
           [] OTHER -> "OPEN"
    ELSE IF jobs[j].state \in Terminal THEN jobs[j].state ELSE "OPEN"

Lifecycle == INSTANCE JobLifecycle WITH
    Budget   <- MaxAttempts,
    phase    <- [j \in Job |-> jobs[j].state],
    attempts <- [j \in Job |-> jobs[j].fence],
    outcome  <- [j \in Job |-> Outcome(j)]

\* Every step of the services is a step of the abstract lifecycle or none.
ImplementsLifecycle == Lifecycle!Spec
=============================================================================
