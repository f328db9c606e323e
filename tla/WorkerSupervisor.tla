-------------------------- MODULE WorkerSupervisor --------------------------
(***************************************************************************)
(* Who may touch the job table and when.  The service runs one supervisor  *)
(* thread that launches a Worker process tree for a waiting job, reaps it, *)
(* settles what it left behind and recovers jobs whose lease ran out.  A   *)
(* Worker takes a lock file before it claims.  A receipt beside the lock   *)
(* names the last tree launched for the job.                               *)
(*                                                                         *)
(* Service, supervisor and Workers may stop at any step.  On Windows the   *)
(* trees die with the service (KillOnClose), on POSIX they go on.          *)
(*                                                                         *)
(* An owner is one launch: _start_job draws a fresh lease owner each time. *)
(***************************************************************************)
EXTENDS JobControl

CONSTANTS
    KillOnClose, \* the kernel ends a tree whose supervising handle is closed
    MaxDowns     \* bound: how often the service stops or crashes

ASSUME SupervisorAssumption == KillOnClose \in BOOLEAN /\ MaxDowns \in Nat

VARIABLES
    service,  \* the serve process with its supervisor thread
    downs,    \* how often it went down
    worker,   \* process tree of each launch
    runs,     \* the job each launch was made for
    receipt,  \* owner in the tree receipt of each job
    slot,     \* the launches the supervisor holds handles of
    reaping   \* what _finish_worker_exit read of a job left RUNNING

own  == <<service, downs, worker, runs, receipt, slot, reaping>>
svars == <<now, jobs, target, trail, claim, retrying, recovering, failing, published,
           service, downs, worker, runs, receipt, slot, reaping>>

\* unborn   not launched
\* starting running, the lock not taken
\* locked   running under the lock
\* left     the root process ended, descendants may remain
\* gone     nothing of the tree remains
Tree == {"unborn", "starting", "locked", "left", "gone"}

Slots == {"primary", "peer"}

Exit == [job : Job, owner : Owner, fence : Nat, cancel : BOOLEAN,
         valid : BOOLEAN, at : Nat]

SupervisorTypeOK ==
    /\ TypeOK
    /\ service \in {"up", "stopping", "down"}
    /\ downs \in 0..MaxDowns
    /\ worker \in [Owner -> Tree]
    /\ runs \in [Owner -> Job \cup {None}]
    /\ receipt \in [Job -> Owner \cup {None}]
    /\ slot \in [Slots -> Owner \cup {None}]
    /\ reaping \in Exit \cup {None}

SupervisorInit ==
    /\ Init
    /\ service = "up"
    /\ downs = 0
    /\ worker = [w \in Owner |-> "unborn"]
    /\ runs = [w \in Owner |-> None]
    /\ receipt = [j \in Job |-> None]
    /\ slot = [s \in Slots |-> None]
    /\ reaping = None

-----------------------------------------------------------------------------
(* Worker processes.                                                       *)

Alive(w) == worker[w] \in {"starting", "locked"}

\* No process holds the lock file of the job.
LockFree(j) == \A w \in Owner : runs[w] = j => worker[w] # "locked"

\* Mutated: a free lock is taken as proof.
ExecutionExited_lockOnly(j, o) == LockFree(j)

\* Mutated: a lock file left behind counts as a lock.
ExecutionExited_staleFile(j, o) ==
    /\ \A w \in Owner : runs[w] = j => worker[w] = "unborn"
    /\ receipt[j] = o

\* WorkerLifetimeLock.execution_has_exited: the lock can be taken, the receipt
\* is the one of this owner, and the kernel knows no process of that tree.
ExecutionExited(j, o) ==
    /\ LockFree(j)
    /\ receipt[j] = o
    /\ worker[o] = "gone"

\* What a process knew is gone with it.
Forgets(w) ==
    /\ claim' = [claim EXCEPT ![w] = None]
    /\ retrying' = [retrying EXCEPT ![w] = None]

AcquireLock(w) ==
    /\ worker[w] = "starting"
    /\ worker' = [worker EXCEPT ![w] = IF LockFree(runs[w]) THEN "locked" ELSE "left"]
    /\ UNCHANGED <<vars, service, downs, runs, receipt, slot, reaping>>

\* main: run_job of the handler, one service call after another.
Work(w) ==
    /\ worker[w] = "locked"
    /\ WorkerStep(w, runs[w]) \/ LeaveAttempt(w)
    /\ UNCHANGED own

\* main: after run_job the row decides.  A retry with an attempt left keeps
\* the process, everything else ends it.
WorkerLeaves(w) ==
    /\ worker[w] = "locked"
    /\ claim[w] = None
    /\ LET r == jobs[runs[w]]
       IN ~(r.state = "RETRY_WAIT" /\ r.attempt < MaxAttempts[runs[w]])
    /\ worker' = [worker EXCEPT ![w] = "left"]
    /\ UNCHANGED <<vars, service, downs, runs, receipt, slot, reaping>>

\* The root process is killed or fails outside the handler.
WorkerDies(w) ==
    /\ Alive(w)
    /\ worker' = [worker EXCEPT ![w] = "left"]
    /\ Forgets(w)
    /\ UNCHANGED <<now, jobs, target, trail, recovering, failing, published,
                   service, downs, runs, receipt, slot, reaping>>

TreeExits(w) ==
    /\ worker[w] = "left"
    /\ worker' = [worker EXCEPT ![w] = "gone"]
    /\ UNCHANGED <<vars, service, downs, runs, receipt, slot, reaping>>

-----------------------------------------------------------------------------
(* The supervisor thread.                                                  *)

\* It does one thing at a time.
Idle == reaping = None /\ failing = None /\ recovering = None

\* Mutated: each slot is filled on its own.
Admits_any(s, j) == slot[s] = None

\* Mutated: the second slot does not look at what the first executes.
Admits_besideAny(s, j) ==
    LET other == slot[IF s = "primary" THEN "peer" ELSE "primary"]
    IN /\ slot[s] = None
       /\ s = "peer" => other # None
       /\ other # None => j # runs[other] /\ TargetType[j] = "PROOF_PREFLIGHT"

\* LocalWorkerSupervisor._loop and _next_job: one Worker at a time, and a
\* second one only while both execute preflights, never of the same job.
Admits(s, j) ==
    LET other == slot[IF s = "primary" THEN "peer" ELSE "primary"]
    IN /\ slot[s] = None
       /\ s = "peer" => other # None
       /\ other # None => /\ j # runs[other]
                          /\ TargetType[j] = "PROOF_PREFLIGHT"
                          /\ s = "peer" => TargetType[runs[other]] = "PROOF_PREFLIGHT"

Schedules(s, j) ==
    /\ service = "up" /\ Idle
    /\ Admits(s, j)
    /\ Claimable(j, now)

\* _start_job and WorkerDispatcher.start: the receipt is written before the
\* process is let go; it replaces the receipt of the launch before.
StartWorker(s, w, j) ==
    /\ Schedules(s, j)
    /\ worker[w] = "unborn"
    /\ worker' = [worker EXCEPT ![w] = "starting"]
    /\ runs' = [runs EXCEPT ![w] = j]
    /\ receipt' = [receipt EXCEPT ![j] = w]
    /\ slot' = [slot EXCEPT ![s] = w]
    /\ UNCHANGED <<vars, service, downs, reaping>>

\* The launch failed, before or after the receipt; the tree is killed.
StartFails(s, w, j) ==
    /\ Schedules(s, j)
    /\ worker[w] = "unborn"
    /\ worker' = [worker EXCEPT ![w] = "gone"]
    /\ runs' = [runs EXCEPT ![w] = j]
    /\ receipt' \in {receipt, [receipt EXCEPT ![j] = w]}
    /\ ReadWaitingFailure(j)
    /\ UNCHANGED <<service, downs, slot, reaping>>

\* The row still belongs to the launch that was reaped.
OwnRow(j, w) == jobs[j].state = "RUNNING" /\ jobs[j].owner = w

\* release_process_tree: what remains of the tree is killed.
TreeReleased(w) == [worker EXCEPT ![w] = "gone"]

\* Mutated: nobody asks whether the Worker has ended.
Exited_unasked(w) == TRUE

\* The root process has ended.
Exited(w) == worker[w] \in {"left", "gone"}

\* _reap_finished_worker and the end of stop: the tree is released, the
\* handle dropped, and _finish_worker_exit reads the row.
Reap(s) ==
    /\ service # "down" /\ Idle
    /\ slot[s] # None
    /\ service = "stopping" /\ s = "primary" => slot["peer"] = None
    /\ Exited(slot[s])
    /\ slot' = [slot EXCEPT ![s] = None]
    /\ LET w == slot[s]
           j == runs[w]
       IN /\ worker' = TreeReleased(w)
          /\ \/ /\ jobs[j].state \in Waiting
                /\ ReadWaitingFailure(j)
                /\ UNCHANGED reaping
             \/ /\ OwnRow(j, w)
                /\ \E at \in Recent :
                    reaping' = [job |-> j, owner |-> jobs[j].owner, fence |-> jobs[j].fence,
                                cancel |-> jobs[j].cancel,
                                valid |-> jobs[j].expires > at, at |-> at]
                /\ UNCHANGED vars
             \/ /\ jobs[j].state \notin Waiting /\ ~OwnRow(j, w)
                /\ UNCHANGED <<vars, reaping>>
    /\ UNCHANGED <<service, downs, runs, receipt>>

\* _finish_worker_exit, first: what a job published before it stopped is
\* committed.
SettlePublished ==
    /\ reaping # None
    /\ ReconcileResult(reaping.job)
    /\ reaping' = None
    /\ UNCHANGED <<service, downs, worker, runs, receipt, slot>>

\* _reconcile_check takes what was published.  Of a capture only if the inputs
\* it was authorised for are still current.
Reconciles(j) == Reconcilable(j) /\ TargetType[j] # "REFERENCE_CAPTURE"

\* Then, within the lease: cancelled or failed, as the row read by Reap says.
SettleAttempt ==
    /\ reaping # None
    /\ ~Reconciles(reaping.job)
    /\ reaping.valid /\ reaping.at \in Recent
    /\ IF reaping.cancel
       THEN EndCancelled(reaping.owner, reaping.job, reaping.fence, reaping.at)
       ELSE EndFailed(reaping.owner, reaping.job, reaping.fence, reaping.at)
    /\ reaping' = None
    /\ UNCHANGED <<claim, service, downs, worker, runs, receipt, slot>>

\* _confirm_exited_recovery: the proof of exit, the row still the same, no
\* publication to commit; then the recovery itself.
ConfirmExited(j, o, fence) ==
    /\ ExecutionExited(j, o)
    /\ HeldBy(j, o, fence)
    /\ ~Reconciles(j)
    /\ ReadRecovery(j)

\* Otherwise the job is recovered.
SettleExpired ==
    /\ reaping # None /\ ~reaping.valid
    /\ ConfirmExited(reaping.job, reaping.owner, reaping.fence)
    /\ reaping' = None
    /\ UNCHANGED <<service, downs, worker, runs, receipt, slot>>

\* Mutated: the exception is not caught, the same exit is settled again.
SettleAbandoned_retried == reaping # None /\ UNCHANGED svars

\* Any exception on the way is logged and the job stays RUNNING.
SettleAbandoned ==
    /\ reaping # None
    /\ reaping' = None
    /\ UNCHANGED <<vars, service, downs, worker, runs, receipt, slot>>

\* _recover_expired_workers: candidates are RUNNING and past their lease.
ScanRecovery(j) ==
    /\ service = "up" /\ Idle
    /\ jobs[j].state = "RUNNING" /\ jobs[j].expires <= now
    /\ \/ ConfirmExited(j, jobs[j].owner, jobs[j].fence)
       \/ ExecutionExited(j, jobs[j].owner) /\ ReconcileResult(j)
    /\ UNCHANGED own

\* The second half of a decision, or the news that it came too late.
FinishDecision ==
    /\ \/ RecordWaitingFailure
       \/ failing # None /\ ~StillWaiting(failing.job) /\ DropWaitingFailure
       \/ ConfirmRecovery
       \/ recovering # None /\ ~StillExpired(recovering) /\ DropRecovery
    /\ UNCHANGED own

SupervisorStep ==
    \/ \E s \in Slots : Reap(s)
    \/ \E s \in Slots, w \in Owner, j \in Job : StartWorker(s, w, j) \/ StartFails(s, w, j)
    \/ SettlePublished \/ SettleAttempt \/ SettleExpired \/ SettleAbandoned
    \/ \E j \in Job : ScanRecovery(j)
    \/ FinishDecision

-----------------------------------------------------------------------------
(* The service around it.                                                  *)

\* stop: the thread ends after its turn, then each Worker still running is
\* asked to cancel and its tree is terminated, the second slot first.
BeginStop ==
    /\ service = "up" /\ downs < MaxDowns
    /\ service' = "stopping"
    /\ downs' = downs + 1
    /\ UNCHANGED <<vars, worker, runs, receipt, slot, reaping>>

Terminate(s) ==
    /\ service = "stopping" /\ Idle
    /\ slot[s] # None
    /\ s = "primary" => slot["peer"] = None
    /\ WorkerDies(slot[s])

Stopped ==
    /\ service = "stopping" /\ Idle
    /\ \A s \in Slots : slot[s] = None
    /\ service' = "down"
    /\ UNCHANGED <<vars, downs, worker, runs, receipt, slot, reaping>>

\* The service process ends without notice.
Crash ==
    /\ service # "down" /\ downs < MaxDowns
    /\ service' = "down"
    /\ downs' = downs + 1
    /\ slot' = [s \in Slots |-> None]
    /\ reaping' = None
    /\ IF KillOnClose
       THEN /\ worker' = [w \in Owner |-> IF worker[w] = "unborn" THEN "unborn" ELSE "gone"]
            /\ Outage(Owner)
       ELSE /\ UNCHANGED worker
            /\ Outage({})
    /\ UNCHANGED <<runs, receipt>>

Restart ==
    /\ service = "down"
    /\ service' = "up"
    /\ UNCHANGED <<vars, downs, worker, runs, receipt, slot, reaping>>

\* A request of a user, of stop or of the authorisation check, or of the
\* watchdog of a Worker that lost its service.
Cancel(j) ==
    /\ service # "down" \/ \E w \in Owner : worker[w] = "locked" /\ runs[w] = j
    /\ RequestCancellation(j)
    /\ UNCHANGED own

SupervisorNext ==
    \/ Tick /\ UNCHANGED own
    \/ \E w \in Owner : \/ AcquireLock(w) \/ Work(w) \/ WorkerLeaves(w)
                        \/ WorkerDies(w) \/ TreeExits(w)
    \/ SupervisorStep
    \/ \E s \in Slots : Terminate(s)
    \/ BeginStop \/ Stopped \/ Crash \/ Restart
    \/ \E j \in Job : Cancel(j)

SupervisorSpec == SupervisorInit /\ [][SupervisorNext]_svars

\* Time passes; the supervisor loop and a service that is stopping go on; a
\* service that is down is started again; a Worker's attempt is bounded by
\* the duration AttemptProcessControl.monitor enforces.  Nothing is assumed
\* of crashes, of cancellations, or of processes nobody holds a handle of.
Fairness ==
    /\ WF_svars(Tick /\ UNCHANGED own)
    /\ WF_svars(SupervisorStep)
    /\ WF_svars(Stopped \/ \E s \in Slots : Terminate(s))
    /\ WF_svars(Restart)
    /\ \A w \in Owner : WF_svars(AcquireLock(w) \/ Work(w) \/ WorkerLeaves(w))

FairSupervisorSpec == SupervisorSpec /\ Fairness

-----------------------------------------------------------------------------
(* What the supervisor promises.                                           *)

\* Whatever is decided about a job in the place of its Worker is decided after
\* every process of that Worker's tree is gone, also when the service went
\* down and the lease ran out in the meantime.
OnlyDeadSettled ==
    /\ reaping # None => worker[reaping.owner] = "gone"
    /\ recovering # None => worker[recovering.owner] = "gone"

\* No two trees launched for one job exist at the same time.
OneTreePerJob ==
    \A v, w \in Owner :
        v # w /\ runs[v] # None /\ runs[v] = runs[w]
            => worker[v] = "gone" \/ worker[w] = "gone"

\* Two jobs are executed at the same time only if both are preflights.
ParallelOnlyPreflights ==
    \A v, w \in Owner :
        v # w /\ Alive(v) /\ Alive(w) =>
            TargetType[runs[v]] = "PROOF_PREFLIGHT" /\ TargetType[runs[w]] = "PROOF_PREFLIGHT"

\* The supervisor and the Workers are the actors JobControl assumes.
ImplementsControl == Spec

\* supervisor.py:336: no job stays RUNNING for ever.
NoHangingRun == \A j \in Job : jobs[j].state = "RUNNING" ~> jobs[j].state # "RUNNING"

\* Every launch is reaped: no slot stays occupied for ever.
SlotsReleased == \A s \in Slots : slot[s] # None ~> slot[s] = None

\* check_runner/supervisor.py:113: what a check published is reconciled, the
\* job is never marked failed.
PublishedNotFailed ==
    \A j \in Job : published[j] # None => jobs[j].state # "FAILED"
=============================================================================
