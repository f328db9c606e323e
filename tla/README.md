# jiejian: a verification project in TLA+

jiejian (界鉴) checks the permission rules of a Web application against what
the application really does. A user records flows, states rules, and has them
checked; each recording, proof, trial, login, run of the application and check is
executed by a Worker process tree outside the service. This directory holds TLA+
models of the part that makes this reliable: the job table in SQLite and the services
that change it, the supervisors that start, watch and bury Workers, the submission of
jobs, and the four multi-step procedures around them whose effects do not commit
together: saving a login, preparing a batch of proofs, accepting a recording, cleaning up the disk. TLC checks the
models on small instances, TLAPS proves the main invariants for every value of
the constants.

Paths below are relative to `src/product/backend/` unless they start with `src/`;
`docs/` stands for `src/docs/`.

## 1. Inventory

The backend is layered: `interfaces` (http, mcp, cli, worker) call `application`
services, which use `domain` types and `infrastructure`. One service process holds
the workspace (`infrastructure/runtime/serve_lock.py`). Workers are processes of
their own and share with it the database, the directories of request snapshots
and results, a lock file and a tree receipt per job.

| Component | State | Operations | Interacts with | What makes it hard | What makes it correct |
|---|---|---|---|---|---|
| Job table and control (`infrastructure/storage/execution/jobs.py`, `job_control.py`) | rows of `jobs`, `job_events`, the target tables | claim, renew, complete, fail, cancel, recover: one conditional UPDATE each | every service and Worker | SELECTs run before the write lock; wall-clock times older than the row | lease and fence, budget, one end, target and event agree |
| Job services (`infrastructure/runtime/jobs/`) | none of their own | `JobQueue`, `JobAttempts`, `JobRecovery`, seven target handlers | job table | decisions taken from rows read before the UPDATE | decisions hold when they are written |
| Check publication (`infrastructure/artifacts/checks/check_publication.py`) | result directory and its manifest | publish, complete_existing | check runner, supervisor | no transaction spans a rename and a commit | published once, never failed afterwards |
| Worker supervisor (`infrastructure/runtime/worker/supervisor.py`) | two slots with process handles | loop, start, reap, finish, recover, stop | job services, process trees | crash and restart, Workers that survive, stale reads | decides only for the dead, no job hangs, slots are freed |
| Worker lifetime, process trees (`worker/lifetime.py`, `process/`) | lock file, receipt, kernel objects | acquire, write receipt, prove exit, kill tree | supervisors, Worker | descendants outlive the root | proof of exit is a proof |
| Worker process (`interfaces/worker/job.py`) | its claim | lock, claim, run, retry, watchdog | job services | killed at any step | leaves only what recovery can finish |
| Submission of checks (`application/checks/service.py`, `infrastructure/runtime/jobs/check_requests.py`) | bundle and request files | submit | job queue | files and rows do not commit together; equal calls race | idempotent, no orphan, no lost request |
| Submission of recordings (`application/recording/submission.py`, `project_submission.py`, `credentials.py`) | snapshot files, credentials in memory | submit, submit_captured | job queue, vault | the same | the same |
| Runtime supervisor (`worker/runtime_supervisor.py`, `application/runtime/load_jobs.py`, `interfaces/worker/runtime.py`) | a Worker per project, kept as long as its program | tick, stop_project, stop, recover; submit and publish a load | job table, user requests under the write lock | the guard is dropped within a turn; stop and archive hold the database lock | one program per project, stops are not overtaken, no wait for one's own lock |
| Test identities and login (`application/test_identities`, `infrastructure/identity`) | account and preparation rows, secret store, a directory with journal and control files | submit, login window, adopt, clean up, reset, delete | Worker supervisor | three stores that do not commit together; the window is killed anywhere | every stored value is known to somebody; what is adopted is kept |
| Preparation batches (`application/preparation/batches.py`, `proofs/service.py`) | batch rows with items, receipts of commands, scopes, adoptions | preview, start, cancel, advance; grant, start, adopt, cancel a preflight | job queue, user requests, restarts | steps from snapshots; unknown answers; requests in between | no command given twice or forgotten; a cancellation holds; every batch ends |
| Local maintenance (`infrastructure/maintenance`) | frozen plans in memory, receipts on disk, a lock file | preview, execute, review, clean-up at start | service and command line | crashes between a removal and its receipt; two processes with their own memory | the receipt tells all; a plan is never carried on |
| Recording life cycle (`application/recording`, `infrastructure/recording`, `application/preparation/bindings`, `materials`) | recordings, revisions of drafts, flow files, bindings of actions, receipts of replacements | review, refresh, accept, discard; preview and confirm a replacement | job targets, saved flows and proof sources | reads before the write lock, a file published before the commit | published before complete, reported reviews stay, material is current when bound |
| Preparation (`application/preparation`, the rest) | bindings, materials, trials | many | jobs, boundaries | staleness of materials | a proof is of current materials |
| Boundaries (`application/business_boundaries`) | rules, candidates, proposals | confirm, maintain | preparation, checks | concurrent edits | one current version |
| Verification domain (`domain/verification`) | none | causality, coverage, comparison | check runner | corner cases | agrees with its definition |
| Everything else | see `PROJECT.json` | | | | |

`PROJECT.json` lists every component with its status, and the hazards of the code
at their lines with the properties that cover them.

### The transactions

Three facts about the storage decide what is one step. (1) SQLAlchemy drives
SQLite in the driver's legacy mode: a SELECT opens no transaction; the first
INSERT or UPDATE takes the write lock and holds it until the commit. (2) There is
one writer (WAL); a UPDATE with its conditions, the update of the target and the
event after it are therefore one step. (3) `acquire_write_lock` is BEGIN IMMEDIATE:
what is read after it is read under the lock. So a service whose UPDATE repeats
all it had read is one action; one whose UPDATE repeats less is two actions, and
everybody else may act in between. `record_retryable_failure`, `confirm_recovery`,
`record_waiting_fatal_failure` and `_finish_worker_exit` are of the second kind, and so
are the start of a batch and every step of its coordinator.

## 2. Modules

| Module | Content |
|---|---|
| `JobLifecycle` | abstract: attempts one after another within a budget, one end, the target ends with the job |
| `JobControl` | the job table and its services; implements `JobLifecycle` |
| `WorkerSupervisor` | EXTENDS `JobControl`: supervisor, Workers, lock files, receipts, crashes; implements `JobControl` |
| `IdentityLogin` | EXTENDS `WorkerSupervisor`: the preparation of a login, with window, journal, secret store and account; implements `WorkerSupervisor` |
| `RuntimeSupervisor` | EXTENDS `JobControl`: the programs run for projects, their supervisor and the requests that stop or archive; implements `JobControl` |
| `JobAdmission` | calls that submit checks and recordings, files, credentials, the queue limits |
| `PreparationBatch` | the batch coordinator, its commands with their receipts, the user and restarts |
| `RecordingReview` | review, acceptance and discarding of recordings, flow files and the material of an action |
| `LocalMaintenance` | plans, receipts and files of the local clean-up, two processes |
| `JobControlProofs`, `SupervisorProofs`, `LoginProofs`, `RuntimeProofs`, `AdmissionProofs`, `PreparationProofs`, `RecordingProofs`, `MaintenanceProofs` | theorems and proofs |
| `MC...` | constants for TLC, one module per model |

The operators whose comment starts with "Mutated" are plausible faults: each changes
one definition and makes one property fail; no specification uses them. Properties that no run
checks are of two kinds: those only a theorem establishes, and those of the last section of a module,
which documents or comments state and the code does not keep (section 3).

### JobControl

`jobs` is the table: state, attempt, fencing token, lease owner and expiry,
whether a cancellation was requested, `available_at_us`, `updated_at_us`. `target` is
the state of the Run or Recording the job executes, `trail` the last row of
`job_events`, `published` the result in its final place. `claim` and
`retrying` are local to a Worker: the claim it won, and a retryable failure that it
decided and has not written. `recovering` and `failing` are the same for the
supervisor thread.

| Action | Code |
|---|---|
| `ClaimJob`, `RenewLease` | `attempts.py` `claim_in_work`, `renew_lease`; `job_control.py` `claim`, `renew_lease` |
| `CompleteResult` | `complete_published_result`, `complete_recording_result` and the other fenced completions |
| `PublishWithoutCommit`, `ReconcileResult` | `check_publication.py` `publish` stopped after the rename, `complete_existing` |
| `CompleteCancellation`, `RecordFatalFailure` | the services of these names |
| `ReadRetryableFailure`, `WriteRetryableFailure` | the two halves of `record_retryable_failure` |
| `LeaveAttempt` | the handler raised or the process is gone |
| `RequestCancellation` | `queue.py` `request_cancellation` |
| `ReadWaitingFailure`, `RecordWaitingFailure`, `DropWaitingFailure` | `record_waiting_fatal_failure` |
| `ReadRecovery`, `ConfirmRecovery`, `DropRecovery` | `recovery.py` `confirm_recovery` |
| `CloseAttempt` | `supervisor.py` `_finish_worker_exit` within the lease |
| `Outage` | the service process ends |

Each request carries `now_us`, read from the wall clock before the lock is
obtained: `Recent` are the values it may have, at most `Delay` old. Every UPDATE refuses a
row changed after its `now_us`. All seven kinds of target are there: `RUN` (checks:
publication, one attempt), `RECORDING` (retries, keeps what was captured in spite of a
cancellation), `PROOF_PREFLIGHT` (may run beside another), `REFERENCE_CAPTURE` (puts its
result in place before it commits), `FLOW_TRIAL` (its Runner leaves a report that may
outlive the Worker), `IDENTITY_PREPARATION` and `RUNTIME_LOAD`. Only `RUN` and `RECORDING` have
target states of their own in the table.

### WorkerSupervisor

An owner is one launch: `_start_job` draws a fresh lease owner each time. `worker` is
its process tree: `starting` before it has the lock file, `locked`, `left` when the root
process ended and descendants may remain, `gone`. `receipt` is the owner in the tree
receipt of each job, `slot` the handles of the two slots, `reaping` what
`_finish_worker_exit` has read and not yet acted on. `service` is `up`, `stopping` (after
`stop` was called) or `down`. `KillOnClose` tells Windows, where job objects end a tree
with the handle of the service, from POSIX, where trees survive a crash of it.

The supervisor is one thread: `Idle` keeps it from starting anything while it is in the
middle of a decision. Every exception in it is caught and logged; `SettleAbandoned`
is that path. Workers call `JobControl`'s actions only with the lock file held (`Work`).

### IdentityLogin

The jobs are preparations of one account with one attempt each, so the launch made for a
job bears the job's name. `window` is the login process with its journal and control
files, `store` says whose value stands under each reference of the secret store (references are
made from project, account and position, so two preparations write the same ones),
`account` and `preps` are the two tables, `handler` is how far the Worker's handler has come. The
window journals a reference, writes the value, and reports; the Worker adopts in one
transaction or cleans up; what neither did, the supervisor's `reconcile_exited` or the user's
`retry_cleanup` takes back. The account may be reset, configured anew or deleted at any time.
`fresh` stands for the comparison of fingerprints. A second launch for one preparation
is not modelled (`Owner = Job`).

### RuntimeSupervisor

A load is a job with one attempt. Its Worker starts the program, publishes the receipt, which ends
the job, and stays as long as the program. `managed` is the supervisor's table of Workers,
`picked` the load the current turn is about to launch, `exited` the Workers taken out of the table
whose jobs were not yet looked at. What is done under the guard is one step; the guard is
dropped between the look at the table, the stop of the old program, and the launch. `user` is a
request that holds the database's write lock over several steps, as stop and archive do;
everything that writes waits for it. `TurnLost` is an exception in `tick`. Windows only, as in the
code: no tree outlives the service. Other activity of a project can only make an archive be
refused, and the queue limit of loads is left out.

### JobAdmission

A call is a state machine: looked up, prepared, snapshot written, read inside the
transaction, inserted, cleaned up, answered; a check asks once more after an error. Storage and files
report every error as a `JiejianError`, so every refusal takes that path.
Every call draws a fresh job id, so the call also names its job. `jobs` keeps of a
job only what the queue counts: waiting, running or over. `files` are the request
snapshots, `sessions` the credentials a recording keeps in the vault of its process,
`answer` what the call was told. `Stop` ends a service process; `Home` allows two, as
the idempotency of the code is meant to hold across a restart and against calls
of the command line. `unclear` counts the commits that took effect and were reported
failed; `MaxUnclear` bounds them per kind.

### PreparationBatch

`rows` is the table of batches of one project, `work` where the coordinator is, with the snapshot it
works from, and `receipts` what `_operation` committed together with each command's effect on
`scopes`, `preflights` and `adopted`. A step decides from the snapshot (`Confirm`, `StopOwn`, `Outdated`,
`MakeItems`, `Advance`, `Conclude`), writes the command into the row (`WriteDown`), gives it
(`Execute`, `Repeat`, `NotExecuted`) and saves the answer (`WriteBack`); between any two of these the
user may cancel, start, grant, revoke or change things, Workers end preflights, and the service
may stop. `Stored` and `Merged` are the two places where a save meets a cancellation written
since. Rules, accounts, resources, revisions and the running instance, which the code compares as
`guard` and `basis_id`, are the number `facts`. Items are taken in any order instead of the cursor's,
the two saves after a command are one, a step ends with the save that makes the items, and the
adoption by the user of a source is left out.

### RecordingReview

Begins where `JobControl` ends a recording with its result. `state` is the row, `drafts` the revisions of the
draft, `flow` the file `recordings/<id>/flow.json`, `bound` what each slot of one business action is bound to.
A request of a user, or the Worker that accepts a recording without ambiguities, is a record in `calls`.

| Action | Code |
|---|---|
| `Submit`, `Captured` | `submission.py`: the row with the fingerprint read before; the first draft with the result |
| `Begin`, `ReadDraft` | the first reads of `review`, `refresh`, `finalize`, `discard_review`: row, then last draft |
| `Review` | the INSERT of the next revision, which its key admits once |
| `Compile`, `Publish`, `Accept` | `finalize`: source and draft checked, `publish_recorded_flow`, the transaction that completes and binds |
| `Discard`, `Fails` | the row replaced by CANCELLED; any refusal, error or end of the process |
| `Preview`, `Apply` | `materials/service.py`: what the user sees, and `_apply_once` under the lock, repeated at will |
| `AdoptElsewhere`, `ChangeSource` | `operation_flows.py` and proof sources bind material too; code, endpoint, accounts change |

Every SELECT before the first write is a read of its own, and `RecordingRepository.replace` updates by key alone, so
requests meet only in `Insert`, in the look at the file, and in what `Accept` reads after it took the lock
(`Builds`). Of a draft only the reading the user chose is kept (`None`: still ambiguous), which is also
the content of the flow compiled from it.
One action and one owner of resources are modelled; reuse of material over a change of source is not.

### LocalMaintenance

A preview freezes what may go (`frozen`, in the memory of its process); execution goes through it thing
by thing, naming each in the receipt on disk before it touches it. `task` is what the holder of the lock
file is doing; the clean-up at the start of the service also runs under it. Receipts of older plans are
things to remove as well. The version of a file stands for its fingerprint with its registered
origin. The expiry of plans within the day, and references of the development root (`used`),
are abstracted; the check and removal of one thing by the clean-up at start are one step.

## 3. Runs

| Run | Instance | Question and answer |
|---|---|---|
| `job_table` | a recording with 2 attempts, a check, a capture, a trial, one touched at a time; 2 Workers, clock to 5, requests up to 1 old | rows and fences consistent, nobody ends a job he has no right to, cancellation wins, implements `JobLifecycle`: holds |
| `job_cancel_race` | 1 recording, as above | a job under cancellation does not enter RETRY_WAIT (attempts.py:205): violated |
| `supervisor_live` | 1 recording, 2 launches, 1 crash or stop, trees die, fairness | one tree per job, true event sources, no job stays RUNNING, implements `JobControl`: holds |
| `supervisor_slots` | 2 preflights and a trial, 2 launches, 1 crash or stop, fairness | only preflights side by side, slots are released: holds |
| `supervisor_published` | 1 check, 1 launch | a published check is not marked failed (check_runner/supervisor.py:113): violated |
| `login_single` | 1 login on POSIX with every fault, 2 references | no value is stored unrecorded, decisions only for the dead, a cancelled login adopts nothing, implements `WorkerSupervisor`: holds |
| `login_pair` | 2 logins of one account on Windows, 2 changes of the account | what is adopted is saved and kept, a job that is over has no window: holds |
| `runtime_loads` | 2 loads of 1 project, 3 launches, 2 sessions, 1 lost turn, fairness | one program per project, stops and archives are not overtaken nor wait for themselves, every load ends, implements `JobControl`: holds |
| `admission_mixed` | 3 checks under one key, one of them a different request, 2 recordings, limits 1/2/2, 1 unclear commit of a check | idempotency, compensation, answers and limits: hold |
| `batch_faults` | 2 sources of which 1 is checked at a time, 2 requests, 1 fault or act of the user, fairness | no command twice or forgotten, cancellation holds, one batch at a time, every batch ends: holds |
| `maintenance_faults` | service and command line, 2 plans, 1 file, 1 fault, 2 starts | receipts tell all, no plan is carried on, a running plan is left alone: holds |
| `reviews` | 2 demonstrations, 1 of them a candidate, 1 supplement, 3 requests of 2 callers, 1 replacement, 1 material from elsewhere, 1 change of source | the flow is published first, reported reviews stay, material is current when bound: hold |

**Bounds.** Two attempts are the smallest budget with a retry, a recovery with and
without a budget left, and a stale owner; the code uses 3 for recordings and 1
elsewhere. The clock reaches at least two lease durations where leases matter, so a
lease can be renewed, expire, be recovered and be followed by a second one;
`InHorizon` grants no lease that could not run out before the clock stops. `Delay = 1` is
enough for a request older than the row it meets. In `job_table` the constraint `OneTouched` lets
one of the four jobs be touched in a behaviour: rows of different jobs share nothing but
the two plans of the supervisor thread, so the run asks what each kind of job does, and what jobs do
to each other is asked in the supervisor runs and proved for any number of jobs. In
`admission_mixed` a retried recording takes the queue above its limit, so all three limits are met; the two
recordings are alike there, as are the owners in the runs with `OwnerSymmetry` and the plans in
`PlanSymmetry` (none of which checks liveness). In `runtime_loads` three launches allow a launch that
failed, one that was replaced and its successor. In `maintenance_faults` a plan may be
interrupted, its process started again, and the other process may execute the other plan; results
remembered are 1 instead of 20, so that forgetting one is met. In `reviews` two revisions and three requests let
two reviews, two acceptances, or an acceptance and a discard overlap and a third follow; one choice besides `None` is enough
for two revisions to differ.

`BatchBound` in `batch_faults` names the first request `c1` for `b1`, which symmetry allows, and follows a request for
another batch only while the first has no items yet or has ended, where it can be accepted; in between
it is refused as it is at the beginning. A state outside the bound has no successors in TLC's graph and no infinite
behaviour passes through it, so `BatchesEnd` is judged on the behaviours inside. Two sources with `Parallel = 1` have
one item wait for the other's preflight, as three sources do in the code with its limit of 2.

Deadlock is not checked in any run: the clock, the launches, the calls or the starts run out, and
jobs, calls, batches and plans end.

**Type invariants.** Each model has one; the runs leave them to the proofs, which establish them for every instance.

**Fairness.** (`Fairness` in `WorkerSupervisor`, `RuntimeFairness`, `BatchFairness`): the clock advances; a supervisor thread
goes on (its loop catches every exception and waits at most a second); a service that
is stopping finishes to stop; a service that is down is started again (the launcher or
the user does, and a job of a service nobody starts stays where it is); and a Worker
that holds its lock is bounded, because `AttemptProcessControl.monitor`
(`process/control.py`) ends an attempt at `max_duration` and every handler ends in a
completion or an exception. A request of the user that holds the write lock goes on. The coordinator of
batches goes on because its thread catches every exception and wakes at least every two
seconds (`interfaces/http/app.py` 213-222, `batches.py` 173-177). Nothing is assumed of crashes, of
cancellations, or of processes nobody holds a handle of. Fairness is weak throughout: each of these
steps stays enabled until it is taken.

**Liveness is stated for Windows**, the platform the launcher ships for. On POSIX a
second launch overwrites the receipt of a Worker that survived a crash of the service
and then claims the job; its exit can never be proved and the job stays RUNNING when
it dies. The code prefers that to running a job twice. `TrailNamesSource` is likewise
stated where trees die with the service: a survivor may complete a whole attempt between
the read and the write of `record_waiting_fatal_failure`, whose event then names PENDING
where the job came from RETRY_WAIT. `SlotsReleased` is stated where nothing is retried. POSIX supervision is
checked in `login_single` and its safety is proved for both platforms.

**Findings.** The two violated properties state what a comment or document of the code says;
`PROJECT.json` quotes each. (1) A cancellation between the two halves of a retryable failure leaves a recording in
RETRY_WAIT that nobody can claim or fail. (2) The supervisor marks a published check FAILED when a cancellation
commits after it read the row.

### Further divergences met while modelling

These have no run. Those marked TLC were refuted by it on an instance or variant of the model; the others
were read in the code.

- *Recordings.* The clean-up of a recording call removes the snapshot of a job whose commit was
  reported failed (`submission.py:134`); `SnapshotsKept` assumes this does not happen. Two equal
  recording calls that race under one key are told that their requests differ (`submission.py:535`), since each drew
  its own recording id (TLC).
- *Login.* `CLEANUP_REQUIRED`, written by the Worker or `reconcile_exited`, is overwritten by the target handler
  (`targets.py` 262-266), so that new logins and resets are no longer refused. A `retry_cleanup` of an older
  preparation that read the committed references before may delete what a newer login adopted since
  (`AdoptedIsKept` exempts the user's requests). A `retry_cleanup` of an UNSUPPORTED preparation rewrites its
  phase to PREPARED. On POSIX every nested process has a session of its own, so the receipt of the Worker
  does not cover the login window: `OverIsExited` fails with `KillOnClose = FALSE` (TLC), where the docstring at
  `preparation.py:236` claims it.
- *Runtime.* After a newer load was cancelled while waiting, `latest` names the cancelled one while the old
  program still runs: `setup.py:258` refuses to stop the old one and `runtime_supervisor.py:79` the new one, so
  the running program ends only by another load or an archive, contrary to docs/产品/接入应用.md:35. `UserRefused` is that path.
- *Batches.* (a) Of two overlapping `start` calls under one key the second, which looked the key up before the
  first committed, writes the row anew even when that batch has ended, though batches.py:75 says a repeated
  key only reads (TLC); `again` marks these batches, and `Accounted` and `CancelledIsQuiet` exempt them.
  (b) If the user starts a newer preflight of a source the batch is checking, the item follows it and keeps
  `owned_preflight`; cancelling the batch then stops the user's preflight and leaves its own running
  (TLC), contrary to docs/工程/能力/材料与恢复.md:109. (c) A cancelled batch may still end BLOCKED with its own
  preflights running, after a pending step without a receipt or a failed save. (d) A crash
  between writing a command down and giving it leaves a pending step that will never have a receipt, and the
  project's later starts are refused for good. (e) `latest` is ordered by a time read before the lock, so a batch
  committed out of that order hides the unresolved step of another.
- *Maintenance.* If the receipt of a finished plan cannot be written, previews and reviews are refused
  until the process ends. A directory removed half way is told as skipped. A receipt above 1 MiB cannot be read.
  A file that vanishes between the check and the removal is told as DELETED.
- *Maintenance, receipts.* The clean-up at the start of the service removes every receipt older than a day as a
  temporary file, also that of an interrupted plan nobody has reviewed (`service.py` 295, 379-383). `UnreviewedKept`
  fails (TLC). docs/产品/本地维护.md:34: "进程中断后，存储页面仍能找到上次计划" (after an interruption the
  storage page still finds the last plan).
- *Recordings, after the capture.* Four properties of `RecordingReview` fail (TLC, on instances like that of `reviews`, `FlowImmutable` with two choices):
  - `CompletedStays`: a discard that read PENDING_REVIEW before an acceptance committed replaces COMPLETED by CANCELLED
    (`lifecycle.py:93`), with the material still bound. docs/工程/能力/账号与录制.md:40: "COMPLETED、活动或错关联Job拒绝"
    (COMPLETED, an active or a wrongly related job is refused).
  - `NewerBindingsKept`: an acceptance that read PENDING_REVIEW before another acceptance committed binds the recording
    again, over material adopted in between (`lifecycle.py:298`), where the comment on the next line says
    "重复接受不能把当前技术绑定回退到较早的演示" (accepting again must not turn the current binding back to an earlier
    demonstration).
  - `FlowImmutable`: two acceptances of different revisions find no file and publish one after the other
    (`flows.py:45`); docs/工程/能力/材料与恢复.md:40 speaks of "不可变 Flow" and of a content-addressed file, while the
    path depends on the recording alone.
  - `AcceptedIsLatest`: a review saved between the reads and the write of an acceptance is reported saved, the
    recording is completed with the revision before (`lifecycle.py:283`), no longer open to review, and its binding
    counts as outdated for ever (`sources.py:104`). The comment at `lifecycle.py:280` speaks of the latest draft.
- *Recordings, read in the code.* An acceptance that published its file and then failed leaves it behind; as the file is found by
  its recording, a corrected draft with another content is refused from then on (`Publication`). A candidate confirmed after such an
  interleaving is bound to its last draft and to a file compiled from another (`Offered`).

## 4. Proofs

All theorems hold for every value of the constants under the named assumptions of the
modules, which TLC evaluates in each run. The bounds are constants like
the others, so a theorem does not depend on the size of a bound.

- `JobControlProofs`. `Typing`, then `RowsConsistent`. `RowConstraints` is not inductive alone:
  a retry or a recovery is decided before it is written, and its UPDATE does not look at
  the budget again. `PlansWithinBudget` strengthens it: a decided RETRY_WAIT was within the
  budget at the fence it was decided for. The UPDATE repeats the fence and the row says one
  fence per attempt, so the decision still holds when it is written.
  The section "How jobs end" goes on: a job changes in five ways only: it is inserted, claimed, renewed or asked to
  stop, released for a retry, or ended; every action is shown to be one of them for one job and none for the rest. From that
  follow the agreement of job, target and last event, that what is over stays, that a cancellation
  wins, that fences are unique (`claim` and row together), and the refinement of `JobLifecycle`.
  `HolderFinishes` is about who ends a running job. What a holder has read before its write may be stale by then, so
  `HolderInv` keeps three facts: a decided retry carries a time that is past (`PlannedInPast`), a directory was put in
  its place under the fence it names (`SealedAt`) and, for checks and captures, within the lease of that fence
  (`SealedInLease`), which later renewals only extend.
- `SupervisorProofs`. The inductive invariant `SupInv` relates slots, owners, process trees and
  rows: a slot holds a launched owner, a claim belongs to a locked Worker of that
  job, a RUNNING row's owner was launched for it, and a decision in progress is about an
  owner that is gone. `DecidesOnlyForDead` reads it off; `SupervisorImplementsControl`
  maps every step of the composed system to a step of `JobControl` or a stutter
  (variables of the same names, no mapping needed), and `SupervisedRowsConsistent` and
  `SupervisedJobsEndOnce` carry the theorems of the table over. `OneTree` and `OnlyPreflightsInParallel` assume
  `KillOnClose` and add that every launch that is not gone is held in a slot. So does `EventsNameSource`: a failure the
  supervisor decided while the job waited is written with the state read then, and no Worker can have gone through an
  attempt in between. On POSIX a Worker that outlived the service can, so there the source may be a state of before.
- `LoginProofs`. `LoginSupervised`: each step of window, handler and control plane is a step of `WorkerSupervisor` or a
  stutter, so `LoginDecidesOnlyForDead` follows from `DecidesOnlyForDead`. The rest, on either platform, rests on
  `LoginInv`: what belongs to a preparation bears its name and was submitted (`NamedAt`), the stage of the handler tells the
  state of the job (`HandlerAt`) and what there is of a window (`WindowAt`), readers read of preparations
  (`ReadersInv`), and the account is executed by its latest one (`OneActive`). Steps are of two kinds: those
  from outside, which for every job leave row, window and handler alone or end them (`Outside`), and those of one window or
  handler (`Within`). `EverythingRecorded` then needs only which steps write a value, a journal or the account;
  all others delete at most (`OnlyDeletes`). `CancelledLoginIsNotAdopted` follows, as references come by an adoption alone.
  `PhasesTellTheEnd`: the job row and the phase of its preparation agree when the job is over. Its invariant adds that
  the job of a Worker being reaped is RUNNING and no other decision under way (`Reading`) and that a login publishes nothing
  a decision could commit (`Unpublished`), so a phase written before the decision is about a job that goes on (TLC agrees on
  both login instances).
  `WindowEndsFirst`, `WindowsTakeTurns`, `AdoptionIsOfSuccess` and `AdoptedStays` assume `KillOnClose`. `AdoptedIsSaved` is not inductive: a
  running window could write under an adopted reference. `WindowsInv` excludes it: a window that may write stands before an
  account without a login (`Blank`), and what it has prepared is still its own when it is adopted (`PreparedIsOwn`), as only
  the window of the latest preparation can run. On POSIX none of the four holds (TLC, on the instance of `login_pair`): the
  window of a dead Worker goes on, and writes or deletes under the same reference after a later login was adopted.
- `RuntimeProofs`. `RtInv` has one part per place where a step could be overtaken: a launch has a load and is a
  project's only one (`LaunchOK`, `ManagedOK`), claims belong to live launches (`ClaimOK`), loads of older sessions
  do not begin (`SessionOK`), what the turn and the user's request have read still holds (`TurnOK`, `UserOK`), what
  was taken out of the table is dead (`DeadOK`), archived projects are empty (`ArchiveOK`). A step is split by its effect on
  the job table (it claims a job, or continues what is there) and on the trees (a tree goes on, ends, is reaped, is launched, or all
  end), so that each part is proved once per kind of effect and not once per action.
- `AdmissionProofs`. `SnapshotsKept` assumes that commits of recordings report what they did;
  for checks nothing is assumed. `LimitsKept` counts the waiting rows before and after a step: a step adds one row at
  most, so there are finitely many (`FiniteRows`), and only an admission, which has counted them under the same lock,
  makes a row where none was. `FailuresLeaveNothing` uses where a call stands to say what it may have left;
  `RepeatsMeet` that a key has at most one row. `AcceptedChecksTold` joins both: the second
  lookup of a check finds the one row of its key, can read its request back (the snapshot
  was not cleaned up) and so ends with the job, never with the error met before.
- `PreparationProofs`. `BInv` holds a row and the coordinator's snapshot of it to the same conditions (`Good`): what the
  receipt tells of is in the row as owned or pending (`Told`), with the number of the preflight (`Points`), and
  nothing that counts runs under CANCELLED (`Quiet`). `ReceiptsOK` ties preflights to receipts; `WorkOK` says
  how far the snapshot may differ from its row at each place of the coordinator. A step changes receipts and
  preflights, or the row, or the snapshot, and each of the three has its own lemmas (`StartedGood`, `RowWritten`, `Decides`).
  `again`, the batches whose row a second request wrote anew, is excepted only where the theorem says so.
- `RecordingProofs`. Typing carries the one fact that later steps rest on: a recording has a draft exactly when its capture
  ended. Drafts only grow (`DraftsGrow`), so a reported revision stays. `PublishedFirst` is not inductive alone: a request at
  `accepting` must have found or written the file (`FlowReady`), and no step removes one (`FlowsRemain`).
  `BoundWhenCurrent` holds because every writer of recorded material reads source and resource again under the lock
  (`BuiltCurrent`), that candidates need approval because only `Apply` binds them and leaves its receipt, that it
  does so once because an operation without receipt has written nothing (`Unwritten`).
- `MaintenanceProofs`. `MInv`: types, plans are executed by the process that froze them (`PlansFresh`), and the
  stage of the execution says how far receipt and disk may differ (`Progress`): what was removed is in
  the results, or is the thing the receipt names.

Only model-checked: liveness (`NoHangingRun`, `SlotsReleased`, `LoadsEnd`, `BatchesEnd`), which is out of the prover's
reach. Every other property of the runs that hold is also a theorem; six of them (`OneTreePerJob`, `ParallelOnlyPreflights`,
`TrailNamesSource`, `OverIsExited`, `AdoptedIsSaved`, `AdoptedIsKept`) assume what Windows does, which their runs assume too.

## 5. Not modelled

- Contents: requests, results, packages, digests and the redaction of secrets. A request is its
  wish, a result the fact that it is published.
- The failure of a clean-up itself in `JobAdmission` (`CHECK_ORPHAN_CLEANUP_FAILED` leaves a file behind and says
  so). `submit_captured`, and the versions of the materials a check freezes.
- Retries may take the queue above its limits: the limits bound admissions, nothing else, and
  `NotOversold` says only that.
- The arithmetic of the retry backoff (`models.py:302`). Time limits of attempts, except as fairness. Clock
  jumps backwards.
- Of recordings: how events become a draft, the compiler, the browser, trials of flows.
- Of batches: the recipe of the official example and rows of older versions.
- The components with status `not_modelled` in `PROJECT.json`, each with its reason. Most of the code by size is
  of this kind: sequential computation over documents and evidence, single-transaction services,
  adapters, schemas, the frontend and migrations.

## 6. Plan

Done: the job system (`JobControl`, `WorkerSupervisor`, `JobAdmission`), runtimes, logins, batches, reviews,
maintenance, and the theorems above. What is left, the most important first:

1. `RecordingReview` with several actions and owners of resources and the reuse of material over a change of source, and
   its composition with the recording job (`JobControl`).
2. The official recipe in `PreparationBatch`, and its composition with `JobControl` (a preflight as a job).
3. Material versions of a check (`service.py` 208-218) and `submit_captured` in `JobAdmission`.
4. `RetryBackoff`: `compute_retry_available_at` as operators against a reference definition,
   with the overflow of the clock.
5. Business boundaries: proposals against concurrent confirmation.
6. Theorems: where `JobLifecycle` is shown for `RuntimeSupervisor` and `IdentityLogin` through their refinements, what each
   of them adds to a job (a load, a preparation) as an abstract specification of its own.
