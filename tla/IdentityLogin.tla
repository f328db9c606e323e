---------------------------- MODULE IdentityLogin ----------------------------
(***************************************************************************)
(* Saving the login of a test account.  The control plane submits a        *)
(* preparation with its job; a Worker opens a login window in a process of *)
(* its tree, watches over it under the lease and, when the user has asked  *)
(* to save, adopts what the window put into the secret store.  Three       *)
(* stores are involved and none commits with another: the database, the    *)
(* secret store and the directory of the preparation with the journal of   *)
(* references the window is about to write.                                *)
(*                                                                         *)
(* The jobs are preparations of one account, each with one attempt, so the *)
(* launch made for a job bears the job's name.  References are made from   *)
(* project, account and position: two preparations write the same ones.    *)
(***************************************************************************)
EXTENDS WorkerSupervisor

CONSTANTS
    Ref,         \* references of the account in the secret store
    Captures,    \* what a window may find: the cookies, or the bearer token
    MaxFailures, \* bound: deletions the secret store refuses
    MaxChanges   \* bound: resets and new configurations of the account

ASSUME LoginAssumption ==
    /\ Owner = Job
    /\ TargetType = [j \in Job |-> "IDENTITY_PREPARATION"]
    /\ Captures \subseteq SUBSET Ref
    /\ {} \notin Captures
    /\ MaxFailures \in Nat
    /\ MaxChanges \in Nat

VARIABLES
    account,  \* row of table test_identities
    store,    \* the preparation whose value stands under a reference
    preps,    \* rows of table identity_preparations
    window,   \* the login process of each preparation, and its directory
    handler,  \* how far the Worker's handler has come
    retrier,  \* a retry_cleanup request under way
    failures  \* deletions refused so far

login  == <<account, store, preps, window, handler, retrier, failures>>
lvars  == <<now, jobs, target, trail, claim, retrying, recovering, failing, published,
            service, downs, worker, runs, receipt, slot, reaping,
            account, store, preps, window, handler, retrier, failures>>

Phase  == {"STARTING", "PREPARED", "UNSUPPORTED", "FAILED", "CANCELLED", "CLEANUP_REQUIRED"}
Result == {"NONE", "PREPARED", "CHECKED", "UNSUPPORTED", "FAILED", "CANCELLED"}

\* fresh: the generation of the account is still the one frozen.  Its role and the
\* application may be revised at any time, and whatever asks for them may then
\* refuse.  Of a preparation that is over only the phase is kept.
Prep == [phase : Phase, save : BOOLEAN, verify : BOOLEAN, fresh : BOOLEAN]

\* NULL is no row.
ASSUME NoneAssumption == None \notin Prep

\* journal is {} without the file; save and cancel are the control markers.
Window == [at : {"none", "opening", "ready", "writing", "exited"}, journal : SUBSET Ref,
           save : BOOLEAN, cancel : BOOLEAN, result : Result]

Handler == [at : {"idle", "claimed", "open", "closing", "closed", "finalized", "swept"},
            raised : BOOLEAN]

LoginTypeOK ==
    /\ SupervisorTypeOK
    /\ account \in [present : BOOLEAN, refs : SUBSET Ref, changes : 0..MaxChanges,
                    owner : Job \cup {None}]
    /\ store \in [Ref -> Job \cup {None}]
    /\ preps \in [Job -> Prep \cup {None}]
    /\ window \in [Job -> Window]
    /\ handler \in [Job -> Handler]
    /\ retrier \in [job : Job, seen : SUBSET Ref] \cup {None}
    /\ failures \in 0..MaxFailures

LoginInit ==
    /\ SupervisorInit
    /\ account = [present |-> TRUE, refs |-> {}, changes |-> 0, owner |-> None]
    /\ store = [r \in Ref |-> None]
    /\ preps = [j \in Job |-> None]
    /\ window = [j \in Job |-> [at |-> "none", journal |-> {}, save |-> FALSE,
                                cancel |-> FALSE, result |-> "NONE"]]
    /\ handler = [j \in Job |-> [at |-> "idle", raised |-> FALSE]]
    /\ retrier = None
    /\ failures = 0

-----------------------------------------------------------------------------
Submitted(j) == preps[j] # None

Active(j) == Submitted(j) /\ jobs[j].state \notin Terminal

Open(j) == window[j].at \in {"opening", "ready", "writing"}

\* The login process has a tree of its own.  On Windows that lies in the tree of
\* the Worker and ends with it; on POSIX it is a session of its own, which ends
\* by itself or by the hand of the Worker.
Running(j) == Open(j) /\ (KillOnClose => worker[j] # "gone")

Enters(j, stage) == handler' = [handler EXCEPT ![j].at = stage]

Phased(j, phase) == preps' = [preps EXCEPT ![j].phase = phase]

Ended(phase) == [phase |-> phase, save |-> FALSE, verify |-> FALSE, fresh |-> FALSE]

\* The phase written together with the end of the job, or after it.
Ends(j, phase) == preps' = [preps EXCEPT ![j] = Ended(phase)]

\* The values under some of the references are deleted; those in kept resist.
Deletes(refs, kept) ==
    /\ kept \subseteq refs
    /\ failures + (IF kept = {} THEN 0 ELSE 1) <= MaxFailures
    /\ failures' = failures + (IF kept = {} THEN 0 ELSE 1)
    /\ store' = [r \in Ref |-> IF r \in refs \ kept THEN None ELSE store[r]]

\* Mutated: what the account has adopted is not spared.
Unadopted_all(j) == window[j].journal

\* What the journal names and the account has not adopted.
Unadopted(j) == window[j].journal \ account.refs

-----------------------------------------------------------------------------
(* The login process: execute_identity_preparation and its browser.        *)

Exits(j, result) == window' = [window EXCEPT ![j].at = "exited", ![j].result = result]

\* Ready for the user, or the check of the saved session answered.
WindowReady(j) ==
    /\ Running(j) /\ window[j].at = "opening"
    /\ IF preps[j].verify
       THEN Exits(j, "CHECKED")
       ELSE window' = [window EXCEPT ![j].at = "ready"]
    /\ UNCHANGED <<svars, account, store, preps, handler, retrier, failures>>

\* Cancelled by the marker or closed by the user; failed on the way.
WindowGivesUp(j) ==
    /\ Running(j) /\ window[j].at \in {"opening", "ready"}
    /\ \/ window[j].at = "ready" /\ Exits(j, "CANCELLED")
       \/ Exits(j, "FAILED")
    /\ UNCHANGED <<svars, account, store, preps, handler, retrier, failures>>

\* _capture_login_state: the journal names every reference before the first
\* of them is written.
WindowCaptures(j) ==
    /\ Running(j) /\ window[j].at = "ready" /\ window[j].save
    /\ \/ Exits(j, "UNSUPPORTED")
       \/ \E refs \in Captures :
            window' = [window EXCEPT ![j].at = "writing", ![j].journal = refs]
    /\ UNCHANGED <<svars, account, store, preps, handler, retrier, failures>>

WindowWrites(j) ==
    /\ Running(j) /\ window[j].at = "writing"
    /\ \E r \in window[j].journal : store[r] # j /\ store' = [store EXCEPT ![r] = j]
    /\ UNCHANGED <<svars, account, preps, window, handler, retrier, failures>>

WindowSaved(j) ==
    /\ Running(j) /\ window[j].at = "writing"
    /\ \A r \in window[j].journal : store[r] = j
    /\ Exits(j, "PREPARED")
    /\ UNCHANGED <<svars, account, store, preps, handler, retrier, failures>>

\* A write failed: what was written is taken back, as far as that works.
WindowFails(j) ==
    /\ Running(j) /\ window[j].at = "writing"
    /\ \E kept \in SUBSET {r \in window[j].journal : store[r] = j} :
            Deletes({r \in window[j].journal : store[r] = j}, kept)
    /\ Exits(j, "FAILED")
    /\ UNCHANGED <<svars, account, preps, handler, retrier>>

WindowStep(j) ==
    \/ WindowReady(j) \/ WindowGivesUp(j) \/ WindowCaptures(j)
    \/ WindowWrites(j) \/ WindowSaved(j) \/ WindowFails(j)

\* Mutated: it is asked to go and not waited for.
Killed_asked(j) == UNCHANGED window

\* It is ended with what it was about, or had ended before.
Killed(j) ==
    window' = IF Open(j) THEN [window EXCEPT ![j].at = "exited", ![j].result = "NONE"]
              ELSE window

\* What the control markers and the answer said is of no use once the process has
\* ended; the journal stays in the directory.
Over(j) == [at |-> "none", journal |-> window[j].journal, save |-> FALSE,
            cancel |-> FALSE, result |-> "NONE"]

\* What is left of a window that has ended, and of any when the tree it lies in
\* is ended.
Leftover(j, ended) == IF ended \/ ~Open(j) THEN Over(j) ELSE window[j]

-----------------------------------------------------------------------------
(* The handler in the Worker: IdentityPreparationHandler.run_job.          *)

\* Mutated: the handler does not wait for the lock.
Serves_unlocked(j) == Alive(j) /\ runs[j] = j

\* One service call of the handler, under the lock file of its job.
Serves(j) == worker[j] = "locked" /\ runs[j] = j

HandlerClaims(j) ==
    /\ Serves(j) /\ handler[j].at = "idle" /\ ClaimJob(j, j)
    /\ Enters(j, "claimed")
    /\ UNCHANGED <<own, account, store, preps, window, retrier, failures>>

\* The account must still be without a login, unless that is to be checked.
OpenWindow(j) ==
    /\ Serves(j) /\ handler[j].at = "claimed"
    /\ preps[j].fresh
    /\ account.present
    /\ preps[j].verify \/ account.refs = {}
    /\ window' = [window EXCEPT ![j].at = "opening"]
    /\ Enters(j, "open")
    /\ UNCHANGED <<svars, account, store, preps, retrier, failures>>

\* The material has changed, or the process could not be started.
OpenFails(j) ==
    /\ Serves(j) /\ handler[j].at = "claimed"
    /\ handler' = [handler EXCEPT ![j] = [at |-> "swept", raised |-> TRUE]]
    /\ UNCHANGED <<svars, account, store, preps, window, retrier, failures>>

\* AttemptProcessControl.monitor with the handler's on_poll.
Forward(j) ==
    /\ Serves(j) /\ handler[j].at = "open"
    /\ HeldBy(j, j, claim[j].fence) /\ jobs[j].expires > now
    /\ \/ /\ jobs[j].cancel /\ ~window[j].cancel
          /\ window' = [window EXCEPT ![j].cancel = TRUE]
       \/ /\ ~jobs[j].cancel /\ preps[j].save /\ ~window[j].save
          /\ window[j].at = "ready"
          /\ window' = [window EXCEPT ![j].save = TRUE]
    /\ UNCHANGED <<svars, account, store, preps, handler, retrier, failures>>

Renew(j) ==
    /\ Serves(j) /\ handler[j].at = "open" /\ RenewLease(j, j)
    /\ UNCHANGED <<own, login>>

\* The window is gone, or it is ended: cancelled without an answer, or late.
WindowEnds(j) ==
    /\ Serves(j) /\ handler[j].at = "open"
    /\ Killed(j)
    /\ Enters(j, "closed")
    /\ UNCHANGED <<svars, account, store, preps, retrier, failures>>

\* The lease is lost, or a read or a marker failed: monitor raises, and close
\* asks the window to go.
MonitorRaises(j) ==
    /\ Serves(j) /\ handler[j].at = "open"
    /\ handler' = [handler EXCEPT ![j] = [at |-> "closing", raised |-> TRUE]]
    /\ window' = [window EXCEPT ![j].cancel = TRUE]
    /\ UNCHANGED <<svars, account, store, preps, retrier, failures>>

CloseWindow(j) ==
    /\ Serves(j) /\ handler[j].at = "closing"
    /\ Killed(j)
    /\ Enters(j, "closed")
    /\ UNCHANGED <<svars, account, store, preps, retrier, failures>>

\* What _finish and _save_prepared_state ask of account and preparation.
Adoptable(j) ==
    /\ account.present
    /\ account.owner = j
    /\ preps[j].fresh
    /\ window[j].result = "PREPARED" =>
        account.refs = {} /\ \A r \in window[j].journal : store[r] # None

\* Mutated: the account is written first, in a transaction of its own.
Adopt_apart(j) ==
    /\ Serves(j) /\ handler[j].at = "closed"
    /\ window[j].result = "PREPARED" /\ Adoptable(j)
    /\ account' = [account EXCEPT !.refs = window[j].journal]
    /\ UNCHANGED <<svars, store, preps, window, handler, retrier, failures>>

\* _finish: job, account, preparation and event in one transaction.
Adopt(j) ==
    /\ Serves(j) /\ handler[j].at = "closed"
    /\ window[j].result \in {"PREPARED", "CHECKED"}
    /\ Adoptable(j)
    /\ CompleteResult(j, j)
    /\ account' = IF window[j].result = "CHECKED" THEN account
                  ELSE [account EXCEPT !.refs = window[j].journal]
    /\ Ends(j, "PREPARED")
    /\ Enters(j, "finalized")
    /\ UNCHANGED <<own, store, window, retrier, failures>>

\* No result, one that cannot be saved, or a transaction that was refused.
Decline(j) ==
    /\ Serves(j) /\ handler[j].at = "closed"
    /\ Enters(j, "finalized")
    /\ UNCHANGED <<svars, account, store, preps, window, retrier, failures>>

\* Mutated: the directory goes whatever resisted.
Tidies_always(j, kept) == window' = [window EXCEPT ![j].journal = {}]

\* When all is taken back the directory goes, unless it is kept to diagnose a
\* failure.
Tidies(j, kept) ==
    \/ kept = {} /\ window' = [window EXCEPT ![j].journal = {}]
    \/ (kept = {} => jobs[j].state # "SUCCEEDED") /\ UNCHANGED window

\* cleanup_attempt, by _finalize and once more by run_job.
Sweep(j) ==
    /\ Serves(j) /\ handler[j].at = "finalized"
    /\ \E kept \in SUBSET Unadopted(j) :
        /\ Deletes(Unadopted(j), kept)
        /\ Tidies(j, kept)
        /\ IF kept # {} /\ ~handler[j].raised
           THEN Phased(j, "CLEANUP_REQUIRED") ELSE UNCHANGED preps
    /\ Enters(j, "swept")
    /\ UNCHANGED <<svars, account, retrier>>

\* How run_job ends the attempt, by the row it reads.  The target handler, or
\* _finish, writes the phase in the same transaction.
HandlerEnds(j) ==
    /\ Serves(j) /\ handler[j].at = "swept"
    /\ \/ jobs[j].state = "SUCCEEDED" /\ UNCHANGED <<vars, preps>>
       \/ ~handler[j].raised /\ CompleteCancellation(j, j) /\ Ends(j, "CANCELLED")
       \/ /\ ~handler[j].raised /\ window[j].result = "UNSUPPORTED"
          /\ Adoptable(j) /\ CompleteResult(j, j) /\ Ends(j, "UNSUPPORTED")
       \/ RecordFatalFailure(j, j) /\ Ends(j, "FAILED")
       \/ LeaveAttempt(j) /\ UNCHANGED preps
    /\ handler' = [handler EXCEPT ![j] = [at |-> "idle", raised |-> FALSE]]
    /\ window' = [window EXCEPT ![j] = Leftover(j, FALSE)]
    /\ UNCHANGED <<own, account, store, retrier, failures>>

HandlerStep(j) ==
    \/ HandlerClaims(j) \/ OpenWindow(j) \/ OpenFails(j)
    \/ Forward(j) \/ Renew(j) \/ WindowEnds(j)
    \/ MonitorRaises(j) \/ CloseWindow(j)
    \/ Adopt(j) \/ Decline(j) \/ Sweep(j) \/ HandlerEnds(j)

-----------------------------------------------------------------------------
(* The supervisor, which knows of preparations what reconcile_exited does. *)

\* reconcile_exited, all taken back: the phase follows the row it was given.
Reconciled(j, cancelled) ==
    /\ Deletes(Unadopted(j), {})
    /\ Phased(j, IF cancelled THEN "CANCELLED" ELSE "FAILED")

\* reconcile_exited, something resisted: it raises.
Unreconciled(j) ==
    /\ \E kept \in SUBSET Unadopted(j) \ {{}} : Deletes(Unadopted(j), kept)
    /\ Phased(j, "CLEANUP_REQUIRED")

\* The Worker of a preparation is started, reaped, dies or leaves.
LoginWorkerStarts(s, j) ==
    /\ Submitted(j)
    /\ StartWorker(s, j, j) \/ StartFails(s, j, j)
    /\ UNCHANGED login

LoginWorkerLives(j) ==
    /\ AcquireLock(j) \/ (WorkerLeaves(j) /\ handler[j].at = "idle")
    /\ UNCHANGED login

LoginWorkerDies(j) ==
    /\ WorkerDies(j) \/ \E s \in Slots : slot[s] = j /\ Terminate(s)
    /\ handler' = [handler EXCEPT ![j] = [at |-> "idle", raised |-> FALSE]]
    /\ UNCHANGED <<account, store, preps, window, retrier, failures>>

LoginTreeEnds(j) ==
    /\ TreeExits(j) \/ \E s \in Slots : slot[s] = j /\ Reap(s)
    /\ window' = [window EXCEPT ![j] = Leftover(j, KillOnClose)]
    /\ UNCHANGED <<account, store, preps, handler, retrier, failures>>

\* _finish_worker_exit: first the secrets, then the job.
LoginSettles ==
    /\ reaping # None
    /\ LET j == reaping.job
       IN \/ /\ ExecutionExited(j, reaping.owner)
             /\ SettleAttempt \/ SettleExpired
             /\ Reconciled(j, reaping.cancel)
          \/ /\ SettleAbandoned
             /\ \/ UNCHANGED <<store, preps, failures>>
                \/ Reconciled(j, reaping.cancel) \/ Unreconciled(j)
    /\ UNCHANGED <<account, window, handler, retrier>>

\* _recover_expired_workers: the same order.
LoginScan(j) ==
    /\ Submitted(j)
    /\ \/ ScanRecovery(j) /\ Reconciled(j, jobs[j].cancel)
       \/ /\ service = "up" /\ Idle
          /\ jobs[j].state = "RUNNING" /\ jobs[j].expires <= now
          /\ ExecutionExited(j, jobs[j].owner)
          /\ Unreconciled(j)
          /\ UNCHANGED svars
    /\ UNCHANGED <<account, window, handler, retrier>>

\* The second half of a decision; IdentityPreparationTargetHandler.finish.
LoginDecision ==
    /\ FinishDecision
    /\ preps' = [j \in Job |->
            IF jobs'[j].state # jobs[j].state THEN Ended(jobs'[j].state) ELSE preps[j]]
    /\ UNCHANGED <<account, store, window, handler, retrier, failures>>

LoginService ==
    /\ \/ (BeginStop \/ Stopped \/ Restart) /\ UNCHANGED <<window, handler>>
       \/ /\ Crash
          /\ IF KillOnClose
             THEN /\ window' = [j \in Job |-> Leftover(j, TRUE)]
                  /\ handler' = [j \in Job |-> [at |-> "idle", raised |-> FALSE]]
             ELSE UNCHANGED <<window, handler>>
    /\ retrier' = IF service' = "down" THEN None ELSE retrier
    /\ UNCHANGED <<account, store, preps, failures>>

-----------------------------------------------------------------------------
(* The control plane.                                                      *)

\* The latest preparation of the account is over and nothing of it is due.
Vacant ==
    account.owner # None =>
        /\ ~Active(account.owner)
        /\ preps[account.owner].phase # "CLEANUP_REQUIRED"

\* IdentityPreparationManager._start: preparation, job, the account's owner
\* and the event are committed together.
Submit(j) ==
    /\ service # "down"
    /\ ~Submitted(j) /\ account.present /\ Vacant
    /\ \E verify \in BOOLEAN :
        /\ verify <=> account.refs # {}
        /\ preps' = [preps EXCEPT ![j] =
                [phase |-> "STARTING", save |-> FALSE, verify |-> verify, fresh |-> TRUE]]
    /\ account' = [account EXCEPT !.owner = j]
    /\ UNCHANGED <<svars, store, window, handler, retrier, failures>>

\* confirm: the wish to save is kept, the Worker forwards it.
Confirm(j) ==
    /\ service # "down"
    /\ Submitted(j) /\ ~preps[j].save
    /\ jobs[j].state = "RUNNING" /\ ~jobs[j].cancel
    /\ window[j].at \in {"ready", "exited"}
    /\ preps' = [preps EXCEPT ![j].save = TRUE]
    /\ UNCHANGED <<svars, account, store, window, handler, retrier, failures>>

CancelLogin(j) ==
    /\ Submitted(j)
    /\ Cancel(j)
    /\ IF jobs'[j].state = "CANCELLED" THEN Ends(j, "CANCELLED") ELSE UNCHANGED preps
    /\ UNCHANGED <<account, store, window, handler, retrier, failures>>

\* What the preparations froze is no longer so.
Outdated ==
    preps' = [j \in Job |-> IF Submitted(j) THEN [preps[j] EXCEPT !.fresh = FALSE] ELSE None]

\* reset and delete: the secrets first, then the row.  If one of them resists,
\* or the commit is lost, the row stays.  A new configuration touches the row
\* alone.
ChangeAccount ==
    /\ service # "down" /\ account.present /\ Vacant
    /\ account.changes < MaxChanges
    /\ \/ \E present \in BOOLEAN :
            /\ Deletes(account.refs, {})
            /\ account' = [account EXCEPT !.refs = {}, !.present = present,
                                          !.changes = @ + 1]
            /\ Outdated
       \/ /\ \E kept \in SUBSET account.refs : Deletes(account.refs, kept)
          /\ UNCHANGED <<account, preps>>
       \/ /\ account' = [account EXCEPT !.changes = @ + 1]
          /\ Outdated
          /\ UNCHANGED <<store, failures>>
    /\ UNCHANGED <<svars, window, handler, retrier>>

\* retry_cleanup: a request of the user for a preparation that is over.  What
\* the account has adopted is read first.
RetryCleanup(j) ==
    /\ service # "down" /\ retrier = None
    /\ Submitted(j) /\ ~Active(j)
    /\ jobs[j].attempt > 0 => ExecutionExited(j, receipt[j])
    /\ retrier' = [job |-> j, seen |-> account.refs]
    /\ UNCHANGED <<svars, account, store, preps, window, handler, failures>>

FinishRetry ==
    /\ retrier # None
    /\ LET j == retrier.job
           refs == window[j].journal \ retrier.seen
       IN \E kept \in SUBSET refs :
            /\ Deletes(refs, kept)
            /\ Ends(j, IF kept # {} THEN "CLEANUP_REQUIRED"
                       ELSE IF jobs[j].state = "SUCCEEDED" THEN "PREPARED"
                       ELSE jobs[j].state)
    /\ retrier' = None
    /\ UNCHANGED <<svars, account, window, handler>>

-----------------------------------------------------------------------------
LoginNext ==
    \/ Tick /\ UNCHANGED <<own, login>>
    \/ \E j \in Job :
        \/ WindowStep(j) \/ HandlerStep(j)
        \/ LoginWorkerLives(j) \/ LoginWorkerDies(j) \/ LoginTreeEnds(j)
        \/ \E s \in Slots : LoginWorkerStarts(s, j)
        \/ LoginScan(j)
        \/ Submit(j) \/ Confirm(j) \/ CancelLogin(j) \/ RetryCleanup(j)
    \/ LoginSettles \/ LoginDecision \/ LoginService
    \/ ChangeAccount \/ FinishRetry

LoginSpec == LoginInit /\ [][LoginNext]_lvars

-----------------------------------------------------------------------------
(* What saving a login promises.                                           *)

\* No value stands in the secret store without a record of it: the account
\* refers to it, or the journal of a preparation names it.
NothingUnrecorded ==
    \A r \in Ref : store[r] # None =>
        r \in account.refs \/ r \in window[store[r]].journal

\* What the account refers to was written by a login that succeeded: no
\* process of an older preparation writes over it.
AdoptedIsSaved ==
    \A r \in account.refs : store[r] # None => jobs[store[r]].state = "SUCCEEDED"

\* When the job of a preparation is over, so is its login process: nothing is
\* collected, cleaned up or started behind the back of one.
OverIsExited == \A j \in Job : jobs[j].state \in Terminal => ~Running(j)

\* So no two of them run at the same time.
OneWindow == \A j, k \in Job : Running(j) /\ Running(k) => j = k

\* The phase of a preparation is written by the Worker, the supervisor and the
\* user.  When the job is over it names how, or that something is left to clean up.
PhaseTells ==
    \A j \in Job : jobs[j].state \in Terminal =>
        /\ Submitted(j)
        /\ preps[j].phase \in {"CLEANUP_REQUIRED"} \cup
            IF jobs[j].state = "SUCCEEDED" THEN {"PREPARED", "UNSUPPORTED"}
            ELSE {jobs[j].state}

\* A cancelled login leaves the account as it was.
CancelledAdoptsNothing ==
    [][\A j \in Job : jobs[j].cancel /\ account.owner = j
            => account'.refs \subseteq account.refs]_lvars

\* The preparations are jobs like any other to the supervisor.
ImplementsSupervisor == SupervisorSpec

\* What the account has adopted is deleted by requests of the user alone, not as
\* the remains of a login by a Worker, a window or the supervisor.
AdoptedIsKept ==
    [][\A r \in account.refs : store[r] # None /\ store'[r] = None
            => UNCHANGED <<svars, window, handler>>]_lvars
=============================================================================
