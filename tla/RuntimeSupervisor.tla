------------------------- MODULE RuntimeSupervisor -------------------------
(***************************************************************************)
(* The programs under development that the service runs for its projects.  *)
(* A load is a job with one attempt; its Worker starts the program,        *)
(* publishes the receipt, which ends the job, and then stays as long as    *)
(* the program.  One supervisor thread launches, replaces and reaps these  *)
(* Workers; a request of the user may stop one or archive the project at   *)
(* any moment, under the write lock of the database.                       *)
(*                                                                         *)
(* What is done under the guard of the table of Workers is one step; the   *)
(* guard is dropped between the steps of a turn.  Programs are started on  *)
(* Windows only, so no tree outlives the service.                          *)
(***************************************************************************)
EXTENDS JobControl

CONSTANTS
    Project,     \* the projects
    ProjectOf,   \* the project of each load
    MaxSessions, \* bound: how often the service is started
    MaxLost      \* bound: turns an exception ends early

ASSUME RuntimeAssumption ==
    /\ TargetType = [j \in Job |-> "RUNTIME_LOAD"]
    /\ ProjectOf \in [Job -> Project]
    /\ None \notin Job
    /\ MaxSessions \in Nat \ {0}
    /\ MaxLost \in Nat

VARIABLES
    service,  \* the serve process
    session,  \* control_session_id, fresh in every supervisor
    bornIn,   \* the session a load was submitted in, 0 before that
    latest,   \* the last load submitted for a project
    archived, \* the projects the user has removed
    worker,   \* process tree of each launch
    runs,     \* the load each launch was made for
    receipt,  \* owner in the tree receipt of each load
    managed,  \* the launch the supervisor keeps for a project
    exited,   \* launches taken out of managed, their jobs not yet looked at
    picked,   \* the load this turn is about to launch
    user,     \* a request that holds the write lock
    lost      \* turns that ended early so far

own   == <<service, session, bornIn, latest, archived, worker, runs, receipt,
           managed, exited, picked, user, lost>>
rvars == <<now, jobs, target, trail, claim, retrying, recovering, failing, published,
           service, session, bornIn, latest, archived, worker, runs, receipt,
           managed, exited, picked, user, lost>>

\* unborn   not launched
\* starting running, the lock file not taken
\* locked   running under the lock file, the program being started
\* serving  the receipt is published, the program runs
\* left     the root process ended, descendants may remain
\* gone     nothing of the tree remains
Tree == {"unborn", "starting", "locked", "serving", "left", "gone"}

Turn == [job : Job, at : {"picked", "cleared"}]

\* load is None for the request that archives, which stops whatever runs.
Request == [project : Project, load : Job \cup {None}, at : {"locked", "stopped"},
            ended : Owner \cup {None}]

RuntimeTypeOK ==
    /\ TypeOK
    /\ service \in {"up", "stopping", "down"}
    /\ session \in 1..MaxSessions
    /\ bornIn \in [Job -> 0..MaxSessions]
    /\ latest \in [Project -> Job \cup {None}]
    /\ archived \subseteq Project
    /\ worker \in [Owner -> Tree]
    /\ runs \in [Owner -> Job \cup {None}]
    /\ receipt \in [Job -> Owner \cup {None}]
    /\ managed \in [Project -> Owner \cup {None}]
    /\ exited \subseteq Owner
    /\ picked \in Turn \cup {None}
    /\ user \in Request \cup {None}
    /\ lost \in 0..MaxLost

RuntimeInit ==
    /\ Init
    /\ service = "up"
    /\ session = 1
    /\ bornIn = [j \in Job |-> 0]
    /\ latest = [p \in Project |-> None]
    /\ archived = {}
    /\ worker = [w \in Owner |-> "unborn"]
    /\ runs = [w \in Owner |-> None]
    /\ receipt = [j \in Job |-> None]
    /\ managed = [p \in Project |-> None]
    /\ exited = {}
    /\ picked = None
    /\ user = None
    /\ lost = 0

-----------------------------------------------------------------------------
Submitted(j) == bornIn[j] # 0

Active(j) == Submitted(j) /\ jobs[j].state \notin Terminal

Alive(w) == worker[w] \in {"starting", "locked", "serving"}

\* The launch executes or has executed a load of this project.
Belongs(w, p) == runs[w] # None /\ ProjectOf[runs[w]] = p

\* Mutated: the lock is given back before the runtime is stopped.
WriteFree_always == TRUE

\* Nobody holds the write lock of the database from one step to the next.
WriteFree == user = None

\* Mutated: what the project still executes is not looked at.
Quiet_always(p) == TRUE

\* No job of the project is under way.
Quiet(p) == \A j \in Job : ProjectOf[j] = p => ~Active(j)

\* A start that was asked for before the service came up is not repeated.
OfSession(j) == bornIn[j] = session

\* What a process knew is gone with it.
Forgets(w) ==
    /\ claim' = [claim EXCEPT ![w] = None]
    /\ retrying' = [retrying EXCEPT ![w] = None]

\* Mutated: asked to end and not waited for.
Kills_asked(w) == UNCHANGED <<worker, claim, retrying>>

\* terminate_process_tree ends with an empty tree.
Kills(w) == worker' = [worker EXCEPT ![w] = "gone"] /\ Forgets(w)

\* WorkerLifetimeLock.execution_has_exited
ExecutionExited(j, o) ==
    /\ \A w \in Owner : runs[w] = j => worker[w] \notin {"locked", "serving"}
    /\ receipt[j] = o
    /\ worker[o] = "gone"

-----------------------------------------------------------------------------
(* The user.                                                               *)

\* Mutated: whether the project is archived is not looked at again.
Admits_archived(p) == Quiet(p)

\* What a load asks of its project, under the write lock.
Admits(p) == p \notin archived /\ Quiet(p)

\* RuntimeLoadJobs.submit: request and job are committed together.
Submit(p) ==
    /\ service = "up" /\ WriteFree
    /\ Admits(p)
    /\ LET fresh == {j \in Job : ProjectOf[j] = p /\ ~Submitted(j)}
           j == CHOOSE k \in fresh : TRUE
       IN /\ fresh # {}
          /\ bornIn' = [bornIn EXCEPT ![j] = session]
          /\ latest' = [latest EXCEPT ![p] = j]
    /\ UNCHANGED <<vars, service, session, archived, worker, runs, receipt,
                   managed, exited, picked, user, lost>>

CancelLoad(j) ==
    /\ service # "down" /\ WriteFree
    /\ Submitted(j)
    /\ RequestCancellation(j)
    /\ UNCHANGED own

\* stop of the instance the user was shown, or archive: the write lock is kept
\* from the look at the jobs to the end of the request.
UserLocks(p) ==
    /\ service = "up" /\ WriteFree
    /\ p \notin archived
    /\ Quiet(p)
    /\ \E load \in {latest[p], None} :
        user' = [project |-> p, load |-> load, at |-> "locked", ended |-> None]
    /\ UNCHANGED <<vars, service, session, bornIn, latest, archived, worker, runs,
                   receipt, managed, exited, picked, lost>>

\* stop_project: only the instance the user means, if there is one.
Means(w) == user.load # None => runs[w] = user.load

UserStops ==
    /\ user # None /\ user.at = "locked"
    /\ LET w == managed[user.project]
       IN \/ /\ w = None
             /\ user' = [user EXCEPT !.at = "stopped"]
             /\ UNCHANGED <<worker, claim, retrying, managed>>
          \/ /\ w # None /\ Means(w)
             /\ Kills(w)
             /\ managed' = [managed EXCEPT ![user.project] = None]
             /\ user' = [user EXCEPT !.at = "stopped", !.ended = w]
    /\ UNCHANGED <<now, jobs, target, trail, recovering, failing, published,
                   service, session, bornIn, latest, archived, runs, receipt,
                   exited, picked, lost>>

\* Another instance runs, or its tree did not end: nothing is changed.
UserRefused ==
    /\ user # None /\ user.at = "locked"
    /\ managed[user.project] # None
    /\ user' = None
    /\ UNCHANGED <<vars, service, session, bornIn, latest, archived, worker, runs,
                   receipt, managed, exited, picked, lost>>

\* The job of what was stopped is over (StopNeedsNoWrite), so _finish_exited
\* returns, and archive writes its row.
UserEnds ==
    /\ user # None /\ user.at = "stopped"
    /\ archived' = IF user.load = None THEN archived \cup {user.project} ELSE archived
    /\ user' = None
    /\ UNCHANGED <<vars, service, session, bornIn, latest, worker, runs,
                   receipt, managed, exited, picked, lost>>

-----------------------------------------------------------------------------
(* The Worker: interfaces/worker/runtime.py.                               *)

Becomes(w, stage) == worker' = [worker EXCEPT ![w] = stage]

AcquireLock(w) ==
    /\ worker[w] = "starting"
    /\ Becomes(w, IF \E v \in Owner : runs[v] = runs[w] /\ worker[v] \in {"locked", "serving"}
                  THEN "left" ELSE "locked")
    /\ UNCHANGED <<vars, service, session, bornIn, latest, archived, runs, receipt,
                   managed, exited, picked, user, lost>>

\* The claim, and a renewal while the program is being started.
WorkerHolds(w) ==
    /\ worker[w] = "locked" /\ WriteFree
    /\ ClaimJob(w, runs[w]) \/ RenewLease(w, runs[w])
    /\ UNCHANGED own

\* RuntimeLoadJobs.publish: the receipt ends the job, the Worker stays.
Publish(w) ==
    /\ worker[w] = "locked" /\ WriteFree
    /\ CompleteResult(w, runs[w])
    /\ Becomes(w, "serving")
    /\ UNCHANGED <<service, session, bornIn, latest, archived, runs, receipt,
                   managed, exited, picked, user, lost>>

\* No claim was won; or the start failed, was cancelled or lost its lease, and
\* the program, if it ran, has been stopped.
WorkerFails(w) ==
    /\ worker[w] = "locked"
    /\ \/ claim[w] = None /\ UNCHANGED vars
       \/ WriteFree /\ (CompleteCancellation(w, runs[w]) \/ RecordFatalFailure(w, runs[w]))
       \/ LeaveAttempt(w)
    /\ Becomes(w, "left")
    /\ UNCHANGED <<service, session, bornIn, latest, archived, runs, receipt,
                   managed, exited, picked, user, lost>>

\* The program it serves has ended, or the Worker itself was killed.
WorkerDies(w) ==
    /\ Alive(w)
    /\ Becomes(w, "left") /\ Forgets(w)
    /\ UNCHANGED <<now, jobs, target, trail, recovering, failing, published,
                   service, session, bornIn, latest, archived, runs, receipt,
                   managed, exited, picked, user, lost>>

TreeExits(w) ==
    /\ worker[w] = "left"
    /\ Becomes(w, "gone")
    /\ UNCHANGED <<vars, service, session, bornIn, latest, archived, runs, receipt,
                   managed, exited, picked, user, lost>>

-----------------------------------------------------------------------------
(* The supervisor thread: tick.                                            *)

Idle == exited = {} /\ picked = None /\ failing = None /\ recovering = None

\* Every launch whose root process has ended is released and dropped.
Reap ==
    /\ service = "up" /\ Idle
    /\ LET ended == {p \in Project : managed[p] # None
                                     /\ worker[managed[p]] \in {"left", "gone"}}
       IN /\ ended # {}
          /\ exited' = {managed[p] : p \in ended}
          /\ managed' = [p \in Project |-> IF p \in ended THEN None ELSE managed[p]]
          /\ worker' = [w \in Owner |-> IF w \in exited' THEN "gone" ELSE worker[w]]
    /\ UNCHANGED <<vars, service, session, bornIn, latest, archived, runs, receipt,
                   picked, user, lost>>

\* _finish_exited, outside the guard.  A lease that has run out is left to
\* _recover.
FinishExited(w) ==
    /\ w \in exited /\ failing = None
    /\ LET j == runs[w]
       IN \/ jobs[j].state \in Waiting /\ ReadWaitingFailure(j)
          \/ /\ WriteFree
             /\ \E at \in Recent : EndFailed(w, j, jobs[j].fence, at)
             /\ UNCHANGED claim
          \/ /\ jobs[j].state \in Terminal \/ jobs[j].owner # w \/ jobs[j].expires <= now
             /\ jobs[j].state \notin Waiting
             /\ UNCHANGED vars
    /\ exited' = exited \ {w}
    /\ UNCHANGED <<service, session, bornIn, latest, archived, worker, runs, receipt,
                   managed, picked, user, lost>>

\* An exception ends the turn; what was taken out of managed is forgotten.
TurnLost ==
    /\ exited # {} /\ failing = None /\ lost < MaxLost
    /\ lost' = lost + 1
    /\ exited' = {}
    /\ picked' = None
    /\ UNCHANGED <<vars, service, session, bornIn, latest, archived, worker, runs,
                   receipt, managed, user>>

\* _recover: nothing is asked but the lease and the proof of exit.
Recover(j) ==
    /\ service = "up" /\ Idle
    /\ jobs[j].state = "RUNNING" /\ jobs[j].expires <= now
    /\ ExecutionExited(j, jobs[j].owner)
    /\ ReadRecovery(j)
    /\ UNCHANGED own

\* The second half of a decision, or the news that it came too late.
FinishDecision ==
    /\ \/ WriteFree /\ (RecordWaitingFailure \/ ConfirmRecovery)
       \/ failing # None /\ ~StillWaiting(failing.job) /\ DropWaitingFailure
       \/ recovering # None /\ ~StillExpired(recovering) /\ DropRecovery
    /\ UNCHANGED own

\* Mutated: the refusal is logged only.
Rejects_silently(j) == UNCHANGED vars

\* RUNTIME_SESSION_EXPIRED
Rejects(j) == ReadWaitingFailure(j)

\* The next job is read; its request must be of this session, and its Worker
\* must not have been launched before.
Pick(j) ==
    /\ service = "up" /\ Idle
    /\ Submitted(j) /\ Claimable(j, now)
    /\ \/ ~OfSession(j) /\ Rejects(j) /\ UNCHANGED picked
       \/ /\ OfSession(j)
          /\ \A w \in Owner : managed[ProjectOf[j]] = w => runs[w] # j
          /\ picked' = [job |-> j, at |-> "picked"]
          /\ UNCHANGED vars
    /\ UNCHANGED <<service, session, bornIn, latest, archived, worker, runs, receipt,
                   managed, exited, user, lost>>

\* _fail_waiting, for a job that may have ended meanwhile.
FailsWaiting(j) ==
    IF jobs[j].state \in Waiting THEN ReadWaitingFailure(j) ELSE UNCHANGED vars

\* stop_project, whatever instance the project executes.
ClearOld ==
    /\ picked # None /\ picked.at = "picked"
    /\ LET p == ProjectOf[picked.job]
       IN IF managed[p] = None THEN UNCHANGED <<worker, claim, retrying, managed, exited>>
          ELSE /\ Kills(managed[p])
               /\ managed' = [managed EXCEPT ![p] = None]
               /\ exited' = {managed[p]}
    /\ picked' = [picked EXCEPT !.at = "cleared"]
    /\ UNCHANGED <<now, jobs, target, trail, recovering, failing, published,
                   service, session, bornIn, latest, archived, runs, receipt, user, lost>>

\* Its tree did not end, or what the launch needs is not there.
LaunchRefused ==
    /\ picked # None /\ exited = {}
    /\ picked.at = "picked" => managed[ProjectOf[picked.job]] # None
    /\ FailsWaiting(picked.job)
    /\ picked' = None
    /\ UNCHANGED <<service, session, bornIn, latest, archived, worker, runs, receipt,
                   managed, exited, user, lost>>

\* write_worker_tree_identity
Receipted(j, w) == [receipt EXCEPT ![j] = w]

\* The fresh lease owner of a launch.
NextOwner == CHOOSE w \in Owner : worker[w] = "unborn"

\* before_release writes the receipt and enters the launch, then the process is
\* let go.  Or the spawn fails, on either side of these two, and what was
\* started is killed.  That the service is to stop was looked at before.
Launch ==
    /\ picked # None /\ picked.at = "cleared" /\ exited = {}
    /\ \E w \in Owner : worker[w] = "unborn"
    /\ LET j == picked.job
           w == NextOwner
           known == Receipted(j, w)
           kept == [managed EXCEPT ![ProjectOf[j]] = w]
       IN /\ runs' = [runs EXCEPT ![w] = j]
          /\ \/ /\ Becomes(w, "starting")
                /\ receipt' = known /\ managed' = kept
                /\ UNCHANGED vars
             \/ /\ Becomes(w, "gone")
                /\ \/ receipt' \in {receipt, known} /\ UNCHANGED managed
                   \/ receipt' = known /\ managed' = kept
                /\ FailsWaiting(j)
    /\ picked' = None
    /\ UNCHANGED <<service, session, bornIn, latest, archived, exited, user, lost>>

\* The service is being stopped.
TurnStops ==
    /\ picked # None /\ picked.at = "cleared" /\ exited = {}
    /\ service = "stopping"
    /\ picked' = None
    /\ UNCHANGED <<vars, service, session, bornIn, latest, archived, worker, runs,
                   receipt, managed, exited, user, lost>>

TurnStep ==
    \/ Reap \/ TurnLost \/ FinishDecision
    \/ \E w \in Owner : FinishExited(w)
    \/ \E j \in Job : Recover(j) \/ Pick(j)
    \/ ClearOld \/ LaunchRefused \/ Launch \/ TurnStops

-----------------------------------------------------------------------------
(* The service.                                                            *)

\* stop: the thread ends after its turn, then every project is stopped.
BeginStop ==
    /\ service = "up" /\ session < MaxSessions
    /\ service' = "stopping"
    /\ UNCHANGED <<vars, session, bornIn, latest, archived, worker, runs, receipt,
                   managed, exited, picked, user, lost>>

StopProject(p) ==
    /\ service = "stopping" /\ Idle
    /\ managed[p] # None
    /\ Kills(managed[p])
    /\ managed' = [managed EXCEPT ![p] = None]
    /\ exited' = {managed[p]}
    /\ UNCHANGED <<now, jobs, target, trail, recovering, failing, published,
                   service, session, bornIn, latest, archived, runs, receipt,
                   picked, user, lost>>

Stopped ==
    /\ service = "stopping" /\ Idle /\ user = None
    /\ \A p \in Project : managed[p] = None
    /\ service' = "down"
    /\ UNCHANGED <<vars, session, bornIn, latest, archived, worker, runs, receipt,
                   managed, exited, picked, user, lost>>

\* The process ends without notice, and every tree with it.
Crash ==
    /\ service # "down" /\ session < MaxSessions
    /\ service' = "down"
    /\ worker' = [w \in Owner |-> IF worker[w] = "unborn" THEN "unborn" ELSE "gone"]
    /\ Outage(Owner)
    /\ managed' = [p \in Project |-> None]
    /\ exited' = {}
    /\ picked' = None
    /\ user' = None
    /\ UNCHANGED <<session, bornIn, latest, archived, runs, receipt, lost>>

Restart ==
    /\ service = "down"
    /\ service' = "up"
    /\ session' = session + 1
    /\ UNCHANGED <<vars, bornIn, latest, archived, worker, runs, receipt,
                   managed, exited, picked, user, lost>>

WorkerProceeds(w) ==
    AcquireLock(w) \/ WorkerHolds(w) \/ Publish(w) \/ WorkerFails(w)

UserProceeds == UserStops \/ UserRefused \/ UserEnds

RuntimeNext ==
    \/ Tick /\ UNCHANGED own
    \/ \E p \in Project : Submit(p) \/ UserLocks(p) \/ StopProject(p)
    \/ \E j \in Job : CancelLoad(j)
    \/ \E w \in Owner : WorkerProceeds(w) \/ WorkerDies(w) \/ TreeExits(w)
    \/ UserProceeds \/ TurnStep
    \/ BeginStop \/ Stopped \/ Crash \/ Restart

\* Time passes, the thread takes its turns, a stop and a request that began
\* are carried on, a service that is down is started again, and the start of a
\* program is bounded by the timeout of start_owned_node.  A program that is
\* served may run for ever.
RuntimeFairness ==
    /\ WF_rvars(Tick /\ UNCHANGED own)
    /\ WF_rvars(TurnStep)
    /\ WF_rvars(UserProceeds)
    /\ WF_rvars(Stopped \/ \E p \in Project : StopProject(p))
    /\ WF_rvars(Restart)
    /\ \A w \in Owner : WF_rvars(WorkerProceeds(w))

RuntimeSpec == RuntimeInit /\ [][RuntimeNext]_rvars /\ RuntimeFairness

-----------------------------------------------------------------------------
(* What running the programs promises.                                     *)

\* The Worker executes a load, or the program it has started.
Executes(w) == worker[w] = "serving" \/ claim[w] # None

\* Of one project at most one program is being started or running, also while
\* one replaces another.
OneRuntimePerProject ==
    \A v, w \in Owner, p \in Project :
        v # w /\ Belongs(v, p) /\ Belongs(w, p) => ~Alive(v) \/ ~Alive(w)

\* A job is failed or recovered in the place of a Worker after the tree of that
\* Worker is gone.
DecidedAfterExit ==
    /\ \A w \in exited : worker[w] = "gone"
    /\ recovering # None => worker[recovering.owner] = "gone"

\* setup.py:260: from the confirmation that nothing runs until the request has
\* been answered no program of the project is started, though the supervisor
\* launches under another lock.
StoppedStaysStopped ==
    user # None /\ user.at = "stopped" =>
        \A w \in Owner : Belongs(w, user.project) => ~Executes(w)

\* runtime_supervisor.py:73: the request that holds the write lock never waits
\* for it: the job of what it stopped is over, _finish_exited has nothing to
\* write.
StopNeedsNoWrite ==
    user # None /\ user.ended # None => jobs[runs[user.ended]].state \in Terminal

\* Nothing is executed for a project that was archived, though the supervisor
\* may have read its job before.
ArchivedStaysEmpty ==
    \A w \in Owner, p \in archived : Belongs(w, p) => ~Executes(w)

\* A load is executed only in the session it was submitted in: no start is
\* replayed after a restart.
SessionBound ==
    [][\A j \in Job : jobs'[j].state = "RUNNING" /\ jobs[j].state # "RUNNING"
            => bornIn[j] = session]_rvars

\* The supervisor, the Workers and the user are the actors JobControl assumes.
RuntimeImplementsControl == Spec

\* Every load ends, whatever is lost on the way.
LoadsEnd == \A j \in Job : Active(j) ~> ~Active(j)
=============================================================================
