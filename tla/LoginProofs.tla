----------------------------- MODULE LoginProofs -----------------------------
(***************************************************************************)
(* Proofs about IdentityLogin: the preparations are jobs like any other to *)
(* the supervisor, and what the three stores hold of a login agrees, for   *)
(* every number of preparations, references and failures.                  *)
(***************************************************************************)
EXTENDS IdentityLogin, SupervisorProofs

LEMMA Preparations ==
    /\ Owner = Job /\ None \notin Job
    /\ \A j \in Job : TargetType[j] = "IDENTITY_PREPARATION" /\ MaxAttempts[j] = 1
BY JobControlAssumption, LoginAssumption DEF JobControlAssumption, LoginAssumption

-----------------------------------------------------------------------------
(* Every step of a login is a step of the supervisor and its Workers.      *)

LEMMA HandlerWorks ==
    ASSUME NEW j \in Job, HandlerStep(j)
    PROVE  Work(j) \/ UNCHANGED svars
<1>1. CASE HandlerClaims(j)
    BY <1>1 DEF HandlerClaims, Serves, Work, WorkerStep
<1>2. CASE Renew(j)
    BY <1>2 DEF Renew, Serves, Work, WorkerStep
<1>3. CASE Adopt(j)
    BY <1>3 DEF Adopt, Serves, Work, WorkerStep
<1>4. CASE HandlerEnds(j)
  <2>1. \/ UNCHANGED vars
        \/ CompleteCancellation(j, j) \/ CompleteResult(j, j) \/ RecordFatalFailure(j, j)
        \/ LeaveAttempt(j)
      BY <1>4 DEF HandlerEnds
  <2>2. UNCHANGED own /\ worker[j] = "locked" /\ runs[j] = j
      BY <1>4 DEF HandlerEnds, Serves
  <2> QED
      BY <2>1, <2>2 DEF Work, WorkerStep, vars, own, svars
<1>5. CASE \/ OpenWindow(j) \/ OpenFails(j) \/ Forward(j) \/ WindowEnds(j)
           \/ MonitorRaises(j) \/ CloseWindow(j) \/ Decline(j) \/ Sweep(j)
    BY <1>5 DEF OpenWindow, OpenFails, Forward, WindowEnds, MonitorRaises, CloseWindow,
       Decline, Sweep
<1> QED
    BY <1>1, <1>2, <1>3, <1>4, <1>5 DEF HandlerStep

LEMMA WindowStutters ==
    ASSUME NEW j \in Job, WindowStep(j)
    PROVE  UNCHANGED svars
BY DEF WindowStep, WindowReady, WindowGivesUp, WindowCaptures, WindowWrites, WindowSaved,
   WindowFails

\* The requests of a user about the account leave the supervisor alone.
LEMMA RequestsStutter ==
    ASSUME \/ \E j \in Job : Submit(j) \/ Confirm(j) \/ RetryCleanup(j)
           \/ ChangeAccount \/ FinishRetry
    PROVE  UNCHANGED svars
BY DEF Submit, Confirm, RetryCleanup, ChangeAccount, FinishRetry

LEMMA LifeIsSupervised ==
    ASSUME NEW j \in Job,
           \/ LoginWorkerLives(j) \/ LoginWorkerDies(j) \/ LoginTreeEnds(j)
           \/ \E s \in Slots : LoginWorkerStarts(s, j)
    PROVE  SupervisorNext
<1>0. j \in Owner
    BY Preparations
<1> QED
    BY <1>0 DEF LoginWorkerLives, LoginWorkerDies, LoginTreeEnds, LoginWorkerStarts,
       SupervisorNext, SupervisorStep

LEMMA DecisionsAreSupervised ==
    ASSUME \/ LoginSettles \/ LoginDecision \/ LoginService
           \/ \E j \in Job : LoginScan(j) \/ CancelLogin(j)
    PROVE  SupervisorNext \/ UNCHANGED svars
BY DEF LoginSettles, LoginDecision, LoginService, LoginScan, CancelLogin, SupervisorNext,
   SupervisorStep

LEMMA LoginSimulation ==
    ASSUME [LoginNext]_lvars
    PROVE  [SupervisorNext]_svars
<1>1. ASSUME NEW j \in Job, HandlerStep(j) PROVE [SupervisorNext]_svars
    BY <1>1, HandlerWorks, Preparations DEF SupervisorNext
<1>2. ASSUME UNCHANGED lvars PROVE UNCHANGED svars
    BY <1>2 DEF lvars, svars
<1>3. ASSUME Tick /\ UNCHANGED <<own, login>> PROVE SupervisorNext
    BY <1>3 DEF SupervisorNext
<1> QED
    BY <1>1, <1>2, <1>3, WindowStutters, RequestsStutter, LifeIsSupervised,
       DecisionsAreSupervised DEF LoginNext

LEMMA LoginStarts == LoginInit => SupInv
BY SupInit DEF LoginInit

LEMMA LoginSupStep ==
    ASSUME SupInv, [LoginNext]_lvars
    PROVE  SupInv'
BY LoginSimulation, SupStep

\* The preparations are jobs like any other: whatever a login adds to a step
\* of its Worker or of the supervisor, the step is one of WorkerSupervisor.
THEOREM LoginSupervised == LoginSpec => ImplementsSupervisor
<1>1. LoginInit => SupervisorInit
    BY DEF LoginInit
<1> QED
    BY <1>1, LoginSimulation, PTL DEF LoginSpec, ImplementsSupervisor, SupervisorSpec

\* The remains of a login are collected, and its job is decided, after every
\* process of its Worker is gone.
THEOREM LoginDecidesOnlyForDead == LoginSpec => []OnlyDeadSettled
BY LoginSupervised, DecidesOnlyForDead, PTL DEF ImplementsSupervisor

-----------------------------------------------------------------------------
(* What belongs to a preparation bears its name, and of what it is only    *)
(* the phase is left when it is over.                                      *)

\* A launch, an attempt and whatever is under way belong to a preparation that
\* was submitted.
NamedAt(j) ==
    /\ worker[j] # "unborn" => runs[j] = j /\ Submitted(j)
    /\ jobs[j].owner \in {None, j}
    /\ jobs[j].attempt > 0 => Submitted(j)

\* Only the holder of the lock executes, and only a running job.
HandlerAt(j) ==
    /\ handler[j].at # "idle" => worker[j] = "locked" /\ jobs[j].attempt > 0
    /\ handler[j].at \in {"claimed", "open", "closing", "closed"} => jobs[j].state = "RUNNING"

\* A window is opened once, by an attempt, and has ended before what it left is
\* looked at.
WindowAt(j) ==
    /\ jobs[j].attempt = 0 \/ handler[j].at = "claimed"
        => window[j].at = "none" /\ window[j].journal = {}
    /\ handler[j].at \in {"closed", "finalized", "swept"} => ~Open(j)
    /\ window[j].at \in {"opening", "ready"} => window[j].journal = {}
    /\ window[j].at # "exited" => window[j].result = "NONE"

StagesInv == \A j \in Job : NamedAt(j) /\ HandlerAt(j) /\ WindowAt(j)

\* What the supervisor and a request of the user have read is about a
\* preparation; the request about one that is over.
ReadersInv ==
    /\ reaping # None => reaping.owner = reaping.job /\ Submitted(reaping.job)
    /\ retrier # None => Submitted(retrier.job) /\ jobs[retrier.job].state \in Terminal

\* The account is executed by its latest preparation, or by none.
OneActive == \A j \in Job : Active(j) => account.owner = j

LoginInv == LoginTypeOK /\ SupInv /\ StagesInv /\ ReadersInv /\ OneActive

-----------------------------------------------------------------------------
(* What a step from outside does to a job.                                 *)

\* A preparation has one attempt: none waits for another.
LEMMA NoneRetried ==
    ASSUME RowInv, NEW j \in Job
    PROVE  /\ jobs[j].state \in {"PENDING", "RUNNING"} \cup Terminal
           /\ jobs[j].state = "PENDING" => jobs[j].attempt = 0
           /\ jobs[j].state = "RUNNING" => jobs[j].owner # None
<1>1. jobs[j] \in JobRow /\ RowOK(j) /\ MaxAttempts[j] = 1
    BY Preparations DEF RowInv, TypeOK, RowConstraints
<1>2. jobs[j].attempt \in Nat /\ jobs[j].state \in JobState
    BY <1>1 DEF JobRow
<1> QED
    BY <1>1, <1>2 DEF RowOK, JobState, Waiting

LEMMA NeverRetried ==
    ASSUME RowInv', NEW j \in Job
    PROVE  jobs'[j].state # "RETRY_WAIT"
<1>1. RowOK(j)' /\ MaxAttempts[j] = 1 /\ jobs'[j].attempt \in Nat
    BY Preparations DEF RowInv, TypeOK, RowConstraints, JobRow
<1> QED
    BY <1>1 DEF RowOK

\* No attempt begins.  The job ends, if it does, when nothing of its Worker is
\* left or none was ever launched, and then it stays as it is.
Aside(k) ==
    /\ jobs'[k].attempt = jobs[k].attempt
    /\ jobs'[k].owner \in {jobs[k].owner, None}
    /\ jobs[k].state \in Terminal => jobs'[k].state = jobs[k].state
    /\ jobs'[k].state # jobs[k].state =>
        /\ jobs'[k].state \in {"SUCCEEDED", "FAILED", "CANCELLED"}
        /\ worker[k] = "gone" \/ jobs[k].attempt = 0

LEMMA OneAside ==
    ASSUME NEW j \in Job, Only(j), Aside(j)
    PROVE  \A k \in Job : Aside(k)
BY DEF Only, Aside

LEMMA LeavesAside ==
    ASSUME NEW j \in Job, NEW to \in Terminal, jobs[j].state = "RUNNING", Leaves(j, to),
           worker[j] = "gone"
    PROVE  \A k \in Job : Aside(k)
<1>1. Aside(j)
    BY DEF Leaves, Aside, Terminal
<1> QED
    BY <1>1, OneAside DEF Leaves

LEMMA RequestAside ==
    ASSUME LoginInv, NEW j \in Job, Cancel(j)
    PROVE  \A k \in Job : Aside(k)
<1>1. RequestCancellation(j) /\ TypeOK /\ RowInv
    BY DEF Cancel, LoginInv, SupInv, RowInv
<1>2. Aside(j)
    BY <1>1, RequestEffect, NoneRetried DEF Aside, Waiting, Terminal
<1> QED
    BY <1>1, <1>2, RequestEffect, OneAside

LEMMA DecisionAside ==
    ASSUME LoginInv, FinishDecision
    PROVE  /\ \A k \in Job : Aside(k)
           /\ \A k \in Job : jobs'[k].state # jobs[k].state
                => jobs'[k].state \in {"FAILED", "CANCELLED"}
<1>0. TypeOK /\ RowInv /\ OnlyDeadSettled
    BY DEF LoginInv, SupInv, RowInv
<1>1. CASE RecordWaitingFailure
  <2> DEFINE j == failing.job
  <2>1. j \in Job /\ Only(j) /\ Aside(j) /\ jobs'[j].state = "FAILED"
      BY <1>0, <1>1, WaitingFailureEffect, NoneRetried DEF Aside, Waiting, Terminal
  <2> QED
      BY <2>1, OneAside DEF Only
<1>2. CASE ConfirmRecovery
  <2> DEFINE j == recovering.job
  <2>1. /\ recovering \in Recovery /\ j \in Job /\ Leaves(j, recovering.next)
        /\ jobs[j].state = "RUNNING" /\ jobs[j].owner = recovering.owner
      BY <1>0, <1>2, RecoveryEffect DEF ConfirmRecovery, StillExpired, HeldBy, TypeOK
  <2>2. worker[j] = "gone"
    <3>1. jobs[j].owner = j
        BY <1>0, <2>1, NoneRetried DEF LoginInv, StagesInv, NamedAt
    <3> QED
        BY <1>0, <1>2, <2>1, <3>1 DEF OnlyDeadSettled, ConfirmRecovery
  <2>3. recovering.next \in {"FAILED", "CANCELLED"}
    <3>1. RowInv'
        BY <1>0, <1>2, StepRows DEF Next
    <3>2. jobs'[j].state # "RETRY_WAIT"
        BY <2>1, <3>1, NeverRetried
    <3> QED
        BY <2>1, <3>2 DEF Recovery, Leaves
  <2> QED
      BY <2>1, <2>2, <2>3, LeavesAside DEF Terminal, Leaves, Only
<1>3. CASE UNCHANGED jobs
    BY <1>3 DEF Aside
<1> QED
    BY <1>1, <1>2, <1>3 DEF FinishDecision, DropWaitingFailure, DropRecovery

\* The owner of a running row is the launch that bears the name of the job.
LEMMA RunsUnderName ==
    ASSUME LoginInv, NEW j \in Job, jobs[j].state = "RUNNING"
    PROVE  jobs[j].owner = j
BY NoneRetried DEF LoginInv, SupInv, StagesInv, NamedAt

LEMMA SettleAside ==
    ASSUME LoginInv, LoginSettles
    PROVE  \A k \in Job : Aside(k)
<1>1. CASE SettleAttempt
  <2> DEFINE j == reaping.job
  <2>1. /\ TypeOK /\ j \in Job /\ j \in Owner /\ reaping.at \in Recent
        /\ reaping.owner = j /\ worker[j] = "gone"
      BY <1>1, Preparations
      DEF LoginInv, SupInv, RowInv, SupervisorTypeOK, Exit, SettleAttempt, ReadersInv,
          OnlyDeadSettled
  <2>2. \/ EndCancelled(j, j, reaping.fence, reaping.at)
        \/ EndFailed(j, j, reaping.fence, reaping.at)
      BY <1>1, <2>1 DEF SettleAttempt
  <2>3. jobs[j].state = "RUNNING" /\ \E to \in Terminal : Leaves(j, to)
      BY <2>1, <2>2, CancellationEffect, FatalEffect
      DEF EndCancelled, EndFailed, HeldBy, Terminal
  <2> QED
      BY <2>1, <2>3, LeavesAside
<1>2. CASE UNCHANGED jobs
    BY <1>2 DEF Aside
<1> QED
    BY <1>1, <1>2 DEF LoginSettles, SettleExpired, ConfirmExited, ReadRecovery,
       SettleAbandoned, vars

LEMMA ScanAside ==
    ASSUME LoginInv, NEW j \in Job, LoginScan(j)
    PROVE  \A k \in Job : Aside(k)
<1>1. CASE ReconcileResult(j) /\ ExecutionExited(j, jobs[j].owner)
  <2>1. TypeOK /\ jobs[j].state = "RUNNING"
      BY <1>1 DEF LoginInv, SupInv, RowInv, ReconcileResult, Reconcilable, HeldBy
  <2>2. Leaves(j, "SUCCEEDED") /\ worker[j] = "gone"
      BY <1>1, <2>1, ReconcileEffect, RunsUnderName DEF ExecutionExited
  <2> QED
      BY <2>1, <2>2, LeavesAside DEF Terminal
<1>2. CASE UNCHANGED jobs
    BY <1>2 DEF Aside
<1> QED
    BY <1>1, <1>2 DEF LoginScan, ScanRecovery, ConfirmExited, ReadRecovery, svars

\* A step from outside: it ends processes and clears what is over, it opens no
\* window and goes on with no handler.
Outside(k) ==
    /\ Aside(k)
    /\ worker[k] = "gone" => worker'[k] = "gone"
    /\ worker'[k] # "unborn" => runs'[k] = k /\ Submitted(k)'
    /\ Submitted(k) => Submitted(k)'
    /\ handler'[k].at \in {handler[k].at, "idle"}
    /\ handler'[k].at # "idle" => worker'[k] = "locked"
    /\ window'[k] \in {window[k], Over(k)}

LEMMA OutsideKeeps ==
    ASSUME LoginInv, \A k \in Job : Outside(k)
    PROVE  StagesInv'
<1> SUFFICES ASSUME NEW k \in Job PROVE (NamedAt(k) /\ HandlerAt(k) /\ WindowAt(k))'
    BY DEF StagesInv
<1>0. /\ NamedAt(k) /\ HandlerAt(k) /\ WindowAt(k) /\ Outside(k)
      /\ jobs[k].attempt \in Nat
    BY DEF LoginInv, StagesInv, SupInv, RowInv, TypeOK, JobRow
<1>1. NamedAt(k)'
    BY <1>0 DEF Outside, Aside, NamedAt, Submitted
<1>2. HandlerAt(k)'
    BY <1>0 DEF Outside, Aside, HandlerAt
<1>3. WindowAt(k)'
  <2>1. CASE window'[k] = window[k]
      BY <1>0, <2>1 DEF Outside, Aside, WindowAt, Open
  <2>2. CASE window'[k] = Over(k)
    <3>1. /\ window'[k].at = "none" /\ window'[k].journal = window[k].journal
          /\ window'[k].result = "NONE"
        BY <2>2 DEF Over
    <3> QED
        BY <1>0, <3>1 DEF Outside, Aside, WindowAt, Open
  <2> QED
      BY <1>0, <2>1, <2>2 DEF Outside
<1> QED
    BY <1>1, <1>2, <1>3

-----------------------------------------------------------------------------
(* The types of what the login adds.                                       *)

LoginTypes ==
    /\ account \in [present : BOOLEAN, refs : SUBSET Ref, changes : 0..MaxChanges,
                    owner : Job \cup {None}]
    /\ store \in [Ref -> Job \cup {None}]
    /\ preps \in [Job -> Prep \cup {None}]
    /\ window \in [Job -> Window]
    /\ handler \in [Job -> Handler]
    /\ retrier \in [job : Job, seen : SUBSET Ref] \cup {None}
    /\ failures \in 0..MaxFailures

LEMMA TypesSplit == LoginTypeOK <=> SupervisorTypeOK /\ LoginTypes
BY DEF LoginTypeOK, LoginTypes

LEMMA DeletesTypes ==
    ASSUME LoginTypes, NEW refs, NEW kept, Deletes(refs, kept)
    PROVE  /\ store' \in [Ref -> Job \cup {None}]
           /\ failures' \in 0..MaxFailures
BY LoginAssumption DEF LoginAssumption, LoginTypes, Deletes

\* A preparation that was submitted is rewritten, never withdrawn.
LEMMA Rewritten ==
    ASSUME LoginTypes, NEW j \in Job, NEW phase \in Phase,
           Ends(j, phase) \/ (Submitted(j) /\ Phased(j, phase))
    PROVE  /\ preps' \in [Job -> Prep \cup {None}]
           /\ Submitted(j)'
           /\ \A k \in Job \ {j} : preps'[k] = preps[k]
<1>1. CASE Ends(j, phase)
  <2>1. Ended(phase) \in Prep
      BY DEF Ended, Prep
  <2>2. Ended(phase) # None
      BY <2>1, NoneAssumption DEF NoneAssumption
  <2> QED
      BY <1>1, <2>1, <2>2 DEF Ends, Submitted, LoginTypes
<1>2. CASE Submitted(j) /\ Phased(j, phase)
  <2>1. preps[j] \in Prep
      BY <1>2 DEF Submitted, LoginTypes
  <2>2. [preps[j] EXCEPT !.phase = phase] \in Prep
      BY <2>1 DEF Prep
  <2>3. preps' = [preps EXCEPT ![j] = [preps[j] EXCEPT !.phase = phase]]
      BY <1>2 DEF Phased
  <2>4. [preps[j] EXCEPT !.phase = phase] # None
      BY <2>2, NoneAssumption DEF NoneAssumption
  <2> QED
      BY <2>2, <2>3, <2>4 DEF Submitted, LoginTypes
<1> QED
    BY <1>1, <1>2

-----------------------------------------------------------------------------
(* The steps from outside keep the invariant.                              *)

\* No login is submitted, and none gets or loses the account.
SameLogins ==
    /\ account'.owner = account.owner
    /\ \A k \in Job : Active(k)' => Submitted(k)

\* Nobody reads anew what is to be settled or cleaned up.
ReadsNothing == reaping' \in {reaping, None} /\ retrier' \in {retrier, None}

LEMMA OutsideReaders ==
    ASSUME LoginInv, \A k \in Job : Outside(k), ReadsNothing
    PROVE  ReadersInv'
<1>1. reaping # None => reaping.job \in Job
    BY DEF LoginInv, SupInv, SupervisorTypeOK, Exit
<1>2. retrier # None => retrier.job \in Job
    BY TypesSplit DEF LoginInv, LoginTypes
<1>3. \A k \in Job : /\ Submitted(k) => Submitted(k)'
                     /\ jobs[k].state \in Terminal => jobs'[k].state \in Terminal
    BY DEF Outside, Aside
<1> QED
    BY <1>1, <1>2, <1>3 DEF LoginInv, ReadersInv, ReadsNothing, Submitted

LEMMA OutsideActive ==
    ASSUME LoginInv, \A k \in Job : Outside(k), SameLogins
    PROVE  OneActive'
BY DEF LoginInv, OneActive, SameLogins, Active, Outside, Aside, Submitted

LEMMA OutsideInv ==
    ASSUME LoginInv, SupInv', LoginTypes', \A k \in Job : Outside(k), SameLogins, ReadersInv'
    PROVE  LoginInv'
<1>1. LoginTypeOK'
    BY DEF LoginTypeOK, LoginTypes, SupInv
<1> QED
    BY <1>1, OutsideKeeps, OutsideActive DEF LoginInv

\* What the invariant says of one preparation and its launch.
LEMMA OfOne ==
    ASSUME LoginInv, NEW j \in Job
    PROVE  /\ NamedAt(j) /\ HandlerAt(j) /\ WindowAt(j)
           /\ j \in Owner /\ worker \in [Job -> Tree] /\ runs \in [Job -> Job \cup {None}]
           /\ jobs[j].attempt \in Nat
           /\ preps \in [Job -> Prep \cup {None}]
           /\ window \in [Job -> Window] /\ handler \in [Job -> Handler]
BY Preparations, TypesSplit
DEF LoginInv, LoginTypes, StagesInv, SupInv, RowInv, TypeOK, JobRow, SupervisorTypeOK

LEMMA StartsOutside ==
    ASSUME LoginInv, NEW j \in Job, NEW s \in Slots, LoginWorkerStarts(s, j)
    PROVE  LoginTypes' /\ (\A k \in Job : Outside(k)) /\ SameLogins /\ ReadsNothing
<1>1. /\ worker[j] = "unborn" /\ Submitted(j)
      /\ \E tree \in {"starting", "gone"} : worker' = [worker EXCEPT ![j] = tree]
      /\ runs' = [runs EXCEPT ![j] = j]
      /\ UNCHANGED <<login, jobs, reaping>>
    BY DEF LoginWorkerStarts, StartWorker, StartFails, ReadWaitingFailure, vars
<1>2. \A k \in Job : Outside(k)
  <2> SUFFICES ASSUME NEW k \in Job PROVE Outside(k)
      OBVIOUS
  <2>1. NamedAt(k) /\ HandlerAt(k) /\ worker \in [Job -> Tree] /\ runs \in [Job -> Job \cup {None}]
      BY OfOne
  <2> QED
      BY <1>1, <2>1 DEF Outside, Aside, NamedAt, HandlerAt, login, Submitted
<1>3. LoginTypes'
    BY <1>1, TypesSplit DEF LoginInv, LoginTypes, login
<1> QED
    BY <1>1, <1>2, <1>3 DEF SameLogins, Active, ReadsNothing, Submitted, login

LEMMA LivesOutside ==
    ASSUME LoginInv, NEW j \in Job, LoginWorkerLives(j)
    PROVE  LoginTypes' /\ (\A k \in Job : Outside(k)) /\ SameLogins /\ ReadsNothing
<1>1. /\ worker[j] \in {"starting", "locked"} /\ handler[j].at = "idle"
      /\ \E tree \in {"locked", "left"} : worker' = [worker EXCEPT ![j] = tree]
      /\ UNCHANGED <<login, jobs, runs, reaping>>
    BY OfOne DEF LoginWorkerLives, AcquireLock, WorkerLeaves, vars, HandlerAt
<1>2. \A k \in Job : Outside(k)
  <2> SUFFICES ASSUME NEW k \in Job PROVE Outside(k)
      OBVIOUS
  <2>1. /\ NamedAt(j) /\ NamedAt(k) /\ HandlerAt(k)
        /\ worker \in [Job -> Tree] /\ runs \in [Job -> Job \cup {None}]
      BY OfOne
  <2> QED
      BY <1>1, <2>1 DEF Outside, Aside, NamedAt, HandlerAt, login, Submitted
<1>3. LoginTypes'
    BY <1>1, TypesSplit DEF LoginInv, LoginTypes, login
<1> QED
    BY <1>1, <1>2, <1>3 DEF SameLogins, Active, ReadsNothing, Submitted, login

LEMMA IdleTyped == [at |-> "idle", raised |-> FALSE] \in Handler
BY DEF Handler

LEMMA DiesOutside ==
    ASSUME LoginInv, NEW j \in Job, LoginWorkerDies(j)
    PROVE  LoginTypes' /\ (\A k \in Job : Outside(k)) /\ SameLogins /\ ReadsNothing
<1>1. /\ worker[j] \in {"starting", "locked"}
      /\ worker' = [worker EXCEPT ![j] = "left"]
      /\ handler' = [handler EXCEPT ![j] = [at |-> "idle", raised |-> FALSE]]
      /\ UNCHANGED <<jobs, runs, reaping, account, store, preps, window, retrier, failures>>
    BY DEF LoginWorkerDies, Terminate, WorkerDies, Alive
<1>2. \A k \in Job : Outside(k)
  <2> SUFFICES ASSUME NEW k \in Job PROVE Outside(k)
      OBVIOUS
  <2>1. /\ NamedAt(j) /\ NamedAt(k) /\ HandlerAt(k) /\ handler \in [Job -> Handler]
        /\ worker \in [Job -> Tree] /\ runs \in [Job -> Job \cup {None}]
      BY OfOne
  <2> QED
      BY <1>1, <2>1 DEF Outside, Aside, NamedAt, HandlerAt, Submitted
<1>3. LoginTypes'
    BY <1>1, IdleTyped, TypesSplit DEF LoginInv, LoginTypes
<1> QED
    BY <1>1, <1>2, <1>3 DEF SameLogins, Active, ReadsNothing, Submitted

LEMMA LeftoverTyped ==
    ASSUME LoginInv, NEW k \in Job, NEW ended \in BOOLEAN
    PROVE  /\ Leftover(k, ended) \in {window[k], Over(k)}
           /\ Leftover(k, ended) \in Window
<1>1. window[k] \in Window
    BY OfOne
<1>2. Over(k) \in Window
    BY <1>1 DEF Over, Window, Result
<1> QED
    BY <1>1, <1>2 DEF Leftover

LEMMA TreeOutside ==
    ASSUME LoginInv, NEW j \in Job, LoginTreeEnds(j)
    PROVE  /\ LoginTypes' /\ (\A k \in Job : Outside(k)) /\ SameLogins
           /\ worker'[j] = "gone" /\ window'[j] = Leftover(j, KillOnClose)
           /\ \A k \in Job \ {j} : window'[k] = window[k]
<1>0. KillOnClose \in BOOLEAN
    BY SupervisorAssumption DEF SupervisorAssumption
<1>1. /\ worker[j] \in {"left", "gone"}
      /\ worker' = [worker EXCEPT ![j] = "gone"]
      /\ UNCHANGED <<jobs, runs, account, store, preps, handler, retrier, failures>>
      /\ window' = [window EXCEPT ![j] = Leftover(j, KillOnClose)]
    BY DEF LoginTreeEnds, TreeExits, Reap, Exited, TreeReleased, ReadWaitingFailure, vars
<1>2. \A k \in Job : Outside(k)
  <2> SUFFICES ASSUME NEW k \in Job PROVE Outside(k)
      OBVIOUS
  <2>1. /\ NamedAt(j) /\ HandlerAt(j) /\ NamedAt(k) /\ HandlerAt(k) /\ window \in [Job -> Window]
        /\ worker \in [Job -> Tree] /\ runs \in [Job -> Job \cup {None}]
      BY OfOne
  <2> QED
      BY <1>0, <1>1, <2>1, LeftoverTyped DEF Outside, Aside, NamedAt, HandlerAt, Submitted
<1>3. LoginTypes'
    BY <1>0, <1>1, LeftoverTyped, TypesSplit DEF LoginInv, LoginTypes
<1>4. SameLogins
    BY <1>1 DEF SameLogins, Active, Submitted
<1> QED
    BY <1>1, <1>2, <1>3, <1>4, OfOne

\* The exit a Worker left behind is read of the row of its own job.
LEMMA TreeReaders ==
    ASSUME LoginInv, NEW j \in Job, LoginTreeEnds(j)
    PROVE  ReadersInv'
<1>1. CASE reaping' = reaping
  <2>1. retrier' = retrier
      BY DEF LoginTreeEnds
  <2> QED
      BY <1>1, <2>1, TreeOutside, OutsideReaders DEF ReadsNothing
<1>2. CASE reaping' # reaping
  <2>1. PICK s \in Slots : slot[s] = j /\ Reap(s)
      BY <1>2 DEF LoginTreeEnds, TreeExits
  <2>2. worker[j] # "unborn"
      BY <2>1 DEF Reap, Exited
  <2>3. runs[j] = j /\ Submitted(j)
      BY <2>2, OfOne DEF NamedAt
  <2>4. reaping'.job = j /\ reaping'.owner = j
    <3>1. OwnRow(j, j) /\ \E at \in Recent :
                    reaping' = [job |-> j, owner |-> jobs[j].owner, fence |-> jobs[j].fence,
                                cancel |-> jobs[j].cancel,
                                valid |-> jobs[j].expires > at, at |-> at]
        BY <1>2, <2>1, <2>3 DEF Reap
    <3> QED
        BY <3>1 DEF OwnRow
  <2>5. UNCHANGED <<jobs, preps, retrier>>
      BY <2>1 DEF LoginTreeEnds, TreeExits, Reap, ReadWaitingFailure, vars
  <2> QED
      BY <2>3, <2>4, <2>5 DEF LoginInv, ReadersInv, Submitted
<1> QED
    BY <1>1, <1>2

LEMMA ServiceOutside ==
    ASSUME LoginInv, LoginService
    PROVE  LoginTypes' /\ (\A k \in Job : Outside(k)) /\ SameLogins /\ ReadsNothing
<1>0. UNCHANGED <<account, store, preps, failures>> /\ retrier' \in {retrier, None}
    BY DEF LoginService
<1>1. CASE /\ Crash /\ KillOnClose
           /\ window' = [j \in Job |-> Leftover(j, TRUE)]
           /\ handler' = [j \in Job |-> [at |-> "idle", raised |-> FALSE]]
  <2>1. /\ worker' = [w \in Owner |-> IF worker[w] = "unborn" THEN "unborn" ELSE "gone"]
        /\ window' = [j \in Job |-> Leftover(j, TRUE)]
        /\ handler' = [j \in Job |-> [at |-> "idle", raised |-> FALSE]]
        /\ UNCHANGED <<jobs, runs>> /\ reaping' = None
      BY <1>1 DEF Crash, Outage
  <2>2. \A k \in Job : Outside(k)
    <3> SUFFICES ASSUME NEW k \in Job PROVE Outside(k)
        OBVIOUS
    <3>1. NamedAt(k) /\ HandlerAt(k) /\ worker'[k] \in {"unborn", "gone"} /\ k \in Owner
        BY <2>1, OfOne
    <3>2. window'[k] \in {window[k], Over(k)}
        BY <2>1, LeftoverTyped
    <3> QED
        BY <1>0, <2>1, <3>1, <3>2 DEF Outside, Aside, NamedAt, HandlerAt, Submitted
  <2>3. LoginTypes'
      BY <1>0, <2>1, IdleTyped, LeftoverTyped, TypesSplit DEF LoginInv, LoginTypes
  <2> QED
      BY <1>0, <2>1, <2>2, <2>3 DEF SameLogins, Active, ReadsNothing, Submitted
<1>2. CASE \/ (BeginStop \/ Stopped \/ Restart) /\ UNCHANGED <<window, handler>>
           \/ Crash /\ ~KillOnClose /\ UNCHANGED <<window, handler>>
  <2>1. UNCHANGED <<jobs, runs, worker, window, handler>> /\ reaping' \in {reaping, None}
      BY <1>2 DEF Crash, Outage, BeginStop, Stopped, Restart, vars
  <2>2. \A k \in Job : Outside(k)
      BY <1>0, <2>1, OfOne DEF Outside, Aside, NamedAt, HandlerAt, Submitted
  <2>3. LoginTypes'
      BY <1>0, <2>1, TypesSplit DEF LoginInv, LoginTypes
  <2> QED
      BY <1>0, <2>1, <2>2, <2>3 DEF SameLogins, Active, ReadsNothing, Submitted
<1> QED
    BY <1>1, <1>2 DEF LoginService

-----------------------------------------------------------------------------
(* Decisions about a job, and what they do to its preparation.             *)

\* A decision moves rows; processes, windows and handlers stay as they are.
LEMMA DecidedOutside ==
    ASSUME LoginInv, \A k \in Job : Aside(k),
           UNCHANGED <<worker, runs, window, handler>>,
           \A k \in Job : Submitted(k) => Submitted(k)'
    PROVE  \A k \in Job : Outside(k)
BY OfOne DEF Outside, NamedAt, HandlerAt

LEMMA ReconciledTypes ==
    ASSUME LoginInv, NEW j \in Job, Submitted(j),
           \/ \E cancelled : Reconciled(j, cancelled)
           \/ Unreconciled(j)
    PROVE  /\ store' \in [Ref -> Job \cup {None}] /\ failures' \in 0..MaxFailures
           /\ preps' \in [Job -> Prep \cup {None}]
           /\ \A k \in Job : Submitted(k)' <=> Submitted(k)
<1>1. LoginTypes
    BY TypesSplit DEF LoginInv
<1>2. \E refs, kept : Deletes(refs, kept)
    BY DEF Reconciled, Unreconciled
<1>3. \E phase \in Phase : Phased(j, phase)
    BY DEF Reconciled, Unreconciled, Phase
<1> QED
    BY <1>1, <1>2, <1>3, DeletesTypes, Rewritten DEF Submitted

LEMMA SettlesOutside ==
    ASSUME LoginInv, LoginSettles
    PROVE  LoginTypes' /\ (\A k \in Job : Outside(k)) /\ SameLogins /\ ReadsNothing
<1>1. reaping.job \in Job /\ Submitted(reaping.job)
    BY DEF LoginInv, SupInv, SupervisorTypeOK, Exit, LoginSettles, ReadersInv
<1>2. /\ UNCHANGED <<worker, runs, account, window, handler, retrier>> /\ reaping' = None
      /\ \/ UNCHANGED <<store, preps, failures>>
         \/ \E cancelled : Reconciled(reaping.job, cancelled)
         \/ Unreconciled(reaping.job)
    BY DEF LoginSettles, SettleAttempt, SettleExpired, SettleAbandoned
<1>3. /\ store' \in [Ref -> Job \cup {None}] /\ failures' \in 0..MaxFailures
      /\ preps' \in [Job -> Prep \cup {None}]
      /\ \A k \in Job : Submitted(k)' <=> Submitted(k)
    BY <1>1, <1>2, ReconciledTypes, TypesSplit DEF LoginInv, LoginTypes, Submitted
<1>4. LoginTypes'
    BY <1>2, <1>3, TypesSplit DEF LoginInv, LoginTypes
<1> QED
    BY <1>2, <1>3, <1>4, SettleAside, DecidedOutside DEF SameLogins, Active, ReadsNothing

LEMMA ScanOutside ==
    ASSUME LoginInv, NEW j \in Job, LoginScan(j)
    PROVE  LoginTypes' /\ (\A k \in Job : Outside(k)) /\ SameLogins /\ ReadsNothing
<1>1. /\ UNCHANGED <<worker, runs, reaping, account, window, handler, retrier>>
      /\ Submitted(j)
      /\ (\E cancelled : Reconciled(j, cancelled)) \/ Unreconciled(j)
    BY DEF LoginScan, ScanRecovery, own, svars
<1>2. /\ store' \in [Ref -> Job \cup {None}] /\ failures' \in 0..MaxFailures
      /\ preps' \in [Job -> Prep \cup {None}]
      /\ \A k \in Job : Submitted(k)' <=> Submitted(k)
    BY <1>1, ReconciledTypes
<1>3. LoginTypes'
    BY <1>1, <1>2, TypesSplit DEF LoginInv, LoginTypes
<1> QED
    BY <1>1, <1>2, <1>3, ScanAside, DecidedOutside DEF SameLogins, Active, ReadsNothing

LEMMA DecisionOutside ==
    ASSUME LoginInv, LoginDecision
    PROVE  LoginTypes' /\ (\A k \in Job : Outside(k)) /\ SameLogins /\ ReadsNothing
<1>1. /\ FinishDecision
      /\ UNCHANGED <<worker, runs, reaping, account, store, window, handler, retrier, failures>>
      /\ preps' = [j \in Job |->
            IF jobs'[j].state # jobs[j].state THEN Ended(jobs'[j].state) ELSE preps[j]]
    BY DEF LoginDecision, FinishDecision, own
<1>2. \A k \in Job : /\ Aside(k)
                     /\ jobs'[k].state # jobs[k].state => jobs'[k].state \in {"FAILED", "CANCELLED"}
    BY <1>1, DecisionAside
<1>3. ASSUME NEW phase \in {"FAILED", "CANCELLED"} PROVE Ended(phase) \in Prep /\ Ended(phase) # None
  <2>1. Ended(phase) \in Prep
      BY DEF Ended, Prep, Phase
  <2> QED
      BY <2>1, NoneAssumption DEF NoneAssumption
<1>4. /\ \A k \in Job : Submitted(k) => Submitted(k)'
      /\ \A k \in Job : Active(k)' => Submitted(k)
    BY <1>1, <1>2, <1>3 DEF Submitted, Active, Terminal
<1>5. LoginTypes'
    BY <1>1, <1>2, <1>3, TypesSplit DEF LoginInv, LoginTypes
<1> QED
    BY <1>1, <1>2, <1>4, <1>5, DecidedOutside DEF SameLogins, ReadsNothing

LEMMA CancelOutside ==
    ASSUME LoginInv, NEW j \in Job, CancelLogin(j)
    PROVE  LoginTypes' /\ (\A k \in Job : Outside(k)) /\ SameLogins /\ ReadsNothing
<1>1. /\ Cancel(j) /\ Submitted(j)
      /\ UNCHANGED <<worker, runs, reaping, account, store, window, handler, retrier, failures>>
      /\ Ends(j, "CANCELLED") \/ UNCHANGED preps
    BY DEF CancelLogin, Cancel, own
<1>2. /\ preps' \in [Job -> Prep \cup {None}]
      /\ \A k \in Job : Submitted(k)' <=> Submitted(k)
    BY <1>1, Rewritten, TypesSplit DEF LoginInv, LoginTypes, Submitted, Phase
<1>3. LoginTypes'
    BY <1>1, <1>2, TypesSplit DEF LoginInv, LoginTypes
<1> QED
    BY <1>1, <1>2, <1>3, RequestAside, DecidedOutside DEF SameLogins, Active, ReadsNothing

-----------------------------------------------------------------------------
(* Requests about the account, and time.                                   *)

\* The table is left alone, and with it the supervisor and the Workers.
LEMMA UntouchedAside ==
    ASSUME UNCHANGED jobs
    PROVE  \A k \in Job : Aside(k)
BY DEF Aside

LEMMA SubmitTypes ==
    ASSUME LoginInv, NEW j \in Job, Submit(j)
    PROVE  LoginTypes' /\ \A k \in Job : Submitted(k)' <=> Submitted(k) \/ k = j
<1>1. LoginTypes
    BY TypesSplit DEF LoginInv
<1>2. PICK verify \in BOOLEAN : preps' = [preps EXCEPT ![j] =
                [phase |-> "STARTING", save |-> FALSE, verify |-> verify, fresh |-> TRUE]]
    BY DEF Submit
<1> DEFINE row == [phase |-> "STARTING", save |-> FALSE, verify |-> verify, fresh |-> TRUE]
<1>3. row \in Prep
    BY DEF Prep, Phase
<1>4. row # None
    BY <1>3, NoneAssumption DEF NoneAssumption
<1> HIDE DEF row
<1>5. preps' \in [Job -> Prep \cup {None}] /\ \A k \in Job : Submitted(k)' <=> Submitted(k) \/ k = j
    BY <1>1, <1>2, <1>3, <1>4 DEF LoginTypes, Submitted, row
<1>6. /\ account' \in [present : BOOLEAN, refs : SUBSET Ref, changes : 0..MaxChanges,
                       owner : Job \cup {None}]
      /\ UNCHANGED <<store, window, handler, retrier, failures>>
    BY <1>1 DEF Submit, LoginTypes
<1> QED
    BY <1>1, <1>5, <1>6 DEF LoginTypes

LEMMA SubmitOutside ==
    ASSUME LoginInv, NEW j \in Job, Submit(j)
    PROVE  \A k \in Job : Outside(k)
<1>1. UNCHANGED <<jobs, worker, runs, window, handler>>
    BY DEF Submit, svars
<1> QED
    BY <1>1, SubmitTypes, UntouchedAside, DecidedOutside

\* A preparation is submitted only when no other executes the account.
LEMMA SubmitInv ==
    ASSUME LoginInv, NEW j \in Job, Submit(j), SupInv'
    PROVE  LoginInv'
<1>1. LoginTypes' /\ \A k \in Job : Submitted(k)' <=> Submitted(k) \/ k = j
    BY SubmitTypes
<1>2. /\ UNCHANGED jobs /\ ReadsNothing
      /\ account' = [account EXCEPT !.owner = j] /\ Vacant
    BY DEF Submit, svars, ReadsNothing
<1>3. OneActive'
  <2>1. account'.owner = j
      BY <1>2, TypesSplit DEF LoginInv, LoginTypes
  <2>2. ASSUME NEW k \in Job, Active(k) PROVE FALSE
      BY <1>2, <2>2, Preparations DEF LoginInv, OneActive, Vacant
  <2> QED
      BY <1>1, <1>2, <2>1, <2>2 DEF OneActive, Active
<1> QED
    BY <1>1, <1>2, <1>3, SubmitOutside, OutsideKeeps, OutsideReaders
    DEF LoginInv, LoginTypeOK, LoginTypes, SupInv

LEMMA OutdatedTypes ==
    ASSUME LoginInv, Outdated
    PROVE  /\ preps' \in [Job -> Prep \cup {None}]
           /\ \A k \in Job : /\ Submitted(k)' <=> Submitted(k)
                             /\ Submitted(k) => preps'[k].verify = preps[k].verify
<1> SUFFICES ASSUME NEW k \in Job
             PROVE  /\ preps'[k] \in Prep \cup {None}
                    /\ Submitted(k)' <=> Submitted(k)
                    /\ Submitted(k) => preps'[k].verify = preps[k].verify
    BY DEF Outdated
<1>1. CASE Submitted(k)
  <2>1. preps[k] \in Prep /\ preps'[k] = [preps[k] EXCEPT !.fresh = FALSE]
      BY <1>1, OfOne DEF Submitted, Outdated
  <2>2. preps'[k] \in Prep /\ preps'[k].verify = preps[k].verify
      BY <2>1 DEF Prep
  <2>3. preps'[k] # None
      BY <2>2, NoneAssumption DEF NoneAssumption
  <2> QED
      BY <1>1, <2>2, <2>3 DEF Submitted
<1>2. CASE ~Submitted(k)
    BY <1>2 DEF Submitted, Outdated
<1> QED
    BY <1>1, <1>2

LEMMA ChangeOutside ==
    ASSUME LoginInv, ChangeAccount
    PROVE  LoginTypes' /\ (\A k \in Job : Outside(k)) /\ SameLogins /\ ReadsNothing
<1>0. LoginTypes /\ MaxChanges \in Nat
    BY TypesSplit, LoginAssumption DEF LoginInv, LoginAssumption
<1>1. /\ UNCHANGED <<jobs, worker, runs, reaping, window, handler, retrier>>
      /\ UNCHANGED preps \/ Outdated
      /\ UNCHANGED <<store, failures>> \/ \E refs, kept : Deletes(refs, kept)
    BY DEF ChangeAccount, svars
<1>2. /\ preps' \in [Job -> Prep \cup {None}]
      /\ \A k \in Job : Submitted(k)' <=> Submitted(k)
    BY <1>0, <1>1, OutdatedTypes DEF LoginTypes, Submitted
<1>3. store' \in [Ref -> Job \cup {None}] /\ failures' \in 0..MaxFailures
    BY <1>0, <1>1, DeletesTypes DEF LoginTypes
<1>4. /\ account' \in [present : BOOLEAN, refs : SUBSET Ref, changes : 0..MaxChanges,
                       owner : Job \cup {None}]
      /\ account'.owner = account.owner
  <2>1. /\ account \in [present : BOOLEAN, refs : SUBSET Ref, changes : 0..MaxChanges,
                        owner : Job \cup {None}]
        /\ account.changes \in 0..MaxChanges /\ account.changes < MaxChanges
      BY <1>0 DEF ChangeAccount, LoginTypes
  <2>2. account.changes + 1 \in 0..MaxChanges
      BY <1>0, <2>1
  <2>3. CASE \E present \in BOOLEAN : account' =
                [account EXCEPT !.refs = {}, !.present = present, !.changes = @ + 1]
      BY <2>1, <2>2, <2>3
  <2>4. CASE account' = [account EXCEPT !.changes = @ + 1]
      BY <2>1, <2>2, <2>4
  <2>5. CASE UNCHANGED account
      BY <2>1, <2>5
  <2> QED
      BY <2>3, <2>4, <2>5 DEF ChangeAccount
<1>5. LoginTypes'
    BY <1>0, <1>1, <1>2, <1>3, <1>4 DEF LoginTypes
<1> QED
    BY <1>1, <1>2, <1>4, <1>5, UntouchedAside, DecidedOutside
    DEF SameLogins, Active, ReadsNothing

LEMMA ConfirmOutside ==
    ASSUME LoginInv, NEW j \in Job, Confirm(j)
    PROVE  LoginTypes' /\ (\A k \in Job : Outside(k)) /\ SameLogins /\ ReadsNothing
<1>0. LoginTypes
    BY TypesSplit DEF LoginInv
<1>1. /\ UNCHANGED <<jobs, worker, runs, reaping, account, store, window, handler, retrier, failures>>
      /\ preps' = [preps EXCEPT ![j].save = TRUE] /\ Submitted(j)
    BY DEF Confirm, svars
<1>2. [preps[j] EXCEPT !.save = TRUE] \in Prep
    BY <1>0, <1>1 DEF LoginTypes, Submitted, Prep
<1>3. [preps[j] EXCEPT !.save = TRUE] # None
    BY <1>2, NoneAssumption DEF NoneAssumption
<1>4. /\ preps' \in [Job -> Prep \cup {None}]
      /\ \A k \in Job : Submitted(k)' <=> Submitted(k)
    BY <1>0, <1>1, <1>2, <1>3 DEF LoginTypes, Submitted
<1>5. LoginTypes'
    BY <1>0, <1>1, <1>4 DEF LoginTypes
<1> QED
    BY <1>1, <1>4, <1>5, UntouchedAside, DecidedOutside DEF SameLogins, Active, ReadsNothing

\* A request to clean up is about a preparation that is over.
LEMMA RetryOutside ==
    ASSUME LoginInv, NEW j \in Job, RetryCleanup(j)
    PROVE  LoginTypes' /\ (\A k \in Job : Outside(k)) /\ SameLogins /\ ReadersInv'
<1>0. LoginTypes
    BY TypesSplit DEF LoginInv
<1>1. /\ UNCHANGED <<jobs, worker, runs, reaping, account, store, preps, window, handler, failures>>
      /\ retrier' = [job |-> j, seen |-> account.refs]
      /\ Submitted(j) /\ jobs[j].state \in Terminal
    BY DEF RetryCleanup, Active, svars
<1>2. LoginTypes'
    BY <1>0, <1>1 DEF LoginTypes
<1>3. ReadersInv'
    BY <1>1 DEF LoginInv, ReadersInv, Submitted
<1> QED
    BY <1>1, <1>2, <1>3, UntouchedAside, DecidedOutside DEF SameLogins, Active, Submitted

LEMMA FinishRetryOutside ==
    ASSUME LoginInv, FinishRetry
    PROVE  LoginTypes' /\ (\A k \in Job : Outside(k)) /\ SameLogins /\ ReadsNothing
<1>0. LoginTypes
    BY TypesSplit DEF LoginInv
<1>1. PICK j \in Job : j = retrier.job
    BY <1>0 DEF FinishRetry, LoginTypes
<1>2. Submitted(j) /\ jobs[j].state \in Terminal
    BY <1>1 DEF LoginInv, ReadersInv, FinishRetry
<1>3. /\ UNCHANGED <<jobs, worker, runs, reaping, account, window, handler>> /\ retrier' = None
      /\ \E refs, kept : Deletes(refs, kept)
      /\ \E phase \in {"CLEANUP_REQUIRED", "PREPARED", "FAILED", "CANCELLED"} : Ends(j, phase)
    BY <1>1, <1>2 DEF FinishRetry, svars, Terminal
<1>4. /\ preps' \in [Job -> Prep \cup {None}]
      /\ \A k \in Job : Submitted(k)' <=> Submitted(k)
    BY <1>0, <1>2, <1>3, Rewritten DEF Submitted, Phase
<1>5. store' \in [Ref -> Job \cup {None}] /\ failures' \in 0..MaxFailures
    BY <1>0, <1>3, DeletesTypes
<1>6. LoginTypes'
    BY <1>0, <1>3, <1>4, <1>5 DEF LoginTypes
<1> QED
    BY <1>3, <1>4, <1>6, UntouchedAside, DecidedOutside DEF SameLogins, Active, ReadsNothing

LEMMA TimeOutside ==
    ASSUME LoginInv, (Tick /\ UNCHANGED <<own, login>>) \/ UNCHANGED lvars
    PROVE  LoginTypes' /\ (\A k \in Job : Outside(k)) /\ SameLogins /\ ReadsNothing
<1>0. LoginTypes
    BY TypesSplit DEF LoginInv
<1>1. UNCHANGED <<jobs, worker, runs, reaping, login>>
    BY DEF Tick, own, login, lvars
<1>2. LoginTypes'
    BY <1>0, <1>1 DEF LoginTypes, login
<1>3. \A k \in Job : Submitted(k)' <=> Submitted(k)
    BY <1>1 DEF Submitted, login
<1> QED
    BY <1>1, <1>2, <1>3, UntouchedAside, DecidedOutside
    DEF SameLogins, Active, ReadsNothing, login

\* Every step but those of a window and of a handler.
OutsideStep ==
    \/ (Tick /\ UNCHANGED <<own, login>>) \/ UNCHANGED lvars
    \/ \E j \in Job :
        \/ LoginWorkerLives(j) \/ LoginWorkerDies(j) \/ LoginTreeEnds(j)
        \/ \E s \in Slots : LoginWorkerStarts(s, j)
        \/ LoginScan(j)
        \/ Submit(j) \/ Confirm(j) \/ CancelLogin(j) \/ RetryCleanup(j)
    \/ LoginSettles \/ LoginDecision \/ LoginService
    \/ ChangeAccount \/ FinishRetry

LEMMA OutsideStepInv ==
    ASSUME LoginInv, SupInv', OutsideStep
    PROVE  LoginInv' /\ \A k \in Job : Outside(k)
<1>1. ASSUME NEW j \in Job, Submit(j) PROVE LoginInv' /\ \A k \in Job : Outside(k)
    BY <1>1, SubmitInv, SubmitOutside
<1>2. ASSUME NEW j \in Job, LoginTreeEnds(j) PROVE LoginInv' /\ \A k \in Job : Outside(k)
    BY <1>2, TreeOutside, TreeReaders, OutsideInv
<1>3. ASSUME NEW j \in Job, RetryCleanup(j) PROVE LoginInv' /\ \A k \in Job : Outside(k)
    BY <1>3, RetryOutside, OutsideInv
<1>4. ASSUME LoginTypes', \A k \in Job : Outside(k), SameLogins, ReadsNothing
      PROVE  LoginInv' /\ \A k \in Job : Outside(k)
    BY <1>4, OutsideReaders, OutsideInv
<1>5. ASSUME NEW j \in Job,
             \/ LoginWorkerLives(j) \/ LoginWorkerDies(j) \/ LoginScan(j)
             \/ Confirm(j) \/ CancelLogin(j)
             \/ \E s \in Slots : LoginWorkerStarts(s, j)
      PROVE  LoginInv' /\ \A k \in Job : Outside(k)
    BY <1>4, <1>5, LivesOutside, DiesOutside, ScanOutside, ConfirmOutside, CancelOutside,
       StartsOutside
<1> QED
    BY <1>1, <1>2, <1>3, <1>4, <1>5, SettlesOutside, DecisionOutside, ServiceOutside,
       ChangeOutside, FinishRetryOutside, TimeOutside DEF OutsideStep

-----------------------------------------------------------------------------
(* The login process and the handler that watches over it.                 *)

\* Nothing of another preparation is touched, none is submitted or ends for
\* good, no process starts or ends.
Within(j) ==
    /\ UNCHANGED <<worker, runs>>
    /\ Only(j)
    /\ \A k \in Job \ {j} : /\ preps'[k] = preps[k] /\ window'[k] = window[k]
                            /\ handler'[k] = handler[k]
    /\ Submitted(j)' <=> Submitted(j)
    /\ jobs[j].state \in Terminal => jobs'[j].state = jobs[j].state
    /\ account'.owner = account.owner
    /\ ReadsNothing

LEMMA WithinInv ==
    ASSUME LoginInv, SupInv', LoginTypes', NEW j \in Job, Within(j),
           (NamedAt(j) /\ HandlerAt(j) /\ WindowAt(j))'
    PROVE  LoginInv'
<1>1. StagesInv'
  <2> SUFFICES ASSUME NEW k \in Job \ {j} PROVE (NamedAt(k) /\ HandlerAt(k) /\ WindowAt(k))'
      BY DEF StagesInv
  <2>1. NamedAt(k) /\ HandlerAt(k) /\ WindowAt(k)
      BY OfOne
  <2>2. /\ jobs'[k] = jobs[k] /\ UNCHANGED <<worker, runs>> /\ preps'[k] = preps[k]
        /\ window'[k] = window[k] /\ handler'[k] = handler[k]
      BY DEF Within, Only
  <2> QED
      BY <2>1, <2>2 DEF NamedAt, HandlerAt, WindowAt, Submitted, Open
<1>2. \A k \in Job : /\ Submitted(k)' <=> Submitted(k)
                     /\ jobs[k].state \in Terminal => jobs'[k].state = jobs[k].state
    BY DEF Within, Only, Submitted
<1>3. ReadersInv'
  <2>1. reaping # None => reaping.job \in Job
      BY DEF LoginInv, SupInv, SupervisorTypeOK, Exit
  <2>2. retrier # None => retrier.job \in Job
      BY TypesSplit DEF LoginInv, LoginTypes
  <2> QED
      BY <1>2, <2>1, <2>2 DEF LoginInv, ReadersInv, Within, ReadsNothing, Submitted
<1>4. OneActive'
    BY <1>2 DEF LoginInv, OneActive, Active, Within
<1> QED
    BY <1>1, <1>3, <1>4 DEF LoginInv, LoginTypeOK, LoginTypes, SupInv

LEMMA WindowSteps ==
    ASSUME LoginInv, NEW j \in Job, WindowStep(j)
    PROVE  /\ UNCHANGED <<svars, account, preps, handler, retrier>>
           /\ Running(j)
           /\ store' \in [Ref -> Job \cup {None}] /\ failures' \in 0..MaxFailures
           /\ window' \in [Job -> Window]
           /\ \A k \in Job \ {j} : window'[k] = window[k]
           /\ window'[j].at \in {"ready", "writing", "exited"}
           /\ window'[j].at = "ready" => window'[j].journal = {}
           /\ window'[j].at # "exited" => window'[j].result = "NONE"
<1>0. LoginTypes /\ WindowAt(j) /\ window[j] \in Window /\ Captures \subseteq SUBSET Ref
    BY TypesSplit, OfOne, LoginAssumption DEF LoginInv, LoginAssumption
<1>1. ASSUME NEW result \in Result, Exits(j, result)
      PROVE  /\ window' \in [Job -> Window]
             /\ \A k \in Job \ {j} : window'[k] = window[k]
             /\ window'[j].at = "exited"
    BY <1>0, <1>1 DEF Exits, LoginTypes, Window
<1>2. {"CHECKED", "CANCELLED", "FAILED", "UNSUPPORTED", "PREPARED"} \subseteq Result
    BY DEF Result
<1>3. CASE WindowReady(j)
  <2>1. CASE window' = [window EXCEPT ![j].at = "ready"]
    <3>1. /\ window' \in [Job -> Window]
          /\ \A k \in Job \ {j} : window'[k] = window[k]
          /\ window'[j].at = "ready" /\ window'[j].journal = window[j].journal
          /\ window'[j].result = window[j].result
        BY <1>0, <2>1 DEF LoginTypes, Window
    <3> QED
        BY <1>0, <1>3, <3>1 DEF WindowReady, LoginTypes, WindowAt
  <2> QED
      BY <1>0, <1>1, <1>2, <1>3, <2>1 DEF WindowReady, LoginTypes
<1>4. CASE WindowGivesUp(j)
    BY <1>0, <1>1, <1>2, <1>4 DEF WindowGivesUp, LoginTypes
<1>5. CASE WindowCaptures(j)
  <2>1. ASSUME NEW refs \in Captures,
               window' = [window EXCEPT ![j].at = "writing", ![j].journal = refs]
        PROVE  /\ window' \in [Job -> Window]
               /\ \A k \in Job \ {j} : window'[k] = window[k]
               /\ window'[j].at = "writing" /\ window'[j].result = window[j].result
      BY <1>0, <2>1 DEF LoginTypes, Window
  <2> QED
      BY <1>0, <1>1, <1>2, <1>5, <2>1 DEF WindowCaptures, LoginTypes, WindowAt
<1>6. CASE WindowWrites(j)
  <2>1. store' \in [Ref -> Job \cup {None}]
      BY <1>0, <1>6 DEF WindowWrites, LoginTypes
  <2> QED
      BY <1>0, <1>6, <2>1 DEF WindowWrites, LoginTypes, WindowAt
<1>7. CASE WindowSaved(j)
    BY <1>0, <1>1, <1>2, <1>7 DEF WindowSaved, LoginTypes
<1>8. CASE WindowFails(j)
    BY <1>0, <1>1, <1>2, <1>8, DeletesTypes DEF WindowFails
<1> QED
    BY <1>3, <1>4, <1>5, <1>6, <1>7, <1>8 DEF WindowStep

LEMMA WindowKeeps ==
    ASSUME LoginInv, NEW j \in Job, WindowStep(j)
    PROVE  LoginInv'
<1>0. /\ LoginTypes /\ NamedAt(j) /\ HandlerAt(j) /\ WindowAt(j)
      /\ Open(j) /\ UNCHANGED svars
    BY TypesSplit, OfOne, WindowSteps DEF LoginInv, Running
<1>1. SupInv'
    BY <1>0, SupStep DEF LoginInv
<1>2. LoginTypes'
    BY <1>0, WindowSteps DEF LoginTypes
<1>3. Within(j)
    BY <1>0, WindowSteps DEF Within, Only, ReadsNothing, svars, Submitted
<1>4. (NamedAt(j) /\ HandlerAt(j) /\ WindowAt(j))'
    BY <1>0, WindowSteps DEF NamedAt, HandlerAt, WindowAt, Open, Submitted, svars
<1> QED
    BY <1>1, <1>2, <1>3, <1>4, WithinInv

LEMMA EntersSets ==
    ASSUME LoginTypes, NEW j \in Job, NEW stage, Enters(j, stage),
           stage \in {"idle", "claimed", "open", "closing", "closed", "finalized", "swept"}
    PROVE  /\ handler' \in [Job -> Handler]
           /\ handler'[j].at = stage
           /\ \A k \in Job \ {j} : handler'[k] = handler[k]
BY DEF LoginTypes, Enters, Handler

LEMMA KilledSets ==
    ASSUME LoginInv, NEW j \in Job, Killed(j)
    PROVE  /\ window' \in [Job -> Window]
           /\ \A k \in Job \ {j} : window'[k] = window[k]
           /\ window'[j].at \notin {"opening", "ready", "writing"}
           /\ window'[j].journal = window[j].journal
           /\ window'[j].at # "exited" => window'[j].result = "NONE"
<1>0. window \in [Job -> Window] /\ WindowAt(j)
    BY OfOne
<1>1. CASE Open(j)
    BY <1>0, <1>1 DEF Killed, Window, Result
<1>2. CASE ~Open(j)
    BY <1>0, <1>2 DEF Killed, WindowAt, Open
<1> QED
    BY <1>1, <1>2

LEMMA MarkSets ==
    ASSUME LoginTypes, NEW j \in Job,
           \/ window' = [window EXCEPT ![j].cancel = TRUE]
           \/ window' = [window EXCEPT ![j].save = TRUE]
           \/ window' = [window EXCEPT ![j].journal = {}]
           \/ UNCHANGED window
    PROVE  /\ window' \in [Job -> Window]
           /\ \A k \in Job \ {j} : window'[k] = window[k]
           /\ window'[j].at = window[j].at /\ window'[j].result = window[j].result
           /\ window'[j].journal \in {window[j].journal, {}}
<1>0. window \in [Job -> Window]
    BY DEF LoginTypes
<1>1. CASE window' = [window EXCEPT ![j].cancel = TRUE]
    BY <1>0, <1>1 DEF Window
<1>2. CASE window' = [window EXCEPT ![j].save = TRUE]
    BY <1>0, <1>2 DEF Window
<1>3. CASE window' = [window EXCEPT ![j].journal = {}]
    BY <1>0, <1>3 DEF Window
<1>4. CASE UNCHANGED window
    BY <1>0, <1>4
<1> QED
    BY <1>1, <1>2, <1>3, <1>4

\* A service call under the lock: only the stage and the window are to be
\* looked at.
LEMMA ServedInv ==
    ASSUME LoginInv, SupInv', LoginTypes', NEW j \in Job, Serves(j), Within(j),
           jobs'[j].owner \in {None, j}, HandlerAt(j)', WindowAt(j)'
    PROVE  LoginInv'
<1>1. NamedAt(j)'
    BY OfOne DEF Serves, Within, NamedAt
<1> QED
    BY <1>1, WithinInv

\* The steps of the handler that call no service of the job.
LEMMA ByHandle ==
    ASSUME LoginInv, NEW j \in Job,
           \/ OpenWindow(j) \/ OpenFails(j) \/ Forward(j) \/ WindowEnds(j)
           \/ MonitorRaises(j) \/ CloseWindow(j) \/ Decline(j) \/ Sweep(j)
    PROVE  LoginInv'
<1>0. /\ LoginTypes /\ NamedAt(j) /\ HandlerAt(j) /\ WindowAt(j)
      /\ Serves(j) /\ UNCHANGED svars /\ Submitted(j)
      /\ j \in Job /\ window[j] \in Window
  <2>1. Serves(j) /\ UNCHANGED svars
      BY DEF OpenWindow, OpenFails, Forward, WindowEnds, MonitorRaises, CloseWindow, Decline,
             Sweep
  <2> QED
      BY <2>1, TypesSplit, OfOne DEF LoginInv, Serves, NamedAt
<1>1. SupInv'
    BY <1>0, SupStep DEF LoginInv
<1>2. ASSUME LoginTypes', UNCHANGED retrier, account'.owner = account.owner,
             \A k \in Job \ {j} : window'[k] = window[k] /\ handler'[k] = handler[k],
             \A k \in Job : Submitted(k)' <=> Submitted(k),
             \A k \in Job \ {j} : preps'[k] = preps[k],
             HandlerAt(j)', WindowAt(j)'
      PROVE  LoginInv'
  <2>1. Within(j)
      BY <1>0, <1>2 DEF Within, Only, ReadsNothing, svars
  <2>2. jobs'[j].owner \in {None, j}
      BY <1>0 DEF NamedAt, svars
  <2> QED
      BY <1>0, <1>1, <1>2, <2>1, <2>2, ServedInv
<1>3. CASE OpenWindow(j)
  <2>1. /\ window' = [window EXCEPT ![j].at = "opening"] /\ handler[j].at = "claimed"
        /\ UNCHANGED <<account, store, preps, retrier, failures>>
      BY <1>3 DEF OpenWindow
  <2>2. /\ window' \in [Job -> Window]
        /\ \A k \in Job \ {j} : window'[k] = window[k]
        /\ window'[j].at = "opening" /\ window'[j].journal = window[j].journal
        /\ window'[j].result = window[j].result
      BY <1>0, <2>1 DEF LoginTypes, Window
  <2>3. /\ handler' \in [Job -> Handler] /\ handler'[j].at = "open"
        /\ \A k \in Job \ {j} : handler'[k] = handler[k]
      BY <1>0, <1>3, EntersSets DEF OpenWindow
  <2>4. LoginTypes'
      BY <1>0, <2>1, <2>2, <2>3 DEF LoginTypes
  <2>5. HandlerAt(j)' /\ WindowAt(j)'
      BY <1>0, <2>1, <2>2, <2>3 DEF HandlerAt, WindowAt, Open, svars
  <2> QED
      BY <1>2, <2>1, <2>2, <2>3, <2>4, <2>5 DEF Submitted
<1>4. CASE OpenFails(j) \/ Decline(j)
  <2>1. /\ UNCHANGED <<account, store, preps, window, retrier, failures>>
        /\ handler[j].at \in {"claimed", "closed"}
      BY <1>4 DEF OpenFails, Decline
  <2>2. /\ handler' \in [Job -> Handler] /\ handler'[j].at \in {"swept", "finalized"}
        /\ \A k \in Job \ {j} : handler'[k] = handler[k]
    <3>1. CASE OpenFails(j)
        BY <1>0, <3>1 DEF OpenFails, LoginTypes, Handler
    <3>2. CASE Decline(j)
        BY <1>0, <3>2, EntersSets DEF Decline
    <3> QED
        BY <1>4, <3>1, <3>2
  <2>3. LoginTypes'
      BY <1>0, <2>1, <2>2 DEF LoginTypes
  <2>4. HandlerAt(j)' /\ WindowAt(j)'
      BY <1>0, <2>1, <2>2 DEF HandlerAt, WindowAt, Open, svars
  <2> QED
      BY <1>2, <2>1, <2>2, <2>3, <2>4 DEF Submitted
<1>5. CASE Forward(j) \/ MonitorRaises(j)
  <2>1. /\ UNCHANGED <<account, store, preps, retrier, failures>>
        /\ handler[j].at = "open"
        /\ \/ window' = [window EXCEPT ![j].cancel = TRUE]
           \/ window' = [window EXCEPT ![j].save = TRUE]
      BY <1>5 DEF Forward, MonitorRaises
  <2>2. /\ handler' \in [Job -> Handler] /\ handler'[j].at \in {"open", "closing"}
        /\ \A k \in Job \ {j} : handler'[k] = handler[k]
    <3>1. CASE Forward(j)
        BY <1>0, <3>1 DEF Forward, LoginTypes
    <3>2. CASE MonitorRaises(j)
        BY <1>0, <3>2 DEF MonitorRaises, LoginTypes, Handler
    <3> QED
        BY <1>5, <3>1, <3>2
  <2>3. /\ window' \in [Job -> Window]
        /\ \A k \in Job \ {j} : window'[k] = window[k]
        /\ window'[j].at = window[j].at /\ window'[j].result = window[j].result
        /\ window'[j].journal \in {window[j].journal, {}}
      BY <1>0, <2>1, MarkSets
  <2>4. LoginTypes'
      BY <1>0, <2>1, <2>2, <2>3 DEF LoginTypes
  <2>5. HandlerAt(j)' /\ WindowAt(j)'
      BY <1>0, <2>1, <2>2, <2>3 DEF HandlerAt, WindowAt, Open, svars
  <2> QED
      BY <1>2, <2>1, <2>2, <2>3, <2>4, <2>5 DEF Submitted
<1>6. CASE WindowEnds(j) \/ CloseWindow(j)
  <2>1. /\ UNCHANGED <<account, store, preps, retrier, failures>>
        /\ handler[j].at \in {"open", "closing"} /\ Killed(j) /\ Enters(j, "closed")
      BY <1>6 DEF WindowEnds, CloseWindow
  <2>2. /\ handler' \in [Job -> Handler] /\ handler'[j].at = "closed"
        /\ \A k \in Job \ {j} : handler'[k] = handler[k]
      BY <1>0, <2>1, EntersSets
  <2>3. LoginTypes'
      BY <1>0, <2>1, <2>2, KilledSets DEF LoginTypes
  <2>4. HandlerAt(j)' /\ WindowAt(j)'
      BY <1>0, <2>1, <2>2, KilledSets DEF HandlerAt, WindowAt, Open, svars
  <2> QED
      BY <1>2, <2>1, <2>2, <2>3, <2>4, KilledSets DEF Submitted
<1>7. CASE Sweep(j)
  <2>1. /\ UNCHANGED <<account, retrier>>
        /\ handler[j].at = "finalized" /\ Enters(j, "swept")
        /\ \E refs, kept : Deletes(refs, kept)
        /\ window' = [window EXCEPT ![j].journal = {}] \/ UNCHANGED window
        /\ Phased(j, "CLEANUP_REQUIRED") \/ UNCHANGED preps
      BY <1>7 DEF Sweep, Tidies
  <2>2. /\ handler' \in [Job -> Handler] /\ handler'[j].at = "swept"
        /\ \A k \in Job \ {j} : handler'[k] = handler[k]
      BY <1>0, <2>1, EntersSets
  <2>3. /\ window' \in [Job -> Window]
        /\ \A k \in Job \ {j} : window'[k] = window[k]
        /\ window'[j].at = window[j].at /\ window'[j].result = window[j].result
        /\ window'[j].journal \in {window[j].journal, {}}
      BY <1>0, <2>1, MarkSets
  <2>4. /\ preps' \in [Job -> Prep \cup {None}]
        /\ \A k \in Job : Submitted(k)' <=> Submitted(k)
        /\ \A k \in Job \ {j} : preps'[k] = preps[k]
      BY <1>0, <2>1, Rewritten DEF Submitted, LoginTypes, Phase
  <2>5. store' \in [Ref -> Job \cup {None}] /\ failures' \in 0..MaxFailures
      BY <1>0, <2>1, DeletesTypes
  <2>6. LoginTypes'
      BY <1>0, <2>1, <2>2, <2>3, <2>4, <2>5 DEF LoginTypes
  <2>7. HandlerAt(j)' /\ WindowAt(j)'
      BY <1>0, <2>1, <2>2, <2>3 DEF HandlerAt, WindowAt, Open, svars
  <2> QED
      BY <1>2, <2>1, <2>2, <2>3, <2>4, <2>6, <2>7
<1> QED
    BY <1>3, <1>4, <1>5, <1>6, <1>7

\* What a service call of the handler does to the row of its job.
LEMMA CallRows ==
    ASSUME LoginInv, NEW j \in Job, HandlerStep(j)
    PROVE  /\ Only(j)
           /\ \/ jobs' = jobs
              \/ /\ HandlerClaims(j)
                 /\ jobs[j].state = "PENDING" /\ jobs[j].attempt = 0 /\ jobs'[j].attempt = 1
                 /\ jobs'[j].state = "RUNNING" /\ jobs'[j].owner = j
              \/ /\ Renew(j)
                 /\ jobs'[j].state = jobs[j].state /\ jobs'[j].owner = jobs[j].owner
                 /\ jobs'[j].attempt = jobs[j].attempt
              \/ /\ CompleteResult(j, j) /\ jobs[j].state = "RUNNING" /\ Leaves(j, "SUCCEEDED")
              \/ /\ HandlerEnds(j) /\ jobs[j].state = "RUNNING"
                 /\ Leaves(j, "FAILED") \/ Leaves(j, "CANCELLED")
<1>0. TypeOK /\ RowInv /\ j \in Owner /\ MaxAttempts[j] = 1 /\ jobs[j].attempt \in Nat
    BY Preparations, OfOne DEF LoginInv, SupInv, RowInv
<1>1. CASE HandlerClaims(j)
  <2>1. ClaimJob(j, j)
      BY <1>1 DEF HandlerClaims
  <2>2. jobs[j].attempt < 1 /\ jobs[j].state \in Waiting
      BY <1>0, <2>1 DEF ClaimJob, Claimable
  <2>3. jobs[j].attempt = 0 /\ jobs[j].state = "PENDING"
      BY <1>0, <2>2, NoneRetried DEF Waiting, Terminal
  <2> QED
      BY <1>0, <1>1, <2>1, <2>3, ClaimEffect
<1>2. CASE Renew(j)
    BY <1>0, <1>2, RenewEffect DEF Renew
<1>3. ASSUME CompleteResult(j, j)
      PROVE  Only(j) /\ jobs[j].state = "RUNNING" /\ Leaves(j, "SUCCEEDED")
    BY <1>0, <1>3, ResultEffect DEF CompleteResult, HeldBy, Leaves
<1>4. ASSUME CompleteCancellation(j, j) \/ RecordFatalFailure(j, j)
      PROVE  /\ Only(j) /\ jobs[j].state = "RUNNING"
             /\ Leaves(j, "FAILED") \/ Leaves(j, "CANCELLED")
  <2>1. PICK at \in Recent : \/ EndCancelled(j, j, claim[j].fence, at)
                             \/ EndFailed(j, j, claim[j].fence, at)
      BY <1>4 DEF CompleteCancellation, RecordFatalFailure
  <2> QED
      BY <1>0, <2>1, CancellationEffect, FatalEffect DEF EndCancelled, EndFailed, HeldBy, Leaves
<1>5. CASE Adopt(j)
    BY <1>3, <1>5 DEF Adopt
<1>6. CASE HandlerEnds(j)
    BY <1>3, <1>4, <1>6 DEF HandlerEnds, LeaveAttempt, Only, vars
<1>7. CASE \/ OpenWindow(j) \/ OpenFails(j) \/ Forward(j) \/ WindowEnds(j)
           \/ MonitorRaises(j) \/ CloseWindow(j) \/ Decline(j) \/ Sweep(j)
  <2>1. jobs' = jobs
      BY <1>7 DEF OpenWindow, OpenFails, Forward, WindowEnds, MonitorRaises, CloseWindow,
         Decline, Sweep, svars
  <2> QED
      BY <2>1 DEF Only
<1> QED
    BY <1>1, <1>2, <1>5, <1>6, <1>7 DEF HandlerStep

\* The steps of the handler that call a service of the job.
LEMMA ByCall ==
    ASSUME LoginInv, SupInv', NEW j \in Job,
           HandlerClaims(j) \/ Renew(j) \/ Adopt(j) \/ HandlerEnds(j)
    PROVE  LoginInv'
<1>0. /\ LoginTypes /\ NamedAt(j) /\ HandlerAt(j) /\ WindowAt(j)
      /\ Serves(j) /\ UNCHANGED own /\ Submitted(j)
      /\ window[j] \in Window /\ jobs[j].attempt \in Nat
      /\ jobs[j].owner \in {None, j}
  <2>1. Serves(j) /\ UNCHANGED own
      BY DEF HandlerClaims, Renew, Adopt, HandlerEnds
  <2> QED
      BY <2>1, TypesSplit, OfOne DEF LoginInv, Serves, NamedAt
<1>1. HandlerStep(j)
    BY DEF HandlerStep
<1>2. ASSUME LoginTypes', UNCHANGED retrier, account'.owner = account.owner,
             \A k \in Job \ {j} : window'[k] = window[k] /\ handler'[k] = handler[k],
             Submitted(j)', \A k \in Job \ {j} : preps'[k] = preps[k],
             HandlerAt(j)', WindowAt(j)'
      PROVE  LoginInv'
  <2>1. Within(j)
      BY <1>0, <1>1, <1>2, CallRows DEF Within, ReadsNothing, own, Terminal
  <2>2. jobs'[j].owner \in {None, j}
      BY <1>0, <1>1, CallRows DEF Leaves
  <2> QED
      BY <1>0, <1>2, <2>1, <2>2, ServedInv
<1>3. CASE HandlerClaims(j)
  <2>1. /\ UNCHANGED <<account, store, preps, window, retrier, failures>>
        /\ Enters(j, "claimed")
      BY <1>3 DEF HandlerClaims
  <2>2. /\ jobs[j].attempt = 0 /\ jobs'[j].attempt = 1 /\ jobs'[j].state = "RUNNING"
    <3>1. ClaimJob(j, j) /\ TypeOK /\ j \in Owner
        BY <1>3, OfOne DEF HandlerClaims, LoginInv, SupInv, RowInv
    <3>2. jobs'[j].state = "RUNNING" /\ jobs'[j].attempt = jobs[j].attempt + 1
        BY <3>1, ClaimEffect
    <3>3. jobs[j].attempt < 1
        BY <3>1, Preparations DEF ClaimJob, Claimable
    <3> QED
        BY <1>0, <3>2, <3>3
  <2>3. /\ handler' \in [Job -> Handler] /\ handler'[j].at = "claimed"
        /\ \A k \in Job \ {j} : handler'[k] = handler[k]
      BY <1>0, <2>1, EntersSets
  <2>4. LoginTypes'
      BY <1>0, <2>1, <2>3 DEF LoginTypes
  <2>5. HandlerAt(j)' /\ WindowAt(j)'
      BY <1>0, <2>1, <2>2, <2>3 DEF HandlerAt, WindowAt, Open, own, Serves
  <2> QED
      BY <1>0, <1>2, <2>1, <2>3, <2>4, <2>5 DEF Submitted
<1>4. CASE Renew(j)
  <2>1. UNCHANGED login
      BY <1>4 DEF Renew
  <2>2. jobs'[j].attempt = jobs[j].attempt /\ jobs'[j].state = jobs[j].state
    <3>1. RenewLease(j, j) /\ TypeOK /\ j \in Owner
        BY <1>4, OfOne DEF Renew, LoginInv, SupInv, RowInv
    <3> QED
        BY <3>1, RenewEffect
  <2>3. LoginTypes'
      BY <1>0, <2>1 DEF LoginTypes, login
  <2>4. HandlerAt(j)' /\ WindowAt(j)'
      BY <1>0, <2>1, <2>2 DEF HandlerAt, WindowAt, Open, own, login
  <2> QED
      BY <1>0, <1>2, <2>1, <2>3, <2>4 DEF Submitted, login
<1>5. CASE Adopt(j)
  <2>1. /\ UNCHANGED <<store, window, retrier, failures>>
        /\ handler[j].at = "closed" /\ Enters(j, "finalized") /\ Ends(j, "PREPARED")
        /\ account' = IF window[j].result = "CHECKED" THEN account
                      ELSE [account EXCEPT !.refs = window[j].journal]
      BY <1>5 DEF Adopt
  <2>2. jobs'[j].attempt = jobs[j].attempt
    <3>1. CompleteResult(j, j) /\ TypeOK /\ j \in Owner
        BY <1>5, OfOne DEF Adopt, LoginInv, SupInv, RowInv
    <3> QED
        BY <3>1, ResultEffect DEF Leaves
  <2>3. /\ handler' \in [Job -> Handler] /\ handler'[j].at = "finalized"
        /\ \A k \in Job \ {j} : handler'[k] = handler[k]
      BY <1>0, <2>1, EntersSets
  <2>4. /\ preps' \in [Job -> Prep \cup {None}] /\ Submitted(j)'
        /\ \A k \in Job \ {j} : preps'[k] = preps[k]
      BY <1>0, <2>1, Rewritten DEF Phase
  <2>5. /\ account' \in [present : BOOLEAN, refs : SUBSET Ref, changes : 0..MaxChanges,
                         owner : Job \cup {None}]
        /\ account'.owner = account.owner
      BY <1>0, <2>1 DEF LoginTypes, Window
  <2>6. LoginTypes'
      BY <1>0, <2>1, <2>3, <2>4, <2>5 DEF LoginTypes
  <2>7. HandlerAt(j)' /\ WindowAt(j)'
      BY <1>0, <2>1, <2>2, <2>3 DEF HandlerAt, WindowAt, Open, own
  <2> QED
      BY <1>2, <2>1, <2>3, <2>4, <2>5, <2>6, <2>7
<1>6. CASE HandlerEnds(j)
  <2>1. /\ UNCHANGED <<account, store, retrier, failures>>
        /\ handler[j].at = "swept"
        /\ handler' = [handler EXCEPT ![j] = [at |-> "idle", raised |-> FALSE]]
        /\ window' = [window EXCEPT ![j] = Leftover(j, FALSE)]
        /\ \/ UNCHANGED preps
           \/ \E phase \in {"CANCELLED", "UNSUPPORTED", "FAILED"} : Ends(j, phase)
      BY <1>6 DEF HandlerEnds
  <2>2. jobs'[j].attempt = jobs[j].attempt
      BY <1>0, <1>1, <1>6, <2>1, CallRows DEF Leaves, HandlerClaims, Renew
  <2>3. /\ handler' \in [Job -> Handler] /\ handler'[j].at = "idle"
        /\ \A k \in Job \ {j} : handler'[k] = handler[k]
      BY <1>0, <2>1, IdleTyped DEF LoginTypes
  <2>4. /\ preps' \in [Job -> Prep \cup {None}] /\ Submitted(j)'
        /\ \A k \in Job \ {j} : preps'[k] = preps[k]
      BY <1>0, <2>1, Rewritten DEF Phase, LoginTypes, Submitted
  <2>5. /\ window' \in [Job -> Window]
        /\ \A k \in Job \ {j} : window'[k] = window[k]
        /\ window'[j].at = "none" /\ window'[j].journal = window[j].journal
        /\ window'[j].result = "NONE"
    <3>1. Leftover(j, FALSE) = Over(j) /\ Leftover(j, FALSE) \in Window
        BY <1>0, <2>1, LeftoverTyped DEF Leftover, WindowAt
    <3>2. /\ window'[j] = Over(j) /\ window' \in [Job -> Window]
          /\ \A k \in Job \ {j} : window'[k] = window[k]
        BY <1>0, <2>1, <3>1 DEF LoginTypes
    <3>3. /\ Over(j).at = "none" /\ Over(j).journal = window[j].journal
          /\ Over(j).result = "NONE"
        BY DEF Over
    <3> QED
        BY <3>2, <3>3
  <2>6. LoginTypes'
      BY <1>0, <2>1, <2>3, <2>4, <2>5 DEF LoginTypes
  <2>7. HandlerAt(j)' /\ WindowAt(j)'
      BY <1>0, <2>1, <2>2, <2>3, <2>5 DEF HandlerAt, WindowAt, Open, own
  <2> QED
      BY <1>2, <2>1, <2>3, <2>4, <2>5, <2>6, <2>7
<1> QED
    BY <1>3, <1>4, <1>5, <1>6

-----------------------------------------------------------------------------
(* The invariant, and what follows from it on either platform.             *)

LEMMA LoginStep ==
    ASSUME LoginInv, [LoginNext]_lvars
    PROVE  LoginInv'
<1>1. SupInv'
    BY LoginSupStep DEF LoginInv
<1> QED
    BY <1>1, WindowKeeps, ByHandle, ByCall, OutsideStepInv
    DEF LoginNext, HandlerStep, OutsideStep

LEMMA InitLogin == LoginInit => LoginInv
<1> SUFFICES ASSUME LoginInit PROVE LoginInv
    OBVIOUS
<1>1. SupInv
    BY LoginStarts
<1>2. LoginTypes
    BY LoginAssumption, IdleTyped
    DEF LoginAssumption, LoginInit, LoginTypes, Window, Result
<1>3. \A j \in Job : NamedAt(j) /\ HandlerAt(j) /\ WindowAt(j)
  <2> SUFFICES ASSUME NEW j \in Job PROVE NamedAt(j) /\ HandlerAt(j) /\ WindowAt(j)
      OBVIOUS
  <2>1. jobs[j].owner = None /\ jobs[j].attempt = 0 /\ worker[j] = "unborn"
      BY Preparations DEF LoginInit, SupervisorInit, Init, NewRow
  <2>2. /\ handler[j].at = "idle" /\ window[j].at = "none" /\ window[j].journal = {}
        /\ window[j].result = "NONE"
      BY DEF LoginInit
  <2> QED
      BY <2>1, <2>2 DEF NamedAt, HandlerAt, WindowAt, Open
<1>4. ReadersInv /\ OneActive
    BY DEF LoginInit, SupervisorInit, ReadersInv, OneActive, Active, Submitted
<1> QED
    BY <1>1, <1>2, <1>3, <1>4 DEF LoginInv, StagesInv, LoginTypeOK, LoginTypes, SupInv

\* The types of all that a login adds to the job table and its supervisor.
THEOREM LoginTyping == LoginSpec => []LoginTypeOK
<1>1. LoginInv => LoginTypeOK
    BY DEF LoginInv
<1> QED
    BY <1>1, InitLogin, LoginStep, PTL DEF LoginSpec

-----------------------------------------------------------------------------
(* Every value has its record.  A step deletes values at most, or it is    *)
(* one of the few that write a value, a journal or what the account has    *)
(* adopted.                                                                *)

OnlyDeletes ==
    /\ account'.refs = account.refs
    /\ \A k \in Job : window'[k].journal = window[k].journal
    /\ \A r \in Ref : store'[r] \in {store[r], None}

\* Of what the account has adopted nothing.
Spares == \A r \in account.refs : store'[r] = store[r]

LEMMA DeletesOnly ==
    ASSUME LoginTypes, NEW refs, NEW kept, Deletes(refs, kept)
    PROVE  /\ \A r \in Ref : store'[r] \in {store[r], None}
           /\ \A r \in Ref \ refs : store'[r] = store[r]
BY DEF Deletes, LoginTypes

LEMMA UnadoptedSpared ==
    ASSUME LoginTypes, NEW j \in Job, NEW kept, Deletes(Unadopted(j), kept)
    PROVE  Spares
BY DeletesOnly DEF Spares, Unadopted, LoginTypes

LEMMA ReconciledSpares ==
    ASSUME LoginTypes, NEW j \in Job,
           (\E cancelled : Reconciled(j, cancelled)) \/ Unreconciled(j)
    PROVE  Spares /\ \A r \in Ref : store'[r] \in {store[r], None}
<1>1. PICK kept : Deletes(Unadopted(j), kept)
    BY DEF Reconciled, Unreconciled
<1> QED
    BY <1>1, UnadoptedSpared, DeletesOnly

LEMMA OutsideDeletes ==
    ASSUME LoginInv, OutsideStep, SupInv', ~ChangeAccount
    PROVE  OnlyDeletes /\ (Spares \/ UNCHANGED <<svars, window, handler>>)
<1>0. LoginTypes /\ \A k \in Job : Outside(k)
    BY TypesSplit, OutsideStepInv DEF LoginInv
<1>1. \A k \in Job : window'[k].journal = window[k].journal
    BY <1>0 DEF Outside, Over
<1>2. account'.refs = account.refs
  <2>1. ASSUME NEW j \in Job, Submit(j) PROVE account'.refs = account.refs
      BY <1>0, <2>1 DEF Submit, LoginTypes
  <2>2. CASE UNCHANGED account
      BY <2>2
  <2> QED
      BY <2>1, <2>2 DEF OutsideStep, LoginWorkerLives, LoginWorkerDies, LoginTreeEnds,
         LoginWorkerStarts, LoginScan, Confirm, CancelLogin, RetryCleanup, LoginSettles,
         LoginDecision, LoginService, FinishRetry, login, lvars
<1>3. /\ \A r \in Ref : store'[r] \in {store[r], None}
      /\ Spares \/ UNCHANGED <<svars, window, handler>>
  <2>1. ASSUME NEW j \in Job, LoginScan(j)
        PROVE  Spares /\ \A r \in Ref : store'[r] \in {store[r], None}
      BY <1>0, <2>1, ReconciledSpares DEF LoginScan
  <2>2. ASSUME LoginSettles
        PROVE  Spares /\ \A r \in Ref : store'[r] \in {store[r], None}
    <3>1. reaping.job \in Job
        BY <2>2 DEF LoginInv, SupInv, SupervisorTypeOK, Exit, LoginSettles
    <3>2. \/ UNCHANGED store
          \/ \E cancelled : Reconciled(reaping.job, cancelled)
          \/ Unreconciled(reaping.job)
        BY <2>2 DEF LoginSettles
    <3> QED
        BY <1>0, <3>1, <3>2, ReconciledSpares DEF Spares
  <2>3. ASSUME FinishRetry
        PROVE  /\ UNCHANGED <<svars, window, handler>>
               /\ \A r \in Ref : store'[r] \in {store[r], None}
      BY <1>0, <2>3, DeletesOnly DEF FinishRetry
  <2>4. CASE UNCHANGED store
      BY <2>4 DEF Spares
  <2> QED
      BY <2>1, <2>2, <2>3, <2>4 DEF OutsideStep, LoginWorkerLives, LoginWorkerDies,
         LoginTreeEnds, LoginWorkerStarts, Submit, Confirm, CancelLogin, RetryCleanup,
         LoginDecision, LoginService, ChangeAccount, login, lvars
<1> QED
    BY <1>1, <1>2, <1>3 DEF OnlyDeletes

\* Of the handler, all but the adoption and the directory taken away.
LEMMA HandlerDeletes ==
    ASSUME LoginInv, NEW j \in Job, HandlerStep(j)
    PROVE  /\ Spares /\ \A r \in Ref : store'[r] \in {store[r], None}
           /\ \A k \in Job \ {j} : window'[k].journal = window[k].journal
           /\ \/ OnlyDeletes
              \/ /\ Adopt(j) /\ UNCHANGED <<store, window>>
              \/ /\ window'[j].journal = {} /\ UNCHANGED account
                 /\ \A r \in Unadopted(j) : store'[r] = None
<1>0. LoginTypes /\ \A k \in Job : window[k] \in Window
    BY TypesSplit DEF LoginInv, LoginTypes
<1>1. CASE Adopt(j)
    BY <1>1 DEF Adopt, Spares
<1>2. CASE Sweep(j)
  <2>1. PICK kept \in SUBSET Unadopted(j) : Deletes(Unadopted(j), kept) /\ Tidies(j, kept)
      BY <1>2 DEF Sweep
  <2>2. Spares /\ (\A r \in Ref : store'[r] \in {store[r], None}) /\ UNCHANGED account
      BY <1>0, <1>2, <2>1, UnadoptedSpared, DeletesOnly DEF Sweep
  <2>3. CASE UNCHANGED window
      BY <2>2, <2>3 DEF OnlyDeletes
  <2>4. CASE kept = {} /\ window' = [window EXCEPT ![j].journal = {}]
    <3>1. /\ window'[j].journal = {} /\ \A k \in Job \ {j} : window'[k] = window[k]
          BY <1>0, <2>4 DEF LoginTypes, Window
    <3>2. \A r \in Unadopted(j) : store'[r] = None
      <4>1. Unadopted(j) \subseteq Ref
          BY <1>0 DEF Unadopted, Window
      <4> QED
          BY <2>1, <2>4, <4>1 DEF Deletes
    <3> QED
        BY <2>2, <3>1, <3>2
  <2> QED
      BY <2>1, <2>3, <2>4 DEF Tidies
<1>3. ASSUME UNCHANGED <<store, account>>, \A k \in Job : window'[k].journal = window[k].journal
      PROVE  OnlyDeletes /\ Spares
    BY <1>3 DEF OnlyDeletes, Spares
<1>4. CASE \/ HandlerClaims(j) \/ OpenFails(j) \/ Renew(j) \/ Decline(j)
    BY <1>3, <1>4 DEF HandlerClaims, OpenFails, Renew, Decline, login, OnlyDeletes
<1>5. CASE OpenWindow(j) \/ Forward(j) \/ MonitorRaises(j)
  <2>1. /\ UNCHANGED <<store, account>>
        /\ \/ window' = [window EXCEPT ![j].at = "opening"]
           \/ window' = [window EXCEPT ![j].cancel = TRUE]
           \/ window' = [window EXCEPT ![j].save = TRUE]
      BY <1>5 DEF OpenWindow, Forward, MonitorRaises
  <2>2. \A k \in Job : window'[k].journal = window[k].journal
      BY <1>0, <2>1 DEF LoginTypes, Window
  <2> QED
      BY <1>3, <2>1, <2>2 DEF OnlyDeletes
<1>6. CASE WindowEnds(j) \/ CloseWindow(j)
  <2>1. \A k \in Job : window'[k].journal = window[k].journal
      BY <1>6, KilledSets DEF WindowEnds, CloseWindow
  <2> QED
      BY <1>3, <1>6, <2>1 DEF WindowEnds, CloseWindow, OnlyDeletes
<1>7. CASE HandlerEnds(j)
  <2>1. window' = [window EXCEPT ![j] = Leftover(j, FALSE)] /\ UNCHANGED <<store, account>>
      BY <1>7 DEF HandlerEnds
  <2>2. \A k \in Job : window'[k].journal = window[k].journal
    <3>1. Leftover(j, FALSE).journal = window[j].journal
        BY DEF Leftover, Over
    <3> QED
        BY <1>0, <2>1, <3>1 DEF LoginTypes
  <2> QED
      BY <1>3, <2>1, <2>2 DEF OnlyDeletes
<1> QED
    BY <1>1, <1>2, <1>4, <1>5, <1>6, <1>7 DEF HandlerStep, OnlyDeletes

\* A window writes what its journal names, and after the journal.
LEMMA WindowRecords ==
    ASSUME LoginInv, NothingUnrecorded, NEW j \in Job, WindowStep(j)
    PROVE  NothingUnrecorded'
<1>0. /\ LoginTypes /\ WindowAt(j) /\ account' = account
      /\ \A k \in Job : window[k] \in Window
      /\ \A k \in Job \ {j} : window'[k] = window[k]
    BY TypesSplit, OfOne, WindowSteps DEF LoginInv, LoginTypes
<1>1. window[j].journal \subseteq window'[j].journal
  <2>1. CASE WindowCaptures(j)
      BY <1>0, <2>1 DEF WindowCaptures, WindowAt
  <2>2. CASE WindowReady(j)
    <3>1. CASE window' = [window EXCEPT ![j].at = "ready"]
        BY <1>0, <3>1 DEF LoginTypes, Window
    <3>2. CASE Exits(j, "CHECKED")
        BY <1>0, <3>2 DEF Exits, LoginTypes, Window
    <3> QED
        BY <2>2, <3>1, <3>2 DEF WindowReady
  <2>3. CASE UNCHANGED window
      BY <2>3
  <2>4. ASSUME NEW result, Exits(j, result) PROVE window'[j].journal = window[j].journal
      BY <1>0, <2>4 DEF Exits, LoginTypes, Window
  <2> QED
      BY <2>1, <2>2, <2>3, <2>4 DEF WindowStep, WindowGivesUp, WindowWrites, WindowSaved,
         WindowFails
<1>2. \A r \in Ref : \/ store'[r] \in {store[r], None}
                     \/ store'[r] = j /\ r \in window[j].journal
  <2>1. CASE WindowWrites(j)
      BY <1>0, <2>1 DEF WindowWrites, LoginTypes
  <2>2. CASE WindowFails(j)
      BY <1>0, <2>2, DeletesOnly DEF WindowFails
  <2>3. CASE UNCHANGED store
      BY <2>3
  <2> QED
      BY <2>1, <2>2, <2>3 DEF WindowStep, WindowReady, WindowGivesUp, WindowCaptures, WindowSaved
<1>3. SUFFICES ASSUME NEW r \in Ref, store'[r] # None
               PROVE  r \in account'.refs \/ r \in window'[store'[r]].journal
    BY DEF NothingUnrecorded
<1>4. CASE store'[r] = j /\ r \in window[j].journal
    BY <1>1, <1>4
<1>5. CASE store'[r] = store[r]
  <2>1. store[r] \in Job
      BY <1>0, <1>3, <1>5 DEF LoginTypes
  <2>2. r \in account.refs \/ r \in window[store[r]].journal
      BY <1>3, <1>5 DEF NothingUnrecorded
  <2> QED
      BY <1>0, <1>1, <1>5, <2>1, <2>2
<1> QED
    BY <1>2, <1>3, <1>4, <1>5

LEMMA DeletesKeepRecords ==
    ASSUME LoginTypes, NothingUnrecorded, OnlyDeletes
    PROVE  NothingUnrecorded'
<1> SUFFICES ASSUME NEW r \in Ref, store'[r] # None
             PROVE  r \in account'.refs \/ r \in window'[store'[r]].journal
    BY DEF NothingUnrecorded
<1>1. store'[r] = store[r] /\ store[r] \in Job
    BY DEF OnlyDeletes, LoginTypes
<1> QED
    BY <1>1 DEF OnlyDeletes, NothingUnrecorded

LEMMA HandlerRecords ==
    ASSUME LoginInv, NothingUnrecorded, NEW j \in Job, HandlerStep(j)
    PROVE  NothingUnrecorded'
<1>0. LoginTypes
    BY TypesSplit DEF LoginInv
<1>1. CASE Adopt(j) /\ UNCHANGED <<store, window>>
  <2>1. CASE window[j].result = "CHECKED"
      BY <1>1, <2>1 DEF Adopt, NothingUnrecorded
  <2>2. CASE window[j].result = "PREPARED"
    <3>1. account.refs = {} /\ account'.refs = window[j].journal
        BY <1>0, <1>1, <2>2 DEF Adopt, Adoptable, LoginTypes
    <3> QED
        BY <1>1, <3>1 DEF NothingUnrecorded
  <2> QED
      BY <1>1, <2>1, <2>2 DEF Adopt
<1>2. CASE /\ window'[j].journal = {} /\ UNCHANGED account
           /\ \A r \in Unadopted(j) : store'[r] = None
  <2> SUFFICES ASSUME NEW r \in Ref, store'[r] # None
               PROVE  r \in account'.refs \/ r \in window'[store'[r]].journal
      BY DEF NothingUnrecorded
  <2>1. store'[r] = store[r] /\ store[r] \in Job /\ r \notin Unadopted(j)
      BY <1>0, <1>2, HandlerDeletes DEF LoginTypes
  <2>2. r \in account.refs \/ r \in window[store[r]].journal
      BY <2>1 DEF NothingUnrecorded
  <2>3. CASE store[r] = j
      BY <1>2, <2>1, <2>2, <2>3 DEF Unadopted
  <2>4. CASE store[r] # j
      BY <1>2, <2>1, <2>2, <2>4, HandlerDeletes
  <2> QED
      BY <2>3, <2>4
<1> QED
    BY <1>0, <1>1, <1>2, HandlerDeletes, DeletesKeepRecords

\* A reset deletes what it no longer refers to.
LEMMA ChangeRecords ==
    ASSUME LoginInv, NothingUnrecorded, ChangeAccount
    PROVE  NothingUnrecorded'
<1>0. LoginTypes /\ window' = window
    BY TypesSplit DEF LoginInv, ChangeAccount
<1>1. CASE Deletes(account.refs, {}) /\ account'.refs = {}
  <2> SUFFICES ASSUME NEW r \in Ref, store'[r] # None
               PROVE  r \in window'[store'[r]].journal
      BY DEF NothingUnrecorded
  <2>1. store'[r] = store[r] /\ r \notin account.refs
      BY <1>0, <1>1 DEF Deletes, LoginTypes
  <2> QED
      BY <1>0, <2>1 DEF NothingUnrecorded
<1>2. CASE /\ account'.refs = account.refs
           /\ UNCHANGED store \/ \E refs, kept : Deletes(refs, kept)
    BY <1>0, <1>2, DeletesOnly, DeletesKeepRecords DEF OnlyDeletes
<1> QED
    BY <1>0, <1>1, <1>2 DEF ChangeAccount, LoginTypes

\* No value stands in the secret store without a record of it, whichever of
\* the three stores a crash or a refusal leaves behind the others.
THEOREM EverythingRecorded == LoginSpec => []NothingUnrecorded
<1>1. LoginInit => NothingUnrecorded
    BY DEF LoginInit, NothingUnrecorded
<1>2. LoginInv /\ NothingUnrecorded /\ [LoginNext]_lvars => NothingUnrecorded'
  <2> SUFFICES ASSUME LoginInv, NothingUnrecorded, [LoginNext]_lvars PROVE NothingUnrecorded'
      OBVIOUS
  <2>1. ASSUME OutsideStep, ~ChangeAccount PROVE NothingUnrecorded'
    <3>1. SupInv'
        BY LoginSupStep DEF LoginInv
    <3> QED
        BY <2>1, <3>1, OutsideDeletes, DeletesKeepRecords, TypesSplit DEF LoginInv
  <2> QED
      BY <2>1, WindowRecords, HandlerRecords, ChangeRecords DEF LoginNext, OutsideStep
<1> QED
    BY <1>1, <1>2, InitLogin, LoginStep, PTL DEF LoginSpec

-----------------------------------------------------------------------------
(* A login is adopted by the completion of its job alone, which a          *)
(* cancellation on record refuses.                                         *)

LEMMA RefsGrowByAdoption ==
    ASSUME LoginInv, [LoginNext]_lvars, ~(account'.refs \subseteq account.refs)
    PROVE  \E j \in Job : Adopt(j)
<1>1. LoginTypes /\ SupInv'
    BY TypesSplit, LoginSupStep DEF LoginInv
<1>2. ASSUME NEW j \in Job, WindowStep(j) PROVE FALSE
    BY <1>2, WindowSteps
<1>3. ASSUME NEW j \in Job, HandlerStep(j) PROVE Adopt(j)
    BY <1>3, HandlerDeletes DEF OnlyDeletes
<1>4. ASSUME ChangeAccount PROVE FALSE
    BY <1>1, <1>4 DEF ChangeAccount, LoginTypes
<1>5. ASSUME OutsideStep, ~ChangeAccount PROVE FALSE
    BY <1>1, <1>5, OutsideDeletes DEF OnlyDeletes
<1> QED
    BY <1>2, <1>3, <1>4, <1>5 DEF LoginNext, OutsideStep

\* A cancelled login leaves the account as it was, whatever its window found
\* and however late the cancellation came.
THEOREM CancelledLoginIsNotAdopted == LoginSpec => CancelledAdoptsNothing
<1>1. ASSUME LoginInv, [LoginNext]_lvars, NEW j \in Job, jobs[j].cancel, account.owner = j
      PROVE  account'.refs \subseteq account.refs
  <2> SUFFICES ASSUME ~(account'.refs \subseteq account.refs) PROVE FALSE
      OBVIOUS
  <2>1. PICK k \in Job : Adopt(k)
      BY <1>1, RefsGrowByAdoption
  <2>2. k = j
      BY <1>1, <2>1 DEF Adopt, Adoptable
  <2>3. ~jobs[k].cancel
      BY <2>1, Preparations DEF Adopt, CompleteResult, Acceptable
  <2> QED
      BY <1>1, <2>2, <2>3
<1>2. LoginInv /\ [LoginNext]_lvars =>
        [\A j \in Job : jobs[j].cancel /\ account.owner = j
            => account'.refs \subseteq account.refs]_lvars
    BY <1>1
<1> QED
    BY <1>2, InitLogin, LoginStep, PTL DEF LoginSpec, CancelledAdoptsNothing

-----------------------------------------------------------------------------
(* Where the login process ends with its Worker's tree.  There the job of  *)
(* a preparation is not over while its window runs, so at most the window  *)
(* of the latest preparation does.  It collects only for an account        *)
(* without a login, and what it has written nobody overwrites before it is *)
(* adopted.                                                                *)

\* A window that may write stands before an account without a login.
Blank ==
    \A j \in Job :
        Running(j) /\ (window[j].at = "opening" => ~preps[j].verify) => account.refs = {}

\* What a window has prepared is still its own.
PreparedIsOwn ==
    \A j \in Job : window[j].result = "PREPARED" /\ jobs[j].state \notin Terminal
        => \A r \in window[j].journal : store[r] \in {None, j}

WindowsInv == OverIsExited /\ Blank /\ PreparedIsOwn /\ AdoptedIsSaved

\* A window that runs is the one of the preparation that executes the account.
LEMMA RunningIsActive ==
    ASSUME LoginInv, OverIsExited, NEW j \in Job, Running(j)
    PROVE  /\ Submitted(j) /\ jobs[j].state = "RUNNING" /\ jobs[j].attempt > 0
           /\ account.owner = j
<1>1. NamedAt(j) /\ WindowAt(j) /\ jobs[j].attempt \in Nat
    BY OfOne
<1>2. jobs[j].attempt > 0
    BY <1>1 DEF WindowAt, Running, Open
<1>3. jobs[j].state = "RUNNING"
    BY <1>2, NoneRetried DEF OverIsExited, LoginInv, SupInv
<1> QED
    BY <1>1, <1>2, <1>3 DEF NamedAt, LoginInv, OneActive, Active, Terminal

\* From outside no window is opened and none that goes on is touched.
LEMMA RunningBefore ==
    ASSUME KillOnClose, NEW k \in Job, Outside(k), Running(k)'
    PROVE  Running(k) /\ window'[k] = window[k] /\ worker'[k] # "gone"
<1>1. window'[k] = window[k]
    BY DEF Outside, Over, Running, Open
<1> QED
    BY <1>1 DEF Outside, Running, Open

\* What a preparation was submitted for does not change while its window runs.
LEMMA VerifyKept ==
    ASSUME KillOnClose, LoginInv, OverIsExited, OutsideStep, \A k \in Job : Outside(k),
           NEW k \in Job, Running(k)'
    PROVE  preps'[k].verify = preps[k].verify
<1>0. /\ LoginTypes /\ TypeOK /\ Running(k) /\ worker'[k] # "gone"
      /\ preps[k] \in Prep /\ Submitted(k) /\ jobs[k].state = "RUNNING" /\ jobs[k].attempt > 0
    BY RunningBefore, RunningIsActive, TypesSplit
    DEF LoginInv, LoginTypes, SupInv, RowInv, Submitted
<1>1. jobs'[k].state = jobs[k].state
    BY <1>0 DEF Outside, Aside
<1>2. ASSUME NEW j \in Job, NEW phase, Phased(j, phase)
      PROVE  preps'[k].verify = preps[k].verify
    BY <1>0, <1>2 DEF Phased, LoginTypes, Prep
<1>3. ASSUME NEW j \in Job, LoginScan(j) PROVE preps'[k].verify = preps[k].verify
    BY <1>2, <1>3 DEF LoginScan, Reconciled, Unreconciled
<1>4. ASSUME LoginSettles PROVE preps'[k].verify = preps[k].verify
  <2>1. reaping.job \in Job
      BY <1>4 DEF LoginInv, SupInv, SupervisorTypeOK, Exit, LoginSettles
  <2>2. UNCHANGED preps \/ \E phase : Phased(reaping.job, phase)
      BY <1>4 DEF LoginSettles, Reconciled, Unreconciled
  <2> QED
      BY <1>2, <2>1, <2>2
<1>5. ASSUME LoginDecision PROVE preps'[k].verify = preps[k].verify
    BY <1>1, <1>5 DEF LoginDecision
<1>6. ASSUME NEW j \in Job, Submit(j) PROVE preps'[k].verify = preps[k].verify
    BY <1>0, <1>6 DEF Submit, LoginTypes
<1>7. ASSUME NEW j \in Job, Confirm(j) PROVE preps'[k].verify = preps[k].verify
    BY <1>0, <1>7 DEF Confirm, LoginTypes, Prep
<1>8. ASSUME NEW j \in Job, CancelLogin(j) PROVE preps'[k].verify = preps[k].verify
    BY <1>0, <1>1, <1>8 DEF CancelLogin, Ends, LoginTypes
<1>9. ASSUME ChangeAccount PROVE preps'[k].verify = preps[k].verify
    BY <1>0, <1>9, OutdatedTypes DEF ChangeAccount
<1>10. ASSUME FinishRetry PROVE preps'[k].verify = preps[k].verify
    BY <1>0, <1>10 DEF FinishRetry, LoginInv, ReadersInv, Ends, LoginTypes, Terminal
<1>11. ASSUME UNCHANGED preps PROVE preps'[k].verify = preps[k].verify
    BY <1>11
<1> QED
    BY <1>3, <1>4, <1>5, <1>6, <1>7, <1>8, <1>9, <1>10, <1>11
    DEF OutsideStep, LoginWorkerLives, LoginWorkerDies, LoginTreeEnds, LoginWorkerStarts,
        RetryCleanup, LoginService, login, lvars

LEMMA OutsideWindows ==
    ASSUME KillOnClose, LoginInv, WindowsInv, SupInv', OutsideStep
    PROVE  WindowsInv'
<1>0. LoginTypes /\ \A k \in Job : Outside(k)
    BY TypesSplit, OutsideStepInv DEF LoginInv
<1>1. /\ account'.refs \in {account.refs, {}}
      /\ \A r \in Ref : store'[r] \in {store[r], None}
  <2>1. CASE ChangeAccount
      BY <1>0, <2>1, DeletesOnly DEF ChangeAccount, LoginTypes
  <2>2. CASE ~ChangeAccount
      BY <2>2, OutsideDeletes DEF OnlyDeletes
  <2> QED
      BY <2>1, <2>2
<1>2. OverIsExited'
  <2> SUFFICES ASSUME NEW k \in Job, Running(k)' PROVE jobs'[k].state \notin Terminal
      BY DEF OverIsExited
  <2>1. Running(k) /\ worker'[k] # "gone"
      BY <1>0, RunningBefore
  <2>2. jobs[k].state = "RUNNING" /\ jobs[k].attempt > 0
      BY <2>1, RunningIsActive DEF WindowsInv
  <2> QED
      BY <1>0, <2>1, <2>2 DEF Outside, Aside, Terminal
<1>3. Blank'
  <2> SUFFICES ASSUME NEW k \in Job, Running(k)',
                      window'[k].at = "opening" => ~preps'[k].verify
               PROVE  account'.refs = {}
      BY DEF Blank
  <2>1. Running(k) /\ window'[k] = window[k]
      BY <1>0, RunningBefore
  <2>2. preps'[k].verify = preps[k].verify
      BY <1>0, VerifyKept DEF WindowsInv
  <2> QED
      BY <1>1, <2>1, <2>2 DEF WindowsInv, Blank
<1>4. PreparedIsOwn'
  <2> SUFFICES ASSUME NEW k \in Job, window'[k].result = "PREPARED",
                      jobs'[k].state \notin Terminal, NEW r \in window'[k].journal
               PROVE  store'[r] \in {None, k}
      BY DEF PreparedIsOwn
  <2>1. window'[k] = window[k]
      BY <1>0 DEF Outside, Over
  <2>2. jobs[k].state \notin Terminal
      BY <1>0 DEF Outside, Aside
  <2>3. r \in Ref
      BY <1>0, <2>1 DEF LoginTypes, Window
  <2> QED
      BY <1>1, <2>1, <2>2, <2>3 DEF WindowsInv, PreparedIsOwn
<1>5. AdoptedIsSaved'
  <2> SUFFICES ASSUME NEW r \in account'.refs, store'[r] # None
               PROVE  jobs'[store'[r]].state = "SUCCEEDED"
      BY DEF AdoptedIsSaved
  <2>1. r \in account.refs /\ r \in Ref
      BY <1>0, <1>1 DEF LoginTypes
  <2>2. store'[r] = store[r] /\ store[r] \in Job
      BY <1>0, <1>1, <2>1 DEF LoginTypes
  <2>3. jobs[store[r]].state = "SUCCEEDED"
      BY <2>1, <2>2 DEF WindowsInv, AdoptedIsSaved
  <2> QED
      BY <1>0, <2>2, <2>3 DEF Outside, Aside, Terminal
<1> QED
    BY <1>2, <1>3, <1>4, <1>5 DEF WindowsInv

\* What a step of a window does to the values and to its answer.
LEMMA WindowValues ==
    ASSUME LoginInv, NEW j \in Job, WindowStep(j)
    PROVE  /\ \A r \in Ref : \/ store'[r] \in {store[r], None}
                             \/ window[j].at = "writing" /\ store'[r] = j
           /\ window'[j].at \in {"ready", "writing"}
                => window[j].at \in {"ready", "writing"} \/ ~preps[j].verify
           /\ window'[j].result = "PREPARED" =>
                \A r \in window'[j].journal : store'[r] = j
<1>0. /\ LoginTypes /\ WindowAt(j) /\ window[j] \in Window
    BY TypesSplit, OfOne DEF LoginInv
<1>1. ASSUME NEW result, Exits(j, result)
      PROVE  /\ window'[j].at = "exited" /\ window'[j].result = result
             /\ window'[j].journal = window[j].journal
    BY <1>0, <1>1 DEF Exits, LoginTypes, Window
<1>2. window'[j].at # "exited" => window'[j].result = "NONE"
    BY WindowSteps
<1>3. CASE WindowReady(j)
  <2>1. CASE preps[j].verify
      BY <1>1, <1>3, <2>1 DEF WindowReady
  <2>2. CASE ~preps[j].verify
    <3>1. window'[j].at = "ready"
        BY <1>0, <1>3, <2>2 DEF WindowReady, LoginTypes, Window
    <3> QED
        BY <1>2, <1>3, <2>2, <3>1 DEF WindowReady
  <2> QED
      BY <2>1, <2>2
<1>4. CASE WindowGivesUp(j)
    BY <1>0, <1>1, <1>2, <1>4 DEF WindowGivesUp
<1>5. CASE WindowCaptures(j)
  <2>1. CASE Exits(j, "UNSUPPORTED")
      BY <1>1, <1>5, <2>1 DEF WindowCaptures
  <2>2. ASSUME NEW refs, window' = [window EXCEPT ![j].at = "writing", ![j].journal = refs]
        PROVE  window'[j].at = "writing"
      BY <1>0, <2>2 DEF LoginTypes, Window
  <2> QED
      BY <1>2, <1>5, <2>1, <2>2 DEF WindowCaptures
<1>6. CASE WindowWrites(j)
    BY <1>0, <1>2, <1>6 DEF WindowWrites, LoginTypes, WindowAt
<1>7. CASE WindowSaved(j)
    BY <1>0, <1>1, <1>7 DEF WindowSaved
<1>8. CASE WindowFails(j)
    BY <1>0, <1>1, <1>8, DeletesOnly DEF WindowFails
<1> QED
    BY <1>3, <1>4, <1>5, <1>6, <1>7, <1>8 DEF WindowStep

LEMMA WindowWindows ==
    ASSUME LoginInv, WindowsInv, NEW j \in Job, WindowStep(j)
    PROVE  WindowsInv'
<1>0. /\ LoginTypes /\ UNCHANGED <<svars, account, preps, handler>> /\ Running(j)
      /\ \A k \in Job \ {j} : window'[k] = window[k]
      /\ window'[j].at \in {"ready", "writing", "exited"}
      /\ window' \in [Job -> Window]
      /\ jobs[j].state = "RUNNING" /\ account.owner = j
    BY TypesSplit, WindowSteps, RunningIsActive DEF LoginInv, WindowsInv
<1>1. OverIsExited'
    BY <1>0 DEF WindowsInv, OverIsExited, Running, Open, svars, Terminal
<1>2. Blank'
  <2> SUFFICES ASSUME NEW k \in Job, Running(k)',
                      window'[k].at = "opening" => ~preps'[k].verify
               PROVE  account'.refs = {}
      BY DEF Blank
  <2>1. CASE k # j
      BY <1>0, <2>1 DEF WindowsInv, Blank, Running, Open, svars
  <2>2. CASE k = j
    <3>1. window[j].at \in {"ready", "writing"} \/ ~preps[j].verify
        BY <1>0, <2>2, WindowValues DEF Running, Open
    <3> QED
        BY <1>0, <3>1 DEF WindowsInv, Blank
  <2> QED
      BY <2>1, <2>2
<1>3. PreparedIsOwn'
  <2> SUFFICES ASSUME NEW k \in Job, window'[k].result = "PREPARED",
                      jobs'[k].state \notin Terminal, NEW r \in window'[k].journal
               PROVE  store'[r] \in {None, k}
      BY DEF PreparedIsOwn
  <2>1. CASE k = j
      BY <2>1, WindowValues
  <2>2. CASE k # j
    <3>1. window'[k] = window[k] /\ jobs[k].state \notin Terminal /\ r \in Ref
        BY <1>0, <2>2 DEF svars, Window
    <3>2. Submitted(k)
        BY <3>1, OfOne DEF WindowAt, NamedAt
    <3>3. FALSE
        BY <1>0, <2>2, <3>1, <3>2 DEF LoginInv, OneActive, Active
    <3> QED
        BY <3>3
  <2> QED
      BY <2>1, <2>2
<1>4. AdoptedIsSaved'
  <2> SUFFICES ASSUME NEW r \in account'.refs, store'[r] # None
               PROVE  jobs'[store'[r]].state = "SUCCEEDED"
      BY DEF AdoptedIsSaved
  <2>1. r \in account.refs /\ r \in Ref
      BY <1>0 DEF LoginTypes
  <2>2. window[j].at # "writing"
      BY <1>0, <2>1 DEF WindowsInv, Blank
  <2>3. store'[r] = store[r]
      BY <2>1, <2>2, WindowValues
  <2> QED
      BY <1>0, <2>1, <2>3 DEF WindowsInv, AdoptedIsSaved, svars
<1> QED
    BY <1>1, <1>2, <1>3, <1>4 DEF WindowsInv

\* What a step of a handler does to the window it watches over.
LEMMA HandlerValues ==
    ASSUME LoginInv, NEW j \in Job, HandlerStep(j), LoginInv'
    PROVE  /\ \A k \in Job \ {j} : /\ window'[k] = window[k] /\ preps'[k] = preps[k]
                                   /\ jobs'[k] = jobs[k]
           /\ window'[j].result = "PREPARED" => window[j].result = "PREPARED"
           /\ window'[j].journal \subseteq window[j].journal
           /\ jobs[j].state \in {"PENDING", "RUNNING"} \/ jobs' = jobs
           /\ Open(j)' =>
                /\ jobs'[j].state = "RUNNING" /\ UNCHANGED <<preps, account>>
                /\ \/ window'[j].at = window[j].at
                   \/ window'[j].at = "opening" /\ (preps[j].verify \/ account.refs = {})
<1>0. /\ LoginTypes /\ window[j] \in Window
      /\ HandlerAt(j)' /\ WindowAt(j)'
    BY TypesSplit, OfOne DEF LoginInv, StagesInv
<1>1. Only(j) /\ (jobs[j].state \in {"PENDING", "RUNNING"} \/ jobs' = jobs)
  <2>1. ASSUME Renew(j) PROVE jobs[j].state = "RUNNING"
      BY <2>1 DEF Renew, RenewLease, HeldBy
  <2> QED
      BY <2>1, CallRows
<1>2. Open(j)' => \/ handler'[j].at \in {"claimed", "open", "closing"} /\ jobs'[j].state = "RUNNING"
                  \/ handler'[j].at = "idle"
  <2>1. handler'[j] \in Handler
      BY TypesSplit DEF LoginInv, LoginTypeOK
  <2> QED
      BY <1>0, <2>1 DEF HandlerAt, WindowAt, Handler
<1>3. CASE HandlerClaims(j) \/ Renew(j)
  <2>1. UNCHANGED <<account, preps, window>> /\ handler'[j].at # "idle"
    <3>1. CASE HandlerClaims(j)
        BY <1>0, <3>1, EntersSets DEF HandlerClaims
    <3>2. CASE Renew(j)
        BY <3>2 DEF Renew, login
    <3> QED
        BY <1>3, <3>1, <3>2
  <2> QED
      BY <1>1, <1>2, <2>1 DEF Only
<1>4. CASE OpenFails(j) \/ Decline(j)
    BY <1>0, <1>1, <1>2, <1>4, EntersSets DEF OpenFails, Decline, LoginTypes, Only
<1>5. CASE OpenWindow(j)
  <2>1. /\ window' = [window EXCEPT ![j].at = "opening"]
        /\ UNCHANGED <<account, preps>> /\ (preps[j].verify \/ account.refs = {})
        /\ handler'[j].at # "idle"
      BY <1>0, <1>5, EntersSets DEF OpenWindow
  <2>2. /\ window'[j].at = "opening" /\ window'[j].result = window[j].result
        /\ window'[j].journal = window[j].journal
        /\ \A k \in Job \ {j} : window'[k] = window[k]
      BY <1>0, <2>1 DEF LoginTypes, Window
  <2> QED
      BY <1>1, <1>2, <2>1, <2>2 DEF Only
<1>6. CASE Forward(j) \/ MonitorRaises(j)
  <2>1. /\ UNCHANGED <<account, preps>>
        /\ \/ window' = [window EXCEPT ![j].cancel = TRUE]
           \/ window' = [window EXCEPT ![j].save = TRUE]
      BY <1>6 DEF Forward, MonitorRaises
  <2>2. handler'[j].at # "idle"
      BY <1>0, <1>6 DEF Forward, MonitorRaises, LoginTypes
  <2>3. /\ \A k \in Job \ {j} : window'[k] = window[k]
        /\ window'[j].at = window[j].at /\ window'[j].result = window[j].result
        /\ window'[j].journal \in {window[j].journal, {}}
      BY <1>0, <2>1, MarkSets
  <2> QED
      BY <1>1, <1>2, <2>1, <2>2, <2>3 DEF Only
<1>7. CASE WindowEnds(j) \/ CloseWindow(j)
  <2>1. UNCHANGED preps /\ Killed(j)
      BY <1>7 DEF WindowEnds, CloseWindow
  <2>2. window'[j].result = "PREPARED" => window[j].result = "PREPARED"
    <3>1. CASE Open(j)
        BY <1>0, <2>1, <3>1 DEF Killed, LoginTypes, Window
    <3>2. CASE ~Open(j)
        BY <2>1, <3>2 DEF Killed
    <3> QED
        BY <3>1, <3>2
  <2>3. ~Open(j)'
      BY <2>1, KilledSets DEF Open
  <2> QED
      BY <1>1, <2>1, <2>2, <2>3, KilledSets DEF Only
<1>8. CASE Adopt(j) \/ Sweep(j)
  <2>1. /\ handler'[j].at \in {"finalized", "swept"}
        /\ \A k \in Job \ {j} : preps'[k] = preps[k]
        /\ window' = [window EXCEPT ![j].journal = {}] \/ UNCHANGED window
    <3>1. \A k \in Job \ {j} : preps'[k] = preps[k]
        BY <1>0, <1>8 DEF Adopt, Sweep, Ends, Phased, LoginTypes
    <3> QED
        BY <1>0, <1>8, <3>1, EntersSets DEF Adopt, Sweep, Tidies
  <2>2. /\ \A k \in Job \ {j} : window'[k] = window[k]
        /\ window'[j].result = window[j].result
        /\ window'[j].journal \in {window[j].journal, {}}
      BY <1>0, <2>1, MarkSets
  <2> QED
      BY <1>1, <1>2, <2>1, <2>2 DEF Only
<1>9. CASE HandlerEnds(j)
  <2>1. /\ window' = [window EXCEPT ![j] = Leftover(j, FALSE)]
        /\ \A k \in Job \ {j} : preps'[k] = preps[k]
        /\ handler[j].at = "swept"
      BY <1>0, <1>9 DEF HandlerEnds, Ends, LoginTypes
  <2>2. Leftover(j, FALSE) = Over(j)
      BY <2>1, OfOne DEF Leftover, WindowAt
  <2>3. window'[j] = Over(j) /\ \A k \in Job \ {j} : window'[k] = window[k]
      BY <1>0, <2>1, <2>2 DEF LoginTypes
  <2>4. /\ window'[j].at = "none" /\ window'[j].result = "NONE"
        /\ window'[j].journal = window[j].journal
      BY <2>3 DEF Over
  <2> QED
      BY <1>1, <2>1, <2>3, <2>4 DEF Only, Open
<1> QED
    BY <1>3, <1>4, <1>5, <1>6, <1>7, <1>8, <1>9 DEF HandlerStep

\* An adoption takes over what its own window has written, with its job done.
LEMMA AdoptionValues ==
    ASSUME LoginInv, WindowsInv, NEW j \in Job, Adopt(j)
    PROVE  /\ account.owner = j /\ account'.owner = j
           /\ UNCHANGED account \/ \A r \in account'.refs : r \in Ref /\ store[r] = j
           /\ jobs'[j].state = "SUCCEEDED"
<1>0. /\ LoginTypes /\ TypeOK /\ j \in Owner /\ window[j] \in Window
      /\ HandlerAt(j) /\ handler[j].at = "closed"
    BY TypesSplit, Preparations, OfOne DEF LoginInv, LoginTypes, SupInv, RowInv, Adopt
<1>1. jobs[j].state \notin Terminal
    BY <1>0 DEF HandlerAt, Terminal
<1>2. jobs'[j].state = "SUCCEEDED"
    BY <1>0, ResultEffect DEF Adopt, Leaves
<1>3. account.owner = j /\ account'.owner = j
    BY <1>0 DEF Adopt, Adoptable, LoginTypes
<1>4. CASE window[j].result = "CHECKED"
    BY <1>2, <1>3, <1>4 DEF Adopt
<1>5. CASE window[j].result = "PREPARED"
  <2>1. account'.refs = window[j].journal
      BY <1>0, <1>5 DEF Adopt, LoginTypes
  <2>2. \A r \in window[j].journal : r \in Ref /\ store[r] = j
      BY <1>0, <1>1, <1>5 DEF WindowsInv, PreparedIsOwn, Adopt, Adoptable, Window
  <2> QED
      BY <1>2, <1>3, <2>1, <2>2
<1> QED
    BY <1>4, <1>5 DEF Adopt

LEMMA HandlerWindows ==
    ASSUME LoginInv, WindowsInv, NEW j \in Job, HandlerStep(j), LoginInv'
    PROVE  WindowsInv'
<1>0. /\ LoginTypes /\ window' \in [Job -> Window] /\ account'.refs \subseteq Ref
      /\ UNCHANGED worker
  <2>1. UNCHANGED worker
      BY DEF HandlerStep, HandlerClaims, OpenWindow, OpenFails, Forward, Renew, WindowEnds,
         MonitorRaises, CloseWindow, Adopt, Decline, Sweep, HandlerEnds, own, svars
  <2> QED
      BY <2>1, TypesSplit DEF LoginInv, LoginTypes, LoginTypeOK
<1>1. \A k \in Job : jobs[k].state \in Terminal => jobs'[k] = jobs[k]
    BY HandlerValues DEF Terminal
<1>2. /\ \A r \in Ref : store'[r] \in {store[r], None}
      /\ account'.refs \subseteq account.refs \/ Adopt(j)
    BY HandlerDeletes DEF OnlyDeletes
<1>3. OverIsExited'
  <2> SUFFICES ASSUME NEW k \in Job, Running(k)' PROVE jobs'[k].state \notin Terminal
      BY DEF OverIsExited
  <2>1. CASE k = j
      BY <2>1, HandlerValues DEF Running, Terminal
  <2>2. CASE k # j
    <3>1. Running(k) /\ jobs'[k] = jobs[k]
        BY <1>0, <2>2, HandlerValues DEF Running, Open
    <3> QED
        BY <3>1 DEF WindowsInv, OverIsExited
  <2> QED
      BY <2>1, <2>2
<1>4. Blank'
  <2> SUFFICES ASSUME NEW k \in Job, Running(k)',
                      window'[k].at = "opening" => ~preps'[k].verify
               PROVE  account'.refs = {}
      BY DEF Blank
  <2>1. CASE k = j
    <3>1. /\ UNCHANGED <<preps, account>>
          /\ \/ window'[j].at = window[j].at
             \/ window'[j].at = "opening" /\ (preps[j].verify \/ account.refs = {})
        BY <2>1, HandlerValues DEF Running
    <3>2. CASE window'[j].at = window[j].at
        BY <1>0, <2>1, <3>1, <3>2 DEF WindowsInv, Blank, Running, Open
    <3> QED
        BY <2>1, <3>1, <3>2
  <2>2. CASE k # j
    <3>1. window'[k] = window[k] /\ preps'[k] = preps[k] /\ Running(k)
        BY <1>0, <2>2, HandlerValues DEF Running, Open
    <3>2. account.refs = {}
        BY <3>1 DEF WindowsInv, Blank
    <3>3. ~Adopt(j)
        BY <2>2, <3>1, RunningIsActive, AdoptionValues DEF WindowsInv
    <3> QED
        BY <1>2, <3>2, <3>3
  <2> QED
      BY <2>1, <2>2
<1>5. PreparedIsOwn'
  <2> SUFFICES ASSUME NEW k \in Job, window'[k].result = "PREPARED",
                      jobs'[k].state \notin Terminal, NEW r \in window'[k].journal
               PROVE  store'[r] \in {None, k}
      BY DEF PreparedIsOwn
  <2>1. window[k].result = "PREPARED" /\ r \in window[k].journal
      BY HandlerValues
  <2>2. jobs[k].state \notin Terminal /\ r \in Ref
      BY <1>0, <1>1 DEF Window
  <2> QED
      BY <1>2, <2>1, <2>2 DEF WindowsInv, PreparedIsOwn
<1>6. AdoptedIsSaved'
  <2> SUFFICES ASSUME NEW r \in account'.refs, store'[r] # None
               PROVE  jobs'[store'[r]].state = "SUCCEEDED"
      BY DEF AdoptedIsSaved
  <2>1. r \in Ref /\ store'[r] = store[r] /\ store[r] \in Job
      BY <1>0, <1>2 DEF LoginTypes
  <2>2. CASE r \in account.refs
    <3>1. jobs[store[r]].state = "SUCCEEDED"
        BY <2>1, <2>2 DEF WindowsInv, AdoptedIsSaved
    <3> QED
        BY <1>1, <2>1, <3>1 DEF Terminal
  <2>3. CASE r \notin account.refs
    <3>1. Adopt(j) /\ ~UNCHANGED account
        BY <1>2, <2>3
    <3> QED
        BY <2>1, <3>1, AdoptionValues
  <2> QED
      BY <2>2, <2>3
<1> QED
    BY <1>3, <1>4, <1>5, <1>6 DEF WindowsInv

LEMMA WindowsStep ==
    ASSUME KillOnClose, LoginInv, WindowsInv, [LoginNext]_lvars
    PROVE  WindowsInv'
<1>1. LoginInv' /\ SupInv'
    BY LoginStep, LoginSupStep DEF LoginInv
<1> QED
    BY <1>1, OutsideWindows, WindowWindows, HandlerWindows DEF LoginNext, OutsideStep

LEMMA InitWindows == LoginInit => WindowsInv
BY DEF LoginInit, WindowsInv, OverIsExited, Blank, PreparedIsOwn, AdoptedIsSaved, Running, Open

\* When the job of a preparation is over, so is its login process, where that
\* ends with the tree of its Worker.
THEOREM WindowEndsFirst ==
    ASSUME KillOnClose
    PROVE  LoginSpec => []OverIsExited
<1>1. LoginInv /\ WindowsInv /\ [LoginNext]_lvars => WindowsInv'
    BY WindowsStep
<1>2. WindowsInv => OverIsExited
    BY DEF WindowsInv
<1> QED
    BY <1>1, <1>2, InitWindows, InitLogin, LoginStep, PTL DEF LoginSpec

\* What the account refers to was written by a login that succeeded.
THEOREM AdoptionIsOfSuccess ==
    ASSUME KillOnClose
    PROVE  LoginSpec => []AdoptedIsSaved
<1>1. LoginInv /\ WindowsInv /\ [LoginNext]_lvars => WindowsInv'
    BY WindowsStep
<1>2. WindowsInv => AdoptedIsSaved
    BY DEF WindowsInv
<1> QED
    BY <1>1, <1>2, InitWindows, InitLogin, LoginStep, PTL DEF LoginSpec

\* What the account has adopted is deleted by requests of the user alone: no
\* Worker, window or supervisor takes it for the remains of a login.
THEOREM AdoptedStays ==
    ASSUME KillOnClose
    PROVE  LoginSpec => AdoptedIsKept
<1>1. ASSUME LoginInv, WindowsInv, [LoginNext]_lvars,
             NEW r \in account.refs, store[r] # None, store'[r] = None
      PROVE  UNCHANGED <<svars, window, handler>>
  <2>0. LoginTypes /\ SupInv' /\ r \in Ref
      BY <1>1, TypesSplit, LoginSupStep DEF LoginInv, LoginTypes
  <2>1. ASSUME NEW j \in Job, WindowStep(j) PROVE FALSE
    <3>1. UNCHANGED store \/ window[j].at = "writing"
        BY <2>1 DEF WindowStep, WindowReady, WindowGivesUp, WindowCaptures, WindowWrites,
           WindowSaved, WindowFails
    <3>2. window[j].at = "writing" => account.refs = {}
        BY <1>1, <2>1, WindowSteps DEF WindowsInv, Blank
    <3> QED
        BY <1>1, <3>1, <3>2
  <2>2. ASSUME NEW j \in Job, HandlerStep(j) PROVE FALSE
      BY <1>1, <2>2, HandlerDeletes DEF Spares
  <2>3. ASSUME OutsideStep, ~ChangeAccount PROVE UNCHANGED <<svars, window, handler>>
      BY <1>1, <2>0, <2>3, OutsideDeletes DEF Spares
  <2>4. ASSUME ChangeAccount PROVE UNCHANGED <<svars, window, handler>>
      BY <2>4 DEF ChangeAccount
  <2> QED
      BY <1>1, <2>1, <2>2, <2>3, <2>4 DEF LoginNext, OutsideStep
<1>2. LoginInv /\ WindowsInv /\ [LoginNext]_lvars =>
        [\A r \in account.refs : store[r] # None /\ store'[r] = None
            => UNCHANGED <<svars, window, handler>>]_lvars
    BY <1>1
<1>3. LoginInv /\ WindowsInv /\ [LoginNext]_lvars => WindowsInv'
    BY WindowsStep
<1> QED
    BY <1>2, <1>3, InitWindows, InitLogin, LoginStep, PTL DEF LoginSpec, AdoptedIsKept

\* No two login processes run at the same time.
THEOREM WindowsTakeTurns ==
    ASSUME KillOnClose
    PROVE  LoginSpec => []OneWindow
<1>1. LoginInv /\ WindowsInv /\ [LoginNext]_lvars => WindowsInv'
    BY WindowsStep
<1>2. LoginInv /\ WindowsInv => OneWindow
    BY RunningIsActive DEF WindowsInv, OneWindow
<1> QED
    BY <1>1, <1>2, InitWindows, InitLogin, LoginStep, PTL DEF LoginSpec

-----------------------------------------------------------------------------
(* The two rows of a login agree.  The job ends in one transaction with    *)
(* the phase.  Whoever writes a phase alone does it to a job that goes on, *)
(* follows the row of the job, or asks for a clean-up.                     *)

Told(state) == IF state = "SUCCEEDED" THEN {"PREPARED", "UNSUPPORTED"} ELSE {state}

PhaseAt(k) ==
    jobs[k].state \in Terminal =>
        Submitted(k) /\ preps[k].phase \in {"CLEANUP_REQUIRED"} \cup Told(jobs[k].state)

\* While the supervisor decides about a Worker that left, nobody else ends its job.
Reading == reaping # None => recovering = None /\ jobs[reaping.job].state = "RUNNING"

\* A login publishes nothing a decision could find.
Unpublished == \A j \in Job : published[j] = None

PhasesInv == (\A k \in Job : PhaseAt(k)) /\ Reading /\ Unpublished

LEMMA NothingPublished ==
    ASSUME LoginInv, [LoginNext]_lvars
    PROVE  published' = published
<1>1. ASSUME NEW j \in Job, HandlerStep(j) PROVE published' = published
  <2>1. ASSUME CompleteResult(j, j) PROVE published' = published
      BY <2>1, Preparations DEF CompleteResult
  <2> QED
      BY <1>1, <2>1 DEF HandlerStep, HandlerClaims, ClaimJob, OpenWindow, OpenFails, Forward,
         Renew, RenewLease, WindowEnds, MonitorRaises, CloseWindow, Adopt, Decline, Sweep,
         HandlerEnds, CompleteCancellation, EndCancelled, RecordFatalFailure, EndFailed,
         LeaveAttempt, svars, vars
<1>2. ASSUME NEW j \in Job, WindowStep(j) PROVE published' = published
    BY <1>2, WindowSteps DEF svars
<1>3. ASSUME NEW j \in Job,
             \/ LoginWorkerLives(j) \/ LoginWorkerDies(j) \/ LoginTreeEnds(j)
             \/ \E s \in Slots : LoginWorkerStarts(s, j)
             \/ LoginScan(j)
             \/ Submit(j) \/ Confirm(j) \/ CancelLogin(j) \/ RetryCleanup(j)
      PROVE  published' = published
    BY <1>3 DEF LoginWorkerLives, AcquireLock, WorkerLeaves, LoginWorkerDies, Terminate,
       WorkerDies, LoginTreeEnds, TreeExits, Reap, ReadWaitingFailure, LoginWorkerStarts,
       StartWorker, StartFails, LoginScan, ScanRecovery, ConfirmExited, ReadRecovery,
       ReconcileResult, Submit, Confirm, CancelLogin, Cancel, RequestCancellation,
       RetryCleanup, svars, vars
<1>4. ASSUME LoginSettles \/ LoginDecision PROVE published' = published
    BY <1>4 DEF LoginSettles, SettleAttempt, EndCancelled, EndFailed, SettleExpired,
       ConfirmExited, ReadRecovery, SettleAbandoned, LoginDecision, FinishDecision,
       RecordWaitingFailure, DropWaitingFailure, ConfirmRecovery, DropRecovery, vars
<1>5. ASSUME LoginService PROVE published' = published
    BY <1>5 DEF LoginService, BeginStop, Stopped, Restart, Crash, Outage, vars
<1>6. ASSUME ChangeAccount \/ FinishRetry PROVE published' = published
    BY <1>6 DEF ChangeAccount, FinishRetry, svars
<1>7. ASSUME Tick \/ UNCHANGED lvars PROVE published' = published
    BY <1>7 DEF Tick, lvars
<1> QED
    BY <1>1, <1>2, <1>3, <1>4, <1>5, <1>6, <1>7 DEF LoginNext

\* What a step of a handler does to what others have read.
LEMMA HandlerReading ==
    ASSUME LoginInv, Reading, NEW j \in Job, HandlerStep(j)
    PROVE  Reading'
<1>1. reaping' = reaping /\ recovering' = recovering /\ Serves(j)
  <2>1. UNCHANGED own /\ recovering' = recovering
      BY DEF HandlerStep, HandlerClaims, ClaimJob, OpenWindow, OpenFails, Forward, Renew,
         RenewLease, WindowEnds, MonitorRaises, CloseWindow, Adopt, CompleteResult, Decline,
         Sweep, HandlerEnds, CompleteCancellation, EndCancelled, RecordFatalFailure,
         EndFailed, LeaveAttempt, own, svars, vars
  <2>2. Serves(j)
      BY DEF HandlerStep, HandlerClaims, OpenWindow, OpenFails, Forward, Renew, WindowEnds,
         MonitorRaises, CloseWindow, Adopt, Decline, Sweep, HandlerEnds
  <2> QED
      BY <2>1, <2>2 DEF own
<1>2. reaping # None => reaping.job # j /\ reaping.job \in Job
    BY <1>1 DEF LoginInv, SupInv, OnlyDeadSettled, ReadersInv, Serves, SupervisorTypeOK, Exit
<1>3. Only(j)
    BY CallRows
<1> QED
    BY <1>1, <1>2, <1>3 DEF Reading, Only

LEMMA OutsideReading ==
    ASSUME LoginInv, Reading, OutsideStep
    PROVE  Reading'
<1>0. /\ reaping # None => reaping.job \in Job
      /\ TypeOK
    BY DEF LoginInv, SupInv, RowInv, SupervisorTypeOK, Exit
<1>1. CASE UNCHANGED <<jobs, reaping, recovering>>
    BY <1>1 DEF Reading
<1>2. CASE reaping' = None
    BY <1>2 DEF Reading
<1>3. ASSUME NEW s \in Slots, Reap(s) PROVE Reading'
    BY <1>3 DEF Reap, Idle, OwnRow, ReadWaitingFailure, Reading, vars
<1>4. ASSUME NEW j \in Job, CancelLogin(j) PROVE Reading'
  <2>1. RequestCancellation(j) /\ UNCHANGED <<reaping, recovering>>
      BY <1>4 DEF CancelLogin, Cancel, RequestCancellation, own
  <2>2. Only(j) /\ (jobs[j].state = "RUNNING" => jobs'[j].state = "RUNNING")
      BY <1>0, <2>1, RequestEffect DEF Waiting
  <2> QED
      BY <1>0, <2>1, <2>2 DEF Reading, Only
<1>5. ASSUME LoginDecision PROVE Reading'
  <2>1. CASE RecordWaitingFailure
    <3>1. /\ failing.job \in Job /\ Only(failing.job) /\ jobs[failing.job].state \in Waiting
          /\ UNCHANGED <<reaping, recovering>>
        BY <1>0, <1>5, <2>1, WaitingFailureEffect
        DEF LoginDecision, FinishDecision, RecordWaitingFailure, own
    <3> QED
        BY <1>0, <3>1 DEF Reading, Only, Waiting
  <2>2. CASE recovering # None
      BY <1>5, <2>2 DEF LoginDecision, FinishDecision, Reading, own
  <2>3. CASE UNCHANGED <<jobs, recovering>>
      BY <1>5, <2>3 DEF LoginDecision, FinishDecision, Reading, own
  <2> QED
      BY <1>5, <2>1, <2>2, <2>3
      DEF LoginDecision, FinishDecision, DropWaitingFailure, ConfirmRecovery
<1>6. ASSUME NEW j \in Job, LoginScan(j) PROVE Reading'
    BY <1>6 DEF LoginScan, ScanRecovery, Idle, Reading, own, svars
<1>7. ASSUME NEW j \in Job,
             LoginWorkerLives(j) \/ \E s \in Slots : LoginWorkerStarts(s, j)
      PROVE  UNCHANGED <<jobs, reaping, recovering>>
    BY <1>7 DEF LoginWorkerLives, AcquireLock, WorkerLeaves, LoginWorkerStarts,
       StartWorker, StartFails, ReadWaitingFailure, vars
<1>8. ASSUME NEW j \in Job, LoginWorkerDies(j) \/ Submit(j) \/ Confirm(j) \/ RetryCleanup(j)
      PROVE  UNCHANGED <<jobs, reaping, recovering>>
    BY <1>8 DEF LoginWorkerDies, Terminate, WorkerDies, Submit, Confirm, RetryCleanup, svars
<1>9. ASSUME NEW j \in Job, LoginTreeEnds(j) PROVE Reading'
    BY <1>1, <1>3, <1>9 DEF LoginTreeEnds, TreeExits, vars
<1>10. ASSUME LoginService PROVE reaping' = None \/ UNCHANGED <<jobs, reaping, recovering>>
    BY <1>10 DEF LoginService, BeginStop, Stopped, Restart, Crash, vars
<1>11. ASSUME ChangeAccount \/ FinishRetry PROVE UNCHANGED <<jobs, reaping, recovering>>
    BY <1>11 DEF ChangeAccount, FinishRetry, svars
<1>12. ASSUME LoginSettles PROVE reaping' = None
    BY <1>12 DEF LoginSettles, SettleAttempt, SettleExpired, SettleAbandoned
<1>13. ASSUME (Tick /\ UNCHANGED own) \/ UNCHANGED lvars
       PROVE  UNCHANGED <<jobs, reaping, recovering>>
    BY <1>13 DEF Tick, own, lvars
<1> QED
    BY <1>1, <1>2, <1>4, <1>5, <1>6, <1>7, <1>8, <1>9, <1>10, <1>11, <1>12, <1>13
    DEF OutsideStep

LEMMA PhasesUntouched ==
    ASSUME NEW k \in Job, PhaseAt(k), jobs'[k].state = jobs[k].state,
           Submitted(k) => Submitted(k)' /\ preps'[k].phase = preps[k].phase
    PROVE  PhaseAt(k)'
BY DEF PhaseAt

\* Who writes the phase of one preparation need only look at that.
LEMMA PhaseWritten ==
    ASSUME LoginInv, NEW j \in Job, NEW phase \in Phase,
           Ends(j, phase) \/ (Submitted(j) /\ Phased(j, phase)),
           \A k \in Job : PhaseAt(k), Only(j),
           jobs'[j].state \in Terminal => phase \in {"CLEANUP_REQUIRED"} \cup Told(jobs'[j].state)
    PROVE  \A k \in Job : PhaseAt(k)'
<1>0. LoginTypes
    BY TypesSplit DEF LoginInv
<1>1. Submitted(j)' /\ \A k \in Job \ {j} : preps'[k] = preps[k]
    BY <1>0, Rewritten
<1>2. preps'[j].phase = phase
  <2>1. CASE Ends(j, phase)
      BY <1>0, <2>1 DEF Ends, Ended, LoginTypes
  <2>2. CASE Submitted(j) /\ Phased(j, phase)
      BY <1>0, <2>2 DEF Phased, Submitted, LoginTypes, Prep
  <2> QED
      BY <2>1, <2>2
<1>3. PhaseAt(j)'
    BY <1>1, <1>2 DEF PhaseAt, Told
<1>4. ASSUME NEW k \in Job \ {j} PROVE PhaseAt(k)'
    BY <1>1, <1>4, PhasesUntouched DEF Only, Submitted
<1> QED
    BY <1>3, <1>4

LEMMA HandlerPhases ==
    ASSUME LoginInv, \A k \in Job : PhaseAt(k), NEW j \in Job, HandlerStep(j)
    PROVE  \A k \in Job : PhaseAt(k)'
<1>0. /\ TypeOK /\ j \in Owner /\ Submitted(j) /\ Only(j)
  <2>1. Serves(j)
      BY DEF HandlerStep, HandlerClaims, OpenWindow, OpenFails, Forward, Renew, WindowEnds,
         MonitorRaises, CloseWindow, Adopt, Decline, Sweep, HandlerEnds
  <2> QED
      BY <2>1, OfOne, CallRows DEF LoginInv, SupInv, RowInv, NamedAt, Serves
<1>1. ASSUME UNCHANGED preps, jobs' = jobs \/ jobs'[j].state = "RUNNING"
      PROVE  \A k \in Job : PhaseAt(k)'
  <2> SUFFICES ASSUME NEW k \in Job PROVE PhaseAt(k)'
      OBVIOUS
  <2>1. CASE jobs'[k] = jobs[k]
      BY <1>1, <2>1, PhasesUntouched DEF Submitted
  <2>2. CASE k = j /\ jobs'[j].state = "RUNNING"
      BY <2>2 DEF PhaseAt, Terminal
  <2> QED
      BY <1>0, <1>1, <2>1, <2>2 DEF Only
<1>2. CASE Adopt(j)
  <2>1. Ends(j, "PREPARED") /\ jobs'[j].state = "SUCCEEDED"
      BY <1>0, <1>2, ResultEffect DEF Adopt, Leaves
  <2> QED
      BY <1>0, <2>1, PhaseWritten DEF Phase, Told
<1>3. CASE Sweep(j)
  <2>1. jobs' = jobs /\ (UNCHANGED preps \/ Phased(j, "CLEANUP_REQUIRED"))
      BY <1>3 DEF Sweep, svars
  <2> QED
      BY <1>0, <1>1, <2>1, PhaseWritten DEF Phase
<1>4. CASE HandlerEnds(j)
  <2>1. CASE CompleteCancellation(j, j) /\ Ends(j, "CANCELLED")
    <3>1. jobs'[j].state = "CANCELLED"
        BY <1>0, <2>1, CancellationEffect DEF CompleteCancellation, Leaves
    <3> QED
        BY <1>0, <2>1, <3>1, PhaseWritten DEF Phase, Told
  <2>2. CASE CompleteResult(j, j) /\ Ends(j, "UNSUPPORTED")
    <3>1. jobs'[j].state = "SUCCEEDED"
        BY <1>0, <2>2, ResultEffect DEF Leaves
    <3> QED
        BY <1>0, <2>2, <3>1, PhaseWritten DEF Phase, Told
  <2>3. CASE RecordFatalFailure(j, j) /\ Ends(j, "FAILED")
    <3>1. jobs'[j].state = "FAILED"
        BY <1>0, <2>3, FatalEffect DEF RecordFatalFailure, Leaves
    <3> QED
        BY <1>0, <2>3, <3>1, PhaseWritten DEF Phase, Told
  <2> QED
      BY <1>1, <1>4, <2>1, <2>2, <2>3 DEF HandlerEnds, LeaveAttempt, vars
<1>5. CASE HandlerClaims(j) \/ Renew(j)
  <2>1. ASSUME Renew(j) PROVE jobs[j].state = "RUNNING"
      BY <2>1 DEF Renew, RenewLease, HeldBy
  <2>2. jobs' = jobs \/ jobs'[j].state = "RUNNING"
    <3>1. CASE HandlerClaims(j)
        BY <1>0, <3>1, ClaimEffect DEF HandlerClaims
    <3>2. CASE Renew(j)
        BY <1>0, <2>1, <3>2, RenewEffect DEF Renew
    <3> QED
        BY <1>5, <3>1, <3>2
  <2> QED
      BY <1>1, <1>5, <2>2 DEF HandlerClaims, Renew, login
<1>6. ASSUME \/ OpenWindow(j) \/ OpenFails(j) \/ Forward(j) \/ WindowEnds(j)
             \/ MonitorRaises(j) \/ CloseWindow(j) \/ Decline(j)
      PROVE  UNCHANGED <<jobs, preps>>
    BY <1>6 DEF OpenWindow, OpenFails, Forward, WindowEnds, MonitorRaises, CloseWindow,
       Decline, svars
<1> QED
    BY <1>1, <1>2, <1>3, <1>4, <1>5, <1>6 DEF HandlerStep

\* The supervisor's clean-up writes the phase first, then decides as it wrote.
LEMMA SettlesPhases ==
    ASSUME LoginInv, \A k \in Job : PhaseAt(k), Reading, LoginSettles
    PROVE  \A k \in Job : PhaseAt(k)'
<1> DEFINE j == reaping.job
<1>0. /\ TypeOK /\ j \in Job /\ j \in Owner /\ Submitted(j) /\ jobs[j].state = "RUNNING"
      /\ reaping.owner \in Owner
    BY Preparations
    DEF LoginInv, SupInv, RowInv, SupervisorTypeOK, Exit, LoginSettles, ReadersInv, Reading
<1>1. CASE SettleAttempt /\ Reconciled(j, reaping.cancel)
  <2>1. CASE reaping.cancel
    <3>1. Leaves(j, "CANCELLED") /\ Phased(j, "CANCELLED")
        BY <1>0, <1>1, <2>1, CancellationEffect DEF SettleAttempt, Reconciled
    <3> QED
        BY <1>0, <3>1, PhaseWritten DEF Phase, Told, Leaves
  <2>2. CASE ~reaping.cancel
    <3>1. Leaves(j, "FAILED") /\ Phased(j, "FAILED")
        BY <1>0, <1>1, <2>2, FatalEffect DEF SettleAttempt, Reconciled
    <3> QED
        BY <1>0, <3>1, PhaseWritten DEF Phase, Told, Leaves
  <2> QED
      BY <2>1, <2>2
<1>2. CASE UNCHANGED jobs
  <2>1. UNCHANGED preps \/ \E phase \in Phase : Phased(j, phase)
      BY DEF LoginSettles, Reconciled, Unreconciled, Phase
  <2>2. ASSUME UNCHANGED preps PROVE \A k \in Job : PhaseAt(k)'
      BY <1>2, <2>2, PhasesUntouched DEF Submitted
  <2>3. Only(j) /\ jobs'[j].state \notin Terminal
      BY <1>0, <1>2 DEF Only, Terminal
  <2> QED
      BY <1>0, <2>1, <2>2, <2>3, PhaseWritten
<1> QED
    BY <1>1, <1>2 DEF LoginSettles, SettleExpired, ConfirmExited, ReadRecovery,
       SettleAbandoned, vars

LEMMA ScanPhases ==
    ASSUME LoginInv, \A k \in Job : PhaseAt(k), Unpublished, NEW j \in Job, LoginScan(j)
    PROVE  \A k \in Job : PhaseAt(k)'
<1>1. /\ Submitted(j) /\ jobs[j].state = "RUNNING" /\ UNCHANGED jobs
  <2>1. ~ReconcileResult(j)
      BY DEF Unpublished, ReconcileResult, Reconcilable
  <2> QED
      BY <2>1 DEF LoginScan, ScanRecovery, ConfirmExited, ReadRecovery, svars
<1>2. \E phase \in Phase : Phased(j, phase)
    BY DEF LoginScan, Reconciled, Unreconciled, Phase
<1> QED
    BY <1>1, <1>2, PhaseWritten DEF Only, Terminal

LEMMA OutsidePhases ==
    ASSUME LoginInv, PhasesInv, OutsideStep
    PROVE  \A k \in Job : PhaseAt(k)'
<1>0. LoginTypes /\ TypeOK /\ \A k \in Job : PhaseAt(k)
    BY TypesSplit DEF LoginInv, PhasesInv, SupInv, RowInv
<1>1. ASSUME UNCHANGED jobs,
             \A k \in Job : Submitted(k) =>
                Submitted(k)' /\ preps'[k].phase = preps[k].phase
      PROVE  \A k \in Job : PhaseAt(k)'
    BY <1>0, <1>1, PhasesUntouched
<1>2. ASSUME UNCHANGED <<jobs, preps>> PROVE \A k \in Job : PhaseAt(k)'
    BY <1>1, <1>2 DEF Submitted
<1>3. ASSUME NEW j \in Job, Submit(j) PROVE \A k \in Job : PhaseAt(k)'
    BY <1>0, <1>1, <1>3, SubmitTypes DEF Submit, svars, LoginTypes
<1>4. ASSUME NEW j \in Job, Confirm(j) PROVE \A k \in Job : PhaseAt(k)'
  <2>1. UNCHANGED jobs /\ preps' = [preps EXCEPT ![j].save = TRUE]
      BY <1>4 DEF Confirm, svars
  <2>2. ASSUME NEW k \in Job, Submitted(k)
        PROVE  Submitted(k)' /\ preps'[k].phase = preps[k].phase
    <3>1. Submitted(k)'
        BY <1>4, <2>2, ConfirmOutside DEF Outside
    <3> QED
        BY <1>0, <2>1, <2>2, <3>1 DEF LoginTypes, Submitted, Prep
  <2> QED
      BY <1>1, <2>1, <2>2
<1>5. ASSUME NEW j \in Job, CancelLogin(j) PROVE \A k \in Job : PhaseAt(k)'
  <2>1. /\ RequestCancellation(j) /\ Submitted(j)
        /\ IF jobs'[j].state = "CANCELLED" THEN Ends(j, "CANCELLED") ELSE UNCHANGED preps
      BY <1>5 DEF CancelLogin, Cancel
  <2>2. Only(j) /\ (jobs'[j].state = "CANCELLED"
                    \/ (jobs[j].state = "RUNNING" /\ jobs'[j].state = "RUNNING"))
      BY <1>0, <2>1, RequestEffect
  <2>3. CASE jobs'[j].state = "CANCELLED"
      BY <1>0, <2>1, <2>2, <2>3, PhaseWritten DEF Phase, Told
  <2>4. CASE jobs'[j].state = "RUNNING"
      BY <1>0, <2>1, <2>2, <2>4, PhasesUntouched DEF Only, Submitted
  <2> QED
      BY <2>2, <2>3, <2>4
<1>6. ASSUME LoginDecision PROVE \A k \in Job : PhaseAt(k)'
  <2> SUFFICES ASSUME NEW k \in Job PROVE PhaseAt(k)'
      OBVIOUS
  <2>1. /\ preps'[k] = IF jobs'[k].state # jobs[k].state THEN Ended(jobs'[k].state)
                       ELSE preps[k]
        /\ jobs'[k].state # jobs[k].state => jobs'[k].state \in {"FAILED", "CANCELLED"}
      BY <1>6, DecisionAside DEF LoginDecision
  <2>2. CASE jobs'[k].state = jobs[k].state
      BY <1>0, <2>1, <2>2, PhasesUntouched DEF Submitted
  <2>3. CASE jobs'[k].state # jobs[k].state
    <3>1. Ended(jobs'[k].state) \in Prep /\ preps'[k].phase = jobs'[k].state
        BY <2>1, <2>3 DEF Ended, Prep, Phase
    <3>2. Submitted(k)'
        BY <2>1, <2>3, <3>1, NoneAssumption DEF NoneAssumption, Submitted
    <3> QED
        BY <2>1, <2>3, <3>1, <3>2 DEF PhaseAt, Told
  <2> QED
      BY <2>2, <2>3
<1>7. ASSUME ChangeAccount PROVE \A k \in Job : PhaseAt(k)'
  <2>1. UNCHANGED jobs /\ (UNCHANGED preps \/ Outdated)
      BY <1>7 DEF ChangeAccount, svars
  <2>2. ASSUME Outdated, NEW k \in Job, Submitted(k)
        PROVE  Submitted(k)' /\ preps'[k].phase = preps[k].phase
    <3>1. Submitted(k)' /\ preps[k] \in Prep
        BY <1>0, <2>2, OutdatedTypes DEF LoginTypes, Submitted
    <3> QED
        BY <2>2, <3>1 DEF Outdated, Prep
  <2> QED
      BY <1>1, <1>2, <2>1, <2>2
<1>8. ASSUME FinishRetry PROVE \A k \in Job : PhaseAt(k)'
  <2>1. PICK j \in Job : j = retrier.job
      BY <1>0, <1>8 DEF FinishRetry, LoginTypes
  <2>2. jobs[j].state \in Terminal /\ UNCHANGED jobs
      BY <1>8, <2>1 DEF LoginInv, ReadersInv, FinishRetry, svars
  <2>3. \E phase \in {"CLEANUP_REQUIRED"} \cup Told(jobs[j].state) : phase \in Phase /\ Ends(j, phase)
      BY <1>8, <2>1, <2>2 DEF FinishRetry, Terminal, Told, Phase
  <2> QED
      BY <1>0, <2>2, <2>3, PhaseWritten DEF Only
<1>9. ASSUME NEW j \in Job,
             \/ LoginWorkerLives(j) \/ \E s \in Slots : LoginWorkerStarts(s, j)
             \/ LoginWorkerDies(j) \/ LoginTreeEnds(j) \/ RetryCleanup(j)
      PROVE  UNCHANGED <<jobs, preps>>
    BY <1>9 DEF LoginWorkerLives, AcquireLock, WorkerLeaves, LoginWorkerStarts, StartWorker,
       StartFails, ReadWaitingFailure, LoginWorkerDies, Terminate, WorkerDies,
       LoginTreeEnds, TreeExits, Reap, RetryCleanup, login, svars, vars
<1>10. ASSUME LoginService PROVE UNCHANGED <<jobs, preps>>
    BY <1>10 DEF LoginService, BeginStop, Stopped, Restart, Crash, Outage, vars
<1>11. ASSUME (Tick /\ UNCHANGED login) \/ UNCHANGED lvars PROVE UNCHANGED <<jobs, preps>>
    BY <1>11 DEF Tick, login, lvars
<1> QED
    BY <1>0, <1>2, <1>3, <1>4, <1>5, <1>6, <1>7, <1>8, <1>9, <1>10, <1>11, SettlesPhases,
       ScanPhases DEF OutsideStep, PhasesInv

\* However job and preparation are written apart, by the Worker, by the
\* supervisor after a crash or by the user's clean-up, the phase of a login that
\* is over names the end of its job or asks for a clean-up.
THEOREM PhasesTellTheEnd == LoginSpec => []PhaseTells
<1>1. LoginInit => PhasesInv
  <2> SUFFICES ASSUME LoginInit PROVE PhasesInv
      OBVIOUS
  <2>1. \A k \in Job : jobs[k].state = "PENDING" /\ published[k] = None
      BY DEF LoginInit, SupervisorInit, Init, NewRow
  <2> QED
      BY <2>1 DEF LoginInit, SupervisorInit, PhasesInv, PhaseAt, Reading, Unpublished, Terminal
<1>2. LoginInv /\ PhasesInv /\ [LoginNext]_lvars => PhasesInv'
  <2> SUFFICES ASSUME LoginInv, PhasesInv, [LoginNext]_lvars PROVE PhasesInv'
      OBVIOUS
  <2>1. Unpublished'
      BY NothingPublished DEF PhasesInv, Unpublished
  <2>2. ASSUME NEW j \in Job, WindowStep(j)
        PROVE  Reading' /\ \A k \in Job : PhaseAt(k)'
      BY <2>2, WindowSteps DEF PhasesInv, PhaseAt, Reading, Submitted, svars
  <2>3. ASSUME NEW j \in Job, HandlerStep(j)
        PROVE  Reading' /\ \A k \in Job : PhaseAt(k)'
      BY <2>3, HandlerReading, HandlerPhases DEF PhasesInv
  <2>4. ASSUME OutsideStep
        PROVE  Reading' /\ \A k \in Job : PhaseAt(k)'
      BY <2>4, OutsideReading, OutsidePhases DEF PhasesInv
  <2> QED
      BY <2>1, <2>2, <2>3, <2>4 DEF PhasesInv, LoginNext, OutsideStep
<1>3. PhasesInv => PhaseTells
    BY DEF PhasesInv, PhaseAt, Told, PhaseTells
<1> QED
    BY <1>1, <1>2, <1>3, InitLogin, LoginStep, PTL DEF LoginSpec
=============================================================================
