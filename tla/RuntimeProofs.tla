---------------------------- MODULE RuntimeProofs ----------------------------
(***************************************************************************)
(* Proofs about RuntimeSupervisor, for any number of projects, loads,      *)
(* launches and sessions: of a project one program at most executes, a     *)
(* stop or an archive is not overtaken by a launch, no start is replayed   *)
(* in a later session, and supervisor, Workers and user together implement *)
(* JobControl.                                                             *)
(*                                                                         *)
(* Every step is split twice: by what it does to the job table             *)
(* (Continues, or the claim of a Worker under its lock) and by what it     *)
(* does to the process trees (Advances, Ends, Reap, Launch, Crash).        *)
(***************************************************************************)
EXTENDS RuntimeSupervisor, JobControlProofs

-----------------------------------------------------------------------------
(* The invariant.                                                          *)

OwnTypes ==
    /\ service \in {"up", "stopping", "down"}
    /\ session \in 1..MaxSessions
    /\ bornIn \in [Job -> 0..MaxSessions]
    /\ latest \in [Project -> Job \cup {None}]
    /\ archived \subseteq Project
    /\ worker \in [Owner -> Tree]
    /\ runs \in [Owner -> Job \cup {None}]
    /\ receipt \in [Job -> Owner \cup {None}]
    /\ managed \in [Project -> Owner \cup {None}]
    /\ exited \subseteq Owner
    /\ picked \in Turn \cup {None}
    /\ user \in Request \cup {None}
    /\ lost \in 0..MaxLost

\* A launch is made for a load that was submitted.
LaunchOK ==
    \A w \in Owner :
        /\ worker[w] = "unborn" <=> runs[w] = None
        /\ runs[w] # None => Submitted(runs[w])

\* What a Worker knows of a claim lives in the process that holds the lock.
ClaimOK ==
    \A w \in Owner : claim[w] # None => worker[w] = "locked" /\ claim[w].job = runs[w]

\* The table of Workers names every process that lives, under its project.
ManagedOK ==
    /\ \A p \in Project : managed[p] # None => Belongs(managed[p], p)
    /\ \A w \in Owner : Alive(w) => managed[ProjectOf[runs[w]]] = w

\* What lives was asked for in this session, and the service is there.
SessionOK ==
    /\ \A w \in Owner : Alive(w) => bornIn[runs[w]] = session /\ service # "down"
    /\ service # "up" => session < MaxSessions

\* What a turn is about to launch.
TurnOK ==
    picked # None =>
        /\ service # "down"
        /\ Submitted(picked.job) /\ bornIn[picked.job] = session
        /\ picked.at = "cleared" => managed[ProjectOf[picked.job]] = None

\* Decisions are made about launches whose trees are gone.
DeadOK ==
    /\ \A w \in exited : worker[w] = "gone"
    /\ recovering # None => recovering.owner \in Owner /\ worker[recovering.owner] = "gone"

\* Nothing of the project executes, and nothing is left to execute.
Empty(p) == Quiet(p) /\ \A w \in Owner : Belongs(w, p) => ~Executes(w)

\* What the request that holds the write lock has seen and done.
UserOK ==
    user # None =>
        /\ Quiet(user.project)
        /\ user.ended # None => Belongs(user.ended, user.project)
        /\ user.at = "stopped" => Empty(user.project)

ArchiveOK == \A p \in archived : Empty(p)

RtInv ==
    /\ RowInv /\ OwnTypes
    /\ LaunchOK /\ ClaimOK /\ ManagedOK /\ SessionOK
    /\ TurnOK /\ DeadOK /\ UserOK /\ ArchiveOK

\* A load that executes belongs to a launch.
LEMMA LiveLaunches ==
    ASSUME OwnTypes, LaunchOK, NEW w \in Owner, worker[w] # "unborn"
    PROVE  runs[w] \in Job /\ runs[w] # None /\ Submitted(runs[w])
           /\ ProjectOf[runs[w]] \in Project
BY RuntimeAssumption DEF OwnTypes, LaunchOK, RuntimeAssumption

-----------------------------------------------------------------------------
(* What a step does to the job table.                                      *)

\* Everything but a claim.
Continues ==
    \/ Tick \/ Outage(Owner) \/ UNCHANGED vars
    \/ RecordWaitingFailure \/ DropWaitingFailure \/ ConfirmRecovery \/ DropRecovery
    \/ \E w \in Owner : LeaveAttempt(w)
    \/ \E w \in Owner, j \in Job :
        \/ RenewLease(w, j) \/ CompleteResult(w, j) \/ CompleteCancellation(w, j)
        \/ RecordFatalFailure(w, j) \/ CloseAttempt(w, j)
    \/ \E j \in Job : RequestCancellation(j) \/ ReadWaitingFailure(j) \/ ReadRecovery(j)

\* The claim of a Worker under its lock.
Claims(w) ==
    /\ worker[w] = "locked" /\ WriteFree
    /\ ClaimJob(w, runs[w])
    /\ UNCHANGED own

LEMMA ContinuesIsStep == Continues => [Next]_vars
BY DEF Continues, Next, WorkerStep, ControlStep

\* No job begins, and what a Worker knows it knew before.
LEMMA ContinuesEffect ==
    ASSUME TypeOK, Continues
    PROVE  /\ \A j \in Job : jobs'[j].state = "RUNNING" => jobs[j].state = "RUNNING"
           /\ \A w \in Owner : claim'[w] = claim[w] \/ claim'[w] = None
<1> DEFINE Goal == /\ \A j \in Job : jobs'[j].state = "RUNNING" => jobs[j].state = "RUNNING"
                   /\ \A w \in Owner : claim'[w] = claim[w] \/ claim'[w] = None
<1>1. CASE \/ Tick \/ Outage(Owner) \/ UNCHANGED vars
           \/ DropWaitingFailure \/ DropRecovery
           \/ \E w \in Owner : LeaveAttempt(w)
           \/ \E j \in Job : ReadWaitingFailure(j) \/ ReadRecovery(j)
    BY <1>1 DEF Tick, Outage, vars, DropWaitingFailure, DropRecovery, LeaveAttempt,
                ReadWaitingFailure, ReadRecovery, TypeOK
<1>2. CASE RecordWaitingFailure
  <2>1. UNCHANGED claim
      BY <1>2 DEF RecordWaitingFailure
  <2> QED
      BY <1>2, <2>1, WaitingFailureEffect DEF Only
<1>3. CASE ConfirmRecovery
  <2>1. UNCHANGED claim /\ jobs[recovering.job].state = "RUNNING"
      BY <1>3 DEF ConfirmRecovery, StillExpired, HeldBy
  <2> QED
      BY <1>3, <2>1, RecoveryEffect DEF Leaves, Only
<1>4. ASSUME NEW w \in Owner, NEW j \in Job, RenewLease(w, j) PROVE Goal
  <2>1. UNCHANGED claim
      BY <1>4 DEF RenewLease
  <2> QED
      BY <1>4, <2>1, RenewEffect DEF Only
<1>5. ASSUME NEW w \in Owner, NEW j \in Job,
             CompleteResult(w, j) \/ CompleteCancellation(w, j)
                \/ RecordFatalFailure(w, j) \/ CloseAttempt(w, j)
      PROVE  Goal
  <2>1. Leaves(j, "SUCCEEDED") \/ Leaves(j, "CANCELLED") \/ Leaves(j, "FAILED")
    <3>1. ASSUME CompleteCancellation(w, j)
          PROVE  Leaves(j, "CANCELLED")
        BY <3>1, CancellationEffect DEF CompleteCancellation
    <3>2. ASSUME RecordFatalFailure(w, j)
          PROVE  Leaves(j, "FAILED")
        BY <3>2, FatalEffect DEF RecordFatalFailure
    <3>3. ASSUME CloseAttempt(w, j)
          PROVE  Leaves(j, "CANCELLED") \/ Leaves(j, "FAILED")
        BY <3>3, CancellationEffect, FatalEffect DEF CloseAttempt
    <3> QED
        BY <1>5, <3>1, <3>2, <3>3, ResultEffect
  <2>2. claim' = [claim EXCEPT ![w] = None] \/ claim' = claim
      BY <1>5 DEF CompleteResult, CompleteCancellation, RecordFatalFailure, CloseAttempt
  <2> QED
      BY <2>1, <2>2 DEF Leaves, Only, TypeOK
<1>6. ASSUME NEW j \in Job, RequestCancellation(j) PROVE Goal
  <2>1. UNCHANGED claim
      BY <1>6 DEF RequestCancellation
  <2> QED
      BY <1>6, <2>1, RequestEffect DEF Only
<1> QED
    BY <1>1, <1>2, <1>3, <1>4, <1>5, <1>6 DEF Continues

LEMMA ForgetsContinues ==
    ASSUME RowInv, NEW w \in Owner, Forgets(w),
           UNCHANGED <<now, jobs, target, trail, recovering, failing, published>>
    PROVE  Continues
<1>1. CASE claim[w] # None
    BY <1>1 DEF Forgets, LeaveAttempt, Continues
<1>2. CASE claim[w] = None
  <2>1. retrying[w] = None
      BY <1>2 DEF RowInv, PlansWithinBudget
  <2>2. claim \in [Owner -> Claim \cup {None}] /\ retrying \in [Owner -> Retry \cup {None}]
      BY DEF RowInv, TypeOK
  <2>3. claim' = claim /\ retrying' = retrying
      BY <1>2, <2>1, <2>2 DEF Forgets
  <2> QED
      BY <2>3 DEF vars, Continues
<1> QED
    BY <1>1, <1>2

LEMMA UserTable ==
    ASSUME RtInv, \/ \E p \in Project : Submit(p) \/ UserLocks(p)
                  \/ \E j \in Job : CancelLoad(j)
                  \/ UserProceeds
    PROVE  Continues
<1>1. CASE UserStops
  <2>1. PICK w : w = managed[user.project]
      OBVIOUS
  <2>2. user \in Request
      BY <1>1 DEF UserStops, RtInv, OwnTypes
  <2>3. w \in Owner \cup {None}
      BY <2>1, <2>2 DEF RtInv, OwnTypes, Request
  <2>4. UNCHANGED <<now, jobs, target, trail, recovering, failing, published>>
      BY <1>1 DEF UserStops
  <2>5. \/ UNCHANGED <<claim, retrying>>
        \/ w \in Owner /\ Forgets(w)
      BY <1>1, <2>1, <2>3 DEF UserStops, Kills
  <2> QED
      BY <2>4, <2>5, ForgetsContinues DEF RtInv, Continues, vars
<1>2. CASE UserRefused \/ UserEnds
    BY <1>2 DEF UserRefused, UserEnds, Continues
<1>3. ASSUME NEW p \in Project, Submit(p) \/ UserLocks(p) PROVE Continues
    BY <1>3 DEF Submit, UserLocks, Continues
<1>4. ASSUME NEW j \in Job, CancelLoad(j) PROVE Continues
    BY <1>4 DEF CancelLoad, Continues
<1> QED
    BY <1>1, <1>2, <1>3, <1>4 DEF UserProceeds

LEMMA WorkerTable ==
    ASSUME RtInv, NEW w \in Owner, WorkerProceeds(w) \/ WorkerDies(w) \/ TreeExits(w)
    PROVE  Continues \/ Claims(w)
<1>1. CASE WorkerHolds(w)
  <2>1. runs[w] \in Job
      BY <1>1, LiveLaunches DEF WorkerHolds, RtInv
  <2> QED
      BY <1>1, <2>1 DEF WorkerHolds, Claims, Continues
<1>2. CASE Publish(w)
  <2>1. runs[w] \in Job
      BY <1>2, LiveLaunches DEF Publish, RtInv
  <2> QED
      BY <1>2, <2>1 DEF Publish, Continues
<1>3. CASE WorkerFails(w)
  <2>1. runs[w] \in Job
      BY <1>3, LiveLaunches DEF WorkerFails, RtInv
  <2> QED
      BY <1>3, <2>1 DEF WorkerFails, Continues
<1>4. CASE WorkerDies(w)
    BY <1>4, ForgetsContinues DEF WorkerDies, RtInv
<1>5. CASE AcquireLock(w) \/ TreeExits(w)
    BY <1>5 DEF AcquireLock, TreeExits, Continues
<1> QED
    BY <1>1, <1>2, <1>3, <1>4, <1>5 DEF WorkerProceeds

LEMMA TurnTable ==
    ASSUME RtInv, TurnStep
    PROVE  Continues
<1>1. ASSUME NEW w \in Owner, FinishExited(w) PROVE Continues
  <2>1. worker[w] = "gone"
      BY <1>1 DEF FinishExited, RtInv, DeadOK
  <2>2. runs[w] \in Job /\ claim[w] = None
      BY <2>1, LiveLaunches DEF RtInv, ClaimOK
  <2>3. PICK j \in Job : j = runs[w]
      BY <2>2
  <2>4. CASE ReadWaitingFailure(j)
      BY <2>4 DEF Continues
  <2>5. CASE \E at \in Recent : EndFailed(w, j, jobs[j].fence, at) /\ UNCHANGED claim
    <3>1. CloseAttempt(w, j)
        BY <2>2, <2>5 DEF CloseAttempt
    <3> QED
        BY <3>1 DEF Continues
  <2>6. CASE UNCHANGED vars
      BY <2>6 DEF Continues
  <2> QED
      BY <1>1, <2>3, <2>4, <2>5, <2>6 DEF FinishExited
<1>2. CASE FinishDecision
    BY <1>2 DEF FinishDecision, Continues
<1>3. ASSUME NEW j \in Job, Recover(j) \/ Pick(j) PROVE Continues
    BY <1>3 DEF Recover, Pick, Rejects, Continues
<1>4. CASE ClearOld
  <2>1. PICK w : w = managed[ProjectOf[picked.job]]
      OBVIOUS
  <2>2. picked \in Turn
      BY <1>4 DEF ClearOld, RtInv, OwnTypes
  <2>3. w \in Owner \cup {None}
      BY <2>1, <2>2, RuntimeAssumption DEF RtInv, OwnTypes, Turn, RuntimeAssumption
  <2>4. UNCHANGED <<now, jobs, target, trail, recovering, failing, published>>
      BY <1>4 DEF ClearOld
  <2>5. \/ UNCHANGED <<claim, retrying>>
        \/ w \in Owner /\ Forgets(w)
      BY <1>4, <2>1, <2>3 DEF ClearOld, Kills
  <2> QED
      BY <2>4, <2>5, ForgetsContinues DEF RtInv, Continues, vars
<1>5. CASE LaunchRefused \/ Launch
  <2>1. picked \in Turn
      BY <1>5 DEF LaunchRefused, Launch, RtInv, OwnTypes
  <2>2. PICK j \in Job : j = picked.job
      BY <2>1 DEF Turn
  <2>3. ReadWaitingFailure(j) \/ UNCHANGED vars
      BY <1>5, <2>2 DEF LaunchRefused, Launch, FailsWaiting
  <2> QED
      BY <2>3 DEF Continues
<1>6. CASE Reap \/ TurnLost \/ TurnStops
    BY <1>6 DEF Reap, TurnLost, TurnStops, Continues
<1> QED
    BY <1>1, <1>2, <1>3, <1>4, <1>5, <1>6 DEF TurnStep

LEMMA ServiceTable ==
    ASSUME RtInv, BeginStop \/ Stopped \/ Crash \/ Restart \/ \E p \in Project : StopProject(p)
    PROVE  Continues
<1>1. ASSUME NEW p \in Project, StopProject(p) PROVE Continues
  <2>1. managed[p] \in Owner
      BY <1>1 DEF StopProject, RtInv, OwnTypes
  <2> QED
      BY <1>1, <2>1, ForgetsContinues DEF StopProject, Kills, RtInv
<1> QED
    BY <1>1 DEF BeginStop, Stopped, Crash, Restart, Continues

\* A step of the system begins no job but by the claim of a Worker that holds
\* the lock file.
LEMMA StepTable ==
    ASSUME RtInv, [RuntimeNext]_rvars
    PROVE  Continues \/ \E w \in Owner : Claims(w)
<1>1. ASSUME UNCHANGED rvars \/ (Tick /\ UNCHANGED own) PROVE Continues
    BY <1>1 DEF rvars, vars, Continues
<1> QED
    BY <1>1, UserTable, WorkerTable, TurnTable, ServiceTable DEF RuntimeNext

LEMMA StepSimulation ==
    ASSUME RtInv, [RuntimeNext]_rvars
    PROVE  [Next]_vars
<1>1. ASSUME NEW w \in Owner, Claims(w) PROVE [Next]_vars
  <2>1. runs[w] \in Job
      BY <1>1, LiveLaunches DEF Claims, RtInv
  <2> QED
      BY <1>1, <2>1 DEF Claims, Next, WorkerStep
<1> QED
    BY <1>1, StepTable, ContinuesIsStep

-----------------------------------------------------------------------------
(* What a step does to the process trees.                                  *)

\* One launch goes on; whoever lets go of the lock forgets its claim.
Advances(w) ==
    /\ worker[w] \in {"starting", "locked", "serving", "left"}
    /\ \E s \in {"locked", "serving", "left", "gone"} :
        /\ worker' = [worker EXCEPT ![w] = s]
        /\ s \in {"locked", "serving"} => Alive(w)
        /\ s = "locked" => worker[w] = "starting"
        /\ s # "locked" => claim'[w] = None
        /\ s = "serving" => claim[w] # None
    /\ UNCHANGED <<service, session, bornIn, archived, runs, managed, exited, picked, user>>

\* The launch of a project is ended and dropped.
Ends(p) ==
    /\ managed[p] # None
    /\ Kills(managed[p])
    /\ managed' = [managed EXCEPT ![p] = None]
    /\ exited' = exited \/ exited' = {managed[p]}
    /\ UNCHANGED <<service, session, bornIn, archived, runs>>

\* No process and no entry of the table changes.
Calm == UNCHANGED <<worker, runs, managed>>

LEMMA WorkerTrees ==
    ASSUME RtInv, NEW w \in Owner, WorkerProceeds(w) \/ WorkerDies(w) \/ TreeExits(w)
    PROVE  Advances(w) \/ (Calm /\ UNCHANGED own)
<1>0. claim \in [Owner -> Claim \cup {None}]
      /\ (claim[w] # None => worker[w] = "locked")
    BY DEF RtInv, RowInv, TypeOK, ClaimOK
<1>1. CASE AcquireLock(w)
    BY <1>0, <1>1 DEF AcquireLock, Becomes, Advances, Alive, vars
<1>2. CASE WorkerHolds(w)
    BY <1>2 DEF WorkerHolds, own, Calm
<1>3. CASE Publish(w)
    BY <1>0, <1>3 DEF Publish, CompleteResult, Becomes, Advances, Alive
<1>4. CASE WorkerFails(w)
    BY <1>0, <1>4 DEF WorkerFails, CompleteCancellation, RecordFatalFailure, LeaveAttempt,
                      Becomes, Advances, vars
<1>5. CASE WorkerDies(w)
    BY <1>0, <1>5 DEF WorkerDies, Forgets, Becomes, Advances, Alive
<1>6. CASE TreeExits(w)
    BY <1>0, <1>6 DEF TreeExits, Becomes, Advances, vars
<1> QED
    BY <1>1, <1>2, <1>3, <1>4, <1>5, <1>6 DEF WorkerProceeds

LEMMA StepTrees ==
    ASSUME RtInv, [RuntimeNext]_rvars
    PROVE  \/ Calm
           \/ \E w \in Owner : Advances(w)
           \/ \E p \in Project : Ends(p)
           \/ Reap \/ Launch \/ Crash
<1>1. ASSUME \/ UNCHANGED rvars \/ (Tick /\ UNCHANGED own)
             \/ UserRefused \/ UserEnds
             \/ \E p \in Project : Submit(p) \/ UserLocks(p)
             \/ \E j \in Job : CancelLoad(j) \/ Recover(j) \/ Pick(j)
             \/ \E w \in Owner : FinishExited(w)
             \/ TurnLost \/ FinishDecision \/ LaunchRefused \/ TurnStops
             \/ BeginStop \/ Stopped \/ Restart
      PROVE  Calm
    BY <1>1 DEF rvars, own, Calm, UserRefused, UserEnds, Submit, UserLocks, CancelLoad,
                Recover, Pick, FinishExited, TurnLost, FinishDecision, LaunchRefused,
                TurnStops, BeginStop, Stopped, Restart
<1>2. CASE UserStops
  <2>1. user.project \in Project
      BY <1>2 DEF UserStops, RtInv, OwnTypes, Request
  <2>2. CASE managed[user.project] = None
      BY <1>2, <2>2 DEF UserStops, Calm
  <2>3. CASE managed[user.project] # None
      BY <1>2, <2>1, <2>3 DEF UserStops, Ends
  <2> QED
      BY <2>2, <2>3
<1>3. CASE ClearOld
  <2>1. ProjectOf[picked.job] \in Project
      BY <1>3, RuntimeAssumption DEF ClearOld, RtInv, OwnTypes, Turn, RuntimeAssumption
  <2>2. CASE managed[ProjectOf[picked.job]] = None
      BY <1>3, <2>2 DEF ClearOld, Calm
  <2>3. CASE managed[ProjectOf[picked.job]] # None
      BY <1>3, <2>1, <2>3 DEF ClearOld, Ends
  <2> QED
      BY <2>2, <2>3
<1>4. ASSUME NEW p \in Project, StopProject(p) PROVE Ends(p)
    BY <1>4 DEF StopProject, Ends
<1> QED
    BY <1>1, <1>2, <1>3, <1>4, WorkerTrees DEF RuntimeNext, TurnStep, UserProceeds

\* What is gone stays gone, and a launch keeps its load.
LEMMA LaunchesStay ==
    ASSUME RtInv, [RuntimeNext]_rvars
    PROVE  /\ \A w \in Owner : worker[w] = "gone" => worker'[w] = "gone"
           /\ \A w \in Owner : runs[w] # None => runs'[w] = runs[w]
<1>0. /\ worker \in [Owner -> Tree] /\ runs \in [Owner -> Job \cup {None}]
      /\ managed \in [Project -> Owner \cup {None}]
      /\ \A w \in Owner : worker[w] = "unborn" <=> runs[w] = None
    BY DEF RtInv, OwnTypes, LaunchOK
<1>1. CASE Calm
    BY <1>1 DEF Calm
<1>2. ASSUME NEW w \in Owner, Advances(w)
      PROVE  UNCHANGED runs /\ \A v \in Owner : worker[v] = "gone" => worker'[v] = "gone"
    BY <1>0, <1>2 DEF Advances
<1>3. ASSUME NEW p \in Project, Ends(p)
      PROVE  UNCHANGED runs /\ \A v \in Owner : worker[v] = "gone" => worker'[v] = "gone"
    BY <1>0, <1>3 DEF Ends, Kills
<1>4. CASE Reap
    BY <1>0, <1>4 DEF Reap
<1>5. CASE Launch
  <2>1. PICK w \in Owner : w = NextOwner /\ worker[w] = "unborn"
      BY <1>5 DEF Launch, NextOwner
  <2>2. /\ runs' = [runs EXCEPT ![w] = picked.job]
        /\ \E s \in Tree : worker' = [worker EXCEPT ![w] = s]
      BY <1>5, <2>1 DEF Launch, Becomes, Tree
  <2> QED
      BY <1>0, <2>1, <2>2
<1>6. CASE Crash
    BY <1>0, <1>6 DEF Crash
<1> QED
    BY <1>1, <1>2, <1>3, <1>4, <1>5, <1>6, StepTrees

\* Only a submission changes what was submitted.
LEMMA SubmitOrNot ==
    ASSUME [RuntimeNext]_rvars
    PROVE  UNCHANGED bornIn \/ \E p \in Project : Submit(p)
BY DEF RuntimeNext, TurnStep, UserProceeds, WorkerProceeds, rvars, own, UserStops,
       UserRefused, UserEnds, UserLocks, CancelLoad, Recover, Pick, FinishExited, TurnLost,
       FinishDecision, LaunchRefused, TurnStops, BeginStop, Stopped, Restart, Reap,
       ClearOld, Launch, Crash, StopProject, AcquireLock, WorkerHolds, Publish,
       WorkerFails, WorkerDies, TreeExits

\* A load that was submitted keeps its session.
LEMMA SubmissionsStay ==
    ASSUME RtInv, [RuntimeNext]_rvars, NEW j \in Job, Submitted(j)
    PROVE  bornIn'[j] = bornIn[j]
<1>0. bornIn \in [Job -> 0..MaxSessions]
    BY DEF RtInv, OwnTypes
<1>1. ASSUME NEW p \in Project, Submit(p) PROVE bornIn'[j] = bornIn[j]
  <2>1. PICK k \in Job : ~Submitted(k) /\ bornIn' = [bornIn EXCEPT ![k] = session]
      BY <1>1 DEF Submit
  <2> QED
      BY <1>0, <2>1
<1> QED
    BY <1>1, SubmitOrNot

\* A job that is over stays over.
LEMMA TerminalStays ==
    ASSUME TypeOK, [Next]_vars, NEW k \in Job, jobs[k].state \in Terminal
    PROVE  jobs'[k] = jobs[k]
<1>1. CASE Rests
    BY <1>1 DEF Rests
<1>2. ASSUME NEW j \in Job, Moves(j) PROVE jobs'[k] = jobs[k]
  <2>1. j # k
      BY <1>2 DEF Moves, Stays, Begins, PutsBack, Succeeds, Stops, Waiting, Terminal
  <2> QED
      BY <1>2, <2>1 DEF Moves, Touches, Only
<1> QED
    BY <1>1, <1>2, StepMoves

\* While a request holds the write lock, or once it is archived, a project
\* that is quiet stays quiet.
LEMMA QuietStays ==
    ASSUME RtInv, [RuntimeNext]_rvars, NEW p \in Project, Quiet(p),
           user # None \/ p \in archived
    PROVE  Quiet(p)'
<1>1. ASSUME NEW j \in Job, ProjectOf[j] = p, Submitted(j)
      PROVE  jobs'[j].state \in Terminal
  <2>1. jobs[j].state \in Terminal
      BY <1>1 DEF Quiet, Active
  <2> QED
      BY <2>1, TerminalStays, StepSimulation DEF RtInv, RowInv
<1>2. ASSUME NEW j \in Job, ProjectOf[j] = p, Submitted(j)'
      PROVE  Submitted(j)
  <2>1. CASE UNCHANGED bornIn
      BY <1>2, <2>1 DEF Submitted
  <2>2. ASSUME NEW q \in Project, Submit(q) PROVE Submitted(j)
    <3>1. q # p
        BY <2>2 DEF Submit, WriteFree, Admits
    <3>2. PICK k \in Job : ProjectOf[k] = q /\ bornIn' = [bornIn EXCEPT ![k] = session]
        BY <2>2 DEF Submit
    <3> QED
        BY <1>2, <3>1, <3>2 DEF Submitted, RtInv, OwnTypes
  <2> QED
      BY <2>1, <2>2, SubmitOrNot
<1> QED
    BY <1>1, <1>2 DEF Quiet, Active

\* ... and if nothing of it executes, nothing will.
LEMMA EmptyStays ==
    ASSUME RtInv, [RuntimeNext]_rvars, NEW p \in Project, Empty(p),
           user # None \/ p \in archived
    PROVE  Empty(p)'
<1>0. /\ worker \in [Owner -> Tree] /\ claim \in [Owner -> Claim \cup {None}]
      /\ managed \in [Project -> Owner \cup {None}]
    BY DEF RtInv, OwnTypes, RowInv, TypeOK
<1>1. Quiet(p)'
    BY QuietStays DEF Empty
<1>2. ASSUME NEW w \in Owner, Belongs(w, p)' PROVE ~Executes(w)'
  <2>1. worker[w] # "serving" /\ claim[w] = None
      /\ (runs[w] # None => Belongs(w, p))
    <3>1. CASE runs[w] = None
        BY <3>1 DEF RtInv, LaunchOK, ClaimOK
    <3>2. CASE runs[w] # None
      <4>1. Belongs(w, p)
          BY <1>2, <3>2, LaunchesStay DEF Belongs
      <4> QED
          BY <4>1 DEF Empty, Executes
    <3> QED
        BY <3>1, <3>2
  <2>2. ~Claims(w)
    <3>1. SUFFICES ASSUME Claims(w) PROVE FALSE
        OBVIOUS
    <3>2. runs[w] \in Job /\ Submitted(runs[w]) /\ ProjectOf[runs[w]] = p
        BY <2>1, <3>1, LiveLaunches DEF Claims, RtInv, Belongs
    <3>3. jobs[runs[w]].state \in Terminal
        BY <3>2 DEF Empty, Quiet, Active
    <3>4. jobs[runs[w]].state \in Waiting
        BY <3>1 DEF Claims, ClaimJob, Claimable
    <3> QED
        BY <3>3, <3>4 DEF Waiting, Terminal
  <2>3. claim'[w] = None
    <3>1. ASSUME NEW v \in Owner, Claims(v) PROVE claim'[w] = None
      <4>1. v # w
          BY <2>2, <3>1
      <4> QED
          BY <1>0, <2>1, <3>1, <4>1 DEF Claims, ClaimJob
    <3>2. CASE Continues
        BY <2>1, <3>2, ContinuesEffect DEF RtInv, RowInv
    <3> QED
        BY <3>1, <3>2, StepTable
  <2>4. worker'[w] # "serving"
    <3>1. CASE Calm
        BY <2>1, <3>1 DEF Calm
    <3>2. ASSUME NEW v \in Owner, Advances(v) PROVE worker'[w] # "serving"
        BY <1>0, <2>1, <3>2 DEF Advances
    <3>3. ASSUME NEW q \in Project, Ends(q) PROVE worker'[w] # "serving"
        BY <1>0, <2>1, <3>3 DEF Ends, Kills
    <3>4. CASE Reap \/ Crash
        BY <1>0, <2>1, <3>4 DEF Reap, Crash
    <3>5. CASE Launch
        BY <1>0, <2>1, <3>5 DEF Launch, Becomes
    <3> QED
        BY <3>1, <3>2, <3>3, <3>4, <3>5, StepTrees
  <2> QED
      BY <2>3, <2>4 DEF Executes
<1> QED
    BY <1>1, <1>2 DEF Empty

-----------------------------------------------------------------------------
(* Every step keeps the invariant.                                         *)

LEMMA StepOwnTypes ==
    ASSUME RtInv, [RuntimeNext]_rvars
    PROVE  OwnTypes'
<1> USE DEF OwnTypes
<1>0. OwnTypes
    BY DEF RtInv
<1>1. ASSUME NEW w \in Owner, WorkerProceeds(w) \/ WorkerDies(w) \/ TreeExits(w)
      PROVE  OwnTypes'
    BY <1>0, <1>1 DEF WorkerProceeds, AcquireLock, WorkerHolds, Publish, WorkerFails,
                      WorkerDies, TreeExits, Becomes, Tree, own
<1>2. ASSUME NEW p \in Project, Submit(p) \/ UserLocks(p) \/ StopProject(p)
      PROVE  OwnTypes'
  <2>1. CASE Submit(p)
    <3>1. session \in 0..MaxSessions
        BY <1>0, RuntimeAssumption DEF RuntimeAssumption
    <3> QED
        BY <1>0, <2>1, <3>1 DEF Submit
  <2>2. CASE UserLocks(p)
      BY <1>0, <2>2 DEF UserLocks, Request
  <2>3. CASE StopProject(p)
      BY <1>0, <2>3 DEF StopProject, Kills, Tree
  <2> QED
      BY <1>2, <2>1, <2>2, <2>3
<1>3. CASE UserProceeds
  <2>1. CASE UserStops
    <3>1. user \in Request
        BY <1>0, <2>1 DEF UserStops
    <3>2. PICK w \in Owner \cup {None} : w = managed[user.project]
        BY <1>0, <3>1 DEF Request
    <3>3. user' \in Request
        BY <2>1, <3>1, <3>2 DEF UserStops, Request
    <3> QED
        BY <1>0, <2>1, <3>1, <3>2, <3>3 DEF UserStops, Kills, Tree, Request
  <2>2. CASE UserRefused \/ UserEnds
      BY <1>0, <2>2 DEF UserRefused, UserEnds, Request
  <2> QED
      BY <1>3, <2>1, <2>2 DEF UserProceeds
<1>4. CASE TurnStep
  <2>1. CASE Reap
      BY <1>0, <2>1 DEF Reap, Tree
  <2>2. CASE TurnLost
      BY <1>0, <2>2, RuntimeAssumption DEF TurnLost, RuntimeAssumption
  <2>3. ASSUME NEW j \in Job, Pick(j) PROVE OwnTypes'
      BY <1>0, <2>3 DEF Pick, Turn
  <2>4. CASE ClearOld
    <3>1. picked \in Turn /\ ProjectOf[picked.job] \in Project
        BY <1>0, <2>4, RuntimeAssumption DEF ClearOld, Turn, RuntimeAssumption
    <3>2. picked' \in Turn
        BY <2>4, <3>1 DEF ClearOld, Turn
    <3> QED
        BY <1>0, <2>4, <3>1, <3>2 DEF ClearOld, Kills, Tree
  <2>5. CASE Launch
    <3>1. picked \in Turn
        BY <1>0, <2>5 DEF Launch
    <3>2. PICK j \in Job : j = picked.job
        BY <3>1 DEF Turn
    <3>3. PICK w \in Owner : w = NextOwner
        BY <2>5 DEF Launch, NextOwner
    <3>4. receipt' \in {receipt, [receipt EXCEPT ![j] = w]}
          /\ managed' \in {managed, [managed EXCEPT ![ProjectOf[j]] = w]}
          /\ \E s \in Tree : worker' = [worker EXCEPT ![w] = s]
        BY <2>5, <3>2, <3>3 DEF Launch, Becomes, Receipted, Tree
    <3> QED
        BY <1>0, <2>5, <3>2, <3>3, <3>4 DEF Launch
  <2>6. ASSUME \/ FinishDecision \/ LaunchRefused \/ TurnStops
               \/ \E w \in Owner : FinishExited(w)
               \/ \E j \in Job : Recover(j)
        PROVE  OwnTypes'
      BY <1>0, <2>6 DEF FinishDecision, LaunchRefused, TurnStops, FinishExited, Recover, own
  <2> QED
      BY <1>4, <2>1, <2>2, <2>3, <2>4, <2>5, <2>6 DEF TurnStep
<1>5. CASE BeginStop \/ Stopped \/ Crash
    BY <1>0, <1>5 DEF BeginStop, Stopped, Crash, Tree
<1>6. CASE Restart
  <2>1. session < MaxSessions
      BY <1>6 DEF Restart, RtInv, SessionOK
  <2> QED
      BY <1>0, <1>6, <2>1, RuntimeAssumption DEF Restart, RuntimeAssumption
<1>7. ASSUME \/ UNCHANGED rvars \/ (Tick /\ UNCHANGED own)
             \/ \E j \in Job : CancelLoad(j)
      PROVE  OwnTypes'
    BY <1>0, <1>7 DEF rvars, own, CancelLoad
<1> QED
    BY <1>1, <1>2, <1>3, <1>4, <1>5, <1>6, <1>7 DEF RuntimeNext

\* What a launch enters, whether it succeeds or not.
LEMMA LaunchEffect ==
    ASSUME RtInv, Launch
    PROVE  \E w \in Owner, j \in Job :
              /\ j = picked.job /\ Submitted(j) /\ bornIn[j] = session /\ service # "down"
              /\ worker[w] = "unborn" /\ runs' = [runs EXCEPT ![w] = j]
              /\ managed[ProjectOf[j]] = None
              /\ \/ /\ worker' = [worker EXCEPT ![w] = "starting"]
                    /\ managed' = [managed EXCEPT ![ProjectOf[j]] = w]
                 \/ /\ worker' = [worker EXCEPT ![w] = "gone"]
                    /\ managed' \in {managed, [managed EXCEPT ![ProjectOf[j]] = w]}
<1>1. PICK j \in Job : j = picked.job
    BY DEF Launch, RtInv, OwnTypes, Turn
<1>2. Submitted(j) /\ bornIn[j] = session /\ service # "down"
      /\ managed[ProjectOf[j]] = None
    BY <1>1 DEF Launch, RtInv, TurnOK
<1>3. PICK w \in Owner : w = NextOwner /\ worker[w] = "unborn"
    BY DEF Launch, NextOwner
<1> QED
    BY <1>1, <1>2, <1>3 DEF Launch, Becomes

LEMMA StepLaunches ==
    ASSUME RtInv, [RuntimeNext]_rvars
    PROVE  LaunchOK' /\ ManagedOK'
<1>0. OwnTypes /\ LaunchOK /\ ManagedOK
    BY DEF RtInv
<1>1. \A j \in Job : Submitted(j) => Submitted(j)'
    BY SubmissionsStay DEF Submitted
<1>2. CASE Calm
    BY <1>0, <1>1, <1>2 DEF Calm, LaunchOK, ManagedOK, Belongs, Alive, OwnTypes
<1>3. ASSUME NEW w \in Owner, Advances(w) PROVE LaunchOK' /\ ManagedOK'
  <2>1. \A v \in Owner : /\ worker[v] = "unborn" <=> worker'[v] = "unborn"
                         /\ Alive(v)' => Alive(v)
      BY <1>0, <1>3 DEF Advances, Alive, OwnTypes
  <2> QED
      BY <1>0, <1>1, <1>3, <2>1 DEF Advances, LaunchOK, ManagedOK, Belongs, OwnTypes
<1>4. ASSUME NEW p \in Project, Ends(p) PROVE LaunchOK' /\ ManagedOK'
  <2>1. PICK w \in Owner : w = managed[p]
      BY <1>0, <1>4 DEF Ends, OwnTypes
  <2>2. worker[w] # "unborn"
      BY <1>0, <1>4, <2>1 DEF Ends, LaunchOK, ManagedOK, Belongs
  <2>3. \A v \in Owner : /\ worker[v] = "unborn" <=> worker'[v] = "unborn"
                         /\ Alive(v)' => Alive(v) /\ v # w
      BY <1>0, <1>4, <2>1, <2>2 DEF Ends, Kills, Alive, OwnTypes
  <2>4. UNCHANGED runs /\ managed' = [managed EXCEPT ![p] = None]
      BY <1>4 DEF Ends
  <2>5. LaunchOK'
      BY <1>0, <1>1, <2>3, <2>4 DEF LaunchOK, OwnTypes
  <2>6. ManagedOK'
      BY <1>0, <2>1, <2>3, <2>4 DEF ManagedOK, Belongs, OwnTypes
  <2> QED
      BY <2>5, <2>6
<1>5. CASE Reap
  <2>1. \A v \in Owner : /\ v \in exited' => worker[v] \in {"left", "gone"}
                         /\ worker'[v] = IF v \in exited' THEN "gone" ELSE worker[v]
      BY <1>5 DEF Reap
  <2>2. \A v \in Owner : /\ worker[v] = "unborn" <=> worker'[v] = "unborn"
                         /\ Alive(v)' => Alive(v)
      BY <2>1 DEF Alive
  <2>3. /\ UNCHANGED runs
        /\ \A p \in Project : \/ managed'[p] = managed[p]
                              \/ managed'[p] = None /\ ~Alive(managed[p])
      BY <1>5 DEF Reap, Alive
  <2>4. LaunchOK'
      BY <1>0, <1>1, <2>2, <2>3 DEF LaunchOK, OwnTypes
  <2>5. ASSUME NEW v \in Owner, Alive(v)' PROVE managed'[ProjectOf[runs'[v]]] = v
    <3>1. Alive(v) /\ ProjectOf[runs[v]] \in Project /\ managed[ProjectOf[runs[v]]] = v
        BY <1>0, <2>2, <2>5, LiveLaunches DEF ManagedOK, Alive
    <3> QED
        BY <2>3, <3>1
  <2> QED
      BY <1>0, <2>3, <2>4, <2>5 DEF ManagedOK, Belongs
<1>6. CASE Launch
  <2>1. PICK w \in Owner, j \in Job :
              /\ Submitted(j)
              /\ worker[w] = "unborn" /\ runs' = [runs EXCEPT ![w] = j]
              /\ managed[ProjectOf[j]] = None
              /\ \/ /\ worker' = [worker EXCEPT ![w] = "starting"]
                    /\ managed' = [managed EXCEPT ![ProjectOf[j]] = w]
                 \/ /\ worker' = [worker EXCEPT ![w] = "gone"]
                    /\ managed' \in {managed, [managed EXCEPT ![ProjectOf[j]] = w]}
      BY <1>6, LaunchEffect
  <2>2. j # None /\ w # None /\ ProjectOf[j] \in Project
      BY RuntimeAssumption, JobControlAssumption DEF RuntimeAssumption, JobControlAssumption
  <2>3. runs'[w] = j /\ worker'[w] # "unborn" /\ runs[w] = None
      BY <1>0, <2>1 DEF OwnTypes, LaunchOK
  <2>4. \A v \in Owner \ {w} : runs'[v] = runs[v] /\ worker'[v] = worker[v]
      BY <1>0, <2>1 DEF OwnTypes
  <2>5. LaunchOK'
      BY <1>0, <1>1, <2>1, <2>2, <2>3, <2>4 DEF LaunchOK, OwnTypes
  <2>6. ASSUME NEW p \in Project, managed'[p] # None PROVE Belongs(managed[p], p)'
    <3>1. \/ managed'[p] = w /\ p = ProjectOf[j]
          \/ managed'[p] = managed[p]
        BY <1>0, <2>1 DEF OwnTypes
    <3>2. CASE managed'[p] = w /\ p = ProjectOf[j]
        BY <2>2, <2>3, <3>2 DEF Belongs
    <3>3. CASE managed'[p] = managed[p]
      <4>1. Belongs(managed[p], p) /\ managed[p] \in Owner \ {w}
          BY <1>0, <2>3, <2>6, <3>3 DEF ManagedOK, Belongs, OwnTypes
      <4> QED
          BY <2>4, <3>3, <4>1 DEF Belongs
    <3> QED
        BY <3>1, <3>2, <3>3
  <2>7. ASSUME NEW v \in Owner, Alive(v)' PROVE managed'[ProjectOf[runs'[v]]] = v
    <3>1. CASE v = w
        BY <1>0, <2>1, <2>2, <2>3, <2>7, <3>1 DEF Alive, OwnTypes
    <3>2. CASE v # w
      <4>1. Alive(v) /\ runs'[v] = runs[v]
          BY <2>4, <2>7, <3>2 DEF Alive
      <4>2. ProjectOf[runs[v]] \in Project /\ managed[ProjectOf[runs[v]]] = v
          BY <1>0, <4>1, LiveLaunches DEF ManagedOK, Alive
      <4>3. ProjectOf[runs[v]] # ProjectOf[j] /\ v # None
          BY <2>1, <4>2, JobControlAssumption DEF JobControlAssumption
      <4> QED
          BY <1>0, <2>1, <4>1, <4>2, <4>3 DEF OwnTypes
    <3> QED
        BY <3>1, <3>2
  <2> QED
      BY <2>5, <2>6, <2>7 DEF ManagedOK
<1>7. CASE Crash
  <2>1. /\ \A v \in Owner : /\ worker[v] = "unborn" <=> worker'[v] = "unborn"
                            /\ ~Alive(v)'
        /\ UNCHANGED runs /\ \A p \in Project : managed'[p] = None
      BY <1>7 DEF Crash, Alive
  <2> QED
      BY <1>0, <1>1, <2>1 DEF LaunchOK, ManagedOK, OwnTypes
<1> QED
    BY <1>2, <1>3, <1>4, <1>5, <1>6, <1>7, StepTrees
\* What lives lived before, or is launched by this step.
LEMMA AliveWas ==
    ASSUME RtInv, [RuntimeNext]_rvars, NEW w \in Owner, Alive(w)'
    PROVE  \/ Alive(w) /\ runs'[w] = runs[w] /\ ~Crash
           \/ /\ Launch
              /\ runs'[w] = picked.job /\ Submitted(picked.job)
              /\ bornIn[picked.job] = session /\ service # "down"
<1>0. /\ worker \in [Owner -> Tree] /\ runs \in [Owner -> Job \cup {None}]
      /\ managed \in [Project -> Owner \cup {None}]
    BY DEF RtInv, OwnTypes
<1>1. ASSUME Alive(w), ~Crash PROVE Alive(w) /\ runs'[w] = runs[w] /\ ~Crash
  <2>1. runs[w] # None
      BY <1>1, LiveLaunches DEF RtInv, Alive
  <2> QED
      BY <1>1, <2>1, LaunchesStay
<1>2. ~Crash
    BY DEF Crash, Alive
<1>3. CASE Calm
    BY <1>1, <1>2, <1>3 DEF Calm, Alive
<1>4. ASSUME NEW v \in Owner, Advances(v) PROVE Alive(w)
    BY <1>0, <1>4 DEF Advances, Alive
<1>5. ASSUME NEW p \in Project, Ends(p) PROVE Alive(w)
    BY <1>0, <1>5 DEF Ends, Kills, Alive
<1>6. CASE Reap
    BY <1>0, <1>1, <1>2, <1>6 DEF Reap, Alive
<1>7. CASE Launch
  <2>1. PICK v \in Owner, j \in Job :
              /\ j = picked.job /\ Submitted(j) /\ bornIn[j] = session /\ service # "down"
              /\ worker[v] = "unborn" /\ runs' = [runs EXCEPT ![v] = j]
              /\ \/ worker' = [worker EXCEPT ![v] = "starting"]
                 \/ worker' = [worker EXCEPT ![v] = "gone"]
      BY <1>7, LaunchEffect
  <2>2. CASE w = v
      BY <1>0, <1>7, <2>1, <2>2
  <2>3. CASE w # v
      BY <1>0, <1>1, <1>2, <2>1, <2>3 DEF Alive
  <2> QED
      BY <2>2, <2>3
<1> QED
    BY <1>1, <1>2, <1>3, <1>4, <1>5, <1>6, <1>7, StepTrees

LEMMA StepClaims ==
    ASSUME RtInv, [RuntimeNext]_rvars
    PROVE  ClaimOK'
<1>0. /\ worker \in [Owner -> Tree] /\ claim \in [Owner -> Claim \cup {None}]
      /\ managed \in [Project -> Owner \cup {None}] /\ ClaimOK
    BY DEF RtInv, OwnTypes, RowInv, TypeOK
<1>1. ASSUME NEW w \in Owner, Claims(w) PROVE ClaimOK'
    BY <1>0, <1>1 DEF Claims, ClaimJob, ClaimOK, own
<1>2. ASSUME Continues, NEW v \in Owner, claim'[v] # None
      PROVE  worker'[v] = "locked" /\ claim'[v].job = runs'[v]
  <2>1. claim'[v] = claim[v]
      BY <1>2, ContinuesEffect DEF RtInv, RowInv
  <2>2. worker[v] = "locked" /\ claim[v].job = runs[v]
      BY <1>0, <1>2, <2>1 DEF ClaimOK
  <2>3. runs'[v] = runs[v]
      BY <2>2, LiveLaunches, LaunchesStay DEF RtInv
  <2>4. worker'[v] = "locked"
    <3>1. CASE Calm
        BY <2>2, <3>1 DEF Calm
    <3>2. ASSUME NEW w \in Owner, Advances(w) PROVE worker'[v] = "locked"
        BY <1>0, <1>2, <2>2, <3>2 DEF Advances
    <3>3. ASSUME NEW p \in Project, Ends(p) PROVE worker'[v] = "locked"
        BY <1>0, <1>2, <2>2, <3>3 DEF Ends, Kills, Forgets
    <3>4. CASE Reap
        BY <1>0, <2>2, <3>4 DEF Reap
    <3>5. CASE Launch
        BY <1>0, <2>2, <3>5, LaunchEffect
    <3>6. CASE Crash
        BY <1>2, <3>6 DEF Crash, Outage
    <3> QED
        BY <3>1, <3>2, <3>3, <3>4, <3>5, <3>6, StepTrees
  <2> QED
      BY <2>1, <2>2, <2>3, <2>4
<1> QED
    BY <1>1, <1>2, StepTable DEF ClaimOK

LEMMA ServiceSteps ==
    ASSUME [RuntimeNext]_rvars
    PROVE  \/ UNCHANGED <<service, session>>
           \/ BeginStop \/ Stopped \/ Crash \/ Restart
BY DEF RuntimeNext, TurnStep, UserProceeds, WorkerProceeds, rvars, own, UserStops, Submit,
       UserRefused, UserEnds, UserLocks, CancelLoad, Recover, Pick, FinishExited, TurnLost,
       FinishDecision, LaunchRefused, TurnStops, Reap, ClearOld, Launch, StopProject,
       AcquireLock, WorkerHolds, Publish, WorkerFails, WorkerDies, TreeExits

LEMMA StepSession ==
    ASSUME RtInv, [RuntimeNext]_rvars
    PROVE  SessionOK'
<1>0. SessionOK /\ OwnTypes /\ LaunchOK /\ ManagedOK
    BY DEF RtInv
<1>1. ASSUME NEW w \in Owner, Alive(w)'
      PROVE  bornIn'[runs'[w]] = session' /\ service' # "down"
  <2>1. \/ Alive(w) /\ runs'[w] = runs[w]
        \/ Launch /\ runs'[w] = picked.job
      BY <1>1, AliveWas
  <2>2. Submitted(runs'[w]) /\ bornIn[runs'[w]] = session /\ service # "down" /\ ~Crash
      BY <1>0, <1>1, AliveWas, LiveLaunches DEF SessionOK, Alive, Launch, Crash
  <2>3. runs'[w] \in Job
      BY <1>0, <2>1, LiveLaunches DEF Alive, Launch, OwnTypes, Turn
  <2>4. bornIn'[runs'[w]] = session
      BY <2>2, <2>3, SubmissionsStay
  <2>5. ~Stopped
    <3>1. SUFFICES ASSUME Stopped PROVE FALSE
        OBVIOUS
    <3>2. Alive(w)
        BY <2>1, <3>1 DEF Stopped, Idle, Launch
    <3>3. ProjectOf[runs[w]] \in Project /\ managed[ProjectOf[runs[w]]] = w
        BY <1>0, <3>2, LiveLaunches DEF ManagedOK, Alive
    <3> QED
        BY <3>1, <3>3, JobControlAssumption DEF Stopped, JobControlAssumption
  <2> QED
      BY <2>2, <2>4, <2>5, ServiceSteps DEF BeginStop, Restart
<1>2. service' # "up" => session' < MaxSessions
    BY <1>0, ServiceSteps DEF SessionOK, BeginStop, Stopped, Crash, Restart
<1> QED
    BY <1>1, <1>2 DEF SessionOK

LEMMA StepTurn ==
    ASSUME RtInv, [RuntimeNext]_rvars
    PROVE  TurnOK'
<1>0. TurnOK /\ OwnTypes
    BY DEF RtInv
<1>1. \/ picked' = None \/ UNCHANGED picked
      \/ ClearOld \/ \E j \in Job : Pick(j)
    BY DEF RuntimeNext, TurnStep, UserProceeds, WorkerProceeds, rvars, own, UserStops, Submit,
       UserRefused, UserEnds, UserLocks, CancelLoad, Recover, FinishExited, TurnLost,
       FinishDecision, LaunchRefused, TurnStops, Reap, Launch, StopProject, BeginStop,
       Stopped, Crash, Restart, AcquireLock, WorkerHolds, Publish, WorkerFails, WorkerDies,
       TreeExits
<1>2. CASE UNCHANGED picked /\ picked # None
  <2>1. PICK j \in Job : j = picked.job
      BY <1>0, <1>2 DEF OwnTypes, Turn
  <2>2. service # "down" /\ Submitted(j) /\ bornIn[j] = session
        /\ (picked.at = "cleared" => managed[ProjectOf[j]] = None)
      BY <1>0, <1>2, <2>1 DEF TurnOK
  <2>3. service' # "down" /\ session' = session
      BY <1>2, <2>2, ServiceSteps DEF BeginStop, Stopped, Idle, Crash, Restart
  <2>4. bornIn'[j] = bornIn[j]
      BY <2>2, SubmissionsStay
  <2>5. managed[ProjectOf[j]] = None => managed'[ProjectOf[j]] = None
    <3>1. ~Launch \/ picked' = None
        BY DEF Launch
    <3>2. CASE Calm \/ Reap \/ Crash
        BY <3>2, RuntimeAssumption DEF Calm, Reap, Crash, RuntimeAssumption
    <3>3. ASSUME NEW w \in Owner, Advances(w) PROVE UNCHANGED managed
        BY <3>3 DEF Advances
    <3>4. ASSUME NEW p \in Project, Ends(p), managed[ProjectOf[j]] = None
          PROVE  managed'[ProjectOf[j]] = None
        BY <1>0, <3>4, RuntimeAssumption DEF Ends, OwnTypes, RuntimeAssumption
    <3> QED
        BY <1>2, <3>1, <3>2, <3>3, <3>4, StepTrees
  <2> QED
      BY <1>2, <2>1, <2>2, <2>3, <2>4, <2>5 DEF TurnOK, Submitted
<1>3. ASSUME NEW j \in Job, Pick(j) PROVE TurnOK'
  <2>1. service = "up" /\ picked = None
      BY <1>3 DEF Pick, Idle
  <2>2. CASE UNCHANGED picked
      BY <2>1, <2>2 DEF TurnOK
  <2>3. CASE picked' = [job |-> j, at |-> "picked"] /\ OfSession(j)
      BY <1>3, <2>1, <2>3 DEF Pick, OfSession, TurnOK, Submitted
  <2> QED
      BY <1>3, <2>2, <2>3 DEF Pick
<1>4. CASE ClearOld
  <2>1. picked \in Turn /\ ProjectOf[picked.job] \in Project
      BY <1>0, <1>4, RuntimeAssumption DEF ClearOld, OwnTypes, Turn, RuntimeAssumption
  <2>2. picked'.job = picked.job /\ UNCHANGED <<service, session, bornIn>>
      BY <1>4, <2>1 DEF ClearOld, Turn
  <2>3. managed'[ProjectOf[picked.job]] = None
      BY <1>0, <1>4, <2>1 DEF ClearOld, OwnTypes
  <2> QED
      BY <1>0, <1>4, <2>1, <2>2, <2>3 DEF TurnOK, ClearOld, Submitted
<1> QED
    BY <1>1, <1>2, <1>3, <1>4 DEF TurnOK

LEMMA StepDead ==
    ASSUME RtInv, [RuntimeNext]_rvars
    PROVE  DeadOK'
<1>0. DeadOK /\ OwnTypes /\ TypeOK
    BY DEF RtInv, RowInv
<1>1. \A w \in Owner : worker[w] = "gone" => worker'[w] = "gone"
    BY LaunchesStay
<1>2. \A w \in exited' : worker'[w] = "gone"
  <2>1. \/ exited' \subseteq exited
        \/ Reap
        \/ \E p \in Project : Ends(p) /\ exited' = {managed[p]}
    <3>1. CASE ClearOld
      <4>1. ProjectOf[picked.job] \in Project
          BY <1>0, <3>1, RuntimeAssumption DEF ClearOld, OwnTypes, Turn, RuntimeAssumption
      <4>2. CASE managed[ProjectOf[picked.job]] = None
          BY <3>1, <4>2 DEF ClearOld
      <4>3. CASE managed[ProjectOf[picked.job]] # None
          BY <3>1, <4>1, <4>3 DEF ClearOld, Ends
      <4> QED
          BY <4>2, <4>3
    <3>2. ASSUME NEW p \in Project, StopProject(p)
          PROVE  Ends(p) /\ exited' = {managed[p]}
        BY <3>2 DEF StopProject, Ends
    <3> QED
        BY <3>1, <3>2 DEF RuntimeNext, TurnStep, UserProceeds, WorkerProceeds, rvars, own,
           UserStops, Submit, UserRefused, UserEnds, UserLocks, CancelLoad, Recover, Pick,
           FinishExited, TurnLost, FinishDecision, LaunchRefused, TurnStops, Launch,
           BeginStop, Stopped, Crash, Restart, AcquireLock, WorkerHolds, Publish,
           WorkerFails, WorkerDies, TreeExits
  <2>2. CASE exited' \subseteq exited
      BY <1>0, <1>1, <2>2 DEF DeadOK, OwnTypes
  <2>3. CASE Reap
      BY <1>0, <2>3 DEF Reap, OwnTypes
  <2>4. ASSUME NEW p \in Project, Ends(p), exited' = {managed[p]}
        PROVE  \A w \in exited' : worker'[w] = "gone"
      BY <1>0, <2>4 DEF Ends, Kills, OwnTypes
  <2> QED
      BY <2>1, <2>2, <2>3, <2>4
<1>3. ASSUME recovering' # None
      PROVE  recovering'.owner \in Owner /\ worker'[recovering'.owner] = "gone"
  <2>1. UNCHANGED recovering \/ \E j \in Job : Recover(j)
    <3>1. recovering' \in {recovering, None} \/ \E j \in Job : Recover(j)
        BY DEF RuntimeNext, TurnStep, UserProceeds, WorkerProceeds, rvars, vars, own, Tick,
           UserStops, Submit, UserRefused, UserEnds, UserLocks, CancelLoad, Pick, Rejects,
           FinishExited, TurnLost, FinishDecision, LaunchRefused, TurnStops, Launch, Reap,
           ClearOld, StopProject, FailsWaiting, Kills, Forgets,
           BeginStop, Stopped, Crash, Restart, AcquireLock, WorkerHolds, Publish,
           WorkerFails, WorkerDies, TreeExits, RequestCancellation, ReadWaitingFailure,
           EndFailed, EndCancelled, RecordWaitingFailure, DropWaitingFailure, ConfirmRecovery,
           DropRecovery, ClaimJob, RenewLease, CompleteResult, CompleteCancellation,
           RecordFatalFailure, LeaveAttempt, Outage
    <3> QED
        BY <1>3, <3>1
  <2>2. CASE UNCHANGED recovering
      BY <1>0, <1>1, <1>3, <2>2 DEF DeadOK
  <2>3. ASSUME NEW j \in Job, Recover(j)
        PROVE  recovering'.owner \in Owner /\ worker'[recovering'.owner] = "gone"
    <3>1. recovering'.owner = jobs[j].owner
        BY <2>3 DEF Recover, ReadRecovery
    <3>2. jobs[j].owner = receipt[j] /\ worker[jobs[j].owner] = "gone" /\ UNCHANGED worker
        BY <2>3 DEF Recover, ExecutionExited, own
    <3>3. jobs[j].owner # None
        BY <2>3 DEF Recover, RtInv, RowInv, RowConstraints, RowOK
    <3> QED
        BY <1>0, <3>1, <3>2, <3>3 DEF OwnTypes
  <2> QED
      BY <2>1, <2>2, <2>3
<1> QED
    BY <1>2, <1>3 DEF DeadOK

\* A project of which nothing lives executes nothing.
LEMMA NothingLives ==
    ASSUME RtInv, NEW w \in Owner, ~Alive(w)
    PROVE  ~Executes(w)
BY DEF RtInv, ClaimOK, Alive, Executes

LEMMA StepUser ==
    ASSUME RtInv, [RuntimeNext]_rvars
    PROVE  UserOK'
<1>0. UserOK /\ OwnTypes /\ LaunchOK /\ ManagedOK
      /\ claim \in [Owner -> Claim \cup {None}]
    BY DEF RtInv, RowInv, TypeOK
<1>1. \/ user' = None \/ UNCHANGED user
      \/ UserStops \/ \E p \in Project : UserLocks(p)
    BY DEF RuntimeNext, TurnStep, UserProceeds, WorkerProceeds, rvars, own, Submit,
       UserRefused, UserEnds, CancelLoad, Recover, Pick, FinishExited, TurnLost,
       FinishDecision, LaunchRefused, TurnStops, Reap, ClearOld, Launch, StopProject,
       BeginStop, Stopped, Crash, Restart, AcquireLock, WorkerHolds, Publish, WorkerFails,
       WorkerDies, TreeExits
<1>2. CASE UNCHANGED user /\ user # None
  <2>1. PICK p \in Project : p = user.project
      BY <1>0, <1>2 DEF OwnTypes, Request
  <2>2. Quiet(p)'
      BY <1>0, <1>2, <2>1, QuietStays DEF UserOK
  <2>3. user.at = "stopped" => Empty(p)'
      BY <1>0, <1>2, <2>1, EmptyStays DEF UserOK
  <2>4. ASSUME user.ended # None PROVE Belongs(user.ended, p)'
    <3>1. PICK w \in Owner : w = user.ended
        BY <1>0, <1>2, <2>4 DEF OwnTypes, Request
    <3>2. Belongs(w, p)
        BY <1>0, <1>2, <2>1, <2>4, <3>1 DEF UserOK
    <3>3. Belongs(w, p)'
        BY <3>2, LaunchesStay DEF Belongs
    <3> QED
        BY <1>2, <3>1, <3>3 DEF Belongs
  <2> QED
      BY <1>2, <2>1, <2>2, <2>3, <2>4 DEF UserOK, Belongs, Empty, Quiet
<1>3. ASSUME NEW p \in Project, UserLocks(p) PROVE UserOK'
  <2>1. Quiet(p)'
      BY <1>3 DEF UserLocks, Quiet, Active, Submitted, vars
  <2>2. user'.project = p /\ user'.ended = None /\ user'.at = "locked"
      BY <1>3 DEF UserLocks
  <2> QED
      BY <2>1, <2>2 DEF UserOK, Quiet
<1>4. CASE UserStops
  <2>1. user \in Request /\ user # None
      BY <1>0, <1>4 DEF UserStops, OwnTypes
  <2>2. PICK p \in Project : p = user.project
      BY <2>1 DEF Request
  <2>3. Quiet(p)'
      BY <1>0, <2>1, <2>2, QuietStays DEF UserOK
  <2>4. \A v \in Owner : Belongs(v, p) /\ Alive(v) => managed[p] = v
      BY <1>0 DEF ManagedOK, Belongs
  <2>5. UNCHANGED runs /\ user'.project = p
      BY <1>4, <2>1, <2>2 DEF UserStops, Request
  <2>6. CASE managed[p] = None
    <3>1. UNCHANGED <<worker, claim>> /\ user'.ended = user.ended
        BY <1>4, <2>1, <2>2, <2>6 DEF UserStops, Request
    <3>2. \A v \in Owner : Belongs(v, p) => ~Executes(v)
        BY <2>4, <2>6, NothingLives, JobControlAssumption DEF JobControlAssumption
    <3>3. Empty(p)'
        BY <2>3, <2>5, <3>1, <3>2 DEF Empty, Belongs, Executes
    <3>4. user.ended # None => Belongs(user.ended, p)
        BY <1>0, <2>1, <2>2 DEF UserOK
    <3> QED
        BY <2>3, <2>5, <3>1, <3>3, <3>4 DEF UserOK, Belongs, Empty, Quiet
  <2>7. CASE managed[p] # None
    <3>1. PICK w \in Owner : w = managed[p]
        BY <1>0, <2>7 DEF OwnTypes
    <3>2. /\ worker' = [worker EXCEPT ![w] = "gone"] /\ claim' = [claim EXCEPT ![w] = None]
          /\ user'.ended = w
        BY <1>4, <2>1, <2>2, <2>7, <3>1 DEF UserStops, Kills, Forgets, Request
    <3>3. \A v \in Owner \ {w} : Belongs(v, p) => ~Executes(v)
        BY <2>4, <3>1, NothingLives
    <3>4. \A v \in Owner : Belongs(v, p)' => ~Executes(v)'
        BY <1>0, <2>5, <3>2, <3>3 DEF Belongs, Executes, OwnTypes
    <3>5. Belongs(w, p)'
        BY <1>0, <2>5, <2>7, <3>1 DEF ManagedOK, Belongs
    <3> QED
        BY <2>3, <2>5, <3>2, <3>4, <3>5 DEF UserOK, Belongs, Empty, Quiet
  <2> QED
      BY <2>6, <2>7
<1> QED
    BY <1>1, <1>2, <1>3, <1>4 DEF UserOK

LEMMA StepArchive ==
    ASSUME RtInv, [RuntimeNext]_rvars
    PROVE  ArchiveOK'
<1>0. ArchiveOK /\ OwnTypes
    BY DEF RtInv
<1>1. archived' = archived \/ UserEnds
    BY DEF RuntimeNext, TurnStep, UserProceeds, WorkerProceeds, rvars, own, UserStops, Submit,
       UserRefused, UserLocks, CancelLoad, Recover, Pick, FinishExited, TurnLost,
       FinishDecision, LaunchRefused, TurnStops, Reap, ClearOld, Launch, StopProject,
       BeginStop, Stopped, Crash, Restart, AcquireLock, WorkerHolds, Publish, WorkerFails,
       WorkerDies, TreeExits
<1>2. ASSUME NEW p \in archived PROVE Empty(p)'
    BY <1>0, EmptyStays DEF ArchiveOK, OwnTypes
<1>3. ASSUME UserEnds, NEW p \in Project, p = user.project PROVE Empty(p)'
  <2>1. user # None /\ Empty(p)
      BY <1>3 DEF UserEnds, RtInv, UserOK
  <2> QED
      BY <2>1, EmptyStays
<1>4. ASSUME UserEnds PROVE user.project \in Project /\ archived' \subseteq archived \cup {user.project}
    BY <1>0, <1>4 DEF UserEnds, OwnTypes, Request
<1>5. \A p \in archived' : Empty(p)'
    BY <1>1, <1>2, <1>3, <1>4
<1> QED
    BY <1>5 DEF ArchiveOK

LEMMA InitRuntime == RuntimeInit => RtInv
<1> SUFFICES ASSUME RuntimeInit PROVE RtInv
    OBVIOUS
<1>1. RowInv
    BY InitRows DEF RuntimeInit
<1>2. OwnTypes
    BY RuntimeAssumption DEF RuntimeInit, OwnTypes, RuntimeAssumption, Tree
<1>3. LaunchOK /\ ManagedOK /\ SessionOK
    BY DEF RuntimeInit, LaunchOK, ManagedOK, SessionOK, Alive
<1>4. ClaimOK /\ DeadOK
    BY DEF RuntimeInit, Init, ClaimOK, DeadOK
<1>5. TurnOK /\ UserOK /\ ArchiveOK
    BY DEF RuntimeInit, TurnOK, UserOK, ArchiveOK
<1> QED
    BY <1>1, <1>2, <1>3, <1>4, <1>5 DEF RtInv

LEMMA StepRuntime == RtInv /\ [RuntimeNext]_rvars => RtInv'
<1> SUFFICES ASSUME RtInv, [RuntimeNext]_rvars PROVE RtInv'
    OBVIOUS
<1>1. RowInv'
    BY StepSimulation, StepRows DEF RtInv
<1> QED
    BY <1>1, StepOwnTypes, StepLaunches, StepClaims, StepSession, StepTurn, StepDead,
       StepUser, StepArchive DEF RtInv

LEMMA RuntimeInvariant == RuntimeSpec => []RtInv
BY InitRuntime, StepRuntime, PTL DEF RuntimeSpec

-----------------------------------------------------------------------------
(* What follows.                                                           *)

\* Service, sessions, launches, the table of Workers and the requests of the
\* user keep their types.
THEOREM RuntimeTyping == RuntimeSpec => []RuntimeTypeOK
<1>1. RtInv => RuntimeTypeOK
    BY DEF RtInv, RowInv, OwnTypes, RuntimeTypeOK
<1> QED
    BY <1>1, RuntimeInvariant, PTL

\* A replacement starts after the old tree is gone, and a launch is in the
\* table before its process is let go: of a project one program runs.
THEOREM OneRuntime == RuntimeSpec => []OneRuntimePerProject
<1>1. RtInv => OneRuntimePerProject
    BY DEF RtInv, ManagedOK, OneRuntimePerProject, Belongs
<1> QED
    BY <1>1, RuntimeInvariant, PTL

\* tick takes a Worker out of the table and recover looks at the receipt only
\* when the tree is gone.
THEOREM DecidesAfterExit == RuntimeSpec => []DecidedAfterExit
<1>1. RtInv => DecidedAfterExit
    BY DEF RtInv, DeadOK, DecidedAfterExit
<1> QED
    BY <1>1, RuntimeInvariant, PTL

\* A stop the user was told of is not overtaken by the launch of a load read
\* before it: under the write lock there is no such load.
THEOREM StopsStay == RuntimeSpec => []StoppedStaysStopped
<1>1. RtInv => StoppedStaysStopped
    BY DEF RtInv, UserOK, Empty, StoppedStaysStopped
<1> QED
    BY <1>1, RuntimeInvariant, PTL

\* stop_project under the write lock never needs that lock for itself.
THEOREM StopsWithoutWrite == RuntimeSpec => []StopNeedsNoWrite
<1>1. ASSUME RtInv, user # None, user.ended # None
      PROVE  jobs[runs[user.ended]].state \in Terminal
  <2>1. PICK w \in Owner : w = user.ended
      BY <1>1 DEF RtInv, OwnTypes, Request
  <2>2. Belongs(w, user.project) /\ Quiet(user.project)
      BY <1>1, <2>1 DEF RtInv, UserOK
  <2>3. runs[w] \in Job /\ Submitted(runs[w])
    <3>1. LaunchOK /\ runs \in [Owner -> Job \cup {None}] /\ runs[w] # None
        BY <1>1, <2>2 DEF RtInv, OwnTypes, Belongs
    <3> QED
        BY <3>1 DEF LaunchOK
  <2> QED
      BY <2>1, <2>2, <2>3 DEF Quiet, Active, Belongs
<1>2. RtInv => StopNeedsNoWrite
    BY <1>1 DEF StopNeedsNoWrite
<1> QED
    BY <1>2, RuntimeInvariant, PTL

\* Of an archived project nothing is started, whatever the supervisor had read.
THEOREM ArchivesStay == RuntimeSpec => []ArchivedStaysEmpty
<1>1. RtInv => ArchivedStaysEmpty
    BY DEF RtInv, ArchiveOK, Empty, ArchivedStaysEmpty
<1> QED
    BY <1>1, RuntimeInvariant, PTL

\* A load begins only under the lock of a launch of its own session.
THEOREM NoReplay == RuntimeSpec => SessionBound
<1>1. ASSUME RtInv, [RuntimeNext]_rvars, NEW j \in Job,
             jobs'[j].state = "RUNNING", jobs[j].state # "RUNNING"
      PROVE  bornIn[j] = session
  <2>1. PICK w \in Owner : Claims(w)
      BY <1>1, StepTable, ContinuesEffect DEF RtInv, RowInv
  <2>2. OwnTypes /\ LaunchOK /\ SessionOK /\ TypeOK
      BY <1>1 DEF RtInv, RowInv
  <2>3. Alive(w) /\ ClaimJob(w, runs[w])
      BY <2>1 DEF Claims, Alive
  <2>4. runs[w] \in Job
      BY <2>2, <2>3, LiveLaunches DEF Alive
  <2>5. bornIn[runs[w]] = session
      BY <2>2, <2>3 DEF SessionOK
  <2>6. Only(runs[w])
      BY <2>2, <2>3, <2>4, ClaimEffect
  <2> QED
      BY <1>1, <2>4, <2>5, <2>6 DEF Only
<1>2. RtInv /\ [RuntimeNext]_rvars =>
        [\A j \in Job : jobs'[j].state = "RUNNING" /\ jobs[j].state # "RUNNING"
            => bornIn[j] = session]_rvars
    BY <1>1
<1> QED
    BY <1>2, RuntimeInvariant, PTL DEF RuntimeSpec, SessionBound

\* Whatever supervisor, Workers and user do, the job table sees only steps of
\* JobControl, so that what JobControl keeps loads keep.
THEOREM RuntimeRefinesControl == RuntimeSpec => RuntimeImplementsControl
<1>1. RuntimeInit => Init
    BY DEF RuntimeInit
<1>2. RtInv /\ [RuntimeNext]_rvars => [Next]_vars
    BY StepSimulation
<1> QED
    BY <1>1, <1>2, RuntimeInvariant, PTL DEF RuntimeSpec, RuntimeImplementsControl, Spec
=============================================================================
