-------------------------- MODULE SupervisorProofs --------------------------
(***************************************************************************)
(* Proofs about WorkerSupervisor: it decides only about dead Workers, and  *)
(* with its Workers it implements JobControl, for every number of jobs and *)
(* launches, on either platform, however often the service goes down.      *)
(***************************************************************************)
EXTENDS WorkerSupervisor, JobControlProofs

\* A launch that runs has a job, and the supervisor holds handles of launches.
Launched ==
    /\ \A w \in Owner : worker[w] # "unborn" => runs[w] \in Job
    /\ \A s \in Slots : slot[s] # None => worker[slot[s]] # "unborn"

\* A claim lives in the process that holds the lock.
ClaimUnderLock ==
    \A w \in Owner : claim[w] # None => worker[w] = "locked" /\ claim[w].job = runs[w]

SupInv == SupervisorTypeOK /\ RowInv /\ Launched /\ ClaimUnderLock /\ OnlyDeadSettled

\* Actions that leave the whole table and what is known of it alone.
LEMMA StutterRows ==
    ASSUME RowInv, UNCHANGED vars
    PROVE  RowInv'
BY StepRows

-----------------------------------------------------------------------------
(* Every step of the system is a step of JobControl or none.               *)

LEMMA ForgetsIsLeave ==
    ASSUME RowInv, NEW w \in Owner, Forgets(w),
           UNCHANGED <<now, jobs, target, trail, recovering, failing, published>>
    PROVE  [Next]_vars
<1>1. CASE claim[w] # None
    BY <1>1 DEF Forgets, LeaveAttempt, Next
<1>2. CASE claim[w] = None
  <2>1. retrying[w] = None
      BY <1>2 DEF RowInv, PlansWithinBudget
  <2>2. claim \in [Owner -> Claim \cup {None}] /\ retrying \in [Owner -> Retry \cup {None}]
      BY DEF RowInv, TypeOK
  <2>3. claim' = claim /\ retrying' = retrying
      BY <1>2, <2>1, <2>2 DEF Forgets
  <2> QED
      BY <2>3 DEF vars
<1> QED
    BY <1>1, <1>2

LEMMA ScanSimulation ==
    ASSUME NEW j \in Job, ScanRecovery(j)
    PROVE  [Next]_vars
BY DEF ScanRecovery, ConfirmExited, Next, ControlStep

LEMMA SettleSimulation ==
    ASSUME SupInv, SettlePublished \/ SettleAttempt \/ SettleExpired \/ SettleAbandoned
    PROVE  [Next]_vars
<1>0. reaping # None => /\ reaping.owner \in Owner /\ reaping.job \in Job
                        /\ claim[reaping.owner] = None
    BY DEF SupInv, SupervisorTypeOK, Exit, OnlyDeadSettled, ClaimUnderLock
<1>1. CASE SettlePublished
    BY <1>0, <1>1 DEF SettlePublished, Next, ControlStep
<1>2. CASE SettleAttempt
  <2>1. reaping.owner \in Owner /\ reaping.job \in Job /\ claim[reaping.owner] = None
      BY <1>0, <1>2 DEF SettleAttempt
  <2>2. PICK w \in Owner, j \in Job : w = reaping.owner /\ j = reaping.job
      BY <2>1
  <2>3. \/ EndCancelled(w, j, reaping.fence, reaping.at)
        \/ EndFailed(w, j, reaping.fence, reaping.at)
      BY <1>2, <2>2 DEF SettleAttempt
  <2>4. reaping.fence = jobs[j].fence
      BY <2>3 DEF EndCancelled, EndFailed, HeldBy
  <2>5. CloseAttempt(w, j)
      BY <1>2, <2>1, <2>2, <2>3, <2>4 DEF SettleAttempt, CloseAttempt
  <2> QED
      BY <2>5 DEF Next
<1>3. CASE SettleExpired
    BY <1>0, <1>3 DEF SettleExpired, ConfirmExited, Next, ControlStep
<1>4. CASE SettleAbandoned
    BY <1>4 DEF SettleAbandoned
<1> QED
    BY <1>1, <1>2, <1>3, <1>4

LEMMA ReapSimulation ==
    ASSUME SupInv, NEW s \in Slots, Reap(s)
    PROVE  [Next]_vars
<1>1. slot[s] \in Owner /\ runs[slot[s]] \in Job
    BY DEF SupInv, SupervisorTypeOK, Launched, Reap
<1>2. \/ ReadWaitingFailure(runs[slot[s]])
      \/ UNCHANGED vars
    BY DEF Reap
<1> QED
    BY <1>1, <1>2 DEF Next, ControlStep

LEMMA SupervisorSimulation ==
    ASSUME SupInv, SupervisorStep
    PROVE  [Next]_vars
<1>1. ASSUME NEW s \in Slots, NEW w \in Owner, NEW j \in Job,
             StartWorker(s, w, j) \/ StartFails(s, w, j)
      PROVE  [Next]_vars
    BY <1>1 DEF StartWorker, StartFails, Next, ControlStep
<1>2. CASE FinishDecision
    BY <1>2 DEF FinishDecision, Next
<1> QED
    BY <1>1, <1>2, ReapSimulation, SettleSimulation, ScanSimulation DEF SupervisorStep

LEMMA WorkerSimulation ==
    ASSUME SupInv, NEW w \in Owner,
           AcquireLock(w) \/ Work(w) \/ WorkerLeaves(w) \/ WorkerDies(w) \/ TreeExits(w)
    PROVE  [Next]_vars
<1>1. CASE Work(w)
  <2>1. runs[w] \in Job
      BY <1>1 DEF Work, SupInv, Launched
  <2> QED
      BY <1>1, <2>1 DEF Work, Next
<1>2. CASE WorkerDies(w)
    BY <1>2, ForgetsIsLeave DEF WorkerDies, SupInv
<1> QED
    BY <1>1, <1>2 DEF AcquireLock, WorkerLeaves, TreeExits

LEMMA ServiceSimulation ==
    ASSUME SupInv, BeginStop \/ Stopped \/ Crash \/ Restart
    PROVE  [Next]_vars
<1>1. CASE Crash
    BY <1>1 DEF Crash, Next
<1> QED
    BY <1>1 DEF BeginStop, Stopped, Restart

LEMMA StepSimulation ==
    ASSUME SupInv, [SupervisorNext]_svars
    PROVE  [Next]_vars
<1>1. ASSUME NEW j \in Job, Cancel(j) PROVE [Next]_vars
    BY <1>1 DEF Cancel, Next, ControlStep
<1>2. ASSUME Tick PROVE [Next]_vars
    BY <1>2 DEF Next
<1>3. ASSUME UNCHANGED svars PROVE [Next]_vars
    BY <1>3 DEF svars, vars
<1>4. ASSUME NEW s \in Slots, Terminate(s) PROVE [Next]_vars
  <2>1. slot[s] \in Owner
      BY <1>4 DEF Terminate, SupInv, SupervisorTypeOK
  <2> QED
      BY <1>4, <2>1, WorkerSimulation DEF Terminate
<1> QED
    BY <1>1, <1>2, <1>3, <1>4, SupervisorSimulation, WorkerSimulation, ServiceSimulation
    DEF SupervisorNext

-----------------------------------------------------------------------------
(* The invariant.                                                          *)

\* The parts about the processes; the rows follow from StepSimulation.
ProcInv ==
    /\ service \in {"up", "stopping", "down"}
    /\ downs \in 0..MaxDowns
    /\ worker \in [Owner -> Tree]
    /\ runs \in [Owner -> Job \cup {None}]
    /\ receipt \in [Job -> Owner \cup {None}]
    /\ slot \in [Slots -> Owner \cup {None}]
    /\ reaping \in Exit \cup {None}
    /\ Launched
    /\ ClaimUnderLock
    /\ OnlyDeadSettled

LEMMA SupInvSplit == SupInv <=> RowInv /\ ProcInv
BY DEF SupInv, ProcInv, SupervisorTypeOK, RowInv

\* A recovery is decided for the tree proved gone.
LEMMA RecoveryOfDead ==
    ASSUME TypeOK, NEW j \in Job, NEW o, NEW fence, ConfirmExited(j, o, fence)
    PROVE  /\ recovering' # None => recovering'.owner = o
           /\ worker[o] = "gone"
           /\ UNCHANGED <<claim, failing>>
BY DEF ConfirmExited, ExecutionExited, ReadRecovery, HeldBy

LEMMA WorkerProc ==
    ASSUME SupInv, NEW w \in Owner,
           AcquireLock(w) \/ Work(w) \/ WorkerLeaves(w) \/ WorkerDies(w) \/ TreeExits(w)
    PROVE  ProcInv'
<1> USE DEF SupInv, ProcInv, SupervisorTypeOK
<1>1. CASE AcquireLock(w)
    BY <1>1 DEF AcquireLock, Tree, Launched, ClaimUnderLock, OnlyDeadSettled, vars
<1>2. CASE Work(w)
  <2>1. UNCHANGED own /\ worker[w] = "locked" /\ runs[w] \in Job
      BY <1>2 DEF Work, Launched
  <2>2. ClaimUnderLock'
    <3>1. ASSUME LeaveAttempt(w) PROVE ClaimUnderLock'
        BY <2>1, <3>1 DEF LeaveAttempt, ClaimUnderLock, TypeOK, own
    <3>2. ASSUME WorkerStep(w, runs[w]) PROVE ClaimUnderLock'
      <4>1. /\ \A v \in Owner \ {w} : claim'[v] = claim[v]
            /\ claim'[w] # None => claim'[w].job = runs[w]
          BY <2>1, <3>2 DEF WorkerStep, ClaimJob, RenewLease, CompleteResult,
             PublishWithoutCommit, RunnerReports, CompleteCancellation, RecordFatalFailure,
             ReadRetryableFailure, WriteRetryableFailure, TypeOK
      <4> QED
          BY <2>1, <4>1 DEF ClaimUnderLock, own
    <3> QED
        BY <1>2, <3>1, <3>2 DEF Work
  <2>3. recovering' = recovering
      BY <1>2 DEF Work, LeaveAttempt, WorkerStep, ClaimJob, RenewLease, CompleteResult,
         PublishWithoutCommit, RunnerReports, CompleteCancellation, RecordFatalFailure, EndCancelled,
         EndFailed, ReadRetryableFailure, WriteRetryableFailure
  <2> QED
      BY <2>1, <2>2, <2>3 DEF own, Launched, OnlyDeadSettled
<1>3. CASE WorkerLeaves(w)
    BY <1>3 DEF WorkerLeaves, Tree, Launched, ClaimUnderLock, OnlyDeadSettled, vars
<1>4. CASE WorkerDies(w)
    BY <1>4 DEF WorkerDies, Alive, Forgets, Tree, Launched, ClaimUnderLock,
                OnlyDeadSettled, TypeOK
<1>5. CASE TreeExits(w)
    BY <1>5 DEF TreeExits, Tree, Launched, ClaimUnderLock, OnlyDeadSettled, vars
<1> QED
    BY <1>1, <1>2, <1>3, <1>4, <1>5

LEMMA LaunchProc ==
    ASSUME SupInv, NEW s \in Slots, NEW w \in Owner, NEW j \in Job,
           StartWorker(s, w, j) \/ StartFails(s, w, j)
    PROVE  ProcInv'
<1> USE DEF SupInv, ProcInv, SupervisorTypeOK
<1>0. claim[w] = None
    BY DEF StartWorker, StartFails, ClaimUnderLock
<1>1. CASE StartWorker(s, w, j)
    BY <1>0, <1>1, SupervisorAssumption, JobControlAssumption
    DEF StartWorker, Tree, Launched, ClaimUnderLock, OnlyDeadSettled, vars,
        Schedules, Idle
<1>2. CASE StartFails(s, w, j)
    BY <1>0, <1>2 DEF StartFails, ReadWaitingFailure, Tree, Launched, ClaimUnderLock,
        OnlyDeadSettled, Schedules, Idle
<1> QED
    BY <1>1, <1>2

LEMMA ReapProc ==
    ASSUME SupInv, NEW s \in Slots, Reap(s)
    PROVE  ProcInv'
<1> USE DEF SupInv, ProcInv, SupervisorTypeOK
<1>1. PICK w \in Owner, j \in Job : w = slot[s] /\ j = runs[w]
    BY DEF Reap, Launched
<1>2. /\ worker' = [worker EXCEPT ![w] = "gone"]
      /\ slot' = [slot EXCEPT ![s] = None]
      /\ UNCHANGED <<service, downs, runs, receipt, claim, recovering>>
    BY <1>1 DEF Reap, TreeReleased, ReadWaitingFailure, vars
<1>3. worker[w] \in {"left", "gone"} /\ reaping = None /\ recovering = None
    BY <1>1 DEF Reap, Exited, Idle
<1>4. /\ reaping' \in Exit \cup {None}
      /\ reaping' # None => reaping'.owner = w
  <2>1. CASE reaping' = reaping
      BY <1>3, <2>1
  <2>2. CASE OwnRow(j, w)
    <3>1. jobs[j] \in JobRow /\ jobs[j].owner = w
        BY <2>2 DEF OwnRow, TypeOK
    <3>2. CASE reaping' = reaping
        BY <1>3, <3>2
    <3>3. CASE \E at \in Recent :
                    reaping' = [job |-> j, owner |-> jobs[j].owner, fence |-> jobs[j].fence,
                                cancel |-> jobs[j].cancel,
                                valid |-> jobs[j].expires > at, at |-> at]
      <4>1. PICK at \in Recent :
                    reaping' = [job |-> j, owner |-> jobs[j].owner, fence |-> jobs[j].fence,
                                cancel |-> jobs[j].cancel,
                                valid |-> jobs[j].expires > at, at |-> at]
          BY <3>3
      <4>2. /\ at \in Nat /\ jobs[j].fence \in Nat /\ jobs[j].cancel \in BOOLEAN
            /\ (jobs[j].expires > at) \in BOOLEAN
          BY <3>1, RecentNat DEF TypeOK, JobRow
      <4> QED
          BY <3>1, <4>1, <4>2 DEF Exit
    <3> QED
        BY <1>1, <3>2, <3>3 DEF Reap, vars
  <2> QED
      BY <1>1, <2>1, <2>2 DEF Reap, vars
<1> QED
    BY <1>1, <1>2, <1>3, <1>4 DEF Tree, Launched, ClaimUnderLock, OnlyDeadSettled

LEMMA SettleProc ==
    ASSUME SupInv,
           \/ SettlePublished \/ SettleAttempt \/ SettleExpired \/ SettleAbandoned
           \/ FinishDecision \/ \E j \in Job : ScanRecovery(j)
    PROVE  ProcInv'
<1> USE DEF SupInv, ProcInv, SupervisorTypeOK
<1>1. CASE SettlePublished
    BY <1>1 DEF SettlePublished, ReconcileResult, Launched, ClaimUnderLock, OnlyDeadSettled
<1>2. CASE SettleAttempt
    BY <1>2 DEF SettleAttempt, EndCancelled, EndFailed, Launched, ClaimUnderLock,
                OnlyDeadSettled
<1>3. CASE SettleExpired
  <2>1. reaping.job \in Job
      BY <1>3 DEF SettleExpired, Exit
  <2>2. /\ recovering' # None => recovering'.owner = reaping.owner
        /\ worker[reaping.owner] = "gone" /\ UNCHANGED claim
      BY <1>3, <2>1, RecoveryOfDead DEF SettleExpired
  <2> QED
      BY <1>3, <2>2 DEF SettleExpired, Launched, ClaimUnderLock, OnlyDeadSettled
<1>4. CASE SettleAbandoned
    BY <1>4 DEF SettleAbandoned, vars, Launched, ClaimUnderLock, OnlyDeadSettled
<1>5. CASE FinishDecision
    BY <1>5 DEF FinishDecision, RecordWaitingFailure, DropWaitingFailure, ConfirmRecovery,
                DropRecovery, own, Launched, ClaimUnderLock, OnlyDeadSettled
<1>6. ASSUME NEW j \in Job, ScanRecovery(j) PROVE ProcInv'
  <2>1. CASE ConfirmExited(j, jobs[j].owner, jobs[j].fence)
      BY <1>6, <2>1, RecoveryOfDead DEF ScanRecovery, own, Launched, ClaimUnderLock,
         OnlyDeadSettled, Idle
  <2>2. CASE ReconcileResult(j)
      BY <1>6, <2>2 DEF ScanRecovery, ReconcileResult, own, Launched, ClaimUnderLock,
         OnlyDeadSettled
  <2> QED
      BY <1>6, <2>1, <2>2 DEF ScanRecovery
<1> QED
    BY <1>1, <1>2, <1>3, <1>4, <1>5, <1>6

LEMMA ServiceProc ==
    ASSUME SupInv, BeginStop \/ Stopped \/ Crash \/ Restart \/ \E s \in Slots : Terminate(s)
    PROVE  ProcInv'
<1> USE DEF SupInv, ProcInv, SupervisorTypeOK
<1>0. MaxDowns \in Nat
    BY SupervisorAssumption DEF SupervisorAssumption
<1>1. CASE BeginStop
    BY <1>0, <1>1 DEF BeginStop, vars, Launched, ClaimUnderLock, OnlyDeadSettled
<1>2. CASE Stopped
    BY <1>2 DEF Stopped, vars, Launched, ClaimUnderLock, OnlyDeadSettled
<1>3. CASE Crash
    BY <1>0, <1>3 DEF Crash, Outage, Tree, Launched, ClaimUnderLock, OnlyDeadSettled, TypeOK
<1>4. CASE Restart
    BY <1>4 DEF Restart, vars, Launched, ClaimUnderLock, OnlyDeadSettled
<1>5. ASSUME NEW s \in Slots, Terminate(s) PROVE ProcInv'
    BY <1>5, WorkerProc DEF Terminate
<1> QED
    BY <1>1, <1>2, <1>3, <1>4, <1>5

\* Time and requests touch no process.
LEMMA OtherProc ==
    ASSUME SupInv,
           \/ Tick /\ UNCHANGED own
           \/ \E j \in Job : Cancel(j)
           \/ UNCHANGED svars
    PROVE  ProcInv'
<1> USE DEF SupInv, ProcInv, SupervisorTypeOK
<1>1. CASE Tick /\ UNCHANGED own
    BY <1>1 DEF Tick, own, Launched, ClaimUnderLock, OnlyDeadSettled
<1>2. ASSUME NEW j \in Job, Cancel(j) PROVE ProcInv'
    BY <1>2 DEF Cancel, RequestCancellation, own, Launched, ClaimUnderLock, OnlyDeadSettled
<1>3. CASE UNCHANGED svars
    BY <1>3 DEF svars, Launched, ClaimUnderLock, OnlyDeadSettled
<1> QED
    BY <1>1, <1>2, <1>3

LEMMA SupStep ==
    ASSUME SupInv, [SupervisorNext]_svars
    PROVE  SupInv'
<1>1. RowInv'
    BY StepSimulation, StepRows DEF SupInv
<1>2. ProcInv'
    BY WorkerProc, LaunchProc, ReapProc, SettleProc, ServiceProc, OtherProc
    DEF SupervisorNext, SupervisorStep
<1> QED
    BY <1>1, <1>2 DEF SupInv, ProcInv, SupervisorTypeOK, RowInv

LEMMA SupInit == SupervisorInit => SupInv
<1> SUFFICES ASSUME SupervisorInit PROVE SupInv
    OBVIOUS
<1>1. RowInv
    BY InitRows DEF SupervisorInit
<1>2. MaxDowns \in Nat
    BY SupervisorAssumption DEF SupervisorAssumption
<1>3. ProcInv
    BY <1>2 DEF SupervisorInit, Init, ProcInv, Tree, Launched, ClaimUnderLock, OnlyDeadSettled
<1> QED
    BY <1>1, <1>3 DEF SupInv, ProcInv, SupervisorTypeOK, RowInv

-----------------------------------------------------------------------------
(* The theorems.                                                           *)

\* What the supervisor decides in the place of a Worker it decides after every
\* process of that Worker's tree is gone.
THEOREM DecidesOnlyForDead == SupervisorSpec => []OnlyDeadSettled
<1>1. SupInv => OnlyDeadSettled
    BY DEF SupInv
<1> QED
    BY <1>1, SupInit, SupStep, PTL DEF SupervisorSpec

\* Supervisor, Workers and service together behave as JobControl describes.
THEOREM SupervisorImplementsControl == SupervisorSpec => ImplementsControl
<1>1. SupervisorInit => Init
    BY DEF SupervisorInit
<1>2. SupInv /\ [SupervisorNext]_svars => [Next]_vars
    BY StepSimulation
<1> QED
    BY <1>1, <1>2, SupInit, SupStep, PTL DEF SupervisorSpec, ImplementsControl, Spec

\* Slots, Workers, receipts and what was read of an ended Worker keep their
\* types.
THEOREM SupervisorTyping == SupervisorSpec => []SupervisorTypeOK
<1>1. SupInv => SupervisorTypeOK
    BY DEF SupInv
<1> QED
    BY <1>1, SupInit, SupStep, PTL DEF SupervisorSpec

\* So the rows stay consistent whatever stops, dies or restarts.
THEOREM SupervisedRowsConsistent == SupervisorSpec => []RowConstraints
BY SupervisorImplementsControl, RowsConsistent, PTL DEF ImplementsControl

\* And whatever stops, dies or restarts, a job ends once, together with its Run
\* or Recording and with its last event, no success follows a cancellation, and
\* nobody but its holder, or who stands in for it, ends it.
THEOREM SupervisedJobsEndOnce ==
    SupervisorSpec => /\ []TargetAgrees /\ []TrailEndsInState
                      /\ TerminalIsFinal /\ CancelledNeverSucceeds /\ OnlyHolderFinishes
BY SupervisorImplementsControl, TargetsAgree, EventsEndInState, TerminalJobsStay,
   CancellationWins, HolderFinishes, PTL DEF ImplementsControl

-----------------------------------------------------------------------------
(* Where the kernel ends a tree with its supervisor, every tree that still *)
(* has a process is in a slot, and what the slots hold excludes each other.*)

Held(w) == \E s \in Slots : slot[s] = w

SlotInv ==
    /\ \A w \in Owner : worker[w] \notin {"unborn", "gone"} => Held(w)
    /\ \A w \in Owner : worker[w] = "unborn" => runs[w] = None
    /\ slot["primary"] # None /\ slot["peer"] # None =>
        /\ runs[slot["primary"]] # runs[slot["peer"]]
        /\ TargetType[runs[slot["primary"]]] = "PROOF_PREFLIGHT"
    /\ slot["peer"] # None => TargetType[runs[slot["peer"]]] = "PROOF_PREFLIGHT"

\* A step that launches nothing, drops no handle and revives no tree.
LEMMA SameSlots ==
    ASSUME SlotInv, UNCHANGED <<slot, runs>>,
           \A w \in Owner : \/ worker'[w] = worker[w]
                            \/ worker[w] # "unborn" /\ (worker'[w] = "gone" \/ Held(w))
                               /\ worker'[w] # "unborn"
    PROVE  SlotInv'
BY DEF SlotInv, Held

LEMMA WorkerSlots ==
    ASSUME SupInv, SlotInv, NEW w \in Owner,
           AcquireLock(w) \/ Work(w) \/ WorkerLeaves(w) \/ WorkerDies(w) \/ TreeExits(w)
    PROVE  SlotInv'
<1>1. worker \in [Owner -> Tree]
    BY DEF SupInv, SupervisorTypeOK
<1>2. UNCHANGED <<slot, runs>> /\ \A v \in Owner \ {w} : worker'[v] = worker[v]
    BY <1>1 DEF AcquireLock, Work, WorkerLeaves, WorkerDies, TreeExits, own
<1>3. \/ worker'[w] = worker[w]
      \/ /\ worker[w] \in {"starting", "locked", "left"}
         /\ worker'[w] \in {"locked", "left", "gone"}
    BY <1>1 DEF AcquireLock, Work, WorkerLeaves, WorkerDies, TreeExits, own, Alive
<1> QED
    BY <1>2, <1>3, SameSlots DEF SlotInv

LEMMA LaunchSlots ==
    ASSUME SupInv, SlotInv, NEW s \in Slots, NEW w \in Owner, NEW j \in Job,
           StartWorker(s, w, j) \/ StartFails(s, w, j)
    PROVE  SlotInv'
<1>0. /\ worker \in [Owner -> Tree] /\ runs \in [Owner -> Job \cup {None}]
      /\ slot \in [Slots -> Owner \cup {None}] /\ None \notin Owner
    BY JobControlAssumption DEF SupInv, SupervisorTypeOK, JobControlAssumption
<1>1. worker[w] = "unborn" /\ \A t \in Slots : slot[t] # w
    BY <1>0 DEF StartWorker, StartFails, SupInv, Launched
<1>2. CASE StartWorker(s, w, j)
  <2>1. /\ slot[s] = None
        /\ slot' = [slot EXCEPT ![s] = w]
        /\ runs' = [runs EXCEPT ![w] = j]
        /\ worker' = [worker EXCEPT ![w] = "starting"]
      BY <1>2 DEF StartWorker, Schedules, Admits
  <2>2. \A v \in Owner \ {w} : worker'[v] = worker[v] /\ runs'[v] = runs[v]
      BY <1>0, <2>1
  <2>3. \A v \in Owner : worker'[v] \notin {"unborn", "gone"} => Held(v)'
      BY <1>0, <1>1, <2>1, <2>2 DEF SlotInv, Held
  <2>4. \A v \in Owner : worker'[v] = "unborn" => runs'[v] = None
      BY <1>0, <2>1, <2>2 DEF SlotInv
  <2>5. CASE s = "primary"
    <3>1. slot'["primary"] = w /\ slot'["peer"] = slot["peer"]
        BY <1>0, <2>1, <2>5 DEF Slots
    <3>2. slot["peer"] # None => /\ j # runs[slot["peer"]]
                                 /\ TargetType[j] = "PROOF_PREFLIGHT"
        BY <1>2, <2>5 DEF StartWorker, Schedules, Admits
    <3>3. /\ runs'[w] = j
          /\ slot["peer"] # None => runs'[slot["peer"]] = runs[slot["peer"]]
        BY <1>0, <1>1, <2>1, <2>2 DEF Slots
    <3>4. slot'["peer"] # None =>
              /\ runs'[slot'["primary"]] # runs'[slot'["peer"]]
              /\ TargetType[runs'[slot'["primary"]]] = "PROOF_PREFLIGHT"
              /\ TargetType[runs'[slot'["peer"]]] = "PROOF_PREFLIGHT"
      <4> SUFFICES ASSUME slot["peer"] # None
                   PROVE  /\ runs'[w] # runs'[slot["peer"]]
                          /\ TargetType[runs'[w]] = "PROOF_PREFLIGHT"
                          /\ TargetType[runs'[slot["peer"]]] = "PROOF_PREFLIGHT"
          BY <3>1
      <4>1. TargetType[runs[slot["peer"]]] = "PROOF_PREFLIGHT"
          BY DEF SlotInv
      <4> QED
          BY <3>2, <3>3, <4>1
    <3> QED
        BY <2>3, <2>4, <3>4 DEF SlotInv
  <2>6. CASE s = "peer"
    <3>1. slot'["peer"] = w /\ slot'["primary"] = slot["primary"]
        BY <1>0, <2>1, <2>6 DEF Slots
    <3>2. /\ j # runs[slot["primary"]]
          /\ TargetType[j] = "PROOF_PREFLIGHT"
          /\ TargetType[runs[slot["primary"]]] = "PROOF_PREFLIGHT"
        BY <1>2, <2>6 DEF StartWorker, Schedules, Admits
    <3> QED
        BY <1>0, <1>1, <2>1, <2>2, <2>3, <2>4, <3>1, <3>2 DEF SlotInv, Slots
  <2> QED
      BY <2>5, <2>6 DEF Slots
<1>3. CASE StartFails(s, w, j)
  <2>1. /\ slot' = slot
        /\ runs' = [runs EXCEPT ![w] = j]
        /\ worker' = [worker EXCEPT ![w] = "gone"]
      BY <1>3 DEF StartFails
  <2> QED
      BY <1>0, <1>1, <2>1 DEF SlotInv, Held, Slots
<1> QED
    BY <1>2, <1>3

LEMMA ReapSlots ==
    ASSUME SupInv, SlotInv, NEW s \in Slots, Reap(s)
    PROVE  SlotInv'
<1>0. /\ worker \in [Owner -> Tree] /\ slot \in [Slots -> Owner \cup {None}]
      /\ None \notin Owner
    BY JobControlAssumption DEF SupInv, SupervisorTypeOK, JobControlAssumption
<1>1. PICK w \in Owner : w = slot[s]
    BY DEF Reap, SupInv, SupervisorTypeOK
<1>2. /\ worker' = [worker EXCEPT ![w] = "gone"]
      /\ slot' = [slot EXCEPT ![s] = None]
      /\ UNCHANGED runs
    BY <1>1 DEF Reap, TreeReleased
<1>3. \A v \in Owner \ {w} : Held(v) => Held(v)'
    BY <1>0, <1>1, <1>2 DEF Held
<1> QED
    BY <1>0, <1>2, <1>3 DEF SlotInv, Slots

LEMMA OtherSlots ==
    ASSUME KillOnClose, SupInv, SlotInv,
           \/ SettlePublished \/ SettleAttempt \/ SettleExpired \/ SettleAbandoned
           \/ FinishDecision \/ \E j \in Job : ScanRecovery(j) \/ Cancel(j)
           \/ BeginStop \/ Stopped \/ Crash \/ Restart
           \/ Tick /\ UNCHANGED own
           \/ UNCHANGED svars
    PROVE  SlotInv'
<1>1. CASE Crash
  <2>1. /\ worker' = [w \in Owner |-> IF worker[w] = "unborn" THEN "unborn" ELSE "gone"]
        /\ slot' = [s \in Slots |-> None]
        /\ UNCHANGED runs
      BY <1>1 DEF Crash
  <2> QED
      BY <2>1 DEF SlotInv, Slots
<1>2. CASE UNCHANGED <<worker, slot, runs>>
    BY <1>2 DEF SlotInv, Held
<1> QED
    BY <1>1, <1>2 DEF SettlePublished, SettleAttempt, SettleExpired, SettleAbandoned,
        FinishDecision, ScanRecovery, Cancel, BeginStop, Stopped, Restart, own, svars

LEMMA SlotStep ==
    ASSUME KillOnClose, SupInv, SlotInv, [SupervisorNext]_svars
    PROVE  SlotInv'
<1>1. ASSUME NEW s \in Slots, Terminate(s) PROVE SlotInv'
  <2>1. slot[s] \in Owner
      BY <1>1 DEF Terminate, SupInv, SupervisorTypeOK
  <2> QED
      BY <1>1, <2>1, WorkerSlots DEF Terminate
<1> QED
    BY <1>1, WorkerSlots, LaunchSlots, ReapSlots, OtherSlots DEF SupervisorNext, SupervisorStep

LEMMA SlotInit == SupervisorInit => SlotInv
BY DEF SupervisorInit, SlotInv, Slots

LEMMA SlotInvExcludes ==
    ASSUME SupInv, SlotInv
    PROVE  OneTreePerJob /\ ParallelOnlyPreflights
<1>0. /\ worker \in [Owner -> Tree] /\ slot \in [Slots -> Owner \cup {None}]
      /\ None \notin Owner
    BY JobControlAssumption DEF SupInv, SupervisorTypeOK, JobControlAssumption
<1>1. ASSUME NEW v \in Owner, NEW w \in Owner, v # w,
             worker[v] \notin {"unborn", "gone"}, worker[w] \notin {"unborn", "gone"}
      PROVE  /\ runs[v] # runs[w]
             /\ TargetType[runs[v]] = "PROOF_PREFLIGHT"
             /\ TargetType[runs[w]] = "PROOF_PREFLIGHT"
    BY <1>0, <1>1 DEF SlotInv, Held, Slots
<1>2. OneTreePerJob
    BY <1>0, <1>1 DEF OneTreePerJob, SlotInv
<1>3. ParallelOnlyPreflights
    BY <1>1 DEF ParallelOnlyPreflights, Alive
<1> QED
    BY <1>2, <1>3

\* No two trees launched for one job exist at the same time.
THEOREM OneTree ==
    ASSUME KillOnClose
    PROVE  SupervisorSpec => []OneTreePerJob
BY SupInit, SupStep, SlotInit, SlotStep, SlotInvExcludes, PTL DEF SupervisorSpec

\* Only preflights are executed beside each other.
THEOREM OnlyPreflightsInParallel ==
    ASSUME KillOnClose
    PROVE  SupervisorSpec => []ParallelOnlyPreflights
BY SupInit, SupStep, SlotInit, SlotStep, SlotInvExcludes, PTL DEF SupervisorSpec

-----------------------------------------------------------------------------
(* The source a waiting failure reports is read outside the lock.  It is   *)
(* still the state of the row when the UPDATE matches: the failure was met *)
(* while no tree of the job was left, none is launched before the decision *)
(* is through, and nothing but a claim takes a waiting job up.             *)

NoTree(j) == \A w \in Owner : runs[w] = j => worker[w] \in {"unborn", "gone"}

SeenInv ==
    failing # None =>
        /\ NoTree(failing.job)
        /\ jobs[failing.job].state \in {failing.seen} \cup Terminal

\* A failure is met where no tree of the job is left.
LEMMA FailureMet ==
    ASSUME SupInv, SlotInv,
           \/ \E s \in Slots, w \in Owner, j \in Job : StartFails(s, w, j)
           \/ \E s \in Slots : Reap(s) /\ failing' # None
    PROVE  SeenInv'
<1>0. /\ worker \in [Owner -> Tree] /\ runs \in [Owner -> Job \cup {None}]
      /\ slot \in [Slots -> Owner \cup {None}] /\ None \notin Owner
    BY JobControlAssumption DEF SupInv, SupervisorTypeOK, JobControlAssumption
<1>1. ASSUME NEW s \in Slots, NEW w \in Owner, NEW j \in Job, StartFails(s, w, j)
      PROVE  SeenInv'
  <2>1. /\ failing' = [job |-> j, seen |-> jobs[j].state] /\ jobs' = jobs
        /\ slot[s] = None
        /\ worker' = [worker EXCEPT ![w] = "gone"] /\ runs' = [runs EXCEPT ![w] = j]
      BY <1>1 DEF StartFails, ReadWaitingFailure, Schedules, Admits
  <2>2. \A t \in Slots : slot[t] # None => runs[slot[t]] # j
      BY <1>1, <2>1 DEF StartFails, Schedules, Admits, Slots
  <2>3. \A v \in Owner : worker[v] \notin {"unborn", "gone"} => runs[v] # j
      BY <1>0, <2>2 DEF SlotInv, Held
  <2>4. NoTree(j)'
      BY <1>0, <2>1, <2>3 DEF NoTree
  <2> QED
      BY <2>1, <2>4 DEF SeenInv, NoTree
<1>2. ASSUME NEW s \in Slots, Reap(s), failing' # None PROVE SeenInv'
  <2>1. PICK w \in Owner, j \in Job : w = slot[s] /\ j = runs[w]
      BY <1>2 DEF Reap, SupInv, SupervisorTypeOK, Launched
  <2>2. /\ failing' = [job |-> j, seen |-> jobs[j].state] /\ jobs' = jobs
        /\ worker' = [worker EXCEPT ![w] = "gone"] /\ runs' = runs
      BY <1>2, <2>1 DEF Reap, Idle, TreeReleased, ReadWaitingFailure, vars
  <2>3. \A v \in Owner \ {w} : worker[v] \notin {"unborn", "gone"} => runs[v] # j
      BY <1>0, <2>1 DEF SlotInv, Held, Slots
  <2>4. NoTree(j)'
      BY <1>0, <2>2, <2>3 DEF NoTree
  <2> QED
      BY <2>2, <2>4 DEF SeenInv, NoTree
<1> QED
    BY <1>1, <1>2

\* Until its decision is through no tree is launched and none revives.
LEMMA NoTreeLaunched ==
    ASSUME SupInv, failing # None, [SupervisorNext]_svars, failing' # None
    PROVE  /\ failing' = failing /\ runs' = runs
           /\ \A w \in Owner : worker[w] \in {"unborn", "gone"}
                => worker'[w] \in {"unborn", "gone"}
<1>0. worker \in [Owner -> Tree]
    BY DEF SupInv, SupervisorTypeOK
<1>1. ASSUME NEW w \in Owner, AcquireLock(w) \/ WorkerLeaves(w) \/ WorkerDies(w) \/ TreeExits(w)
      PROVE  /\ failing' = failing /\ runs' = runs
             /\ \A v \in Owner : worker[v] \in {"unborn", "gone"} => worker'[v] = worker[v]
    BY <1>0, <1>1 DEF AcquireLock, WorkerLeaves, WorkerDies, TreeExits, Alive, vars
<1>2. ASSUME NEW w \in Owner, Work(w) PROVE UNCHANGED <<failing, runs, worker>>
    BY <1>2 DEF Work, own, LeaveAttempt, WorkerStep, ClaimJob, RenewLease, CompleteResult,
       PublishWithoutCommit, RunnerReports, CompleteCancellation, RecordFatalFailure,
       EndCancelled, EndFailed, ReadRetryableFailure, WriteRetryableFailure
<1>3. ASSUME SupervisorStep PROVE UNCHANGED <<failing, runs, worker>>
    BY <1>3 DEF SupervisorStep, Reap, StartWorker, StartFails, Schedules, Idle,
       SettlePublished, SettleAttempt, SettleExpired, SettleAbandoned, ScanRecovery,
       FinishDecision, ConfirmExited, ReadRecovery, ReconcileResult, EndCancelled, EndFailed,
       RecordWaitingFailure, DropWaitingFailure, ConfirmRecovery, DropRecovery, own, vars
<1>4. ASSUME NEW s \in Slots, Terminate(s) PROVE FALSE
    BY <1>4 DEF Terminate, Idle
<1>5. ASSUME BeginStop \/ Stopped \/ Crash \/ Restart PROVE UNCHANGED <<failing, runs, worker>>
    BY <1>5 DEF BeginStop, Stopped, Crash, Outage, Restart, vars
<1>6. ASSUME \/ Tick /\ UNCHANGED own
             \/ \E j \in Job : Cancel(j)
             \/ UNCHANGED svars
      PROVE  UNCHANGED <<failing, runs, worker>>
    BY <1>6 DEF Tick, Cancel, RequestCancellation, own, svars
<1> QED
    BY <1>1, <1>2, <1>3, <1>4, <1>5, <1>6 DEF SupervisorNext

\* A waiting job is taken up by a Worker launched for it.
LEMMA BegunByWork ==
    ASSUME SupInv, [SupervisorNext]_svars, NEW k \in Job, Begins(k)
    PROVE  \E w \in Owner : worker[w] = "locked" /\ runs[w] = k
<1>0. TypeOK /\ jobs' # jobs
    BY DEF SupInv, RowInv, Begins, Waiting
<1>1. ASSUME NEW w \in Owner, Work(w) PROVE worker[w] = "locked" /\ runs[w] = k
  <2>1. WorkerStep(w, runs[w]) /\ runs[w] \in Job
      BY <1>0, <1>1 DEF Work, LeaveAttempt, SupInv, Launched
  <2> QED
      BY <1>0, <1>1, <2>1, WorkerBegins DEF Work
<1>2. ASSUME NEW w \in Owner, AcquireLock(w) \/ WorkerLeaves(w) \/ WorkerDies(w) \/ TreeExits(w)
      PROVE  FALSE
    BY <1>0, <1>2 DEF AcquireLock, WorkerLeaves, WorkerDies, TreeExits, vars
<1>3. ASSUME SupervisorStep PROVE FALSE
  <2>1. ASSUME SettleAttempt PROVE FALSE
    <3>1. reaping \in Exit
        BY <2>1 DEF SettleAttempt, SupInv, SupervisorTypeOK
    <3> QED
        BY <1>0, <2>1, <3>1, OthersBeginNothing DEF SettleAttempt, Exit
  <2>2. ASSUME SettlePublished PROVE FALSE
    <3>1. reaping \in Exit
        BY <2>2 DEF SettlePublished, SupInv, SupervisorTypeOK
    <3> QED
        BY <1>0, <2>2, <3>1, OthersBeginNothing DEF SettlePublished, Exit
  <2>3. ASSUME \/ \E s \in Slots : Reap(s)
               \/ \E s \in Slots, w \in Owner, j \in Job : StartWorker(s, w, j) \/ StartFails(s, w, j)
               \/ SettleExpired \/ SettleAbandoned
        PROVE  FALSE
      BY <1>0, <2>3 DEF Reap, StartWorker, StartFails, ReadWaitingFailure, SettleExpired,
         ConfirmExited, ReadRecovery, SettleAbandoned, vars
  <2>4. ASSUME NEW j \in Job, ScanRecovery(j) PROVE FALSE
      BY <1>0, <2>4, OthersBeginNothing DEF ScanRecovery, ConfirmExited, ReadRecovery
  <2>5. ASSUME FinishDecision PROVE FALSE
      BY <1>0, <2>5, OthersBeginNothing DEF FinishDecision, DropWaitingFailure, DropRecovery
  <2> QED
      BY <1>3, <2>1, <2>2, <2>3, <2>4, <2>5 DEF SupervisorStep
<1>4. ASSUME NEW j \in Job, Cancel(j) PROVE FALSE
    BY <1>0, <1>4, OthersBeginNothing DEF Cancel
<1>5. ASSUME \/ BeginStop \/ Stopped \/ Crash \/ Restart
             \/ \E s \in Slots : Terminate(s)
             \/ Tick /\ UNCHANGED own
             \/ UNCHANGED svars
      PROVE  FALSE
    BY <1>0, <1>5 DEF BeginStop, Stopped, Crash, Outage, Restart, Terminate, WorkerDies, Tick,
       vars, svars
<1> QED
    BY <1>1, <1>2, <1>3, <1>4, <1>5 DEF SupervisorNext

LEMMA SeenStep ==
    ASSUME SupInv, SlotInv, SeenInv, [SupervisorNext]_svars
    PROVE  SeenInv'
<1>1. CASE failing # None /\ failing' # None
  <2> DEFINE k == failing.job
  <2>1. /\ failing' = failing /\ runs' = runs /\ NoTree(k)'
      BY <1>1, NoTreeLaunched DEF SeenInv, NoTree
  <2>2. k \in Job /\ failing.seen \in Waiting
      BY <1>1 DEF SupInv, SupervisorTypeOK, TypeOK
  <2>3. [Next]_vars /\ TypeOK /\ SupInv'
      BY StepSimulation, SupStep DEF SupInv, RowInv
  <2>4. ~Begins(k)
    <3> SUFFICES ASSUME Begins(k) PROVE FALSE
        OBVIOUS
    <3>1. PICK w \in Owner : worker[w] = "locked" /\ runs[w] = k
        BY <2>2, BegunByWork
    <3> QED
        BY <1>1, <3>1 DEF SeenInv, NoTree
  <2>5. jobs'[k].state \in {failing.seen} \cup Terminal
    <3>1. jobs[k].state \in Waiting \cup Terminal
        BY <1>1, <2>2 DEF SeenInv
    <3>2. CASE Rests
        BY <1>1, <3>2 DEF Rests, SeenInv
    <3>3. ASSUME NEW j \in Job, Moves(j), j # k PROVE jobs'[k] = jobs[k]
        BY <2>2, <3>3 DEF Moves, Touches, Only
    <3>4. ASSUME Moves(k) PROVE jobs'[k].state \in Terminal
        BY <2>4, <3>1, <3>4 DEF Moves, Stays, PutsBack, Succeeds, Stops, Waiting, Terminal
    <3> QED
        BY <1>1, <2>3, <3>2, <3>3, <3>4, StepMoves DEF SeenInv
  <2> QED
      BY <2>1, <2>5 DEF SeenInv, NoTree
<1>2. CASE failing = None /\ failing' # None
  <2>1. \/ \E s \in Slots, w \in Owner, j \in Job : StartFails(s, w, j)
        \/ \E s \in Slots : Reap(s)
    <3>1. ASSUME NEW w \in Owner,
                 AcquireLock(w) \/ Work(w) \/ WorkerLeaves(w) \/ WorkerDies(w) \/ TreeExits(w)
          PROVE  failing' = failing
        BY <3>1 DEF AcquireLock, WorkerLeaves, WorkerDies, TreeExits, Work, LeaveAttempt,
           WorkerStep, ClaimJob, RenewLease, CompleteResult, PublishWithoutCommit,
           RunnerReports, CompleteCancellation, RecordFatalFailure, EndCancelled, EndFailed,
           ReadRetryableFailure, WriteRetryableFailure, vars
    <3>2. ASSUME SupervisorStep,
                 ~ \E s \in Slots, w \in Owner, j \in Job : StartFails(s, w, j),
                 ~ \E s \in Slots : Reap(s)
          PROVE  failing' = failing \/ failing' = None
        BY <3>2 DEF SupervisorStep, StartWorker, SettlePublished, SettleAttempt,
           SettleExpired, SettleAbandoned, ScanRecovery, FinishDecision, ConfirmExited,
           ReadRecovery, ReconcileResult, EndCancelled, EndFailed, RecordWaitingFailure,
           DropWaitingFailure, ConfirmRecovery, DropRecovery, vars
    <3>3. ASSUME \/ BeginStop \/ Stopped \/ Crash \/ Restart
                 \/ \E s \in Slots : Terminate(s)
                 \/ Tick /\ UNCHANGED own
                 \/ \E j \in Job : Cancel(j)
                 \/ UNCHANGED svars
          PROVE  failing' = failing \/ failing' = None
        BY <3>3 DEF BeginStop, Stopped, Crash, Outage, Restart, Terminate, WorkerDies, Tick,
           Cancel, RequestCancellation, vars, svars
    <3> QED
        BY <1>2, <3>1, <3>2, <3>3 DEF SupervisorNext
  <2> QED
      BY <1>2, <2>1, FailureMet
<1>3. CASE failing' = None
    BY <1>3 DEF SeenInv
<1> QED
    BY <1>1, <1>2, <1>3

LEMMA SeenHolds == SupInv /\ SeenInv => SeenIsTrue
BY DEF SeenInv, SeenIsTrue, StillWaiting, Waiting, Terminal

\* Where the trees die with their supervisor, every event names the state its
\* job was really in before, the event of a waiting failure too.
THEOREM EventsNameSource ==
    ASSUME KillOnClose
    PROVE  SupervisorSpec => TrailNamesSource
<1>1. SupervisorInit => SeenInv
    BY DEF SupervisorInit, Init, SeenInv
<1>2. SupInv /\ SlotInv /\ SeenInv /\ [SupervisorNext]_svars => SeenInv'
    BY SeenStep
<1>3. SupInv /\ SeenInv /\ [SupervisorNext]_svars =>
        [\A j \in Job : jobs'[j].state # jobs[j].state
            => trail'[j].source = jobs[j].state]_vars
    BY StepSimulation, SeenHolds, StepSources DEF SupInv
<1> QED
    BY <1>1, <1>2, <1>3, SupInit, SupStep, SlotInit, SlotStep, PTL
       DEF SupervisorSpec, TrailNamesSource
=============================================================================
