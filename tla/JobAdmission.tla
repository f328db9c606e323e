---------------------------- MODULE JobAdmission ----------------------------
(***************************************************************************)
(* How a check or a recording becomes a job.  The request snapshot is a    *)
(* file, the job a row, and no transaction spans both: the file is written *)
(* first and taken back when no job came of it.  Calls repeated under one  *)
(* idempotency key meet one job, and the queue has a limit.                *)
(*                                                                         *)
(* A SELECT does not open a transaction (see JobControl): what a call has  *)
(* read before its first INSERT may be out of date when it writes.         *)
(***************************************************************************)
EXTENDS Naturals, FiniteSets

CONSTANTS
    Submission,     \* calls; each draws a fresh job id, so it names its job too
    Kind,           \* operation_type of each call
    Project,        \* project of each call
    Key,            \* idempotency key of each call
    Wish,           \* what each call asks for
    Home,           \* the service process that serves each call
    OperationLimit, \* queue limits: of a kind within a project,
    ProjectLimit,   \* of a project,
    GlobalLimit,    \* of the workspace
    MaxUnclear,     \* bound: commits of a kind that take effect but are
                    \* reported failed
    None

Kinds == {"CHECK", "BROWSER_RECORDING"}

ASSUME AdmissionAssumption ==
    /\ Kind \in [Submission -> Kinds]
    /\ OperationLimit \in [Kinds -> Nat]
    /\ ProjectLimit \in Nat /\ GlobalLimit \in Nat
    /\ MaxUnclear \in [Kinds -> Nat]
    \* A job id, NULL and an error are told apart.
    /\ Submission \cap {None, "CONFLICT", "FULL", "REFUSED"} = {}
    /\ None \notin {"CONFLICT", "FULL", "REFUSED", "waiting", "running", "over"}

VARIABLES
    at,       \* how far each call has come
    jobs,     \* the row each call inserted
    files,    \* calls with a request snapshot on disk
    sessions, \* recordings with credentials in the vault of their process
    answer,   \* the job each call was given, or why it was given none
    unclear   \* commits of each kind that took effect but were reported failed

vars == <<at, jobs, files, sessions, answer, unclear>>

\* new      called
\* fresh    no job of the key found
\* frozen   plan frozen, credentials in the vault
\* written  snapshot on disk
\* checked  inside the transaction: still no job of the key, preconditions met
\* raced    the INSERT met another job of the key
\* undoing  the call made no job that it knows of; its traces are to go
\* asking   a check looks once more for a job of the key
\* done, lost  answered, or its process is gone
Stage == {"new", "fresh", "frozen", "written", "checked", "raced", "undoing",
          "asking", "done", "lost"}

Active == Stage \ {"new", "done", "lost"}

\* CONFLICT: the key stands for another request.  FULL: no room in the queue.
\* REFUSED: every other error.
Refusal == {"CONFLICT", "FULL", "REFUSED"}

\* PENDING and RETRY_WAIT are waiting; the three terminal states are over.
Waiting == "waiting"
JobState == {Waiting, "running", "over"}

TypeOK ==
    /\ at \in [Submission -> Stage]
    /\ jobs \in [Submission -> JobState \cup {None}]
    /\ files \subseteq Submission
    /\ sessions \subseteq Submission
    /\ answer \in [Submission -> Submission \cup Refusal \cup {None}]
    /\ unclear \in [Kinds -> Nat]

Init ==
    /\ at = [s \in Submission |-> "new"]
    /\ jobs = [s \in Submission |-> None]
    /\ files = {}
    /\ sessions = {}
    /\ answer = [s \in Submission |-> None]
    /\ unclear = [k \in Kinds |-> 0]

-----------------------------------------------------------------------------
(* The tables as a call sees them.                                         *)

SameKey(r, s) == Kind[r] = Kind[s] /\ Project[r] = Project[s] /\ Key[r] = Key[s]

\* get_by_idempotency.
JobsOf(s) == {r \in Submission : jobs[r] # None /\ SameKey(r, s)}

\* Mutated: the requests are not compared.
SameRequest_ignored(r, s) == TRUE

\* The hash of the snapshots.  That of a recording covers its recording id,
\* which every call draws anew.
SameRequest(r, s) == IF Kind[s] = "CHECK" THEN Wish[r] = Wish[s] ELSE r = s

Queued(R) == Cardinality({r \in R : jobs[r] = Waiting})

\* Mutated: the limits are taken for what may already wait.
Room_offByOne(s) ==
    LET mates == {r \in Submission : Project[r] = Project[s]}
    IN /\ Queued(Submission) <= GlobalLimit
       /\ Queued(mates) <= ProjectLimit
       /\ Queued({r \in mates : Kind[r] = Kind[s]}) <= OperationLimit[Kind[s]]

\* JobRepository.capacity.
Room(s) ==
    LET mates == {r \in Submission : Project[r] = Project[s]}
    IN /\ Queued(Submission) < GlobalLimit
       /\ Queued(mates) < ProjectLimit
       /\ Queued({r \in mates : Kind[r] = Kind[s]}) < OperationLimit[Kind[s]]

\* JobRepository.add: a job of the key is left to the unique constraint.
Crowded(s) == JobsOf(s) = {} /\ ~Room(s)

\* uq_jobs_idempotency_scope.
Taken(s) == JobsOf(s) # {}

Goes(s, stage) == at' = [at EXCEPT ![s] = stage]
Told(s, what) == answer' = [answer EXCEPT ![s] = what]

\* What a call is told of a job accepted earlier: its request is read back from
\* disk and compared with what is asked for.
Recalled(s, r) ==
    Told(s, IF r \notin files THEN "REFUSED"
            ELSE IF Wish[r] = Wish[s] THEN r ELSE "CONFLICT")

-----------------------------------------------------------------------------
(* A call, step by step.                                                   *)

\* One check at a time within a process, by its submission lock.
LockFree(s) ==
    Kind[s] = "CHECK" => \A r \in Submission :
        Kind[r] = "CHECK" /\ Home[r] = Home[s] => at[r] \notin Active

\* _accepted_submission of a check, captured_existing of a recording.
LookUp(s) ==
    /\ at[s] = "new" /\ LockFree(s)
    /\ \/ JobsOf(s) = {} /\ Goes(s, "fresh") /\ UNCHANGED answer
       \/ \E r \in JobsOf(s) : Recalled(s, r) /\ Goes(s, "done")
    /\ UNCHANGED <<jobs, files, sessions, unclear>>

\* A check freezes its plan; a recording draws its credentials.
Prepare(s) ==
    /\ at[s] = "fresh"
    /\ Goes(s, "frozen")
    /\ sessions' = IF Kind[s] = "CHECK" THEN sessions ELSE sessions \cup {s}
    /\ UNCHANGED <<jobs, files, answer, unclear>>

\* It failed: the materials changed, or the identity is not logged in.
PrepareFails(s) ==
    /\ at[s] = "fresh"
    /\ Goes(s, IF Kind[s] = "CHECK" THEN "asking" ELSE "done")
    /\ Told(s, "REFUSED")
    /\ UNCHANGED <<jobs, files, sessions, unclear>>

WriteSnapshot(s) ==
    /\ at[s] = "frozen"
    /\ Goes(s, "written")
    /\ files' = files \cup {s}
    /\ UNCHANGED <<jobs, sessions, answer, unclear>>

\* A check may have written its bundle and not its request.
WriteFails(s) ==
    /\ at[s] = "frozen"
    /\ Goes(s, "undoing")
    /\ Told(s, "REFUSED")
    /\ files' \in IF Kind[s] = "CHECK" THEN {files, files \cup {s}} ELSE {files}
    /\ UNCHANGED <<jobs, sessions, unclear>>

\* What a call is given by a job found under its key.
Resolved(s, r) == Told(s, IF SameRequest(r, s) THEN r ELSE "CONFLICT")

\* JobQueue.submit and _submit_transaction_in_work up to the first INSERT.
ReadQueue(s) ==
    /\ at[s] = "written"
    /\ \/ \E r \in JobsOf(s) : Resolved(s, r) /\ Goes(s, "undoing")
       \/ JobsOf(s) = {} /\ Goes(s, "checked") /\ UNCHANGED answer
       \/ JobsOf(s) = {} /\ Goes(s, "undoing") /\ Told(s, "REFUSED")
    /\ UNCHANGED <<jobs, files, sessions, unclear>>

\* JobRepository.add and the commit, under the write lock.
Insert(s) ==
    /\ at[s] = "checked" /\ ~Taken(s) /\ ~Crowded(s)
    /\ jobs' = [jobs EXCEPT ![s] = Waiting]
    /\ Told(s, s)
    /\ Goes(s, "done")
    /\ UNCHANGED <<files, sessions, unclear>>

\* The commit takes effect, the call is told that it failed.
InsertUnclear(s) ==
    /\ at[s] = "checked" /\ ~Taken(s) /\ ~Crowded(s)
    /\ unclear[Kind[s]] < MaxUnclear[Kind[s]]
    /\ unclear' = [unclear EXCEPT ![Kind[s]] = @ + 1]
    /\ jobs' = [jobs EXCEPT ![s] = Waiting]
    /\ Told(s, "REFUSED")
    /\ Goes(s, "undoing")
    /\ UNCHANGED <<files, sessions>>

InsertRefused(s) ==
    /\ at[s] = "checked"
    /\ \/ Crowded(s) /\ Told(s, "FULL") /\ Goes(s, "undoing")
       \/ /\ ~Crowded(s) /\ Taken(s)
          /\ IF Kind[s] = "CHECK"
             THEN Goes(s, "raced") /\ UNCHANGED answer
             ELSE Goes(s, "undoing") /\ Told(s, "REFUSED")
       \/ ~Crowded(s) /\ ~Taken(s) /\ Told(s, "REFUSED") /\ Goes(s, "undoing")
    /\ UNCHANGED <<jobs, files, sessions, unclear>>

\* _resolve_submission_race.
ResolveRace(s) ==
    /\ at[s] = "raced"
    /\ \E r \in JobsOf(s) : Resolved(s, r)
    /\ Goes(s, "undoing")
    /\ UNCHANGED <<jobs, files, sessions, unclear>>

\* Mutated: a check does not ask whether a job refers to its snapshot.
Orphan_assumed(s) == TRUE

\* A check takes its snapshot back only if no job refers to it; a recording
\* takes it back without asking.
Orphan(s) == Kind[s] = "CHECK" => jobs[s] = None

\* Mutated: the credentials outlive the call.
Undo_keepsSession(s) ==
    /\ at[s] = "undoing"
    /\ files' = IF Orphan(s) THEN files \ {s} ELSE files
    /\ Goes(s, IF Kind[s] = "CHECK" /\ answer[s] \in Refusal THEN "asking" ELSE "done")
    /\ UNCHANGED <<jobs, sessions, answer, unclear>>

\* Mutated: the error is passed on at once.
Undo_final(s) ==
    /\ at[s] = "undoing"
    /\ files' = IF Orphan(s) THEN files \ {s} ELSE files
    /\ sessions' = sessions \ {s}
    /\ Goes(s, "done")
    /\ UNCHANGED <<jobs, answer, unclear>>

\* The finally of _submit, the except clauses of a recording.
Undo(s) ==
    /\ at[s] = "undoing"
    /\ files' = IF Orphan(s) THEN files \ {s} ELSE files
    /\ sessions' = sessions \ {s}
    /\ Goes(s, IF Kind[s] = "CHECK" /\ answer[s] \in Refusal THEN "asking" ELSE "done")
    /\ UNCHANGED <<jobs, answer, unclear>>

\* CheckService.submit: after an error the key is looked up once more.
Ask(s) ==
    /\ at[s] = "asking"
    /\ Goes(s, "done")
    /\ \/ JobsOf(s) = {} /\ UNCHANGED answer
       \/ \E r \in JobsOf(s) : Recalled(s, r)
    /\ UNCHANGED <<jobs, files, sessions, unclear>>

\* A service process ends, and with it its calls and its vault.
Stop(p) ==
    /\ at' = [s \in Submission |->
                IF Home[s] = p /\ at[s] \in Active THEN "lost" ELSE at[s]]
    /\ sessions' = {s \in sessions : Home[s] # p}
    /\ UNCHANGED <<jobs, files, answer, unclear>>

-----------------------------------------------------------------------------
(* What becomes of a job (JobControl), as far as the queue counts it.      *)

JobMoves(s) ==
    /\ \/ jobs[s] = Waiting /\ \E to \in {"running", "over"} : jobs' = [jobs EXCEPT ![s] = to]
       \/ jobs[s] = "running" /\ jobs' = [jobs EXCEPT ![s] = "over"]
       \* A retry; nobody asks whether there is room.
       \/ /\ jobs[s] = "running" /\ Kind[s] = "BROWSER_RECORDING"
          /\ jobs' = [jobs EXCEPT ![s] = Waiting]
    /\ UNCHANGED <<at, files, sessions, answer, unclear>>

Call(s) ==
    \/ LookUp(s) \/ Prepare(s) \/ PrepareFails(s) \/ WriteSnapshot(s) \/ WriteFails(s)
    \/ ReadQueue(s) \/ Insert(s) \/ InsertUnclear(s) \/ InsertRefused(s)
    \/ ResolveRace(s) \/ Undo(s) \/ Ask(s)

Next ==
    \/ \E s \in Submission : Call(s) \/ JobMoves(s)
    \/ \E p \in {Home[s] : s \in Submission} : Stop(p)

Spec == Init /\ [][Next]_vars

-----------------------------------------------------------------------------
(* What admission promises.                                                *)

\* The request of every job that is still to be executed is on disk.
RequestsKept == \A s \in Submission : jobs[s] \in {Waiting, "running"} => s \in files

\* A call that ended without a job of its own, other than with its process,
\* leaves neither a snapshot nor credentials behind.
NothingLeftBehind ==
    \A s \in Submission :
        at[s] = "done" /\ jobs[s] = None => s \notin files \cup sessions

\* Calls that were given a job under one key were given the same one, and it
\* is the one all of them asked for.
AnswersAgree ==
    \A r, s \in Submission :
        /\ answer[s] \in Submission =>
            /\ jobs[answer[s]] # None
            /\ SameKey(answer[s], s)
            /\ Wish[answer[s]] = Wish[s]
        /\ answer[r] \in Submission /\ answer[s] \in Submission /\ SameKey(r, s)
            => answer[r] = answer[s]

\* The admission rule of docs/工程/能力/执行任务与隔离.md:33: no job is admitted beyond a
\* limit, whatever is admitted or retried at the same time.
NotOversold ==
    [][\A s \in Submission : jobs[s] = None /\ jobs'[s] # None =>
        LET mates == {r \in Submission : Project[r] = Project[s]}
            queued(R) == Cardinality({r \in R : jobs'[r] = Waiting})
        IN /\ queued(Submission) <= GlobalLimit
           /\ queued(mates) <= ProjectLimit
           /\ queued({r \in mates : Kind[r] = Kind[s]}) <= OperationLimit[Kind[s]]]_vars

\* service.py:147: a check whose job was accepted, by this call or by another
\* under its key, is not answered with an error, whether the queue is full, a
\* commit reports failure or a precondition no longer holds.
AcceptedIsTold ==
    [][\A s \in Submission :
        Kind[s] = "CHECK" /\ at[s] # "done" /\ at'[s] = "done" /\ answer'[s] \in Refusal
            => \A r \in JobsOf(s) : Wish[r] # Wish[s]]_vars
=============================================================================
