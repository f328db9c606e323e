-------------------------- MODULE LocalMaintenance --------------------------
(***************************************************************************)
(* Cleaning up what the product leaves on the disk.  A preview freezes a   *)
(* plan in the memory of its process; executing it removes the chosen      *)
(* things one by one and keeps a receipt on disk, so that after a crash    *)
(* the user can read what was done and the plan is never carried on.  The  *)
(* service and the command line are processes of their own, which share    *)
(* the lock file; what the service does when it starts also runs under it. *)
(*                                                                         *)
(* A thing is a file or directory that one of the programs produced, or    *)
(* the receipt of an older plan.  Categories, sizes and the registration   *)
(* of owners are abstracted: the version of a file stands for its          *)
(* fingerprint together with its registered origin.                        *)
(***************************************************************************)
EXTENDS Integers, Sequences

CONSTANTS
    Process,     \* the service and invocations of the command line
    Service,     \* those of them that are the service
    Item,        \* generated files and directories
    Plan,        \* identifiers of plans, each drawn once
    Remembered,  \* results a process keeps in memory
    MaxVersion,  \* bound: how often a file is written anew
    MaxFaults,   \* bound: failed writes and removals
    MaxStarts,   \* bound: how often processes are started
    None

Thing == Item \cup Plan

VARIABLES
    up,        \* processes that run
    starts,    \* how often a process was started
    sweeping,  \* services whose maintenance at start is still to come
    file,      \* generated files and directories
    receipt,   \* maintenance-results: the receipt of each plan
    maker,     \* the process that made a plan, None before
    frozen,    \* _plans: fingerprints of what a plan may remove
    completed, \* _completed: plans whose result a process remembers
    task,      \* what the holder of the lock is doing
    touched,   \* what each plan has removed, wholly or in part
    faults     \* failed writes and removals so far

vars == <<up, starts, sweeping, file, receipt, maker, frozen, completed, task,
          touched, faults>>

File == [is : {"whole", "part", "gone"}, version : 0..MaxVersion, used : BOOLEAN]

Result == {"DELETED", "ALREADY_MISSING", "SKIPPED_IN_USE", "SKIPPED_CHANGED", "FAILED"}

Results == UNION {[T -> Result] : T \in SUBSET Thing}

Receipt == [phase : {"RUNNING", "COMPLETED", "REVIEWED"}, current : Thing \cup {None},
            results : Results, aged : BOOLEAN]

ASSUME MaintenanceAssumption ==
    /\ Service \subseteq Process
    /\ Item \cap Plan = {}
    /\ None \notin Process \cup Thing \cup Receipt
    /\ Remembered \in Nat \ {0}
    /\ MaxVersion \in Nat /\ MaxFaults \in Nat /\ MaxStarts \in Nat

\* What the holder of the lock does with the next thing; plan is None for the
\* maintenance at the start of a service.
\* next     between two things
\* named    the receipt on disk names the next one
\* checked  it may be removed
\* removing its removal has begun
\* told     its result is known to the process
Stage == {"next", "named", "checked", "removing", "told"}

MaintenanceTypeOK ==
    /\ up \subseteq Process
    /\ starts \in 0..MaxStarts
    /\ sweeping \subseteq Service \cap up
    /\ file \in [Item -> File]
    /\ receipt \in [Plan -> Receipt \cup {None}]
    /\ maker \in [Plan -> Process \cup {None}]
    /\ \A p \in Plan : frozen[p] # None => maker[p] \in up /\ DOMAIN frozen[p] \subseteq Thing
    /\ \A s \in Process : completed[s] \in Seq(Plan) /\ Len(completed[s]) <= Remembered
    /\ task # None =>
        /\ task.by \in up /\ task.todo \subseteq Thing
        /\ IF task.plan = None THEN task.by \in Service
           ELSE /\ maker[task.plan] = task.by /\ receipt[task.plan] # None
                /\ task.at \in Stage /\ task.result \in Result \cup {None}
                /\ task.at # "next" => task.thing \in DOMAIN task.seen
    /\ touched \in [Plan -> SUBSET Thing]
    /\ faults \in 0..MaxFaults

Init ==
    /\ up = {}
    /\ starts = 0
    /\ sweeping = {}
    /\ file = [i \in Item |-> [is |-> "whole", version |-> 0, used |-> FALSE]]
    /\ receipt = [p \in Plan |-> None]
    /\ maker = [p \in Plan |-> None]
    /\ frozen = [p \in Plan |-> None]
    /\ completed = [s \in Process |-> <<>>]
    /\ task = None
    /\ touched = [p \in Plan |-> {}]
    /\ faults = 0

-----------------------------------------------------------------------------
Present(x) == IF x \in Item THEN file[x].is # "gone" ELSE receipt[x] # None

Fingerprint(x) == IF x \in Item THEN <<file[x].is, file[x].version>> ELSE receipt[x].phase

\* Nobody uses the file; a receipt is kept for a day.
Idle(x) == IF x \in Item THEN ~file[x].used ELSE receipt[x].aged

Cleanable == {x \in Thing : Present(x) /\ Idle(x)}

\* Mutated: a lock that only holds between the threads of one process.
Free_ofProcess(s) == task # None => task.by # s

\* _locked: the lock file can be taken.
Free(s) == task = None

Executing(p) == task # None /\ task.plan = p

Remembers(s, p) == \E n \in DOMAIN completed[s] : completed[s][n] = p

\* outcome
Outcome(s, p) ==
    IF Remembers(s, p) THEN "COMPLETED"
    ELSE IF receipt[p] # None
    THEN IF receipt[p].phase = "COMPLETED" THEN "COMPLETED"
         ELSE IF Executing(p) /\ task.by = s THEN "PENDING" ELSE "INTERRUPTED"
    ELSE IF frozen[p] # None /\ maker[p] = s THEN "PENDING" ELSE "UNKNOWN"

Unresolved == {p \in Plan : receipt[p] # None /\ receipt[p].phase = "RUNNING"}

-----------------------------------------------------------------------------
(* The requests of the user.                                               *)

\* preview: the operation selects a part of what can be cleaned.
Preview(s, p) ==
    /\ s \in up /\ maker[p] = None
    /\ Free(s)
    /\ Unresolved = {}
    /\ maker' = [maker EXCEPT ![p] = s]
    /\ \E T \in SUBSET Cleanable : frozen' = [frozen EXCEPT ![p] = [x \in T |-> Fingerprint(x)]]
    /\ UNCHANGED <<up, starts, sweeping, file, receipt, completed, task, touched, faults>>

\* The plan is taken out of memory: it is executed once.
Begin(s, p, T) ==
    /\ task' = [by |-> s, plan |-> p, todo |-> T, seen |-> frozen[p],
                at |-> "next", thing |-> None, result |-> None]
    /\ frozen' = [frozen EXCEPT ![p] = None]

\* execute, as far as the loop.
Execute(s, p) ==
    /\ s \in up /\ maker[p] = s
    /\ Free(s)
    /\ Outcome(s, p) \notin {"COMPLETED", "INTERRUPTED"}
    /\ frozen[p] # None
    /\ \E T \in SUBSET DOMAIN frozen[p] :
        /\ T = {} => DOMAIN frozen[p] = {}
        /\ Begin(s, p, T)
    /\ receipt' = [receipt EXCEPT ![p] = [phase |-> "RUNNING", current |-> None,
                                          results |-> <<>>, aged |-> FALSE]]
    /\ UNCHANGED <<up, starts, sweeping, file, maker, completed, touched, faults>>

\* Mutated: what was interrupted is written down as completed.
Reviewed_completes == "COMPLETED"

Reviewed == "REVIEWED"

\* review_interruption
Review(s, p) ==
    /\ s \in up
    /\ Free(s)
    /\ Outcome(s, p) = "INTERRUPTED"
    /\ receipt' = [receipt EXCEPT ![p].phase = Reviewed, ![p].aged = FALSE]
    /\ UNCHANGED <<up, starts, sweeping, file, maker, frozen, completed, task, touched, faults>>

-----------------------------------------------------------------------------
(* The loop of execute.                                                    *)

Loop(at) == task # None /\ task.plan # None /\ task.at = at

\* The execution goes on: where it is, at which thing and with what result.
Goes(at, thing, result) ==
    task' = [by |-> task.by, plan |-> task.plan, todo |-> task.todo \ {thing},
             seen |-> task.seen, at |-> at, thing |-> thing, result |-> result]

\* _save_receipt of the running plan: the new receipt replaces the old one.
Saves(current, results) ==
    receipt' = [receipt EXCEPT ![task.plan] = [phase |-> "RUNNING", current |-> current,
                                               results |-> results, aged |-> FALSE]]

\* Mutated: the receipt is written when the result is known.
Name_late(x) == Goes("named", x, None) /\ UNCHANGED receipt

Name(x) ==
    /\ Saves(x, receipt[task.plan].results)
    /\ Goes("named", x, None)

\* current_item is on disk before the thing is looked at.
NameNext ==
    /\ Loop("next")
    /\ \E x \in task.todo : Name(x)
    /\ UNCHANGED <<up, starts, sweeping, file, maker, frozen, completed, touched, faults>>

Tells(result) == Goes("told", task.thing, result)

\* _execute_candidate: absence, origin, references, then the fingerprint; of a
\* thing that is both changed and in use either may be told.
Check ==
    /\ Loop("named")
    /\ LET x == task.thing
       IN IF ~Present(x) THEN Tells("ALREADY_MISSING")
          ELSE \/ Fingerprint(x) # task.seen[x] /\ Tells("SKIPPED_CHANGED")
               \/ ~Idle(x) /\ Tells("SKIPPED_IN_USE")
               \/ /\ Fingerprint(x) = task.seen[x] /\ Idle(x)
                  /\ Goes("checked", x, None)
    /\ UNCHANGED <<up, starts, sweeping, file, receipt, maker, frozen, completed, touched, faults>>

Removes(x) ==
    IF x \in Item
    THEN file' = [file EXCEPT ![x].is = "gone"] /\ UNCHANGED receipt
    ELSE receipt' = [receipt EXCEPT ![x] = None] /\ UNCHANGED file

\* _remove_under: the last look at the tree.
BeginRemoval ==
    /\ Loop("checked") /\ Present(task.thing)
    /\ Goes("removing", task.thing, None)
    /\ UNCHANGED <<up, starts, sweeping, file, receipt, maker, frozen, completed, touched, faults>>

Touches(x) == touched' = [touched EXCEPT ![task.plan] = @ \cup {x}]

\* rmtree has removed a part of a directory.
RemovePart ==
    /\ Loop("removing")
    /\ task.thing \in Item /\ file[task.thing].is = "whole"
    /\ file' = [file EXCEPT ![task.thing].is = "part"]
    /\ Touches(task.thing)
    /\ UNCHANGED <<up, starts, sweeping, receipt, maker, frozen, completed, task, faults>>

Remove ==
    /\ Loop("removing") /\ Present(task.thing)
    /\ Removes(task.thing)
    /\ Touches(task.thing)
    /\ Tells("DELETED")
    /\ UNCHANGED <<up, starts, sweeping, maker, frozen, completed, faults>>

\* The rest cannot be removed: a handle is open, which is answered as in use,
\* or there is another error.  What another program takes away in between is
\* answered as deleted, if nobody looked at it again, or as failed.
RemoveFails ==
    /\ Loop("removing")
    /\ IF ~Present(task.thing)
       THEN (Tells("DELETED") \/ Tells("FAILED")) /\ UNCHANGED faults
       ELSE \/ /\ task.thing \in Item /\ file[task.thing].used
               /\ Tells("SKIPPED_IN_USE") /\ UNCHANGED faults
            \/ /\ faults < MaxFaults /\ faults' = faults + 1
               /\ Tells("SKIPPED_IN_USE") \/ Tells("FAILED")
    /\ UNCHANGED <<up, starts, sweeping, file, receipt, maker, frozen, completed, touched>>

Record ==
    Saves(None, [x \in DOMAIN receipt[task.plan].results \cup {task.thing} |->
        IF x = task.thing THEN task.result ELSE receipt[task.plan].results[x]])

RecordResult ==
    /\ Loop("told")
    /\ Record
    /\ Goes("next", None, None)
    /\ UNCHANGED <<up, starts, sweeping, file, maker, frozen, completed, touched, faults>>

\* A receipt cannot be written, or the thing to remove has vanished before the
\* last look at it: the exception ends execute.
Interrupted ==
    /\ \/ /\ Loop("next") \/ Loop("told")
          /\ faults < MaxFaults /\ faults' = faults + 1
       \/ Loop("checked") /\ ~Present(task.thing) /\ UNCHANGED faults
    /\ task' = None
    /\ UNCHANGED <<up, starts, sweeping, file, receipt, maker, frozen, completed, touched>>

\* _completed keeps the latest results.
Kept(results) == IF Len(results) > Remembered THEN Tail(results) ELSE results

\* The result is remembered whether or not its receipt can be written.
Finish ==
    /\ Loop("next") /\ task.todo = {}
    /\ completed' = [completed EXCEPT ![task.by] = Kept(Append(@, task.plan))]
    /\ \/ /\ receipt' = [receipt EXCEPT ![task.plan].phase = "COMPLETED",
                                        ![task.plan].aged = FALSE]
          /\ UNCHANGED faults
       \/ /\ faults < MaxFaults /\ faults' = faults + 1
          /\ UNCHANGED receipt
    /\ task' = None
    /\ UNCHANGED <<up, starts, sweeping, file, maker, frozen, touched>>

-----------------------------------------------------------------------------
(* startup_maintenance                                                     *)

\* What is older than a day when the service starts.
BeginSweep(s) ==
    /\ s \in sweeping
    /\ sweeping' = sweeping \ {s}
    /\ IF Free(s)
       THEN \E T \in SUBSET Cleanable :
            /\ {x \in Cleanable : x \in Plan} \subseteq T
            /\ task' = [by |-> s, plan |-> None, todo |-> T]
       ELSE UNCHANGED task
    /\ UNCHANGED <<up, starts, file, receipt, maker, frozen, completed, touched, faults>>

Sweeps == task # None /\ task.plan = None

\* What is in use is passed over, the rest is removed.
SweepNext ==
    /\ Sweeps
    /\ \E x \in task.todo :
        /\ task' = [by |-> task.by, plan |-> None, todo |-> task.todo \ {x}]
        /\ IF ~Present(x) \/ (x \in Item /\ file[x].used)
           THEN UNCHANGED <<file, receipt>>
           ELSE Removes(x)
    /\ UNCHANGED <<up, starts, sweeping, maker, frozen, completed, touched, faults>>

\* The end, or an error, which is logged and leaves the rest where it is.
EndSweep ==
    /\ Sweeps
    /\ \/ task.todo = {} /\ UNCHANGED <<file, faults>>
       \/ /\ faults < MaxFaults /\ faults' = faults + 1
          /\ \/ UNCHANGED file
             \/ \E i \in Item \cap task.todo : Present(i) /\ file' = [file EXCEPT ![i].is = "part"]
    /\ task' = None
    /\ UNCHANGED <<up, starts, sweeping, receipt, maker, frozen, completed, touched>>

-----------------------------------------------------------------------------
(* The processes, the producers of the files and the calendar.             *)

Start(s) ==
    /\ s \notin up /\ starts < MaxStarts
    /\ up' = up \cup {s}
    /\ starts' = starts + 1
    /\ sweeping' = IF s \in Service THEN sweeping \cup {s} ELSE sweeping
    /\ UNCHANGED <<file, receipt, maker, frozen, completed, task, touched, faults>>

\* The process ends or is killed: its memory and its lock are gone.
Stop(s) ==
    /\ s \in up
    /\ up' = up \ {s}
    /\ sweeping' = sweeping \ {s}
    /\ frozen' = [p \in Plan |-> IF maker[p] = s THEN None ELSE frozen[p]]
    /\ completed' = [completed EXCEPT ![s] = <<>>]
    /\ task' = IF task # None /\ task.by = s THEN None ELSE task
    /\ UNCHANGED <<starts, file, receipt, maker, touched, faults>>

\* Programs take, write and give up their files at any moment.
Produce(i) ==
    /\ \/ file[i].is # "gone" /\ file' = [file EXCEPT ![i].used = ~@]
       \/ /\ file[i].version < MaxVersion
          /\ file' = [file EXCEPT ![i].is = "whole", ![i].version = @ + 1]
       \/ file[i].is # "gone" /\ file' = [file EXCEPT ![i].is = "gone", ![i].used = FALSE]
    /\ UNCHANGED <<up, starts, sweeping, receipt, maker, frozen, completed, task, touched, faults>>

\* A day.  Plans have expired, after five minutes already; receipts may be
\* cleaned up.  A plan that expires earlier is one that is not executed.  What a
\* service does when it starts it does within the day.
DayPasses ==
    /\ sweeping = {} /\ ~Sweeps
    /\ \E p \in Plan : receipt[p] # None /\ ~receipt[p].aged
    /\ receipt' = [p \in Plan |-> IF receipt[p] = None THEN None
                                  ELSE [receipt[p] EXCEPT !.aged = TRUE]]
    /\ frozen' = [p \in Plan |-> None]
    /\ UNCHANGED <<up, starts, sweeping, file, maker, completed, task, touched, faults>>

Next ==
    \/ \E s \in Process, p \in Plan : Preview(s, p) \/ Execute(s, p) \/ Review(s, p)
    \/ NameNext \/ Check \/ BeginRemoval \/ RemovePart \/ Remove \/ RemoveFails
     \/ RecordResult \/ Interrupted \/ Finish
    \/ \E s \in Process : Start(s) \/ Stop(s) \/ BeginSweep(s)
    \/ SweepNext \/ EndSweep
    \/ \E i \in Item : Produce(i)
    \/ DayPasses

Spec == Init /\ [][Next]_vars

-----------------------------------------------------------------------------
(* What cleaning up promises.                                              *)

\* Whenever the process may die, the receipt on disk names everything the plan
\* has removed, as a result or as the thing it was at; and what it calls missing
\* or changed the plan did not touch.
ReceiptTellsAll ==
    \A p \in Plan : receipt[p] # None =>
        LET results == receipt[p].results
        IN /\ touched[p] \subseteq DOMAIN results \cup {receipt[p].current}
           /\ \A x \in DOMAIN results :
                results[x] \in {"ALREADY_MISSING", "SKIPPED_CHANGED"} => x \notin touched[p]

\* A plan whose execution was interrupted is never carried on: it removes
\* nothing more, and what its receipt says is not turned into a success.
NeverCarriedOn ==
    [][\A p \in Plan : receipt[p] # None /\ receipt[p].phase # "COMPLETED" /\ ~Executing(p) =>
        /\ touched'[p] = touched[p]
        /\ receipt'[p] # None =>
            /\ receipt'[p].results = receipt[p].results
            /\ receipt'[p].phase # "COMPLETED"]_vars

\* Another process takes a running plan for an interrupted one; nevertheless
\* its receipt is neither reviewed nor cleaned up under it.
RunningUndisturbed ==
    [][\A p \in Plan : Executing(p) =>
        /\ receipt'[p] # None
        /\ receipt'[p].phase # "REVIEWED"
        /\ task' # None => Executing(p)']_vars

\* docs/产品/本地维护.md:34: after the process was interrupted the page still finds the
\* plan, until the user has read what was done.
UnreviewedKept ==
    [][\A p \in Plan : receipt[p] # None /\ receipt[p].phase = "RUNNING"
            => receipt'[p] # None]_vars
=============================================================================
