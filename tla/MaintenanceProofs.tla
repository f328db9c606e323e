------------------------- MODULE MaintenanceProofs -------------------------
(***************************************************************************)
(* Proofs about LocalMaintenance: for every number of processes, plans and *)
(* things, and wherever a process dies, the receipt on disk names all that *)
(* was removed, an interrupted plan is never carried on, and a running one *)
(* is left alone by the other processes.                                   *)
(***************************************************************************)
EXTENDS LocalMaintenance, TLAPS

\* The plan that is being executed.
Runs == task # None /\ task.plan # None

\* A plan that is only frozen has neither receipt nor removed anything, and
\* does not remove its own receipt.
PlansFresh ==
    \A p \in Plan :
        /\ maker[p] = None => frozen[p] = None /\ receipt[p] = None /\ touched[p] = {}
        /\ frozen[p] # None =>
            /\ receipt[p] = None /\ touched[p] = {} /\ ~Executing(p)
            /\ DOMAIN frozen[p] \subseteq Thing \ {p}

\* How far an execution has come: what it is at is on record, and what it has
\* removed is that or has a result.
Progress ==
    LET p == task.plan
    IN /\ p \in Plan /\ maker[p] # None
       /\ receipt[p] # None /\ receipt[p].phase = "RUNNING"
       /\ task.todo \subseteq Thing \ {p}
       /\ task.todo \cap (touched[p] \cup DOMAIN receipt[p].results) = {}
       /\ task.at = "next" => touched[p] \subseteq DOMAIN receipt[p].results
       /\ task.at # "next" =>
            /\ task.thing \in Thing \ (task.todo \cup {p})
            /\ task.thing = receipt[p].current
            /\ task.thing \notin DOMAIN receipt[p].results
       /\ task.at \in {"named", "checked"} => task.thing \notin touched[p]
       /\ task.at = "told" =>
            /\ task.result \in Result
            /\ task.result \in {"ALREADY_MISSING", "SKIPPED_CHANGED"}
                 => task.thing \notin touched[p]

\* What ReceiptTellsAll says of one receipt.
Covers(p) ==
    /\ touched[p] \subseteq DOMAIN receipt[p].results \cup {receipt[p].current}
    /\ \A x \in DOMAIN receipt[p].results :
        receipt[p].results[x] \in {"ALREADY_MISSING", "SKIPPED_CHANGED"} => x \notin touched[p]

Typed ==
    /\ receipt \in [Plan -> Receipt \cup {None}]
    /\ touched \in [Plan -> SUBSET Thing]
    /\ maker \in [Plan -> Process \cup {None}]
    /\ DOMAIN frozen = Plan

MInv ==
    /\ Typed
    /\ PlansFresh
    /\ Runs => Progress
    /\ ReceiptTellsAll

LEMMA MInvInit == Init => MInv
BY MaintenanceAssumption
   DEF Init, MInv, Typed, Runs, PlansFresh, ReceiptTellsAll, Thing,
       MaintenanceAssumption

\* An action that neither runs a plan nor touches plans and receipts.
LEMMA MInvIdle ==
    ASSUME MInv, UNCHANGED <<receipt, maker, frozen, task, touched>>
    PROVE  MInv'
BY DEF MInv, Typed, Runs, PlansFresh, Progress, Executing, ReceiptTellsAll

LEMMA MInvPreview ==
    ASSUME MInv, NEW s \in Process, NEW p \in Plan, Preview(s, p)
    PROVE  MInv'
<1>0. PICK T \in SUBSET Cleanable : frozen' = [frozen EXCEPT ![p] = [x \in T |-> Fingerprint(x)]]
    BY DEF Preview
<1>1. /\ maker[p] = None /\ task = None /\ task' = task
      /\ receipt' = receipt /\ touched' = touched
      /\ maker' = [maker EXCEPT ![p] = s]
    BY DEF Preview, Free
<1>2. p \notin T /\ T \subseteq Thing
    BY <1>1, MaintenanceAssumption
       DEF MInv, PlansFresh, Cleanable, Present, MaintenanceAssumption
<1>3. s # None
    BY MaintenanceAssumption DEF MaintenanceAssumption
<1>4. Typed' /\ ReceiptTellsAll' /\ ~Runs'
    BY <1>0, <1>1 DEF MInv, Typed, Runs, ReceiptTellsAll
<1>5. ASSUME NEW q \in Plan PROVE
        /\ maker'[q] = None => frozen'[q] = None /\ receipt'[q] = None /\ touched'[q] = {}
        /\ frozen'[q] # None =>
            /\ receipt'[q] = None /\ touched'[q] = {} /\ ~Executing(q)'
            /\ DOMAIN frozen'[q] \subseteq Thing \ {q}
  <2>1. CASE q = p
      BY <1>0, <1>1, <1>2, <1>3, <2>1 DEF MInv, Typed, PlansFresh, Executing
  <2>2. CASE q # p
      BY <1>0, <1>1, <2>2 DEF MInv, Typed, PlansFresh, Executing
  <2> QED
      BY <2>1, <2>2
<1> QED
    BY <1>4, <1>5 DEF MInv, PlansFresh

LEMMA MInvExecute ==
    ASSUME MInv, NEW s \in Process, NEW p \in Plan, Execute(s, p)
    PROVE  MInv'
<1>0. PICK T \in SUBSET DOMAIN frozen[p] : Begin(s, p, T)
    BY DEF Execute
<1>1. /\ maker[p] = s /\ task = None /\ frozen[p] # None
      /\ receipt' = [receipt EXCEPT ![p] = [phase |-> "RUNNING", current |-> None,
                                            results |-> <<>>, aged |-> FALSE]]
      /\ touched' = touched /\ maker' = maker
    BY DEF Execute, Free
<1>2. /\ task' = [by |-> s, plan |-> p, todo |-> T, seen |-> frozen[p],
                  at |-> "next", thing |-> None, result |-> None]
      /\ frozen' = [frozen EXCEPT ![p] = None]
    BY <1>0 DEF Begin
<1>3. <<>> \in Results /\ DOMAIN <<>> = {}
  <2>1. <<>> \in [{} -> Result]
      OBVIOUS
  <2> QED
      BY <2>1 DEF Results
<1>4. /\ receipt'[p] \in Receipt /\ receipt'[p] # None
      /\ receipt'[p].phase = "RUNNING" /\ DOMAIN receipt'[p].results = {}
  <2>1. [phase |-> "RUNNING", current |-> None, results |-> <<>>, aged |-> FALSE] \in Receipt
      BY <1>3 DEF Receipt
  <2> QED
      BY <1>1, <1>3, <2>1, MaintenanceAssumption DEF MInv, Typed, MaintenanceAssumption
<1>5. touched[p] = {} /\ T \subseteq Thing \ {p} /\ maker[p] # None /\ p # None
    BY <1>1, MaintenanceAssumption
       DEF MInv, Typed, PlansFresh, MaintenanceAssumption, Thing
<1>6. Typed'
    BY <1>1, <1>2, <1>4, <1>5 DEF MInv, Typed, Runs
<1>7. Progress'
    BY <1>1, <1>2, <1>4, <1>5 DEF Progress
<1>8. PlansFresh'
    BY <1>1, <1>2, <1>5 DEF MInv, Typed, PlansFresh, Executing
<1>9. ReceiptTellsAll'
    BY <1>1, <1>4, <1>5 DEF MInv, Typed, ReceiptTellsAll
<1> QED
    BY <1>6, <1>7, <1>8, <1>9 DEF MInv

LEMMA MInvReview ==
    ASSUME MInv, NEW s \in Process, NEW p \in Plan, Review(s, p)
    PROVE  MInv'
<1>1. /\ task = None /\ UNCHANGED <<task, touched, maker, frozen>>
      /\ receipt' = [receipt EXCEPT ![p].phase = "REVIEWED", ![p].aged = FALSE]
    BY DEF Review, Free, Reviewed
<1>2. receipt[p] # None
    BY DEF Review, Outcome
<1>3. /\ receipt[p] \in Receipt /\ receipt'[p] \in Receipt
      /\ receipt'[p].results = receipt[p].results
      /\ receipt'[p].current = receipt[p].current
      /\ \A q \in Plan \ {p} : receipt'[q] = receipt[q]
    BY <1>1, <1>2 DEF MInv, Typed, Receipt
<1>4. Typed' /\ ~Runs'
    BY <1>1, <1>3 DEF MInv, Typed, Runs
<1>5. frozen[p] = None /\ maker[p] # None
    BY <1>2 DEF MInv, PlansFresh
<1>6. PlansFresh'
    BY <1>1, <1>3, <1>5 DEF MInv, PlansFresh, Executing
<1>7. ReceiptTellsAll'
    BY <1>1, <1>2, <1>3 DEF MInv, ReceiptTellsAll
<1> QED
    BY <1>4, <1>6, <1>7 DEF MInv

\* The plan that is executed is no longer frozen, and has a receipt.
LEMMA RunningPlan ==
    ASSUME MInv, Runs
    PROVE  /\ task.plan \in Plan /\ receipt[task.plan] \in Receipt
           /\ frozen[task.plan] = None /\ maker[task.plan] # None
           /\ task.plan # None
BY DEF MInv, Typed, PlansFresh, Progress, Runs, Executing

\* A step of the loop that writes the receipt of the running plan.
LEMMA WritesReceipt ==
    ASSUME MInv, Runs, NEW current \in Thing \cup {None}, NEW results \in Results,
           Saves(current, results)
    PROVE  /\ receipt' \in [Plan -> Receipt \cup {None}]
           /\ receipt'[task.plan] # None
           /\ receipt'[task.plan].phase = "RUNNING"
           /\ receipt'[task.plan].current = current
           /\ receipt'[task.plan].results = results
           /\ \A q \in Plan \ {task.plan} : receipt'[q] = receipt[q]
<1>1. [phase |-> "RUNNING", current |-> current, results |-> results, aged |-> FALSE] \in Receipt
    BY DEF Receipt
<1> QED
    BY <1>1, RunningPlan, MaintenanceAssumption DEF Saves, MInv, Typed, MaintenanceAssumption

\* A step of the execution leaves the other plans alone, but for their receipts,
\* which it may remove.
LEMMA MInvRun ==
    ASSUME MInv, Runs, Typed', Progress', task'.plan = task.plan,
           UNCHANGED <<maker, frozen>>, Covers(task.plan)',
           \A q \in Plan \ {task.plan} :
                touched'[q] = touched[q] /\ receipt'[q] \in {None, receipt[q]}
    PROVE  MInv' /\ Progress' /\ task'.plan = task.plan
<1>1. PlansFresh'
    BY RunningPlan DEF MInv, PlansFresh, Executing, Runs
<1>2. ReceiptTellsAll'
  <2>1. ASSUME NEW q \in Plan, q # task.plan, receipt'[q] # None PROVE Covers(q)'
      BY <2>1 DEF MInv, ReceiptTellsAll, Covers
  <2> QED
      BY <2>1 DEF ReceiptTellsAll, Covers
<1> QED
    BY <1>1, <1>2 DEF MInv

LEMMA RunState ==
    ASSUME MInv, Runs
    PROVE  Progress /\ Covers(task.plan) /\ receipt[task.plan].results \in Results
BY RunningPlan DEF MInv, Progress, Receipt, ReceiptTellsAll, Covers

LEMMA MInvNameNext ==
    ASSUME MInv, NameNext
    PROVE  MInv' /\ Progress' /\ task'.plan = task.plan
<1>0. PICK x \in task.todo : Name(x)
    BY DEF NameNext
<1>1. Runs /\ task.at = "next" /\ UNCHANGED <<touched, maker, frozen>>
    BY DEF NameNext, Loop, Runs
<1> DEFINE p == task.plan
<1>2. Progress /\ x \in Thing /\ receipt[p].results \in Results /\ Covers(p)
    BY <1>1, RunState DEF Progress
<1>3. /\ task'.plan = p /\ task'.at = "named" /\ task'.thing = x
      /\ task'.todo = task.todo \ {x}
    BY <1>0 DEF Name, Goes
<1>4. /\ receipt' \in [Plan -> Receipt \cup {None}]
      /\ receipt'[p] # None /\ receipt'[p].phase = "RUNNING"
      /\ receipt'[p].current = x /\ receipt'[p].results = receipt[p].results
      /\ \A q \in Plan \ {p} : receipt'[q] = receipt[q]
    BY <1>0, <1>1, <1>2, WritesReceipt DEF Name
<1>5. Typed'
    BY <1>1, <1>4 DEF MInv, Typed
<1>6. Progress' /\ Covers(p)'
    BY <1>1, <1>2, <1>3, <1>4 DEF Progress, Covers
<1> QED
    BY <1>1, <1>3, <1>4, <1>5, <1>6, MInvRun DEF Covers

\* A step that only changes where the execution is.
LEMMA MInvGoes ==
    ASSUME MInv, Runs, UNCHANGED <<receipt, maker, frozen, touched>>,
           NEW at \in Stage, NEW result,
           Goes(at, task.thing, result),
           at \notin {"next", "named"}, task.at # "next",
           at = "checked" => task.at = "named",
           at = "told" =>
                /\ result \in Result
                /\ result \in {"ALREADY_MISSING", "SKIPPED_CHANGED"} => task.at = "named"
    PROVE  MInv' /\ Progress' /\ task'.plan = task.plan
<1>1. /\ task'.plan = task.plan /\ task'.at = at /\ task'.thing = task.thing
      /\ task'.result = result /\ task'.todo = task.todo \ {task.thing}
    BY DEF Goes
<1>2. Progress /\ Covers(task.plan)
    BY RunState
<1>3. Progress'
    BY <1>1, <1>2 DEF Progress, Stage
<1>4. Typed' /\ Covers(task.plan)'
    BY <1>1, <1>2 DEF MInv, Typed, Covers
<1> QED
    BY <1>1, <1>3, <1>4, MInvRun

LEMMA MInvCheck ==
    ASSUME MInv, Check
    PROVE  MInv' /\ Progress' /\ task'.plan = task.plan
<1>1. Runs /\ task.at = "named" /\ UNCHANGED <<receipt, maker, frozen, touched>>
    BY DEF Check, Loop, Runs
<1>2. \/ Goes("told", task.thing, "ALREADY_MISSING")
      \/ Goes("told", task.thing, "SKIPPED_CHANGED")
      \/ Goes("told", task.thing, "SKIPPED_IN_USE")
      \/ Goes("checked", task.thing, None)
    BY DEF Check, Tells
<1> QED
    BY <1>1, <1>2, MInvGoes DEF Stage, Result

LEMMA MInvBeginRemoval ==
    ASSUME MInv, BeginRemoval
    PROVE  MInv' /\ Progress' /\ task'.plan = task.plan
BY MInvGoes DEF BeginRemoval, Loop, Runs, Stage

LEMMA MInvRemoveFails ==
    ASSUME MInv, RemoveFails
    PROVE  MInv' /\ Progress' /\ task'.plan = task.plan
<1>1. Runs /\ task.at = "removing" /\ UNCHANGED <<receipt, maker, frozen, touched>>
    BY DEF RemoveFails, Loop, Runs
<1>2. \/ Goes("told", task.thing, "DELETED")
      \/ Goes("told", task.thing, "FAILED")
      \/ Goes("told", task.thing, "SKIPPED_IN_USE")
    BY DEF RemoveFails, Tells
<1> QED
    BY <1>1, <1>2, MInvGoes DEF Stage, Result

LEMMA MInvRemovePart ==
    ASSUME MInv, RemovePart
    PROVE  MInv' /\ Progress' /\ task'.plan = task.plan
<1>1. /\ Runs /\ task.at = "removing" /\ task' = task
      /\ UNCHANGED <<receipt, maker, frozen>>
      /\ touched' = [touched EXCEPT ![task.plan] = @ \cup {task.thing}]
    BY DEF RemovePart, Loop, Runs, Touches
<1>2. Progress /\ Covers(task.plan)
    BY <1>1, RunState
<1>3. /\ touched'[task.plan] = touched[task.plan] \cup {task.thing}
      /\ \A q \in Plan \ {task.plan} : touched'[q] = touched[q]
    BY <1>1, <1>2 DEF MInv, Typed, Progress
<1>4. Typed'
    BY <1>1, <1>2 DEF MInv, Typed, Progress
<1>5. Progress' /\ Covers(task.plan)'
    BY <1>1, <1>2, <1>3 DEF Progress, Covers
<1> QED
    BY <1>1, <1>3, <1>4, <1>5, MInvRun

LEMMA MInvRemove ==
    ASSUME MInv, Remove
    PROVE  MInv' /\ Progress' /\ task'.plan = task.plan
<1>1. /\ Runs /\ task.at = "removing"
      /\ Goes("told", task.thing, "DELETED")
      /\ UNCHANGED <<maker, frozen>>
      /\ touched' = [touched EXCEPT ![task.plan] = @ \cup {task.thing}]
      /\ receipt' = receipt \/ receipt' = [receipt EXCEPT ![task.thing] = None]
    BY DEF Remove, Loop, Runs, Touches, Tells, Removes
<1>2. Progress /\ Covers(task.plan)
    BY <1>1, RunState
<1>3. /\ touched'[task.plan] = touched[task.plan] \cup {task.thing}
      /\ \A q \in Plan \ {task.plan} : touched'[q] = touched[q]
    BY <1>1, <1>2 DEF MInv, Typed, Progress
<1>4. /\ task'.plan = task.plan /\ task'.at = "told" /\ task'.thing = task.thing
      /\ task'.result = "DELETED" /\ task'.todo = task.todo \ {task.thing}
    BY <1>1 DEF Goes
<1>5. /\ receipt'[task.plan] = receipt[task.plan]
      /\ \A q \in Plan : receipt'[q] \in {None, receipt[q]}
      /\ Typed'
    BY <1>1, <1>2 DEF MInv, Typed, Progress
<1>6. Progress' /\ Covers(task.plan)'
    BY <1>1, <1>2, <1>3, <1>4, <1>5 DEF Progress, Covers, Result
<1> QED
    BY <1>1, <1>3, <1>4, <1>5, <1>6, MInvRun DEF Covers

LEMMA MInvRecordResult ==
    ASSUME MInv, RecordResult
    PROVE  MInv' /\ Progress' /\ task'.plan = task.plan
<1>1. /\ Runs /\ task.at = "told" /\ UNCHANGED <<touched, maker, frozen>>
      /\ Goes("next", None, None) /\ Record
    BY DEF RecordResult, Loop, Runs
<1> DEFINE p == task.plan
           T == DOMAIN receipt[p].results \cup {task.thing}
           all == [x \in T |-> IF x = task.thing THEN task.result ELSE receipt[p].results[x]]
<1>2. Progress /\ Covers(p) /\ receipt[p].results \in Results
    BY <1>1, RunState
<1>3. all \in Results
  <2>1. T \in SUBSET Thing
      BY <1>1, <1>2 DEF Progress, Results
  <2>2. all \in [T -> Result]
      BY <1>1, <1>2 DEF Progress, Results
  <2> QED
      BY <2>1, <2>2 DEF Results
<1>4. /\ task'.plan = p /\ task'.at = "next" /\ task'.todo = task.todo \ {None}
    BY <1>1 DEF Goes
<1>5. /\ receipt' \in [Plan -> Receipt \cup {None}]
      /\ receipt'[p] # None /\ receipt'[p].phase = "RUNNING"
      /\ receipt'[p].results = all
      /\ \A q \in Plan \ {p} : receipt'[q] = receipt[q]
  <2>1. Saves(None, all)
      BY <1>1 DEF Record
  <2> HIDE DEF all
  <2> QED
      BY <1>1, <1>3, <2>1, WritesReceipt
<1>6. Typed'
    BY <1>1, <1>5 DEF MInv, Typed
<1>7. /\ DOMAIN all = T
      /\ \A x \in DOMAIN receipt[p].results :
            x # task.thing => all[x] = receipt[p].results[x]
      /\ all[task.thing] = task.result
    OBVIOUS
<1> HIDE DEF all
<1>8. touched[p] \subseteq T /\ task.todo \cap T = {}
    BY <1>1, <1>2 DEF Progress, Covers
<1>9. Progress'
    BY <1>1, <1>2, <1>4, <1>5, <1>7, <1>8 DEF Progress
<1>10. Covers(p)'
    BY <1>1, <1>2, <1>4, <1>5, <1>7, <1>8 DEF Progress, Covers
<1> QED
    BY <1>1, <1>4, <1>5, <1>6, <1>9, <1>10, MInvRun

\* What only removes receipts of plans that nobody executes any more, or none.
LEMMA MInvRemovesReceipts ==
    ASSUME MInv, ~Runs', Typed',
           UNCHANGED <<maker, touched>>,
           \A q \in Plan : frozen'[q] \in {None, frozen[q]},
           \A q \in Plan : frozen'[q] # None => ~Executing(q)',
           \A q \in Plan :
                \/ receipt'[q] \in {None, receipt[q]}
                \/ /\ receipt[q] # None /\ receipt'[q] # None
                   /\ receipt'[q].results = receipt[q].results
                   /\ receipt'[q].current = receipt[q].current
    PROVE  MInv'
<1>1. PlansFresh'
  <2>1. ASSUME NEW q \in Plan PROVE
          /\ maker'[q] = None => frozen'[q] = None /\ receipt'[q] = None /\ touched'[q] = {}
          /\ frozen'[q] # None =>
              /\ receipt'[q] = None /\ touched'[q] = {} /\ ~Executing(q)'
              /\ DOMAIN frozen'[q] \subseteq Thing \ {q}
      BY DEF MInv, PlansFresh
  <2> QED
      BY <2>1 DEF PlansFresh
<1>2. ReceiptTellsAll'
  <2>1. ASSUME NEW q \in Plan, receipt'[q] # None PROVE Covers(q)'
      BY <2>1 DEF MInv, ReceiptTellsAll, Covers
  <2> QED
      BY <2>1 DEF ReceiptTellsAll, Covers
<1> QED
    BY <1>1, <1>2 DEF MInv

LEMMA MInvInterrupted ==
    ASSUME MInv, Interrupted
    PROVE  MInv'
<1>1. task' = None /\ UNCHANGED <<receipt, maker, frozen, touched>>
    BY DEF Interrupted
<1>2. Typed' /\ ~Runs' /\ \A q \in Plan : ~Executing(q)'
    BY <1>1 DEF MInv, Typed, Runs, Executing
<1> QED
    BY <1>1, <1>2, MInvRemovesReceipts

LEMMA MInvFinish ==
    ASSUME MInv, Finish
    PROVE  MInv'
<1> DEFINE p == task.plan
<1>1. /\ Runs /\ task' = None /\ UNCHANGED <<maker, frozen, touched>>
      /\ \/ receipt' = receipt
         \/ receipt' = [receipt EXCEPT ![p].phase = "COMPLETED", ![p].aged = FALSE]
    BY DEF Finish, Loop, Runs
<1>2. p \in Plan /\ receipt[p] \in Receipt /\ receipt[p] # None
    BY <1>1, RunningPlan, MaintenanceAssumption DEF MaintenanceAssumption
<1>3. /\ receipt'[p] \in Receipt
      /\ receipt'[p].results = receipt[p].results
      /\ receipt'[p].current = receipt[p].current
      /\ \A q \in Plan \ {p} : receipt'[q] = receipt[q]
    BY <1>1, <1>2 DEF MInv, Typed, Receipt
<1>4. Typed' /\ ~Runs' /\ \A q \in Plan : ~Executing(q)'
    BY <1>1, <1>2, <1>3 DEF MInv, Typed, Runs, Executing
<1>5. receipt'[p] # None
    BY <1>3, MaintenanceAssumption DEF MaintenanceAssumption
<1> QED
    BY <1>1, <1>2, <1>3, <1>4, <1>5, MInvRemovesReceipts

LEMMA MInvBeginSweep ==
    ASSUME MInv, NEW s \in Process, BeginSweep(s)
    PROVE  MInv'
<1>1. UNCHANGED <<receipt, maker, frozen, touched>>
    BY DEF BeginSweep
<1>2. CASE Free(s)
  <2>1. PICK T \in SUBSET Cleanable : task' = [by |-> s, plan |-> None, todo |-> T]
      BY <1>2 DEF BeginSweep
  <2>2. task'.plan = None
      BY <2>1
  <2>3. Typed' /\ ~Runs' /\ \A q \in Plan : ~Executing(q)'
      BY <1>1, <2>2, MaintenanceAssumption
         DEF MInv, Typed, Runs, Executing, MaintenanceAssumption, Thing
  <2> QED
      BY <1>1, <2>3, MInvRemovesReceipts
<1>3. CASE ~Free(s)
    BY <1>1, <1>3, MInvIdle DEF BeginSweep
<1> QED
    BY <1>2, <1>3

LEMMA MInvSweepNext ==
    ASSUME MInv, SweepNext
    PROVE  MInv'
<1>0. PICK x \in task.todo :
        /\ task' = [by |-> task.by, plan |-> None, todo |-> task.todo \ {x}]
        /\ receipt' = receipt \/ receipt' = [receipt EXCEPT ![x] = None]
    BY DEF SweepNext, Removes
<1>1. UNCHANGED <<maker, frozen, touched>>
    BY DEF SweepNext
<1>2. task'.plan = None
    BY <1>0
<1>3. Typed' /\ \A q \in Plan : receipt'[q] \in {None, receipt[q]}
    BY <1>0, <1>1 DEF MInv, Typed
<1>4. ~Runs' /\ \A q \in Plan : ~Executing(q)'
    BY <1>2, MaintenanceAssumption DEF Runs, Executing, MaintenanceAssumption, Thing
<1> QED
    BY <1>1, <1>3, <1>4, MInvRemovesReceipts

LEMMA MInvEndSweep ==
    ASSUME MInv, EndSweep
    PROVE  MInv'
<1>1. task' = None /\ UNCHANGED <<receipt, maker, frozen, touched>>
    BY DEF EndSweep
<1>2. Typed' /\ ~Runs' /\ \A q \in Plan : ~Executing(q)'
    BY <1>1 DEF MInv, Typed, Runs, Executing
<1> QED
    BY <1>1, <1>2, MInvRemovesReceipts

LEMMA MInvStop ==
    ASSUME MInv, NEW s \in Process, Stop(s)
    PROVE  MInv'
<1>1. /\ UNCHANGED <<receipt, maker, touched>>
      /\ frozen' = [p \in Plan |-> IF maker[p] = s THEN None ELSE frozen[p]]
      /\ task' \in {None, task}
    BY DEF Stop
<1>2. Typed'
    BY <1>1 DEF MInv, Typed
<1>3. PlansFresh'
    BY <1>1 DEF MInv, Typed, PlansFresh, Executing
<1>4. Runs' => Progress'
    BY <1>1 DEF MInv, Runs, Progress
<1>5. ReceiptTellsAll'
    BY <1>1 DEF MInv, ReceiptTellsAll
<1> QED
    BY <1>2, <1>3, <1>4, <1>5 DEF MInv

LEMMA MInvDayPasses ==
    ASSUME MInv, DayPasses
    PROVE  MInv'
<1>1. /\ UNCHANGED <<task, maker, touched>>
      /\ receipt' = [p \in Plan |-> IF receipt[p] = None THEN None
                                    ELSE [receipt[p] EXCEPT !.aged = TRUE]]
      /\ frozen' = [p \in Plan |-> None]
    BY DEF DayPasses
<1>2. ASSUME NEW q \in Plan PROVE
        /\ receipt[q] = None => receipt'[q] = None
        /\ receipt[q] # None =>
            /\ receipt'[q] \in Receipt /\ receipt'[q] # None
            /\ receipt'[q].phase = receipt[q].phase
            /\ receipt'[q].results = receipt[q].results
            /\ receipt'[q].current = receipt[q].current
  <2>1. receipt[q] # None => receipt[q] \in Receipt
      BY DEF MInv, Typed
  <2>2. receipt'[q] = IF receipt[q] = None THEN None ELSE [receipt[q] EXCEPT !.aged = TRUE]
      BY <1>1
  <2>3. ASSUME receipt[q] # None PROVE receipt'[q] \in Receipt
      BY <2>1, <2>2, <2>3 DEF Receipt
  <2> QED
      BY <2>1, <2>2, <2>3, MaintenanceAssumption DEF Receipt, MaintenanceAssumption
<1>3. Typed'
    BY <1>1, <1>2 DEF MInv, Typed
<1>4. PlansFresh'
    BY <1>1, <1>2 DEF MInv, PlansFresh
<1>5. Runs' => Progress'
    BY <1>1, <1>2 DEF MInv, Runs, Progress
<1>6. ReceiptTellsAll'
    BY <1>1, <1>2 DEF MInv, ReceiptTellsAll
<1> QED
    BY <1>3, <1>4, <1>5, <1>6 DEF MInv

\* Every step keeps the invariant.
LEMMA MInvStep == MInv /\ [Next]_vars => MInv'
<1> SUFFICES ASSUME MInv, [Next]_vars PROVE MInv'
    OBVIOUS
<1>1. CASE UNCHANGED vars
    BY <1>1, MInvIdle DEF vars
<1>2. ASSUME NEW s \in Process, NEW p \in Plan, Preview(s, p) \/ Execute(s, p) \/ Review(s, p)
      PROVE  MInv'
    BY <1>2, MInvPreview, MInvExecute, MInvReview
<1>3. CASE \/ NameNext \/ Check \/ BeginRemoval \/ RemovePart \/ Remove \/ RemoveFails
           \/ RecordResult \/ Interrupted \/ Finish
    BY <1>3, MInvNameNext, MInvCheck, MInvBeginRemoval, MInvRemovePart, MInvRemove,
       MInvRemoveFails, MInvRecordResult, MInvInterrupted, MInvFinish
<1>4. ASSUME NEW s \in Process, Start(s) PROVE MInv'
    BY <1>4, MInvIdle DEF Start
<1>5. ASSUME NEW s \in Process, Stop(s) \/ BeginSweep(s) PROVE MInv'
    BY <1>5, MInvStop, MInvBeginSweep
<1>6. CASE SweepNext \/ EndSweep \/ DayPasses
    BY <1>6, MInvSweepNext, MInvEndSweep, MInvDayPasses
<1>7. ASSUME NEW i \in Item, Produce(i) PROVE MInv'
    BY <1>7, MInvIdle DEF Produce
<1> QED
    BY <1>1, <1>2, <1>3, <1>4, <1>5, <1>6, <1>7 DEF Next

LEMMA MInvAlways == Spec => []MInv
BY MInvInit, MInvStep, PTL DEF Spec

-----------------------------------------------------------------------------
(* What follows of the invariant.                                          *)

\* Wherever a process dies, the receipt on disk names what the plan removed
\* (_save_receipt before and after each thing).
THEOREM ReceiptsTellAll == Spec => []ReceiptTellsAll
BY MInvAlways, PTL DEF MInv

\* A step of the execution of p, or one that changes neither results nor phase of
\* a receipt that stays.
LEMMA ReceiptKept ==
    ASSUME MInv, [Next]_vars, NEW p \in Plan, receipt[p] # None, ~Executing(p)
    PROVE  /\ touched'[p] = touched[p]
           /\ receipt'[p] # None =>
                /\ receipt'[p].results = receipt[p].results
                /\ receipt'[p].phase \in {receipt[p].phase, "REVIEWED"}
<1> DEFINE Goal == /\ touched'[p] = touched[p]
                   /\ receipt'[p] # None =>
                        /\ receipt'[p].results = receipt[p].results
                        /\ receipt'[p].phase \in {receipt[p].phase, "REVIEWED"}
<1>0. /\ receipt[p] \in Receipt /\ DOMAIN receipt = Plan /\ frozen[p] = None
      /\ touched \in [Plan -> SUBSET Thing]
    BY DEF MInv, Typed, PlansFresh
<1>1. ASSUME UNCHANGED <<receipt, touched>> PROVE Goal
    BY <1>1
<1>2. ASSUME NEW s \in Process, NEW q \in Plan, Execute(s, q) PROVE Goal
  <2>1. q # p
      BY <1>0, <1>2 DEF Execute
  <2> QED
      BY <1>0, <1>2, <2>1 DEF Execute
<1>3. ASSUME NEW s \in Process, NEW q \in Plan, Review(s, q) PROVE Goal
  <2>1. /\ touched' = touched
        /\ receipt' = [receipt EXCEPT ![q].phase = "REVIEWED", ![q].aged = FALSE]
      BY <1>3 DEF Review, Reviewed
  <2>2. CASE q = p
    <3>1. receipt'[p].phase = "REVIEWED" /\ receipt'[p].results = receipt[p].results
        BY <1>0, <2>1, <2>2 DEF Receipt
    <3> QED
        BY <2>1, <3>1
  <2>3. CASE q # p
      BY <1>0, <2>1, <2>3
  <2> QED
      BY <2>2, <2>3
<1>4. ASSUME NameNext \/ RecordResult PROVE Goal
  <2>1. Runs /\ touched' = touched
      BY <1>4 DEF NameNext, RecordResult, Loop, Runs
  <2>2. \E current, results : Saves(current, results)
      BY <1>4 DEF NameNext, Name, RecordResult, Record
  <2>3. p # task.plan
      BY <2>1 DEF Runs, Executing
  <2> QED
      BY <1>0, <2>1, <2>2, <2>3 DEF Saves
<1>5. ASSUME RemovePart \/ Remove PROVE Goal
  <2>1. /\ Runs /\ touched' = [touched EXCEPT ![task.plan] = @ \cup {task.thing}]
        /\ receipt' = receipt \/ receipt' = [receipt EXCEPT ![task.thing] = None]
      BY <1>5 DEF RemovePart, Remove, Touches, Removes, Loop, Runs
  <2>2. p # task.plan
      BY <2>1 DEF Runs, Executing
  <2> QED
      BY <1>0, <2>1, <2>2
<1>6. ASSUME Finish PROVE Goal
  <2>1. Runs /\ touched' = touched
      BY <1>6 DEF Finish, Loop, Runs
  <2>2. p # task.plan
      BY <2>1 DEF Runs, Executing
  <2>3. \/ receipt' = receipt
        \/ receipt' = [receipt EXCEPT ![task.plan].phase = "COMPLETED",
                                      ![task.plan].aged = FALSE]
      BY <1>6 DEF Finish
  <2> QED
      BY <1>0, <2>1, <2>2, <2>3
<1>7. ASSUME SweepNext PROVE Goal
  <2>1. /\ touched' = touched
        /\ \E x : receipt' = receipt \/ receipt' = [receipt EXCEPT ![x] = None]
      BY <1>7 DEF SweepNext, Removes
  <2> QED
      BY <1>0, <2>1
<1>8. ASSUME DayPasses PROVE Goal
  <2>1. /\ touched' = touched
        /\ receipt'[p] = [receipt[p] EXCEPT !.aged = TRUE]
      BY <1>8 DEF DayPasses
  <2> QED
      BY <1>0, <2>1 DEF Receipt
<1>9. ASSUME Next PROVE Goal
  <2>1. ASSUME NEW s \in Process, NEW q \in Plan, Preview(s, q) PROVE Goal
      BY <1>1, <2>1 DEF Preview
  <2>2. ASSUME Check \/ BeginRemoval \/ RemoveFails \/ Interrupted \/ EndSweep PROVE Goal
      BY <1>1, <2>2 DEF Check, BeginRemoval, RemoveFails, Interrupted, EndSweep
  <2>3. ASSUME NEW s \in Process, Start(s) \/ Stop(s) \/ BeginSweep(s) PROVE Goal
      BY <1>1, <2>3 DEF Start, Stop, BeginSweep
  <2>4. ASSUME NEW i \in Item, Produce(i) PROVE Goal
      BY <1>1, <2>4 DEF Produce
  <2>5. ASSUME NEW s \in Process, NEW q \in Plan, Preview(s, q) \/ Execute(s, q) \/ Review(s, q)
        PROVE  Goal
      BY <1>2, <1>3, <2>1, <2>5
  <2> HIDE DEF Goal
  <2> QED
      BY <1>4, <1>5, <1>6, <1>7, <1>8, <1>9, <2>2, <2>3, <2>4, <2>5 DEF Next
<1> QED
    BY <1>1, <1>9 DEF vars

\* An interrupted plan removes nothing more and is not turned into a success
\* (execute refuses what is interrupted, and a plan is frozen only once).
THEOREM InterruptedStays == Spec => NeverCarriedOn
<1>1. ASSUME MInv, [Next]_vars
      PROVE  \A p \in Plan : receipt[p] # None /\ receipt[p].phase # "COMPLETED" /\ ~Executing(p) =>
                /\ touched'[p] = touched[p]
                /\ receipt'[p] # None =>
                    /\ receipt'[p].results = receipt[p].results
                    /\ receipt'[p].phase # "COMPLETED"
    BY <1>1, ReceiptKept
<1> QED
    BY <1>1, MInvAlways, PTL DEF Spec, NeverCarriedOn

\* What a step can do to a plan that is executed: go on with it, or end it.
LEMMA RunningStep ==
    ASSUME MInv, Next, Runs
    PROVE  \/ task'.plan = task.plan /\ Progress'
           \/ task' = None /\ (Interrupted \/ Finish \/ \E s \in Process : Stop(s))
<1>0. task # None /\ task.plan # None
    BY DEF Runs
<1>1. ASSUME task' = task PROVE task'.plan = task.plan /\ Progress'
    BY <1>0, <1>1, MInvStep DEF MInv, Runs
<1>2. ASSUME NEW s \in Process, NEW q \in Plan, Preview(s, q) \/ Execute(s, q) \/ Review(s, q)
      PROVE  FALSE
    BY <1>0, <1>2 DEF Preview, Execute, Review, Free
<1>3. ASSUME NameNext \/ Check \/ BeginRemoval \/ RemovePart \/ Remove \/ RemoveFails
              \/ RecordResult
      PROVE  task'.plan = task.plan /\ Progress'
    BY <1>3, MInvNameNext, MInvCheck, MInvBeginRemoval, MInvRemovePart, MInvRemove,
       MInvRemoveFails, MInvRecordResult
<1>4. ASSUME (\E i \in Item : Produce(i)) \/ DayPasses \/ \E s \in Process : Start(s)
      PROVE  task' = task
    BY <1>4 DEF Produce, DayPasses, Start
<1>5. ASSUME Interrupted \/ Finish PROVE task' = None
    BY <1>5 DEF Interrupted, Finish
<1>6. ASSUME NEW s \in Process, Stop(s)
      PROVE  task' = task \/ task' = None
    BY <1>6 DEF Stop
<1>7. ASSUME NEW s \in Process, BeginSweep(s)
      PROVE  task' = task
    BY <1>0, <1>7 DEF BeginSweep, Free
<1>8. ~SweepNext /\ ~EndSweep
    BY <1>0 DEF SweepNext, EndSweep, Sweeps
<1> QED
    BY <1>1, <1>2, <1>3, <1>4, <1>5, <1>6, <1>7, <1>8 DEF Next

\* While a plan is executed the lock is held: nothing else happens to its receipt
\* and no other plan begins (_locked).
THEOREM RunningLeftAlone == Spec => RunningUndisturbed
<1>1. ASSUME MInv, [Next]_vars, NEW p \in Plan, Executing(p)
      PROVE  /\ receipt'[p] # None
             /\ receipt'[p].phase # "REVIEWED"
             /\ task' # None => Executing(p)'
  <2>0. task # None /\ task.plan = p /\ Runs
      BY <1>1, MaintenanceAssumption
         DEF Executing, Runs, MaintenanceAssumption, Thing
  <2>1. /\ receipt[p] \in Receipt /\ receipt[p] # None /\ receipt[p].phase = "RUNNING"
        /\ DOMAIN receipt = Plan
      BY <1>1, <2>0 DEF Progress, MInv, Typed
  <2>2. CASE task'.plan = p /\ Progress'
      BY <2>2 DEF Progress, Executing
  <2>3. CASE task' = None /\ (Interrupted \/ Finish \/ \E s \in Process : Stop(s))
    <3>1. \/ receipt' = receipt
          \/ receipt' = [receipt EXCEPT ![p].phase = "COMPLETED", ![p].aged = FALSE]
        BY <2>0, <2>3 DEF Interrupted, Finish, Stop
    <3>2. CASE receipt' = receipt
        BY <2>1, <2>3, <3>2
    <3>3. CASE receipt' = [receipt EXCEPT ![p].phase = "COMPLETED", ![p].aged = FALSE]
      <4>1. receipt'[p] \in Receipt /\ receipt'[p].phase = "COMPLETED"
          BY <1>1, <2>1, <3>3 DEF Receipt
      <4> QED
          BY <2>3, <4>1, MaintenanceAssumption DEF MaintenanceAssumption
    <3> QED
        BY <3>1, <3>2, <3>3
  <2>4. CASE UNCHANGED vars
      BY <1>1, <2>1, <2>4 DEF vars, Executing
  <2> QED
      BY <1>1, <2>0, <2>2, <2>3, <2>4, RunningStep
<1>2. MInv /\ [Next]_vars =>
        \A p \in Plan : Executing(p) =>
            /\ receipt'[p] # None
            /\ receipt'[p].phase # "REVIEWED"
            /\ task' # None => Executing(p)'
    BY <1>1
<1> QED
    BY <1>2, MInvAlways, PTL DEF Spec, RunningUndisturbed
=============================================================================
