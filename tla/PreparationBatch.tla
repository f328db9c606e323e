------------------------- MODULE PreparationBatch --------------------------
(***************************************************************************)
(* The batch that prepares the proof sources of one project after its plan *)
(* was approved in the GUI: application/preparation/batches.py over the    *)
(* commands of application/preparation/proofs.  One coordinator thread     *)
(* takes a snapshot of an active batch, decides on one step, writes the    *)
(* command it is about to give into the row, gives it, and writes down the *)
(* answer; requests of the user, Workers and restarts of the service come  *)
(* in between.  Every command leaves a receipt in its own transaction.     *)
(*                                                                         *)
(* Rules, accounts, resources, revisions of the sources and the running    *)
(* instance (guard and basis_id of the plan) are one number, `facts'.      *)
(* The recipe of the official example, which precedes the items, and rows  *)
(* written by older versions are left out.                                 *)
(***************************************************************************)
EXTENDS Integers, Sequences, FiniteSets

CONSTANTS
    Batch,      \* operation ids of batches
    Source,     \* proof sources of the project, the items of every plan
    Caller,     \* requests to start a batch being served
    None,
    Parallel,   \* preflights of a batch at a time, 2 in the code
    MaxCalls,   \* bound: requests to start a batch
    MaxTrouble  \* bound: restarts, faults, full queues and acts of the user

ASSUME BatchAssumption ==
    /\ Parallel \in Nat \ {0}
    /\ MaxCalls \in Nat
    /\ MaxTrouble \in Nat
    /\ IsFiniteSet(Source)
    /\ "USER" \notin Batch

VARIABLES
    rows,       \* preparation_batches: a row of each batch, None before it
    calls,      \* start(): what a request read before it takes the write lock
    clock,      \* number of requests so far, the order of created_at_us
    work,       \* the coordinator, PreparationBatchService.advance
    receipts,   \* of each command, kept with its effect
    preflights, \* preflights of the project in the order of submission
    scopes,     \* read authorisation of each source
    adopted,    \* sources adopted as evidence
    fit,        \* sources that can be checked at all, fixed by their revision
    facts,      \* what plans are approved against
    session,    \* control_session_id of the running service
    trouble,    \* counts towards MaxTrouble
    again       \* history: batches whose row was written by a second start

store == <<receipts, preflights, scopes, adopted>>
world == <<fit, facts, session, trouble>>
user  == <<calls, clock, again>>
vars  == <<rows, user, work, store, world>>

Kinds  == {"GRANT_SCOPE", "START_PREFLIGHT", "ADOPT_SOURCE", "CANCEL_PREFLIGHT"}
Active == {"RUNNING", "CANCELLING"}
Ended  == {"BLOCKED", "CANCELLED", "SUCCEEDED"}

Item == [state: {"WAITING", "CHECKING", "READY", "BLOCKED"}, pending: Kinds \cup {"NONE"},
         preflight: Nat, owned: BOOLEAN, sent: BOOLEAN, scope: Nat]

Plan == [facts: Nat, scopes: [Source -> Nat]]

Row == [state: Active \cup Ended, cancel: BOOLEAN, session: Nat, created: Nat,
        plan: Plan, made: BOOLEAN, items: [Source -> Item]]

Call == [batch: Batch, plan: Plan, created: Nat]

\* A command as its receipt remembers it: the fingerprint of the request and the result.
Receipt == [facts: Nat, preflight: Nat, result: Nat]

Preflight == [source: Source, by: Batch \cup {"USER"}, facts: Nat, scope: Nat,
              state: {"OPEN", "STOPPING", "USABLE", "UNUSABLE"}]

\* Where the coordinator is: nowhere, about to decide, to write the command of
\* an item down, to give it, or to save.  "then" says what follows a save: the
\* end of the step, the refusal that is still to be handled, or nothing because
\* the save is already part of the handling of an error.
Work == [at: {"IDLE", "STEP", "ANNOUNCE", "EXECUTE", "SAVE"}, batch: Batch \cup {None},
         value: Row \cup {None}, item: Source \cup {None}, kind: Kinds \cup {"NONE"},
         preflight: Nat, then: {"STEP", "REFUSED", "LAST"}]

Idle == [at |-> "IDLE", batch |-> None, value |-> None, item |-> None,
         kind |-> "NONE", preflight |-> 0, then |-> "STEP"]

ASSUME NoneAssumption ==
    /\ None \notin Batch
    /\ None \notin Row /\ None \notin Call /\ None \notin Receipt

\* Every table and the coordinator keep to their columns.
BatchTypeOK ==
    /\ rows \in [Batch -> Row \cup {None}]
    /\ calls \in [Caller -> Call \cup {None}]
    /\ clock \in Nat
    /\ work \in Work
    /\ receipts \in [Batch \X Source \X Kinds -> Receipt \cup {None}]
    /\ preflights \in Seq(Preflight)
    /\ scopes \in [Source -> [granted: Nat, live: SUBSET Nat, first: Nat]]
    /\ adopted \subseteq Source
    /\ fit \subseteq Source
    /\ facts \in Nat /\ session \in Nat /\ trouble \in Nat
    /\ again \subseteq Batch

Fresh(s, plan) ==
    [state |-> "WAITING", pending |-> "NONE", preflight |-> 0,
     owned |-> FALSE, sent |-> FALSE, scope |-> plan.scopes[s]]

BatchInit ==
    /\ rows = [b \in Batch |-> None]
    /\ calls = [c \in Caller |-> None]
    /\ clock = 0
    /\ work = Idle
    /\ receipts = [k \in Batch \X Source \X Kinds |-> None]
    /\ preflights = <<>>
    /\ scopes = [s \in Source |-> [granted |-> 0, live |-> {}, first |-> 0]]
    /\ adopted = {}
    /\ fit \in SUBSET Source
    /\ facts = 0 /\ session = 0 /\ trouble = 0
    /\ again = {}

-----------------------------------------------------------------------------
(* What is read from the database.                                          *)

IsActive(b) == rows[b] # None /\ rows[b].state \in Active

\* PreparationBatchRepository.latest
IsLatest(b) ==
    /\ rows[b] # None
    /\ \A o \in Batch : rows[o] # None => rows[o].created <= rows[b].created

\* A command written down of which no receipt tells that it was carried out.
Unknown(b) ==
    \E s \in Source : LET kind == rows[b].items[s].pending IN
        kind # "NONE" /\ receipts[b, s, kind] = None

\* matching_read_scope_id: the one with the least of the random ids of those in
\* force, 0 when the source may not be read.
Matching(s) == scopes[s].first

Runs(p) == preflights[p].state \in {"OPEN", "STOPPING"}

\* The latest preflight of a source: a set of one, or none.
Attempt(s) == {p \in DOMAIN preflights :
    /\ preflights[p].source = s
    /\ \A q \in DOMAIN preflights : q > p => preflights[q].source # s}

Usable(p) == preflights[p].state = "USABLE" /\ preflights[p].facts = facts

-----------------------------------------------------------------------------
(* Requests of the user.                                                    *)

\* start() up to the lock: no row under this key, and the approved plan is the
\* one a new preview gives.
ReadStart(c, b) ==
    /\ calls[c] = None
    /\ rows[b] = None
    /\ clock < MaxCalls
    /\ clock' = clock + 1
    /\ calls' = [calls EXCEPT ![c] = [batch |-> b, created |-> clock + 1,
           plan |-> [facts |-> facts, scopes |-> [s \in Source |-> Matching(s)]]]]
    /\ UNCHANGED <<rows, work, store, world, again>>

\* Mutated: that no batch was active was seen before the lock was taken.
MayStart_settled == \A b \in Batch : IsLatest(b) => ~Unknown(b)

MayStart ==
    /\ \A b \in Batch : ~IsActive(b)
    /\ \A b \in Batch : IsLatest(b) => ~Unknown(b)

\* PreparationBatchRepository.save: a cancellation on record is kept.
Stored(b, value) ==
    LET cancel == value.cancel \/ (rows[b] # None /\ rows[b].cancel) IN
    [value EXCEPT !.cancel = cancel,
                  !.state = IF cancel /\ @ = "RUNNING" THEN "CANCELLING" ELSE @]

\* start() under the lock.  The key is not looked up again.
CommitStart(c) ==
    /\ calls[c] # None
    /\ MayStart
    /\ LET b == calls[c].batch
           new == [state |-> "RUNNING", cancel |-> FALSE, session |-> session,
                   created |-> calls[c].created, plan |-> calls[c].plan, made |-> FALSE,
                   items |-> [s \in Source |-> Fresh(s, calls[c].plan)]]
       IN  /\ rows' = [rows EXCEPT ![b] = Stored(b, new)]
           /\ again' = IF rows[b] = None THEN again ELSE again \cup {b}
    /\ calls' = [calls EXCEPT ![c] = None]
    /\ UNCHANGED <<clock, work, store, world>>

RefuseStart(c) ==
    /\ calls[c] # None
    /\ ~MayStart
    /\ calls' = [calls EXCEPT ![c] = None]
    /\ UNCHANGED <<rows, clock, again, work, store, world>>

Cancel(b) ==
    /\ IsActive(b)
    /\ rows' = [rows EXCEPT ![b].cancel = TRUE, ![b].state = "CANCELLING"]
    /\ UNCHANGED <<user, work, store, world>>

Troubled == trouble < MaxTrouble /\ trouble' = trouble + 1

\* add_scope: the new id may come before the one found so far.
Granted(s) ==
    LET new == scopes[s].granted + 1 IN
    \E first \in {new} \cup ({scopes[s].first} \ {0}) :
        scopes' = [scopes EXCEPT ![s] =
            [granted |-> new, live |-> @.live \cup {new}, first |-> first]]

\* grant_scope from the page of the source.
UserGrants(s) ==
    /\ Troubled
    /\ Granted(s)
    /\ UNCHANGED <<rows, user, work, receipts, preflights, adopted, fit, facts, session>>

\* revoke_scope, which also cancels the preflights that read under it.
UserRevokes(s) ==
    /\ Troubled
    /\ \E old \in scopes[s].live :
          LET left == scopes[s].live \ {old} IN
          /\ \E first \in IF scopes[s].first # old THEN {scopes[s].first}
                          ELSE IF left = {} THEN {0} ELSE left :
                scopes' = [scopes EXCEPT ![s].live = left, ![s].first = first]
          /\ preflights' = [p \in DOMAIN preflights |->
                 IF Runs(p) /\ preflights[p].source = s /\ preflights[p].scope = old
                 THEN [preflights[p] EXCEPT !.state = "STOPPING"] ELSE preflights[p]]
    /\ UNCHANGED <<rows, user, work, receipts, adopted, fit, facts, session>>

Submitted(s, by) ==
    Append(preflights, [source |-> s, by |-> by, facts |-> facts,
                        scope |-> Matching(s), state |-> "OPEN"])

\* start from the page of the source: nothing looks for a preflight under way.
UserStarts(s) ==
    /\ Troubled
    /\ s \in fit /\ Matching(s) # 0
    /\ preflights' = Submitted(s, "USER")
    /\ UNCHANGED <<rows, user, work, receipts, scopes, adopted, fit, facts, session>>

\* The user edits rules, accounts or sources, or another instance runs.
UserChanges ==
    /\ Troubled
    /\ facts' = facts + 1
    /\ UNCHANGED <<rows, user, work, store, fit, session>>

\* A preflight ends; one that was asked to stop does not publish a report.
PreflightEnds(p) ==
    /\ Runs(p)
    /\ \E end \in {"USABLE", "UNUSABLE"} :
          /\ end = "USABLE" => preflights[p].state = "OPEN"
          /\ preflights' = [preflights EXCEPT ![p].state = end]
    /\ UNCHANGED <<rows, user, work, receipts, scopes, adopted, world>>

\* The service stops anywhere and starts again.
Restart ==
    /\ Troubled
    /\ session' = session + 1
    /\ work' = Idle
    /\ calls' = [c \in Caller |-> None]
    /\ UNCHANGED <<rows, clock, again, store, fit, facts>>

-----------------------------------------------------------------------------
(* The coordinator.                                                         *)

\* advance reads the active batches, and a batch again after each step.
Read(b) ==
    /\ work.at = "IDLE"
    /\ IsActive(b)
    /\ work' = [Idle EXCEPT !.at = "STEP", !.batch = b, !.value = rows[b]]
    /\ UNCHANGED <<rows, user, store, world>>

Save(value, then) ==
    work' = [Idle EXCEPT !.at = "SAVE", !.batch = work.batch, !.value = value, !.then = then]

Announce(s, kind, p) ==
    work' = [work EXCEPT !.at = "ANNOUNCE", !.item = s, !.kind = kind, !.preflight = p,
                         !.value.items[s].pending = kind]

Finish(state) == Save([work.value EXCEPT !.state = state], "STEP")

\* The error handling of advance.
Fail(value) == Save([value EXCEPT !.state = "BLOCKED"], "LAST")

\* _accept
Answer(item, kind, result) ==
    IF kind = "START_PREFLIGHT"
    THEN [item EXCEPT !.state = "CHECKING", !.preflight = result, !.owned = TRUE]
    ELSE [item EXCEPT !.sent = (kind = "CANCEL_PREFLIGHT") \/ @,
                      !.scope = IF kind = "GRANT_SCOPE" THEN result ELSE @]

Accepted(value, s, kind, result) ==
    [value EXCEPT !.items[s] = [Answer(@, kind, result) EXCEPT !.pending = "NONE"]]

\* A command was written down and its answer was not: its receipt decides.
Confirm(s) ==
    LET value == work.value
        kind == value.items[s].pending
        receipt == receipts[work.batch, s, kind]
    IN  /\ kind # "NONE"
        /\ IF receipt = None THEN Fail(value)
           ELSE Save(Accepted(value, s, kind, receipt.result), "STEP")

Settled == \A s \in Source : work.value.items[s].pending = "NONE"

\* Mutated: a preflight that was asked to stop counts as stopped.
Waiting_unasked == {s \in Source : /\ work.value.items[s].owned
                                   /\ ~work.value.items[s].sent
                                   /\ work.value.items[s].preflight \in DOMAIN preflights
                                   /\ Runs(work.value.items[s].preflight)}

\* Preflights the cancellation waits for, by the number the item has of them.
Waiting == {s \in Source : /\ work.value.items[s].owned
                           /\ work.value.items[s].preflight \in DOMAIN preflights
                           /\ Runs(work.value.items[s].preflight)}

StopOwn ==
    /\ Settled
    /\ work.value.cancel
    /\ IF Waiting = {} THEN Finish("CANCELLED")
       ELSE \/ \E s \in Waiting : /\ ~work.value.items[s].sent
                                  /\ Announce(s, "CANCEL_PREFLIGHT", work.value.items[s].preflight)
            \/ /\ \A s \in Waiting : work.value.items[s].sent
               /\ work' = Idle

\* The plan no longer binds: another control session, or other facts.
Outdated ==
    /\ Settled
    /\ ~work.value.cancel
    /\ work.value.session # session \/ work.value.plan.facts # facts
    /\ Finish("BLOCKED")

Current ==
    /\ Settled
    /\ ~work.value.cancel
    /\ work.value.session = session
    /\ work.value.plan.facts = facts

AlreadyReady(s) ==
    /\ s \in fit /\ Matching(s) # 0 /\ s \in adopted
    /\ \E p \in Attempt(s) : Usable(p)

MakeItems ==
    /\ Current
    /\ ~work.value.made
    /\ Save([work.value EXCEPT !.made = TRUE,
                !.items = [s \in Source |-> [@[s] EXCEPT
                    !.state = IF AlreadyReady(s) THEN "READY" ELSE "WAITING"]]], "STEP")

Checking == {s \in Source : work.value.items[s].state = "CHECKING"}

\* An item the loop of _step looks at, and what it finds.
Open(s) == work.value.items[s].state \in {"WAITING", "CHECKING"}
ScopeGone(s) == work.value.items[s].scope # 0 /\ Matching(s) # work.value.items[s].scope
Underway(s) == \E p \in Attempt(s) : Runs(p)
Followed(s) == \E p \in Attempt(s) : Runs(p) /\ work.value.items[s].preflight = p
Proven(s)   == \E p \in Attempt(s) : Usable(p)

With(s, state) == Save([work.value EXCEPT !.items[s].state = state], "STEP")

\* One item, a preflight of which is under way: this batch's or another's.
Follow(s) ==
    \E p \in Attempt(s) :
        /\ Runs(p)
        /\ work.value.items[s].preflight # p
        /\ Save([work.value EXCEPT !.items[s].state = "CHECKING",
                                   !.items[s].preflight = p], "STEP")

\* Mutated: an item that was being checked is left to its preflight.
Check_hopes(s) ==
    /\ work.value.items[s].state = "WAITING"
    /\ Cardinality(Checking) < Parallel
    /\ Announce(s, "START_PREFLIGHT", 0)

\* One item without a usable preflight: a new one, unless this batch had one.
Check(s) ==
    \/ /\ work.value.items[s].state = "CHECKING"
       /\ With(s, "BLOCKED")
    \/ /\ work.value.items[s].state = "WAITING"
       /\ Cardinality(Checking) < Parallel
       /\ Announce(s, "START_PREFLIGHT", 0)

\* One item with a usable preflight.
Adopt(s) ==
    \/ s \in adopted /\ With(s, "READY")
    \/ s \notin adopted /\ \E p \in Attempt(s) : Announce(s, "ADOPT_SOURCE", p)

\* What _step does about one item.
Advance(s) ==
    /\ Current /\ work.value.made /\ Open(s)
    /\ \/ ScopeGone(s) /\ Finish("BLOCKED")
       \/ /\ ~ScopeGone(s)
          /\ \/ s \notin fit /\ With(s, "BLOCKED")
             \/ s \in fit /\ Follow(s)
             \/ /\ s \in fit /\ ~Underway(s)
                /\ \/ Matching(s) = 0 /\ Announce(s, "GRANT_SCOPE", 0)
                   \/ Matching(s) # 0 /\ ~Proven(s) /\ Check(s)
                   \/ Matching(s) # 0 /\ Proven(s) /\ Adopt(s)

\* Every item is ready, or ready or blocked.
Conclude ==
    /\ Current /\ work.value.made
    /\ \A s \in Source : ~Open(s)
    /\ Finish(IF \A s \in Source : work.value.items[s].state = "READY"
              THEN "SUCCEEDED" ELSE "BLOCKED")

\* The item has to wait for a preflight, its own or one that fills the batch's limit.
Waits(s) ==
    /\ ~ScopeGone(s) /\ s \in fit
    /\ \/ Followed(s)
       \/ /\ ~Underway(s) /\ ~Proven(s) /\ Matching(s) # 0
          /\ work.value.items[s].state = "WAITING"
          /\ Cardinality(Checking) >= Parallel

Rest ==
    /\ Current /\ work.value.made
    /\ \E s \in Source : Open(s)
    /\ \A s \in Source : Open(s) => Waits(s)
    /\ work' = Idle

Step ==
    /\ work.at = "STEP"
    /\ \/ \E s \in Source : Confirm(s)
       \/ StopOwn
       \/ Outdated
       \/ MakeItems
       \/ \E s \in Source : Advance(s)
       \/ Conclude
       \/ Rest
    /\ UNCHANGED <<rows, user, store, world>>

\* Mutated: the row has the command only together with its answer.
WriteDown_later ==
    /\ work.at = "ANNOUNCE"
    /\ work' = [work EXCEPT !.at = "EXECUTE"]
    /\ UNCHANGED <<rows, user, store, world>>

\* _write up to its commit: the command is in the row, or the batch was
\* cancelled since the snapshot and the command is not given.
WriteDown ==
    /\ work.at = "ANNOUNCE"
    /\ IF rows[work.batch].cancel /\ work.kind # "CANCEL_PREFLIGHT"
       THEN /\ Save([work.value EXCEPT !.items[work.item].pending = "NONE", !.cancel = TRUE], "STEP")
            /\ UNCHANGED rows
       ELSE /\ rows' = [rows EXCEPT ![work.batch] = Stored(work.batch, work.value)]
            /\ work' = [work EXCEPT !.at = "EXECUTE"]
    /\ UNCHANGED <<user, store, world>>

\* The database refuses the write: the error ends the batch, with the command
\* in the snapshot it saves.
WriteFails ==
    /\ Troubled
    /\ \/ work.at = "ANNOUNCE" /\ Fail(work.value)
       \/ /\ work.at = "SAVE"
          /\ IF work.then = "LAST" THEN work' = Idle ELSE Fail(work.value)
    /\ UNCHANGED <<rows, user, store, fit, facts, session>>

Key == <<work.batch, work.item, work.kind>>

\* The plan's basis is compared again in the transaction of the command.
Bound == work.value.plan.facts = facts

\* The conditions the command checks in its own transaction.
Allowed ==
    \/ work.kind = "GRANT_SCOPE" /\ Bound
    \/ work.kind = "START_PREFLIGHT" /\ Bound /\ Matching(work.item) # 0
    \/ /\ work.kind = "ADOPT_SOURCE" /\ Bound
       /\ Usable(work.preflight)
       /\ preflights[work.preflight].scope \in scopes[work.item].live
    \/ work.kind = "CANCEL_PREFLIGHT"

\* What it does to the store, and the result its receipt gives.
Effect(result) ==
    \/ /\ work.kind = "GRANT_SCOPE"
       /\ Granted(work.item) /\ result = scopes[work.item].granted + 1
       /\ UNCHANGED <<preflights, adopted>>
    \/ /\ work.kind = "START_PREFLIGHT"
       /\ preflights' = Submitted(work.item, work.batch) /\ result = Len(preflights) + 1
       /\ UNCHANGED <<scopes, adopted>>
    \/ /\ work.kind = "ADOPT_SOURCE"
       /\ adopted' = adopted \cup {work.item} /\ result = 0
       /\ UNCHANGED <<scopes, preflights>>
    \/ /\ work.kind = "CANCEL_PREFLIGHT"
       /\ preflights' = IF Runs(work.preflight)
                        THEN [preflights EXCEPT ![work.preflight].state = "STOPPING"]
                        ELSE preflights
       /\ result = 0
       /\ UNCHANGED <<scopes, adopted>>

\* The fingerprint of the request: a cancellation names no basis.
SameRequest(receipt) ==
    /\ receipt.preflight = work.preflight
    /\ work.kind = "CANCEL_PREFLIGHT" \/ receipt.facts = work.value.plan.facts

Answered(result) == Save(Accepted(work.value, work.item, work.kind, result), "STEP")

Refused(then) == Save([work.value EXCEPT !.items[work.item].pending = "NONE"], then)

\* The transaction of _operation commits; its answer arrives, or an error does.
Execute ==
    /\ work.at = "EXECUTE"
    /\ receipts[Key] = None
    /\ Allowed
    /\ \E result \in {0, scopes[work.item].granted + 1, Len(preflights) + 1} :
          /\ Effect(result)
          /\ receipts' = [receipts EXCEPT ![Key] = [facts |-> work.value.plan.facts,
                              preflight |-> work.preflight, result |-> result]]
          /\ \/ Answered(result) /\ UNCHANGED trouble
             \/ Fail(work.value) /\ Troubled
    /\ UNCHANGED <<rows, user, fit, facts, session>>

\* The command was carried out before: the same request has the old answer.
Repeat ==
    /\ work.at = "EXECUTE"
    /\ receipts[Key] # None
    /\ IF SameRequest(receipts[Key]) THEN Answered(receipts[Key].result) ELSE Refused("REFUSED")
    /\ UNCHANGED <<rows, user, store, world>>

\* It is refused, or the transaction fails and nobody knows.
NotExecuted ==
    /\ work.at = "EXECUTE"
    /\ receipts[Key] = None
    /\ \/ ~Allowed /\ Refused("REFUSED") /\ UNCHANGED trouble
       \/ work.kind = "START_PREFLIGHT" /\ Allowed /\ Refused("STEP") /\ Troubled
       \/ Fail(work.value) /\ Troubled
    /\ UNCHANGED <<rows, user, store, fit, facts, session>>

\* Mutated: the snapshot is written as it is.
Merged_snapshot(b, value) == value

\* _save: the row as it is now decides about the cancellation.
Merged(b, value) ==
    IF rows[b].cancel
    THEN Stored(b, [value EXCEPT !.cancel = TRUE,
                        !.state = IF @ \in {"RUNNING", "SUCCEEDED"} THEN "CANCELLING" ELSE @])
    ELSE Stored(b, value)

WriteBack ==
    /\ work.at = "SAVE"
    /\ rows' = [rows EXCEPT ![work.batch] = Merged(work.batch, work.value)]
    /\ IF work.then = "REFUSED" THEN Fail(Merged(work.batch, work.value)) ELSE work' = Idle
    /\ UNCHANGED <<user, store, world>>

Coordinator ==
    \/ \E b \in Batch : Read(b)
    \/ Step
    \/ WriteDown
    \/ Execute
    \/ Repeat
    \/ NotExecuted
    \/ WriteBack

UserActs ==
    \/ \E c \in Caller, b \in Batch : ReadStart(c, b)
    \/ \E c \in Caller : CommitStart(c) \/ RefuseStart(c)
    \/ \E b \in Batch : Cancel(b)
    \/ \E s \in Source : UserGrants(s) \/ UserRevokes(s) \/ UserStarts(s)
    \/ UserChanges

BatchNext ==
    \/ Coordinator
    \/ UserActs
    \/ \E p \in DOMAIN preflights : PreflightEnds(p)
    \/ WriteFails
    \/ Restart

\* The thread of the coordinator goes on while the service is up, and a Worker
\* has a limit to its time.
BatchFairness ==
    /\ WF_vars(Coordinator)
    /\ \A p \in 1 .. Cardinality(Batch) * Cardinality(Source) + MaxTrouble :
          WF_vars(p \in DOMAIN preflights /\ PreflightEnds(p))

BatchSpec == BatchInit /\ [][BatchNext]_vars /\ BatchFairness

-----------------------------------------------------------------------------
(* Properties.                                                              *)

\* The preflights a batch started for one of its items.
Started(b, s) == {p \in DOMAIN preflights : preflights[p].by = b /\ preflights[p].source = s}

\* No unknown write is given twice and none is forgotten: through refusals,
\* lost answers, failed saves and restarts a batch starts at most one preflight
\* for an item, and its row has it as its own or has the command as pending.
\* Two overlapping requests under one key write the row anew and lose this.
Accounted ==
    \A b \in Batch \ again, s \in Source :
        /\ Cardinality(Started(b, s)) <= 1
        /\ Started(b, s) # {} =>
              /\ rows[b] # None
              /\ rows[b].items[s].owned \/ rows[b].items[s].pending = "START_PREFLIGHT"

\* A batch told as cancelled has nothing running that it started, a preflight
\* the user started after it for the same source apart: the item then has the
\* number of that one, and that one is what the cancellation stopped.
CancelledIsQuiet ==
    \A b \in Batch \ again : rows[b] # None /\ rows[b].state = "CANCELLED" =>
        \A s \in Source : \A p \in Started(b, s) \cap Attempt(s) : ~Runs(p)

\* Two requests that both found no batch do not both start one.
OneActive == \A b, o \in Batch : IsActive(b) /\ IsActive(o) => b = o

\* Nothing happens to sources on behalf of a batch but what its row announced:
\* nothing that creates after the service restarted or the facts changed, and
\* nothing announced after a cancellation, which no older snapshot takes back.
OnlyApproved ==
    [][\A b \in Batch :
        /\ \A s \in Source, kind \in Kinds :
              receipts'[b, s, kind] # receipts[b, s, kind] =>
                 /\ rows[b] # None /\ rows[b].items[s].pending = kind
                 /\ kind # "CANCEL_PREFLIGHT" =>
                       rows[b].session = session /\ rows[b].plan.facts = facts
        /\ rows[b] # None /\ rows[b].cancel =>
              /\ rows'[b].cancel
              /\ rows'[b].state \notin {"RUNNING", "SUCCEEDED"}
              /\ rows'[b].state = "CANCELLING" => \A s \in Source :
                    rows'[b].items[s].pending \in
                       {rows[b].items[s].pending, "NONE", "CANCEL_PREFLIGHT"}]_vars

\* Every batch comes to an end.
BatchesEnd == \A b \in Batch : IsActive(b) ~> ~IsActive(b)
=============================================================================
