-------------------------- MODULE PreparationProofs -------------------------
(***************************************************************************)
(* Proofs about PreparationBatch, for any number of batches, sources,      *)
(* requests, restarts and faults: one batch at a time, every preflight it  *)
(* starts is told by its row, a cancelled batch has none of them running,  *)
(* and nothing is done for it that its row did not announce.               *)
(*                                                                         *)
(* A row and the coordinator's snapshot of it are held to the same         *)
(* conditions, Good; a step changes either what these are about (a         *)
(* receipt, a preflight) or one of the two.                                *)
(***************************************************************************)
EXTENDS PreparationBatch, SequenceTheorems, FiniteSetTheorems, TLAPS

-----------------------------------------------------------------------------
(* The invariant.                                                          *)

\* The row accounts for the preflight its receipt tells of.
Told(b, v) ==
    \A s \in Source : receipts[b, s, "START_PREFLIGHT"] # None =>
        v.items[s].owned \/ v.items[s].pending = "START_PREFLIGHT"

\* The number the row has is that of the preflight, unless a newer one was started.
Points(b, v) ==
    \A s \in Source : v.items[s].owned =>
        \A p \in Started(b, s) \cap Attempt(s) : v.items[s].preflight = p

Quiet(b, v) ==
    v.state = "CANCELLED" => \A s \in Source : \A p \in Started(b, s) \cap Attempt(s) : ~Runs(p)

\* What belongs to the batch came after the items were made.
Begun(v) ==
    \A s \in Source :
        /\ v.items[s].owned => v.items[s].state # "WAITING"
        /\ ~v.made => ~v.items[s].owned /\ v.items[s].pending = "NONE"

Good(b, v) ==
    /\ v \in Row
    /\ Begun(v)
    /\ b \notin again => Told(b, v) /\ Points(b, v) /\ Quiet(b, v)

RowsOK ==
    \A b \in Batch : rows[b] # None =>
        /\ Good(b, rows[b])
        /\ rows[b].cancel => rows[b].state \notin {"RUNNING", "SUCCEEDED"}

\* The receipt of the batch for this item is that of preflight p.
Recorded(b, s, p) ==
    /\ receipts[b, s, "START_PREFLIGHT"] # None
    /\ receipts[b, s, "START_PREFLIGHT"].result = p

\* Receipts belong to rows, and every preflight of a batch to its receipt.
HaveRows == \A b \in Batch, s \in Source, k \in Kinds : receipts[b, s, k] # None => rows[b] # None
HaveReceipts == \A b \in Batch, s \in Source : \A p \in Started(b, s) : Recorded(b, s, p)
ReceiptsOK == HaveRows /\ HaveReceipts

\* The command the coordinator is about to write down or to give.
CommandOK(b, v, s, k) ==
    /\ s \in Source /\ k \in Kinds
    /\ v.state \in Active /\ v.made
    /\ v.items[s].pending = k
    /\ \A o \in Source \ {s} : v.items[o].pending = "NONE"
    /\ k # "CANCEL_PREFLIGHT" => v.session = session
    /\ k = "START_PREFLIGHT" /\ b \notin again =>
          receipts[b, s, k] = None /\ ~v.items[s].owned

\* The snapshot of the coordinator and the row it was taken of.
SnapshotOK(b, v) ==
    /\ IsActive(b)
    /\ Good(b, v)
    /\ v.session = rows[b].session /\ v.plan = rows[b].plan /\ (v.cancel => rows[b].cancel)
    /\ work.at = "STEP" => v.state \in Active /\ v.items = rows[b].items
    /\ work.at \in {"ANNOUNCE", "EXECUTE"} => CommandOK(b, v, work.item, work.kind)
    /\ work.at = "EXECUTE" => v.items = rows[b].items
    /\ work.at = "SAVE" =>
          \/ work.then = "LAST" /\ v.state = "BLOCKED"
          \/ /\ work.then = "STEP" \/ v.state \in Active
             /\ \A s \in Source : v.items[s].pending \in {"NONE", rows[b].items[s].pending}

WorkOK ==
    work.at # "IDLE" =>
        \E b \in Batch, v \in Row : work.batch = b /\ work.value = v /\ SnapshotOK(b, v)

BInv == BatchTypeOK /\ RowsOK /\ ReceiptsOK /\ OneActive /\ WorkOK

-----------------------------------------------------------------------------
(* The helpers.                                                            *)

LEMMA StoredIs ==
    ASSUME BatchTypeOK, NEW b \in Batch, NEW v \in Row
    PROVE  LET w == Stored(b, v) IN
           /\ w \in Row
           /\ w.items = v.items /\ w.session = v.session /\ w.plan = v.plan /\ (w.made <=> v.made)
           /\ w.cancel <=> (v.cancel \/ (rows[b] # None /\ rows[b].cancel))
           /\ w.state = IF w.cancel /\ v.state = "RUNNING" THEN "CANCELLING" ELSE v.state
BY DEF Stored, BatchTypeOK, Row, Active, Ended

LEMMA MergedIs ==
    ASSUME BatchTypeOK, NEW b \in Batch, NEW v \in Row, rows[b] # None
    PROVE  LET w == Merged(b, v) IN
           /\ w \in Row
           /\ w.items = v.items /\ w.session = v.session /\ w.plan = v.plan /\ (w.made <=> v.made)
           /\ w.cancel <=> (v.cancel \/ rows[b].cancel)
           /\ w.state \in {v.state, "CANCELLING"}
           /\ w.state # v.state => v.state \in {"RUNNING", "SUCCEEDED"}
           /\ w.cancel => w.state # "RUNNING"
           /\ rows[b].cancel => w.state # "SUCCEEDED"
<1>1. CASE ~rows[b].cancel
    BY <1>1, StoredIs DEF Merged
<1>2. CASE rows[b].cancel
  <2> DEFINE u == [v EXCEPT !.cancel = TRUE,
                       !.state = IF @ \in {"RUNNING", "SUCCEEDED"} THEN "CANCELLING" ELSE @]
  <2>1. /\ u \in Row
        /\ u.items = v.items /\ u.session = v.session /\ u.plan = v.plan /\ u.made = v.made
        /\ u.cancel = TRUE
        /\ u.state = IF v.state \in {"RUNNING", "SUCCEEDED"} THEN "CANCELLING" ELSE v.state
      BY DEF Row, Active, Ended
  <2>2. Merged(b, v) = Stored(b, u)
      BY <1>2 DEF Merged
  <2> HIDE DEF u
  <2> QED
      BY <1>2, <2>1, <2>2, StoredIs
<1> QED
    BY <1>1, <1>2 DEF BatchTypeOK, Row

LEMMA AcceptedIs ==
    ASSUME NEW v \in Row, NEW s \in Source, NEW k \in Kinds, NEW r \in Nat
    PROVE  LET w == Accepted(v, s, k, r) IN
           /\ w \in Row
           /\ w.state = v.state /\ (w.cancel <=> v.cancel) /\ w.session = v.session
           /\ w.plan = v.plan /\ (w.made <=> v.made)
           /\ \A o \in Source \ {s} : w.items[o] = v.items[o]
           /\ w.items[s].pending = "NONE"
           /\ k = "START_PREFLIGHT" => w.items[s].owned /\ w.items[s].state = "CHECKING"
                                       /\ w.items[s].preflight = r
           /\ k # "START_PREFLIGHT" => /\ w.items[s].owned = v.items[s].owned
                                       /\ w.items[s].state = v.items[s].state
                                       /\ w.items[s].preflight = v.items[s].preflight
<1> DEFINE i == Answer(v.items[s], k, r)
           j == [i EXCEPT !.pending = "NONE"]
<1>0. v.items \in [Source -> Item]
    BY DEF Row
<1>1. /\ i \in Item
      /\ k = "START_PREFLIGHT" => i.owned /\ i.state = "CHECKING" /\ i.preflight = r
      /\ k # "START_PREFLIGHT" => /\ i.owned = v.items[s].owned /\ i.state = v.items[s].state
                                  /\ i.preflight = v.items[s].preflight
  <2>1. CASE k = "START_PREFLIGHT"
      BY <1>0, <2>1 DEF Answer, Item
  <2>2. CASE k # "START_PREFLIGHT"
      BY <1>0, <2>2 DEF Answer, Item
  <2> QED
      BY <2>1, <2>2
<1>2. /\ j \in Item /\ j.pending = "NONE"
      /\ j.owned = i.owned /\ j.state = i.state /\ j.preflight = i.preflight
    BY <1>1 DEF Item
<1>3. Accepted(v, s, k, r) = [v EXCEPT !.items[s] = j]
    BY DEF Accepted
<1> HIDE DEF j, i
<1> QED
    BY <1>0, <1>1, <1>2, <1>3 DEF Row

WithItem(v, s, i) == [v EXCEPT !.items[s] = i]
WithState(v, state) == [v EXCEPT !.state = state]

LEMMA ItemChanged ==
    ASSUME NEW v \in Row, NEW s \in Source, NEW i \in Item
    PROVE  LET w == WithItem(v, s, i) IN
           /\ w \in Row
           /\ w.state = v.state /\ (w.cancel <=> v.cancel) /\ w.session = v.session
           /\ w.plan = v.plan /\ (w.made <=> v.made)
           /\ w.items[s] = i
           /\ \A o \in Source \ {s} : w.items[o] = v.items[o]
BY DEF Row, WithItem

LEMMA StateChanged ==
    ASSUME NEW v \in Row, NEW state \in Active \cup Ended
    PROVE  LET w == WithState(v, state) IN
           /\ w \in Row
           /\ w.state = state /\ (w.cancel <=> v.cancel) /\ w.session = v.session
           /\ w.plan = v.plan /\ (w.made <=> v.made) /\ w.items = v.items
BY DEF Row, WithState

\* Of the preflights of a source one at most is the latest.
LEMMA OneAttempt ==
    ASSUME BatchTypeOK, NEW s \in Source, NEW p \in Attempt(s), NEW q \in Attempt(s)
    PROVE  p = q
<1>1. DOMAIN preflights = 1 .. Len(preflights) /\ Len(preflights) \in Nat
    BY DEF BatchTypeOK
<1>2. p \in Int /\ q \in Int
    BY <1>1 DEF Attempt
<1> QED
    BY <1>2 DEF Attempt

-----------------------------------------------------------------------------
(* What a step does to preflights.                                         *)

\* The latest preflight of a source, if this batch started it, was so before,
\* and does not run anew.
Calm(b, s) ==
    \A p \in (Started(b, s) \cap Attempt(s))' :
        p \in Started(b, s) \cap Attempt(s) /\ (Runs(p)' => Runs(p))

\* Preflights only end.
LEMMA Ending ==
    ASSUME DOMAIN preflights' = DOMAIN preflights,
           \A p \in DOMAIN preflights :
              /\ preflights'[p].source = preflights[p].source
              /\ preflights'[p].by = preflights[p].by
              /\ preflights'[p].state \in {"OPEN", "STOPPING"} =>
                    preflights[p].state \in {"OPEN", "STOPPING"},
           NEW b \in Batch, NEW s \in Source
    PROVE  Started(b, s)' = Started(b, s) /\ Calm(b, s)
<1>1. Started(b, s)' = Started(b, s)
    BY DEF Started
<1>2. Attempt(s)' = Attempt(s)
    BY DEF Attempt
<1>3. \A p \in Started(b, s)' : Runs(p)' => Runs(p)
    BY DEF Started, Runs
<1> QED
    BY <1>1, <1>2, <1>3 DEF Calm

\* One is added; that of another batch or source changes nothing.
LEMMA Adding ==
    ASSUME BatchTypeOK, NEW r \in Preflight, preflights' = Append(preflights, r),
           NEW b \in Batch, NEW s \in Source
    PROVE  /\ r.by # b \/ r.source # s => Started(b, s)' = Started(b, s) /\ Calm(b, s)
           /\ r.by = b /\ r.source = s =>
                 /\ Started(b, s)' = Started(b, s) \cup {Len(preflights) + 1}
                 /\ Attempt(s)' = {Len(preflights) + 1}
<1> DEFINE n == Len(preflights)
<1>1. /\ n \in Nat /\ DOMAIN preflights = 1 .. n /\ DOMAIN preflights' = 1 .. (n + 1)
      /\ \A p \in 1 .. n : preflights'[p] = preflights[p]
      /\ preflights'[n + 1] = r
    BY DEF BatchTypeOK
<1> HIDE DEF n
<1>2. Started(b, s)' = Started(b, s) \cup {p \in {n + 1} : r.by = b /\ r.source = s}
    BY <1>1 DEF Started
<1>3. r.source = s => Attempt(s)' = {n + 1}
    BY <1>1 DEF Attempt
<1>4. r.source # s => Attempt(s)' = Attempt(s)
    BY <1>1 DEF Attempt
<1>5. n + 1 \notin Started(b, s)
    BY <1>1 DEF Started
<1>6. \A p \in Started(b, s) : Runs(p)' => Runs(p)
    BY <1>1 DEF Started, Runs
<1>7. CASE r.by # b \/ r.source # s
  <2>1. Started(b, s)' = Started(b, s)
      BY <1>2, <1>7
  <2>2. Calm(b, s)
      BY <2>1, <1>3, <1>4, <1>5, <1>6 DEF Calm
  <2> QED
      BY <1>7, <2>1, <2>2
<1>8. CASE r.by = b /\ r.source = s
    BY <1>2, <1>3, <1>8 DEF n
<1> QED
    BY <1>7, <1>8

\* What holds of a row or a snapshot goes on to hold while nothing is given for it.
LEMMA GoodStays ==
    ASSUME NEW b \in Batch, NEW v, Good(b, v), again' = again,
           \A s \in Source : Calm(b, s)
                /\ receipts'[b, s, "START_PREFLIGHT"] = receipts[b, s, "START_PREFLIGHT"]
    PROVE  Good(b, v)'
<1>1. Told(b, v) => Told(b, v)'
    BY DEF Told
<1>2. Points(b, v) => Points(b, v)'
    BY DEF Points, Calm
<1>3. Quiet(b, v) => Quiet(b, v)'
    BY DEF Quiet, Calm
<1> QED
    BY <1>1, <1>2, <1>3 DEF Good

LEMMA ReceiptsStay ==
    ASSUME ReceiptsOK, rows' = rows, receipts' = receipts,
           \A b \in Batch, s \in Source : Started(b, s)' = Started(b, s)
    PROVE  ReceiptsOK'
BY DEF ReceiptsOK, HaveRows, HaveReceipts, Recorded

\* Rows and receipts are left alone, and the coordinator is or is dropped.
LEMMA Elsewhere ==
    ASSUME BInv, rows' = rows, receipts' = receipts, again' = again,
           \A b \in Batch, s \in Source : Started(b, s)' = Started(b, s) /\ Calm(b, s),
           work' = Idle \/ (work' = work /\ session' = session)
    PROVE  RowsOK' /\ ReceiptsOK' /\ OneActive' /\ WorkOK'
<1>1. \A b \in Batch : \A v : Good(b, v) => Good(b, v)'
    BY GoodStays
<1>2. RowsOK'
    BY <1>1 DEF RowsOK, BInv
<1>3. ReceiptsOK'
    BY ReceiptsStay DEF BInv
<1>4. OneActive'
    BY DEF OneActive, IsActive, BInv
<1>5. CASE work' = Idle
    BY <1>2, <1>3, <1>4, <1>5 DEF WorkOK, Idle
<1>6. CASE work' = work /\ session' = session
  <2>1. ASSUME NEW b \in Batch, NEW v \in Row, SnapshotOK(b, v)
        PROVE  SnapshotOK(b, v)'
    <3>1. IsActive(b)' /\ Good(b, v)'
        BY <1>1, <2>1 DEF SnapshotOK, IsActive
    <3>2. CommandOK(b, v, work.item, work.kind) => CommandOK(b, v, work.item, work.kind)'
        BY <1>6 DEF CommandOK
    <3> QED
        BY <1>6, <2>1, <3>1, <3>2 DEF SnapshotOK
  <2> QED
      BY <2>1, <1>2, <1>3, <1>4, <1>6 DEF WorkOK, BInv
<1> QED
    BY <1>5, <1>6

-----------------------------------------------------------------------------
(* The coordinator's next place.                                           *)

SaveOf(b, w, t) ==
    [at |-> "SAVE", batch |-> b, value |-> w, item |-> None, kind |-> "NONE",
     preflight |-> 0, then |-> t]

AnnounceOf(b, w, s, k, p, t) ==
    [at |-> "ANNOUNCE", batch |-> b, value |-> w, item |-> s, kind |-> k,
     preflight |-> p, then |-> t]

\* The database is as it was.
SameStore == UNCHANGED <<rows, receipts, preflights, again, session>>

LEMMA SameStoreKeeps ==
    ASSUME BInv, SameStore
    PROVE  /\ RowsOK' /\ ReceiptsOK' /\ OneActive'
           /\ \A b \in Batch : \A v : Good(b, v) => Good(b, v)'
           /\ \A b \in Batch : IsActive(b) => IsActive(b)'
<1>1. \A b \in Batch, s \in Source : Started(b, s)' = Started(b, s) /\ Calm(b, s)
    BY DEF SameStore, Started, Attempt, Runs, Calm
<1>2. \A b \in Batch : \A v : Good(b, v) => Good(b, v)'
    BY <1>1, GoodStays DEF SameStore
<1>3. RowsOK'
    BY <1>2 DEF RowsOK, BInv, SameStore
<1>4. ReceiptsOK'
    BY <1>1, ReceiptsStay DEF BInv, SameStore
<1>5. OneActive' /\ \A b \in Batch : IsActive(b) => IsActive(b)'
    BY DEF OneActive, IsActive, BInv, SameStore
<1> QED
    BY <1>2, <1>3, <1>4, <1>5

\* What a save must satisfy.
SaveFits(b, w, t) ==
    /\ w.session = rows[b].session /\ w.plan = rows[b].plan /\ (w.cancel => rows[b].cancel)
    /\ \/ t = "LAST" /\ w.state = "BLOCKED"
       \/ /\ t = "STEP" \/ w.state \in Active
          /\ \A s \in Source : w.items[s].pending \in {"NONE", rows[b].items[s].pending}

LEMMA Saves ==
    ASSUME NEW b \in Batch, NEW w \in Row, NEW t \in {"STEP", "REFUSED", "LAST"},
           work' = SaveOf(b, w, t), IsActive(b)', Good(b, w)', SaveFits(b, w, t)'
    PROVE  WorkOK' /\ work' \in Work
<1>1. work'.at = "SAVE" /\ work'.batch = b /\ work'.value = w /\ work'.then = t
    BY DEF SaveOf
<1>2. SnapshotOK(b, w)'
    BY <1>1 DEF SnapshotOK, SaveFits
<1>3. WorkOK'
    BY <1>1, <1>2 DEF WorkOK
<1>4. work' \in Work
    BY DEF SaveOf, Work
<1> QED
    BY <1>3, <1>4

LEMMA Announces ==
    ASSUME NEW b \in Batch, NEW w \in Row, NEW s \in Source, NEW k \in Kinds, NEW p \in Nat,
           NEW t \in {"STEP", "REFUSED", "LAST"},
           work' = AnnounceOf(b, w, s, k, p, t), IsActive(b)', Good(b, w)',
           w.session = rows'[b].session, w.plan = rows'[b].plan, w.cancel => rows'[b].cancel,
           CommandOK(b, w, s, k)'
    PROVE  WorkOK' /\ work' \in Work
<1>1. work'.at = "ANNOUNCE" /\ work'.batch = b /\ work'.value = w /\ work'.item = s /\ work'.kind = k
    BY DEF AnnounceOf
<1>2. SnapshotOK(b, w)'
    BY <1>1 DEF SnapshotOK
<1>3. WorkOK'
    BY <1>1, <1>2 DEF WorkOK
<1>4. work' \in Work
    BY DEF AnnounceOf, Work
<1> QED
    BY <1>3, <1>4

LEMMA IdleIs ==
    Idle \in Work /\ Idle.at = "IDLE"
BY DEF Idle, Work

\* Save as it is written, for a snapshot of b.
LEMMA SaveIs ==
    ASSUME NEW b, work.batch = b, NEW w, NEW t, Save(w, t)
    PROVE  work' = SaveOf(b, w, t)
BY DEF Save, SaveOf, Idle

\* A step that only decides: what it may lead to.
SaveStep(b, v) ==
    \E w \in Row, t \in {"STEP", "LAST"} :
        /\ work' = SaveOf(b, w, t)
        /\ Good(b, w)
        /\ w.session = v.session /\ w.plan = v.plan /\ (w.cancel <=> v.cancel)
        /\ \/ t = "LAST" /\ w.state = "BLOCKED"
           \/ t = "STEP" /\ \A s \in Source : w.items[s].pending \in {"NONE", v.items[s].pending}

AnnounceStep(b, v) ==
    \E w \in Row, s \in Source, k \in Kinds, p \in Nat :
        /\ work' = AnnounceOf(b, w, s, k, p, work.then)
        /\ Good(b, w) /\ CommandOK(b, w, s, k)
        /\ w.session = v.session /\ w.plan = v.plan /\ (w.cancel <=> v.cancel)

StepsTo(b, v) == work' = Idle \/ SaveStep(b, v) \/ AnnounceStep(b, v)

\* An item the row may have in place of the one of s.
ItemFits(b, v, s, i) ==
    /\ i.owned => i.state # "WAITING"
    /\ v.made \/ (~i.owned /\ i.pending = "NONE")
    /\ b \notin again =>
          /\ receipts[b, s, "START_PREFLIGHT"] # None => i.owned \/ i.pending = "START_PREFLIGHT"
          /\ i.owned => \A p \in Started(b, s) \cap Attempt(s) : i.preflight = p

LEMMA ItemGood ==
    ASSUME NEW b \in Batch, NEW v, Good(b, v), NEW s \in Source, NEW i \in Item,
           ItemFits(b, v, s, i)
    PROVE  Good(b, WithItem(v, s, i))
<1> DEFINE w == WithItem(v, s, i)
<1>1. v \in Row
    BY DEF Good
<1>2. /\ w \in Row /\ w.state = v.state /\ (w.made <=> v.made) /\ w.items[s] = i
      /\ \A o \in Source \ {s} : w.items[o] = v.items[o]
    BY <1>1, ItemChanged
<1> HIDE DEF w
<1>3. Begun(w)
    BY <1>2 DEF Good, Begun, ItemFits
<1>4. b \notin again => Told(b, w)
    BY <1>2 DEF Good, Told, ItemFits
<1>5. b \notin again => Points(b, w)
    BY <1>2 DEF Good, Points, ItemFits
<1>6. b \notin again => Quiet(b, w)
    BY <1>2 DEF Good, Quiet
<1>7. Good(b, w)
    BY <1>2, <1>3, <1>4, <1>5, <1>6 DEF Good
<1> QED
    BY <1>7 DEF w

LEMMA StateGood ==
    ASSUME NEW b \in Batch, NEW v, Good(b, v), NEW state \in Active \cup Ended,
           state = "CANCELLED" /\ b \notin again =>
              \A s \in Source : \A p \in Started(b, s) \cap Attempt(s) : ~Runs(p)
    PROVE  Good(b, WithState(v, state))
<1> DEFINE w == WithState(v, state)
<1>1. v \in Row
    BY DEF Good
<1>2. w \in Row /\ w.state = state /\ (w.made <=> v.made) /\ w.items = v.items
    BY <1>1, StateChanged
<1> HIDE DEF w
<1>3. Good(b, w)
    BY <1>2 DEF Good, Begun, Told, Points, Quiet
<1> QED
    BY <1>3 DEF w

\* The two shapes most decisions have.
LEMMA Finishes ==
    ASSUME NEW b \in Batch, NEW v, work.batch = b, work.value = v, Good(b, v),
           NEW state \in Ended, Finish(state),
           state = "CANCELLED" /\ b \notin again =>
              \A s \in Source : \A p \in Started(b, s) \cap Attempt(s) : ~Runs(p)
    PROVE  SaveStep(b, v)
<1> DEFINE w == WithState(v, state)
<1>1. v \in Row
    BY DEF Good
<1>2. work' = SaveOf(b, w, "STEP")
    BY SaveIs DEF Finish, WithState
<1>3. Good(b, w)
    BY StateGood
<1>4. w \in Row /\ w.session = v.session /\ w.plan = v.plan /\ (w.cancel <=> v.cancel) /\ w.items = v.items
    BY <1>1, StateChanged
<1> HIDE DEF w
<1> QED
    BY <1>2, <1>3, <1>4 DEF SaveStep

LEMMA SetsItem ==
    ASSUME NEW b \in Batch, NEW v, work.batch = b, work.value = v, Good(b, v),
           NEW s \in Source, NEW i \in Item, Save(WithItem(v, s, i), "STEP"),
           i.pending \in {"NONE", v.items[s].pending},
           ItemFits(b, v, s, i)
    PROVE  SaveStep(b, v)
<1> DEFINE w == WithItem(v, s, i)
<1>1. v \in Row
    BY DEF Good
<1>2. work' = SaveOf(b, w, "STEP")
    BY SaveIs
<1>3. Good(b, w)
    BY ItemGood
<1>4. /\ w \in Row /\ w.session = v.session /\ w.plan = v.plan /\ (w.cancel <=> v.cancel)
      /\ w.items[s] = i /\ \A o \in Source \ {s} : w.items[o] = v.items[o]
    BY <1>1, ItemChanged
<1> HIDE DEF w
<1>5. \A o \in Source : w.items[o].pending \in {"NONE", v.items[o].pending}
    BY <1>4
<1> QED
    BY <1>2, <1>3, <1>4, <1>5 DEF SaveStep

\* A snapshot no command of which is pending.
Unhurried(v) ==
    v.state \in Active /\ v.made /\ \A o \in Source : v.items[o].pending = "NONE"

\* The item of s with a command pending.
Pending(v, s, k) == [v.items[s] EXCEPT !.pending = k]

LEMMA PendingIs ==
    ASSUME NEW v \in Row, NEW s \in Source, NEW k \in Kinds
    PROVE  LET i == Pending(v, s, k) IN
           /\ i \in Item /\ i.pending = k /\ (i.owned <=> v.items[s].owned)
           /\ i.state = v.items[s].state /\ i.preflight = v.items[s].preflight
<1>1. v.items[s] \in Item
    BY DEF Row
<1> QED
    BY <1>1 DEF Pending, Item

LEMMA PendingFits ==
    ASSUME NEW b \in Batch, NEW v, Good(b, v), v.made, NEW s \in Source, NEW k \in Kinds,
           v.items[s].pending = "NONE"
    PROVE  ItemFits(b, v, s, Pending(v, s, k))
<1> DEFINE i == Pending(v, s, k)
<1>1. v \in Row
    BY DEF Good
<1>2. /\ (i.owned <=> v.items[s].owned) /\ i.state = v.items[s].state
      /\ i.preflight = v.items[s].preflight
    BY <1>1, PendingIs
<1> HIDE DEF i
<1>3. i.owned => i.state # "WAITING"
    BY <1>2 DEF Good, Begun
<1>4. b \notin again /\ receipts[b, s, "START_PREFLIGHT"] # None => i.owned
    BY <1>2 DEF Good, Told
<1>5. b \notin again /\ i.owned => \A p \in Started(b, s) \cap Attempt(s) : i.preflight = p
    BY <1>2 DEF Good, Points
<1>6. ItemFits(b, v, s, i)
    BY <1>3, <1>4, <1>5 DEF ItemFits
<1> QED
    BY <1>6 DEF i

\* A preflight is started once for an item.
Untried(b, v, s, k) ==
    k = "START_PREFLIGHT" /\ b \notin again => receipts[b, s, k] = None /\ ~v.items[s].owned

LEMMA Announced ==
    ASSUME BInv, NEW b \in Batch, NEW v \in Row, work.batch = b, work.value = v, Good(b, v),
           Unhurried(v),
           NEW s \in Source, NEW k \in Kinds, NEW p \in Nat, Announce(s, k, p),
           k # "CANCEL_PREFLIGHT" => v.session = session,
           Untried(b, v, s, k)
    PROVE  AnnounceStep(b, v)
<1> DEFINE i == Pending(v, s, k)
           w == WithItem(v, s, i)
<1>1. work \in Work
    BY DEF BInv, BatchTypeOK
<1>2. work' = AnnounceOf(b, w, s, k, p, work.then)
    BY <1>1 DEF Announce, AnnounceOf, Work, WithItem, Pending
<1>3. i \in Item
    BY PendingIs
<1>4. v.made /\ v.items[s].pending = "NONE"
    BY DEF Unhurried
<1>5. ItemFits(b, v, s, i)
    BY <1>4, PendingFits
<1>6. i.pending = k /\ (i.owned <=> v.items[s].owned)
    BY PendingIs
<1> HIDE DEF i
<1>7. Good(b, w)
    BY <1>3, <1>5, ItemGood
<1>8. /\ w \in Row /\ w.session = v.session /\ w.plan = v.plan /\ (w.cancel <=> v.cancel)
      /\ w.state = v.state /\ (w.made <=> v.made)
      /\ w.items[s] = i /\ \A o \in Source \ {s} : w.items[o] = v.items[o]
    BY <1>3, ItemChanged
<1> HIDE DEF w
<1>9. CommandOK(b, w, s, k)
  <2>1. w.state \in Active /\ w.made
      BY <1>8 DEF Unhurried
  <2>2. w.items[s].pending = k
      BY <1>6, <1>8
  <2>3. \A o \in Source \ {s} : w.items[o].pending = "NONE"
      BY <1>8 DEF Unhurried
  <2>4. k # "CANCEL_PREFLIGHT" => w.session = session
      BY <1>8
  <2>5. k = "START_PREFLIGHT" /\ b \notin again => receipts[b, s, k] = None /\ ~w.items[s].owned
      BY <1>6, <1>8 DEF Untried
  <2> QED
      BY <2>1, <2>2, <2>3, <2>4, <2>5 DEF CommandOK
<1> QED
    BY <1>2, <1>7, <1>8, <1>9 DEF AnnounceStep

-----------------------------------------------------------------------------
(* What the coordinator decides.                                           *)

\* The answer to a command is in the item.
LEMMA AcceptedGood ==
    ASSUME NEW b \in Batch, NEW v, Good(b, v), v.made, NEW s \in Source, NEW k \in Kinds,
           v.items[s].pending = k, NEW r \in Nat,
           k = "START_PREFLIGHT" => \A p \in Started(b, s) \cap Attempt(s) : p = r
    PROVE  Good(b, Accepted(v, s, k, r))
<1> DEFINE w == Accepted(v, s, k, r)
<1>1. v \in Row
    BY DEF Good
<1>2. /\ w \in Row /\ w.state = v.state /\ (w.made <=> v.made)
      /\ \A o \in Source \ {s} : w.items[o] = v.items[o]
      /\ k = "START_PREFLIGHT" => w.items[s].owned /\ w.items[s].state = "CHECKING"
                                  /\ w.items[s].preflight = r
      /\ k # "START_PREFLIGHT" => /\ w.items[s].owned = v.items[s].owned
                                  /\ w.items[s].state = v.items[s].state
                                  /\ w.items[s].preflight = v.items[s].preflight
    BY <1>1, AcceptedIs
<1> HIDE DEF w
<1>3. Begun(w)
    BY <1>2 DEF Begun, Good
<1>4. b \notin again => Told(b, w)
    BY <1>2 DEF Told, Good
<1>5. b \notin again => Points(b, w)
    BY <1>2 DEF Points, Good
<1>6. b \notin again => Quiet(b, w)
    BY <1>2 DEF Quiet, Good
<1>7. Good(b, w)
    BY <1>2, <1>3, <1>4, <1>5, <1>6 DEF Good
<1> QED
    BY <1>7 DEF w

LEMMA Confirms ==
    ASSUME BInv, NEW b \in Batch, NEW v, work.batch = b, work.value = v, Good(b, v),
           NEW s \in Source, Confirm(s)
    PROVE  SaveStep(b, v)
<1> DEFINE k == v.items[s].pending
<1>1. v \in Row /\ k \in Kinds
    BY DEF Confirm, Good, Row, Item
<1>2. v.made
    BY DEF Confirm, Good, Begun
<1>3. CASE receipts[b, s, k] = None
  <2> DEFINE w == WithState(v, "BLOCKED")
  <2>1. work' = SaveOf(b, w, "LAST")
      BY <1>3, SaveIs DEF Confirm, Fail, WithState
  <2>2. Good(b, w)
      BY StateGood DEF Ended
  <2>3. w \in Row /\ w.session = v.session /\ w.plan = v.plan /\ (w.cancel <=> v.cancel) /\ w.state = "BLOCKED"
      BY <1>1, StateChanged DEF Ended
  <2> HIDE DEF w
  <2> QED
      BY <2>1, <2>2, <2>3 DEF SaveStep
<1>4. CASE receipts[b, s, k] # None
  <2> DEFINE r == receipts[b, s, k].result
             w == Accepted(v, s, k, r)
  <2>1. r \in Nat
      BY <1>1, <1>4 DEF BInv, BatchTypeOK, Receipt
  <2>2. k = "START_PREFLIGHT" => \A p \in Started(b, s) : p = r
      BY DEF BInv, ReceiptsOK, HaveRows, HaveReceipts, Recorded
  <2>3. work' = SaveOf(b, w, "STEP")
      BY <1>4, SaveIs DEF Confirm
  <2> HIDE DEF r
  <2>4. Good(b, w)
      BY <1>1, <1>2, <2>1, <2>2, AcceptedGood
  <2>5. /\ w \in Row /\ w.session = v.session /\ w.plan = v.plan /\ (w.cancel <=> v.cancel)
        /\ w.items[s].pending = "NONE"
        /\ \A o \in Source \ {s} : w.items[o] = v.items[o]
      BY <1>1, <2>1, AcceptedIs
  <2> HIDE DEF w
  <2>6. \A o \in Source : w.items[o].pending \in {"NONE", v.items[o].pending}
      BY <2>5
  <2> QED
      BY <2>3, <2>4, <2>5, <2>6 DEF SaveStep
<1> QED
    BY <1>3, <1>4

LEMMA Stops ==
    ASSUME BInv, NEW b \in Batch, NEW v, work.batch = b, work.value = v, Good(b, v),
           v.state \in Active, StopOwn
    PROVE  StepsTo(b, v)
<1>1. \A s \in Source : v.items[s].pending = "NONE"
    BY DEF StopOwn, Settled
<1>2. CASE Waiting = {}
  <2>1. ASSUME b \notin again, NEW s \in Source, NEW p \in Started(b, s) \cap Attempt(s)
        PROVE  ~Runs(p)
    <3>1. receipts[b, s, "START_PREFLIGHT"] # None
        BY DEF BInv, ReceiptsOK, HaveRows, HaveReceipts, Recorded
    <3>2. v.items[s].owned
        BY <1>1, <2>1, <3>1 DEF Good, Told
    <3>3. v.items[s].preflight = p
        BY <2>1, <3>2 DEF Good, Points
    <3>4. p \in DOMAIN preflights
        BY DEF Started
    <3> QED
        BY <1>2, <3>2, <3>3, <3>4 DEF Waiting
  <2>2. Finish("CANCELLED")
      BY <1>2 DEF StopOwn
  <2> QED
      BY <2>1, <2>2, Finishes DEF StepsTo, Ended
<1>3. ASSUME NEW s \in Waiting, Announce(s, "CANCEL_PREFLIGHT", v.items[s].preflight)
      PROVE  AnnounceStep(b, v)
  <2>1. s \in Source /\ v.items[s].owned
      BY DEF Waiting
  <2>2. v \in Row /\ v.items[s].preflight \in Nat
      BY <2>1 DEF Good, Row, Item
  <2>3. v.made
      BY <2>1 DEF Good, Begun
  <2>4. Unhurried(v)
      BY <1>1, <2>3 DEF Unhurried
  <2>5. Untried(b, v, s, "CANCEL_PREFLIGHT")
      BY DEF Untried
  <2> QED
      BY <1>3, <2>1, <2>2, <2>4, <2>5, Announced DEF Kinds
<1> QED
    BY <1>2, <1>3 DEF StopOwn, StepsTo

LEMMA MakesItems ==
    ASSUME BInv, NEW b \in Batch, NEW v, work.batch = b, work.value = v, Good(b, v), MakeItems
    PROVE  SaveStep(b, v)
<1> DEFINE State(s) == IF AlreadyReady(s) THEN "READY" ELSE "WAITING"
           items == [s \in Source |-> [v.items[s] EXCEPT !.state = State(s)]]
           w == [v EXCEPT !.made = TRUE, !.items = items]
<1>0. v \in Row /\ v.items \in [Source -> Item]
    BY DEF Good, Row
<1>1. \A s \in Source : v.items[s].pending = "NONE" /\ ~v.items[s].owned
    BY DEF MakeItems, Good, Begun
<1>2. \A s \in Source : State(s) \in {"READY", "WAITING"}
    OBVIOUS
<1> HIDE DEF State
<1>3. ASSUME NEW s \in Source
      PROVE  items[s] \in Item /\ items[s].pending = "NONE" /\ ~items[s].owned
    BY <1>0, <1>1, <1>2 DEF Item
<1>4. items \in [Source -> Item]
    BY <1>3
<1>5. work' = SaveOf(b, w, "STEP")
  <2>1. Save(w, "STEP")
      BY DEF MakeItems, State
  <2> QED
      BY <2>1, SaveIs
<1> HIDE DEF items
<1>6. w \in Row /\ w.items = items /\ w.session = v.session /\ w.plan = v.plan
      /\ (w.cancel <=> v.cancel) /\ w.state = v.state /\ w.made
    BY <1>0, <1>4 DEF Row
<1> HIDE DEF w
<1>7. Begun(w)
    BY <1>3, <1>6 DEF Begun
<1>8. b \notin again => Told(b, w)
    BY <1>1 DEF Good, Told
<1>9. b \notin again => Points(b, w)
    BY <1>3, <1>6 DEF Points
<1>10. b \notin again => Quiet(b, w)
    BY <1>6 DEF Good, Quiet
<1>11. Good(b, w)
    BY <1>6, <1>7, <1>8, <1>9, <1>10 DEF Good
<1>12. \A s \in Source : w.items[s].pending \in {"NONE", v.items[s].pending}
    BY <1>3, <1>6
<1> QED
    BY <1>5, <1>6, <1>11, <1>12 DEF SaveStep

\* The item of s in another state, for another preflight.
Moved(v, s, state, p) == [v.items[s] EXCEPT !.state = state, !.preflight = p]

LEMMA MovedIs ==
    ASSUME NEW v \in Row, NEW s \in Source, NEW state \in {"CHECKING", "READY", "BLOCKED"}, NEW p \in Nat
    PROVE  LET i == Moved(v, s, state, p) IN
           /\ i \in Item /\ i.pending = v.items[s].pending /\ (i.owned <=> v.items[s].owned)
           /\ i.state = state /\ i.preflight = p
<1>1. v.items[s] \in Item
    BY DEF Row
<1> QED
    BY <1>1 DEF Moved, Item

LEMMA Moves ==
    ASSUME NEW b \in Batch, NEW v, work.batch = b, work.value = v, Good(b, v),
           NEW s \in Source, NEW state \in {"CHECKING", "READY", "BLOCKED"}, NEW p \in Nat,
           p = v.items[s].preflight \/ \A q \in Attempt(s) : q = p,
           Save(WithItem(v, s, Moved(v, s, state, p)), "STEP")
    PROVE  SaveStep(b, v)
<1> DEFINE i == Moved(v, s, state, p)
<1>1. v \in Row
    BY DEF Good
<1>2. /\ i \in Item /\ i.pending = v.items[s].pending /\ (i.owned <=> v.items[s].owned)
      /\ i.state = state /\ i.preflight = p
    BY <1>1, MovedIs
<1> HIDE DEF i
<1>3. i.owned => i.state # "WAITING"
    BY <1>2
<1>4. v.made \/ (~i.owned /\ i.pending = "NONE")
    BY <1>2 DEF Good, Begun
<1>5. b \notin again /\ receipts[b, s, "START_PREFLIGHT"] # None =>
         i.owned \/ i.pending = "START_PREFLIGHT"
    BY <1>2 DEF Good, Told
<1>6. b \notin again /\ i.owned => \A q \in Started(b, s) \cap Attempt(s) : i.preflight = q
    BY <1>2 DEF Good, Points
<1>7. ItemFits(b, v, s, i)
    BY <1>3, <1>4, <1>5, <1>6 DEF ItemFits
<1> QED
    BY <1>2, <1>7, SetsItem DEF i

LEMMA Withs ==
    ASSUME NEW b \in Batch, NEW v, work.batch = b, work.value = v, Good(b, v),
           NEW s \in Source, NEW state \in {"CHECKING", "READY", "BLOCKED"}, With(s, state)
    PROVE  SaveStep(b, v)
<1>1. v \in Row /\ v.items[s] \in Item
    BY DEF Good, Row
<1>2. v.items[s].preflight \in Nat
    BY <1>1 DEF Item
<1>3. [v.items[s] EXCEPT !.state = state] = Moved(v, s, state, v.items[s].preflight)
    BY <1>1 DEF Moved, Item
<1>4. [v EXCEPT !.items[s].state = state] = WithItem(v, s, [v.items[s] EXCEPT !.state = state])
    BY DEF WithItem
<1>5. Save(WithItem(v, s, Moved(v, s, state, v.items[s].preflight)), "STEP")
    BY <1>3, <1>4 DEF With
<1> QED
    BY <1>2, <1>5, Moves

LEMMA Advances ==
    ASSUME BInv, NEW b \in Batch, NEW v, work.batch = b, work.value = v, Good(b, v),
           v.state \in Active, NEW s \in Source, Advance(s)
    PROVE  StepsTo(b, v)
<1>1. /\ \A o \in Source : v.items[o].pending = "NONE"
      /\ v.session = session /\ v.made
    BY DEF Advance, Current, Settled
<1>2. v \in Row
    BY DEF Good
<1>3. Unhurried(v)
    BY <1>1 DEF Unhurried
<1>4. DOMAIN preflights \subseteq Nat
    BY DEF BInv, BatchTypeOK
<1>5. CASE Finish("BLOCKED")
    BY <1>5, Finishes DEF StepsTo, Ended
<1>6. ASSUME NEW state \in {"READY", "BLOCKED"}, With(s, state)
      PROVE  SaveStep(b, v)
    BY <1>6, Withs
<1>7. CASE Follow(s)
  <2>1. PICK p \in Attempt(s) : Save([v EXCEPT !.items[s].state = "CHECKING",
                                               !.items[s].preflight = p], "STEP")
      BY <1>7 DEF Follow
  <2>2. p \in Nat /\ \A q \in Attempt(s) : q = p
      BY <1>4, OneAttempt DEF Attempt, BInv
  <2>3. [v EXCEPT !.items[s].state = "CHECKING", !.items[s].preflight = p]
           = WithItem(v, s, Moved(v, s, "CHECKING", p))
      BY <1>2 DEF WithItem, Moved, Row
  <2> QED
      BY <2>1, <2>2, <2>3, Moves DEF StepsTo
<1>8. CASE Announce(s, "GRANT_SCOPE", 0)
  <2>1. Untried(b, v, s, "GRANT_SCOPE")
      BY DEF Untried
  <2> QED
      BY <1>1, <1>2, <1>3, <1>8, <2>1, Announced DEF Kinds, StepsTo
<1>9. CASE Check(s)
  <2>1. CASE v.items[s].state = "WAITING" /\ Announce(s, "START_PREFLIGHT", 0)
    <3>1. ~v.items[s].owned
        BY <2>1 DEF Good, Begun
    <3>2. b \notin again => receipts[b, s, "START_PREFLIGHT"] = None
        BY <1>1, <3>1 DEF Good, Told
    <3>3. Untried(b, v, s, "START_PREFLIGHT")
        BY <3>1, <3>2 DEF Untried
    <3> QED
        BY <1>1, <1>2, <1>3, <2>1, <3>3, Announced DEF Kinds, StepsTo
  <2>2. CASE With(s, "BLOCKED")
      BY <1>6, <2>2 DEF StepsTo
  <2> QED
      BY <1>9, <2>1, <2>2 DEF Check
<1>10. CASE Adopt(s)
  <2>1. CASE With(s, "READY")
      BY <1>6, <2>1 DEF StepsTo
  <2>2. ASSUME NEW p \in Attempt(s), Announce(s, "ADOPT_SOURCE", p)
        PROVE  AnnounceStep(b, v)
    <3>1. p \in Nat
        BY <1>4 DEF Attempt
    <3>2. Untried(b, v, s, "ADOPT_SOURCE")
        BY DEF Untried
    <3> QED
        BY <1>1, <1>2, <1>3, <2>2, <3>1, <3>2, Announced DEF Kinds
  <2> QED
      BY <1>10, <2>1, <2>2 DEF Adopt, StepsTo
<1> QED
    BY <1>5, <1>6, <1>7, <1>8, <1>9, <1>10 DEF Advance, StepsTo

LEMMA Concludes ==
    ASSUME NEW b \in Batch, NEW v, work.batch = b, work.value = v, Good(b, v),
           Conclude \/ Outdated
    PROVE  SaveStep(b, v)
<1>1. PICK state \in {"SUCCEEDED", "BLOCKED"} : Finish(state)
    BY DEF Conclude, Outdated
<1> QED
    BY <1>1, Finishes DEF Ended

LEMMA Decides ==
    ASSUME BInv, NEW b \in Batch, NEW v, work.batch = b, work.value = v, Good(b, v),
           v.state \in Active, Step
    PROVE  StepsTo(b, v)
<1>1. CASE \E s \in Source : Confirm(s)
    BY <1>1, Confirms DEF StepsTo
<1>2. CASE StopOwn
    BY <1>2, Stops
<1>3. CASE Conclude \/ Outdated
    BY <1>3, Concludes DEF StepsTo
<1>4. CASE MakeItems
    BY <1>4, MakesItems DEF StepsTo
<1>5. CASE \E s \in Source : Advance(s)
    BY <1>5, Advances
<1>6. CASE Rest
    BY <1>6 DEF Rest, StepsTo
<1> QED
    BY <1>1, <1>2, <1>3, <1>4, <1>5, <1>6 DEF Step

-----------------------------------------------------------------------------
(* Each action keeps the invariant.                                        *)

Kept == RowsOK /\ ReceiptsOK /\ OneActive /\ WorkOK

LEMMA StepKeeps ==
    ASSUME BInv, Step
    PROVE  Kept' /\ work' \in Work
<1>1. PICK b \in Batch, v \in Row : work.batch = b /\ work.value = v /\ SnapshotOK(b, v)
    BY DEF Step, BInv, WorkOK
<1>2. work.at = "STEP" /\ SameStore
    BY DEF Step, SameStore, user, store, world
<1>3. /\ IsActive(b) /\ Good(b, v) /\ v.state \in Active /\ v.items = rows[b].items
      /\ v.session = rows[b].session /\ v.plan = rows[b].plan /\ (v.cancel => rows[b].cancel)
    BY <1>1, <1>2 DEF SnapshotOK
<1>4. /\ RowsOK' /\ ReceiptsOK' /\ OneActive' /\ IsActive(b)'
      /\ \A w : Good(b, w) => Good(b, w)'
    BY <1>2, <1>3, SameStoreKeeps
<1>5. rows' = rows /\ receipts' = receipts /\ session' = session /\ again' = again
    BY <1>2 DEF SameStore
<1>6. CASE work' = Idle
    BY <1>4, <1>6, IdleIs DEF Kept, WorkOK
<1>7. CASE SaveStep(b, v)
  <2>1. PICK w \in Row, t \in {"STEP", "LAST"} :
           /\ work' = SaveOf(b, w, t)
           /\ Good(b, w)
           /\ w.session = v.session /\ w.plan = v.plan /\ (w.cancel <=> v.cancel)
           /\ \/ t = "LAST" /\ w.state = "BLOCKED"
              \/ t = "STEP" /\ \A s \in Source : w.items[s].pending \in {"NONE", v.items[s].pending}
      BY <1>7 DEF SaveStep
  <2>2. SaveFits(b, w, t)'
      BY <1>3, <1>5, <2>1 DEF SaveFits
  <2> QED
      BY <1>4, <2>1, <2>2, Saves DEF Kept
<1>8. CASE AnnounceStep(b, v)
  <2>1. PICK w \in Row, s \in Source, k \in Kinds, p \in Nat :
           /\ work' = AnnounceOf(b, w, s, k, p, work.then)
           /\ Good(b, w) /\ CommandOK(b, w, s, k)
           /\ w.session = v.session /\ w.plan = v.plan /\ (w.cancel <=> v.cancel)
      BY <1>8 DEF AnnounceStep
  <2>2. CommandOK(b, w, s, k)'
      BY <1>5, <2>1 DEF CommandOK
  <2>3. work.then \in {"STEP", "REFUSED", "LAST"}
      BY DEF BInv, BatchTypeOK, Work
  <2> QED
      BY <1>3, <1>4, <1>5, <2>1, <2>2, <2>3, Announces DEF Kept
<1> QED
    BY <1>1, <1>3, <1>6, <1>7, <1>8, Decides DEF StepsTo

LEMMA ReadKeeps ==
    ASSUME BInv, NEW b \in Batch, Read(b)
    PROVE  Kept' /\ work' \in Work
<1>1. SameStore
    BY DEF Read, SameStore, user, store, world
<1>2. IsActive(b) /\ rows[b] \in Row /\ Good(b, rows[b])
    BY DEF Read, IsActive, BInv, RowsOK, Good
<1>3. PICK v \in Row : v = rows[b]
    BY <1>2
<1>4. v.state \in Active
    BY <1>2, <1>3 DEF IsActive
<1>5. /\ RowsOK' /\ ReceiptsOK' /\ OneActive' /\ IsActive(b)' /\ Good(b, v)'
    BY <1>1, <1>2, <1>3, SameStoreKeeps
<1>6. work' = [at |-> "STEP", batch |-> b, value |-> v, item |-> None, kind |-> "NONE",
               preflight |-> 0, then |-> "STEP"]
    BY <1>3 DEF Read, Idle
<1>7. rows'[b] = v
    BY <1>1, <1>3 DEF SameStore
<1>8. SnapshotOK(b, v)'
    BY <1>4, <1>5, <1>6, <1>7 DEF SnapshotOK
<1>9. WorkOK'
    BY <1>6, <1>8 DEF WorkOK
<1>10. work' \in Work
    BY <1>6 DEF Work
<1> QED
    BY <1>5, <1>9, <1>10 DEF Kept

\* The error handling of advance, whatever failed before.
LEMMA FailKeeps ==
    ASSUME NEW b \in Batch, NEW v, work.batch = b, Fail(v), v \in Row,
           IsActive(b)', Good(b, WithState(v, "BLOCKED"))',
           v.session = rows'[b].session, v.plan = rows'[b].plan, v.cancel => rows'[b].cancel
    PROVE  WorkOK' /\ work' \in Work
<1> DEFINE w == WithState(v, "BLOCKED")
<1>1. work' = SaveOf(b, w, "LAST")
    BY SaveIs DEF Fail, WithState
<1>2. w \in Row /\ w.session = v.session /\ w.plan = v.plan /\ (w.cancel <=> v.cancel) /\ w.state = "BLOCKED"
    BY StateChanged DEF Ended
<1> HIDE DEF w
<1>3. SaveFits(b, w, "LAST")'
    BY <1>2 DEF SaveFits
<1>4. Good(b, w)'
    BY DEF w
<1> QED
    BY <1>1, <1>2, <1>3, <1>4, Saves

\* The command of s is dropped from the snapshot.
Dropped(v, s) == [v.items[s] EXCEPT !.pending = "NONE"]

LEMMA DroppedIs ==
    ASSUME NEW v \in Row, NEW s \in Source
    PROVE  LET i == Dropped(v, s) IN
           /\ i \in Item /\ i.pending = "NONE" /\ (i.owned <=> v.items[s].owned)
           /\ i.state = v.items[s].state /\ i.preflight = v.items[s].preflight
<1>1. v.items[s] \in Item
    BY DEF Row
<1> QED
    BY <1>1 DEF Dropped, Item

LEMMA DropGood ==
    ASSUME NEW b \in Batch, NEW v, Good(b, v), NEW s \in Source, NEW k \in Kinds,
           v.items[s].pending = k, Untried(b, v, s, k)
    PROVE  Good(b, WithItem(v, s, Dropped(v, s)))
<1> DEFINE i == Dropped(v, s)
<1>1. v \in Row
    BY DEF Good
<1>2. /\ i \in Item /\ i.pending = "NONE" /\ (i.owned <=> v.items[s].owned)
      /\ i.state = v.items[s].state /\ i.preflight = v.items[s].preflight
    BY <1>1, DroppedIs
<1> HIDE DEF i
<1>3. i.owned => i.state # "WAITING"
    BY <1>2 DEF Good, Begun
<1>4. v.made \/ ~i.owned
    BY <1>2 DEF Good, Begun
<1>5. b \notin again /\ receipts[b, s, "START_PREFLIGHT"] # None => i.owned
    BY <1>2 DEF Good, Told, Untried
<1>6. b \notin again /\ i.owned => \A q \in Started(b, s) \cap Attempt(s) : i.preflight = q
    BY <1>2 DEF Good, Points
<1>7. ItemFits(b, v, s, i)
    BY <1>2, <1>3, <1>4, <1>5, <1>6 DEF ItemFits
<1>8. Good(b, WithItem(v, s, i))
    BY <1>2, <1>7, ItemGood
<1> QED
    BY <1>8 DEF i

\* The row of an active batch is written, and nothing else.
LEMMA RowWritten ==
    ASSUME BInv, NEW b \in Batch, NEW w \in Row, IsActive(b), Good(b, w),
           w.cancel => w.state \notin {"RUNNING", "SUCCEEDED"},
           rows' = [rows EXCEPT ![b] = w], UNCHANGED <<receipts, preflights, again, session>>
    PROVE  /\ RowsOK' /\ ReceiptsOK' /\ OneActive' /\ rows'[b] = w
           /\ w.state \in Active => IsActive(b)'
           /\ \A c \in Batch : \A v : Good(c, v) => Good(c, v)'
<1>1. /\ rows'[b] = w /\ w # None
      /\ \A c \in Batch \ {b} : rows'[c] = rows[c]
    BY NoneAssumption DEF BInv, BatchTypeOK
<1>2. \A c \in Batch, s \in Source : Started(c, s)' = Started(c, s) /\ Calm(c, s)
    BY DEF Started, Attempt, Runs, Calm
<1>3. \A c \in Batch : \A v : Good(c, v) => Good(c, v)'
    BY <1>2, GoodStays
<1>4. RowsOK'
  <2>1. ASSUME NEW c \in Batch, NEW v, v = rows'[c], v # None
        PROVE  Good(c, v)' /\ (v.cancel => v.state \notin {"RUNNING", "SUCCEEDED"})
    <3>1. CASE c = b
        BY <1>1, <1>3, <2>1, <3>1
    <3>2. CASE c # b
      <4>1. v = rows[c]
          BY <1>1, <2>1, <3>2
      <4>2. Good(c, v) /\ (v.cancel => v.state \notin {"RUNNING", "SUCCEEDED"})
          BY <2>1, <4>1 DEF BInv, RowsOK
      <4> QED
          BY <1>3, <4>2
    <3> QED
        BY <3>1, <3>2
  <2> QED
      BY <2>1 DEF RowsOK
<1>5. ReceiptsOK'
  <2>1. \A c \in Batch, s \in Source, k \in Kinds : receipts'[c, s, k] # None => rows'[c] # None
      BY <1>1 DEF BInv, ReceiptsOK, HaveRows, HaveReceipts, Recorded
  <2>2. HaveReceipts'
      BY <1>2 DEF BInv, ReceiptsOK, HaveReceipts, Recorded
  <2> QED
      BY <2>1, <2>2 DEF ReceiptsOK, HaveRows
<1>6. OneActive'
    BY <1>1 DEF BInv, OneActive, IsActive
<1>7. w.state \in Active => IsActive(b)'
    BY <1>1 DEF IsActive
<1> QED
    BY <1>1, <1>3, <1>4, <1>5, <1>6, <1>7

LEMMA WriteDownKeeps ==
    ASSUME BInv, WriteDown
    PROVE  Kept' /\ work' \in Work
<1>1. PICK b \in Batch, v \in Row : work.batch = b /\ work.value = v /\ SnapshotOK(b, v)
    BY DEF WriteDown, BInv, WorkOK
<1>2. work \in Work /\ work.at = "ANNOUNCE"
    BY DEF WriteDown, BInv, BatchTypeOK
<1>3. PICK s, k : s = work.item /\ k = work.kind
    OBVIOUS
<1>4. /\ IsActive(b) /\ Good(b, v) /\ CommandOK(b, v, s, k)
      /\ v.session = rows[b].session /\ v.plan = rows[b].plan /\ (v.cancel => rows[b].cancel)
    BY <1>1, <1>2, <1>3 DEF SnapshotOK
<1>5. /\ s \in Source /\ k \in Kinds /\ v.items[s].pending = k /\ v.state \in Active
      /\ \A o \in Source \ {s} : v.items[o].pending = "NONE"
    BY <1>4 DEF CommandOK
<1>6. Untried(b, v, s, k)
    BY <1>4 DEF CommandOK, Untried
<1>7. UNCHANGED <<receipts, preflights, again, session>>
    BY DEF WriteDown, user, store, world
<1>8. CASE rows[b].cancel /\ work.kind # "CANCEL_PREFLIGHT"
  <2> DEFINE u == WithItem(v, s, Dropped(v, s))
             w == [u EXCEPT !.cancel = TRUE]
  <2>1. SameStore
      BY <1>1, <1>7, <1>8 DEF WriteDown, SameStore
  <2>2. IsActive(b)' /\ RowsOK' /\ ReceiptsOK' /\ OneActive' /\ (Good(b, w) => Good(b, w)')
      BY <1>4, <2>1, SameStoreKeeps
  <2>3. work' = SaveOf(b, w, "STEP")
    <3>1. Save([v EXCEPT !.items[s].pending = "NONE", !.cancel = TRUE], "STEP")
        BY <1>1, <1>3, <1>8 DEF WriteDown
    <3>2. [v EXCEPT !.items[s].pending = "NONE", !.cancel = TRUE] = w
        BY <1>5 DEF WithItem, Dropped, Row
    <3> QED
        BY <1>1, <3>1, <3>2, SaveIs
  <2>4. Good(b, u)
      BY <1>4, <1>5, <1>6, DropGood
  <2>5. /\ u \in Row /\ u.session = v.session /\ u.plan = v.plan
        /\ u.items[s] = Dropped(v, s) /\ \A o \in Source \ {s} : u.items[o] = v.items[o]
      BY <1>5, DroppedIs, ItemChanged
  <2>6. \A o \in Source : u.items[o].pending = "NONE"
      BY <1>5, <2>5, DroppedIs
  <2> HIDE DEF u
  <2>7. /\ w \in Row /\ w.session = u.session /\ w.plan = u.plan
        /\ w.items = u.items /\ w.state = u.state /\ (w.made <=> u.made) /\ w.cancel
      BY <2>5 DEF Row
  <2> HIDE DEF w
  <2>8. Good(b, w)
      BY <2>4, <2>7 DEF Good, Begun, Told, Points, Quiet
  <2>9. SaveFits(b, w, "STEP")'
      BY <1>4, <1>8, <2>1, <2>5, <2>6, <2>7 DEF SaveFits, SameStore
  <2> QED
      BY <2>2, <2>3, <2>7, <2>8, <2>9, Saves DEF Kept
<1>9. CASE ~(rows[b].cancel /\ work.kind # "CANCEL_PREFLIGHT")
  <2>1. /\ rows' = [rows EXCEPT ![b] = Stored(b, v)]
        /\ work' = [work EXCEPT !.at = "EXECUTE"]
      BY <1>1, <1>9 DEF WriteDown
  <2>2. PICK w : w = Stored(b, v)
      OBVIOUS
  <2>3. /\ w \in Row
        /\ w.items = v.items /\ w.session = v.session /\ w.plan = v.plan /\ (w.made <=> v.made)
        /\ w.cancel <=> (v.cancel \/ (rows[b] # None /\ rows[b].cancel))
        /\ w.state = IF w.cancel /\ v.state = "RUNNING" THEN "CANCELLING" ELSE v.state
      BY <2>2, StoredIs DEF BInv
  <2>4. w.state \in Active /\ (w.cancel => w.state \notin {"RUNNING", "SUCCEEDED"})
      BY <1>5, <2>3 DEF Active
  <2>5. Good(b, w)
      BY <1>4, <2>3, <2>4 DEF Good, Begun, Told, Points, Quiet, Active
  <2>6. /\ RowsOK' /\ ReceiptsOK' /\ OneActive' /\ rows'[b] = w /\ IsActive(b)'
        /\ Good(b, v)'
      BY <1>4, <1>7, <2>1, <2>2, <2>3, <2>4, <2>5, RowWritten
  <2>7. /\ work'.at = "EXECUTE" /\ work'.batch = b /\ work'.value = v /\ work'.item = s /\ work'.kind = k
        /\ work' \in Work
      BY <1>1, <1>2, <1>3, <2>1 DEF Work
  <2>8. CommandOK(b, v, s, k)'
      BY <1>4, <1>7 DEF CommandOK
  <2>9. SnapshotOK(b, v)'
      BY <2>3, <2>6, <2>7, <2>8 DEF SnapshotOK
  <2>10. WorkOK'
      BY <2>7, <2>9 DEF WorkOK
  <2> QED
      BY <2>6, <2>7, <2>10 DEF Kept
<1> QED
    BY <1>8, <1>9

LEMMA WriteFailsKeeps ==
    ASSUME BInv, WriteFails
    PROVE  Kept' /\ work' \in Work
<1>1. PICK b \in Batch, v \in Row : work.batch = b /\ work.value = v /\ SnapshotOK(b, v)
    BY DEF WriteFails, BInv, WorkOK
<1>2. SameStore
    BY DEF WriteFails, SameStore, user, store
<1>3. /\ IsActive(b) /\ Good(b, v)
      /\ v.session = rows[b].session /\ v.plan = rows[b].plan /\ (v.cancel => rows[b].cancel)
    BY <1>1 DEF SnapshotOK
<1>4. Good(b, WithState(v, "BLOCKED"))
    BY <1>3, StateGood DEF Ended
<1>5. /\ IsActive(b)' /\ RowsOK' /\ ReceiptsOK' /\ OneActive' /\ Good(b, WithState(v, "BLOCKED"))'
    BY <1>2, <1>3, <1>4, SameStoreKeeps
<1>6. CASE Fail(v)
  <2>1. v.session = rows'[b].session /\ v.plan = rows'[b].plan /\ (v.cancel => rows'[b].cancel)
      BY <1>2, <1>3 DEF SameStore
  <2> QED
      BY <1>1, <1>5, <1>6, <2>1, FailKeeps DEF Kept
<1>7. CASE work' = Idle
    BY <1>5, <1>7, IdleIs DEF Kept, WorkOK
<1> QED
    BY <1>1, <1>6, <1>7 DEF WriteFails

LEMMA WriteBackKeeps ==
    ASSUME BInv, WriteBack
    PROVE  Kept' /\ work' \in Work
<1>1. PICK b \in Batch, v \in Row : work.batch = b /\ work.value = v /\ SnapshotOK(b, v)
    BY DEF WriteBack, BInv, WorkOK
<1>2. work.at = "SAVE" /\ UNCHANGED <<receipts, preflights, again, session>>
    BY DEF WriteBack, user, store, world
<1>3. /\ IsActive(b) /\ Good(b, v) /\ rows[b] # None
      /\ v.session = rows[b].session /\ v.plan = rows[b].plan /\ (v.cancel => rows[b].cancel)
      /\ work.then = "REFUSED" => v.state \in Active
    BY <1>1, <1>2 DEF SnapshotOK, IsActive
<1>4. PICK w : w = Merged(b, v)
    OBVIOUS
<1>5. /\ w \in Row
      /\ w.items = v.items /\ w.session = v.session /\ w.plan = v.plan /\ (w.made <=> v.made)
      /\ w.cancel <=> (v.cancel \/ rows[b].cancel)
      /\ w.state \in {v.state, "CANCELLING"}
      /\ w.cancel => w.state # "RUNNING"
      /\ rows[b].cancel => w.state # "SUCCEEDED"
    BY <1>3, <1>4, MergedIs DEF BInv
<1>6. w.cancel => w.state \notin {"RUNNING", "SUCCEEDED"}
    BY <1>3, <1>5
<1>7. Good(b, w)
    BY <1>3, <1>5 DEF Good, Begun, Told, Points, Quiet
<1>8. rows' = [rows EXCEPT ![b] = w]
    BY <1>1, <1>4 DEF WriteBack
<1>9. /\ RowsOK' /\ ReceiptsOK' /\ OneActive' /\ rows'[b] = w
      /\ w.state \in Active => IsActive(b)'
      /\ \A u : Good(b, u) => Good(b, u)'
    BY <1>2, <1>3, <1>5, <1>6, <1>7, <1>8, RowWritten
<1>10. CASE work.then = "REFUSED"
  <2>1. Fail(w)
      BY <1>1, <1>4, <1>10 DEF WriteBack
  <2>2. IsActive(b)'
      BY <1>3, <1>5, <1>9, <1>10 DEF Active
  <2>3. Good(b, WithState(w, "BLOCKED"))'
      BY <1>7, <1>9, StateGood DEF Ended
  <2> QED
      BY <1>1, <1>5, <1>9, <2>1, <2>2, <2>3, FailKeeps DEF Kept
<1>11. CASE work.then # "REFUSED"
    BY <1>9, <1>11, IdleIs DEF WriteBack, Kept, WorkOK
<1> QED
    BY <1>10, <1>11

\* The snapshot with a command that is being given.
Giving(b, v, s, k) ==
    /\ IsActive(b) /\ Good(b, v) /\ CommandOK(b, v, s, k)
    /\ v.session = rows[b].session /\ v.plan = rows[b].plan /\ (v.cancel => rows[b].cancel)
    /\ v.items = rows[b].items

LEMMA Given ==
    ASSUME BInv, work.at = "EXECUTE"
    PROVE  \E b \in Batch, v \in Row, s \in Source, k \in Kinds :
              /\ work.batch = b /\ work.value = v /\ work.item = s /\ work.kind = k
              /\ Giving(b, v, s, k)
<1>1. PICK b \in Batch, v \in Row : work.batch = b /\ work.value = v /\ SnapshotOK(b, v)
    BY DEF BInv, WorkOK
<1>2. PICK s, k : s = work.item /\ k = work.kind
    OBVIOUS
<1>3. /\ IsActive(b) /\ Good(b, v) /\ CommandOK(b, v, s, k)
      /\ v.session = rows[b].session /\ v.plan = rows[b].plan /\ (v.cancel => rows[b].cancel)
      /\ v.items = rows[b].items
    BY <1>1, <1>2 DEF SnapshotOK
<1>4. s \in Source /\ k \in Kinds
    BY <1>3 DEF CommandOK
<1>5. Giving(b, v, s, k)
    BY <1>3 DEF Giving
<1> QED
    BY <1>1, <1>2, <1>4, <1>5

\* The answer is saved.
LEMMA AnswerKeeps ==
    ASSUME NEW b \in Batch, NEW v \in Row, NEW s \in Source, NEW k \in Kinds, NEW r \in Nat,
           work.batch = b, work.value = v, work.item = s, work.kind = k,
           Giving(b, v, s, k), rows' = rows, Answered(r), Good(b, Accepted(v, s, k, r))'
    PROVE  WorkOK' /\ work' \in Work
<1> DEFINE w == Accepted(v, s, k, r)
<1>1. work' = SaveOf(b, w, "STEP")
    BY SaveIs DEF Answered
<1>2. Good(b, w)'
    OBVIOUS
<1>3. /\ w \in Row /\ (w.cancel <=> v.cancel) /\ w.session = v.session /\ w.plan = v.plan
      /\ \A o \in Source \ {s} : w.items[o] = v.items[o]
      /\ w.items[s].pending = "NONE"
    BY AcceptedIs
<1> HIDE DEF w
<1>4. \A o \in Source : w.items[o].pending = "NONE"
  <2>1. \A o \in Source \ {s} : v.items[o].pending = "NONE"
      BY DEF Giving, CommandOK
  <2> QED
      BY <1>3, <2>1
<1>5. SaveFits(b, w, "STEP")'
    BY <1>3, <1>4 DEF SaveFits, Giving
<1>6. IsActive(b)'
    BY DEF Giving, IsActive
<1> QED
    BY <1>1, <1>2, <1>3, <1>5, <1>6, Saves

\* The command was not carried out, and is dropped.
LEMMA RefusedKeeps ==
    ASSUME BInv, NEW b \in Batch, NEW v \in Row, NEW s \in Source, NEW k \in Kinds,
           work.batch = b, work.value = v, work.item = s, work.kind = k,
           Giving(b, v, s, k), SameStore, NEW t \in {"STEP", "REFUSED"}, Refused(t)
    PROVE  WorkOK' /\ work' \in Work
<1> DEFINE w == WithItem(v, s, Dropped(v, s))
<1>1. work' = SaveOf(b, w, t)
  <2>1. Save(w, t)
      BY DEF Refused, WithItem, Dropped
  <2> QED
      BY <2>1, SaveIs
<1>2. Untried(b, v, s, k) /\ v.items[s].pending = k
    BY DEF Giving, CommandOK, Untried
<1>3. Good(b, w)
    BY <1>2, DropGood DEF Giving
<1>4. /\ w \in Row /\ w.session = v.session /\ w.plan = v.plan /\ (w.cancel <=> v.cancel)
      /\ w.state = v.state
      /\ w.items[s] = Dropped(v, s) /\ \A o \in Source \ {s} : w.items[o] = v.items[o]
    BY DroppedIs, ItemChanged
<1> HIDE DEF w
<1>5. \A o \in Source : w.items[o].pending = "NONE"
  <2>1. \A o \in Source \ {s} : v.items[o].pending = "NONE"
      BY DEF Giving, CommandOK
  <2> QED
      BY <1>4, <2>1, DroppedIs
<1>6. IsActive(b)' /\ Good(b, w)'
    BY <1>3, SameStoreKeeps DEF Giving
<1>7. SaveFits(b, w, t)'
    BY <1>4, <1>5 DEF SaveFits, Giving, CommandOK, SameStore
<1> QED
    BY <1>1, <1>4, <1>6, <1>7, Saves

\* Nobody knows whether it was.
LEMMA UnknownKeeps ==
    ASSUME NEW b \in Batch, NEW v \in Row, NEW s \in Source, NEW k \in Kinds,
           work.batch = b, work.value = v,
           Giving(b, v, s, k), rows' = rows, Fail(v), Good(b, WithState(v, "BLOCKED"))'
    PROVE  WorkOK' /\ work' \in Work
<1>1. IsActive(b)'
    BY DEF Giving, IsActive
<1>2. v.session = rows'[b].session /\ v.plan = rows'[b].plan /\ (v.cancel => rows'[b].cancel)
    BY DEF Giving
<1> QED
    BY <1>1, <1>2, FailKeeps

LEMMA NotExecutedKeeps ==
    ASSUME BInv, NotExecuted
    PROVE  Kept' /\ work' \in Work
<1>1. PICK b \in Batch, v \in Row, s \in Source, k \in Kinds :
         /\ work.batch = b /\ work.value = v /\ work.item = s /\ work.kind = k
         /\ Giving(b, v, s, k)
    BY Given DEF NotExecuted
<1>2. SameStore
    BY DEF NotExecuted, SameStore, user, store
<1>3. RowsOK' /\ ReceiptsOK' /\ OneActive' /\ \A w : Good(b, w) => Good(b, w)'
    BY <1>2, SameStoreKeeps
<1>4. CASE Refused("REFUSED") \/ Refused("STEP")
    BY <1>1, <1>2, <1>3, <1>4, RefusedKeeps DEF Kept
<1>5. CASE Fail(v)
  <2>1. Good(b, WithState(v, "BLOCKED"))'
      BY <1>1, <1>3, StateGood DEF Giving, Ended
  <2>2. rows' = rows
      BY <1>2 DEF SameStore
  <2> QED
      BY <1>1, <1>3, <1>5, <2>1, <2>2, UnknownKeeps DEF Kept
<1> QED
    BY <1>1, <1>4, <1>5 DEF NotExecuted

LEMMA RepeatKeeps ==
    ASSUME BInv, Repeat
    PROVE  Kept' /\ work' \in Work
<1>1. PICK b \in Batch, v \in Row, s \in Source, k \in Kinds :
         /\ work.batch = b /\ work.value = v /\ work.item = s /\ work.kind = k
         /\ Giving(b, v, s, k)
    BY Given DEF Repeat
<1>2. SameStore
    BY DEF Repeat, SameStore, user, store, world
<1>3. RowsOK' /\ ReceiptsOK' /\ OneActive' /\ \A w : Good(b, w) => Good(b, w)'
    BY <1>2, SameStoreKeeps
<1>4. CASE Refused("REFUSED")
    BY <1>1, <1>2, <1>3, <1>4, RefusedKeeps DEF Kept
<1>5. CASE Answered(receipts[Key].result)
  <2>1. PICK r : r = receipts[b, s, k].result
      OBVIOUS
  <2>2. receipts[b, s, k] # None /\ Answered(r)
      BY <1>1, <1>5, <2>1 DEF Repeat, Key
  <2>3. r \in Nat
      BY <2>1, <2>2 DEF BInv, BatchTypeOK, Receipt
  <2>4. k = "START_PREFLIGHT" => \A p \in Started(b, s) : p = r
      BY <2>1 DEF BInv, ReceiptsOK, HaveRows, HaveReceipts, Recorded
  <2>5. Good(b, v) /\ v.made /\ v.items[s].pending = k
      BY <1>1 DEF Giving, CommandOK
  <2>6. Good(b, Accepted(v, s, k, r))'
      BY <1>3, <2>3, <2>4, <2>5, AcceptedGood
  <2>7. rows' = rows
      BY <1>2 DEF SameStore
  <2> QED
      BY <1>1, <1>3, <2>2, <2>3, <2>6, <2>7, AnswerKeeps DEF Kept
<1> QED
    BY <1>4, <1>5 DEF Repeat

\* A receipt is written, of command k for item s of batch b.
Receipted(b, s, k, result) ==
    /\ receipts' = [receipts EXCEPT ![<<b, s, k>>] = [facts |-> work.value.plan.facts,
                        preflight |-> work.preflight, result |-> result]]
    /\ rows' = rows /\ again' = again /\ session' = session

LEMMA ReceiptedIs ==
    ASSUME BInv, NEW b \in Batch, NEW s \in Source, NEW k \in Kinds, NEW result \in Nat,
           work.batch = b, NEW v \in Row, work.value = v, Receipted(b, s, k, result)
    PROVE  \E r \in Receipt : r.result = result /\ receipts' = [receipts EXCEPT ![<<b, s, k>>] = r]
<1>1. work.preflight \in Nat
    BY DEF BInv, BatchTypeOK, Work
<1>2. v.plan.facts \in Nat
    BY DEF Row, Plan
<1> QED
    BY <1>1, <1>2 DEF Receipt, Receipted

\* The preflight n was started for item s of b.
Starts(b, s, n) ==
    /\ n = Len(preflights) + 1
    /\ \E r \in Preflight : r.by = b /\ r.source = s /\ preflights' = Append(preflights, r)
    /\ Receipted(b, s, "START_PREFLIGHT", n)

\* Nothing happened to the preflight of item o of c.
Untouched(c, o) ==
    /\ receipts'[c, o, "START_PREFLIGHT"] = receipts[c, o, "START_PREFLIGHT"]
    /\ Started(c, o)' = Started(c, o) /\ Calm(c, o)

LEMMA StaysGood ==
    ASSUME NEW c \in Batch, \A o \in Source : Untouched(c, o), again' = again, NEW v, Good(c, v)
    PROVE  Good(c, v)'
BY GoodStays DEF Untouched

LEMMA HaveRowsStays ==
    ASSUME BInv, NEW b \in Batch, NEW s \in Source, NEW k \in Kinds, NEW n \in Nat,
           Receipted(b, s, k, n), work.batch = b, NEW v \in Row, work.value = v, IsActive(b)
    PROVE  HaveRows'
<1>1. PICK r \in Receipt : r.result = n /\ receipts' = [receipts EXCEPT ![<<b, s, k>>] = r]
    BY ReceiptedIs
<1>2. receipts \in [Batch \X Source \X Kinds -> Receipt \cup {None}]
    BY DEF BInv, BatchTypeOK
<1>3. rows' = rows /\ rows[b] # None
    BY DEF Receipted, IsActive
<1>4. ASSUME NEW c \in Batch, NEW o \in Source, NEW kind \in Kinds, receipts'[c, o, kind] # None
      PROVE  rows[c] # None
  <2>1. CASE c = b
      BY <1>3, <2>1
  <2>2. CASE c # b
    <3>1. receipts[c, o, kind] # None
        BY <1>1, <1>2, <1>4, <2>2
    <3> QED
        BY <3>1 DEF BInv, ReceiptsOK, HaveRows, HaveReceipts, Recorded
  <2> QED
      BY <2>1, <2>2
<1> QED
    BY <1>3, <1>4 DEF HaveRows

\* Preflight n is a new one of item s of b, and the latest of s.
Newest(b, s, n) == Started(b, s)' = Started(b, s) \cup {n} /\ Attempt(s)' = {n}

LEMMA StartsIs ==
    ASSUME BInv, NEW b \in Batch, NEW s \in Source, NEW n \in Nat, Starts(b, s, n),
           work.batch = b, NEW v \in Row, work.value = v
    PROVE  /\ \A c \in Batch, o \in Source : c # b \/ o # s => Untouched(c, o)
           /\ Newest(b, s, n) /\ Recorded(b, s, n)'
<1>0. PICK kind \in Kinds : kind = "START_PREFLIGHT"
    BY DEF Kinds
<1>1. Receipted(b, s, kind, n)
    BY <1>0 DEF Starts
<1>2. /\ receipts'[b, s, kind] # None
      /\ receipts'[b, s, kind].result = n
      /\ \A c \in Batch, o \in Source, k \in Kinds :
            c # b \/ o # s \/ k # kind => receipts'[c, o, k] = receipts[c, o, k]
  <2>1. PICK r \in Receipt : r.result = n /\ receipts' = [receipts EXCEPT ![<<b, s, kind>>] = r]
      BY <1>1, ReceiptedIs
  <2>2. receipts \in [Batch \X Source \X Kinds -> Receipt \cup {None}]
      BY DEF BInv, BatchTypeOK
  <2> QED
      BY <2>1, <2>2, NoneAssumption
<1>3. PICK r \in Preflight : r.by = b /\ r.source = s /\ preflights' = Append(preflights, r)
    BY DEF Starts
<1>4. \A c \in Batch, o \in Source : c # b \/ o # s => Started(c, o)' = Started(c, o) /\ Calm(c, o)
    BY <1>3, Adding DEF BInv
<1>5. Started(b, s)' = Started(b, s) \cup {n} /\ Attempt(s)' = {n}
    BY <1>3, Adding DEF BInv, Starts
<1>6. \A c \in Batch, o \in Source : c # b \/ o # s => Untouched(c, o)
    BY <1>0, <1>2, <1>4 DEF Untouched
<1> QED
    BY <1>0, <1>2, <1>5, <1>6 DEF Newest, Recorded

\* What a row or a snapshot has for it: the command as pending, or the answer.
Tells(b, w, s, n) ==
    b \notin again => /\ w.items[s].owned \/ w.items[s].pending = "START_PREFLIGHT"
                      /\ w.items[s].owned => w.items[s].preflight = n

\* A row like v with the item of s replaced by one that has it.
Replaced(b, w, v, s, n) ==
    /\ w \in Row /\ Begun(w) /\ w.state # "CANCELLED" /\ Tells(b, w, s, n)
    /\ \A o \in Source \ {s} : w.items[o] = v.items[o]

LEMMA AnswerFollows ==
    ASSUME NEW b \in Batch, NEW v, Good(b, v), NEW s \in Source, NEW n \in Nat,
           CommandOK(b, v, s, "START_PREFLIGHT")
    PROVE  Replaced(b, Accepted(v, s, "START_PREFLIGHT", n), v, s, n)
<1> DEFINE w == Accepted(v, s, "START_PREFLIGHT", n)
<1>1. v \in Row /\ "START_PREFLIGHT" \in Kinds
    BY DEF Good, Kinds
<1>2. w \in Row /\ w.state = v.state /\ (w.made <=> v.made)
    BY <1>1, AcceptedIs
<1>3. \A o \in Source \ {s} : w.items[o] = v.items[o]
    BY <1>1, AcceptedIs
<1>4. w.items[s].owned
    BY <1>1, AcceptedIs
<1>5. w.items[s].state = "CHECKING"
    BY <1>1, AcceptedIs
<1>6. w.items[s].preflight = n
    BY <1>1, AcceptedIs
<1> HIDE DEF w
<1>7. Tells(b, w, s, n)
    BY <1>4, <1>6 DEF Tells
<1>8. v.made /\ v.state # "CANCELLED"
    BY DEF CommandOK, Active
<1>9. Begun(w)
    BY <1>2, <1>3, <1>5, <1>8 DEF Begun, Good
<1>10. Replaced(b, w, v, s, n)
    BY <1>2, <1>3, <1>7, <1>8, <1>9 DEF Replaced
<1> QED
    BY <1>10 DEF w

LEMMA StartedGood ==
    ASSUME BInv, NEW b \in Batch, NEW s \in Source, NEW n \in Nat, Starts(b, s, n),
           NEW x \in Row, work.batch = b, work.value = x,
           NEW v, Good(b, v), NEW w, Replaced(b, w, v, s, n)
    PROVE  Good(b, w)'
<1>1. \A o \in Source : o # s => Untouched(b, o)
    BY StartsIs
<1>2. Newest(b, s, n)
    BY StartsIs
<1>3. again' = again
    BY DEF Starts, Receipted
<1>4. b \notin again => Told(b, w)'
    BY <1>1 DEF Good, Told, Tells, Untouched, Replaced
<1>5. ASSUME b \notin again, NEW o \in Source, w.items[o].owned,
             NEW p \in (Started(b, o) \cap Attempt(o))'
      PROVE  w.items[o].preflight = p
  <2>1. CASE o = s
      BY <1>2, <1>5, <2>1 DEF Tells, Newest, Replaced
  <2>2. CASE o # s
      BY <1>1, <1>5, <2>2 DEF Good, Points, Calm, Untouched, Replaced
  <2> QED
      BY <2>1, <2>2
<1>6. b \notin again => Points(b, w)'
    BY <1>5 DEF Points
<1> QED
    BY <1>3, <1>4, <1>6 DEF Good, Quiet, Replaced

LEMMA StartKeeps ==
    ASSUME BInv, NEW b \in Batch, NEW v \in Row, NEW s \in Source, NEW n \in Nat,
           work.batch = b, work.value = v, work.item = s, work.kind = "START_PREFLIGHT",
           Giving(b, v, s, "START_PREFLIGHT"), receipts[b, s, "START_PREFLIGHT"] = None,
           Starts(b, s, n), Answered(n) \/ Fail(v)
    PROVE  Kept' /\ work' \in Work
<1>1. IsActive(b) /\ Good(b, v) /\ v.items = rows[b].items /\ v.state # "CANCELLED"
    BY DEF Giving, CommandOK, Active
<1>2. Tells(b, v, s, n)
    BY DEF Giving, CommandOK, Tells
<1>3. rows' = rows /\ again' = again
    BY DEF Starts, Receipted
<1>4. \A c \in Batch, o \in Source : c # b \/ o # s => Untouched(c, o)
    BY StartsIs
<1>5. \A c \in Batch \ {b} : \A w : Good(c, w) => Good(c, w)'
    BY <1>3, <1>4, StaysGood
<1>6. PICK x : x = rows[b]
    OBVIOUS
<1>7. x \in Row /\ Good(b, x) /\ (x.cancel => x.state \notin {"RUNNING", "SUCCEEDED"})
    BY <1>1, <1>6 DEF BInv, RowsOK, IsActive, Good
<1>8. x.items = v.items /\ x.state # "CANCELLED"
    BY <1>1, <1>6 DEF IsActive, Active
<1>9. Replaced(b, x, v, s, n)
    BY <1>2, <1>7, <1>8 DEF Tells, Good, Replaced
<1>10. Good(b, x)'
    BY <1>1, <1>9, StartedGood
<1>11. RowsOK'
  <2>1. ASSUME NEW c \in Batch, NEW w, w = rows'[c], w # None
        PROVE  Good(c, w)' /\ (w.cancel => w.state \notin {"RUNNING", "SUCCEEDED"})
    <3>1. CASE c = b
        BY <1>3, <1>6, <1>7, <1>10, <2>1, <3>1
    <3>2. CASE c # b
        BY <1>3, <1>5, <2>1, <3>2 DEF BInv, RowsOK
    <3> QED
        BY <3>1, <3>2
  <2> QED
      BY <2>1 DEF RowsOK
<1>12. ReceiptsOK'
  <2>1. HaveRows'
    <3>1. Receipted(b, s, "START_PREFLIGHT", n) /\ "START_PREFLIGHT" \in Kinds
        BY DEF Starts, Kinds
    <3> QED
        BY <1>1, <3>1, HaveRowsStays
  <2>2. Newest(b, s, n) /\ Recorded(b, s, n)'
      BY StartsIs
  <2>3. Started(b, s) = {}
      BY DEF BInv, ReceiptsOK, HaveReceipts, Recorded
  <2>4. ASSUME NEW c \in Batch, NEW o \in Source, NEW p \in Started(c, o)'
        PROVE  Recorded(c, o, p)'
    <3>1. CASE c = b /\ o = s
      <4>1. p = n
          BY <2>2, <2>3, <2>4, <3>1 DEF Newest
      <4> QED
          BY <2>2, <3>1, <4>1
    <3>2. CASE c # b \/ o # s
      <4>1. Untouched(c, o)
          BY <1>4, <3>2
      <4>2. p \in Started(c, o)
          BY <2>4, <4>1 DEF Untouched
      <4>3. Recorded(c, o, p)
          BY <4>2 DEF BInv, ReceiptsOK, HaveReceipts
      <4> QED
          BY <4>1, <4>3 DEF Untouched, Recorded
    <3> QED
        BY <3>1, <3>2
  <2> QED
      BY <2>1, <2>4 DEF ReceiptsOK, HaveReceipts
<1>13. OneActive'
    BY <1>3 DEF BInv, OneActive, IsActive
<1>14. CASE Answered(n)
  <2>1. CommandOK(b, v, s, "START_PREFLIGHT") /\ "START_PREFLIGHT" \in Kinds
      BY DEF Giving, Kinds
  <2>2. Replaced(b, Accepted(v, s, "START_PREFLIGHT", n), v, s, n)
      BY <1>1, <2>1, AnswerFollows
  <2>3. Good(b, Accepted(v, s, "START_PREFLIGHT", n))'
      BY <1>1, <2>2, StartedGood
  <2> QED
      BY <1>3, <1>11, <1>12, <1>13, <1>14, <2>1, <2>3, AnswerKeeps DEF Kept
<1>15. CASE Fail(v)
  <2>1. PICK w : w = WithState(v, "BLOCKED")
      OBVIOUS
  <2>2. w \in Row /\ w.state = "BLOCKED" /\ (w.made <=> v.made) /\ w.items = v.items
      BY <2>1, StateChanged DEF Ended
  <2>3. Begun(w)
      BY <1>1, <2>2 DEF Begun, Good
  <2>4. Replaced(b, w, v, s, n)
      BY <1>2, <2>2, <2>3 DEF Tells, Replaced
  <2>5. Good(b, w)'
      BY <1>1, <2>4, StartedGood
  <2>6. Good(b, WithState(v, "BLOCKED"))' /\ "START_PREFLIGHT" \in Kinds
      BY <2>1, <2>5 DEF Kinds
  <2> QED
      BY <1>3, <1>11, <1>12, <1>13, <1>15, <2>6, UnknownKeeps DEF Kept
<1> QED
    BY <1>14, <1>15

LEMMA OtherKeeps ==
    ASSUME BInv, NEW b \in Batch, NEW v \in Row, NEW s \in Source, NEW k \in Kinds, NEW n \in Nat,
           work.batch = b, work.value = v, work.item = s, work.kind = k,
           Giving(b, v, s, k), k # "START_PREFLIGHT", Receipted(b, s, k, n),
           \A c \in Batch, o \in Source : Started(c, o)' = Started(c, o) /\ Calm(c, o),
           Answered(n) \/ Fail(v)
    PROVE  Kept' /\ work' \in Work
<1>1. rows' = rows /\ again' = again
    BY DEF Receipted
<1>2. IsActive(b) /\ Good(b, v) /\ v.items[s].pending = k
    BY DEF Giving, CommandOK
<1>3. \A c \in Batch, o \in Source : Untouched(c, o)
  <2>1. PICK r \in Receipt : r.result = n /\ receipts' = [receipts EXCEPT ![<<b, s, k>>] = r]
      BY ReceiptedIs
  <2>2. receipts \in [Batch \X Source \X Kinds -> Receipt \cup {None}]
      BY DEF BInv, BatchTypeOK
  <2>3. PICK kind \in Kinds : kind = "START_PREFLIGHT"
      BY DEF Kinds
  <2>4. \A c \in Batch, o \in Source : receipts'[c, o, kind] = receipts[c, o, kind]
      BY <2>1, <2>2, <2>3
  <2> QED
      BY <2>3, <2>4 DEF Untouched
<1>4. \A c \in Batch : \A w : Good(c, w) => Good(c, w)'
    BY <1>1, <1>3, StaysGood
<1>5. RowsOK'
    BY <1>1, <1>4 DEF RowsOK, BInv
<1>6. ReceiptsOK'
  <2>1. HaveRows'
      BY <1>2, HaveRowsStays
  <2>2. ASSUME NEW c \in Batch, NEW o \in Source, NEW p \in Started(c, o)'
        PROVE  Recorded(c, o, p)'
    <3>1. Untouched(c, o)
        BY <1>3
    <3>2. p \in Started(c, o)
        BY <2>2, <3>1 DEF Untouched
    <3>3. Recorded(c, o, p)
        BY <3>2 DEF BInv, ReceiptsOK, HaveReceipts
    <3> QED
        BY <3>1, <3>3 DEF Untouched, Recorded
  <2> QED
      BY <2>1, <2>2 DEF ReceiptsOK, HaveReceipts
<1>7. OneActive'
    BY <1>1 DEF BInv, OneActive, IsActive
<1>8. CASE Answered(n)
  <2>1. v.made
      BY DEF Giving, CommandOK
  <2>2. Good(b, Accepted(v, s, k, n))
      BY <1>2, <2>1, AcceptedGood
  <2>3. Good(b, Accepted(v, s, k, n))'
      BY <1>4, <2>2
  <2> QED
      BY <1>1, <1>5, <1>6, <1>7, <1>8, <2>3, AnswerKeeps DEF Kept
<1>9. CASE Fail(v)
  <2>1. Good(b, WithState(v, "BLOCKED"))'
      BY <1>2, <1>4, StateGood DEF Ended
  <2> QED
      BY <1>1, <1>5, <1>6, <1>7, <1>9, <2>1, UnknownKeeps DEF Kept
<1> QED
    BY <1>8, <1>9

\* The record a submission appends.
LEMMA SubmittedIs ==
    ASSUME BatchTypeOK, NEW s \in Source, NEW by \in Batch \cup {"USER"}
    PROVE  \E r \in Preflight : r.by = by /\ r.source = s /\ Submitted(s, by) = Append(preflights, r)
<1> DEFINE r == [source |-> s, by |-> by, facts |-> facts, scope |-> Matching(s), state |-> "OPEN"]
<1>1. Matching(s) \in Nat /\ facts \in Nat
    BY DEF BatchTypeOK, Matching
<1>2. r \in Preflight
    BY <1>1 DEF Preflight
<1>3. r.by = by /\ r.source = s /\ Submitted(s, by) = Append(preflights, r)
    BY DEF Submitted
<1> QED
    BY <1>2, <1>3

LEMMA ExecuteKeeps ==
    ASSUME BInv, Execute
    PROVE  Kept' /\ work' \in Work
<1>1. PICK b \in Batch, v \in Row, s \in Source, k \in Kinds :
         /\ work.batch = b /\ work.value = v /\ work.item = s /\ work.kind = k
         /\ Giving(b, v, s, k)
    BY Given DEF Execute
<1>2. PICK n : /\ Effect(n)
               /\ receipts' = [receipts EXCEPT ![Key] = [facts |-> work.value.plan.facts,
                                  preflight |-> work.preflight, result |-> n]]
               /\ Answered(n) \/ Fail(work.value)
    BY DEF Execute
<1>3. /\ receipts[b, s, k] = None
      /\ rows' = rows /\ again' = again /\ session' = session
    BY <1>1 DEF Execute, Key, user
<1>4. Receipted(b, s, k, n)
    BY <1>1, <1>2, <1>3 DEF Receipted, Key
<1>5. Answered(n) \/ Fail(v)
    BY <1>1, <1>2
<1>6. CASE k = "START_PREFLIGHT"
  <2>1. preflights' = Submitted(s, b) /\ n = Len(preflights) + 1
      BY <1>1, <1>2, <1>6 DEF Effect
  <2>2. n \in Nat
      BY <2>1 DEF BInv, BatchTypeOK
  <2>3. Starts(b, s, n)
      BY <1>4, <1>6, <2>1, SubmittedIs DEF Starts, BInv
  <2> QED
      BY <1>1, <1>3, <1>5, <1>6, <2>2, <2>3, StartKeeps
<1>7. CASE k # "START_PREFLIGHT"
  <2>1. n \in Nat
      BY <1>1, <1>2, <1>7 DEF Effect, BInv, BatchTypeOK
  <2>2. DOMAIN preflights' = DOMAIN preflights
      BY <1>1, <1>2, <1>7 DEF Effect, BInv, BatchTypeOK
  <2>3. \A p \in DOMAIN preflights :
              /\ preflights'[p].source = preflights[p].source
              /\ preflights'[p].by = preflights[p].by
              /\ preflights'[p].state \in {"OPEN", "STOPPING"} =>
                    preflights[p].state \in {"OPEN", "STOPPING"}
    <3>1. CASE preflights' = preflights
        BY <3>1
    <3>2. CASE preflights' = [preflights EXCEPT ![work.preflight].state = "STOPPING"] /\ Runs(work.preflight)
      <4>1. ASSUME NEW p \in DOMAIN preflights
            PROVE  preflights[p] \in Preflight
          BY DEF BInv, BatchTypeOK
      <4> QED
          BY <3>2, <4>1 DEF Preflight, Runs
    <3> QED
        BY <1>1, <1>2, <1>7, <3>1, <3>2 DEF Effect
  <2>4. \A c \in Batch, o \in Source : Started(c, o)' = Started(c, o) /\ Calm(c, o)
      BY <2>2, <2>3, Ending
  <2> QED
      BY <1>1, <1>4, <1>5, <1>7, <2>1, <2>4, OtherKeeps
<1> QED
    BY <1>6, <1>7

\* What neither the coordinator nor a request about a batch does.
LEMMA QuietKeeps ==
    ASSUME BInv, preflights' = preflights, rows' = rows, receipts' = receipts, again' = again,
           work' = Idle \/ (work' = work /\ session' = session)
    PROVE  Kept'
<1>1. \A b \in Batch, s \in Source : Started(b, s)' = Started(b, s) /\ Calm(b, s)
    BY DEF Started, Attempt, Runs, Calm
<1> QED
    BY <1>1, Elsewhere DEF Kept

\* A preflight stays as it is, or goes on to another state while it runs.
Onward(p) ==
    \/ preflights'[p] = preflights[p]
    \/ /\ Runs(p)
       /\ \E end \in {"STOPPING", "USABLE", "UNUSABLE"} :
             preflights'[p] = [preflights[p] EXCEPT !.state = end]

LEMMA EndingKeeps ==
    ASSUME BInv, rows' = rows, receipts' = receipts, again' = again,
           work' = work, session' = session,
           DOMAIN preflights' = DOMAIN preflights, \A p \in DOMAIN preflights : Onward(p)
    PROVE  Kept'
<1>1. \A p \in DOMAIN preflights : preflights[p] \in Preflight
    BY DEF BInv, BatchTypeOK
<1>2. ASSUME NEW p \in DOMAIN preflights
      PROVE  /\ preflights'[p].source = preflights[p].source
             /\ preflights'[p].by = preflights[p].by
             /\ preflights'[p].state \in {"OPEN", "STOPPING"} =>
                   preflights[p].state \in {"OPEN", "STOPPING"}
    BY <1>1 DEF Preflight, Onward, Runs
<1>3. \A b \in Batch, s \in Source : Started(b, s)' = Started(b, s) /\ Calm(b, s)
    BY <1>2, Ending
<1> QED
    BY <1>3, Elsewhere DEF Kept

LEMMA UserStartsKeeps ==
    ASSUME BInv, NEW s \in Source, UserStarts(s)
    PROVE  Kept'
<1>1. PICK r \in Preflight : r.by = "USER" /\ r.source = s /\ Submitted(s, "USER") = Append(preflights, r)
    BY SubmittedIs DEF BInv
<1>2. preflights' = Append(preflights, r)
    BY <1>1 DEF UserStarts
<1>3. \A b \in Batch : r.by # b
    BY <1>1, BatchAssumption
<1>4. \A b \in Batch, o \in Source : Started(b, o)' = Started(b, o) /\ Calm(b, o)
    BY <1>2, <1>3, Adding DEF BInv
<1>5. rows' = rows /\ receipts' = receipts /\ again' = again /\ work' = work /\ session' = session
    BY DEF UserStarts, user
<1> QED
    BY <1>4, <1>5, Elsewhere DEF Kept

LEMMA UserRevokesKeeps ==
    ASSUME BInv, NEW s \in Source, UserRevokes(s)
    PROVE  Kept'
<1>1. PICK old : preflights' = [p \in DOMAIN preflights |->
                 IF Runs(p) /\ preflights[p].source = s /\ preflights[p].scope = old
                 THEN [preflights[p] EXCEPT !.state = "STOPPING"] ELSE preflights[p]]
    BY DEF UserRevokes
<1>2. rows' = rows /\ receipts' = receipts /\ again' = again /\ work' = work /\ session' = session
    BY DEF UserRevokes, user
<1>3. DOMAIN preflights' = DOMAIN preflights /\ \A p \in DOMAIN preflights : Onward(p)
    BY <1>1 DEF Onward
<1> QED
    BY <1>2, <1>3, EndingKeeps

LEMMA PreflightEndsKeeps ==
    ASSUME BInv, NEW p \in DOMAIN preflights, PreflightEnds(p)
    PROVE  Kept'
<1>1. PICK end \in {"USABLE", "UNUSABLE"} : preflights' = [preflights EXCEPT ![p].state = end]
    BY DEF PreflightEnds
<1>2. rows' = rows /\ receipts' = receipts /\ again' = again /\ work' = work /\ session' = session
    BY DEF PreflightEnds, user, world
<1>3. DOMAIN preflights' = DOMAIN preflights /\ \A q \in DOMAIN preflights : Onward(q)
    BY <1>1 DEF Onward, PreflightEnds, BInv, BatchTypeOK
<1> QED
    BY <1>2, <1>3, EndingKeeps

LEMMA CancelKeeps ==
    ASSUME BInv, NEW b \in Batch, Cancel(b)
    PROVE  Kept'
<1>1. /\ IsActive(b) /\ rows[b] \in Row /\ Good(b, rows[b])
    BY DEF Cancel, IsActive, BInv, RowsOK, Good
<1>2. PICK x \in Row : x = rows[b]
    BY <1>1
<1>3. PICK w : w = [x EXCEPT !.cancel = TRUE, !.state = "CANCELLING"]
    OBVIOUS
<1>4. /\ w \in Row /\ w.items = x.items /\ w.session = x.session /\ w.plan = x.plan
      /\ w.state = "CANCELLING" /\ (w.made <=> x.made) /\ w.cancel
    BY <1>3 DEF Row, Active
<1>5. rows' = [rows EXCEPT ![b] = w]
    BY <1>2, <1>3 DEF Cancel, BInv, BatchTypeOK
<1>6. Good(b, w)
    BY <1>1, <1>2, <1>4 DEF Good, Begun, Told, Points, Quiet
<1>7. UNCHANGED <<receipts, preflights, again, session, work>>
    BY DEF Cancel, user, store, world
<1>8. /\ RowsOK' /\ ReceiptsOK' /\ OneActive' /\ rows'[b] = w /\ IsActive(b)'
      /\ \A c \in Batch : \A v : Good(c, v) => Good(c, v)'
    BY <1>1, <1>4, <1>5, <1>6, <1>7, RowWritten DEF Active
<1>9. ASSUME work.at # "IDLE"
      PROVE  WorkOK'
  <2>1. PICK c \in Batch, v \in Row : work.batch = c /\ work.value = v /\ SnapshotOK(c, v)
      BY <1>9 DEF BInv, WorkOK
  <2>2. c = b
      BY <1>1, <2>1 DEF SnapshotOK, BInv, OneActive
  <2>3. Good(b, v)'
      BY <1>8, <2>1, <2>2 DEF SnapshotOK
  <2>4. CommandOK(b, v, work.item, work.kind) => CommandOK(b, v, work.item, work.kind)'
      BY <1>7 DEF CommandOK
  <2>5. SnapshotOK(b, v)'
      BY <1>2, <1>4, <1>7, <1>8, <2>1, <2>2, <2>3, <2>4 DEF SnapshotOK
  <2> QED
      BY <1>7, <2>1, <2>2, <2>5 DEF WorkOK
<1>10. WorkOK'
    BY <1>7, <1>9 DEF WorkOK
<1> QED
    BY <1>8, <1>10 DEF Kept

\* The row of a new batch.
NewRow(call) ==
    [state |-> "RUNNING", cancel |-> FALSE, session |-> session,
     created |-> call.created, plan |-> call.plan, made |-> FALSE,
     items |-> [s \in Source |-> Fresh(s, call.plan)]]

LEMMA NewRowIs ==
    ASSUME BatchTypeOK, NEW call \in Call
    PROVE  LET new == NewRow(call) IN
           /\ new \in Row /\ new.state = "RUNNING" /\ ~new.made /\ ~new.cancel
           /\ \A s \in Source : ~new.items[s].owned /\ new.items[s].pending = "NONE"
<1>1. call.plan \in Plan /\ call.created \in Nat /\ session \in Nat
    BY DEF Call, BatchTypeOK
<1>2. ASSUME NEW s \in Source
      PROVE  /\ Fresh(s, call.plan) \in Item /\ ~Fresh(s, call.plan).owned
             /\ Fresh(s, call.plan).pending = "NONE"
  <2>1. call.plan.scopes[s] \in Nat
      BY <1>1 DEF Plan
  <2> QED
      BY <2>1 DEF Fresh, Item
<1>3. [s \in Source |-> Fresh(s, call.plan)] \in [Source -> Item]
    BY <1>2
<1>4. NewRow(call) \in Row
    BY <1>1, <1>3 DEF NewRow, Row, Active
<1> QED
    BY <1>2, <1>4 DEF NewRow

LEMMA CommitStartKeeps ==
    ASSUME BInv, NEW c \in Caller, CommitStart(c)
    PROVE  Kept' /\ rows' \in [Batch -> Row \cup {None}]
<1>1. PICK call \in Call : call = calls[c]
    BY DEF CommitStart, BInv, BatchTypeOK
<1>2. PICK b \in Batch : b = call.batch
    BY DEF Call
<1>3. PICK w : w = Stored(b, NewRow(call))
    OBVIOUS
<1>4. /\ rows' = [rows EXCEPT ![b] = w]
      /\ again' = IF rows[b] = None THEN again ELSE again \cup {b}
      /\ UNCHANGED <<receipts, preflights, work>>
    BY <1>1, <1>2, <1>3 DEF CommitStart, NewRow, store
<1>5. \A o \in Batch : ~IsActive(o)
    BY DEF CommitStart, MayStart
<1>6. work.at = "IDLE"
    BY <1>5 DEF BInv, WorkOK, SnapshotOK
<1>7. /\ w \in Row /\ w.items = NewRow(call).items /\ ~w.made
      /\ w.state \in Active /\ (w.cancel => w.state # "RUNNING")
  <2>1. PICK new : new = NewRow(call)
      OBVIOUS
  <2>2. new \in Row /\ new.state = "RUNNING" /\ ~new.made
      BY <2>1, NewRowIs DEF BInv
  <2> QED
      BY <1>3, <2>1, <2>2, StoredIs DEF BInv, Active
<1>8. \A s \in Source : ~w.items[s].owned /\ w.items[s].pending = "NONE"
    BY <1>7, NewRowIs DEF BInv
<1>9. /\ rows'[b] = w /\ w # None
      /\ \A o \in Batch \ {b} : rows'[o] = rows[o]
      /\ rows' \in [Batch -> Row \cup {None}]
    BY <1>4, <1>7, NoneAssumption DEF BInv, BatchTypeOK
<1>10. Begun(w)
    BY <1>8 DEF Begun
<1>11. b \notin again' => Told(b, w)'
  <2>1. b \notin again' => rows[b] = None
      BY <1>4
  <2>2. b \notin again' => \A s \in Source : receipts[b, s, "START_PREFLIGHT"] = None
      BY <2>1 DEF BInv, ReceiptsOK, HaveRows, Kinds
  <2> QED
      BY <1>4, <2>2 DEF Told
<1>12. Points(b, w)' /\ Quiet(b, w)'
    BY <1>7, <1>8 DEF Points, Quiet, Active
<1>13. Good(b, w)'
    BY <1>7, <1>10, <1>11, <1>12 DEF Good
<1>14. ASSUME NEW o \in Batch \ {b}, NEW v, Good(o, v)
       PROVE  Good(o, v)'
  <2>1. o \in again' <=> o \in again
      BY <1>4
  <2>2. Told(o, v)' <=> Told(o, v)
      BY <1>4 DEF Told
  <2>3. \A s \in Source : Started(o, s)' = Started(o, s) /\ Attempt(s)' = Attempt(s)
      BY <1>4 DEF Started, Attempt
  <2>4. \A p : Runs(p)' <=> Runs(p)
      BY <1>4 DEF Runs
  <2> QED
      BY <1>14, <2>1, <2>2, <2>3, <2>4 DEF Good, Points, Quiet
<1>15. RowsOK'
  <2>1. ASSUME NEW o \in Batch, NEW v, v = rows'[o], v # None
        PROVE  Good(o, v)' /\ (v.cancel => v.state \notin {"RUNNING", "SUCCEEDED"})
    <3>1. CASE o = b
        BY <1>7, <1>9, <1>13, <2>1, <3>1 DEF Active
    <3>2. CASE o # b
        BY <1>9, <1>14, <2>1, <3>2 DEF BInv, RowsOK
    <3> QED
        BY <3>1, <3>2
  <2> QED
      BY <2>1 DEF RowsOK
<1>16. ReceiptsOK'
  <2>1. HaveRows'
      BY <1>4, <1>9 DEF BInv, ReceiptsOK, HaveRows
  <2>2. HaveReceipts'
      BY <1>4 DEF BInv, ReceiptsOK, HaveReceipts, Recorded, Started
  <2> QED
      BY <2>1, <2>2 DEF ReceiptsOK
<1>17. OneActive'
    BY <1>5, <1>9 DEF OneActive, IsActive
<1>18. WorkOK'
    BY <1>4, <1>6 DEF WorkOK
<1> QED
    BY <1>9, <1>15, <1>16, <1>17, <1>18 DEF Kept

-----------------------------------------------------------------------------
(* Every table keeps to its columns.                                       *)

ScopeRow == [granted: Nat, live: SUBSET Nat, first: Nat]

LEMMA GrantedType ==
    ASSUME BatchTypeOK, NEW s \in Source, Granted(s)
    PROVE  scopes' \in [Source -> ScopeRow]
<1>1. scopes \in [Source -> ScopeRow] /\ scopes[s] \in ScopeRow
    BY DEF BatchTypeOK, ScopeRow
<1>2. PICK r \in ScopeRow : scopes' = [scopes EXCEPT ![s] = r]
  <2>1. PICK first \in {scopes[s].granted + 1} \cup ({scopes[s].first} \ {0}) :
           scopes' = [scopes EXCEPT ![s] =
              [granted |-> scopes[s].granted + 1,
               live |-> scopes[s].live \cup {scopes[s].granted + 1}, first |-> first]]
      BY <1>1 DEF Granted
  <2>2. [granted |-> scopes[s].granted + 1,
         live |-> scopes[s].live \cup {scopes[s].granted + 1}, first |-> first] \in ScopeRow
      BY <1>1 DEF ScopeRow
  <2> QED
      BY <2>1, <2>2
<1> QED
    BY <1>1, <1>2

LEMMA RevokedType ==
    ASSUME BatchTypeOK, NEW s \in Source, UserRevokes(s)
    PROVE  scopes' \in [Source -> ScopeRow] /\ preflights' \in Seq(Preflight)
<1>1. scopes \in [Source -> ScopeRow] /\ scopes[s] \in ScopeRow
    BY DEF BatchTypeOK, ScopeRow
<1>2. PICK old \in scopes[s].live :
        /\ \E first \in IF scopes[s].first # old THEN {scopes[s].first}
                        ELSE IF scopes[s].live \ {old} = {} THEN {0} ELSE scopes[s].live \ {old} :
              scopes' = [scopes EXCEPT ![s].live = scopes[s].live \ {old}, ![s].first = first]
        /\ preflights' = [p \in DOMAIN preflights |->
                 IF Runs(p) /\ preflights[p].source = s /\ preflights[p].scope = old
                 THEN [preflights[p] EXCEPT !.state = "STOPPING"] ELSE preflights[p]]
    BY DEF UserRevokes
<1>3. PICK first \in Nat :
        scopes' = [scopes EXCEPT ![s].live = scopes[s].live \ {old}, ![s].first = first]
    BY <1>1, <1>2 DEF ScopeRow
<1>4. scopes' \in [Source -> ScopeRow]
    BY <1>1, <1>3 DEF ScopeRow
<1>5. /\ DOMAIN preflights = 1 .. Len(preflights) /\ Len(preflights) \in Nat
      /\ \A p \in DOMAIN preflights : preflights[p] \in Preflight
    BY DEF BatchTypeOK
<1>6. \A p \in DOMAIN preflights : [preflights[p] EXCEPT !.state = "STOPPING"] \in Preflight
    BY <1>5 DEF Preflight
<1>7. preflights' \in [1 .. Len(preflights) -> Preflight]
    BY <1>2, <1>5, <1>6
<1>8. preflights' \in Seq(Preflight)
    BY <1>5, <1>7
<1> QED
    BY <1>4, <1>8

LEMMA EndType ==
    ASSUME BatchTypeOK, NEW p, NEW end \in {"STOPPING", "USABLE", "UNUSABLE"},
           preflights' = [preflights EXCEPT ![p].state = end]
    PROVE  preflights' \in Seq(Preflight)
<1>1. PICK n \in Nat : preflights \in [1 .. n -> Preflight]
    BY SeqDef DEF BatchTypeOK
<1>2. ASSUME NEW q \in 1 .. n
      PROVE  [preflights[q] EXCEPT !.state = end] \in Preflight
  <2>1. preflights[q] \in Preflight
      BY <1>1
  <2> QED
      BY <2>1 DEF Preflight
<1>3. preflights' \in [1 .. n -> Preflight]
    BY <1>1, <1>2
<1> QED
    BY <1>3, SeqDef

LEMMA EffectType ==
    ASSUME BInv, Execute
    PROVE  /\ scopes' \in [Source -> ScopeRow] /\ preflights' \in Seq(Preflight)
           /\ adopted' \subseteq Source
           /\ receipts' \in [Batch \X Source \X Kinds -> Receipt \cup {None}]
<1>1. PICK b \in Batch, v \in Row, s \in Source, k \in Kinds :
         /\ work.batch = b /\ work.value = v /\ work.item = s /\ work.kind = k
    BY Given DEF Execute
<1>2. PICK n : /\ Effect(n)
               /\ receipts' = [receipts EXCEPT ![Key] = [facts |-> work.value.plan.facts,
                                  preflight |-> work.preflight, result |-> n]]
    BY DEF Execute
<1>3. BatchTypeOK
    BY DEF BInv
<1>4. scopes \in [Source -> ScopeRow] /\ preflights \in Seq(Preflight) /\ adopted \subseteq Source
    BY <1>3 DEF BatchTypeOK, ScopeRow
<1>5. scopes' \in [Source -> ScopeRow]
    BY <1>1, <1>2, <1>3, <1>4, GrantedType DEF Effect
<1>6. preflights' \in Seq(Preflight)
  <2>1. CASE preflights' = Submitted(s, b)
      BY <1>3, <1>4, <2>1, SubmittedIs
  <2>2. CASE preflights' = preflights
      BY <1>4, <2>2
  <2>3. CASE preflights' = [preflights EXCEPT ![work.preflight].state = "STOPPING"]
      BY <1>3, <2>3, EndType
  <2> QED
      BY <1>1, <1>2, <2>1, <2>2, <2>3 DEF Effect
<1>7. adopted' \subseteq Source
    BY <1>1, <1>2, <1>4 DEF Effect
<1>8. receipts' \in [Batch \X Source \X Kinds -> Receipt \cup {None}]
  <2>1. n \in Nat
    <3>1. scopes[s].granted + 1 \in Nat
        BY <1>4 DEF ScopeRow
    <3>2. Len(preflights) + 1 \in Nat
        BY <1>4
    <3> QED
        BY <1>1, <1>2, <3>1, <3>2 DEF Effect
  <2>2. [facts |-> work.value.plan.facts, preflight |-> work.preflight, result |-> n] \in Receipt
    <3>1. v.plan.facts \in Nat
        BY DEF Row, Plan
    <3>2. work.preflight \in Nat
        BY <1>3 DEF BatchTypeOK, Work
    <3> QED
        BY <1>1, <2>1, <3>1, <3>2 DEF Receipt
  <2> QED
      BY <1>2, <1>3, <2>2 DEF BatchTypeOK
<1> QED
    BY <1>5, <1>6, <1>7, <1>8

LEMMA CallType ==
    ASSUME BatchTypeOK, NEW c \in Caller, NEW b \in Batch, ReadStart(c, b)
    PROVE  calls' \in [Caller -> Call \cup {None}]
<1>1. [facts |-> facts, scopes |-> [s \in Source |-> Matching(s)]] \in Plan
    BY DEF BatchTypeOK, Plan, Matching
<1>2. [batch |-> b, created |-> clock + 1,
       plan |-> [facts |-> facts, scopes |-> [s \in Source |-> Matching(s)]]] \in Call
    BY <1>1 DEF BatchTypeOK, Call
<1> QED
    BY <1>2 DEF ReadStart, BatchTypeOK

LEMMA PreflightEndsType ==
    ASSUME BatchTypeOK, NEW p \in DOMAIN preflights, PreflightEnds(p)
    PROVE  preflights' \in Seq(Preflight)
<1>1. PICK end \in {"USABLE", "UNUSABLE"} : preflights' = [preflights EXCEPT ![p].state = end]
    BY DEF PreflightEnds
<1> QED
    BY <1>1, EndType

LEMMA CoordinatorTypes ==
    ASSUME BInv, Coordinator \/ WriteFails, work' \in Work
    PROVE  BatchTypeOK'
<1>1. BatchTypeOK
    BY DEF BInv
<1>2. CASE \E b \in Batch : Read(b)
    BY <1>1, <1>2 DEF Read, BatchTypeOK, user, store, world
<1>3. CASE Step
    BY <1>1, <1>3 DEF Step, BatchTypeOK, user, store, world
<1>4. CASE WriteDown
  <2>1. PICK b \in Batch, v \in Row : work.batch = b /\ work.value = v
      BY <1>4 DEF WriteDown, BInv, WorkOK
  <2>2. Stored(b, v) \in Row
      BY <1>1, StoredIs
  <2>3. rows' \in [Batch -> Row \cup {None}]
      BY <1>1, <1>4, <2>1, <2>2 DEF WriteDown, BatchTypeOK
  <2> QED
      BY <1>1, <1>4, <2>3 DEF WriteDown, BatchTypeOK, user, store, world
<1>5. CASE Execute
  <2>1. trouble' \in Nat
      BY <1>1, <1>5 DEF Execute, Troubled, BatchTypeOK
  <2> QED
      BY <1>1, <1>5, <2>1, EffectType DEF Execute, BatchTypeOK, ScopeRow, user
<1>6. CASE Repeat
    BY <1>1, <1>6 DEF Repeat, BatchTypeOK, user, store, world
<1>7. CASE NotExecuted
    BY <1>1, <1>7 DEF NotExecuted, Troubled, BatchTypeOK, user, store
<1>8. CASE WriteBack
  <2>1. PICK b \in Batch, v \in Row : work.batch = b /\ work.value = v /\ SnapshotOK(b, v)
      BY <1>8 DEF WriteBack, BInv, WorkOK
  <2>2. rows[b] # None
      BY <2>1 DEF SnapshotOK, IsActive
  <2>3. Merged(b, v) \in Row
      BY <1>1, <2>2, MergedIs
  <2>4. rows' \in [Batch -> Row \cup {None}]
      BY <1>1, <1>8, <2>1, <2>3 DEF WriteBack, BatchTypeOK
  <2> QED
      BY <1>1, <1>8, <2>4 DEF WriteBack, BatchTypeOK, user, store, world
<1>9. CASE WriteFails
    BY <1>1, <1>9 DEF WriteFails, Troubled, BatchTypeOK, user, store
<1> QED
    BY <1>2, <1>3, <1>4, <1>5, <1>6, <1>7, <1>8, <1>9 DEF Coordinator

LEMMA OtherTypes ==
    ASSUME BInv, UserActs \/ Restart \/ \E p \in DOMAIN preflights : PreflightEnds(p)
    PROVE  BatchTypeOK'
<1>1. BatchTypeOK
    BY DEF BInv
<1>2. ASSUME NEW c \in Caller, NEW b \in Batch, ReadStart(c, b)
      PROVE  BatchTypeOK'
  <2>1. calls' \in [Caller -> Call \cup {None}]
      BY <1>1, <1>2, CallType
  <2> QED
      BY <1>1, <1>2, <2>1 DEF ReadStart, BatchTypeOK, store, world
<1>3. ASSUME NEW c \in Caller, CommitStart(c)
      PROVE  BatchTypeOK'
  <2>1. rows' \in [Batch -> Row \cup {None}]
      BY <1>3, CommitStartKeeps
  <2>2. calls' \in [Caller -> Call \cup {None}]
      BY <1>1, <1>3 DEF CommitStart, BatchTypeOK
  <2>3. calls[c].batch \in Batch
      BY <1>1, <1>3 DEF CommitStart, BatchTypeOK, Call
  <2>4. again' \subseteq Batch
      BY <1>1, <1>3, <2>3 DEF CommitStart, BatchTypeOK
  <2> QED
      BY <1>1, <1>3, <2>1, <2>2, <2>4 DEF CommitStart, BatchTypeOK, store, world
<1>4. ASSUME NEW c \in Caller, RefuseStart(c)
      PROVE  BatchTypeOK'
    BY <1>1, <1>4 DEF RefuseStart, BatchTypeOK, store, world
<1>5. ASSUME NEW b \in Batch, Cancel(b)
      PROVE  BatchTypeOK'
  <2>1. rows[b] \in Row
      BY <1>1, <1>5 DEF Cancel, IsActive, BatchTypeOK
  <2>2. [rows[b] EXCEPT !.cancel = TRUE, !.state = "CANCELLING"] \in Row
      BY <2>1 DEF Row, Active
  <2>3. rows' \in [Batch -> Row \cup {None}]
      BY <1>1, <1>5, <2>2 DEF Cancel, BatchTypeOK
  <2> QED
      BY <1>1, <1>5, <2>3 DEF Cancel, BatchTypeOK, user, store, world
<1>6. ASSUME NEW s \in Source, UserGrants(s)
      PROVE  BatchTypeOK'
  <2>1. scopes' \in [Source -> ScopeRow]
      BY <1>1, <1>6, GrantedType DEF UserGrants
  <2> QED
      BY <1>1, <1>6, <2>1 DEF UserGrants, Troubled, BatchTypeOK, ScopeRow, user
<1>7. ASSUME NEW s \in Source, UserRevokes(s)
      PROVE  BatchTypeOK'
  <2>1. scopes' \in [Source -> ScopeRow] /\ preflights' \in Seq(Preflight)
      BY <1>1, <1>7, RevokedType
  <2>2. /\ UNCHANGED <<rows, user, work, receipts, adopted, fit, facts, session>>
        /\ trouble' = trouble + 1
      BY <1>7 DEF UserRevokes, Troubled
  <2> QED
      BY <1>1, <2>1, <2>2 DEF BatchTypeOK, ScopeRow, user
<1>8. ASSUME NEW s \in Source, UserStarts(s)
      PROVE  BatchTypeOK'
  <2>1. preflights' \in Seq(Preflight)
    <3>1. PICK r \in Preflight : Submitted(s, "USER") = Append(preflights, r)
        BY <1>1, SubmittedIs
    <3>2. preflights' = Append(preflights, r)
        BY <1>8, <3>1 DEF UserStarts
    <3> QED
        BY <1>1, <3>2 DEF BatchTypeOK
  <2> QED
      BY <1>1, <1>8, <2>1 DEF UserStarts, Troubled, BatchTypeOK, user
<1>9. CASE UserChanges
    BY <1>1, <1>9 DEF UserChanges, Troubled, BatchTypeOK, user, store
<1>10. ASSUME NEW p \in DOMAIN preflights, PreflightEnds(p)
       PROVE  BatchTypeOK'
  <2>1. preflights' \in Seq(Preflight)
      BY <1>1, <1>10, PreflightEndsType
  <2> QED
      BY <1>1, <1>10, <2>1 DEF PreflightEnds, BatchTypeOK, user, world
<1>11. CASE Restart
  <2>1. calls' \in [Caller -> Call \cup {None}] /\ work' \in Work
      BY <1>11, IdleIs DEF Restart
  <2> QED
      BY <1>1, <1>11, <2>1 DEF Restart, Troubled, BatchTypeOK, store
<1> QED
    BY <1>2, <1>3, <1>4, <1>5, <1>6, <1>7, <1>8, <1>9, <1>10, <1>11 DEF UserActs

-----------------------------------------------------------------------------
(* The invariant, and what follows from it.                                *)

LEMMA BInitially ==
    BatchInit => BInv
<1> SUFFICES ASSUME BatchInit
             PROVE  BInv
    OBVIOUS
<1>1. BatchTypeOK
  <2>1. preflights \in Seq(Preflight)
      BY DEF BatchInit
  <2>2. scopes \in [Source -> ScopeRow]
      BY DEF BatchInit, ScopeRow
  <2>3. work \in Work
      BY IdleIs DEF BatchInit
  <2> QED
      BY <2>1, <2>2, <2>3 DEF BatchInit, BatchTypeOK, ScopeRow
<1>2. RowsOK /\ OneActive
    BY DEF BatchInit, RowsOK, OneActive, IsActive
<1>3. ReceiptsOK
  <2>1. \A b \in Batch, s \in Source, k \in Kinds : receipts[b, s, k] = None
      BY DEF BatchInit
  <2>2. \A b \in Batch, s \in Source : Started(b, s) = {}
      BY DEF BatchInit, Started
  <2> QED
      BY <2>1, <2>2 DEF ReceiptsOK, HaveRows, HaveReceipts
<1>4. WorkOK
    BY IdleIs DEF BatchInit, WorkOK
<1> QED
    BY <1>1, <1>2, <1>3, <1>4 DEF BInv

LEMMA BInductive ==
    BInv /\ [BatchNext]_vars => BInv'
<1> SUFFICES ASSUME BInv, [BatchNext]_vars
             PROVE  BInv'
    OBVIOUS
<1>1. CASE Coordinator \/ WriteFails
  <2>1. Kept' /\ work' \in Work
      BY <1>1, ReadKeeps, StepKeeps, WriteDownKeeps, ExecuteKeeps, RepeatKeeps,
         NotExecutedKeeps, WriteBackKeeps, WriteFailsKeeps DEF Coordinator
  <2> QED
      BY <1>1, <2>1, CoordinatorTypes DEF BInv, Kept
<1>2. CASE UserActs \/ Restart \/ \E p \in DOMAIN preflights : PreflightEnds(p)
  <2>1. ASSUME NEW c \in Caller, NEW b \in Batch, ReadStart(c, b)
        PROVE  Kept'
      BY <2>1, QuietKeeps DEF ReadStart, store, world
  <2>2. ASSUME NEW c \in Caller, RefuseStart(c)
        PROVE  Kept'
      BY <2>2, QuietKeeps DEF RefuseStart, store, world
  <2>3. ASSUME NEW s \in Source, UserGrants(s)
        PROVE  Kept'
    <3>1. UNCHANGED <<preflights, rows, receipts, again, work, session>>
        BY <2>3 DEF UserGrants, user
    <3> QED
        BY <3>1, QuietKeeps
  <2>4. ASSUME UserChanges
        PROVE  Kept'
    <3>1. UNCHANGED <<preflights, rows, receipts, again, work, session>>
        BY <2>4 DEF UserChanges, user, store
    <3> QED
        BY <3>1, QuietKeeps
  <2>5. ASSUME Restart
        PROVE  Kept'
    <3>1. UNCHANGED <<preflights, rows, receipts, again>> /\ work' = Idle
        BY <2>5 DEF Restart, store
    <3> QED
        BY <3>1, QuietKeeps
  <2>6. Kept'
      BY <1>2, <2>1, <2>2, <2>3, <2>4, <2>5, CommitStartKeeps, CancelKeeps, UserRevokesKeeps,
         UserStartsKeeps, PreflightEndsKeeps DEF UserActs
  <2> QED
      BY <1>2, <2>6, OtherTypes DEF BInv, Kept
<1>3. CASE UNCHANGED vars
  <2>1. Kept'
      BY <1>3, QuietKeeps DEF vars, user, store, world
  <2>2. BatchTypeOK'
      BY <1>3 DEF BInv, BatchTypeOK, vars, user, store, world
  <2> QED
      BY <2>1, <2>2 DEF BInv, Kept
<1> QED
    BY <1>1, <1>2, <1>3 DEF BatchNext

\* The invariant holds of every batch, whatever requests, faults and restarts
\* meet the coordinator between its reads and its writes.
THEOREM BatchInvariant ==
    BatchSpec => []BInv
BY BInitially, BInductive, PTL DEF BatchSpec

\* The rows, the receipts and the coordinator's snapshot keep to their columns,
\* also through a save that merges a snapshot into a newer row.
THEOREM BatchTypes ==
    BatchSpec => []BatchTypeOK
<1>1. BInv => BatchTypeOK
    BY DEF BInv
<1> QED
    BY <1>1, BatchInvariant, PTL

\* start() looks for an active batch again under the write lock, so two
\* requests that both found none do not both start one.
THEOREM OneBatch ==
    BatchSpec => []OneActive
<1>1. BInv => OneActive
    BY DEF BInv
<1> QED
    BY <1>1, BatchInvariant, PTL

\* A batch whose row was written once starts at most one preflight for an item,
\* and its row tells of it: the command is written before it is given, and its
\* receipt is kept with its effect.
THEOREM PreflightsAccounted ==
    BatchSpec => []Accounted
<1>1. BInv => Accounted
  <2> SUFFICES ASSUME BInv, NEW b \in Batch \ again, NEW s \in Source
               PROVE  /\ Cardinality(Started(b, s)) <= 1
                      /\ Started(b, s) # {} =>
                            /\ rows[b] # None
                            /\ rows[b].items[s].owned \/ rows[b].items[s].pending = "START_PREFLIGHT"
      BY DEF Accounted
  <2>1. PICK r : r = receipts[b, s, "START_PREFLIGHT"].result
      OBVIOUS
  <2>2. Started(b, s) \subseteq {r}
      BY <2>1 DEF BInv, ReceiptsOK, HaveReceipts, Recorded
  <2>3. Cardinality(Started(b, s)) <= 1
    <3>1. IsFiniteSet({r}) /\ Cardinality({r}) = 1
        BY FS_Singleton
    <3>2. Cardinality(Started(b, s)) <= Cardinality({r})
        BY <2>2, <3>1, FS_Subset
    <3> QED
        BY <3>1, <3>2
  <2>4. ASSUME Started(b, s) # {}
        PROVE  /\ rows[b] # None
               /\ rows[b].items[s].owned \/ rows[b].items[s].pending = "START_PREFLIGHT"
    <3>1. receipts[b, s, "START_PREFLIGHT"] # None
        BY <2>4 DEF BInv, ReceiptsOK, HaveReceipts, Recorded
    <3>2. rows[b] # None
        BY <3>1 DEF BInv, ReceiptsOK, HaveRows, Kinds
    <3>3. Told(b, rows[b])
        BY <3>2 DEF BInv, RowsOK, Good
    <3> QED
        BY <3>1, <3>2, <3>3 DEF Told
  <2> QED
      BY <2>3, <2>4
<1> QED
    BY <1>1, BatchInvariant, PTL

\* A batch reaches CANCELLED only when no preflight it started is still running,
\* the ones a newer preflight of the same source replaced apart.
THEOREM CancelledBatchIsQuiet ==
    BatchSpec => []CancelledIsQuiet
<1>1. BInv => CancelledIsQuiet
    BY DEF BInv, RowsOK, Good, Quiet, CancelledIsQuiet
<1> QED
    BY <1>1, BatchInvariant, PTL

-----------------------------------------------------------------------------
(* Nothing is done that was not announced and approved.                    *)

\* What a receipt stands for was in the row, and the plan was still good.
LEMMA ReceiptsApproved ==
    ASSUME BInv, BatchNext, NEW b \in Batch, NEW s \in Source, NEW k \in Kinds,
           receipts'[b, s, k] # receipts[b, s, k]
    PROVE  /\ rows[b] # None /\ rows[b].items[s].pending = k
           /\ k # "CANCEL_PREFLIGHT" => rows[b].session = session /\ rows[b].plan.facts = facts
<1>1. Execute
    BY DEF BatchNext, Coordinator, UserActs, Read, Step, WriteDown, Repeat, NotExecuted, WriteBack,
       WriteFails, ReadStart, CommitStart, RefuseStart, Cancel, UserGrants, UserRevokes, UserStarts,
       UserChanges, PreflightEnds, Restart, user, store
<1>2. PICK c \in Batch, v \in Row, o \in Source, kind \in Kinds :
         /\ work.batch = c /\ work.value = v /\ work.item = o /\ work.kind = kind
         /\ Giving(c, v, o, kind)
    BY <1>1, Given DEF Execute
<1>3. PICK r : receipts' = [receipts EXCEPT ![<<c, o, kind>>] = r]
    BY <1>1, <1>2 DEF Execute, Key
<1>4. c = b /\ o = s /\ kind = k
    BY <1>3 DEF BInv, BatchTypeOK
<1>5. rows[b] # None /\ rows[b].items[s].pending = k
    BY <1>2, <1>4 DEF Giving, CommandOK, IsActive
<1>6. ASSUME k # "CANCEL_PREFLIGHT"
      PROVE  rows[b].session = session /\ rows[b].plan.facts = facts
  <2>1. v.plan.facts = facts
      BY <1>1, <1>2, <1>4, <1>6 DEF Execute, Allowed, Bound
  <2>2. v.session = session /\ v.session = rows[b].session /\ v.plan = rows[b].plan
      BY <1>2, <1>4, <1>6 DEF Giving, CommandOK
  <2> QED
      BY <2>1, <2>2
<1> QED
    BY <1>5, <1>6

\* A cancelled row x that becomes w.
Stands(x, w) ==
    /\ w.cancel
    /\ w.state \notin {"RUNNING", "SUCCEEDED"}
    /\ w.state = "CANCELLING" =>
          \A s \in Source : w.items[s].pending \in {x.items[s].pending, "NONE", "CANCEL_PREFLIGHT"}

LEMMA RestartStands ==
    ASSUME BInv, NEW c \in Caller, CommitStart(c), NEW b \in Batch, NEW x \in Row, x = rows[b], x.cancel
    PROVE  Stands(x, rows'[b])
<1>1. PICK call \in Call : call = calls[c]
    BY DEF CommitStart, BInv, BatchTypeOK
<1>2. PICK new : new = NewRow(call)
    OBVIOUS
<1>3. rows' = [rows EXCEPT ![call.batch] = Stored(call.batch, new)]
    BY <1>1, <1>2 DEF CommitStart, NewRow
<1>4. CASE call.batch # b
  <2>1. rows'[b] = x
      BY <1>3, <1>4 DEF BInv, BatchTypeOK
  <2>2. x.state \notin {"RUNNING", "SUCCEEDED"}
      BY NoneAssumption DEF BInv, RowsOK
  <2> QED
      BY <2>1, <2>2 DEF Stands
<1>5. CASE call.batch = b
  <2>1. PICK w : w = Stored(b, new)
      OBVIOUS
  <2>2. rows'[b] = w
      BY <1>3, <1>5, <2>1 DEF BInv, BatchTypeOK
  <2>3. new \in Row /\ new.state = "RUNNING"
      BY <1>2, NewRowIs DEF BInv
  <2>4. w.cancel /\ w.state = "CANCELLING" /\ w.items = new.items
      BY <2>1, <2>3, StoredIs, NoneAssumption DEF BInv
  <2>5. \A s \in Source : new.items[s].pending = "NONE"
      BY <1>2, NewRowIs DEF BInv
  <2> QED
      BY <2>2, <2>4, <2>5 DEF Stands
<1> QED
    BY <1>4, <1>5

LEMMA CancelAgainStands ==
    ASSUME BInv, NEW c \in Batch, Cancel(c), NEW b \in Batch, NEW x \in Row, x = rows[b], x.cancel,
           x.state \notin {"RUNNING", "SUCCEEDED"}
    PROVE  Stands(x, rows'[b])
<1>1. rows' = [rows EXCEPT ![c].cancel = TRUE, ![c].state = "CANCELLING"]
    BY DEF Cancel
<1>2. CASE c # b
    BY <1>1, <1>2 DEF Stands, BInv, BatchTypeOK
<1>3. CASE c = b
  <2>1. PICK w : w = [x EXCEPT !.cancel = TRUE, !.state = "CANCELLING"]
      OBVIOUS
  <2>2. rows'[b] = w
      BY <1>1, <1>3, <2>1 DEF BInv, BatchTypeOK
  <2>3. w.cancel /\ w.state = "CANCELLING" /\ w.items = x.items
      BY <2>1 DEF Row
  <2> QED
      BY <2>2, <2>3 DEF Stands
<1> QED
    BY <1>2, <1>3

LEMMA WriteDownStands ==
    ASSUME BInv, WriteDown, NEW b \in Batch, NEW x \in Row, x = rows[b], x.cancel,
           x.state \notin {"RUNNING", "SUCCEEDED"}
    PROVE  Stands(x, rows'[b])
<1>1. PICK c \in Batch, v \in Row : work.batch = c /\ work.value = v /\ SnapshotOK(c, v)
    BY DEF WriteDown, BInv, WorkOK
<1>2. CASE rows'[b] = x
    BY <1>2 DEF Stands
<1>3. CASE rows'[b] # x
  <2>1. c = b /\ rows' = [rows EXCEPT ![b] = Stored(b, v)] /\ work.kind = "CANCEL_PREFLIGHT"
      BY <1>1, <1>3 DEF WriteDown, BInv, BatchTypeOK
  <2>2. PICK s, k : s = work.item /\ k = work.kind
      OBVIOUS
  <2>3. CommandOK(b, v, s, k)
      BY <1>1, <2>1, <2>2 DEF SnapshotOK, WriteDown
  <2>4. v.items[s].pending = "CANCEL_PREFLIGHT" /\ \A o \in Source \ {s} : v.items[o].pending = "NONE"
      BY <2>1, <2>2, <2>3 DEF CommandOK
  <2>5. v.state \in Active
      BY <2>3 DEF CommandOK
  <2>6. PICK w : w = Stored(b, v)
      OBVIOUS
  <2>7. w.cancel /\ w.items = v.items /\ w.state = IF v.state = "RUNNING" THEN "CANCELLING" ELSE v.state
      BY <2>6, StoredIs, NoneAssumption DEF BInv
  <2>8. rows'[b] = w
      BY <2>1, <2>6 DEF BInv, BatchTypeOK
  <2> QED
      BY <2>4, <2>5, <2>7, <2>8 DEF Stands, Active
<1> QED
    BY <1>2, <1>3

LEMMA WriteBackStands ==
    ASSUME BInv, WriteBack, NEW b \in Batch, NEW x \in Row, x = rows[b], x.cancel,
           x.state \notin {"RUNNING", "SUCCEEDED"}
    PROVE  Stands(x, rows'[b])
<1>1. PICK c \in Batch, v \in Row : work.batch = c /\ work.value = v /\ SnapshotOK(c, v)
    BY DEF WriteBack, BInv, WorkOK
<1>2. CASE rows'[b] = x
    BY <1>2 DEF Stands
<1>3. CASE rows'[b] # x
  <2>1. c = b /\ rows' = [rows EXCEPT ![b] = Merged(b, v)]
      BY <1>1, <1>3 DEF WriteBack, BInv, BatchTypeOK
  <2>2. PICK w : w = Merged(b, v)
      OBVIOUS
  <2>3. /\ w.items = v.items /\ w.cancel
        /\ w.state \in {v.state, "CANCELLING"}
        /\ w.state # v.state => v.state \in {"RUNNING", "SUCCEEDED"}
        /\ w.state \notin {"RUNNING", "SUCCEEDED"}
      BY <2>2, MergedIs, NoneAssumption DEF BInv
  <2>4. \/ v.state = "BLOCKED"
        \/ \A s \in Source : v.items[s].pending \in {"NONE", x.items[s].pending}
      BY <1>1, <2>1 DEF SnapshotOK, WriteBack
  <2>5. rows'[b] = w
      BY <2>1, <2>2 DEF BInv, BatchTypeOK
  <2> QED
      BY <2>3, <2>4, <2>5 DEF Stands
<1> QED
    BY <1>2, <1>3

LEMMA CancelStands ==
    ASSUME BInv, BatchNext, NEW b \in Batch, rows[b] # None, rows[b].cancel
    PROVE  Stands(rows[b], rows'[b])
<1>1. PICK x \in Row : x = rows[b]
    BY DEF BInv, BatchTypeOK
<1>2. x.cancel /\ x.state \notin {"RUNNING", "SUCCEEDED"}
    BY <1>1 DEF BInv, RowsOK
<1>3. CASE rows' = rows
    BY <1>1, <1>2, <1>3 DEF Stands
<1>4. CASE rows' # rows
  <2>1. \/ \E c \in Caller : CommitStart(c)
        \/ \E c \in Batch : Cancel(c)
        \/ WriteDown \/ WriteBack
      BY <1>4 DEF BatchNext, Coordinator, UserActs, Read, Step, Execute, Repeat, NotExecuted,
         WriteFails, ReadStart, RefuseStart, UserGrants, UserRevokes, UserStarts,
         UserChanges, PreflightEnds, Restart
  <2> QED
      BY <1>1, <1>2, <2>1, RestartStands, CancelAgainStands, WriteDownStands, WriteBackStands
<1> QED
    BY <1>3, <1>4

\* A command takes effect only if the row announced it and, unless it cancels,
\* under the approved plan in its own session; and no older snapshot takes a
\* cancellation back or announces anything new after it.
THEOREM NothingUnapproved ==
    BatchSpec => OnlyApproved
<1> DEFINE Approved(b) ==
        /\ \A s \in Source, kind \in Kinds :
              receipts'[b, s, kind] # receipts[b, s, kind] =>
                 /\ rows[b] # None /\ rows[b].items[s].pending = kind
                 /\ kind # "CANCEL_PREFLIGHT" =>
                       rows[b].session = session /\ rows[b].plan.facts = facts
        /\ rows[b] # None /\ rows[b].cancel =>
              /\ rows'[b].cancel
              /\ rows'[b].state \notin {"RUNNING", "SUCCEEDED"}
              /\ rows'[b].state = "CANCELLING" => \A s \in Source :
                    rows'[b].items[s].pending \in
                       {rows[b].items[s].pending, "NONE", "CANCEL_PREFLIGHT"}
<1>1. ASSUME BInv, [BatchNext]_vars
      PROVE  [\A b \in Batch : Approved(b)]_vars
  <2>1. ASSUME BatchNext, NEW b \in Batch
        PROVE  Approved(b)
    <3>1. \A s \in Source, kind \in Kinds :
              receipts'[b, s, kind] # receipts[b, s, kind] =>
                 /\ rows[b] # None /\ rows[b].items[s].pending = kind
                 /\ kind # "CANCEL_PREFLIGHT" =>
                       rows[b].session = session /\ rows[b].plan.facts = facts
        BY <1>1, <2>1, ReceiptsApproved
    <3>2. rows[b] # None /\ rows[b].cancel => Stands(rows[b], rows'[b])
        BY <1>1, <2>1, CancelStands
    <3> QED
        BY <3>1, <3>2 DEF Stands
  <2> QED
      BY <1>1, <2>1
<1> QED
    BY <1>1, BatchInvariant, PTL DEF BatchSpec, OnlyApproved
=============================================================================
