-------------------------- MODULE RecordingReview --------------------------
(***************************************************************************)
(* What happens to a recording after its job: the captured events became a *)
(* first draft, the user corrects it revision by revision, and accepts or  *)
(* discards it.  Accepting publishes the flow of a demonstration as a file *)
(* and then, in one transaction, completes the recording and makes it the  *)
(* material its action is checked with.  A recording made as a candidate   *)
(* only becomes material when the user has seen what it replaces.          *)
(*                                                                         *)
(* A request reads what it decides on before its first write takes the     *)
(* write lock, each SELECT for itself; what it reads later it reads under  *)
(* the lock.  One business action with one owner of resources is modelled, *)
(* and of a draft only which of its readings the user chose.               *)
(***************************************************************************)
EXTENDS Integers, Sequences

CONSTANTS
    Recording,
    Target,      \* recordings that demonstrate the action itself
    Parent,      \* the demonstration a supplement (any other) belongs to
    Slot,        \* the material of an action that a supplement provides
    Candidate,   \* recordings made as a candidate for replacing material
    Choice,      \* readings of a draft: its target request and resource
    Caller,      \* requests of users, and the Worker that ends a recording
    Operation,   \* identifiers of confirmed replacements
    MaxRevision, \* bound: revisions of a draft
    MaxSource,   \* bound: changes of the application under test
    MaxOther,    \* bound: materials adopted from elsewhere
    MaxCalls,    \* bound: requests
    None

VARIABLES
    state,    \* RecordingRow.state; RECORDING stands for all before the review
    frozen,   \* preparation_source_fingerprint: the source at its start
    drafts,   \* flow_draft_revisions: the choice in each revision
    flow,     \* the published file: the choice it was compiled from
    bound,    \* what each slot of the action is bound to
    source,   \* the current source, endpoint and accounts
    calls,    \* the requests being answered
    made,     \* how many requests were made
    command,  \* the replacement the user previewed, by operation
    receipt,  \* preparation_receipts: the recording an operation adopted
    others,   \* how often material was adopted from elsewhere
    told,     \* revisions whose reviewer was told that they are saved
    accepted, \* the revision last accepted, 0 before
    writes    \* how often an operation wrote material

vars == <<state, frozen, drafts, flow, bound, source, calls, made, command,
          receipt, others, told, accepted, writes>>

Material == {"execution", "resource"} \cup {Slot[r] : r \in Recording \ Target}

Reading == Choice \cup {None}

\* A slot is bound to a revision of a recording and to the flow that was used.
Binding == [rec : Recording, rev : 1..MaxRevision, flow : Reading]

\* Elsewhere: a saved flow or a proof source, which the user adopts on its own.
Elsewhere == [adopted : 0..MaxOther]

Basis == [source : 0..MaxSource, bound : [Material -> Binding \cup Elsewhere \cup {None}]]

Call == [op : {"review", "refresh", "finalize", "discard"}, rec : Recording,
         seen : 0..MaxRevision, at : {"recording", "draft", "writing", "accepting"},
         rev : 0..MaxRevision]

ASSUME ReviewAssumption ==
    /\ Target \subseteq Recording
    /\ Candidate \subseteq Recording
    /\ Parent \in [Recording \ Target -> Target]
    /\ Slot \in [Recording \ Target -> {"evidence", "recovery"}]
    /\ None \notin Choice \cup Recording \cup Binding \cup Elsewhere \cup Call
    /\ None \notin [rec : Recording, basis : Basis]
    /\ MaxRevision \in Nat \ {0} /\ MaxSource \in Nat /\ MaxOther \in Nat /\ MaxCalls \in Nat

ReviewTypeOK ==
    /\ state \in [Recording -> {"none", "RECORDING", "PENDING_REVIEW", "COMPLETED", "CANCELLED"}]
    /\ frozen \in [Recording -> 0..MaxSource]
    /\ drafts \in [Recording -> Seq(Reading)]
    /\ \A r \in Recording : Len(drafts[r]) <= MaxRevision
    /\ \A r \in Recording : state[r] \in {"none", "RECORDING"} <=> drafts[r] = <<>>
    /\ flow \in [Recording -> Reading]
    /\ bound \in [Material -> Binding \cup Elsewhere \cup {None}]
    /\ source \in 0..MaxSource
    /\ calls \in [Caller -> Call \cup {None}]
    /\ \A c \in Caller : calls[c] # None =>
        /\ drafts[calls[c].rec] # <<>>
        /\ calls[c].at # "recording" => calls[c].rev \in 1..Len(drafts[calls[c].rec])
    /\ made \in 0..MaxCalls
    /\ command \in [Operation -> [rec : Recording, basis : Basis] \cup {None}]
    /\ receipt \in [Operation -> Recording \cup {None}]
    /\ others \in 0..MaxOther
    /\ told \subseteq [rec : Recording, rev : 1..MaxRevision, choice : Reading]
    /\ accepted \in [Recording -> 0..MaxRevision]
    /\ writes \in [Operation -> Nat]

Init ==
    /\ state = [r \in Recording |-> "none"]
    /\ frozen = [r \in Recording |-> 0]
    /\ drafts = [r \in Recording |-> <<>>]
    /\ flow = [r \in Recording |-> None]
    /\ bound = [m \in Material |-> None]
    /\ source = 0
    /\ calls = [c \in Caller |-> None]
    /\ made = 0
    /\ command = [o \in Operation |-> None]
    /\ receipt = [o \in Operation |-> None]
    /\ others = 0
    /\ told = {}
    /\ accepted = [r \in Recording |-> 0]
    /\ writes = [o \in Operation |-> 0]

-----------------------------------------------------------------------------
(* What a request looks at. *)

\* require_persisted_recording_source: what the recording was made of still holds.
Current(r) ==
    /\ frozen[r] = source
    /\ r \notin Target => state[Parent[r]] = "COMPLETED"

Recorded(b) == b # None /\ b \in Binding

\* BindingSourceInspector.reasons finds nothing against the resource bound now.
\* The revision bound has to be the last one and the file the one it was bound with.
ResourceUsable ==
    LET b == bound["resource"]
    IN  /\ Recorded(b)
        /\ state[b.rec] = "COMPLETED"
        /\ Current(b.rec)
        /\ Len(drafts[b.rec]) = b.rev
        /\ flow[b.rec] = b.flow

\* A supplement needs the resource of its own demonstration.
ParentBound(r) == ResourceUsable /\ bound["resource"].rec = Parent[r]

\* Mutated: the source is trusted as it was checked before the lock.
Builds_checked(r, rev) ==
    IF r \in Target THEN drafts[r][rev] # None ELSE ParentBound(r)

\* build_recording_bindings: whether material can be made of a revision now.
\* (What a supplement leaves open, there may be just one reading of.)
Builds(r, rev) ==
    /\ Current(r)
    /\ IF r \in Target THEN drafts[r][rev] # None ELSE ParentBound(r)

\* A demonstration provides execution and resource, which are never separated.
Slots(r) == IF r \in Target THEN {"execution", "resource"} ELSE {Slot[r]}

Bind(r, rev, used) ==
    [m \in Material |->
        IF m \in Slots(r) THEN [rec |-> r, rev |-> rev, flow |-> IF r \in Target THEN used ELSE None]
        ELSE bound[m]]

-----------------------------------------------------------------------------
(* A recording up to its review. *)

\* The source was fingerprinted, and the demonstration looked at, before the
\* recording was inserted; each may have changed meanwhile.
Submit(r) ==
    /\ state[r] = "none"
    /\ r \notin Target => accepted[Parent[r]] # 0
    /\ \E s \in 0..source : frozen' = [frozen EXCEPT ![r] = s]
    /\ state' = [state EXCEPT ![r] = "RECORDING"]
    /\ UNCHANGED <<drafts, flow, bound, source, calls, made, command, receipt, others,
                   told, accepted, writes>>

\* The first draft of what was captured.
FirstDraft(r, ch) == drafts' = [drafts EXCEPT ![r] = <<ch>>]

\* The end of the job with its result, the first draft with it.
Captured(r) ==
    /\ state[r] = "RECORDING"
    /\ \E ch \in Reading : FirstDraft(r, ch)
    /\ state' = [state EXCEPT ![r] = "PENDING_REVIEW"]
    /\ UNCHANGED <<frozen, flow, bound, source, calls, made, command, receipt, others,
                   told, accepted, writes>>

-----------------------------------------------------------------------------
(* Review, acceptance and discarding: each request reads the recording, then *)
(* its last draft, and only then writes.                                     *)

\* A review names the revision the user saw, or 0 where it names none.
Begin(c, op, r, seen) ==
    /\ calls[c] = None
    /\ made < MaxCalls
    /\ state[r] = "PENDING_REVIEW"
    /\ op = "refresh" => seen # 0
    /\ op \in {"finalize", "discard"} => seen = 0
    /\ calls' = [calls EXCEPT ![c] = [op |-> op, rec |-> r, seen |-> seen,
                                     at |-> "recording", rev |-> 0]]
    /\ made' = made + 1
    /\ UNCHANGED <<state, frozen, drafts, flow, bound, source, command, receipt, others,
                   told, accepted, writes>>

Working(c, ops, at) == calls[c] # None /\ calls[c].op \in ops /\ calls[c].at = at

Moves(c, at, rev) == calls' = [calls EXCEPT ![c] = [@ EXCEPT !.at = at, !.rev = rev]]

Answers(c) == calls' = [calls EXCEPT ![c] = None]

ReadDraft(c) ==
    /\ calls[c] # None
    /\ calls[c].at = "recording"
    /\ LET r == calls[c].rec
       IN  /\ calls[c].seen \in {0, Len(drafts[r])}
           /\ calls[c].op = "refresh" => Current(r)
           /\ Moves(c, "draft", Len(drafts[r]))
    /\ UNCHANGED <<state, frozen, drafts, flow, bound, source, made, command, receipt, others,
                   told, accepted, writes>>

\* Mutated: the row that is there is replaced.
Insert_replaces(r, rev, ch) ==
    drafts' = [drafts EXCEPT ![r] = Append(SubSeq(@, 1, rev), ch)]

\* The key of a revision admits one row.
Insert(r, rev, ch) ==
    /\ Len(drafts[r]) = rev
    /\ drafts' = [drafts EXCEPT ![r] = Append(@, ch)]

\* Recognising the resources anew keeps the choice or, where it is gone, drops it.
Review(c) ==
    /\ Working(c, {"review", "refresh"}, "draft")
    /\ LET r == calls[c].rec
           rev == calls[c].rev
       IN  /\ rev < MaxRevision
           /\ \E ch \in IF calls[c].op = "review" THEN Reading ELSE {drafts[r][rev], None} :
                /\ Insert(r, rev, ch)
                /\ told' = told \cup {[rec |-> r, rev |-> rev + 1, choice |-> ch]}
    /\ Answers(c)
    /\ UNCHANGED <<state, frozen, flow, bound, source, made, command, receipt, others,
                   accepted, writes>>

\* Mutated: the file can wait until the recording is complete.
Publication_later(r, choice) == {"accepting"}

\* Whether the flow is still to be published; a file that differs is refused.
Publication(r, choice) ==
    CASE r \notin Target -> {"accepting"}
      [] r \in Target /\ flow[r] = None -> {"writing"}
      [] r \in Target /\ flow[r] # None -> IF flow[r] = choice THEN {"accepting"} ELSE {}

\* The source is checked and the draft compiled, before anything is locked.
Compile(c) ==
    /\ Working(c, {"finalize"}, "draft")
    /\ LET r == calls[c].rec
           choice == drafts[r][calls[c].rev]
       IN  /\ Current(r)
           /\ r \in Target => choice # None
           /\ \E at \in Publication(r, choice) : Moves(c, at, calls[c].rev)
    /\ UNCHANGED <<state, frozen, drafts, flow, bound, source, made, command, receipt, others,
                   told, accepted, writes>>

\* os.replace of the finished file.
Publish(c) ==
    /\ Working(c, {"finalize"}, "writing")
    /\ flow' = [flow EXCEPT ![calls[c].rec] = drafts[calls[c].rec][calls[c].rev]]
    /\ Moves(c, "accepting", calls[c].rev)
    /\ UNCHANGED <<state, frozen, drafts, bound, source, made, command, receipt, others,
                   told, accepted, writes>>

\* What an accepted recording is bound to: a candidate to nothing yet.
Adopted(r, rev) ==
    IF r \in Candidate THEN bound ELSE Bind(r, rev, drafts[r][rev])

\* The row is replaced, which takes the lock; then the material is built of what holds now.
Accept(c) ==
    /\ Working(c, {"finalize"}, "accepting")
    /\ LET r == calls[c].rec
           rev == calls[c].rev
       IN  /\ Builds(r, rev)
           /\ state' = [state EXCEPT ![r] = "COMPLETED"]
           /\ accepted' = [accepted EXCEPT ![r] = rev]
           /\ bound' = Adopted(r, rev)
    /\ Answers(c)
    /\ UNCHANGED <<frozen, drafts, flow, source, made, command, receipt, others, told, writes>>

\* The row is replaced by what was read, changed to CANCELLED.
Discard(c) ==
    /\ Working(c, {"discard"}, "draft")
    /\ state' = [state EXCEPT ![calls[c].rec] = "CANCELLED"]
    /\ Answers(c)
    /\ UNCHANGED <<frozen, drafts, flow, bound, source, made, command, receipt, others,
                   told, accepted, writes>>

\* A refusal, a lock not obtained, the end of the process: nothing is written.
Fails(c) ==
    /\ calls[c] # None
    /\ Answers(c)
    /\ UNCHANGED <<state, frozen, drafts, flow, bound, source, made, command, receipt, others,
                   told, accepted, writes>>

-----------------------------------------------------------------------------
(* Confirmed replacement of material. *)

Shown == [source |-> source, bound |-> bound]

\* What a completed recording offers: its last draft and the file as it is.
Offered(r) == state[r] = "COMPLETED" /\ Builds(r, Len(drafts[r]))

Preview(o, r) ==
    /\ command[o] = None
    /\ Offered(r)
    /\ command' = [command EXCEPT ![o] = [rec |-> r, basis |-> Shown]]
    /\ UNCHANGED <<state, frozen, drafts, flow, bound, source, calls, made, receipt, others,
                   told, accepted, writes>>

\* An operation that has its receipt is answered with it.
Fresh(o) == receipt[o] = None

\* Under the lock from its first statement; a request may come again at any time.
Apply(o) ==
    /\ command[o] # None
    /\ Fresh(o)
    /\ command[o].basis = Shown
    /\ LET r == command[o].rec
       IN  /\ Offered(r)
           /\ bound' = Bind(r, Len(drafts[r]), flow[r])
           /\ receipt' = [receipt EXCEPT ![o] = r]
    /\ writes' = [writes EXCEPT ![o] = @ + 1]
    /\ UNCHANGED <<state, frozen, drafts, flow, source, calls, made, command, others,
                   told, accepted>>

\* A saved flow brings execution, resource and what it proves or restores with;
\* a proof source is evidence alone.
AdoptedTogether == {{"execution", "resource"} \cup more : more \in SUBSET (Material \ {"execution", "resource"})}
                   \cup ({Material \cap {"evidence"}} \ {{}})

AdoptElsewhere ==
    /\ others < MaxOther
    /\ others' = others + 1
    /\ \E slots \in AdoptedTogether :
        bound' = [m \in Material |-> IF m \in slots THEN [adopted |-> others'] ELSE bound[m]]
    /\ UNCHANGED <<state, frozen, drafts, flow, source, calls, made, command, receipt,
                   told, accepted, writes>>

\* The code, the endpoint, an account or a rule of the application changes.
ChangeSource ==
    /\ source < MaxSource
    /\ source' = source + 1
    /\ UNCHANGED <<state, frozen, drafts, flow, bound, calls, made, command, receipt, others,
                   told, accepted, writes>>

-----------------------------------------------------------------------------
Next ==
    \/ \E r \in Recording : Submit(r) \/ Captured(r)
    \/ \E c \in Caller :
        \/ \E op \in {"review", "refresh", "finalize", "discard"}, r \in Recording :
            \E seen \in {0, Len(drafts[r])} : Begin(c, op, r, seen)
        \/ ReadDraft(c) \/ Review(c) \/ Compile(c) \/ Publish(c) \/ Accept(c)
        \/ Discard(c) \/ Fails(c)
    \/ \E o \in Operation : Apply(o) \/ \E r \in Recording : Preview(o, r)
    \/ AdoptElsewhere \/ ChangeSource

Spec == Init /\ [][Next]_vars

-----------------------------------------------------------------------------
(* What holds. *)

\* A reviewer who was told that a revision is saved finds it saved as it was,
\* whoever else reviewed the same draft meanwhile (RecordingLifecycle.review).
KeptReviews ==
    \A t \in told :
        /\ t.rev \in DOMAIN drafts[t.rec]
        /\ drafts[t.rec][t.rev] = t.choice

\* A demonstration is only complete when its flow is published
\* (RecordingLifecycle.finalize), whatever is refused or ends in between.
PublishedFirst ==
    \A r \in Target : state[r] = "COMPLETED" => flow[r] # None

\* A recording only becomes material while the source it was made of is the
\* current one and, for a supplement, while the resource bound is that of its
\* demonstration (build_recording_bindings), however long ago a request or the
\* user looked.
BindsCurrent ==
    \A m \in Material :
        bound'[m] # bound[m] /\ Recorded(bound'[m]) =>
            LET r == bound'[m].rec
            IN  /\ frozen[r] = source
                /\ r \notin Target => Recorded(bound["resource"]) /\ bound["resource"].rec = Parent[r]

BoundWhenCurrent == [][BindsCurrent]_vars

\* A recording made as a candidate is only material after a confirmed
\* replacement (RecordingLifecycle.finalize, MaterialService.apply).
CandidatesNeedApproval ==
    \A m \in Material :
        Recorded(bound[m]) /\ bound[m].rec \in Candidate =>
            \E o \in Operation : receipt[o] = bound[m].rec

\* A confirmed replacement writes material at most once, however often its
\* request arrives, and even when the material is again what the user saw
\* (MaterialService._apply_once).
AppliedOnce == \A o \in Operation : writes[o] <= 1

-----------------------------------------------------------------------------
(* What documents or comments say, and the code does not keep. *)

\* A completed recording stays completed: discarding refuses it.
CompletedStays ==
    [][\A r \in Recording : state[r] = "COMPLETED" => state'[r] = "COMPLETED"]_vars

\* Accepting a recording again does not take the place of newer material.
NewerBindingsKept ==
    [][\A r \in Recording, m \in Material :
        accepted[r] # 0 /\ receipt' = receipt /\ bound'[m] # bound[m] /\ Recorded(bound'[m])
            => bound'[m].rec # r]_vars

\* A published flow does not change.
FlowImmutable ==
    [][\A r \in Recording : flow[r] # None => flow'[r] = flow[r]]_vars

\* It is the last draft that is accepted.
AcceptedIsLatest ==
    \A r \in Recording : state[r] = "COMPLETED" => accepted[r] = Len(drafts[r])
=============================================================================
