------------------------------ MODULE RangeEdit ------------------------------
(***************************************************************************)
(* The transaction coordinator of a range-backed text input                *)
(* (src/src/range_edit/): one ordinary edit at a time is begun against an  *)
(* exact binding and revision, optionally replayed once as evidence,       *)
(* streamed in pages on two lanes, frozen by an explicit finish, admitted  *)
(* for commit and settled exactly once by the host.                        *)
(*                                                                         *)
(* A page is its lane and its payload.  The chain of payloads accepted on  *)
(* a lane stands for that lane's cursor, ordinal, last receipt and         *)
(* cumulative identity (digests are taken to be injective).  A call that   *)
(* returns an error and changes nothing is a stuttering step.              *)
(***************************************************************************)
EXTENDS Naturals, Sequences

CONSTANTS
  BindingIds,      \* identities of host bindings
  Revisions,       \* source revisions
  Extents,         \* logical extents the host binds
  MaxOperation,    \* operation identities are 1..MaxOperation
  Replacements,    \* the part of a proposal that a begin request fixes
  Payloads,        \* what one page may carry
  Producers,       \* identities of replayable producers
  Intents,         \* successor positions a finish may declare
  MaxU64,          \* the largest value of a u64
  MaxPages,        \* BOUND: pages accepted on each lane in one pass
  MaxRequests,     \* BOUND: evidence submissions of one transaction
  MaxTransactions, \* BOUND: transactions begun
  MaxEpoch,        \* BOUND: rebinds to another binding or revision (commits are not counted)
  None             \* absence of an optional value

Lanes == {"Source", "Proposal"}
Operations == 1..MaxOperation
Keys == [id : BindingIds, rev : Revisions, op : Operations]
Outcomes == {"Committed", "Rejected", "Conflict", "Cancelled", "Error"}

\* LogicalExtent
ExtentSpace == [bytes : Nat, lines : Nat]
Bindings == [id : BindingIds, rev : Revisions, extent : Extents]

\* MutationProposal: the replaced range, its declared line breaks, the kind.
ReplacementSpace == [start : Nat, len : Nat, breaks : Nat, kind : {"Edit", "Undo", "Redo"}]

\* The changes of one page: inserted text at its declared offset, its line
\* breaks, whether it changes atoms or adds objects, the last successor object
\* anchor and the object it targets (0 for neither), what it does to the
\* target, and its contribution to the declared size totals.
PayloadSpace ==
  [off : Nat, ins : Nat, brk : Nat, other : BOOLEAN, anchor : Nat, target : Nat,
   effect : {"None", "Removed", "Replaced"}, weight : Nat]

\* MutationPositionsIntent
IntentSpace == [type : {"Exact", "ReplacementEnd"}, at : Nat]

\* MutationFinishInput
FinishSpace == [lanes : [Lanes -> Seq(Payloads)], extent : ExtentSpace, intent : Intents]

ASSUME BoundsAssumption ==
  /\ MaxOperation \in Nat /\ MaxU64 \in Nat /\ MaxRequests \in Nat
  /\ MaxTransactions \in Nat /\ MaxEpoch \in Nat
  /\ MaxPages \in [Lanes -> Nat]

ASSUME SpacesAssumption ==
  /\ Extents \subseteq ExtentSpace
  /\ Replacements \subseteq ReplacementSpace
  /\ Payloads \subseteq PayloadSpace
  /\ Intents \subseteq IntentSpace

ASSUME NoneAssumption ==
  /\ None \notin Nat /\ None \notin Outcomes /\ None \notin Producers
  /\ None \notin Keys /\ None \notin ExtentSpace /\ None \notin IntentSpace
  /\ None \notin FinishSpace

VARIABLES
  binding,       \* RangeEditCoordinator::binding
  active,        \* RangeEditCoordinator::active, Inactive for Option::None
  lastTerminal,  \* last_terminal
  highWater,     \* operation_high_water, 0 when absent
  released,      \* released.transactions
  epoch,         \* history: adoptions of another (id, rev)
  history        \* history and host: one entry per transaction begun

vars == <<binding, active, lastTerminal, highWater, released, epoch, history>>

-----------------------------------------------------------------------------
(* The active transaction.                                                 *)

\* MutationState; "Free" is an absent transaction.
States == {"Free", "PreflightPending", "InputStreaming", "FinishPending", "CommitPending"}

\* EvidencePhase; "NotRequested" is absent evidence.
Phases == {"NotRequested", "Unavailable", "Streaming", "Complete", "RestartPending", "Staging"}

\* LaneState::new and MutationSequenceState::default
EmptyLanes == [lane \in Lanes |-> <<>>]
EmptyTotals == [lane \in Lanes |-> 0]
EmptySequence == [inserted |-> 0, breaks |-> 0, other |-> FALSE, anchor |-> 0, target |-> 0]

SequenceSpace == [inserted : Nat, breaks : Nat, other : BOOLEAN, anchor : Nat, target : Nat]

ActiveSpace ==
  [state : States, key : Keys \cup {None}, rep : Replacements \cup {None},
   extent : ExtentSpace \cup {None}, producer : Producers \cup {None},
   lanes : [Lanes -> Seq(Payloads)], totals : [Lanes -> Nat], sequence : SequenceSpace,
   tracked : Nat, effect : {"None", "Removed", "Replaced"},
   intended : Intents \cup {None}, intendedExtent : ExtentSpace \cup {None},
   detached : BOOLEAN, phase : Phases, closure : FinishSpace \cup {None},
   outstanding : Nat \cup {None}, nextRequest : Nat]

Inactive ==
  [state |-> "Free", key |-> None, rep |-> None, extent |-> None, producer |-> None,
   lanes |-> EmptyLanes, totals |-> EmptyTotals, sequence |-> EmptySequence,
   tracked |-> 0, effect |-> "None", intended |-> None, intendedExtent |-> None,
   detached |-> FALSE, phase |-> "NotRequested", closure |-> None,
   outstanding |-> None, nextRequest |-> 0]

Fresh(key, rep, producer) ==
  [Inactive EXCEPT !.state = "PreflightPending", !.key = key, !.rep = rep,
                   !.extent = binding.extent, !.producer = producer]

\* validate_base_extent
WellFormedExtent(e) ==
  \/ e.bytes = 0 /\ e.lines = 0
  \/ e.bytes > 0 /\ e.lines > 0 /\ e.lines - 1 <= e.bytes

Breaks(e) == IF e.bytes = 0 THEN e.lines ELSE e.lines - 1

\* validate_replacement_line_breaks, after the replaced range was found in the extent
WellFormedReplacement(rep, e) ==
  /\ rep.start + rep.len <= e.bytes
  /\ rep.breaks <= rep.len
  /\ rep.breaks <= Breaks(e)
  /\ rep.start = 0 /\ rep.len = e.bytes => rep.breaks = Breaks(e)

\* expected_successor_bytes and the breaks of expected_successor_extent
ExpectedBytes(a) == (a.extent.bytes - a.rep.len) + a.sequence.inserted
ExpectedBreaks(a) == (Breaks(a.extent) - a.rep.breaks) + a.sequence.breaks

\* expected_successor_extent does not answer IncoherentSuccessor.
Coherent(a) ==
  /\ ExpectedBytes(a) <= MaxU64
  /\ IF ExpectedBytes(a) = 0 THEN ExpectedBreaks(a) = 0 ELSE ExpectedBreaks(a) < MaxU64

ExpectedExtent(a) ==
  [bytes |-> ExpectedBytes(a),
   lines |-> IF ExpectedBytes(a) = 0 THEN 0 ELSE ExpectedBreaks(a) + 1]

\* validate_intended
ValidIntent(a, extent, intent) ==
  /\ intent.at <= extent.bytes
  /\ intent.type = "ReplacementEnd" =>
       /\ intent.at = a.rep.start + a.sequence.inserted
       /\ ~a.sequence.other
       /\ a.rep.kind = "Edit"
  /\ a.sequence.anchor <= extent.bytes

\* validate_proposal_page: what a page needs of the pages before it.
Continues(seq, p) ==
  /\ p.ins > 0 => p.off = seq.inserted
  /\ seq.inserted + p.ins <= MaxU64
  /\ p.anchor > 0 => p.anchor > seq.anchor
  /\ p.target > 0 => p.target > seq.target

Extend(seq, p) ==
  [inserted |-> seq.inserted + p.ins,
   breaks   |-> seq.breaks + p.brk,
   other    |-> seq.other \/ p.other,
   anchor   |-> IF p.anchor > 0 THEN p.anchor ELSE seq.anchor,
   target   |-> IF p.target > 0 THEN p.target ELSE seq.target]

\* The effect of a proposal page on the object tracked since the preflight.
EffectOn(a, p) ==
  IF p.target > 0 /\ p.target = a.tracked /\ p.effect # "None" THEN p.effect ELSE a.effect

\* The finish that declares the lanes as they stand.
FinishOf(a, intent) == [lanes |-> a.lanes, extent |-> ExpectedExtent(a), intent |-> intent]

\* finish_input_in_state: the declared closure is the streamed one and is coherent.
FinishAdmissible(a, finish) ==
  /\ Coherent(a)
  /\ finish = FinishOf(a, finish.intent)
  /\ ValidIntent(a, finish.extent, finish.intent)

Freeze(a, finish) ==
  [a EXCEPT !.intended = finish.intent, !.intendedExtent = finish.extent]

-----------------------------------------------------------------------------
(* History and host.  Entry i of history is the i-th transaction begun: its  *)
(* key, the epoch it began in, whether its commit was admitted, what the     *)
(* host decided about it and the terminal outcome that was recorded for it.  *)

EntrySpace ==
  [key : Keys, epoch : Nat, admitted : BOOLEAN, host : Outcomes \cup {None},
   outcome : Outcomes \cup {None}]

Entry(key) ==
  [key |-> key, epoch |-> epoch, admitted |-> FALSE, host |-> None, outcome |-> None]

Last == Len(history)

\* RangeEditCoordinator::finish, and the same steps inlined in rebind and
\* dispose: the active transaction is taken, released and recorded.
Take(outcome) ==
  /\ active' = Inactive
  /\ lastTerminal' = active.key
  /\ released' = released + 1
  /\ history' = [history EXCEPT ![Last].outcome = outcome]

\* A transaction that ends without a successor.
FinishUnchanged(outcome) ==
  /\ Take(outcome)
  /\ UNCHANGED <<binding, highWater, epoch>>

\* Every call that names a transaction goes through active_for_key.
Named(key, state) == active.state = state /\ active.key = key

Update(a) ==
  /\ active' = a
  /\ UNCHANGED <<binding, lastTerminal, highWater, released, epoch, history>>

-----------------------------------------------------------------------------
(* begin and preflight.                                                    *)

\* Environment: the host's lease of an operation identity (types.rs,
\* HostOperationLease) is not begun under two bindings.
Leased(op) == \A i \in 1..Last : history[i].key.op = op => history[i].epoch = epoch

Begin(op, rep, producer) ==
  LET key == [id |-> binding.id, rev |-> binding.rev, op |-> op]
  IN /\ active.state = "Free"
     /\ Last < MaxTransactions
     /\ Leased(op)
     /\ op > highWater
     /\ WellFormedExtent(binding.extent)
     /\ WellFormedReplacement(rep, binding.extent)
     /\ active' = Fresh(key, rep, producer)
     /\ highWater' = op
     /\ history' = Append(history, Entry(key))
     /\ UNCHANGED <<binding, lastTerminal, released, epoch>>

\* request_evidence: without a producer the call fails but leaves evidence
\* required and unavailable.
RequestEvidence(key) ==
  /\ Named(key, "PreflightPending")
  /\ active.phase = "NotRequested"
  /\ Update([active EXCEPT !.phase = IF active.producer = None THEN "Unavailable" ELSE "Streaming"])

\* Fault: preflight forgets that requested evidence must be complete.
AcceptPreflightEarly(key, tracked) ==
  /\ Named(key, "PreflightPending")
  /\ Update([active EXCEPT !.state = "InputStreaming", !.tracked = tracked,
                           !.phase = IF @ = "Complete" THEN "RestartPending" ELSE @])

AcceptPreflight(key, tracked) ==
  /\ Named(key, "PreflightPending")
  /\ active.phase \in {"NotRequested", "Complete"}
  /\ Update([active EXCEPT !.state = "InputStreaming", !.tracked = tracked,
                           !.phase = IF @ = "Complete" THEN "RestartPending" ELSE @])

RejectPreflight(key) ==
  /\ Named(key, "PreflightPending")
  /\ FinishUnchanged("Rejected")

RejectInput(key) ==
  /\ \E s \in {"InputStreaming", "FinishPending"} : Named(key, s)
  /\ FinishUnchanged("Rejected")

-----------------------------------------------------------------------------
(* Pages.                                                                  *)

\* accept_page_validated: the next page of a lane.
Acceptable(a, lane, p) ==
  /\ Len(a.lanes[lane]) < MaxPages[lane]
  /\ lane = "Proposal" => Continues(a.sequence, p)
  /\ a.totals[lane] + p.weight <= MaxU64

Accepted(a, lane, p) ==
  [a EXCEPT !.lanes[lane] = Append(@, p),
            !.totals[lane] = @ + p.weight,
            !.sequence = IF lane = "Proposal" THEN Extend(@, p) ELSE @,
            !.effect = IF lane = "Proposal" THEN EffectOn(a, p) ELSE @]

\* The ordinal of the lane's last page, with the same bytes or with others.
Occupied(a, lane) == Len(a.lanes[lane]) > 0
Newest(a, lane) == a.lanes[lane][Len(a.lanes[lane])]
Replays(a, lane, p) == Occupied(a, lane) /\ p = Newest(a, lane)
Collides(a, lane, p) == Occupied(a, lane) /\ p # Newest(a, lane)

\* accept_page without evidence, accept_pass_page in the staging pass
StagingOpen(key) == Named(key, "InputStreaming") /\ active.phase \in {"NotRequested", "Staging"}

\* Fault: the post-finish check is missing.
AcceptPageAfterFinish(key, lane, p) ==
  /\ StagingOpen(key) \/ Named(key, "FinishPending")
  /\ Acceptable(active, lane, p)
  /\ Update(Accepted(active, lane, p))

AcceptPage(key, lane, p) ==
  /\ StagingOpen(key)
  /\ Acceptable(active, lane, p)
  /\ Update(Accepted(active, lane, p))

\* submit_evidence_page: one page awaits its acknowledgement at a time.
EvidenceOpen(key) ==
  /\ Named(key, "PreflightPending")
  /\ active.phase = "Streaming"
  /\ active.outstanding = None

AwaitAcknowledgement(a) == [a EXCEPT !.outstanding = a.nextRequest, !.nextRequest = @ + 1]

SubmitEvidencePage(key, lane, p) ==
  /\ EvidenceOpen(key)
  /\ active.nextRequest < MaxRequests
  /\ \/ Acceptable(active, lane, p) /\ Update(AwaitAcknowledgement(Accepted(active, lane, p)))
     \/ Replays(active, lane, p) /\ Update(AwaitAcknowledgement(active))

AcknowledgeEvidencePage(key, request) ==
  /\ Named(key, "PreflightPending")
  /\ active.phase = "Streaming"
  /\ active.outstanding = request
  /\ Update([active EXCEPT !.outstanding = None])

\* accept_page_in_state: an occupied ordinal with other bytes ends the transaction.
CollidingPage(key, lane, p) ==
  /\ StagingOpen(key) \/ (EvidenceOpen(key) /\ active.nextRequest < MaxRequests)
  /\ Collides(active, lane, p)
  /\ FinishUnchanged("Error")

-----------------------------------------------------------------------------
(* Finish, restart, admission.                                             *)

FinishEvidence(key, finish) ==
  /\ EvidenceOpen(key)
  /\ FinishAdmissible(active, finish)
  /\ Update([Freeze(active, finish) EXCEPT !.closure = finish, !.phase = "Complete"])

\* Fault: the restart empties the lanes and keeps what was derived from them.
RestartLanesOnly(key) ==
  /\ Named(key, "InputStreaming")
  /\ active.phase = "RestartPending"
  /\ Update([active EXCEPT !.lanes = EmptyLanes, !.totals = EmptyTotals,
                           !.intended = None, !.intendedExtent = None, !.phase = "Staging"])

AcknowledgeRestart(key) ==
  /\ Named(key, "InputStreaming")
  /\ active.phase = "RestartPending"
  /\ Update([active EXCEPT !.lanes = EmptyLanes, !.totals = EmptyTotals,
                           !.sequence = EmptySequence, !.effect = "None",
                           !.intended = None, !.intendedExtent = None, !.phase = "Staging"])

\* finish_input, which refuses a transaction with evidence
FinishInput(key, finish) ==
  /\ Named(key, "InputStreaming")
  /\ active.phase = "NotRequested"
  /\ FinishAdmissible(active, finish)
  /\ Update([Freeze(active, finish) EXCEPT !.state = "FinishPending"])

\* finish_pass_input: staging reproduces the frozen closure or is rejected.
FinishPassInput(key, finish) ==
  /\ Named(key, "InputStreaming")
  /\ active.phase = "Staging"
  /\ IF finish = active.closure /\ FinishAdmissible(active, finish)
     THEN Update([Freeze(active, finish) EXCEPT !.state = "FinishPending"])
     ELSE FinishUnchanged("Rejected")

\* The finishes a producer may declare: what it streamed, or what it once froze.
Declarable ==
  IF active.state = "Free" THEN {}
  ELSE {FinishOf(active, intent) : intent \in Intents} \cup ({active.closure} \ {None})

AdmitCommit(key) ==
  /\ Named(key, "FinishPending")
  /\ active.intended # None /\ active.intendedExtent # None
  /\ ValidIntent(active, active.intendedExtent, active.intended)
  /\ active' = [active EXCEPT !.state = "CommitPending"]
  /\ history' = [history EXCEPT ![Last].admitted = TRUE]
  /\ UNCHANGED <<binding, lastTerminal, highWater, released, epoch>>

-----------------------------------------------------------------------------
(* Settlement and lifecycle.                                               *)

\* Host: it decides an admitted commit once and applies all of it or nothing.
HostDecide(i, outcome) ==
  /\ history[i].admitted
  /\ history[i].host = None
  /\ history' = [history EXCEPT ![i].host = outcome]
  /\ UNCHANGED <<binding, active, lastTerminal, highWater, released, epoch>>

\* Fault: the settlement of a detached transaction is taken for a live one.
SettleIgnoringDetached(key, rev) ==
  /\ Named(key, "CommitPending")
  /\ rev # key.rev
  /\ Take("Committed")
  /\ binding' = [id |-> key.id, rev |-> rev, extent |-> ExpectedExtent(active)]
  /\ epoch' = epoch + 1
  /\ highWater' = 0

\* settle and validate_commit: the successor is another revision of the same
\* binding with the extent the frozen stream adds up to.  Its positions and
\* their proofs are the host's; a wrong one is an error that changes nothing.
SettleCommitted(key, rev) ==
  /\ Named(key, "CommitPending")
  /\ rev # key.rev
  /\ Take("Committed")
  /\ IF active.detached
     THEN UNCHANGED <<binding, highWater, epoch>>
     ELSE /\ binding' = [id |-> key.id, rev |-> rev, extent |-> ExpectedExtent(active)]
          /\ epoch' = epoch + 1
          /\ highWater' = 0

\* Fault: a late answer about a detached transaction is refused.
SettleAttachedOnly(key, outcome) ==
  /\ Named(key, "CommitPending")
  /\ ~active.detached
  /\ FinishUnchanged(outcome)

SettleUnchanged(key, outcome) ==
  /\ Named(key, "CommitPending")
  /\ FinishUnchanged(outcome)

\* The host delivers its decision about entry i, late or more than once.
Settle(i) ==
  /\ history[i].host # None
  /\ IF history[i].host = "Committed"
     THEN \E rev \in Revisions : SettleCommitted(history[i].key, rev)
     ELSE SettleUnchanged(history[i].key, history[i].host)

\* Fault: an admitted commit can still be cancelled.
CancelAdmitted(key) ==
  /\ active.state # "Free" /\ active.key = key
  /\ FinishUnchanged("Cancelled")

\* cancel: an admitted commit awaits its settlement, nothing changes.
Cancel(key) ==
  /\ \E s \in {"PreflightPending", "InputStreaming", "FinishPending"} : Named(key, s)
  /\ FinishUnchanged("Cancelled")

\* What rebind and dispose do to the active transaction.
Detach == active' = [active EXCEPT !.detached = TRUE]

\* Fault: the transaction is dropped without its release.
RetireUnreleased ==
  \/ active.state = "Free" /\ UNCHANGED <<active, lastTerminal, released, history>>
  \/ active.state = "CommitPending" /\ Detach /\ UNCHANGED <<lastTerminal, released, history>>
  \/ /\ active.state \notin {"Free", "CommitPending"}
     /\ active' = Inactive /\ lastTerminal' = active.key
     /\ UNCHANGED released
     /\ history' = [history EXCEPT ![Last].outcome = "Cancelled"]

Retire ==
  \/ active.state = "Free" /\ UNCHANGED <<active, lastTerminal, released, history>>
  \/ active.state = "CommitPending" /\ Detach /\ UNCHANGED <<lastTerminal, released, history>>
  \/ active.state \notin {"Free", "CommitPending"} /\ Take("Cancelled")

\* Fault: every rebind forgets which operations were begun.
RebindForgetting(b) ==
  /\ epoch < MaxEpoch
  /\ Retire
  /\ binding' = b
  /\ epoch' = IF b.id # binding.id \/ b.rev # binding.rev THEN epoch + 1 ELSE epoch
  /\ highWater' = 0

Rebind(b) ==
  /\ Retire
  /\ binding' = b
  /\ IF b.id # binding.id \/ b.rev # binding.rev
     THEN epoch < MaxEpoch /\ epoch' = epoch + 1 /\ highWater' = 0
     ELSE UNCHANGED <<highWater, epoch>>

Dispose ==
  /\ active.state # "Free"
  /\ Retire
  /\ UNCHANGED <<binding, highWater, epoch>>

-----------------------------------------------------------------------------
Init ==
  /\ binding \in Bindings
  /\ active = Inactive
  /\ lastTerminal = None
  /\ highWater = 0
  /\ released = 0
  /\ epoch = 0
  /\ history = <<>>

BeganKeys == {history[i].key : i \in 1..Last}
Tracked == {0} \cup {p.target : p \in Payloads}

Transact(key) ==
  \/ RequestEvidence(key)
  \/ \E tracked \in Tracked : AcceptPreflight(key, tracked)
  \/ RejectPreflight(key)
  \/ RejectInput(key)
  \/ \E lane \in Lanes, p \in Payloads : AcceptPage(key, lane, p)
  \/ \E lane \in Lanes, p \in Payloads : SubmitEvidencePage(key, lane, p)
  \/ \E lane \in Lanes, p \in Payloads : CollidingPage(key, lane, p)
  \/ \E request \in 0..MaxRequests : AcknowledgeEvidencePage(key, request)
  \/ \E finish \in Declarable : FinishEvidence(key, finish)
  \/ \E finish \in Declarable : FinishInput(key, finish)
  \/ \E finish \in Declarable : FinishPassInput(key, finish)
  \/ AcknowledgeRestart(key)
  \/ AdmitCommit(key)
  \/ Cancel(key)

Next ==
  \/ \E op \in Operations, rep \in Replacements, producer \in Producers \cup {None} :
       Begin(op, rep, producer)
  \/ \E key \in BeganKeys : Transact(key)
  \/ \E i \in 1..Last, outcome \in Outcomes : HostDecide(i, outcome)
  \/ \E i \in 1..Last : Settle(i)
  \/ \E b \in Bindings : Rebind(b)
  \/ Dispose

Spec == Init /\ [][Next]_vars

\* The host owes every admitted commit exactly one settlement: it decides, and
\* it delivers what it decided.  Nothing else is fair: a producer may stall.
HostFairness ==
  \A i \in 1..MaxTransactions :
    /\ WF_vars(i <= Last /\ \E outcome \in Outcomes : HostDecide(i, outcome))
    /\ WF_vars(i <= Last /\ Settle(i))

FairSpec == Spec /\ HostFairness

-----------------------------------------------------------------------------
(* Properties.                                                             *)

\* The state of the coordinator (range_edit.rs, RangeEditCoordinator) and of
\* the history has its type.
TypeOK ==
  /\ binding \in [id : BindingIds, rev : Revisions, extent : ExtentSpace]
  /\ active \in ActiveSpace
  /\ lastTerminal \in Keys \cup {None}
  /\ highWater \in Nat
  /\ released \in Nat
  /\ epoch \in Nat
  /\ history \in Seq(EntrySpace)

\* The coordinator and the host agree about every transaction: once a commit is
\* admitted the terminal outcome is the one the host decided, whatever cancel,
\* rebind or dispose came in between, and a transaction that was never admitted
\* never ends as committed (settlement.rs settle, lifecycle.rs).
Agreement ==
  \A i \in 1..Last :
    history[i].outcome # None =>
      IF history[i].admitted THEN history[i].outcome = history[i].host
                             ELSE history[i].outcome # "Committed"

\* Every transaction that was begun ends exactly once: only the newest can be
\* open, it is open exactly while it is the active one, and the release counter
\* has counted every other one once (coordinator.rs finish, lifecycle.rs).
TerminalOnce ==
  /\ \A i \in 1..Last :
       history[i].outcome = None <=> i = Last /\ active.state # "Free"
  /\ released = IF active.state = "Free" THEN Last ELSE Last - 1

\* An identity that ended never names the active transaction again, however the
\* source was rebound in between, so a late message about the old transaction
\* cannot reach a new one (preflight.rs begin, operation_high_water).
RetiredKeysStayRetired ==
  active.state # "Free" =>
    /\ active.key = history[Last].key
    /\ \A i \in 1..(Last - 1) : history[i].key # active.key

\* Requested evidence is never bypassed: a transaction past its preflight whose
\* host asked for evidence has a frozen closure, and what it presents for commit
\* is that closure, page for page (evidence.rs).
EvidenceReproduced ==
  \A a \in {active} :
    /\ a.phase \in {"Complete", "RestartPending", "Staging"} <=> a.closure # None
    /\ a.state \in {"InputStreaming", "FinishPending", "CommitPending"} =>
         a.phase \in {"NotRequested", "RestartPending", "Staging"}
    /\ a.state \in {"FinishPending", "CommitPending"} /\ a.phase # "NotRequested" =>
         /\ a.phase = "Staging"
         /\ a.closure = [lanes |-> a.lanes, extent |-> a.intendedExtent, intent |-> a.intended]

\* No evidence page is unacknowledged once the closure is frozen, and the
\* outstanding request is always the newest (evidence.rs finish_evidence).
AcknowledgedBeforeFreeze ==
  active.outstanding # None =>
    /\ active.phase = "Streaming"
    /\ active.outstanding + 1 = active.nextRequest

\* What is frozen at the end of the evidence pass was acknowledged, and is what the
\* staging pass reproduces.
EvidenceStands == AcknowledgedBeforeFreeze /\ EvidenceReproduced

\* A field of the pages of a chain, added up.
Added(chain, field) ==
  LET sum[n \in 0..Len(chain)] == IF n = 0 THEN 0 ELSE sum[n - 1] + chain[n][field]
  IN  sum[Len(chain)]

\* What the coordinator keeps instead of the pages is what the pages of the
\* current pass add up to, and the inserted text has neither gap nor overlap,
\* in the second pass as in the first (staging.rs accept_page_validated,
\* evidence.rs acknowledge_restart).
LaneAccounting ==
  LET proposal == active.lanes["Proposal"]
  IN /\ \A lane \in Lanes : active.totals[lane] = Added(active.lanes[lane], "weight")
     /\ active.sequence.inserted = Added(proposal, "ins")
     /\ active.sequence.breaks = Added(proposal, "brk")
     /\ \A i \in 1..Len(proposal) :
          proposal[i].ins > 0 => proposal[i].off = Added(SubSeq(proposal, 1, i - 1), "ins")

\* The effect reported for the active object is the one the staged pages have on
\* the object the preflight named, and on no other (staging.rs
\* validate_object_change, preflight.rs accept_preflight).
ActiveObjectEffect ==
  LET hits == {i \in 1..Len(active.lanes["Proposal"]) :
                 /\ active.lanes["Proposal"][i].target = active.tracked
                 /\ active.lanes["Proposal"][i].effect # "None"}
  IN active.state # "Free" /\ active.phase \in {"NotRequested", "Staging"} =>
       IF active.tracked = 0 \/ hits = {} THEN active.effect = "None"
       ELSE \A i \in hits : active.effect = active.lanes["Proposal"][i].effect

\* What is kept beside the pages is derived again in every pass.
DerivedFromPages == LaneAccounting /\ ActiveObjectEffect

\* Once input is finished the stream, the closure and the intent stay as they
\* were until the transaction ends: what the host commits is what was finished
\* (staging.rs PostFinishInput, admit_commit).
FinishFreezes ==
  [][active.state \in {"FinishPending", "CommitPending"} /\ active'.state # "Free" =>
       /\ active'.lanes = active.lanes
       /\ active'.intended = active.intended
       /\ active'.intendedExtent = ExpectedExtent(active)]_vars

\* Every admitted commit is settled, detached or not, as long as the host keeps
\* its promise to decide and answer (design.md, host settlement).
AdmittedSettles ==
  \A i \in 1..MaxTransactions :
    (i <= Last /\ history[i].admitted) ~> (i <= Last /\ history[i].outcome # None)

-----------------------------------------------------------------------------
(* What the coordinator promises: it implements EditTransaction.           *)

Abstract ==
  INSTANCE EditTransaction WITH
    doc    <- binding,
    txn    <- CASE active.state = "Free" -> "None"
                [] active.state = "CommitPending" -> IF active.detached THEN "Detached" ELSE "Admitted"
                [] OTHER -> "Open",
    base   <- IF active.state = "Free" THEN None
              ELSE [id |-> active.key.id, rev |-> active.key.rev, extent |-> active.extent],
    change <- IF active.state = "CommitPending" THEN active.intendedExtent ELSE None

\* Every behaviour of the coordinator is a behaviour of the abstract edit: the
\* document changes by one whole admitted change of its own base or by a rebind.
ImplementsEdit == Abstract!Spec
=============================================================================
