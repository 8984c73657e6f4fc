--------------------------- MODULE SettlementCustody ---------------------------
(***************************************************************************)
(* Who owes what to whom between range text inputs and their host.         *)
(*                                                                         *)
(* One settlement coordinator (range_widget/types.rs) allocates operation  *)
(* identities and keeps a fixed number of settlement slots for all widget  *)
(* generations that share it.  A widget has at most one live operation, an *)
(* edit or a history selection; admitting it reserves a slot; the host     *)
(* answers each slot once, late answers included, through the widget or    *)
(* through the coordinator.  A committed answer is adopted by a rebind,    *)
(* which waits for work credit and for pending configuration changes and   *)
(* is retried by the frames.  A rebind asked for by the host and the       *)
(* disposal of a widget detach what is admitted and cancel what is not.    *)
(*                                                                         *)
(* An operation stands for its key.  A binding is known by the operation   *)
(* whose commit produced it, 0 when the host bound it.  The pages and the  *)
(* evidence of an edit are those of module RangeEdit.  A call that returns *)
(* an error and changes nothing is a stuttering step.                      *)
(***************************************************************************)
EXTENDS Naturals, Sequences, FiniteSets, Lists

CONSTANTS
  Widgets,       \* widget generations sharing the coordinator
  Capacity,      \* settlement slots
  MaxOperation,  \* BOUND: operations allocated
  Credits,       \* realization work credited per frame
  MaxQueued,     \* queued requests one edit may have
  MaxWaiting,    \* BOUND: configuration and target changes wait while more requests are queued
  Habits         \* what the host does besides: see HabitNames

\* The host may change layout or presentation while an edit is active, or begin
\* an edit while such a change is pending; it may settle an admitted edit before
\* it took the requests queued for it; it may answer a history request it was told to
\* cancel.
HabitNames == {"ConfiguresDuringEdit", "SettlesUntaken", "AnswersCancelled"}

Operations == 1..MaxOperation

ASSUME BoundsAssumption ==
  /\ Capacity \in Nat \ {0} /\ MaxOperation \in Nat /\ Credits \in Nat \ {0}
  /\ MaxQueued \in Nat /\ MaxWaiting \in Nat
  /\ Habits \subseteq HabitNames

VARIABLES
  next,       \* next_operation
  slots,      \* slots, at most Capacity
  widget,     \* the widgets
  leases,     \* host: the operation identities it leased and did not use
  taken,      \* host: edits whose commit request it took
  committed,  \* host: operations it applied; their answer can only be Committed
  told,       \* host: history requests it was told to cancel
  answered,   \* host: those it answered as cancelled
  admitted,   \* history: operations admitted so far
  answers     \* history: how often a slot of the operation was released by an answer

vars == <<next, slots, widget, leases, taken, committed, told, answered, admitted, answers>>
hostVars == <<leases, taken, committed, told, answered>>

-----------------------------------------------------------------------------
(* A widget.                                                               *)

Kinds == {"Mutation", "History"}
Slots == [kind : Kinds, op : Operations]
Slot(kind, op) == [kind |-> kind, op |-> op]

\* MutationState of the widget's coordinator; "None" when no edit is active
Phases == {"None", "Preflight", "Streaming", "Finished", "CommitPending"}

EditRequests == {"Begin", "Finish", "Commit"}
Requests ==
  [type : EditRequests \cup {"Cancel", "Detached", "History", "CancelHistory"}, op : Operations]
HistoryRequests == [type : {"History"}, op : Operations]
Request(type, op) == [type |-> type, op |-> op]

\* PendingRebindIntent
Intents == [kind : {"None", "Direct"} \cup Kinds, op : Operations \cup {0}]
Intent(kind, op) == [kind |-> kind, op |-> op]
NoIntent == Intent("None", 0)

WidgetSpace ==
  [mounted : BOOLEAN, binding : Operations \cup {0},
   phase : Phases, op : Operations \cup {0},
   retired : Operations \cup {0},   \* last_terminal, which no later begin may reach
   hist : Operations \cup {0}, histAdmitted : BOOLEAN,   \* pending_history
   queue : Seq(Requests), dispatched : SUBSET Operations,
   config : BOOLEAN,                \* pending_layout_intent or pending_presentation_intent
   rebind : Intents, credit : 0..Credits]

Fresh ==
  [mounted |-> TRUE, binding |-> 0, phase |-> "None", op |-> 0, retired |-> 0, hist |-> 0,
   histAdmitted |-> FALSE, queue |-> <<>>, dispatched |-> {}, config |-> FALSE,
   rebind |-> NoIntent, credit |-> Credits]

Queued(r, type, op) == \E i \in 1..Len(r.queue) : r.queue[i] = Request(type, op)

\* queued_mutation_requests
QueuedFor(r, op) ==
  Cardinality({i \in 1..Len(r.queue) :
                 r.queue[i].op = op /\ r.queue[i].type \notin {"History", "CancelHistory"}})

\* Fault: the gate forgets the pending history selection.
QueueHasRoomForEdit(r, op) == QueuedFor(r, op) < MaxQueued

\* mutation_queue_has_capacity
QueueHasRoom(r, op) == r.hist = 0 /\ QueuedFor(r, op) < MaxQueued

\* interactive_surface, as far as it depends on pending operations
Interactive(r) == r.mounted /\ r.hist = 0 /\ ~r.config /\ r.rebind = NoIntent

\* push_request, which the surface limits may refuse
Pushed(r, request) == {r, [r EXCEPT !.queue = Append(@, request)]}

Without(queue, op) == Removed(queue, [type : EditRequests, op : {op}])

\* finish_local_mutation: the edit ended before its admission
Abandoned(r) ==
  [r EXCEPT !.phase = "None", !.op = 0, !.retired = r.op,
            !.queue = Without(@, r.op), !.dispatched = @ \ {r.op}]

\* prepare_widget_transition: a history request that left the queue and was
\* not admitted is cancelled at the host, in every transition.
CancelHistory(r) ==
  IF r.hist # 0 /\ ~r.histAdmitted /\ ~Queued(r, "History", r.hist)
  THEN <<Request("CancelHistory", r.hist)>> ELSE <<>>

\* service_pending_configuration_intent on a widget that can serve it
CanConfigure(r) == r.config /\ r.phase = "None" /\ r.credit > 0
Configured(r) ==
  [r EXCEPT !.config = FALSE, !.credit = @ - 1, !.queue = @ \o CancelHistory(r)]

\* The edit a rebind disposes of, unless it is the one being settled, is
\* detached or cancelled; the host is told when it took any of its requests.
Disposed(r, settling) ==
  IF r.op \in {0, settling} \/ r.op \notin r.dispatched THEN <<>>
  ELSE <<Request(IF r.phase = "CommitPending" THEN "Detached" ELSE "Cancel", r.op)>>

\* Fault: queued requests of the old binding survive its rebind.
RetiredQueueKept(r) == Removed(r.queue, HistoryRequests)

RetiredQueue(r) == Removed(Without(r.queue, r.op), HistoryRequests)

\* commit_widget_transition_internal with a rebind
Rebound(r, binding, settling) ==
  [r EXCEPT !.binding = binding, !.phase = "None", !.op = 0, !.retired = 0,
            !.hist = 0, !.histAdmitted = FALSE,
            !.queue = RetiredQueue(r) \o Disposed(r, settling) \o CancelHistory(r),
            !.dispatched = @ \ {r.op}, !.config = FALSE, !.rebind = NoIntent,
            !.credit = @ - 1]

-----------------------------------------------------------------------------
(* The coordinator.                                                        *)

Held(op) == \E s \in slots : s.op = op

Reserve(kind, op) ==
  /\ ~Held(op)
  /\ Cardinality(slots) < Capacity
  /\ slots' = slots \cup {Slot(kind, op)}
  /\ admitted' = admitted \cup {op}
  /\ UNCHANGED answers

\* Fault: the slot of a history selection is never found.
ReleaseMutations(kind, op) ==
  /\ kind = "Mutation" /\ Slot(kind, op) \in slots
  /\ slots' = slots \ {Slot(kind, op)}
  /\ answers' = [answers EXCEPT ![op] = @ + 1]
  /\ UNCHANGED admitted

\* settle_mutation, settle_history: the answer to an operation releases its slot.
Release(kind, op) ==
  /\ Slot(kind, op) \in slots
  /\ slots' = slots \ {Slot(kind, op)}
  /\ answers' = [answers EXCEPT ![op] = @ + 1]
  /\ UNCHANGED admitted

SlotsKept == UNCHANGED <<slots, admitted, answers>>
Become(w, r) == widget' = [widget EXCEPT ![w] = r]

\* lease_host_operation
Lease ==
  /\ next <= MaxOperation
  /\ leases' = leases \cup {next}
  /\ next' = next + 1
  /\ SlotsKept /\ UNCHANGED <<widget, taken, committed, told, answered>>

\* A lease is consumed by the call it is given to, also when the call fails.
DropLease(op) ==
  /\ op \in leases
  /\ leases' = leases \ {op}
  /\ SlotsKept /\ UNCHANGED <<next, widget, taken, committed, told, answered>>

-----------------------------------------------------------------------------
(* Edits.                                                                  *)

ConfigurationApart(r) == "ConfiguresDuringEdit" \in Habits \/ ~r.config

Begun(w, op) ==
  \E r \in Pushed([widget[w] EXCEPT !.phase = "Preflight", !.op = op], Request("Begin", op)) :
    Become(w, r)

\* begin_host_mutation and RangeEditCoordinator::begin
BeginHost(w, op) ==
  /\ op \in leases
  /\ widget[w].mounted /\ widget[w].phase = "None" /\ op > widget[w].retired
  /\ QueueHasRoom(widget[w], op)
  /\ ConfigurationApart(widget[w])
  /\ Begun(w, op)
  /\ leases' = leases \ {op}
  /\ SlotsKept /\ UNCHANGED <<next, taken, committed, told, answered>>

\* begin_local_mutation, reached from an interactive surface
BeginLocal(w) ==
  /\ next <= MaxOperation
  /\ Interactive(widget[w]) /\ widget[w].phase = "None"
  /\ Begun(w, next)
  /\ next' = next + 1
  /\ SlotsKept /\ UNCHANGED hostVars

\* accept_mutation_preflight; a local edit of no evidence finishes at once
AcceptPreflight(w) ==
  /\ widget[w].phase = "Preflight"
  /\ \/ /\ QueuedFor(widget[w], widget[w].op) <= MaxQueued
        /\ Become(w, [widget[w] EXCEPT !.phase = "Streaming"])
     \/ /\ QueuedFor(widget[w], widget[w].op) < MaxQueued
        /\ \E r \in Pushed([widget[w] EXCEPT !.phase = "Finished"], Request("Finish", widget[w].op)) :
             Become(w, r)
  /\ SlotsKept /\ UNCHANGED <<next, hostVars>>

\* submit_mutation_finish
SubmitFinish(w) ==
  /\ widget[w].phase = "Streaming"
  /\ QueueHasRoom(widget[w], widget[w].op)
  /\ \E r \in Pushed([widget[w] EXCEPT !.phase = "Finished"], Request("Finish", widget[w].op)) :
       Become(w, r)
  /\ SlotsKept /\ UNCHANGED <<next, hostVars>>

\* reject_mutation_preflight, reject_mutation_input, a colliding page
Reject(w) ==
  /\ widget[w].phase \in {"Preflight", "Streaming", "Finished"}
  /\ Become(w, Abandoned(widget[w]))
  /\ SlotsKept /\ UNCHANGED <<next, hostVars>>

\* cancel_mutation: an admitted edit awaits its settlement, nothing changes
CancelMutation(w) ==
  /\ widget[w].phase \in {"Preflight", "Streaming", "Finished"}
  /\ \E r \in Pushed(Abandoned(widget[w]), Request("Cancel", widget[w].op)) : Become(w, r)
  /\ SlotsKept /\ UNCHANGED <<next, hostVars>>

\* accept_mutation_finish: the slot is reserved before the commit is admitted
AcceptFinish(w) ==
  /\ widget[w].phase = "Finished"
  /\ QueueHasRoom(widget[w], widget[w].op)
  /\ Reserve("Mutation", widget[w].op)
  /\ \E r \in Pushed([widget[w] EXCEPT !.phase = "CommitPending"], Request("Commit", widget[w].op)) :
       Become(w, r)
  /\ UNCHANGED <<next, hostVars>>

-----------------------------------------------------------------------------
(* History selections.                                                     *)

\* request_history
RequestHistory(w) ==
  /\ next <= MaxOperation
  /\ Interactive(widget[w]) /\ widget[w].phase = "None"
  /\ \E r \in Pushed(widget[w], Request("History", next)) :
       Become(w, IF r = widget[w] THEN r ELSE [r EXCEPT !.hist = next])
  /\ next' = next + 1
  /\ SlotsKept /\ UNCHANGED hostVars

\* submit_history_session, by a host that took the request
SubmitSession(w) ==
  /\ widget[w].hist # 0 /\ ~widget[w].histAdmitted
  /\ ~Queued(widget[w], "History", widget[w].hist) /\ widget[w].hist \notin answered
  /\ Reserve("History", widget[w].hist)
  /\ Become(w, [widget[w] EXCEPT !.histAdmitted = TRUE])
  /\ UNCHANGED <<next, hostVars>>

-----------------------------------------------------------------------------
(* The host takes requests and applies commits.                            *)

\* take_request
Take(w) ==
  LET r == widget[w]
      q == Head(r.queue)
  IN /\ r.queue # <<>>
     /\ Become(w, [r EXCEPT !.queue = Tail(@),
                            !.dispatched = IF q.type \in EditRequests THEN @ \cup {q.op} ELSE @])
     /\ taken' = IF q.type = "Commit" THEN taken \cup {q.op} ELSE taken
     /\ told' = IF q.type = "CancelHistory" THEN told \cup {q.op} ELSE told
     /\ SlotsKept /\ UNCHANGED <<next, leases, committed, answered>>

\* Host: it applies an operation whose commit request it took, or whose history
\* session it opened, and answers nothing but Committed from then on.
Apply(op) ==
  /\ Slot("History", op) \in slots \/ (Slot("Mutation", op) \in slots /\ op \in taken)
  /\ op \notin committed
  /\ committed' = committed \cup {op}
  /\ SlotsKept /\ UNCHANGED <<next, widget, leases, taken, told, answered>>

-----------------------------------------------------------------------------
(* Rebinds.                                                                *)

\* Fault: any intent replaces any other.
RetainsAny(r, kind) == TRUE

\* retain_pending_rebind_intent: a rebind of the host waits behind a settlement.
Retains(r, kind) == kind = "Direct" => r.rebind.kind \in {"None", "Direct"}

\* service_pending_rebind_intent reaches a commit and the commit finds the
\* operation it settles: no configuration change is pending and work is credited.
Adoptable(r) ==
  /\ r.rebind # NoIntent /\ ~r.config /\ r.credit > 0
  /\ r.rebind.kind \in Kinds => Slot(r.rebind.kind, r.rebind.op) \in slots
  /\ r.rebind.kind = "Mutation" => r.phase = "CommitPending" /\ r.op = r.rebind.op

Settling(r) == IF r.rebind.kind = "Mutation" THEN r.op ELSE 0

\* Fault: a retained settlement is adopted without releasing its slot.
AdoptKeepingSlot(w, r) == Become(w, Rebound(r, r.rebind.op, Settling(r))) /\ SlotsKept

\* commit_pending_direct_rebind, commit_pending_mutation_rebind and
\* commit_pending_history_rebind
Adopt(w, r) ==
  /\ Become(w, Rebound(r, r.rebind.op, Settling(r)))
  /\ IF r.rebind.kind = "Direct" THEN SlotsKept ELSE Release(r.rebind.kind, r.rebind.op)

\* The intent is retained and served at once, or retained only: it is blocked,
\* or the successor was refused.
RetainAndService(w, intent) ==
  LET r == [widget[w] EXCEPT !.rebind = intent]
  IN /\ Retains(widget[w], intent.kind)
     /\ \/ Adoptable(r) /\ Adopt(w, r)
        \/ Become(w, r) /\ SlotsKept

\* rebind
RequestRebind(w) ==
  /\ widget[w].mounted
  /\ RetainAndService(w, Intent("Direct", 0))
  /\ UNCHANGED <<next, hostVars>>

\* set_layout, set_presentation_generation
Configure(w) ==
  LET r == [widget[w] EXCEPT !.config = TRUE]
  IN /\ widget[w].mounted
     /\ Len(r.queue) <= MaxWaiting
     /\ "ConfiguresDuringEdit" \in Habits \/ r.phase = "None"
     /\ Become(w, IF CanConfigure(r) THEN Configured(r) ELSE r)
     /\ SlotsKept /\ UNCHANGED <<next, hostVars>>

\* request_target_intent and service_pending_target_intent: a scroll, a selection or
\* a new viewport extent is served now or by a later frame, when no edit is active.
Retarget(w) ==
  LET r == widget[w]
  IN /\ r.mounted /\ r.phase = "None" /\ r.credit > 0
     /\ Len(r.queue) <= MaxWaiting
     /\ Become(w, [r EXCEPT !.credit = @ - 1, !.queue = @ \o CancelHistory(r)])
     /\ SlotsKept /\ UNCHANGED <<next, hostVars>>

\* The prepaint of a frame credits work, serves a configuration change, then a
\* retained rebind; what is refused waits for the next frame.
Frame(w, refused) ==
  LET credited == [widget[w] EXCEPT !.credit = Credits]
      r == IF CanConfigure(credited) THEN Configured(credited) ELSE credited
  IN /\ widget[w].mounted
     /\ IF refused THEN SlotsKept /\ \E served \in {credited, r} : Become(w, served)
        ELSE IF Adoptable(r) THEN Adopt(w, r)
        ELSE Become(w, r) /\ SlotsKept
     /\ UNCHANGED <<next, hostVars>>

-----------------------------------------------------------------------------
(* Settlements.                                                            *)

LiveAt(w, op) == op # 0 /\ op \in {widget[w].op, widget[w].hist}
Live(op) == \E w \in Widgets : LiveAt(w, op)

\* settle_mutation with a Committed outcome of the active edit
SettleCommitted(w) ==
  /\ widget[w].phase = "CommitPending"
  /\ widget[w].op \in committed
  /\ RetainAndService(w, Intent("Mutation", widget[w].op))
  /\ UNCHANGED <<next, hostVars>>

\* settle_mutation with any other outcome of the active edit
SettleUnchanged(w) ==
  LET r == widget[w]
  IN /\ r.phase = "CommitPending"
     /\ r.op \notin committed
     /\ "SettlesUntaken" \in Habits \/ QueuedFor(r, r.op) = 0
     /\ r.credit > 0
     /\ Release("Mutation", r.op)
     /\ Become(w, [r EXCEPT !.phase = "None", !.op = 0, !.retired = r.op,
                            !.dispatched = @ \ {r.op}, !.credit = @ - 1])
     /\ UNCHANGED <<next, hostVars>>

\* settle_history of the admitted selection, Committed
SettleHistoryCommitted(w) ==
  /\ widget[w].histAdmitted
  /\ widget[w].hist \in committed
  /\ RetainAndService(w, Intent("History", widget[w].hist))
  /\ UNCHANGED <<next, hostVars>>

\* settle_history of the admitted selection with any other outcome
SettleHistoryUnchanged(w) ==
  LET r == widget[w]
  IN /\ r.histAdmitted
     /\ r.hist \notin committed
     /\ r.credit > 0
     /\ Release("History", r.hist)
     /\ Become(w, [r EXCEPT !.hist = 0, !.histAdmitted = FALSE, !.credit = @ - 1])
     /\ UNCHANGED <<next, hostVars>>

\* settle_history of a request that is pending and was not admitted: the answer
\* is obsolete and the credit it spent is refunded.
AnswerCancelled(op) ==
  /\ "AnswersCancelled" \in Habits
  /\ op \in told /\ op \notin admitted \cup answered
  /\ answered' = answered \cup {op}
  /\ SlotsKept /\ UNCHANGED <<next, widget, leases, taken, committed, told>>

\* The answer to a detached operation, whatever it is, at some mounted widget:
\* the obsolete paths of settle_mutation and settle_history
SettleObsolete(w, s) ==
  /\ s \in slots /\ ~Live(s.op)
  /\ ~(s.kind = "Mutation" /\ widget[w].phase = "None" /\ widget[w].retired = s.op)
  /\ widget[w].mounted /\ widget[w].credit > 0
  /\ Release(s.kind, s.op)
  /\ Become(w, [widget[w] EXCEPT !.dispatched = @ \ {s.op}, !.credit = @ - 1])
  /\ UNCHANGED <<next, hostVars>>

\* The same answer given to the coordinator itself.
SettleDetached(s) ==
  /\ s \in slots /\ ~Live(s.op)
  /\ Release(s.kind, s.op)
  /\ UNCHANGED <<next, widget, hostVars>>

\* Fault: disposing a widget gives up the slot of its operation.
DisposeReleasing(w) ==
  /\ widget[w].mounted
  /\ Become(w, [Fresh EXCEPT !.mounted = FALSE, !.binding = widget[w].binding, !.credit = 0])
  /\ slots' = {s \in slots : ~LiveAt(w, s.op)}
  /\ UNCHANGED <<next, hostVars, admitted, answers>>

\* dispose: what is queued or told goes to the host with the returned requests;
\* the slot of an admitted operation stays.
Dispose(w) ==
  /\ widget[w].mounted
  /\ Become(w, [Fresh EXCEPT !.mounted = FALSE, !.binding = widget[w].binding, !.credit = 0])
  /\ SlotsKept /\ UNCHANGED <<next, hostVars>>

-----------------------------------------------------------------------------
Init ==
  /\ next = 1
  /\ slots = {}
  /\ widget = [w \in Widgets |-> Fresh]
  /\ leases = {} /\ taken = {} /\ committed = {} /\ told = {} /\ answered = {}
  /\ admitted = {}
  /\ answers = [op \in Operations |-> 0]

Act(w) ==
  \/ \E op \in Operations : BeginHost(w, op)
  \/ BeginLocal(w)
  \/ AcceptPreflight(w)
  \/ SubmitFinish(w)
  \/ Reject(w)
  \/ CancelMutation(w)
  \/ AcceptFinish(w)
  \/ RequestHistory(w)
  \/ SubmitSession(w)
  \/ Take(w)
  \/ RequestRebind(w)
  \/ Configure(w)
  \/ Retarget(w)
  \/ \E refused \in BOOLEAN : Frame(w, refused)
  \/ SettleCommitted(w)
  \/ SettleUnchanged(w)
  \/ SettleHistoryCommitted(w)
  \/ SettleHistoryUnchanged(w)
  \/ \E s \in slots : SettleObsolete(w, s)
  \/ Dispose(w)

Next ==
  \/ \E w \in Widgets : Act(w)
  \/ Lease
  \/ \E op \in Operations : DropLease(op) \/ Apply(op) \/ AnswerCancelled(op)
  \/ \E s \in slots : SettleDetached(s)

Spec == Init /\ [][Next]_vars

\* Frames keep coming while work is pending and some frame is not refused
\* (schedule_realization_continuation notifies for the next one).  The host
\* answers every slot it owes: it drains requests, retries an answer that was
\* Busy, and answers for a detached operation at the coordinator.
Fairness ==
  /\ \A w \in Widgets :
       /\ WF_vars(Frame(w, FALSE))
       /\ WF_vars(Take(w))
       /\ WF_vars(SettleCommitted(w))
       /\ WF_vars(SettleHistoryCommitted(w))
       /\ SF_vars(SettleUnchanged(w))
       /\ SF_vars(SettleHistoryUnchanged(w))
  /\ \A s \in Slots : WF_vars(SettleDetached(s))

FairSpec == Spec /\ Fairness

-----------------------------------------------------------------------------
(* Properties.                                                             *)

\* The coordinator never keeps more slots than its capacity and every widget
\* (range_widget.rs, RangeTextInput) has its type.
TypeOK ==
  /\ next \in 1..(MaxOperation + 1)
  /\ slots \subseteq Slots /\ Cardinality(slots) <= Capacity
  /\ widget \in [Widgets -> WidgetSpace]
  /\ {leases, taken, committed, told, answered, admitted} \subseteq SUBSET Operations
  /\ answers \in [Operations -> Nat]

\* A slot is held for exactly the operations that were admitted and not answered,
\* each of them is answered at most once, and what a live widget has admitted is
\* among them: no rebind, disposal, refusal or retry loses or doubles a slot
\* (types.rs reserve and release, interaction.rs accept_mutation_finish).
CustodyExact ==
  /\ \A op \in Operations : Held(op) <=> op \in admitted /\ answers[op] = 0
  /\ \A op \in Operations : answers[op] <= 1
  /\ \A w \in Widgets :
       /\ widget[w].phase = "CommitPending" <=> Slot("Mutation", widget[w].op) \in slots
       /\ widget[w].histAdmitted <=> Slot("History", widget[w].hist) \in slots

\* An operation is live in one widget at most, a lease that is still held was
\* never begun, and a widget never has an edit and a history selection at once
\* (types.rs allocate_operation, HostOperationLease; history.rs request_history).
OperationsUnique ==
  /\ \A w \in Widgets :
       /\ \A op \in Operations : LiveAt(w, op) =>
            op < next /\ op \notin leases /\ \A v \in Widgets \ {w} : ~LiveAt(v, op)
       /\ widget[w].phase # "None" => widget[w].hist = 0
  /\ leases \cap admitted = {}

\* What a widget has queued for an operation that can still be refused names its
\* live operation, and so does what it holds as dispatched: a host never takes a
\* commit of an edit that was rebound, cancelled or settled (transition.rs
\* remove_queued_mutation, interaction.rs finish_local_mutation).
QueueNamesLive ==
  \A w \in Widgets :
    /\ \A i \in 1..Len(widget[w].queue) :
         LET q == widget[w].queue[i]
         IN /\ q.type \in EditRequests => q.op = widget[w].op
            /\ q.type = "History" => q.op = widget[w].hist /\ ~widget[w].histAdmitted
    /\ widget[w].dispatched \subseteq {widget[w].op}

\* The host is told to cancel only what it never admitted, and that an operation
\* is detached only when it owes the answer or has given it (transition.rs
\* prepare_widget_transition, lifecycle.rs cancel_mutation_dispatch).
NoticesTellAdmission ==
  \A w \in Widgets : \A i \in 1..Len(widget[w].queue) :
    LET q == widget[w].queue[i]
    IN /\ q.type = "Cancel" => q.op \notin admitted
       /\ q.type = "Detached" => q.op \in admitted

\* What a host is handed is true: a request it takes can still be refused, and a notice
\* tells what became of the operation.
HostHearsTruth == QueueNamesLive /\ NoticesTellAdmission

\* A widget is bound to a successor only by adopting the commit of the operation
\* that is live in it; the answer to a detached operation binds nothing
\* (lifecycle.rs commit_pending_mutation_rebind, commit_pending_history_rebind).
BindingFollowsLive ==
  [][\A w \in Widgets :
       widget'[w].binding # widget[w].binding /\ widget'[w].binding # 0 =>
         /\ LiveAt(w, widget'[w].binding) /\ widget'[w].binding \in committed
         /\ answers'[widget'[w].binding] = 1]_vars

\* A settlement that was retained is the next thing the widget is bound to,
\* unless the widget is disposed (rebind.rs retain_pending_rebind_intent).
RetainedSettlementWins ==
  [][\A w \in Widgets :
       widget[w].rebind.kind \in Kinds =>
         \/ widget'[w].rebind = widget[w].rebind
         \/ widget'[w].binding = widget[w].rebind.op
         \/ ~widget'[w].mounted]_vars

\* Every slot is given back (design.md, "The host settles every transaction
\* exactly once").
SlotsDrain == \A op \in Operations : Held(op) ~> ~Held(op)
=============================================================================
