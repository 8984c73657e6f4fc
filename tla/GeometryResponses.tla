------------------------- MODULE GeometryResponses -------------------------
(***************************************************************************)
(* The geometry work of one mounted range widget: its active job, the one  *)
(* input that job waits for, the requests to the host, the responses in    *)
(* custody, and the frames and deferred callbacks that keep it going       *)
(* (src/src/range_widget/geometry.rs and geometry/, response_custody.rs,   *)
(* page_delivery.rs, clipboard.rs, transition.rs, realization.rs).         *)
(*                                                                         *)
(* An index job scans the source from its start; when it completes, a      *)
(* target job follows in the same commit.  A target job scans from some    *)
(* text page until its view is complete, and is then published.  A scan    *)
(* needs text and object pages in the order Scan gives; a page that is     *)
(* resident is used in place, another is asked of the host.  Every step    *)
(* costs a credit of the frame.  An edit, a new target or a rebind may     *)
(* come between any two steps.                                             *)
(*                                                                         *)
(* One handler makes many calls that change state and has several          *)
(* outcomes, so an operation maps a widget to the set of widgets it may    *)
(* leave, and an action is the whole handler.                              *)
(***************************************************************************)
EXTENDS Naturals, FiniteSets, SequencesExt

CONSTANTS
  Scan,             \* the inputs of one scan of the source in order: "Page" or "Object"
  Quotas,           \* max_realization_work_per_frame, one of these
  DrawWakes,        \* does GPUI draw again for a notification raised while it draws?
  MaxRetargets,     \* BOUND: new targets the user asks for
  MaxEdits,         \* BOUND: edits and rebinds
  MaxRefusals       \* BOUND: refusals of a publication for want of surface capacity

ASSUME ScanAssumption ==
  /\ Scan \in Seq({"Page", "Object"}) /\ Scan # <<>>
  /\ Scan[1] = "Page" /\ Scan[Len(Scan)] = "Object"

ASSUME BoundsAssumption ==
  /\ Quotas \subseteq Nat \ {0} /\ Quotas # {}
  /\ DrawWakes \in BOOLEAN
  /\ MaxRetargets \in Nat /\ MaxEdits \in Nat /\ MaxRefusals \in Nat

Places == DOMAIN Scan
Final == Len(Scan)
TextPlaces == {p \in Places : Scan[p] = "Page"}

\* The text page an object page lies in.
TextOf(place) == CHOOSE p \in TextPlaces : p < place /\ \A q \in TextPlaces : q < place => q <= p

NoKey == [id |-> 0, purpose |-> "None", place |-> 0]
NoJob == [id |-> 0, purpose |-> "None"]
NoWait == [job |-> 0, how |-> "None", key |-> NoKey, place |-> 0]

Say(tell, key) == [tell |-> tell, key |-> key]
IsAsk(request) == request.tell = "Ask"

VARIABLES
  widget,   \* the record below
  held,     \* keys the host has taken and was not told to drop
  open      \* keys of those that the host did not answer yet

vars == <<widget, held, open>>

\* The state of a RangeTextInput that geometry reads and writes.  A wait that is "Sent"
\* has its request in the queue or with the host, or its response in custody.
NewWidget(quota) ==
  [job |-> NoJob, wait |-> NoWait, pending |-> {}, resident |-> {}, requests |-> <<>>,
   dispatched |-> {}, custody |-> <<>>, quota |-> quota, credit |-> quota,
   scheduled |-> FALSE, ticket |-> "None", dirty |-> FALSE, drawing |-> FALSE,
   editing |-> "No", indexed |-> FALSE, indexIntent |-> FALSE, targetIntent |-> FALSE,
   surface |-> FALSE, next |-> 1, retargets |-> 0, edits |-> 0, refusals |-> 0]

-----------------------------------------------------------------------------
(* Frames, credit and the deferred callback *)

\* cx.notify
Notify(w) == IF w.drawing /\ ~DrawWakes THEN w ELSE [w EXCEPT !.dirty = TRUE]

Schedule(w) == IF w.scheduled THEN w ELSE Notify([w EXCEPT !.scheduled = TRUE])

\* A ticket that was out is brought to the current generation.
Defer(w) == [w EXCEPT !.scheduled = TRUE, !.ticket = "Current"]

\* A new frame generation: a ticket that is out names an old one.
Obsolete(w) ==
  [w EXCEPT !.scheduled = FALSE, !.ticket = IF @ = "None" THEN "None" ELSE "Old"]

Spend(w) == [w EXCEPT !.credit = @ - 1]
Refund(w) == [w EXCEPT !.credit = @ + 1]

-----------------------------------------------------------------------------
(* Demands *)

\* A demand for the job's next input takes a new identity; it finds the page resident
\* or asks the host for it.
Admit(w, place) ==
  LET key == [id |-> w.next, purpose |-> w.job.purpose, place |-> place]
      found == place \in w.resident
  IN [w EXCEPT !.next = @ + 1,
               !.wait = [job |-> w.job.id, how |-> IF found THEN "Resident" ELSE "Sent",
                         key |-> key, place |-> place],
               !.pending = IF found THEN @ ELSE @ \cup {key},
               !.requests = IF found THEN @ ELSE Append(@, Say("Ask", key))]

\* While an edit is active the demand is kept without identity or request.
Proceed(w, place) ==
  IF w.editing = "No"
  THEN Admit(w, place)
  ELSE [w EXCEPT !.wait = [job |-> w.job.id, how |-> "Unstarted", key |-> NoKey, place |-> place]]

Began(w, purpose) ==
  [w EXCEPT !.job = [id |-> w.next, purpose |-> purpose], !.next = @ + 1]

\* A text page leads to its objects or, on the way to the target, to the next text page.
AfterPage(place) ==
  {place + 1} \cup {p \in TextPlaces : p > place /\ \A q \in TextPlaces : q > place => q >= p}

\* A target scan starts at the origin, or at a checkpoint of the index or the surface.
TargetStarts(w) == IF w.indexed \/ w.surface THEN TextPlaces ELSE {1}

\* The index is published and its target begins in the same commit.
IndexCompleted(w) ==
  {Proceed(Began([w EXCEPT !.indexed = TRUE], "Target"), p) : p \in TargetStarts([w EXCEPT !.indexed = TRUE])}

Published(w) ==
  Notify([w EXCEPT !.job = NoJob, !.wait = NoWait, !.resident = {}, !.surface = TRUE,
                   !.indexIntent = @ \/ ~w.indexed])

\* What an object page of an index or of a target leads to, short of publication.
AfterIndexObject(w, place) ==
  IF place = Final THEN IndexCompleted(w) ELSE {Proceed(w, place + 1)}
AfterTargetObject(w, place) == IF place = Final THEN {} ELSE {Proceed(w, place + 1)}

-----------------------------------------------------------------------------
(* Advancing on resident pages *)

\* In prepaint a step that would ask the host, or publish, is left to the callback.
Kept(w, x, external) == IF ~external /\ x.requests # w.requests THEN w ELSE Notify(x)

ResidentPage(w, external) ==
  {Kept(w, Proceed(w, p), external) : p \in AfterPage(w.wait.place)}

ResidentIndexObject(w, external) ==
  {Kept(w, x, external) : x \in AfterIndexObject(w, w.wait.place)}

ResidentTargetObject(w, external) ==
  {Kept(w, x, external) : x \in AfterTargetObject(w, w.wait.place)}
    \cup {IF external THEN Published(w) ELSE w}

AdvanceResident(w, external) ==
  IF Scan[w.wait.place] = "Page" THEN ResidentPage(w, external)
  ELSE IF w.job.purpose = "Index" THEN ResidentIndexObject(w, external)
  ELSE ResidentTargetObject(w, external)

\* service_geometry_object: a demand that finds its page resident is used by a later step.
ServiceObject(w) ==
  CASE w.wait.how = "Resident" -> AdvanceResident(w, TRUE)
    [] w.wait.how = "Unstarted" -> {Notify(Admit(w, w.wait.place))}
    [] OTHER -> {w}

\* service_geometry_page_inner: a demand that finds its page resident uses it at once.
ServicePage(w) ==
  CASE w.wait.how = "Resident" -> AdvanceResident(w, TRUE)
    [] w.wait.how = "Unstarted" ->
         LET x == Admit(w, w.wait.place)
         IN IF x.wait.how = "Resident" THEN AdvanceResident(x, TRUE) ELSE {Notify(x)}
    [] OTHER -> {w}

ServiceGeometry(w) ==
  IF w.editing # "No" \/ w.wait = NoWait THEN {w}
  ELSE IF Scan[w.wait.place] = "Object" THEN ServiceObject(w)
  ELSE ServicePage(w)

\* geometry_service_marker
Marker(w) == <<w.job, w.wait, Len(w.requests)>>

-----------------------------------------------------------------------------
(* Transitions *)

\* Fault: a response in custody outlives the job it is for.
RetireKeepsResponse(w) ==
  LET key == w.wait.key
      queue == SelectSeq(w.requests, LAMBDA r : ~(IsAsk(r) /\ r.key = key))
  IN [w EXCEPT !.job = NoJob, !.wait = NoWait, !.pending = @ \ {key}, !.dispatched = @ \ {key},
               !.requests = IF key \in w.dispatched THEN Append(queue, Say("Cancel", key)) ELSE queue]

\* What a transition or a rebind takes back from the active job.
Retire(w) ==
  LET key == w.wait.key
      queue == SelectSeq(w.requests, LAMBDA r : ~(IsAsk(r) /\ r.key = key))
      custody == SelectSeq(w.custody, LAMBDA k : k # key)
      retired == [w EXCEPT !.job = NoJob, !.wait = NoWait, !.pending = @ \ {key},
                           !.dispatched = @ \ {key}, !.custody = custody,
                           !.requests = IF key \in w.dispatched
                                        THEN Append(queue, Say("Cancel", key)) ELSE queue]
  IN IF custody # w.custody THEN Obsolete(retired) ELSE retired

TargetTransition(w) ==
  {Notify(Admit([Began(Retire(w), "Target") EXCEPT !.indexIntent = @ \/ ~w.indexed], p)) :
     p \in TargetStarts(w)}

IndexTransition(w) == Notify(Admit([Began(Retire(w), "Index") EXCEPT !.indexIntent = FALSE], 1))

\* The successor of a rebind is a target at the origin, or the index when the selection
\* is elsewhere.
Rebind(w, purpose) ==
  LET cancels == SetToSeq({Say("Cancel", key) : key \in w.dispatched})
      cleared == [w EXCEPT !.job = NoJob, !.wait = NoWait, !.pending = {}, !.resident = {},
                           !.requests = SelectSeq(@, LAMBDA r : r.tell \in {"Cancel", "Release"}) \o cancels,
                           !.dispatched = {}, !.custody = <<>>, !.editing = "No",
                           !.indexed = FALSE, !.targetIntent = FALSE,
                           !.indexIntent = purpose = "Target"]
  IN Notify(Admit(Began(Obsolete(cleared), purpose), 1))

\* service_pending_target_intent
ServiceTargetIntent(w) ==
  IF ~w.targetIntent \/ w.editing # "No" THEN {w}
  ELSE IF w.credit = 0 THEN {Schedule(w)}
  ELSE TargetTransition([Spend(w) EXCEPT !.targetIntent = FALSE])

-----------------------------------------------------------------------------
(* Geometry service until the host is needed *)

RECURSIVE ServiceLoop(_)
ServiceLoop(w) ==
  IF w.credit = 0 THEN {Schedule(w)}
  ELSE UNION {IF Marker(x) = Marker(w) THEN {Refund(x)} ELSE ServiceLoop(x) :
                x \in ServiceGeometry(Spend(w))}

\* service_pending_index_intent starts the index when nothing is queued for the host.
StartsIndex(w) == w.requests = <<>> /\ w.indexIntent /\ w.job = NoJob /\ ~w.indexed

ServiceUntilBoundary(w) ==
  IF w.editing # "No" THEN {w}
  ELSE IF StartsIndex(w) /\ w.credit > 0 THEN {IndexTransition(Spend(w))}
  ELSE ServiceLoop(IF StartsIndex(w) THEN Schedule(w) ELSE w)

\* service_admitted_geometry_for_prepaint
RECURSIVE PrepaintLoop(_)
PrepaintLoop(w) ==
  IF w.requests # <<>> THEN {Defer(w)}
  ELSE IF w.credit = 0 THEN {Schedule(w)}
  ELSE IF w.wait.how # "Resident" THEN {w}
  ELSE UNION {IF Marker(x) = Marker(w) THEN {Defer(Refund(x))} ELSE PrepaintLoop(x) :
                x \in AdvanceResident(Spend(w), FALSE)}

\* Fault: a prepaint that finds requests queued leaves the rest to their answers.
PrepaintUndeferred(w) ==
  IF w.editing # "No" \/ w.requests # <<>> THEN {w}
  ELSE IF w.indexIntent /\ w.job = NoJob THEN {Defer(w)}
  ELSE PrepaintLoop(w)

PrepaintGeometry(w) ==
  IF w.editing # "No" THEN {w}
  ELSE IF w.requests = <<>> /\ w.indexIntent /\ w.job = NoJob THEN {Defer(w)}
  ELSE PrepaintLoop(w)

-----------------------------------------------------------------------------
(* Responses *)

Result(w, progress) == [to |-> w, progress |-> progress]

\* The page is admitted, its key is released and its job goes on.
Settled(w, key) ==
  [w EXCEPT !.requests = Append(@, Say("Release", key)), !.pending = @ \ {key},
            !.dispatched = @ \ {key}, !.resident = @ \cup {key.place}]

\* A response the job cannot use ends the job, and drops what was to follow it.
TerminalFailure(w, key) ==
  Notify([w EXCEPT !.requests = Append(@, Say("Release", key)), !.pending = @ \ {key},
                   !.dispatched = @ \ {key}, !.job = NoJob, !.wait = NoWait,
                   !.targetIntent = FALSE, !.indexIntent = FALSE])

\* Malformed pages are rejected; those beyond a limit are accepted as the job's end.
Failures(w, key) ==
  {Result(TerminalFailure(w, key), progress) : progress \in {"Rejected", "AcceptedTerminal"}}

GoesOn(successors) ==
  {Result(x, "Progressed") : x \in UNION {ServiceUntilBoundary(Notify(s)) : s \in successors}}

Stale(w) == {Result(w, "Rejected")}

DeliverPage(w, key, purpose) ==
  IF w.job.purpose # purpose THEN Stale(w)
  ELSE Failures(w, key) \cup GoesOn({Proceed(Settled(w, key), p) : p \in AfterPage(key.place)})

DeliverIndexPage(w, key) == DeliverPage(w, key, "Index")
DeliverTargetPage(w, key) == DeliverPage(w, key, "Target")

\* The text page of an object page must still be resident.
Current(w, key) ==
  w.wait.key = key /\ w.wait.job = w.job.id /\ key \in w.dispatched /\ TextOf(key.place) \in w.resident

DeliverIndexObject(w, key) ==
  IF ~Current(w, key) THEN Stale(w)
  ELSE Failures(w, key) \cup GoesOn(AfterIndexObject(Settled(w, key), key.place))

\* A publication that does not fit beside the one shown is kept for a later frame.
DeliverTargetObject(w, key) ==
  IF ~Current(w, key) THEN Stale(w)
  ELSE Failures(w, key)
       \cup GoesOn(AfterTargetObject(Settled(w, key), key.place))
       \cup {Result(Published(Settled(w, key)), "Progressed")}
       \cup (IF w.surface /\ w.refusals < MaxRefusals
             THEN {Result([w EXCEPT !.refusals = @ + 1], "Retry")} ELSE {})

\* A text response that is no longer dispatched is released; an object one is not.
Dispatch(w, key) ==
  CASE Scan[key.place] = "Page" /\ key \notin w.dispatched ->
         Stale([w EXCEPT !.pending = @ \ {key}, !.requests = Append(@, Say("Release", key))])
    [] Scan[key.place] = "Page" /\ key \in w.dispatched ->
         IF key.purpose = "Index" THEN DeliverIndexPage(w, key) ELSE DeliverTargetPage(w, key)
    [] OTHER ->
         IF key.purpose = "Index" THEN DeliverIndexObject(w, key) ELSE DeliverTargetObject(w, key)

\* finish_response_delivery
Finish(key, result) ==
  CASE result.progress = "Retry" -> Schedule([result.to EXCEPT !.custody = <<key>> \o @])
    [] OTHER ->
         LET x == IF result.progress = "Rejected" THEN Refund(result.to) ELSE result.to
         IN IF x.custody # <<>> THEN Schedule(x) ELSE x

\* service_response_custody
ServeCustody(w) ==
  IF w.custody = <<>> THEN {Result(w, "Idle")}
  ELSE IF w.credit = 0 THEN {Result(Schedule(w), "Idle")}
  ELSE {Result(Finish(Head(w.custody), result), result.progress) :
          result \in Dispatch([Spend(w) EXCEPT !.custody = Tail(@)], Head(w.custody))}

-----------------------------------------------------------------------------
(* The host *)

Begun(w) == IF w.editing = "Queued" THEN [w EXCEPT !.editing = "Sent"] ELSE w

TakeRequest ==
  LET request == Head(widget.requests)
      left == [widget EXCEPT !.requests = Tail(@)]
  IN /\ widget.requests # <<>>
     /\ CASE IsAsk(request) ->
               /\ widget' = [left EXCEPT !.dispatched = @ \cup {request.key}]
               /\ held' = held \cup {request.key} /\ open' = open \cup {request.key}
          [] request.tell \in {"Cancel", "Release"} ->
               /\ widget' = left
               /\ held' = held \ {request.key} /\ open' = open \ {request.key}
          [] request.tell = "Edit" ->
               widget' = Begun(left) /\ UNCHANGED <<held, open>>
          [] OTHER -> widget' = left /\ UNCHANGED <<held, open>>

\* deliver_page, and deliver_object_page_in_window, which goes on with geometry after it.
\* A response nobody waits for is handed back and changes nothing.
Deliver(key) ==
  /\ key \in open /\ key \in widget.dispatched
  /\ \E result \in ServeCustody([widget EXCEPT !.custody = Append(@, key)]) :
       widget' \in IF Scan[key.place] = "Object" /\ result.progress # "Rejected"
                   THEN ServiceUntilBoundary(result.to) ELSE {result.to}
  /\ open' = open \ {key}
  /\ UNCHANGED held

\* fail_page and fail_object_page: the job ends, and a wait for the index with it.
Fail(key) ==
  /\ key \in open /\ key \in widget.dispatched
  /\ widget' = Notify([widget EXCEPT !.dispatched = @ \ {key}, !.pending = @ \ {key},
                                     !.job = NoJob, !.wait = NoWait, !.indexIntent = FALSE])
  /\ held' = held \ {key} /\ open' = open \ {key}

-----------------------------------------------------------------------------
(* Frames and the deferred callback *)

\* The prepaint of a widget that is mounted and not protected.
Frame ==
  LET begun == [Obsolete(widget) EXCEPT !.credit = widget.quota, !.dirty = FALSE, !.drawing = TRUE]
  IN /\ \E served \in ServeCustody(begun) : \E aimed \in ServiceTargetIntent(served.to) :
          \E done \in PrepaintGeometry(aimed) : widget' = [done EXCEPT !.drawing = FALSE]
     /\ UNCHANGED <<held, open>>

Continue ==
  LET w == [widget EXCEPT !.ticket = "None"]
  IN /\ widget.ticket # "None"
     /\ IF widget.scheduled /\ widget.ticket = "Current"
        THEN widget' \in ServiceUntilBoundary([w EXCEPT !.scheduled = FALSE])
        ELSE widget' = w
     /\ UNCHANGED <<held, open>>

-----------------------------------------------------------------------------
(* The user, and edits *)

\* request_target_intent: the last target asked for wins.
Retarget ==
  /\ widget.retargets < MaxRetargets
  /\ widget' \in ServiceTargetIntent([widget EXCEPT !.retargets = @ + 1, !.targetIntent = TRUE])
  /\ UNCHANGED <<held, open>>

BeginEdit ==
  /\ widget.editing = "No" /\ widget.edits < MaxEdits
  /\ widget' = Notify([widget EXCEPT !.edits = @ + 1, !.editing = "Queued",
                                     !.requests = Append(@, Say("Edit", NoKey))])
  /\ UNCHANGED <<held, open>>

\* The host refuses the edit, or its answer commits nothing.
RejectEdit ==
  /\ widget.editing = "Sent"
  /\ widget' = Notify([widget EXCEPT !.editing = "No"])
  /\ UNCHANGED <<held, open>>

CancelEdit ==
  /\ widget.editing # "No"
  /\ widget' = Notify([widget EXCEPT !.editing = "No",
                         !.requests = Append(SelectSeq(@, LAMBDA r : r.tell # "Edit"),
                                             Say("CancelEdit", NoKey))])
  /\ UNCHANGED <<held, open>>

\* A committed edit rebinds the widget; without credit it waits for a frame.
CommitEdit ==
  /\ widget.editing = "Sent" /\ widget.credit > 0
  /\ \E purpose \in {"Index", "Target"} : widget' = Rebind(Spend(widget), purpose)
  /\ UNCHANGED <<held, open>>

\* The host rebinds the widget without an edit.
HostRebind ==
  /\ widget.editing = "No" /\ widget.credit > 0 /\ widget.edits < MaxEdits
  /\ \E purpose \in {"Index", "Target"} :
       widget' = Rebind(Spend([widget EXCEPT !.edits = @ + 1]), purpose)
  /\ UNCHANGED <<held, open>>

\* A new widget begins with a target at the origin; its index is to follow.
Init ==
  /\ \E quota \in Quotas :
       widget = Admit(Began([NewWidget(quota) EXCEPT !.indexIntent = TRUE, !.dirty = TRUE],
                            "Target"), 1)
  /\ held = {}
  /\ open = {}

Answer == \E key \in open : Deliver(key) \/ Fail(key)
EndEdit == RejectEdit \/ CancelEdit \/ CommitEdit

Next ==
  \/ TakeRequest \/ Answer \/ Frame \/ Continue
  \/ Retarget \/ BeginEdit \/ EndEdit \/ HostRebind

Spec == Init /\ [][Next]_vars

\* The host takes every request and answers it, the window draws when it was notified,
\* callbacks run, and the host ends every edit.
FairSpec ==
  /\ Spec
  /\ WF_vars(TakeRequest) /\ WF_vars(Answer)
  /\ WF_vars(widget.dirty /\ Frame) /\ WF_vars(Continue) /\ WF_vars(EndEdit)

-----------------------------------------------------------------------------
(* Properties *)

Queued(tells) == {i \in DOMAIN widget.requests : widget.requests[i].tell \in tells}
KeysAt(places) == {widget.requests[i].key : i \in places}

Told == Queued({"Cancel", "Release"})
Awaited == KeysAt(Queued({"Ask"}))

\* A key the host took is either still waited for or named by exactly one queued release
\* or cancellation, and no response is kept for a key that was taken back.
KeysAccounted ==
  /\ held = widget.dispatched \cup KeysAt(Told)
  /\ widget.dispatched \cap KeysAt(Told) = {}
  /\ Cardinality(KeysAt(Told)) = Cardinality(Told)
  /\ Awaited \cap held = {}
  /\ ToSet(widget.custody) \subseteq widget.dispatched \ open

\* The active job waits for one input, and that input is on its way: its request is queued,
\* with the host or answered and in custody, or its page is resident.
InputUnderWay ==
  LET wait == widget.wait
  IN /\ wait.job = widget.job.id
     /\ (wait = NoWait) <=> (widget.job = NoJob)
     /\ widget.pending = Awaited \cup widget.dispatched
     /\ widget.pending = IF wait.how = "Sent" THEN {wait.key} ELSE {}
     /\ widget.dispatched \subseteq open \cup ToSet(widget.custody)
     /\ wait.how = "Resident" => wait.place \in widget.resident
     /\ wait # NoWait /\ Scan[wait.place] = "Object" => TextOf(wait.place) \in widget.resident

\* Whatever edit, target, rebind or failure comes between a request and its response, the
\* host is not left holding a request nobody waits for and is never told twice about one,
\* and a job never waits for what will not come (transition.rs commit_geometry_retirement,
\* response_custody.rs retire_response_custody, geometry/response_commit.rs, terminal_failure.rs).
JobIsServed == KeysAccounted /\ InputUnderWay

Deferred == widget.wait.how = "Unstarted" /\ widget.editing = "No"
Refused == widget.refusals > 0 /\ widget.custody # <<>>

\* Geometry settles again and again: every job is published, fails or is superseded, every
\* response in custody is served and the host has heard of every key. Two cases are left
\* out, in which the code schedules nothing: a demand that an edit kept back and that ended
\* without a commit, and a response kept because its publication was refused while a
\* callback was out (realization.rs defer_realization_continuation,
\* schedule_realization_continuation, geometry.rs service_admitted_geometry_for_prepaint).
Settles ==
  []<>(\/ held = {} /\ widget.custody = <<>> /\ widget.job = NoJob
      \/ Deferred \/ Refused)
=============================================================================
