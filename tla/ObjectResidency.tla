-------------------------- MODULE ObjectResidency --------------------------
(***************************************************************************)
(* The inline-object pages a range text input holds and waits for          *)
(* (src/src/object_residency.rs, object_residency/admission.rs,            *)
(* range_source/object), and the gaps between objects that they prove.     *)
(*                                                                         *)
(* Objects take no bytes: several may stand at one anchor, in the order    *)
(* the host gives them.  A demand is a piece of the source, a direction, a *)
(* cursor to go on from and limits; the host answers with a page of the    *)
(* objects beyond the cursor, a part of them or all.  Hosts answer late,   *)
(* in any order or wrongly: a page that contradicts a resident is refused. *)
(* An admission and the demand that follows it are prepared together from  *)
(* one state and committed together.  A call that returns an error changes *)
(* nothing and is a stuttering step.                                       *)
(***************************************************************************)
EXTENDS Naturals, FiniteSets, SequencesExt, Lists

CONSTANTS
  Generations,      \* bindings with their revision and presentation generation
  Extents,          \* byte lengths a binding may give
  Facts,            \* object facts that hosts send
  Objects,          \* the objects each generation of the source really has
  Demands,          \* the demands made
  Purposes,         \* ObjectPurpose
  PageIds,          \* identities of payloads
  MaxRequest,       \* BOUND: request identities are 1..MaxRequest
  MaxPages, MaxObjects, MaxBytes, MaxPresentation,   \* ObjectResidencyLimits, resident
  MaxPending, MaxPendingObjects, MaxPendingBytes     \* ObjectResidencyLimits, pending

None == [at |-> 0, order |-> 0, id |-> 0]     \* no cursor: orders start at 1

CursorSpace == [at : Nat, order : Nat, id : Nat]
FactSpace == [at : Nat, order : Nat \ {0}, id : Nat, payload : Nat]

\* ObjectDemandEnvelope: both edges of the interval are eligible; an Anchor is the
\* interval of one point.
DemandSpace ==
  [lo : Nat, hi : Nat, cursor : CursorSpace, forward : BOOLEAN, objects : Nat, bytes : Nat]

ContainsAnchor(d, at) == d.lo <= at /\ at <= d.hi

\* validate_local
ValidLocal(d) ==
  /\ d.objects > 0 /\ d.bytes > 0
  /\ d.cursor # None => ContainsAnchor(d, d.cursor.at)

Requests == 1..MaxRequest
Keys == [id : Requests, gen : Generations, purpose : Purposes, demand : Demands]

ASSUME LimitsAssumption ==
  /\ MaxRequest \in Nat
  /\ \A limit \in {MaxPages, MaxObjects, MaxBytes, MaxPresentation,
                   MaxPending, MaxPendingObjects, MaxPendingBytes} : limit \in Nat \ {0}

ASSUME SourceAssumption ==
  /\ Extents \subseteq Nat
  /\ Facts \subseteq FactSpace
  /\ Objects \in [Generations -> SUBSET Facts]
  /\ Demands \subseteq {d \in DemandSpace : d.lo <= d.hi /\ ValidLocal(d)}

VARIABLES
  gen,            \* binding and presentation_generation
  extent,         \* the binding's byte length
  resident,       \* resident, least recently used first
  pending,        \* pending, oldest first
  cancelled,      \* cancelled, oldest first
  highest,        \* highest_request, 0 for None
  held,           \* resident_objects, resident_bytes, resident_presentation_bytes
  asked,          \* pending_objects, pending_bytes
  answer          \* ObjectDemand of the last call, and its demand

vars == <<gen, extent, resident, pending, cancelled, highest, held, asked, answer>>
bindingVars == <<gen, extent>>
pageVars == <<resident, held>>
requestVars == <<pending, cancelled, highest, asked>>

NoAnswer == [type |-> "None"]

-----------------------------------------------------------------------------
(* Pages.  The objects of a page are in strict source order: a set.        *)

Cursor(o) == [at |-> o.at, order |-> o.order, id |-> o.id]

\* Ord of ObjectCursor
Precedes(a, b) ==
  \/ a.at < b.at
  \/ a.at = b.at /\ a.order < b.order
  \/ a.at = b.at /\ a.order = b.order /\ a.id < b.id

Earliest(objects) == CHOOSE o \in objects : \A p \in objects \ {o} : Precedes(o, p)
Latest(objects) == CHOOSE o \in objects : \A p \in objects \ {o} : Precedes(p, o)

\* An object lies beyond the exclusive cursor in the direction of the demand.
Beyond(d, o) ==
  \/ d.cursor = None
  \/ IF d.forward THEN Precedes(d.cursor, o) ELSE Precedes(o, d.cursor)

\* A page the host returns for a request.
Page(key, id, objects, complete) ==
  [id |-> id, key |-> key, objects |-> objects, complete |-> complete]

\* validate_continuation: where the next page goes on, and the facts about both
\* edges: None is EnvelopeBoundary, a cursor is Continues.
Continuation(page) ==
  IF page.complete THEN None
  ELSE Cursor(IF page.key.demand.forward THEN Latest(page.objects) ELSE Earliest(page.objects))
Preceding(page) == IF page.key.demand.forward THEN page.key.demand.cursor ELSE Continuation(page)
Following(page) == IF page.key.demand.forward THEN Continuation(page) ELSE page.key.demand.cursor

\* ObjectPageCharge; a record takes a unit.
Presentation(page) ==
  LET shown == SetToSeq(page.objects)
  IN Total([i \in DOMAIN shown |-> shown[i].payload])
Charge(page) ==
  LET count == Cardinality(page.objects)
      presentation == Presentation(page)
  IN [objects |-> count, bytes |-> 1 + count + presentation, presentation |-> presentation]

\* ObjectPage::new
Constructed(page) ==
  LET d == page.key.demand
  IN /\ Cardinality(page.objects) <= d.objects
     /\ \A o \in page.objects :
          /\ ContainsAnchor(d, o.at)
          /\ d.cursor # None =>
               o.id # d.cursor.id /\ ~(o.at = d.cursor.at /\ o.order = d.cursor.order)
          /\ Beyond(d, o)
          /\ \A p \in page.objects \ {o} :
               o.id # p.id /\ ~(o.at = p.at /\ o.order = p.order)
     /\ ~page.complete => page.objects # {}
     /\ Charge(page).bytes <= d.bytes

\* InlineObjectFact::reconciles_with, and the order key that two objects may not share
Contradict(o, p) ==
  \/ o.id = p.id /\ o # p
  \/ o.id # p.id /\ o.at = p.at /\ o.order = p.order

\* ObjectPage::reconciles_with: the request is not part of a page's identity.
ReconcilesWith(a, b) ==
  /\ a.objects = b.objects /\ a.complete = b.complete
  /\ Preceding(a) = Preceding(b) /\ Following(a) = Following(b)

\* validate_demand_extent
InExtent(d) == d.hi <= extent

\* validate_page_proofs; the text pages prove that the anchors are scalar boundaries.
Valid(page) ==
  /\ InExtent(page.key.demand)
  /\ \A i \in DOMAIN resident : resident[i].id = page.id => ReconcilesWith(page, resident[i])
  /\ \A o \in page.objects :
       /\ o.at <= extent
       /\ \A i \in DOMAIN resident : \A p \in resident[i].objects : ~Contradict(o, p)

-----------------------------------------------------------------------------
(* Gaps.  A position is an anchor and the objects on both sides of it      *)
(* there; None on both sides is NoObjects.                                 *)

Gap(at, preceding, following) == [at |-> at, preceding |-> preceding, following |-> following]

\* InlineObjectGap::between
Orderly(gap) ==
  gap.preceding # None /\ gap.following # None =>
    gap.preceding.id # gap.following.id /\ gap.preceding.order < gap.following.order

\* Fault: an edge that goes on from the anchor itself counts as the anchor's edge.
ReachesLoosely(page, at) ==
  \/ \E o \in page.objects : o.at < at
  \/ Preceding(page) = None \/ Preceding(page).at <= at

\* preceding_complete and following_complete: on this side of the anchor the page shows
\* what comes next, or reaches the edge of its envelope, or goes on from another anchor.
PrecedingComplete(page, at) ==
  \/ \E o \in page.objects : o.at < at
  \/ Preceding(page) = None \/ Preceding(page).at < at
FollowingComplete(page, at) ==
  \/ \E o \in page.objects : o.at > at
  \/ Following(page) = None \/ Following(page).at > at

\* Two objects stand next to each other among the given ones.
Adjacent(a, b, anchored) ==
  /\ {a, b} \subseteq anchored /\ Precedes(a, b)
  /\ \A o \in anchored : ~(Precedes(a, o) /\ Precedes(o, b))

\* page_proves_gap
ProvesGap(page, gap) ==
  LET anchored == {Cursor(o) : o \in {o \in page.objects : o.at = gap.at}}
      first == anchored # {} /\ gap.following = Earliest(anchored)
      last == anchored # {} /\ gap.preceding = Latest(anchored)
      NoObjects == gap.preceding = None /\ gap.following = None
      Before == gap.preceding = None /\ gap.following # None
      After == gap.preceding # None /\ gap.following = None
      Between == gap.preceding # None /\ gap.following # None
  IN /\ ContainsAnchor(page.key.demand, gap.at)
     /\ NoObjects => anchored = {}
     /\ Before => first
     /\ After => last
     /\ NoObjects \/ Before => PrecedingComplete(page, gap.at)
     /\ NoObjects \/ After => FollowingComplete(page, gap.at)
     /\ Between =>
          \/ Adjacent(gap.preceding, gap.following, anchored)
          \/ first /\ Preceding(page) = gap.preceding
          \/ last /\ Following(page) = gap.following

-----------------------------------------------------------------------------
(* Demands.                                                                *)

TotalObjects(keys) == Total([i \in DOMAIN keys |-> keys[i].demand.objects])
TotalBytes(keys) == Total([i \in DOMAIN keys |-> keys[i].demand.bytes])

Add(counts, key) ==
  [objects |-> counts.objects + key.demand.objects, bytes |-> counts.bytes + key.demand.bytes]
Subtract(counts, keys) ==
  [objects |-> counts.objects - TotalObjects(keys), bytes |-> counts.bytes - TotalBytes(keys)]

\* remember_cancelled, of one and of each that is retired: the last MaxPending of them
RememberEach(keys, gone) ==
  LET all == keys \o gone
  IN SubSeq(all, 1 + (IF Len(all) > MaxPending THEN Len(all) - MaxPending ELSE 0), Len(all))
Remember(keys, key) == RememberEach(keys, <<key>>)

Gone(retired) == Only(pending, retired)
Staying(retired) == Removed(pending, retired)

SameLane(key, purpose, d) == key.purpose = purpose /\ key.demand = d
SharesLane(a, b) == SameLane(a, b.purpose, b.demand)

\* demand and prepare_demand_after_retirement_from: the answer a demand has among the
\* given pages and the requests that are not retired; empty for an error.
Outcomes(pages, retired, id, purpose, d) ==
  LET key == [id |-> id, gen |-> gen, purpose |-> purpose, demand |-> d]
      holding == {i \in DOMAIN pages : SameLane(pages[i].key, purpose, d)}
      waiting == {i \in DOMAIN pending : pending[i] \notin retired /\ SameLane(pending[i], purpose, d)}
      left == Add(Subtract(asked, Gone(retired)), key)
  IN {answered \in
        {[type |-> "Resident", page |-> pages[i].id, key |-> key] : i \in holding} :
        InExtent(d)}
     \cup
     {answered \in
        {[type |-> "Coalesced", with |-> pending[i], key |-> key] : i \in waiting} :
        InExtent(d) /\ holding = {} /\ id > highest}
     \cup
     {answered \in {[type |-> "Requested", key |-> key]} :
        /\ InExtent(d) /\ holding = {} /\ waiting = {} /\ id > highest
        /\ Len(Staying(retired)) < MaxPending
        /\ left.objects <= MaxPendingObjects /\ left.bytes <= MaxPendingBytes}

\* commit_prepared_demand, of the requests that stay
Send(staying, counts, outcome) ==
  /\ answer' = outcome
  /\ IF outcome.type = "Requested"
     THEN /\ pending' = Append(staying, outcome.key)
          /\ asked' = Add(counts, outcome.key)
          /\ highest' = outcome.key.id
     ELSE pending' = staying /\ asked' = counts /\ UNCHANGED highest

\* demand; with retired requests prepare_demand_after_retirement_from and
\* commit_prepared_demand
Demand(id, purpose, d, retired) ==
  /\ \E outcome \in Outcomes(resident, retired, id, purpose, d) :
       Send(Staying(retired), Subtract(asked, Gone(retired)), outcome)
  /\ cancelled' = RememberEach(cancelled, Gone(retired))
  /\ UNCHANGED <<bindingVars, pageVars>>

-----------------------------------------------------------------------------
(* Answers.                                                                *)

NoHeld == [objects |-> 0, bytes |-> 0, presentation |-> 0]
Plus(counts, page) ==
  [objects |-> counts.objects + Charge(page).objects,
   bytes |-> counts.bytes + Charge(page).bytes,
   presentation |-> counts.presentation + Charge(page).presentation]
Minus(counts, page) ==
  [objects |-> counts.objects - Charge(page).objects,
   bytes |-> counts.bytes - Charge(page).bytes,
   presentation |-> counts.presentation - Charge(page).presentation]
TotalHeld(pages) ==
  [objects |-> Total([i \in DOMAIN pages |-> Charge(pages[i]).objects]),
   bytes |-> Total([i \in DOMAIN pages |-> Charge(pages[i]).bytes]),
   presentation |-> Total([i \in DOMAIN pages |-> Charge(pages[i]).presentation])]

WithinLimits(counts) ==
  /\ counts.objects <= MaxObjects /\ counts.bytes <= MaxBytes
  /\ counts.presentation <= MaxPresentation

\* Fault: a page that shows one of the objects stays.
ReplacesSameId(page, old) == old.id = page.id

\* A page replaces another when it has its identity or shows one of its objects.
Replaces(page, old) ==
  old.id = page.id \/ \E o \in page.objects, p \in old.objects : o.id = p.id

\* The residents that survive when the first n are evicted.
Survivors(page, n) ==
  Only(SubSeq(resident, n + 1, Len(resident)), {old \in Range(resident) : ~Replaces(page, old)})

Fits(page, survivors) ==
  Len(survivors) < MaxPages /\ WithinLimits(Plus(TotalHeld(survivors), page))

\* The eviction loop of prepare_storage: the least recent pages go until the new one fits.
Kept(page) ==
  LET least == CHOOSE n \in 0..Len(resident) :
                 /\ Fits(page, Survivors(page, n))
                 /\ \A m \in 0..(n - 1) : ~Fits(page, Survivors(page, m))
  IN  Survivors(page, least)

\* prepare_storage, and projected_resident_pages: what the residents will be.
Admissible(page) == Constructed(page) /\ Valid(page) /\ WithinLimits(Charge(page))
Projected(page) == Append(Kept(page), page)

\* remove_pending
Remaining(i) == RemoveAt(pending, i)
LessOne(i) == Subtract(asked, <<pending[i]>>)

Install(page) ==
  /\ resident' = Projected(page)
  /\ held' = TotalHeld(Projected(page))

\* admit: prepare_admit and commit_prepared_admit
Admit(i, page) ==
  /\ Admissible(page)
  /\ Install(page)
  /\ pending' = Remaining(i) /\ asked' = LessOne(i)
  /\ answer' = NoAnswer
  /\ UNCHANGED <<bindingVars, cancelled, highest>>

\* page_by_id, commit_page_touch: a page moves to the recent end.
Moved(pages, id) ==
  LET touched == {page \in Range(pages) : page.id = id}
  IN Removed(pages, touched) \o Only(pages, touched)

\* The touches of a response: the resident page that answers its successor's demand.
MovedFor(pages, outcome) ==
  IF outcome.type = "Resident" THEN Moved(pages, outcome.page) ELSE pages

\* Fault: the demand is answered from the residents the admission will replace.
RespondFromResidents(i, page, id, purpose, d) ==
  /\ Admissible(page)
  /\ \E outcome \in Outcomes(resident, {pending[i]}, id, purpose, d) :
       /\ Send(Remaining(i), LessOne(i), outcome)
       /\ resident' = MovedFor(Projected(page), outcome)
  /\ held' = TotalHeld(Projected(page))
  /\ UNCHANGED <<bindingVars, cancelled>>

\* prepare_nonterminal_response_publication and its commit: a response is admitted and
\* retires its request, and the geometry goes on with the next demand.
Respond(i, page, id, purpose, d) ==
  /\ Admissible(page)
  /\ \E outcome \in Outcomes(Projected(page), {pending[i]}, id, purpose, d) :
       /\ Send(Remaining(i), LessOne(i), outcome)
       /\ resident' = MovedFor(Projected(page), outcome)
  /\ held' = TotalHeld(Projected(page))
  /\ UNCHANGED <<bindingVars, cancelled>>

\* The same when the geometry consumed a page that was resident.
Resume(j, id, purpose, d) ==
  /\ \E outcome \in Outcomes(resident, {}, id, purpose, d) :
       /\ Send(pending, asked, outcome)
       /\ resident' = MovedFor(Moved(resident, resident[j].id), outcome)
  /\ UNCHANGED <<bindingVars, cancelled, held>>

\* settle and cancel
Settle(i, failure) ==
  /\ pending' = Remaining(i) /\ asked' = LessOne(i)
  /\ cancelled' = IF failure = "Cancelled" THEN Remember(cancelled, pending[i]) ELSE cancelled
  /\ answer' = NoAnswer
  /\ UNCHANGED <<bindingVars, pageVars, highest>>

-----------------------------------------------------------------------------
(* Residents and bindings.                                                 *)

\* page_by_id, commit_page_touch
Touch(j) ==
  /\ resident' = Moved(resident, resident[j].id)
  /\ answer' = NoAnswer
  /\ UNCHANGED <<bindingVars, requestVars, held>>

\* evict
Evict(j) ==
  /\ resident' = RemoveAt(resident, j)
  /\ held' = Minus(held, resident[j])
  /\ answer' = NoAnswer
  /\ UNCHANGED <<bindingVars, requestVars>>

NoPages == resident' = <<>> /\ held' = NoHeld
NoRequests == pending' = <<>> /\ cancelled' = <<>> /\ asked' = [objects |-> 0, bytes |-> 0]

\* take_resident_pages, take_resident_pages_into, discard_resident_pages
Discard ==
  /\ NoPages
  /\ answer' = NoAnswer
  /\ UNCHANGED <<bindingVars, requestVars>>

\* rebind, prepare_rebind and commit_prepared_rebind: the request identities of the same
\* generation stay used.
Rebind(g, e) ==
  /\ gen' = g /\ extent' = e
  /\ NoPages /\ NoRequests
  /\ highest' = IF g = gen THEN highest ELSE 0
  /\ answer' = NoAnswer

\* dispose, discard_all
Dispose ==
  /\ NoPages /\ NoRequests
  /\ answer' = NoAnswer
  /\ UNCHANGED <<bindingVars, highest>>

-----------------------------------------------------------------------------
Init ==
  /\ gen \in Generations /\ extent \in Extents
  /\ resident = <<>> /\ pending = <<>> /\ cancelled = <<>>
  /\ highest = 0
  /\ held = NoHeld /\ asked = [objects |-> 0, bytes |-> 0]
  /\ answer = NoAnswer

\* A page for the pending request i: finitely many objects.
Answers(i) ==
  {Page(pending[i], id, objects, complete) :
     id \in PageIds, objects \in {some \in SUBSET Facts : IsFiniteSet(some)}, complete \in BOOLEAN}

Next ==
  \/ \E id \in Requests, purpose \in Purposes, d \in Demands :
       \/ \E retired \in SUBSET Range(pending) : Demand(id, purpose, d, retired)
       \/ \E i \in DOMAIN pending : \E page \in Answers(i) : Respond(i, page, id, purpose, d)
       \/ \E j \in DOMAIN resident : Resume(j, id, purpose, d)
  \/ \E i \in DOMAIN pending :
       \/ \E page \in Answers(i) : Admit(i, page)
       \/ \E failure \in {"Cancelled", "Unavailable", "Malformed"} : Settle(i, failure)
  \/ \E j \in DOMAIN resident : Touch(j) \/ Evict(j)
  \/ Discard
  \/ \E g \in Generations, e \in Extents : Rebind(g, e)
  \/ Dispose

Spec == Init /\ [][Next]_vars

-----------------------------------------------------------------------------
(* Properties.                                                             *)

CountersAgree ==
  /\ held = TotalHeld(resident) /\ WithinLimits(held) /\ Len(resident) <= MaxPages
  /\ asked = [objects |-> TotalObjects(pending), bytes |-> TotalBytes(pending)]
  /\ asked.objects <= MaxPendingObjects /\ asked.bytes <= MaxPendingBytes
  /\ Len(pending) <= MaxPending /\ Len(cancelled) <= MaxPending

\* No lane of demands is answered by two pages, asked for twice, or asked for while it
\* is answered.
LanesDistinct ==
  /\ \A i, j \in DOMAIN resident : i # j => ~SharesLane(resident[i].key, resident[j].key)
  /\ \A i, j \in DOMAIN pending : i # j => ~SharesLane(pending[i], pending[j])
  /\ \A i \in DOMAIN resident, j \in DOMAIN pending : ~SharesLane(resident[i].key, pending[j])

\* The answer a demand was given names a page that is resident or a request that is in
\* flight once everything prepared with it is committed, evictions and retirements
\* included; lanes are served once, and the counters are the sums they stand for
\* (response_preparation.rs prepare_nonterminal_response_publication, response_commit.rs
\* commit_nonterminal_response_publication, object_residency.rs
\* prepare_demand_after_retirement_from, commit_page_touch, whose expect this is).
AnswersHold ==
  /\ CountersAgree /\ LanesDistinct
  /\ answer.type = "Resident" =>
       \E i \in DOMAIN resident :
         /\ resident[i].id = answer.page
         /\ SameLane(resident[i].key, answer.key.purpose, answer.key.demand)
  /\ answer.type = "Coalesced" => answer.with \in Range(pending)
  /\ answer.type = "Requested" => answer.key \in Range(pending)

\* Whatever hosts answer, the residents are one consistent view: no object is shown by
\* two pages, no two objects have one place, a payload is held once, and all lie in the
\* source (admission.rs prepare_storage replaced, object_residency.rs
\* validate_page_proofs).
ShownOnce ==
  /\ \A i, j \in DOMAIN resident : i # j =>
       /\ resident[i].id # resident[j].id
       /\ \A o \in resident[i].objects, p \in resident[j].objects :
            o.id # p.id /\ ~(o.at = p.at /\ o.order = p.order)
  /\ \A i \in DOMAIN resident : \A o \in resident[i].objects : o.at <= extent

Asked(d) == {o \in Objects[gen] : ContainsAnchor(d, o.at) /\ Beyond(d, o)}

\* The page says what the source has: the objects beyond a real cursor, none left out
\* on the way.
Truthful(page) ==
  LET d == page.key.demand
  IN /\ d.cursor # None => d.cursor \in {Cursor(o) : o \in Objects[gen]}
     /\ page.objects \subseteq Asked(d)
     /\ \A o \in Asked(d) \ page.objects : \A p \in page.objects :
          IF d.forward THEN Precedes(p, o) ELSE Precedes(o, p)
     /\ page.complete => page.objects = Asked(d)

\* The gap is between objects of the source that stand next to each other there.
TrueGap(gap) ==
  LET anchored == {Cursor(o) : o \in {o \in Objects[gen] : o.at = gap.at}}
  IN /\ gap.preceding = None /\ gap.following = None => anchored = {}
     /\ gap.preceding = None /\ gap.following # None =>
          anchored # {} /\ gap.following = Earliest(anchored)
     /\ gap.preceding # None /\ gap.following = None =>
          anchored # {} /\ gap.preceding = Latest(anchored)
     /\ gap.preceding # None /\ gap.following # None =>
          Adjacent(gap.preceding, gap.following, anchored)

Neighbours(at) == {None} \cup {[at |-> at, order |-> o.order, id |-> o.id] : o \in Facts}
Gaps ==
  {gap \in UNION {{Gap(at, before, after) : before, after \in Neighbours(at)} : at \in 0..extent} :
     Orderly(gap)}

\* A caret position is settled by one page: whatever gap a resident page of a truthful
\* host proves is a gap of the bound source in its bound presentation, and a page of
\* its whole envelope proves every gap there is in it (object_residency.rs
\* page_proves_gap, prove_position_gap, rebind).
GapsAreTrue ==
  \A i \in DOMAIN resident : Truthful(resident[i]) =>
    \A gap \in Gaps :
      /\ ProvesGap(resident[i], gap) => TrueGap(gap)
      /\ /\ resident[i].complete /\ resident[i].key.demand.cursor = None
         /\ ContainsAnchor(resident[i].key.demand, gap.at) /\ TrueGap(gap)
         => ProvesGap(resident[i], gap)
=============================================================================
