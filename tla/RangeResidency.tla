--------------------------- MODULE RangeResidency ---------------------------
(***************************************************************************)
(* The text pages a range text input holds and the pages it waits for      *)
(* (src/src/residency.rs, residency/admission.rs), within hard limits.     *)
(*                                                                         *)
(* A demand is answered from a resident page, coalesced with an equal one  *)
(* in flight, or sent to the host under a new request identity.  The host  *)
(* chooses the other edge of the page, answers in any order, late, twice   *)
(* or not at all; the widget retires requests, evicts and moves pages, and *)
(* rebinds to another source revision or to another extent of this one.    *)
(*                                                                         *)
(* A page is its range, its edges and at most one atom; its text is that   *)
(* of the source.  A call that returns an error and changes nothing, a     *)
(* late answer among them, is a stuttering step.                           *)
(***************************************************************************)
EXTENDS Naturals, FiniteSets, SequencesExt, Lists

CONSTANTS
  Generations,      \* bindings with their revisions
  Extents,          \* byte lengths a binding may give
  Cuts,             \* scalar boundaries at which the host cuts pages
  PageIds,          \* identities of payloads
  Purposes,         \* PagePurpose
  Demands,          \* the demands made
  Atoms,            \* atom facts pages may carry
  NoAtom,           \* a page without an atom
  MaxRequest,       \* BOUND: request identities are 1..MaxRequest
  MaxPages, MaxBytes, MaxPending, MaxPendingBytes   \* ResidencyLimits

\* A page payload of fewer bytes need not hold a scalar.
MinPayload == 4

\* PageDemandEnvelope: adjacent to a proven boundary, or around an unproven offset
DemandSpace == [type : {"Forward", "Backward", "Validation"}, at : Nat, max : Nat]

\* AtomFact: copy is the size of its fallback copy.
AtomSpace == [id : Nat, lo : Nat, hi : Nat, copy : Nat]

Requests == 1..MaxRequest
Keys == [id : Requests, gen : Generations, purpose : Purposes, demand : Demands]

ASSUME LimitsAssumption ==
  /\ MaxRequest \in Nat
  /\ \A limit \in {MaxPages, MaxBytes, MaxPending, MaxPendingBytes} : limit \in Nat \ {0}

ASSUME SourceAssumption ==
  /\ Extents \subseteq Nat /\ Cuts \subseteq Nat
  /\ Demands \subseteq {d \in DemandSpace : d.max >= MinPayload}
  /\ Atoms \subseteq {a \in AtomSpace : a.lo < a.hi}
  /\ NoAtom \notin Atoms

VARIABLES
  gen,            \* binding: its identity and revision
  extent,         \* binding: its byte length
  resident,       \* resident, least recently used first
  pending,        \* pending, oldest first
  cancelled,      \* cancelled, oldest first
  highest,        \* highest_request, 0 for None
  residentBytes,  \* resident_bytes
  pendingBytes    \* pending_bytes

vars == <<gen, extent, resident, pending, cancelled, highest, residentBytes, pendingBytes>>
bindingVars == <<gen, extent>>
pageVars == <<resident, residentBytes>>
requestVars == <<pending, cancelled, highest, pendingBytes>>

-----------------------------------------------------------------------------
(* Pages.                                                                  *)

PageSpace ==
  [id : PageIds, gen : Generations, demand : Demands, lo : Cuts, hi : Cuts,
   end : BOOLEAN,                  \* following is DocumentBoundary, end_of_source
   atom : Atoms \cup {NoAtom}]

\* A page the host returns for a request.
Page(key, id, lo, hi, end, atom) ==
  [id |-> id, gen |-> key.gen, demand |-> key.demand, lo |-> lo, hi |-> hi, end |-> end,
   atom |-> atom]

\* retained_bytes
Retained(page) == (page.hi - page.lo) + IF page.atom = NoAtom THEN 0 ELSE page.atom.copy

\* ByteRange::overlaps
Meets(a, b) == a.lo < b.hi /\ b.lo < a.hi

\* validate_envelope: the page is what its demand asked for.
Encloses(page) ==
  LET d == page.demand
  IN /\ page.lo <= page.hi /\ page.hi - page.lo <= d.max
     /\ d.type = "Forward" => page.lo = d.at /\ (page.lo < page.hi \/ page.end)
     /\ d.type = "Backward" => page.hi = d.at /\ (page.lo < page.hi \/ page.lo = 0)
     /\ d.type = "Validation" =>
          /\ page.lo <= d.at /\ d.at <= page.hi
          /\ page.lo < page.hi \/ page.lo = 0 \/ page.end

\* RangePage::new
Constructed(page) == Encloses(page) /\ (page.atom # NoAtom => Meets(page.atom, page))

\* What a resident page says of an atom and another page contradicts.
Contradicts(a, b) ==
  /\ a # NoAtom /\ b # NoAtom
  /\ IF a.id = b.id THEN a # b ELSE Meets(a, b)

\* Fault: atoms are not compared with those of the residents.
ValidAlone(page) ==
  /\ page.hi <= extent
  /\ page.atom # NoAtom => page.atom.hi <= extent
  /\ page.end <=> page.hi = extent

\* validate_page
Valid(page) ==
  /\ page.hi <= extent
  /\ page.atom # NoAtom => page.atom.hi <= extent
  /\ \A i \in DOMAIN resident : ~Contradicts(page.atom, resident[i].atom)
  /\ page.end <=> page.hi = extent

\* resident_satisfaction
Satisfies(page, d) ==
  /\ page.hi - page.lo <= d.max
  /\ d.type = "Forward" => page.lo = d.at /\ (page.lo < page.hi \/ page.end)
  /\ d.type = "Backward" => page.hi = d.at /\ (page.lo < page.hi \/ page.lo = 0)
  /\ d.type = "Validation" => page.lo <= d.at /\ d.at <= page.hi

TotalRetained(pages) == Total([i \in DOMAIN pages |-> Retained(pages[i])])
TotalAsked(keys) == Total([i \in DOMAIN keys |-> keys[i].demand.max])

-----------------------------------------------------------------------------
(* Demands.                                                                *)

\* remember_cancelled of each: the oldest are forgotten.
RememberEach(keys, gone) ==
  LET all == keys \o gone
      forgotten == IF Len(all) > MaxPending THEN Len(all) - MaxPending ELSE 0
  IN  SubSeq(all, forgotten + 1, Len(all))

Remember(keys, key) == RememberEach(keys, <<key>>)

\* The pending requests a transition names as retired, and the others.
Gone(retired) == Only(pending, retired)
Staying(retired) == Removed(pending, retired)

InFlight(keys, purpose, d) ==
  \E i \in DOMAIN keys : keys[i].purpose = purpose /\ keys[i].demand = d

Resident(d) == \E i \in DOMAIN resident : Satisfies(resident[i], d)

\* The demand is one that the binding has.
Demanded(d) == d.at <= extent

\* The pending bytes that stay when the named requests are retired.
Left(retired) == pendingBytes - TotalAsked(Gone(retired))

\* PageDemand::Requested: neither a resident page nor a request in flight answers it.
Requested(id, purpose, d, retired) ==
  /\ Demanded(d) /\ ~Resident(d)
  /\ id > highest
  /\ ~InFlight(Staying(retired), purpose, d)
  /\ Len(Staying(retired)) < MaxPending
  /\ Left(retired) + d.max <= MaxPendingBytes

\* commit_prepared_demand with a request
Send(id, purpose, d, retired) ==
  /\ pending' = Append(Staying(retired), [id |-> id, gen |-> gen, purpose |-> purpose, demand |-> d])
  /\ highest' = id
  /\ pendingBytes' = Left(retired) + d.max
  /\ cancelled' = RememberEach(cancelled, Gone(retired))

\* demand: an answer from a resident page or a request in flight changes nothing.
Demand(id, purpose, d) ==
  /\ Requested(id, purpose, d, {})
  /\ Send(id, purpose, d, {})
  /\ UNCHANGED <<bindingVars, pageVars>>

\* prepare_demand_after_retirement and commit_prepared_demand: one transition
\* retires requests and demands a page.
DemandAfterRetirement(id, purpose, d, retired) ==
  /\ \/ Requested(id, purpose, d, retired) /\ Send(id, purpose, d, retired)
     \/ /\ Demanded(d)
        /\ Resident(d) \/ (id > highest /\ InFlight(Staying(retired), purpose, d))
        /\ pending' = Staying(retired)
        /\ pendingBytes' = Left(retired)
        /\ cancelled' = RememberEach(cancelled, Gone(retired))
        /\ UNCHANGED highest
  /\ UNCHANGED <<bindingVars, pageVars>>

-----------------------------------------------------------------------------
(* Answers.                                                                *)

\* The pending request i is over.
Answered(i) ==
  /\ pending' = RemoveAt(pending, i)
  /\ pendingBytes' = pendingBytes - pending[i].demand.max
  /\ UNCHANGED highest

Overlaps(old, page) == Meets(old, page) \/ old.id = page.id

\* The residents that survive when the first n are evicted and the page replaces
\* what it overlaps.
Beside(page) == {old \in Range(resident) : ~Overlaps(old, page)}
Survivors(page, n) == Only(SubSeq(resident, n + 1, Len(resident)), Beside(page))

\* Fault: the new page is not counted among the resident pages.
FitsBeside(page, survivors) ==
  Len(survivors) <= MaxPages /\ TotalRetained(survivors) + Retained(page) <= MaxBytes

Fits(page, survivors) ==
  Len(survivors) < MaxPages /\ TotalRetained(survivors) + Retained(page) <= MaxBytes

\* Fault: pages are evicted from the most recent end.
EvictNewest(page) ==
  LET Prefix(n) == Only(SubSeq(resident, 1, Len(resident) - n), Beside(page))
      least == CHOOSE n \in 0..Len(resident) :
                 /\ Fits(page, Prefix(n))
                 /\ \A m \in 0..(n - 1) : ~Fits(page, Prefix(m))
  IN  Prefix(least)

\* The eviction loop of prepare_admit_storage: the least recent pages go until
\* the new one fits.
Kept(page) ==
  LET least == CHOOSE n \in 0..Len(resident) :
                 /\ Fits(page, Survivors(page, n))
                 /\ \A m \in 0..(n - 1) : ~Fits(page, Survivors(page, m))
  IN  Survivors(page, least)

\* admit: prepare_admit_storage and commit_prepared_admit
Admit(i, page) ==
  /\ Constructed(page) /\ Valid(page)
  /\ Retained(page) <= MaxBytes
  /\ Answered(i)
  /\ resident' = Append(Kept(page), page)
  /\ residentBytes' = TotalRetained(Kept(page)) + Retained(page)
  /\ UNCHANGED <<bindingVars, cancelled>>

\* settle and cancel
Settle(i, failure) ==
  /\ Answered(i)
  /\ cancelled' = IF failure = "Cancelled" THEN Remember(cancelled, pending[i]) ELSE cancelled
  /\ UNCHANGED <<bindingVars, pageVars>>

-----------------------------------------------------------------------------
(* Residents and bindings.                                                 *)

\* page_covering, page_by_id, commit_page_touch
Touch(i) ==
  /\ resident' = Append(RemoveAt(resident, i), resident[i])
  /\ UNCHANGED <<bindingVars, requestVars, residentBytes>>

\* evict
Evict(i) ==
  /\ resident' = RemoveAt(resident, i)
  /\ residentBytes' = residentBytes - Retained(resident[i])
  /\ UNCHANGED <<bindingVars, requestVars>>

NoPages == resident' = <<>> /\ residentBytes' = 0

\* take_resident_pages, take_resident_pages_into, discard_resident_pages
Discard == NoPages /\ UNCHANGED <<bindingVars, requestVars>>

\* rebind: the request identities of the same generation stay used.
Rebind(g, e) ==
  /\ gen' = g /\ extent' = e
  /\ NoPages
  /\ pending' = <<>> /\ pendingBytes' = 0 /\ cancelled' = <<>>
  /\ highest' = IF g = gen THEN highest ELSE 0

\* prepare_rebind_with_demand and commit_prepared_rebind; the widget takes the
\* identity from its own counter (transition.rs transition_ids)
RebindWithDemand(g, e, id, purpose, d) ==
  /\ g = gen => id > highest
  /\ d.at <= e
  /\ d.max <= MaxPendingBytes
  /\ gen' = g /\ extent' = e
  /\ NoPages
  /\ pending' = <<[id |-> id, gen |-> g, purpose |-> purpose, demand |-> d]>>
  /\ highest' = id
  /\ pendingBytes' = d.max
  /\ cancelled' = <<>>

\* dispose, discard_all
Dispose ==
  /\ NoPages
  /\ pending' = <<>> /\ pendingBytes' = 0 /\ cancelled' = <<>>
  /\ UNCHANGED <<bindingVars, highest>>

-----------------------------------------------------------------------------
Init ==
  /\ gen \in Generations /\ extent \in Extents
  /\ resident = <<>> /\ pending = <<>> /\ cancelled = <<>>
  /\ highest = 0 /\ residentBytes = 0 /\ pendingBytes = 0

Next ==
  \/ \E id \in Requests, purpose \in Purposes, d \in Demands :
       \/ Demand(id, purpose, d)
       \/ \E retired \in SUBSET Range(pending) : DemandAfterRetirement(id, purpose, d, retired)
       \/ \E g \in Generations, e \in Extents : RebindWithDemand(g, e, id, purpose, d)
  \/ \E i \in DOMAIN pending :
       \/ \E id \in PageIds, lo, hi \in Cuts, end \in BOOLEAN, atom \in Atoms \cup {NoAtom} :
            Admit(i, Page(pending[i], id, lo, hi, end, atom))
       \/ \E failure \in {"Cancelled", "Unavailable", "Malformed"} : Settle(i, failure)
  \/ \E i \in DOMAIN resident : Touch(i) \/ Evict(i)
  \/ Discard
  \/ \E g \in Generations, e \in Extents : Rebind(g, e)
  \/ Dispose

Spec == Init /\ [][Next]_vars

-----------------------------------------------------------------------------
(* Properties.                                                             *)

RequestsDistinct ==
  /\ \A i \in DOMAIN pending : pending[i].gen = gen /\ pending[i].id <= highest
  /\ \A i \in DOMAIN cancelled :
       /\ cancelled[i].gen = gen /\ cancelled[i].id <= highest
       /\ \A j \in DOMAIN pending : pending[j].id # cancelled[i].id
  /\ \A i, j \in DOMAIN pending : i < j =>
       /\ pending[i].id < pending[j].id
       /\ ~(pending[i].purpose = pending[j].purpose /\ pending[i].demand = pending[j].demand)

\* A request identity is in flight once and never again when it was cancelled, and no
\* purpose waits for the same demand twice: an answer is for exactly one request. The
\* counters are the sums they stand for and the hard limits hold, whatever
\* was evicted, replaced, retired or cancelled (residency.rs ResidencyCounts,
\* admission.rs prepare_admit_storage, residency.rs remember_cancelled,
\* demand, commit_prepared_demand, rebind).
CountsExact ==
  /\ RequestsDistinct
  /\ residentBytes = TotalRetained(resident) /\ residentBytes <= MaxBytes
  /\ pendingBytes = TotalAsked(pending) /\ pendingBytes <= MaxPendingBytes
  /\ Len(resident) <= MaxPages
  /\ Len(pending) <= MaxPending /\ Len(cancelled) <= MaxPending

\* Resident pages are pages of the current source that lie beside each other: none
\* overlap, no identity is held twice, no two say different things of an atom and
\* each one knows whether it ends the source; and who repeats the demand of one is
\* answered from it, so what admits a page and what finds it again agree (residency.rs
\* validate_page, rebind, resident_satisfaction, page_impl.rs validate_envelope).
ResidentsCohere ==
  /\ \A i \in DOMAIN resident :
       LET page == resident[i]
       IN /\ page.gen = gen /\ page.hi <= extent
          /\ page.end <=> page.hi = extent
          /\ Satisfies(page, page.demand)
  /\ \A i, j \in DOMAIN resident : i # j =>
       /\ ~Overlaps(resident[i], resident[j])
       /\ ~Contradicts(resident[i].atom, resident[j].atom)

AdmissionGivesUp ==
  (\E i \in DOMAIN pending : pending' = RemoveAt(pending, i)) /\ resident' \notin {resident, <<>>} =>
    LET page == Last(resident')
        kept == Front(resident')
        gone(k) == resident[k] \notin Range(kept)
        evicted == {k \in DOMAIN resident : gone(k) /\ ~Overlaps(resident[k], page)}
    IN \A k \in evicted :
         /\ \A j \in 1..(k - 1) : gone(j)
         /\ k = Max(evicted) => ~Fits(page, <<resident[k]>> \o kept)

\* An admission gives up the least recent pages first and stops as soon as the new
\* page fits: when a page went that the new one does not replace, every older page
\* went too, and the last that went would exceed a limit beside what stayed
\* (admission.rs prepare_admit_storage).
EvictsOldest == [][AdmissionGivesUp]_vars
=============================================================================
