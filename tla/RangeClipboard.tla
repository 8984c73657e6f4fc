---------------------------- MODULE RangeClipboard ----------------------------
(***************************************************************************)
(* Copy and cut of a range-backed source: the coordinator that merges the  *)
(* text pages and the pages of inline objects of a selection into one      *)
(* capped text and asks the host to write it (src/src/range_clipboard.rs   *)
(* and range_clipboard/).                                                  *)
(*                                                                         *)
(* The source is fixed by constants; the host cuts it into pages where it  *)
(* likes, may fail, return too much or a malformed page, and settles the   *)
(* write.  The caller drives the merge one prepared step at a time: a step *)
(* is prepared from a state (Prepare) and committed in a later call, when  *)
(* it may have become stale (Commit).                                      *)
(*                                                                         *)
(* Text is a sequence of symbols: the offset of a source byte, or the      *)
(* symbols of the fallback copy of an atom or an object.  What a step      *)
(* charges the surface with is left out.                                   *)
(***************************************************************************)
EXTENDS SourcePositions, FiniteSets, SequencesExt, Lists

CONSTANTS
  Extent,       \* bytes of the source
  Cuts,         \* where the host ends text pages
  Breaks,       \* offsets of line breaks
  Atoms,        \* atoms in source order: [id, lo, hi, copy]
  Objects,      \* inline objects in source order, identities 1, 2, ...: [id, at, copy]
  Selections,   \* the selections taken: [start, end], positions of this source
  Policies,     \* policies a coordinator is made with
  MaxObjects,   \* most objects of an object page
  MaxBytes,     \* ClipboardLimits::max_bytes
  MaxOps,       \* BOUND: operations begun
  Retakes,      \* BOUND: the selections of operations after the first
  MaxRebinds,   \* BOUND: rebinds and changes of presentation
  MaxAsks       \* BOUND: pages asked for in one operation

\* The positions of this source.
PositionSpace == [at : 0..Extent, gap : (0..Len(Objects)) \X (0..Len(Objects))]

\* TextInputAtomClipboardPolicy, and ClipboardProvenanceLimits::max_page_items, 0
\* for Omit.
PolicySpace == [atoms : {"PlainText", "Propagate"}, items : Nat]

\* AtomFact, InlineObjectFact: a symbol is a number.
AtomSpace == [id : Nat \ {Null}, lo : 0..Extent, hi : 0..Extent, copy : Seq(Nat)]
ObjectSpace == [id : Nat \ {Null}, at : 0..Extent, copy : Seq(Nat)]

\* Pages whose atoms overlap or whose objects are out of order, and selections whose ends
\* are, are refused before they get here (RangePage::new, SourceRange::new).
ASSUME SourceAssumption ==
  /\ Extent \in Nat \ {0} /\ Cuts \subseteq 1..Extent /\ Extent \in Cuts
  /\ Breaks \subseteq 0..(Extent - 1)
  /\ Atoms \in Seq(AtomSpace) /\ \A i \in DOMAIN Atoms : Atoms[i].lo < Atoms[i].hi
  /\ \A i, j \in DOMAIN Atoms : i < j => Atoms[i].hi <= Atoms[j].lo
  /\ Objects \in Seq(ObjectSpace) /\ \A i \in DOMAIN Objects : Objects[i].id = i
  /\ \A i, j \in DOMAIN Objects : i < j => Objects[i].at <= Objects[j].at
  /\ Selections \subseteq [start : PositionSpace, end : PositionSpace] /\ Retakes \subseteq Selections
  /\ \A range \in Selections : Leads(range.start, range.end)

ASSUME LimitsAssumption ==
  /\ {MaxObjects, MaxBytes, MaxOps, MaxRebinds, MaxAsks} \subseteq Nat
  /\ MaxObjects > 0
  /\ Policies \subseteq PolicySpace

VARIABLES
  policy,        \* atom_policy, limits.provenance()
  binding,       \* binding and presentation_generation, counted together
  active,        \* active
  terminal,      \* last_terminal
  operations,    \* next_operation_identity
  held,          \* a step prepared and not committed: the caller's
  outcome        \* what the last call that made progress returned

vars == <<policy, binding, active, terminal, operations, held, outcome>>

NoClip == [state |-> "Idle"]
NoStep == [do |-> "None"]

-----------------------------------------------------------------------------
(* The positions of an object.                                              *)

\* leading_position, trailing_position: prior and next are the objects before and
\* after in source order, Null for none.
AtAnchor(o, object) == o # Null /\ Objects[o].at = object.at
Leading(object, prior) ==
  [at |-> object.at, gap |-> <<IF AtAnchor(prior, object) THEN prior ELSE Null, object.id>>]
Trailing(object, next) ==
  [at |-> object.at, gap |-> <<object.id, IF AtAnchor(next, object) THEN next ELSE Null>>]

-----------------------------------------------------------------------------
(* Pages.                                                                  *)

NoPage == <<>>

\* The atoms with a fragment on a page, in order, and the ends of that fragment.
Overlaps(lo, hi) == {i \in DOMAIN Atoms : Atoms[i].lo < hi /\ lo < Atoms[i].hi}
Fragments(lo, hi) ==
  IF Overlaps(lo, hi) = {} THEN <<>>
  ELSE SubSeq(Atoms, Min(Overlaps(lo, hi)), Max(Overlaps(lo, hi)))
FragmentStart(atom, lo) == IF atom.lo < lo THEN lo ELSE atom.lo
FragmentEnd(atom, hi) == IF atom.hi > hi THEN hi ELSE atom.hi

\* The objects a demand asks for: anchored in the selection, both edges included,
\* after the cursor.
Eligible(range, cursor) ==
  LET ids == {i \in DOMAIN Objects : /\ range.start.at <= Objects[i].at
                                     /\ Objects[i].at <= range.end.at /\ i > cursor}
  IN IF ids = {} THEN <<>> ELSE SubSeq(Objects, Min(ids), Max(ids))

Bytes(lo, hi) == [k \in 1..(hi - lo) |-> lo + k - 1]
LineBreaks(lo, hi) == Cardinality(Breaks \cap lo..(hi - 1))

-----------------------------------------------------------------------------
(* Prepared steps: prepare_next and what it calls.                         *)

Do(step) == [do |-> step]
Finish(completion) == [do |-> "Terminal", completion |-> completion]
NeedTextPage(target) == [do |-> "NeedTextPage", target |-> target]

\* builder_is_full, has_items
Full(a) == policy.items # 0 /\ Len(a.builder) = policy.items
HasItems(a) == a.builder # <<>>

\* prepare_output_capacity, else the step that appends
WithRoom(a, length, step) ==
  IF Len(a.output) + length > MaxBytes THEN Finish("TooLarge")
  ELSE IF Len(a.output) + length > 0 /\ ~a.backed THEN Do("AllocateOutput")
  ELSE step

AppendText(a, end) == [do |-> "AppendText", start |-> a.text.cursor, end |-> end]

\* prepare_text_response_step, for the next atom of the page
AtomStep(a, atom) ==
  LET start == FragmentStart(atom, a.text.lo)
      end == FragmentEnd(atom, a.text.hi)
      range == a.key.selection
  IN IF \/ start < a.text.cursor \/ end > a.text.end
        \/ atom.lo < range.start.at \/ atom.hi > range.end.at
     THEN Finish("Malformed")
     ELSE IF a.text.cursor < start
     THEN WithRoom(a, start - a.text.cursor, AppendText(a, start))
     ELSE IF atom.lo < a.text.lo
     THEN IF a.open = atom.id
          THEN [do |-> "AdvanceAtom", end |-> end, closes |-> atom.hi <= a.text.hi]
          ELSE Finish("Malformed")
     ELSE IF a.open # Null THEN Finish("Malformed")
     ELSE WithRoom(a, Len(atom.copy),
                   [do |-> "AppendAtom", atom |-> atom, end |-> end, opens |-> atom.hi > a.text.hi])

\* A fragment that starts in the demanded part of the page.
StartsOn(page, atom) == FragmentStart(atom, page.lo) < page.end
FindsAtom(page) ==
  LET fragments == Fragments(page.lo, page.hi)
  IN \E i \in DOMAIN fragments : StartsOn(page, fragments[i])

\* prepare_text_response_step
TextStep(a) ==
  LET fragments == Fragments(a.text.lo, a.text.hi)
  IN IF a.phase = "Classifying"
     THEN IF FindsAtom(a.text) THEN Finish("Propagate") ELSE Do("FinishText")
     ELSE IF a.text.next \in DOMAIN fragments /\ StartsOn(a.text, fragments[a.text.next])
     THEN AtomStep(a, fragments[a.text.next])
     ELSE IF a.open # Null /\ fragments = <<>> THEN Finish("Malformed")
     ELSE IF a.text.cursor < a.text.end
     THEN WithRoom(a, a.text.end - a.text.cursor, AppendText(a, a.text.end))
     ELSE Do("FinishText")

\* An end of the selection is one the source has.
Proven(position, proven, met) == proven \/ (position.gap = NoGap /\ ~met)

\* prepare_merge_step, without a current object
TakeStep(a) ==
  LET range == a.key.selection
  IN IF a.objects # NoPage
     THEN IF Head(a.objects).facts # <<>> THEN Do("TakeObject") ELSE Do("FinishObjects")
     ELSE IF ~a.complete THEN Do("NeedObjectPage")
     ELSE IF a.textCursor < range.end.at THEN NeedTextPage(range.end.at)
     ELSE IF \/ ~Proven(range.start, a.startProven, a.startMet)
             \/ ~Proven(range.end, a.endProven, a.endMet)
             \/ a.open # Null
     THEN Finish("Malformed")
     ELSE IF HasItems(a) THEN Do("EmitProvenance")
     ELSE Do("CompleteCollection")

\* prepare_merge_step, with the current object
ObjectStep(a) ==
  LET object == a.current[1]
      facts == IF a.objects = NoPage THEN <<>> ELSE Head(a.objects).facts
      next == IF facts = <<>> THEN Null ELSE Head(facts).id
      leading == Leading(object, a.prior)
      trailing == Trailing(object, next)
      selected == Leads(a.key.selection.start, leading) /\ Leads(trailing, a.key.selection.end)
      process == [do |-> "ProcessObject", selected |-> selected, leading |-> leading, trailing |-> trailing]
  IN IF a.objects # NoPage /\ facts = <<>> THEN Do("FinishObjects")
     ELSE IF next = Null /\ ~a.complete THEN Do("NeedObjectPage")
     ELSE IF a.textCursor < object.at THEN NeedTextPage(object.at)
     ELSE IF a.textCursor > object.at THEN Finish("Malformed")
     ELSE IF ~selected THEN process
     ELSE IF a.phase = "Classifying" THEN Finish("Propagate")
     ELSE WithRoom(a, Len(object.copy),
                   IF policy.items # 0 /\ ~a.building THEN Do("AllocateBuilder") ELSE process)

\* prepare_next
NextStep(a) ==
  IF Full(a) THEN Do("EmitProvenance")
  ELSE IF a.text # NoPage THEN TextStep([a EXCEPT !.text = Head(@)])
  ELSE IF a.current = NoPage THEN TakeStep(a)
  ELSE ObjectStep(a)

-----------------------------------------------------------------------------
(* Operations.                                                             *)

\* The active operation that commit_begin makes.
Begun(kind, key) ==
  [state |-> "CollectingObjects", key |-> key, kind |-> kind,
   phase |-> IF policy.atoms = "Propagate" THEN "Classifying" ELSE "Collecting",
   textCursor |-> key.selection.start.at, target |-> Null,
   pendingText |-> Null, pendingObjects |-> Null, asks |-> 0,
   objectCursor |-> Null, complete |-> FALSE, prior |-> Null, current |-> NoPage,
   text |-> NoPage, objects |-> NoPage,
   startProven |-> FALSE, endProven |-> FALSE, startMet |-> FALSE, endMet |-> FALSE,
   output |-> <<>>, backed |-> FALSE, open |-> Null, breaks |-> 0,
   building |-> FALSE, builder |-> <<>>, page |-> NoPage, chain |-> <<>>, count |-> 0]

\* The write request: the closure names every provenance page, in the order in
\* which they were acknowledged (the cumulative identity is a chain over them).
Write(a) ==
  [do |-> "Write", key |-> a.key, kind |-> a.kind, text |-> a.output,
   pages |-> a.chain, count |-> a.count, breaks |-> a.breaks]

\* The operation that awaits its write: only what the deletion needs is left of it.
Written(a) ==
  [a EXCEPT !.state = "AwaitingWrite", !.output = <<>>, !.backed = FALSE,
            !.pendingText = Null, !.pendingObjects = Null, !.building = FALSE, !.chain = <<>>]

\* complete_collection in phase Classifying: the text is collected from its start.
Restarted(a) ==
  [a EXCEPT !.phase = "Collecting", !.state = "CollectingText",
            !.textCursor = a.key.selection.start.at, !.target = a.key.selection.end.at,
            !.output = <<>>, !.open = Null, !.breaks = 0]

\* complete_collection
Complete(a) ==
  LET b == IF a.phase = "Classifying" THEN Restarted(a) ELSE a
  IN IF a.phase = "Classifying" /\ b.textCursor # b.target
     THEN active' = b /\ outcome' = NeedTextPage(b.target)
     ELSE active' = Written(b) /\ outcome' = Write(b)

\* finish: the operation is over, whatever it waits for.
Over(result) ==
  /\ active' = NoClip
  /\ terminal' = active.key
  /\ outcome' = result

Stale(token) == IF token = NoStep THEN NoStep ELSE [token EXCEPT !.fresh = FALSE]

Token(do, more) == [do |-> do, operation |-> operations, fresh |-> TRUE, of |-> more]

\* The begin is refused: busy, or the key of the last operation.
MayBegin(key) ==
  /\ active = NoClip /\ key # terminal
  /\ operations < MaxOps /\ (operations = 0 \/ key.selection \in Retakes)

\* commit_begin: an empty selection is complete at once.
Opens(kind, key) ==
  /\ operations' = operations + 1
  /\ IF key.selection.start = key.selection.end
     THEN Complete(Begun(kind, key))
     ELSE active' = Begun(kind, key) /\ outcome' = Do("NeedObjectPage")
  /\ UNCHANGED <<policy, binding, terminal>>

Key(id, selection) == [id |-> id, binding |-> binding, selection |-> selection]

\* begin: prepare_begin and commit_begin in one call
Begin(id, kind, selection) ==
  /\ MayBegin(Key(id, selection))
  /\ Opens(kind, Key(id, selection))
  /\ held' = Stale(held)

\* prepare_begin: the token names the binding, the operation and the key.
PrepareBegin(id, kind, selection) ==
  /\ MayBegin(Key(id, selection))
  /\ held' = Token("Begin", [kind |-> kind, key |-> Key(id, selection)])
  /\ UNCHANGED <<policy, binding, active, terminal, operations, outcome>>

\* The checks of commit_begin.
BeginsHere ==
  /\ held.do = "Begin" /\ held.fresh /\ held.operation = operations
  /\ MayBegin(held.of.key) /\ held.of.key.binding = binding

CommitBegin ==
  /\ BeginsHere
  /\ Opens(held.of.kind, held.of.key)
  /\ held' = NoStep

\* has_prepared_work
HasWork ==
  \/ active.state \in {"CollectingObjects", "CollectingText"}
  \/ active.state = "TextPagePending" /\ active.text # NoPage
  \/ active.state = "ObjectPagePending" /\ active.objects # NoPage

\* prepare_next: nothing else changes.
Prepare ==
  /\ HasWork
  /\ held' = Token("Step", NextStep(active))
  /\ UNCHANGED <<policy, binding, active, terminal, operations, outcome>>

\* request_text_page, request_object_page: made when a step says so.  The generation
\* of prepared steps does not change: that its caller drops the one it may hold is
\* assumed of the caller.
RequestText ==
  /\ outcome.do = "NeedTextPage" /\ active.state = "CollectingText" /\ active.asks < MaxAsks
  /\ active' = [active EXCEPT !.state = "TextPagePending", !.asks = @ + 1, !.pendingText = active.asks + 1]
  /\ outcome' = NoStep /\ held' = NoStep
  /\ UNCHANGED <<policy, binding, terminal, operations>>

RequestObjects ==
  /\ outcome.do = "NeedObjectPage" /\ active.state = "CollectingObjects" /\ active.asks < MaxAsks
  /\ active' = [active EXCEPT !.state = "ObjectPagePending", !.asks = @ + 1, !.pendingObjects = active.asks + 1]
  /\ outcome' = NoStep /\ held' = NoStep
  /\ UNCHANGED <<policy, binding, terminal, operations>>

\* Fault: line breaks of the page beyond the target are counted too.
BreaksOfPage(hi, end) == LineBreaks(active.textCursor, hi)

\* prepare_text_page: the line breaks of what is consumed, while the text is collected.
BreaksRead(hi, end) == IF active.phase = "Collecting" THEN LineBreaks(active.textCursor, end) ELSE 0

\* prepare_text_page and commit_text_page: the page is kept until it is consumed.
AdmitText(hi) ==
  LET end == IF hi < active.target THEN hi ELSE active.target
  IN /\ active.state # "Idle" /\ active.pendingText # Null /\ active.text = NoPage
     /\ hi > active.textCursor
     /\ active' = [active EXCEPT !.breaks = @ + BreaksRead(hi, end),
                     !.text = <<[lo |-> active.textCursor, hi |-> hi, end |-> end,
                                 cursor |-> active.textCursor, next |-> 1]>>]
     /\ held' = Stale(held) /\ outcome' = NoStep
     /\ UNCHANGED <<policy, binding, terminal, operations>>

\* prepare_object_page and commit_object_page: the host answers with the first n
\* objects the demand asks for, and says whether they are all.
AdmitObjects(n, complete) ==
  LET eligible == Eligible(active.key.selection, active.objectCursor)
  IN /\ active.state # "Idle" /\ active.pendingObjects # Null
     /\ active.objects = NoPage /\ active.text = NoPage
     /\ n <= Len(eligible)
     /\ IF complete THEN n = Len(eligible) ELSE n > 0
     /\ active' = [active EXCEPT !.objects = <<[facts |-> SubSeq(eligible, 1, n), complete |-> complete,
                                     continuation |-> IF complete THEN Null ELSE eligible[n].id]>>]
     /\ held' = Stale(held) /\ outcome' = NoStep
     /\ UNCHANGED <<policy, binding, terminal, operations>>

\* A page that is malformed or too large ends the operation (TerminalTextResponse,
\* TerminalObjectResponse).
AdmitFlawed(completion) ==
  /\ \/ active.state # "Idle" /\ active.pendingText # Null /\ active.text = NoPage
     \/ /\ active.state # "Idle" /\ active.pendingObjects # Null
        /\ active.objects = NoPage /\ active.text = NoPage
        /\ completion = "Malformed"
  /\ Over(Finish(completion))
  /\ held' = Stale(held)
  /\ UNCHANGED <<policy, binding, operations>>

\* settle_text_page, settle_object_page: also when the page is being consumed.
SettlePage(completion) ==
  /\ active.state # "Idle"
  /\ {active.pendingText, active.pendingObjects} # {Null}
  /\ Over(Finish(completion))
  /\ UNCHANGED <<policy, binding, operations, held>>

-----------------------------------------------------------------------------
(* Committed steps: commit_prepared.                                       *)

Item(object, start, end) == [object |-> object, start |-> start, end |-> end]

\* commit_object_step
Processed(a, step) ==
  LET object == a.current[1]
      range == a.key.selection
      gaps == {step.leading, step.trailing}
      length == Len(a.output)
  IN [a EXCEPT
        !.current = NoPage, !.prior = object.id,
        !.startMet = @ \/ object.at = range.start.at,
        !.startProven = @ \/ range.start \in gaps,
        !.endMet = @ \/ object.at = range.end.at,
        !.endProven = @ \/ range.end \in gaps,
        !.output = IF step.selected THEN @ \o object.copy ELSE @,
        !.builder = IF step.selected /\ a.building
                    THEN Append(@, Item(object.id, length, length + Len(object.copy))) ELSE @,
        !.count = IF step.selected /\ a.building THEN @ + 1 ELSE @]

\* FinishTextResponse
TextFinished(a) ==
  [a EXCEPT !.text = NoPage, !.pendingText = Null, !.textCursor = a.text[1].end,
            !.target = IF a.text[1].end = a.target THEN Null ELSE @,
            !.state = IF a.text[1].end = a.target THEN "CollectingObjects" ELSE "CollectingText"]

\* Fault: the operation goes on waiting for the page that was consumed.
ObjectsAwaited(a) ==
  [a EXCEPT !.objects = NoPage, !.pendingObjects = Null,
            !.objectCursor = a.objects[1].continuation, !.complete = a.objects[1].complete]

\* FinishObjectResponse
ObjectsFinished(a) ==
  [a EXCEPT !.objects = NoPage, !.pendingObjects = Null,
            !.objectCursor = a.objects[1].continuation, !.complete = a.objects[1].complete,
            !.state = "CollectingObjects"]

\* The page when its text is taken up to an offset, and n atoms more.
TakenTo(page, offset, n) == <<[page[1] EXCEPT !.cursor = offset, !.next = @ + n]>>

\* AppendAtom
AtomAppended(a, step) ==
  [a EXCEPT !.output = @ \o step.atom.copy, !.open = IF step.opens THEN step.atom.id ELSE Null,
            !.text = TakenTo(@, step.end, 1)]

\* The successor of the active operation under a step that does not end it and
\* asks for nothing.
Successor(a, step) ==
  CASE step.do = "AllocateOutput" -> [a EXCEPT !.backed = TRUE]
    [] step.do = "AllocateBuilder" -> [a EXCEPT !.building = TRUE]
    [] step.do = "AppendText" ->
         [a EXCEPT !.output = @ \o Bytes(step.start, step.end), !.text = TakenTo(@, step.end, 0)]
    [] step.do = "AppendAtom" -> AtomAppended(a, step)
    [] step.do = "AdvanceAtom" ->
         [a EXCEPT !.open = IF step.closes THEN Null ELSE @, !.text = TakenTo(@, step.end, 1)]
    [] step.do = "FinishText" -> TextFinished(a)
    [] step.do = "TakeObject" ->
         [a EXCEPT !.current = <<Head(a.objects[1].facts)>>, !.objects = <<[a.objects[1] EXCEPT !.facts = Tail(@)]>>]
    [] step.do = "ProcessObject" -> Processed(a, step)
    [] step.do = "FinishObjects" -> ObjectsFinished(a)
    [] step.do = "EmitProvenance" ->
         [a EXCEPT !.page = <<a.builder>>, !.builder = <<>>, !.building = FALSE,
                   !.state = "AwaitingProvenancePage"]
    [] step.do = "NeedTextPage" -> [a EXCEPT !.target = step.target, !.state = "CollectingText"]
    [] step.do = "NeedObjectPage" -> a

\* What the commit of such a step returns.
Progress(a, step) ==
  IF step.do \in {"NeedTextPage", "NeedObjectPage"} THEN step
  ELSE IF step.do = "FinishText" /\ Successor(a, step).state = "CollectingText"
  THEN NeedTextPage(a.target)
  ELSE NoStep

\* An allocation that was admitted may still fail (terminal_local_failure).
Allocates(step) == step.do \in {"AllocateOutput", "AllocateBuilder"}

Perform(step) ==
  \/ step.do = "Terminal" /\ Over(step)
  \/ step.do = "CompleteCollection" /\ Complete(active) /\ UNCHANGED terminal
  \/ /\ step.do \notin {"Terminal", "CompleteCollection"}
     /\ active' = Successor(active, step)
     /\ outcome' = Progress(active, step)
     /\ UNCHANGED terminal
  \/ Allocates(step) /\ Over(Finish("AllocationFailed"))

\* prepare_next and commit_prepared in one call, as the widget drives the merge.
\* A step that is held meanwhile is of an older generation.
Advance ==
  /\ HasWork
  /\ Perform(NextStep(active))
  /\ held' = Stale(held)
  /\ UNCHANGED <<policy, binding, operations>>

\* Fault: the generation of the step is not compared, only its kind.
AnyGeneration ==
  /\ held.do = "Step" /\ active # NoClip /\ held.operation = operations
  /\ HasWork /\ held.of.do = NextStep(active).do

\* check_prepared
Current == held.do = "Step" /\ held.fresh /\ active # NoClip /\ held.operation = operations

\* commit_prepared of a step prepared by an earlier call
Commit ==
  /\ Current
  /\ Perform(held.of)
  /\ held' = NoStep
  /\ UNCHANGED <<policy, binding, operations>>

-----------------------------------------------------------------------------
(* The host and the life of the coordinator.                               *)

\* ProvenanceCollection::acknowledge
Acknowledged(a) ==
  [a EXCEPT !.chain = Append(@, a.page[1]), !.page = NoPage, !.state = "CollectingObjects"]

\* acknowledge_provenance_page: the exact page goes on with the merge and returns
\* the next step; another page with its key ends the operation.
AcknowledgePage ==
  /\ active.state = "AwaitingProvenancePage"
  /\ \/ /\ active' = Acknowledged(active)
        /\ held' = Token("Step", NextStep(active'))
        /\ outcome' = NoStep /\ UNCHANGED terminal
     \/ Over(Finish("Collision")) /\ UNCHANGED held
  /\ UNCHANGED <<policy, binding, operations>>

\* Fault: a copy deletes what was written too.
DeletesAnyKind(written) == written = "Written"

Deletes(written) == written = "Written" /\ active.kind = "Cut"

\* acknowledge_write
AcknowledgeWrite(written) ==
  /\ active.state = "AwaitingWrite"
  /\ Over(IF Deletes(written)
          THEN [do |-> "Delete", key |-> active.key, breaks |-> active.breaks]
          ELSE Finish(written))
  /\ UNCHANGED <<policy, binding, operations, held>>

\* cancel, dispose
Cancel ==
  /\ active # NoClip
  /\ Over(Finish("Cancelled"))
  /\ UNCHANGED <<policy, binding, operations, held>>

\* rebind, commit_prepared_rebind, set_presentation_generation
Rebind ==
  /\ binding < MaxRebinds
  /\ binding' = binding + 1
  /\ IF active = NoClip THEN UNCHANGED <<active, terminal, outcome>>
                        ELSE Over(Finish("Cancelled"))
  /\ UNCHANGED <<policy, operations, held>>

-----------------------------------------------------------------------------
Init ==
  /\ policy \in Policies
  /\ binding = 0 /\ operations = 0
  /\ active = NoClip /\ held = NoStep /\ outcome = NoStep
  /\ terminal = NoStep

\* What the caller does with an operation, and what the host answers.
Requests == RequestText \/ RequestObjects
Answers ==
  \/ \E hi \in Cuts : AdmitText(hi)
  \/ \E n \in 0..MaxObjects, complete \in BOOLEAN : AdmitObjects(n, complete)
  \/ AcknowledgePage
  \/ \E written \in {"Written", "Failed", "Cancelled"} : AcknowledgeWrite(written)

Next ==
  \/ Advance \/ Requests \/ Answers
  \/ \E id \in 1..(operations + 1), kind \in {"Copy", "Cut"}, selection \in Selections :
       Begin(id, kind, selection) \/ PrepareBegin(id, kind, selection)
  \/ CommitBegin
  \/ Prepare \/ Commit
  \/ \E completion \in {"Malformed", "TextPageTooLarge"} : AdmitFlawed(completion)
  \/ \E completion \in {"Cancelled", "PageFailed"} : SettlePage(completion)
  \/ Cancel \/ Rebind

Spec == Init /\ [][Next]_vars

\* The widget keeps prepared work scheduled and asks for the page it is told of, and
\* the host answers what it is asked.
FairSpec == Spec /\ WF_vars(Advance) /\ WF_vars(Requests) /\ WF_vars(Answers)

-----------------------------------------------------------------------------
(* What a selection stands for.                                            *)

\* The positions a source has at an offset.
Real(p) ==
  LET here == {i \in DOMAIN Objects : Objects[i].at = p.at}
  IN IF here = {} THEN p.gap = NoGap
     ELSE p.gap \in {<<Null, Min(here)>>, <<Max(here), Null>>}
                    \cup {<<i, i + 1>> : i \in here \ {Max(here)}}

\* A selection the source has, that cuts no atom; no object is inside an atom of it.
Sound(range) ==
  /\ Real(range.start) /\ Real(range.end)
  /\ \A i \in DOMAIN Atoms :
       Atoms[i].lo < range.end.at /\ range.start.at < Atoms[i].hi =>
         /\ range.start.at <= Atoms[i].lo /\ Atoms[i].hi <= range.end.at
         /\ \A j \in DOMAIN Objects : ~(Atoms[i].lo < Objects[j].at /\ Objects[j].at < Atoms[i].hi)

Inside(o, range) ==
  /\ range.start.at <= o.at /\ o.at <= range.end.at
  /\ o.at = range.start.at => range.start.gap[1] < o.id
  /\ o.at = range.end.at => o.id <= range.end.gap[1]

\* Its objects, and its text: at each offset the objects there, then the source byte
\* or the copy of the atom that starts with it.
Selected(range) == {i \in DOMAIN Objects : Inside(Objects[i], range)}

SymbolsAt(p) ==
  LET over == {i \in DOMAIN Atoms : Atoms[i].lo <= p /\ p < Atoms[i].hi}
  IN IF over = {} THEN <<p>>
     ELSE IF \E i \in over : Atoms[i].lo = p THEN Atoms[CHOOSE i \in over : TRUE].copy
     ELSE <<>>

Copies(ids, p) ==
  [i \in DOMAIN Objects |-> IF i \in ids /\ Objects[i].at = p THEN Objects[i].copy ELSE <<>>]
Shown(ids, p) == Chained(Copies(ids, p), Len(Objects)) \o SymbolsAt(p)
TextOf(range, ids) ==
  Chained([k \in 1..(range.end.at - range.start.at) |-> Shown(ids, range.start.at + k - 1)],
          range.end.at - range.start.at)
    \o Chained(Copies(ids, range.end.at), Len(Objects))
SelectedText(range) == TextOf(range, Selected(range))

\* Something a propagating widget leaves to its host.
HasSpecial(range) ==
  \/ Selected(range) # {}
  \/ range.start.at < range.end.at /\ Overlaps(range.start.at, range.end.at) # {}

-----------------------------------------------------------------------------
(* Properties.                                                             *)

\* The text, its line breaks and the provenance are those of the selection.
WrittenIsSelected ==
  outcome.do = "Write" =>
    LET range == outcome.key.selection
        items == Chained(outcome.pages, Len(outcome.pages))
    IN /\ outcome.text = SelectedText(range)
       /\ outcome.breaks = LineBreaks(range.start.at, range.end.at)
       /\ Len(outcome.text) <= MaxBytes /\ outcome.key.binding = binding
       /\ policy.atoms = "Propagate" => ~HasSpecial(range)
       /\ policy.items # 0 =>
            /\ [i \in DOMAIN items |-> items[i].object] = Only([i \in DOMAIN Objects |-> i], Selected(range))
            /\ \A i \in DOMAIN items :
                 SubSeq(outcome.text, items[i].start + 1, items[i].end) = Objects[items[i].object].copy
            /\ outcome.count = Len(items)
            /\ \A i \in 1..(Len(outcome.pages) - 1) : Len(outcome.pages[i]) = policy.items

\* A selection the source has is never called malformed by the merge.
SoundSelectionsMerge ==
  active # NoClip /\ HasWork /\ Sound(active.key.selection) => NextStep(active) # Finish("Malformed")

\* However the host cuts the text and the objects into pages, at whatever offset a page
\* ends, inside an atom or between two objects of one anchor, and whatever was prepared
\* and left, the merge goes on, and the text written is the selection's, its line breaks
\* are the ones a cut will delete, and the provenance names each selected object once,
\* with the bytes that are its copy. What is written is within the cap, of the binding the
\* copy began in, and a widget that leaves atoms and objects to its host writes none
\* (collection.rs prepare_text_response_step, prepare_merge_step, complete_collection,
\* provenance.rs ProvenanceCollection::closure, range_clipboard.rs commit_begin).
WritesTheSelection == WrittenIsSelected /\ SoundSelectionsMerge

\* A step prepared earlier takes effect only as the step the merge would prepare now:
\* nothing is appended, taken or emitted twice (collection.rs check_prepared).
StepsStandWhenCommitted ==
  [][Commit => held.of = NextStep(active)]_vars

\* A deletion follows the successful write of the very selection, by a cut
\* (range_clipboard.rs acknowledge_write; doc/design.md "Cut writes the complete
\* clipboard representation first").
DeletesWhatWasWritten ==
  [][outcome'.do = "Delete" /\ outcome.do # "Delete" =>
       /\ outcome.do = "Write" /\ outcome.kind = "Cut"
       /\ outcome'.key = outcome.key /\ outcome'.breaks = outcome.breaks]_vars

\* A merge ends: it never asks for ever and no page is waited for twice
\* (collection.rs commit_prepared, design.md "accepted commit ... selected transition").
Ends == active # NoClip ~> active = NoClip
=============================================================================
