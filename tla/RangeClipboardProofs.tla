------------------------- MODULE RangeClipboardProofs -------------------------
(***************************************************************************)
(* Proofs about RangeClipboard for every source, selection, policy and     *)
(* bound.                                                                  *)
(*                                                                         *)
(* The text that is appended, the objects that are taken and the           *)
(* provenance that is kept are prefixes of those of the selection, each up *)
(* to a place that the others determine (Merging).  The pages come and go, *)
(* so the places are said of the source: the objects up to Done, the text  *)
(* up to Cursor.  That a request to write is right is this invariant at    *)
(* its end; that a sound selection is not refused on the way is that every *)
(* position and atom the merge meets is where the source has it.           *)
(*                                                                         *)
(* Neither action property follows from the step alone.  A step prepared   *)
(* in one call and committed in a later one stands only if nothing that    *)
(* changed the operation in between left it fresh (StepIsNext).  A         *)
(* deletion is made from what is left of an operation that awaits its      *)
(* write, so that must be what the request to write said (Writes), and     *)
(* neither a page nor a step may still reach it: no page is pending and    *)
(* no fresh step is held.                                                  *)
(***************************************************************************)
EXTENDS RangeClipboard, ListTheorems, FiniteSetTheorems

\* An active operation has the fields of one, a prepared step those of a token.
ClipFields ==
  {"state", "key", "kind", "phase", "textCursor", "target", "pendingText", "pendingObjects",
   "asks", "objectCursor", "complete", "prior", "current", "text", "objects", "startProven",
   "endProven", "startMet", "endMet", "output", "backed", "open", "breaks", "building",
   "builder", "page", "chain", "count"}
Shaped(a) == DOMAIN a = ClipFields

Prepared(token) ==
  token = [do |-> token.do, operation |-> token.operation, fresh |-> token.fresh, of |-> token.of]

Shapes ==
  /\ active = NoClip \/ Shaped(active)
  /\ held = NoStep \/ Prepared(held)

\* A fresh step is the next one of the operation, which has work.
StepIsNext == Current => HasWork /\ held.of = NextStep(active)

\* An operation that awaits its write is the one the request to write is of.
Writes ==
  /\ active.state = "AwaitingWrite" =>
       /\ active.pendingText = Null /\ active.pendingObjects = Null
       /\ outcome.do = "Write" /\ outcome.key = active.key /\ outcome.kind = active.kind
       /\ outcome.breaks = active.breaks
  /\ outcome.do = "Write" => active.state = "AwaitingWrite"

\* An operation is of the binding it began in.
OfThisBinding == active # NoClip => active.key.binding = binding

ClipInv == Shapes /\ StepIsNext /\ Writes /\ OfThisBinding

-----------------------------------------------------------------------------
(* Steps.                                                                  *)

\* The steps that neither end the operation nor write.
Proceeding ==
  {"AllocateOutput", "AllocateBuilder", "AppendText", "AppendAtom", "AdvanceAtom", "FinishText",
   "TakeObject", "ProcessObject", "FinishObjects", "EmitProvenance", "NeedTextPage",
   "NeedObjectPage"}

StepKinds == Proceeding \cup {"Terminal", "CompleteCollection"}

LEMMA StepNames ==
  /\ \A name : Do(name).do = name
  /\ \A completion : Finish(completion).do = "Terminal"
  /\ \A target : NeedTextPage(target).do = "NeedTextPage"
  /\ \A a, length, step : step.do \in StepKinds => WithRoom(a, length, step).do \in StepKinds
  BY DEF Do, Finish, NeedTextPage, WithRoom, StepKinds, Proceeding

LEMMA NextStepKind ==
  ASSUME NEW a
  PROVE  NextStep(a).do \in StepKinds
<1>1. \A b, end : AppendText(b, end).do \in StepKinds
  BY DEF AppendText, StepKinds, Proceeding
<1>2. ASSUME NEW b, NEW atom
      PROVE  AtomStep(b, atom).do \in StepKinds
  <2>1. PICK append, advance :
          /\ append = [do |-> "AppendAtom", atom |-> atom, end |-> FragmentEnd(atom, b.text.hi),
                       opens |-> atom.hi > b.text.hi]
          /\ advance = [do |-> "AdvanceAtom", end |-> FragmentEnd(atom, b.text.hi),
                        closes |-> atom.hi <= b.text.hi]
    OBVIOUS
  <2>2. append.do \in StepKinds /\ advance.do \in StepKinds /\ "Terminal" \in StepKinds
    BY <2>1 DEF StepKinds, Proceeding
  <2>3. AtomStep(b, atom) \in
          {Finish("Malformed"), advance, WithRoom(b, Len(atom.copy), append),
           WithRoom(b, FragmentStart(atom, b.text.lo) - b.text.cursor,
                    AppendText(b, FragmentStart(atom, b.text.lo)))}
    BY <2>1 DEF AtomStep
  <2> QED
    BY <1>1, <2>2, <2>3, StepNames
<1>3. ASSUME NEW b
      PROVE  TextStep(b).do \in StepKinds
  <2>1. \/ TextStep(b) \in
             {Finish("Propagate"), Finish("Malformed"), Do("FinishText"),
              WithRoom(b, b.text.end - b.text.cursor, AppendText(b, b.text.end))}
        \/ \E atom : TextStep(b) = AtomStep(b, atom)
    BY DEF TextStep
  <2>2. "Terminal" \in StepKinds /\ "FinishText" \in StepKinds
    BY DEF StepKinds, Proceeding
  <2> QED
    BY <1>1, <1>2, <2>1, <2>2, StepNames
<1>4. TakeStep(a).do \in StepKinds
  <2>1. TakeStep(a) \in
          {Do("TakeObject"), Do("FinishObjects"), Do("NeedObjectPage"), Finish("Malformed"),
           Do("EmitProvenance"), Do("CompleteCollection"), NeedTextPage(a.key.selection.end.at)}
    BY DEF TakeStep
  <2> QED
    BY <2>1, StepNames DEF StepKinds, Proceeding
<1>5. ObjectStep(a).do \in StepKinds
  <2>1. PICK allocate : allocate = Do("AllocateBuilder")
    OBVIOUS
  <2>2. PICK object, next :
          /\ object = a.current[1]
          /\ next = LET facts == IF a.objects = NoPage THEN <<>> ELSE Head(a.objects).facts
                    IN IF facts = <<>> THEN Null ELSE Head(facts).id
    OBVIOUS
  <2>3. PICK process :
          process = [do |-> "ProcessObject",
                     selected |-> /\ Leads(a.key.selection.start, Leading(object, a.prior))
                                  /\ Leads(Trailing(object, next), a.key.selection.end),
                     leading |-> Leading(object, a.prior), trailing |-> Trailing(object, next)]
    OBVIOUS
  <2>4. ObjectStep(a) \in
          {Do("FinishObjects"), Do("NeedObjectPage"), NeedTextPage(object.at),
           Finish("Malformed"), Finish("Propagate"), process,
           WithRoom(a, Len(object.copy), allocate),
           WithRoom(a, Len(object.copy), process)}
    BY <2>1, <2>2, <2>3 DEF ObjectStep
  <2>5. allocate.do \in StepKinds /\ process.do \in StepKinds
    BY <2>1, <2>3, StepNames DEF StepKinds, Proceeding
  <2>6. {"FinishObjects", "NeedObjectPage", "NeedTextPage", "Terminal"} \subseteq StepKinds
    BY DEF StepKinds, Proceeding
  <2> QED
    BY <2>4, <2>5, <2>6, StepNames
<1>6. "EmitProvenance" \in StepKinds
  BY DEF StepKinds, Proceeding
<1> QED
  BY <1>3, <1>4, <1>5, <1>6, StepNames DEF NextStep

Working == {"CollectingObjects", "CollectingText", "TextPagePending", "ObjectPagePending"}

\* An operation with work goes on as the same operation and does not await its write.
LEMMA SuccessorFacts ==
  ASSUME NEW a, Shaped(a), a.state \in Working, NEW step, step.do \in Proceeding
  PROVE  /\ Shaped(Successor(a, step)) /\ Successor(a, step).key = a.key
         /\ Successor(a, step).state # "AwaitingWrite"
         /\ Progress(a, step).do \in {"NeedTextPage", "NeedObjectPage", "None"}
<1>1. Shaped(AtomAppended(a, step)) /\ AtomAppended(a, step).key = a.key
      /\ AtomAppended(a, step).state = a.state
  BY DEF AtomAppended, Shaped, ClipFields
<1>2. Shaped(TextFinished(a)) /\ TextFinished(a).key = a.key
      /\ TextFinished(a).state \in {"CollectingObjects", "CollectingText"}
  BY DEF TextFinished, Shaped, ClipFields
<1>3. Shaped(Processed(a, step)) /\ Processed(a, step).key = a.key
      /\ Processed(a, step).state = a.state
  BY DEF Processed, Shaped, ClipFields
<1>4. Shaped(ObjectsFinished(a)) /\ ObjectsFinished(a).key = a.key
      /\ ObjectsFinished(a).state = "CollectingObjects"
  BY DEF ObjectsFinished, Shaped, ClipFields
<1>5. /\ Shaped(Successor(a, step)) /\ Successor(a, step).key = a.key
      /\ Successor(a, step).state # "AwaitingWrite"
  <2>1. CASE step.do = "AllocateOutput" BY <2>1 DEF Successor, Shaped, ClipFields, Working
  <2>2. CASE step.do = "AllocateBuilder" BY <2>2 DEF Successor, Shaped, ClipFields, Working
  <2>3. CASE step.do = "AppendText" BY <2>3 DEF Successor, Shaped, ClipFields, Working
  <2>4. CASE step.do = "AppendAtom" BY <1>1, <2>4 DEF Successor, Working
  <2>5. CASE step.do = "AdvanceAtom" BY <2>5 DEF Successor, Shaped, ClipFields, Working
  <2>6. CASE step.do = "FinishText" BY <1>2, <2>6 DEF Successor
  <2>7. CASE step.do = "TakeObject" BY <2>7 DEF Successor, Shaped, ClipFields, Working
  <2>8. CASE step.do = "ProcessObject" BY <1>3, <2>8 DEF Successor, Working
  <2>9. CASE step.do = "FinishObjects" BY <1>4, <2>9 DEF Successor
  <2>10. CASE step.do = "EmitProvenance" BY <2>10 DEF Successor, Shaped, ClipFields
  <2>11. CASE step.do = "NeedTextPage" BY <2>11 DEF Successor, Shaped, ClipFields
  <2>12. CASE step.do = "NeedObjectPage" BY <2>12 DEF Successor, Working
  <2> QED
    BY <2>1, <2>2, <2>3, <2>4, <2>5, <2>6, <2>7, <2>8, <2>9, <2>10, <2>11, <2>12 DEF Proceeding
<1>6. Progress(a, step).do \in {"NeedTextPage", "NeedObjectPage", "None"}
  BY StepNames DEF Progress, NoStep
<1> QED
  BY <1>5, <1>6

\* A collection that is complete goes on with its text or asks for its write.
LEMMA CompleteFacts ==
  ASSUME NEW a, Shaped(a), Complete(a)
  PROVE  /\ Shaped(active') /\ active'.key = a.key /\ Writes'
         /\ outcome'.do \in {"NeedTextPage", "Write"}
<1> DEFINE b == IF a.phase = "Classifying" THEN Restarted(a) ELSE a
<1>1. Shaped(b) /\ b.key = a.key
  BY DEF Restarted, Shaped, ClipFields
<1>2. CASE a.phase = "Classifying" /\ b.textCursor # b.target
  <2>1. active' = b /\ outcome' = NeedTextPage(b.target) /\ b.state = "CollectingText"
    BY <1>2 DEF Complete, Restarted, Shaped, ClipFields
  <2> HIDE DEF b
  <2> QED
    BY <1>1, <2>1, StepNames DEF Writes
<1>3. CASE ~(a.phase = "Classifying" /\ b.textCursor # b.target)
  <2>1. active' = Written(b) /\ outcome' = Write(b)
    BY <1>3 DEF Complete
  <2> HIDE DEF b
  <2>2. /\ Shaped(Written(b)) /\ Written(b).state = "AwaitingWrite"
        /\ Written(b).pendingText = Null /\ Written(b).pendingObjects = Null
        /\ Written(b).key = b.key /\ Written(b).kind = b.kind /\ Written(b).breaks = b.breaks
    BY <1>1 DEF Written, Shaped, ClipFields
  <2>3. /\ Write(b).do = "Write" /\ Write(b).key = b.key /\ Write(b).kind = b.kind
        /\ Write(b).breaks = b.breaks
    BY DEF Write
  <2> QED
    BY <1>1, <2>1, <2>2, <2>3 DEF Writes
<1> QED
  BY <1>2, <1>3

-----------------------------------------------------------------------------
(* The invariant.  What a step does to the operation and its outcome, and  *)
(* what it does to the step that is held, are shown apart.                 *)

\* The bodies of the action properties.
StandsWhenCommitted == Commit => held.of = NextStep(active)

DeletionFollowsWrite ==
  outcome'.do = "Delete" /\ outcome.do # "Delete" =>
    /\ outcome.do = "Write" /\ outcome.kind = "Cut"
    /\ outcome'.key = outcome.key /\ outcome'.breaks = outcome.breaks

\* What a step leaves of the operation and of what was asked of the host.
GoesOn ==
  /\ active' = NoClip \/ Shaped(active')
  /\ Writes' /\ OfThisBinding' /\ DeletionFollowsWrite

LEMMA NoClipFacts ==
  /\ NoClip.state = "Idle" /\ NoStep.do = "None"
  /\ HasWork => active # NoClip /\ active.state \in Working
  BY DEF NoClip, NoStep, HasWork, Working

\* An operation that ends asks for no write.
LEMMA OverGoesOn ==
  ASSUME NEW result, Over(result), result.do = "Terminal"
  PROVE  GoesOn
<1>1. active' = NoClip /\ outcome' = result
  BY DEF Over
<1>2. active'.state = "Idle"
  BY <1>1, NoClipFacts
<1> QED
  BY <1>1, <1>2 DEF GoesOn, Writes, OfThisBinding, DeletionFollowsWrite

\* Nor does one that goes on with its pages.
LEMMA PageGoesOn ==
  ASSUME Shaped(active'), active'.key.binding = binding', active'.state # "AwaitingWrite",
         outcome'.do \notin {"Write", "Delete"}
  PROVE  GoesOn
  BY DEF GoesOn, Writes, OfThisBinding, DeletionFollowsWrite

LEMMA SameGoesOn ==
  ASSUME ClipInv, UNCHANGED <<active, outcome, binding>>
  PROVE  GoesOn
  BY DEF ClipInv, Shapes, GoesOn, Writes, OfThisBinding, DeletionFollowsWrite

LEMMA PerformGoesOn ==
  ASSUME ClipInv, HasWork, NEW step, step.do \in StepKinds, Perform(step), binding' = binding
  PROVE  GoesOn
<1>1. Shaped(active) /\ active.state \in Working /\ active.key.binding = binding
  BY NoClipFacts DEF ClipInv, Shapes, OfThisBinding
<1>2. CASE step.do = "Terminal" /\ Over(step)
  BY <1>2, OverGoesOn
<1>3. CASE step.do = "CompleteCollection" /\ Complete(active) /\ UNCHANGED terminal
  <2>1. /\ Shaped(active') /\ active'.key = active.key /\ Writes'
        /\ outcome'.do \in {"NeedTextPage", "Write"}
    BY <1>1, <1>3, CompleteFacts
  <2> QED
    BY <1>1, <2>1 DEF GoesOn, OfThisBinding, DeletionFollowsWrite
<1>4. CASE /\ step.do \notin {"Terminal", "CompleteCollection"}
           /\ active' = Successor(active, step)
           /\ outcome' = Progress(active, step)
           /\ UNCHANGED terminal
  <2>1. step.do \in Proceeding
    BY <1>4 DEF StepKinds
  <2>2. /\ Shaped(active') /\ active'.key = active.key /\ active'.state # "AwaitingWrite"
        /\ outcome'.do \in {"NeedTextPage", "NeedObjectPage", "None"}
    BY <1>1, <1>4, <2>1, SuccessorFacts
  <2> QED
    BY <1>1, <2>2, PageGoesOn
<1>5. CASE Allocates(step) /\ Over(Finish("AllocationFailed"))
  BY <1>5, OverGoesOn, StepNames
<1> QED
  BY <1>2, <1>3, <1>4, <1>5 DEF Perform

LEMMA AdvanceGoesOn ==
  ASSUME ClipInv, Advance
  PROVE  GoesOn
  BY PerformGoesOn, NextStepKind DEF Advance

LEMMA CommitGoesOn ==
  ASSUME ClipInv, Commit
  PROVE  GoesOn
<1>1. HasWork /\ held.of.do \in StepKinds
  BY NextStepKind DEF Commit, ClipInv, StepIsNext
<1> QED
  BY <1>1, PerformGoesOn DEF Commit

LEMMA OpensGoesOn ==
  ASSUME NEW kind, NEW key, Opens(kind, key), key.binding = binding
  PROVE  GoesOn
<1>1. PICK a : a = Begun(kind, key)
  OBVIOUS
<1>2. Shaped(a) /\ a.key = key /\ a.state = "CollectingObjects"
  BY <1>1 DEF Begun, Shaped, ClipFields
<1>3. CASE key.selection.start = key.selection.end
  <2>1. Complete(a) /\ binding' = binding
    BY <1>1, <1>3 DEF Opens
  <2>2. /\ Shaped(active') /\ active'.key = key /\ Writes'
        /\ outcome'.do \in {"NeedTextPage", "Write"}
    BY <1>2, <2>1, CompleteFacts
  <2> QED
    BY <2>1, <2>2 DEF GoesOn, OfThisBinding, DeletionFollowsWrite
<1>4. CASE key.selection.start # key.selection.end
  <2>1. active' = a /\ outcome'.do = "NeedObjectPage" /\ binding' = binding
    BY <1>1, <1>4, StepNames DEF Opens
  <2> QED
    BY <1>2, <2>1, PageGoesOn
<1> QED
  BY <1>3, <1>4

\* Both begins are of the present binding.
LEMMA BeginsGoOn ==
  /\ \A id, kind, selection : Begin(id, kind, selection) => GoesOn
  /\ CommitBegin => GoesOn
<1>1. ASSUME NEW id, NEW kind, NEW selection, Begin(id, kind, selection) PROVE GoesOn
  <2>1. Key(id, selection).binding = binding
    BY DEF Key
  <2> QED
    BY <1>1, <2>1, OpensGoesOn DEF Begin
<1>2. ASSUME CommitBegin PROVE GoesOn
  BY <1>2, OpensGoesOn DEF CommitBegin, BeginsHere
<1> QED
  BY <1>1, <1>2

LEMMA RequestsGoOn ==
  ASSUME ClipInv, Requests
  PROVE  GoesOn
<1>1. Shaped(active) /\ active.key.binding = binding
  BY NoClipFacts DEF ClipInv, Shapes, OfThisBinding, Requests, RequestText, RequestObjects
<1>2. CASE RequestText
  <2>1. /\ Shaped(active') /\ active'.key = active.key /\ active'.state = "TextPagePending"
        /\ outcome'.do = "None" /\ binding' = binding
    BY <1>1, <1>2, NoClipFacts DEF RequestText, Shaped, ClipFields
  <2> QED
    BY <1>1, <2>1, PageGoesOn
<1>3. CASE RequestObjects
  <2>1. /\ Shaped(active') /\ active'.key = active.key /\ active'.state = "ObjectPagePending"
        /\ outcome'.do = "None" /\ binding' = binding
    BY <1>1, <1>3, NoClipFacts DEF RequestObjects, Shaped, ClipFields
  <2> QED
    BY <1>1, <2>1, PageGoesOn
<1> QED
  BY <1>2, <1>3 DEF Requests

\* A page reaches only an operation that waits for one, so none that awaits its write.
LEMMA PagesGoOn ==
  ASSUME ClipInv
  PROVE  /\ \A hi : AdmitText(hi) => GoesOn
         /\ \A n, complete : AdmitObjects(n, complete) => GoesOn
<1>1. ASSUME NEW hi, AdmitText(hi) PROVE GoesOn
  <2>1. Shaped(active) /\ active.key.binding = binding /\ active.state # "AwaitingWrite"
    BY <1>1, NoClipFacts DEF ClipInv, Shapes, OfThisBinding, Writes, AdmitText
  <2>2. /\ Shaped(active') /\ active'.key = active.key /\ active'.state = active.state
        /\ outcome'.do = "None" /\ binding' = binding
    BY <1>1, <2>1, NoClipFacts DEF AdmitText, Shaped, ClipFields
  <2> QED
    BY <2>1, <2>2, PageGoesOn
<1>2. ASSUME NEW n, NEW complete, AdmitObjects(n, complete) PROVE GoesOn
  <2>1. Shaped(active) /\ active.key.binding = binding /\ active.state # "AwaitingWrite"
    BY <1>2, NoClipFacts DEF ClipInv, Shapes, OfThisBinding, Writes, AdmitObjects
  <2>2. /\ Shaped(active') /\ active'.key = active.key /\ active'.state = active.state
        /\ outcome'.do = "None" /\ binding' = binding
    BY <1>2, <2>1, NoClipFacts DEF AdmitObjects, Shaped, ClipFields
  <2> QED
    BY <2>1, <2>2, PageGoesOn
<1> QED
  BY <1>1, <1>2

LEMMA AcknowledgePageGoesOn ==
  ASSUME ClipInv, AcknowledgePage
  PROVE  GoesOn
<1>1. CASE Over(Finish("Collision"))
  BY <1>1, OverGoesOn, StepNames
<1>2. CASE active' = Acknowledged(active) /\ outcome' = NoStep
  <2>1. Shaped(active) /\ active.key.binding = binding
    BY NoClipFacts DEF ClipInv, Shapes, OfThisBinding, AcknowledgePage
  <2>2. /\ Shaped(active') /\ active'.key = active.key /\ active'.state = "CollectingObjects"
        /\ outcome'.do = "None" /\ binding' = binding
    BY <1>2, <2>1, NoClipFacts DEF AcknowledgePage, Acknowledged, Shaped, ClipFields
  <2> QED
    BY <2>1, <2>2, PageGoesOn
<1> QED
  BY <1>1, <1>2 DEF AcknowledgePage

\* The deletion is of what the request to write named.
LEMMA AcknowledgeWriteGoesOn ==
  ASSUME ClipInv, NEW written, AcknowledgeWrite(written)
  PROVE  GoesOn
<1>1. PICK deletion : deletion = [do |-> "Delete", key |-> active.key, breaks |-> active.breaks]
  OBVIOUS
<1>2. CASE ~Deletes(written)
  <2>1. Over(Finish(written))
    BY <1>2 DEF AcknowledgeWrite
  <2> QED
    BY <2>1, OverGoesOn, StepNames
<1>3. CASE Deletes(written)
  <2>1. active' = NoClip /\ outcome' = deletion /\ active.kind = "Cut"
    BY <1>1, <1>3 DEF AcknowledgeWrite, Over, Deletes
  <2>2. outcome.do = "Write" /\ outcome.key = active.key /\ outcome.kind = active.kind
        /\ outcome.breaks = active.breaks
    BY DEF ClipInv, Writes, AcknowledgeWrite
  <2>3. DeletionFollowsWrite
    BY <1>1, <2>1, <2>2 DEF DeletionFollowsWrite
  <2>4. active'.state = "Idle" /\ outcome'.do = "Delete"
    BY <1>1, <2>1, NoClipFacts
  <2> QED
    BY <2>1, <2>3, <2>4 DEF GoesOn, Writes, OfThisBinding
<1> QED
  BY <1>2, <1>3

\* A new binding leaves no operation of the old one.
LEMMA RebindGoesOn ==
  ASSUME ClipInv, Rebind
  PROVE  GoesOn
<1>1. CASE active = NoClip
  BY <1>1 DEF Rebind, ClipInv, GoesOn, Writes, OfThisBinding, DeletionFollowsWrite
<1>2. CASE active # NoClip
  BY <1>2, OverGoesOn, StepNames DEF Rebind
<1> QED
  BY <1>1, <1>2

LEMMA NextGoesOn ==
  ASSUME ClipInv, [Next]_vars
  PROVE  GoesOn
<1>1. CASE Advance BY <1>1, AdvanceGoesOn
<1>2. CASE Requests BY <1>2, RequestsGoOn
<1>3. CASE Answers BY <1>3, PagesGoOn, AcknowledgePageGoesOn, AcknowledgeWriteGoesOn DEF Answers
<1>4. ASSUME NEW id, NEW kind, NEW selection, Begin(id, kind, selection) PROVE GoesOn
  BY <1>4, BeginsGoOn
<1>5. ASSUME NEW id, NEW kind, NEW selection, PrepareBegin(id, kind, selection) PROVE GoesOn
  BY <1>5, SameGoesOn DEF PrepareBegin
<1>6. CASE CommitBegin BY <1>6, BeginsGoOn
<1>7. CASE Prepare BY <1>7, SameGoesOn DEF Prepare
<1>8. CASE Commit BY <1>8, CommitGoesOn
<1>9. ASSUME NEW completion, AdmitFlawed(completion) PROVE GoesOn
  BY <1>9, OverGoesOn, StepNames DEF AdmitFlawed
<1>10. ASSUME NEW completion, SettlePage(completion) PROVE GoesOn
  BY <1>10, OverGoesOn, StepNames DEF SettlePage
<1>11. CASE Cancel BY <1>11, OverGoesOn, StepNames DEF Cancel
<1>12. CASE Rebind BY <1>12, RebindGoesOn
<1>13. CASE UNCHANGED vars BY <1>13, SameGoesOn DEF vars
<1> QED
  BY <1>1, <1>2, <1>3, <1>4, <1>5, <1>6, <1>7, <1>8, <1>9, <1>10, <1>11, <1>12, <1>13 DEF Next

-----------------------------------------------------------------------------
(* The step that is held.                                                  *)

HeldStands == (held' = NoStep \/ Prepared(held')) /\ StepIsNext'

\* A step is held no more, is out of date, or its operation is over.
LEMMA HeldLapses ==
  ASSUME ClipInv,
         \/ held' \in {NoStep, Stale(held)}
         \/ held' = held /\ active' = NoClip
  PROVE  HeldStands
<1>1. CASE held' = NoStep
  BY <1>1, NoClipFacts DEF HeldStands, StepIsNext, Current
<1>2. CASE held' = Stale(held)
  <2>1. held = NoStep \/ Prepared(held)
    BY DEF ClipInv, Shapes
  <2>2. CASE held = NoStep
    BY <1>1, <1>2, <2>2 DEF Stale
  <2>3. CASE held # NoStep
    <3>1. held' = [held EXCEPT !.fresh = FALSE]
      BY <1>2, <2>3 DEF Stale
    <3>2. Prepared(held') /\ ~held'.fresh
      BY <2>1, <2>3, <3>1 DEF Prepared
    <3> QED
      BY <3>2 DEF HeldStands, StepIsNext, Current
  <2> QED
    BY <2>2, <2>3
<1>3. CASE held' = held /\ active' = NoClip
  BY <1>3 DEF ClipInv, Shapes, HeldStands, StepIsNext, Current, Prepared
<1> QED
  BY <1>1, <1>2, <1>3

\* The next step depends on the operation and the policy, which no step changes.
LEMMA NextStepLater ==
  ASSUME policy' = policy
  PROVE  NextStep(active)' = NextStep(active')
  BY DEF NextStep, Full, ObjectStep

LEMMA TokenFacts ==
  ASSUME NEW do, NEW of, held' = Token(do, of)
  PROVE  Prepared(held') /\ held'.do = do /\ held'.of = of
  BY DEF Token, Prepared

LEMMA NextHeld ==
  ASSUME ClipInv, [Next]_vars
  PROVE  HeldStands
<1>1. CASE Advance BY <1>1, HeldLapses DEF Advance
<1>2. CASE Requests BY <1>2, HeldLapses DEF Requests, RequestText, RequestObjects
<1>3. CASE Answers
  <2>1. ASSUME NEW hi, AdmitText(hi) PROVE HeldStands
    BY <2>1, HeldLapses DEF AdmitText
  <2>2. ASSUME NEW n, NEW complete, AdmitObjects(n, complete) PROVE HeldStands
    BY <2>2, HeldLapses DEF AdmitObjects
  <2>3. CASE AcknowledgePage
    <3>1. CASE active' = Acknowledged(active) /\ held' = Token("Step", NextStep(active'))
      <4>1. Shaped(active)
        BY <2>3, NoClipFacts DEF ClipInv, Shapes, AcknowledgePage
      <4>2. active'.state = "CollectingObjects"
        BY <3>1, <4>1 DEF Acknowledged, Shaped, ClipFields
      <4> QED
        BY <2>3, <3>1, <4>2, TokenFacts, NextStepLater
           DEF AcknowledgePage, HeldStands, StepIsNext, HasWork
    <3>2. CASE Over(Finish("Collision")) /\ held' = held
      BY <3>2, HeldLapses DEF Over
    <3> QED
      BY <2>3, <3>1, <3>2 DEF AcknowledgePage
  <2>4. ASSUME NEW written, AcknowledgeWrite(written) PROVE HeldStands
    BY <2>4, HeldLapses DEF AcknowledgeWrite, Over
  <2> QED
    BY <1>3, <2>1, <2>2, <2>3, <2>4 DEF Answers
<1>4. ASSUME NEW id, NEW kind, NEW selection, Begin(id, kind, selection) PROVE HeldStands
  BY <1>4, HeldLapses DEF Begin
<1>5. ASSUME NEW id, NEW kind, NEW selection, PrepareBegin(id, kind, selection)
      PROVE  HeldStands
  <2>1. Prepared(held') /\ held'.do = "Begin"
    BY <1>5, TokenFacts DEF PrepareBegin
  <2> QED
    BY <2>1 DEF HeldStands, StepIsNext, Current
<1>6. CASE CommitBegin BY <1>6, HeldLapses DEF CommitBegin
<1>7. CASE Prepare
  <2>1. /\ Prepared(held') /\ held'.of = NextStep(active) /\ active' = active /\ HasWork
        /\ policy' = policy
    BY <1>7, TokenFacts DEF Prepare
  <2> QED
    BY <2>1, NextStepLater DEF HeldStands, StepIsNext, HasWork
<1>8. CASE Commit BY <1>8, HeldLapses DEF Commit
<1>9. ASSUME NEW completion, AdmitFlawed(completion) PROVE HeldStands
  BY <1>9, HeldLapses DEF AdmitFlawed
<1>10. ASSUME NEW completion, SettlePage(completion) PROVE HeldStands
  BY <1>10, HeldLapses DEF SettlePage, Over
<1>11. CASE Cancel BY <1>11, HeldLapses DEF Cancel, Over
<1>12. CASE Rebind BY <1>12, HeldLapses DEF Rebind, Over
<1>13. CASE UNCHANGED vars
  BY <1>13, NextStepLater
     DEF vars, ClipInv, Shapes, HeldStands, StepIsNext, Current, HasWork, Prepared
<1> QED
  BY <1>1, <1>2, <1>3, <1>4, <1>5, <1>6, <1>7, <1>8, <1>9, <1>10, <1>11, <1>12, <1>13 DEF Next

-----------------------------------------------------------------------------
(* The theorems.                                                           *)

LEMMA ClipInit == ASSUME Init PROVE ClipInv
  BY NoClipFacts DEF Init, ClipInv, Shapes, StepIsNext, Current, Writes, OfThisBinding

LEMMA ClipStep == ASSUME ClipInv, [Next]_vars PROVE ClipInv'
  BY NextGoesOn, NextHeld DEF GoesOn, HeldStands, ClipInv, Shapes

\* A fresh step is the next step of an operation with work, an operation that awaits its
\* write is the one the request to write is of and waits for no page, and every operation
\* is of the present binding (collection.rs check_prepared, range_clipboard.rs rebind).
THEOREM ClipInvariant == Spec => []ClipInv
  BY ClipInit, ClipStep, PTL DEF Spec

\* A step prepared in an earlier call takes effect only as the step the merge would
\* prepare now (collection.rs check_prepared).
THEOREM StepsStandHolds == Spec => StepsStandWhenCommitted
<1>1. ClipInv /\ [Next]_vars => [StandsWhenCommitted]_vars
  BY DEF StandsWhenCommitted, Commit, ClipInv, StepIsNext
<1> QED
  BY ClipInvariant, <1>1, PTL DEF Spec, StepsStandWhenCommitted, StandsWhenCommitted

\* What is deleted is what the host wrote: the same selection, of the same binding, by a
\* cut, with the line breaks the request to write counted (range_clipboard.rs
\* acknowledge_write).
THEOREM DeletesWhatWasWrittenHolds == Spec => DeletesWhatWasWritten
<1>1. ClipInv /\ [Next]_vars => [DeletionFollowsWrite]_vars
  BY NextGoesOn DEF GoesOn
<1> QED
  BY ClipInvariant, <1>1, PTL DEF Spec, DeletesWhatWasWritten, DeletionFollowsWrite

-----------------------------------------------------------------------------
(* The source.                                                             *)

LEMMA MinFacts ==
  ASSUME NEW T, T \subseteq Nat, T # {}
  PROVE  Min(T) \in T /\ \A y \in T : Min(T) <= y
  BY LeastNatural DEF Min

LEMMA MaxFacts ==
  ASSUME NEW n \in Nat, NEW T, T \subseteq 0..n, T # {}
  PROVE  Max(T) \in T /\ \A y \in T : y <= Max(T)
<1> DEFINE U == {k \in Nat : n - k \in T}
<1>1. \E k \in Nat : k \in U
  <2>1. PICK x \in T : x \in 0..n
    OBVIOUS
  <2>2. n - x \in Nat /\ n - (n - x) = x
    BY <2>1
  <2> QED
    BY <2>1, <2>2
<1>2. U \subseteq Nat /\ U # {}
  BY <1>1
<1> HIDE DEF U
<1>3. PICK k \in U : \A m \in U : k <= m
  BY <1>2, LeastNatural
<1>4. n - k \in T /\ k \in Nat
  BY <1>3 DEF U
<1>5. ASSUME NEW y \in T PROVE y <= n - k
  <2>1. y \in 0..n
    OBVIOUS
  <2>2. n - y \in U
    BY <2>1 DEF U
  <2>3. k <= n - y
    BY <1>3, <2>2
  <2> QED
    BY <1>4, <2>1, <2>3
<1> QED
  BY <1>4, <1>5 DEF Max

LEMMA SourceFacts ==
  /\ Extent \in Nat \ {0}
  /\ Objects \in Seq(ObjectSpace) /\ Len(Objects) \in Nat /\ DOMAIN Objects = 1..Len(Objects)
  /\ Atoms \in Seq(AtomSpace) /\ Len(Atoms) \in Nat /\ DOMAIN Atoms = 1..Len(Atoms)
  BY SourceAssumption

LEMMA ObjectFacts ==
  /\ \A i \in 1..Len(Objects) :
       /\ Objects[i] = [id |-> i, at |-> Objects[i].at, copy |-> Objects[i].copy]
       /\ Objects[i].id = i /\ Objects[i].at \in Nat /\ Objects[i].at <= Extent
       /\ Objects[i].copy \in Seq(Nat)
  /\ \A i, j \in 1..Len(Objects) : i <= j => Objects[i].at <= Objects[j].at
<1>1. ASSUME NEW i \in 1..Len(Objects)
      PROVE  /\ Objects[i] = [id |-> i, at |-> Objects[i].at, copy |-> Objects[i].copy]
             /\ Objects[i].id = i /\ Objects[i].at \in Nat /\ Objects[i].at <= Extent
             /\ Objects[i].copy \in Seq(Nat)
  <2>1. Objects[i] \in ObjectSpace /\ Objects[i].id = i
    BY SourceFacts, SourceAssumption
  <2> QED
    BY <2>1, SourceFacts DEF ObjectSpace
<1>2. ASSUME NEW i \in 1..Len(Objects), NEW j \in 1..Len(Objects), i <= j
      PROVE  Objects[i].at <= Objects[j].at
  <2>0. PICK x : x = Objects[i].at
    OBVIOUS
  <2>1. CASE i = j
    <3>1. x \in Nat /\ Objects[j].at = x
      BY <1>1, <2>0, <2>1
    <3> QED
      BY <2>0, <3>1
  <2>2. CASE i < j
    BY <2>2, SourceFacts, SourceAssumption
  <2> QED
    BY <1>2, <2>1, <2>2, SourceFacts
<1> QED
  BY <1>1, <1>2

LEMMA AtomFacts ==
  /\ \A i \in 1..Len(Atoms) :
       /\ Atoms[i].id # Null /\ Atoms[i].lo \in Nat /\ Atoms[i].hi \in Nat /\ Atoms[i].lo < Atoms[i].hi
       /\ Atoms[i].hi <= Extent /\ Atoms[i].copy \in Seq(Nat)
  /\ \A i, j \in 1..Len(Atoms) : i < j => Atoms[i].hi <= Atoms[j].lo
  /\ \A i, j \in 1..Len(Atoms) : Atoms[i].lo < Atoms[j].hi /\ Atoms[j].lo < Atoms[i].hi => i = j
<1>1. ASSUME NEW i \in 1..Len(Atoms)
      PROVE  /\ Atoms[i].id # Null /\ Atoms[i].lo \in Nat /\ Atoms[i].hi \in Nat /\ Atoms[i].lo < Atoms[i].hi
             /\ Atoms[i].hi <= Extent /\ Atoms[i].copy \in Seq(Nat)
  <2>1. Atoms[i] \in AtomSpace /\ Atoms[i].lo < Atoms[i].hi
    BY SourceFacts, SourceAssumption
  <2> QED
    BY <2>1, SourceFacts DEF AtomSpace
<1>2. \A i, j \in 1..Len(Atoms) : i < j => Atoms[i].hi <= Atoms[j].lo
  BY SourceFacts, SourceAssumption
<1>3. ASSUME NEW i \in 1..Len(Atoms), NEW j \in 1..Len(Atoms),
             Atoms[i].lo < Atoms[j].hi, Atoms[j].lo < Atoms[i].hi
      PROVE  i = j
  <2>1. /\ Atoms[i].lo \in Nat /\ Atoms[i].hi \in Nat /\ Atoms[j].lo \in Nat /\ Atoms[j].hi \in Nat
        /\ i \in Nat /\ j \in Nat
    BY <1>1, SourceFacts
  <2>2. ~(i < j) /\ ~(j < i)
    BY <1>2, <1>3, <2>1
  <2> QED
    BY <2>1, <2>2
<1> QED
  BY <1>1, <1>2, <1>3

LEMMA SelectionFacts ==
  ASSUME NEW range \in Selections
  PROVE  /\ range.start.at \in Nat /\ range.end.at \in Nat /\ range.start.at <= range.end.at
         /\ range.end.at <= Extent /\ Leads(range.start, range.end)
         /\ \A p \in {range.start, range.end} :
              /\ p = [at |-> p.at, gap |-> <<p.gap[1], p.gap[2]>>]
              /\ p.gap[1] \in Nat /\ p.gap[2] \in Nat
<1>1. /\ range.start \in PositionSpace /\ range.end \in PositionSpace
      /\ range = [start |-> range.start, end |-> range.end] /\ Leads(range.start, range.end)
  BY SourceAssumption
<1>2. \A p \in PositionSpace :
        /\ p = [at |-> p.at, gap |-> <<p.gap[1], p.gap[2]>>]
        /\ p.gap[1] \in Nat /\ p.gap[2] \in Nat /\ p.at \in Nat /\ p.at <= Extent
  BY SourceFacts DEF PositionSpace
<1>3. range.start.at \in Nat /\ range.end.at \in Nat
  BY <1>1, <1>2
<1>4. range.start.at <= range.end.at
  BY <1>1, <1>3 DEF Leads
<1> QED
  BY <1>1, <1>2, <1>4

-----------------------------------------------------------------------------
(* The objects of a selection, and the atoms of a page, follow each other. *)

\* How many objects are in front of a selection, and how many up to its end.
Outset(range) ==
  CHOOSE f \in 0..Len(Objects) :
    \A i \in 1..Len(Objects) : Objects[i].at < range.start.at <=> i <= f
Ending(range) ==
  CHOOSE l \in 0..Len(Objects) :
    \A i \in 1..Len(Objects) : Objects[i].at <= range.end.at <=> i <= l

\* How many objects are in front of an offset.
LEMMA ObjectsBelow ==
  ASSUME NEW p \in Nat
  PROVE  \E f \in 0..Len(Objects) : \A i \in 1..Len(Objects) : Objects[i].at < p <=> i <= f
<1>1. PICK n \in Nat : n = Len(Objects)
  BY SourceFacts
<1> DEFINE T == {i \in 0..n : i = 0 \/ Objects[i].at < p}
<1>2. 0 \in T /\ T \subseteq 0..n
  BY <1>1
<1>3. PICK f : f = Max(T)
  OBVIOUS
<1>4. f \in T /\ \A y \in T : y <= f
  BY <1>1, <1>2, <1>3, MaxFacts
<1>5. ASSUME NEW i \in 1..n PROVE Objects[i].at < p <=> i <= f
  <2>1. ASSUME Objects[i].at < p PROVE i <= f
    BY <1>4, <2>1
  <2>2. ASSUME i <= f PROVE Objects[i].at < p
    <3>1. f \in 1..n /\ Objects[f].at < p
      BY <1>1, <1>4, <2>2
    <3>2. Objects[i].at <= Objects[f].at /\ Objects[i].at \in Nat /\ Objects[f].at \in Nat
      BY <1>1, <2>2, <3>1, ObjectFacts
    <3> QED
      BY <3>1, <3>2
  <2> QED
    BY <2>1, <2>2
<1> QED
  BY <1>1, <1>4, <1>5

LEMMA OutsetFacts ==
  ASSUME NEW range \in Selections
  PROVE  /\ Outset(range) \in Nat /\ Ending(range) \in Nat
         /\ Outset(range) <= Ending(range) /\ Ending(range) <= Len(Objects)
         /\ \A i \in 1..Len(Objects) : Objects[i].at < range.start.at <=> i <= Outset(range)
         /\ \A i \in 1..Len(Objects) : Objects[i].at <= range.end.at <=> i <= Ending(range)
<1>0. /\ range.start.at \in Nat /\ range.end.at \in Nat /\ range.start.at <= range.end.at
      /\ Len(Objects) \in Nat /\ \A i \in 1..Len(Objects) : Objects[i].at \in Nat
  BY SelectionFacts, SourceFacts, ObjectFacts
<1>1. /\ Outset(range) \in 0..Len(Objects)
      /\ \A i \in 1..Len(Objects) : Objects[i].at < range.start.at <=> i <= Outset(range)
  BY <1>0, ObjectsBelow DEF Outset
<1>2. /\ Ending(range) \in 0..Len(Objects)
      /\ \A i \in 1..Len(Objects) : Objects[i].at <= range.end.at <=> i <= Ending(range)
  <2>1. PICK f \in 0..Len(Objects) : \A i \in 1..Len(Objects) : Objects[i].at < range.end.at + 1 <=> i <= f
    <3>1. range.end.at + 1 \in Nat
      BY <1>0
    <3> QED
      BY <3>1, ObjectsBelow
  <2>2. \A i \in 1..Len(Objects) : Objects[i].at < range.end.at + 1 <=> Objects[i].at <= range.end.at
    BY <1>0
  <2> QED
    BY <2>1, <2>2 DEF Ending
<1>3. Outset(range) <= Ending(range)
  <2> SUFFICES ASSUME ~(Outset(range) <= Ending(range)) PROVE FALSE
    OBVIOUS
  <2>1. PICK k : k = Outset(range)
    OBVIOUS
  <2>2. k \in 1..Len(Objects) /\ ~(k <= Ending(range))
    BY <1>0, <1>1, <1>2, <2>1
  <2>3. Objects[k].at < range.start.at /\ ~(Objects[k].at <= range.end.at)
    BY <1>1, <1>2, <2>1, <2>2
  <2> QED
    BY <1>0, <2>2, <2>3
<1> QED
  BY <1>0, <1>1, <1>2, <1>3

LEMMA EligibleFacts ==
  ASSUME NEW range \in Selections, NEW cursor \in Nat, NEW from,
         \/ cursor = Null /\ from = Outset(range)
         \/ cursor = from /\ from \in Outset(range)..Ending(range)
  PROVE  Eligible(range, cursor) = SubSeq(Objects, from + 1, Ending(range))
<1>1. PICK n, f, l : n = Len(Objects) /\ f = Outset(range) /\ l = Ending(range)
  OBVIOUS
<1>2. /\ n \in Nat /\ f \in Nat /\ l \in Nat /\ f <= l /\ l <= n /\ from \in f..l /\ cursor <= from
      /\ DOMAIN Objects = 1..n /\ Objects \in Seq(ObjectSpace)
  BY <1>1, OutsetFacts, SourceFacts DEF Null
<1> DEFINE ids == {i \in DOMAIN Objects : /\ range.start.at <= Objects[i].at
                                          /\ Objects[i].at <= range.end.at /\ i > cursor}
<1>3. ids = (from + 1)..l
  <2>1. ASSUME NEW i \in 1..n PROVE i \in ids <=> i \in (from + 1)..l
    <3>1. Objects[i].at < range.start.at <=> i <= f
      BY <1>1, OutsetFacts
    <3>2. Objects[i].at <= range.end.at <=> i <= l
      BY <1>1, OutsetFacts
    <3>3. range.start.at <= Objects[i].at <=> ~(i <= f)
      <4>1. PICK x, y : x = Objects[i].at /\ y = range.start.at
        OBVIOUS
      <4>2. x \in Nat /\ y \in Nat
        BY <1>1, <4>1, ObjectFacts, SelectionFacts
      <4> QED
        BY <3>1, <4>1, <4>2
    <3>4. i > f /\ i > cursor <=> i > from
      BY <1>1, <1>2 DEF Null
    <3>5. i \in ids <=> ~(i <= f) /\ i <= l /\ i > cursor
      BY <1>2, <3>2, <3>3
    <3> QED
      BY <1>2, <3>4, <3>5
  <2>2. ids \subseteq 1..n /\ (from + 1)..l \subseteq 1..n
    BY <1>2
  <2> HIDE DEF ids
  <2> QED
    BY <2>1, <2>2
<1>4. Eligible(range, cursor) = IF ids = {} THEN <<>> ELSE SubSeq(Objects, Min(ids), Max(ids))
  BY DEF Eligible
<1> HIDE DEF ids
<1>5. CASE from = l
  <2>1. ids = {}
    BY <1>2, <1>3, <1>5
  <2>2. SubSeq(Objects, l + 1, l) = <<>>
    BY <1>2
  <2> QED
    BY <1>1, <1>4, <1>5, <2>1, <2>2
<1>6. CASE from < l
  <2>1. from + 1 \in ids /\ l \in ids
    BY <1>2, <1>3, <1>6
  <2>2. ids \subseteq Nat /\ ids \subseteq 0..n /\ ids # {}
    <3>1. (from + 1)..l \subseteq 0..n /\ (from + 1)..l \subseteq Nat
      BY <1>2
    <3>2. ids # {}
      BY <2>1
    <3> QED
      BY <1>3, <3>1, <3>2
  <2>3. PICK b, c : b = Min(ids) /\ c = Max(ids)
    OBVIOUS
  <2>4. b \in ids /\ \A y \in ids : b <= y
    BY <2>2, <2>3, MinFacts
  <2>5. c \in ids /\ \A y \in ids : y <= c
    BY <1>2, <2>2, <2>3, MaxFacts
  <2>6. b \in (from + 1)..l /\ c \in (from + 1)..l /\ b <= from + 1 /\ l <= c
    BY <1>3, <2>1, <2>4, <2>5
  <2>7. b = from + 1 /\ c = l
    BY <1>2, <2>6
  <2> QED
    BY <1>1, <1>4, <2>2, <2>3, <2>7
<1> QED
  BY <1>2, <1>5, <1>6

\* The atoms of a page are those from the f-th to the l-th.
Listed(fragments, lo, hi, f, l) ==
  /\ f \in 1..(Len(Atoms) + 1) /\ l \in 0..Len(Atoms) /\ f <= l + 1
  /\ fragments = SubSeq(Atoms, f, l) /\ Len(fragments) = l + 1 - f
  /\ \A k \in 1..(l + 1 - f) : fragments[k] = Atoms[f + k - 1]
  /\ \A i \in 1..Len(Atoms) : i \in f..l <=> Atoms[i].lo < hi /\ lo < Atoms[i].hi

LEMMA FragmentsFacts ==
  ASSUME NEW lo \in Nat, NEW hi \in Nat
  PROVE  \E f, l : Listed(Fragments(lo, hi), lo, hi, f, l)
<1>1. PICK n, ids : n = Len(Atoms) /\ ids = Overlaps(lo, hi)
  OBVIOUS
<1>2. n \in Nat /\ DOMAIN Atoms = 1..n /\ Atoms \in Seq(AtomSpace)
  BY <1>1, SourceFacts
<1>3. ids = {i \in 1..n : Atoms[i].lo < hi /\ lo < Atoms[i].hi}
  BY <1>1, <1>2 DEF Overlaps
<1>4. CASE ids = {}
  <2>1. Fragments(lo, hi) = <<>>
    BY <1>1, <1>4 DEF Fragments
  <2>2. SubSeq(Atoms, 1, 0) = <<>>
    BY <1>2
  <2>3. \A i \in 1..n : ~(Atoms[i].lo < hi /\ lo < Atoms[i].hi)
    BY <1>3, <1>4
  <2>4. Listed(<<>>, lo, hi, 1, 0)
    BY <1>1, <1>2, <2>2, <2>3 DEF Listed
  <2> QED
    BY <2>1, <2>4
<1>5. CASE ids # {}
  <2>1. ids \subseteq Nat /\ ids \subseteq 0..n
    BY <1>2, <1>3
  <2>2. PICK f, l : f = Min(ids) /\ l = Max(ids)
    OBVIOUS
  <2>3. f \in ids /\ \A y \in ids : f <= y
    BY <1>5, <2>1, <2>2, MinFacts
  <2>4. l \in ids /\ \A y \in ids : y <= l
    BY <1>2, <1>5, <2>1, <2>2, MaxFacts
  <2>5. f \in 1..n /\ l \in 1..n /\ f <= l
    BY <1>3, <2>3, <2>4
  <2>6. Fragments(lo, hi) = SubSeq(Atoms, f, l)
    BY <1>1, <1>5, <2>2 DEF Fragments
  <2>7. /\ Len(SubSeq(Atoms, f, l)) = l + 1 - f
        /\ \A k \in 1..(l + 1 - f) : SubSeq(Atoms, f, l)[k] = Atoms[f + k - 1]
    BY <1>1, <1>2, <2>5
  <2>8. ASSUME NEW i \in 1..n PROVE i \in f..l <=> Atoms[i].lo < hi /\ lo < Atoms[i].hi
    <3>1. ASSUME i \in ids PROVE i \in f..l
      BY <1>2, <2>3, <2>4, <2>5, <3>1
    <3>2. ASSUME i \in f..l PROVE Atoms[i].lo < hi /\ lo < Atoms[i].hi
      <4>1. PICK x, y, u, v, w, z : /\ x = Atoms[i].lo /\ y = Atoms[i].hi /\ u = Atoms[f].lo
                                    /\ v = Atoms[f].hi /\ w = Atoms[l].lo /\ z = Atoms[l].hi
        OBVIOUS
      <4>2. x \in Nat /\ y \in Nat /\ u \in Nat /\ v \in Nat /\ w \in Nat /\ z \in Nat
            /\ x < y /\ u < v /\ w < z
        BY <1>1, <2>5, <4>1, AtomFacts
      <4>3. lo < v /\ w < hi
        BY <1>3, <2>3, <2>4, <4>1
      <4>4. i = f \/ v <= x
        BY <1>1, <1>2, <2>5, <3>2, <4>1, AtomFacts
      <4>5. i = l \/ y <= w
        BY <1>1, <1>2, <2>5, <3>2, <4>1, AtomFacts
      <4>6. lo < y
        BY <4>1, <4>2, <4>3, <4>4
      <4>7. x < hi
        BY <4>1, <4>2, <4>3, <4>5
      <4> QED
        BY <4>1, <4>6, <4>7
    <3> QED
      BY <1>3, <3>1, <3>2
  <2>9. Listed(SubSeq(Atoms, f, l), lo, hi, f, l)
    BY <1>1, <1>2, <2>5, <2>7, <2>8 DEF Listed
  <2> QED
    BY <2>6, <2>9
<1> QED
  BY <1>4, <1>5

-----------------------------------------------------------------------------
(* The positions of an object.                                              *)

\* The objects beside object i at its anchor.
Prev(i) == IF i > 1 /\ Objects[i - 1].at = Objects[i].at THEN i - 1 ELSE Null
Succ(i) == IF i < Len(Objects) /\ Objects[i + 1].at = Objects[i].at THEN i + 1 ELSE Null

\* The positions on both sides of it.
Lead(i) == [at |-> Objects[i].at, gap |-> <<Prev(i), i>>]
Trail(i) == [at |-> Objects[i].at, gap |-> <<i, Succ(i)>>]

\* What the merge takes for selected.
Taken(range) ==
  {i \in 1..Len(Objects) : Leads(range.start, Lead(i)) /\ Leads(Trail(i), range.end)}

LEMMA LeadingIsLead ==
  ASSUME NEW range \in Selections, NEW i \in (Outset(range) + 1)..Ending(range), NEW prior,
         \/ prior = Null /\ i = Outset(range) + 1
         \/ prior = i - 1 /\ prior > Outset(range)
  PROVE  Leading(Objects[i], prior) = Lead(i)
<1>1. PICK n, f, l, o : n = Len(Objects) /\ f = Outset(range) /\ l = Ending(range) /\ o = Objects[i]
  OBVIOUS
<1>2. n \in Nat /\ f \in Nat /\ l \in Nat /\ l <= n /\ i \in 1..n /\ i \in Nat
  BY <1>1, OutsetFacts, SourceFacts
<1>3. o.id = i /\ o.at \in Nat
  BY <1>1, <1>2, ObjectFacts
<1>4. (IF AtAnchor(prior, o) THEN prior ELSE Null) = Prev(i)
  <2>1. CASE prior = Null /\ i = f + 1
    <3>1. ASSUME i > 1 PROVE Objects[i - 1].at # o.at
      <4>1. PICK x, y : x = Objects[i - 1].at /\ y = range.start.at
        OBVIOUS
      <4>2. i - 1 \in 1..n /\ i - 1 <= f /\ ~(i <= f)
        BY <1>2, <2>1, <3>1
      <4>3. x < y /\ ~(o.at < y)
        BY <1>1, <1>2, <4>1, <4>2, OutsetFacts
      <4>4. x \in Nat /\ y \in Nat
        BY <1>1, <4>1, <4>2, ObjectFacts, SelectionFacts
      <4> QED
        BY <1>3, <4>1, <4>3, <4>4
    <3> QED
      BY <1>1, <2>1, <3>1 DEF AtAnchor, Prev
  <2>2. CASE prior = i - 1 /\ prior > f
    BY <1>1, <1>2, <2>2 DEF AtAnchor, Prev, Null
  <2> QED
    BY <1>1, <2>1, <2>2
<1>5. Leading(o, prior) = [at |-> o.at, gap |-> <<Prev(i), i>>]
  BY <1>3, <1>4 DEF Leading
<1> QED
  BY <1>1, <1>5 DEF Lead

LEMMA TrailingIsTrail ==
  ASSUME NEW range \in Selections, NEW i \in (Outset(range) + 1)..Ending(range)
  PROVE  Trailing(Objects[i], IF i = Ending(range) THEN Null ELSE i + 1) = Trail(i)
<1>1. PICK n, f, l, o, next : /\ n = Len(Objects) /\ f = Outset(range) /\ l = Ending(range)
                              /\ o = Objects[i] /\ next = IF i = l THEN Null ELSE i + 1
  OBVIOUS
<1>2. n \in Nat /\ f \in Nat /\ l \in Nat /\ l <= n /\ i \in 1..n /\ i \in Nat /\ i <= l
  BY <1>1, OutsetFacts, SourceFacts
<1>3. o.id = i /\ o.at \in Nat
  BY <1>1, <1>2, ObjectFacts
<1>4. (IF AtAnchor(next, o) THEN next ELSE Null) = Succ(i)
  <2>1. CASE i = l
    <3>1. ASSUME i < n PROVE Objects[i + 1].at # o.at
      <4>1. PICK x, y : x = Objects[i + 1].at /\ y = range.end.at
        OBVIOUS
      <4>2. i + 1 \in 1..n /\ ~(i + 1 <= l)
        BY <1>2, <2>1, <3>1
      <4>3. ~(x <= y) /\ o.at <= y
        BY <1>1, <1>2, <4>1, <4>2, OutsetFacts
      <4>4. x \in Nat /\ y \in Nat
        BY <1>1, <4>1, <4>2, ObjectFacts, SelectionFacts
      <4> QED
        BY <1>3, <4>1, <4>3, <4>4
    <3> QED
      BY <1>1, <2>1, <3>1 DEF AtAnchor, Succ
  <2>2. CASE i # l
    BY <1>1, <1>2, <2>2 DEF AtAnchor, Succ, Null
  <2> QED
    BY <2>1, <2>2
<1>5. Trailing(o, next) = [at |-> o.at, gap |-> <<i, Succ(i)>>]
  BY <1>3, <1>4 DEF Trailing
<1> QED
  BY <1>1, <1>5 DEF Trail

LEMMA NeighbourFacts ==
  ASSUME NEW i \in 1..Len(Objects), NEW k \in 1..Len(Objects), Objects[i].at = Objects[k].at
  PROVE  /\ Prev(i) \in {0, i - 1} /\ Succ(i) \in {0, i + 1}
         /\ Prev(k) \in {0, k - 1} /\ Succ(k) \in {0, k + 1}
         /\ k < i => Succ(k) = k + 1 /\ Prev(i) = i - 1
         /\ i < k => Succ(i) = i + 1 /\ Prev(k) = k - 1
<1>1. \A m \in 1..Len(Objects) : Prev(m) \in {0, m - 1} /\ Succ(m) \in {0, m + 1}
  BY SourceFacts DEF Prev, Succ, Null
<1>2. ASSUME NEW m \in 1..Len(Objects), NEW j \in 1..Len(Objects), Objects[m].at = Objects[j].at, m < j
      PROVE  Succ(m) = m + 1 /\ Prev(j) = j - 1
  <2>1. PICK n \in Nat : n = Len(Objects)
    BY SourceFacts
  <2>2. m + 1 \in 1..n /\ j - 1 \in 1..n /\ m <= m + 1 /\ m + 1 <= j /\ m <= j - 1 /\ j - 1 <= j
    BY <1>2, <2>1
  <2>3. PICK x, y, z : x = Objects[m].at /\ y = Objects[m + 1].at /\ z = Objects[j - 1].at
    OBVIOUS
  <2>4. x \in Nat /\ y \in Nat /\ z \in Nat
    BY <2>1, <2>2, <2>3, ObjectFacts
  <2>5. x <= y /\ y <= Objects[j].at /\ x <= z /\ z <= Objects[j].at
    BY <2>1, <2>2, <2>3, ObjectFacts
  <2>6. x = y /\ z = x
    BY <1>2, <2>3, <2>4, <2>5
  <2>7. m < Len(Objects) /\ j > 1 /\ Objects[m + 1].at = Objects[m].at /\ Objects[j - 1].at = Objects[j].at
    BY <1>2, <2>1, <2>2, <2>3, <2>6
  <2> QED
    BY <2>7 DEF Prev, Succ
<1> QED
  BY <1>1, <1>2

\* Objects i and k of one anchor, and what is beside them.
SameAnchor(i, k, pi, si, pk, sk) ==
  /\ i \in Nat \ {0} /\ k \in Nat \ {0}
  /\ pi \in {0, i - 1} /\ si \in {0, i + 1} /\ pk \in {0, k - 1} /\ sk \in {0, k + 1}
  /\ k < i => sk = k + 1 /\ pi = i - 1
  /\ i < k => si = i + 1 /\ pk = k - 1
  /\ i = k => pi = pk /\ si = sk

LEMMA GapFacts ==
  ASSUME NEW i, NEW k, NEW pi, NEW si, NEW pk, NEW sk, SameAnchor(i, k, pi, si, pk, sk)
  PROVE  /\ GapLeads(<<pk, k>>, <<pi, i>>) <=> pk < i
         /\ GapLeads(<<k, sk>>, <<pi, i>>) <=> k < i
         /\ GapLeads(<<i, si>>, <<pk, k>>) <=> i <= pk
         /\ GapLeads(<<i, si>>, <<k, sk>>) <=> i <= k
<1>0. \A a, b, c, d : GapLeads(<<a, b>>, <<c, d>>) <=>
        \/ a = c /\ b = d
        \/ /\ ~(a = 0 /\ b = 0) /\ ~(c = 0 /\ d = 0)
           /\ \/ a = 0 /\ c # 0
              \/ b # 0 /\ d = 0
              \/ a # 0 /\ b # 0 /\ c # 0 /\ d # 0 /\ a <= c
  BY DEF GapLeads, NoGap, Null
<1>1. GapLeads(<<pk, k>>, <<pi, i>>) <=> pk < i
  BY <1>0 DEF SameAnchor
<1>2. GapLeads(<<k, sk>>, <<pi, i>>) <=> k < i
  BY <1>0 DEF SameAnchor
<1>3. GapLeads(<<i, si>>, <<pk, k>>) <=> i <= pk
  BY <1>0 DEF SameAnchor
<1>4. GapLeads(<<i, si>>, <<k, sk>>) <=> i <= k
  BY <1>0 DEF SameAnchor
<1> QED
  BY <1>1, <1>2, <1>3, <1>4

\* A position of an object, compared with those of another.
LEMMA ComparedAt ==
  ASSUME NEW i \in 1..Len(Objects), NEW k \in 1..Len(Objects), Objects[i].at = Objects[k].at,
         NEW p \in {Lead(k), Trail(k)}
  PROVE  /\ GapLeads(p.gap, Lead(i).gap) <=> p.gap[1] < i
         /\ GapLeads(Trail(i).gap, p.gap) <=> i <= p.gap[1]
<1>1. PICK pi, si, pk, sk : pi = Prev(i) /\ si = Succ(i) /\ pk = Prev(k) /\ sk = Succ(k)
  OBVIOUS
<1>2. SameAnchor(i, k, pi, si, pk, sk)
  BY <1>1, NeighbourFacts, SourceFacts DEF SameAnchor
<1>3. /\ GapLeads(<<pk, k>>, <<pi, i>>) <=> pk < i
      /\ GapLeads(<<k, sk>>, <<pi, i>>) <=> k < i
      /\ GapLeads(<<i, si>>, <<pk, k>>) <=> i <= pk
      /\ GapLeads(<<i, si>>, <<k, sk>>) <=> i <= k
  BY <1>2, GapFacts
<1>4. Lead(i).gap = <<pi, i>> /\ Trail(i).gap = <<i, si>>
  BY <1>1 DEF Lead, Trail
<1>5. p.gap = <<pk, k>> \/ p.gap = <<k, sk>>
  BY <1>1 DEF Lead, Trail
<1> QED
  BY <1>3, <1>4, <1>5

\* A position beside an object.
Beside(p) == \E k \in 1..Len(Objects) : p \in {Lead(k), Trail(k)}

\* A position beside an object, or with no object at its offset.
Met(p) == Beside(p) \/ \A k \in 1..Len(Objects) : Objects[k].at # p.at

LEMMA LeadsFrom ==
  ASSUME NEW p, p.at \in Nat, Met(p), NEW i \in 1..Len(Objects)
  PROVE  /\ Leads(p, Lead(i)) <=> p.at <= Objects[i].at /\ (Objects[i].at = p.at => p.gap[1] < i)
         /\ Leads(Trail(i), p) <=> Objects[i].at <= p.at /\ (Objects[i].at = p.at => i <= p.gap[1])
<1>1. PICK x, y : x = Objects[i].at /\ y = p.at
  OBVIOUS
<1>2. x \in Nat /\ y \in Nat
  BY <1>1, ObjectFacts
<1>3. Lead(i).at = x /\ Trail(i).at = x
  BY <1>1 DEF Lead, Trail
<1>4. ASSUME x = y
      PROVE  /\ GapLeads(p.gap, Lead(i).gap) <=> p.gap[1] < i
             /\ GapLeads(Trail(i).gap, p.gap) <=> i <= p.gap[1]
  <2>1. PICK k \in 1..Len(Objects) : p \in {Lead(k), Trail(k)}
    BY <1>1, <1>4 DEF Met, Beside
  <2>2. p.at = Objects[k].at
    BY <2>1 DEF Lead, Trail
  <2> QED
    BY <1>1, <1>4, <2>1, <2>2, ComparedAt
<1>5. /\ Leads(p, Lead(i)) <=> y < x \/ (y = x /\ GapLeads(p.gap, Lead(i).gap))
      /\ Leads(Trail(i), p) <=> x < y \/ (x = y /\ GapLeads(Trail(i).gap, p.gap))
  BY <1>1, <1>3 DEF Leads
<1>6. CASE x = y
  BY <1>1, <1>2, <1>4, <1>5, <1>6
<1>7. CASE x # y
  BY <1>1, <1>2, <1>5, <1>7
<1> QED
  BY <1>6, <1>7

\* When both ends of a selection are positions of the source, the merge takes what is
\* selected.
LEMMA TakenIsSelected ==
  ASSUME NEW range \in Selections, Met(range.start), Met(range.end)
  PROVE  Taken(range) = Selected(range)
<1>1. range.start.at \in Nat /\ range.end.at \in Nat
  BY SelectionFacts
<1>2. ASSUME NEW i \in 1..Len(Objects)
      PROVE  i \in Taken(range) <=> Inside(Objects[i], range)
  <2>1. /\ Leads(range.start, Lead(i)) <=>
             range.start.at <= Objects[i].at /\ (Objects[i].at = range.start.at => range.start.gap[1] < i)
        /\ Leads(Trail(i), range.end) <=>
             Objects[i].at <= range.end.at /\ (Objects[i].at = range.end.at => i <= range.end.gap[1])
    BY <1>1, LeadsFrom
  <2>2. Objects[i].id = i
    BY ObjectFacts
  <2> QED
    BY <2>1, <2>2 DEF Taken, Inside
<1>3. Taken(range) \subseteq 1..Len(Objects)
  BY DEF Taken
<1>4. Selected(range) = {i \in 1..Len(Objects) : Inside(Objects[i], range)}
  BY SourceFacts DEF Selected
<1> QED
  BY <1>2, <1>3, <1>4

LEMMA TakenWithin ==
  ASSUME NEW range \in Selections
  PROVE  /\ Taken(range) \subseteq 1..Len(Objects)
         /\ Taken(range) \subseteq (Outset(range) + 1)..Ending(range)
<1>1. ASSUME NEW i \in Taken(range)
      PROVE  i \in 1..Len(Objects) /\ i \in (Outset(range) + 1)..Ending(range)
  <2>1. i \in 1..Len(Objects) /\ Leads(range.start, Lead(i)) /\ Leads(Trail(i), range.end)
    BY DEF Taken
  <2>2. PICK x, y, z : x = Objects[i].at /\ y = range.start.at /\ z = range.end.at
    OBVIOUS
  <2>3. Lead(i).at = x /\ Trail(i).at = x
    BY <2>2 DEF Lead, Trail
  <2>4. x \in Nat /\ y \in Nat /\ z \in Nat
    BY <2>1, <2>2, ObjectFacts, SelectionFacts
  <2>5. y <= x /\ x <= z
    BY <2>1, <2>2, <2>3, <2>4 DEF Leads
  <2>6. ~(x < y)
    BY <2>4, <2>5
  <2>7. ~(i <= Outset(range)) /\ i <= Ending(range)
    BY <2>1, <2>2, <2>5, <2>6, OutsetFacts
  <2> QED
    BY <2>1, <2>7, OutsetFacts, SourceFacts
<1> QED
  BY <1>1

\* A position the source has.
LEMMA RealIsMet ==
  ASSUME NEW p, p = [at |-> p.at, gap |-> <<p.gap[1], p.gap[2]>>], Real(p)
  PROVE  \/ Beside(p)
         \/ p.gap = NoGap /\ \A k \in 1..Len(Objects) : Objects[k].at # p.at
<1> DEFINE here == {i \in DOMAIN Objects : Objects[i].at = p.at}
<1>0. PICK n \in Nat : n = Len(Objects) /\ DOMAIN Objects = 1..n
  BY SourceFacts
<1>1. here = {i \in 1..n : Objects[i].at = p.at}
  BY <1>0
<1>2. IF here = {} THEN p.gap = NoGap
      ELSE p.gap \in {<<Null, Min(here)>>, <<Max(here), Null>>} \cup {<<i, i + 1>> : i \in here \ {Max(here)}}
  BY DEF Real
<1> HIDE DEF here
<1>3. CASE here = {}
  BY <1>0, <1>1, <1>2, <1>3
<1>4. CASE here # {}
  <2>1. here \subseteq Nat /\ here \subseteq 0..n
    BY <1>0, <1>1
  <2>2. PICK b, c : b = Min(here) /\ c = Max(here)
    OBVIOUS
  <2>3. b \in here /\ \A y \in here : b <= y
    BY <1>4, <2>1, <2>2, MinFacts
  <2>4. c \in here /\ \A y \in here : y <= c
    BY <1>0, <1>4, <2>1, <2>2, MaxFacts
  <2>5. p.gap \in {<<Null, b>>, <<c, Null>>} \cup {<<i, i + 1>> : i \in here \ {c}}
    BY <1>2, <1>4, <2>2
  <2>6. \A i \in here : i \in 1..n /\ i \in Nat /\ Objects[i].at = p.at
    BY <1>0, <1>1
  <2>7. CASE p.gap = <<Null, b>>
    <3>1. b - 1 \notin here
      BY <2>3, <2>6
    <3>2. Prev(b) = Null
      BY <1>0, <1>1, <2>3, <2>6, <3>1 DEF Prev
    <3>3. Lead(b) = p
      BY <2>3, <2>6, <2>7, <3>2 DEF Lead
    <3> QED
      BY <1>0, <2>3, <2>6, <3>3 DEF Beside
  <2>8. CASE p.gap = <<c, Null>>
    <3>1. c + 1 \notin here
      BY <2>4, <2>6
    <3>2. Succ(c) = Null
      BY <1>0, <1>1, <2>4, <2>6, <3>1 DEF Succ
    <3>3. Trail(c) = p
      BY <2>4, <2>6, <2>8, <3>2 DEF Trail
    <3> QED
      BY <1>0, <2>4, <2>6, <3>3 DEF Beside
  <2>9. ASSUME NEW i \in here, i # c, p.gap = <<i, i + 1>> PROVE Beside(p)
    <3>1. i \in 1..n /\ c \in 1..n /\ i < c /\ Objects[i].at = Objects[c].at
      BY <2>4, <2>6, <2>9
    <3>2. Succ(i) = i + 1
      BY <1>0, <3>1, NeighbourFacts
    <3>3. Trail(i) = p
      BY <2>6, <2>9, <3>2 DEF Trail
    <3> QED
      BY <1>0, <3>1, <3>3 DEF Beside
  <2> QED
    BY <2>5, <2>7, <2>8, <2>9
<1> QED
  BY <1>3, <1>4

-----------------------------------------------------------------------------
(* The text up to an offset.                                               *)

LEMMA EmptyText == <<>> \in Seq(Nat)
  OBVIOUS

LEMMA TextAt ==
  \A s, t \in Seq(Nat) :
    /\ s \o t \in Seq(Nat) /\ Len(s \o t) = Len(s) + Len(t)
    /\ \A i \in 1..Len(s) : (s \o t)[i] = s[i]
    /\ \A i \in 1..Len(t) : (s \o t)[Len(s) + i] = t[i]
  BY ConcatAt

LEMMA TextTwice == \A s, t, u \in Seq(Nat) : (s \o t) \o u = s \o (t \o u)
<1> SUFFICES ASSUME NEW s \in Seq(Nat), NEW t \in Seq(Nat), NEW u \in Seq(Nat)
             PROVE  (s \o t) \o u = s \o (t \o u)
  OBVIOUS
<1> QED
  BY ConcatTwice, SMTT(40)

LEMMA CopiesFacts ==
  ASSUME NEW S, NEW p
  PROVE  \A i \in 1..Len(Objects) :
           /\ Copies(S, p)[i] = IF i \in S /\ Objects[i].at = p THEN Objects[i].copy ELSE <<>>
           /\ Copies(S, p)[i] \in Seq(Nat)
<1> SUFFICES ASSUME NEW i \in 1..Len(Objects)
             PROVE  /\ Copies(S, p)[i] = IF i \in S /\ Objects[i].at = p THEN Objects[i].copy ELSE <<>>
                    /\ Copies(S, p)[i] \in Seq(Nat)
  OBVIOUS
<1>1. Copies(S, p)[i] = IF i \in S /\ Objects[i].at = p THEN Objects[i].copy ELSE <<>>
  BY SourceFacts DEF Copies
<1>2. Objects[i].copy \in Seq(Nat) /\ <<>> \in Seq(Nat)
  BY ObjectFacts, EmptyText
<1> QED
  BY <1>1, <1>2

LEMMA SymbolsFacts ==
  ASSUME NEW p \in Nat
  PROVE  /\ SymbolsAt(p) \in Seq(Nat)
         /\ (\A i \in 1..Len(Atoms) : ~(Atoms[i].lo <= p /\ p < Atoms[i].hi)) => SymbolsAt(p) = <<p>>
         /\ \A j \in 1..Len(Atoms) : Atoms[j].lo = p => SymbolsAt(p) = Atoms[j].copy
         /\ \A j \in 1..Len(Atoms) : Atoms[j].lo < p /\ p < Atoms[j].hi => SymbolsAt(p) = <<>>
<1> DEFINE over == {i \in DOMAIN Atoms : Atoms[i].lo <= p /\ p < Atoms[i].hi}
<1>0. over = {i \in 1..Len(Atoms) : Atoms[i].lo <= p /\ p < Atoms[i].hi}
  BY SourceFacts
<1>1. SymbolsAt(p) =
        IF over = {} THEN <<p>>
        ELSE IF \E i \in over : Atoms[i].lo = p THEN Atoms[CHOOSE i \in over : TRUE].copy ELSE <<>>
  BY DEF SymbolsAt
<1> HIDE DEF over
<1>2. ASSUME NEW j \in over
      PROVE  over = {j} /\ (CHOOSE i \in over : TRUE) = j /\ j \in 1..Len(Atoms)
  <2>1. ASSUME NEW i \in over PROVE i = j
    <3>1. i \in 1..Len(Atoms) /\ j \in 1..Len(Atoms)
      BY <1>0
    <3>2. PICK x, y, u, v : x = Atoms[i].lo /\ y = Atoms[i].hi /\ u = Atoms[j].lo /\ v = Atoms[j].hi
      OBVIOUS
    <3>3. x <= p /\ p < y /\ u <= p /\ p < v /\ x \in Nat /\ y \in Nat /\ u \in Nat /\ v \in Nat
      BY <1>0, <3>1, <3>2, AtomFacts
    <3>4. x < v /\ u < y
      BY <3>3
    <3> QED
      BY <3>1, <3>2, <3>4, AtomFacts
  <2> QED
    BY <1>0, <2>1
<1>3. CASE over = {}
  <2>1. SymbolsAt(p) = <<p>> /\ <<p>> \in Seq(Nat)
    BY <1>1, <1>3
  <2>2. ASSUME NEW j \in 1..Len(Atoms) PROVE Atoms[j].lo # p /\ ~(Atoms[j].lo < p /\ p < Atoms[j].hi)
    <3>1. PICK u, v : u = Atoms[j].lo /\ v = Atoms[j].hi
      OBVIOUS
    <3>2. u \in Nat /\ v \in Nat /\ u < v /\ ~(u <= p /\ p < v)
      BY <1>0, <1>3, <3>1, AtomFacts
    <3> QED
      BY <3>1, <3>2
  <2> QED
    BY <2>1, <2>2
<1>4. ASSUME NEW j \in over PROVE SymbolsAt(p) = IF Atoms[j].lo = p THEN Atoms[j].copy ELSE <<>>
  <2>1. over # {} /\ ((\E i \in over : Atoms[i].lo = p) <=> Atoms[j].lo = p)
    BY <1>2
  <2> QED
    BY <1>1, <1>2, <2>1
<1>5. CASE over # {}
  <2>1. PICK j \in over : TRUE
    BY <1>5
  <2>2. j \in 1..Len(Atoms) /\ Atoms[j].lo <= p /\ p < Atoms[j].hi
    BY <1>0
  <2>3. SymbolsAt(p) \in Seq(Nat)
    <3>1. Atoms[j].copy \in Seq(Nat)
      BY <2>2, AtomFacts
    <3> QED
      BY <1>4, <2>1, <3>1, EmptyText
  <2>4. ASSUME NEW m \in 1..Len(Atoms), Atoms[m].lo = p \/ (Atoms[m].lo < p /\ p < Atoms[m].hi)
        PROVE  SymbolsAt(p) = IF Atoms[m].lo = p THEN Atoms[m].copy ELSE <<>>
    <3>1. PICK u, v : u = Atoms[m].lo /\ v = Atoms[m].hi
      OBVIOUS
    <3>2. u \in Nat /\ v \in Nat /\ u < v
      BY <3>1, AtomFacts
    <3>3. u <= p /\ p < v
      BY <2>4, <3>1, <3>2
    <3>4. m \in over
      BY <1>0, <3>1, <3>3
    <3> QED
      BY <1>4, <3>4
  <2>5. ASSUME NEW m \in 1..Len(Atoms), Atoms[m].lo < p PROVE Atoms[m].lo # p
    BY <2>5, AtomFacts
  <2> QED
    BY <2>2, <2>3, <2>4, <2>5
<1> QED
  BY <1>3, <1>5

LEMMA ShownFacts ==
  ASSUME NEW S, NEW p \in Nat
  PROVE  /\ Shown(S, p) \in Seq(Nat) /\ Shown(S, p) = Chained(Copies(S, p), Len(Objects)) \o SymbolsAt(p)
         /\ \A d \in 0..Len(Objects) : Chained(Copies(S, p), d) \in Seq(Nat)
<1>1. ASSUME NEW d \in 0..Len(Objects) PROVE Chained(Copies(S, p), d) \in Seq(Nat)
  <2>1. d \in Nat /\ \A i \in 1..d : i \in 1..Len(Objects)
    BY SourceFacts
  <2>2. \A i \in 1..d : Copies(S, p)[i] \in Seq(Nat)
    BY <2>1, CopiesFacts
  <2> QED
    BY <2>1, <2>2, ChainedIn
<1>2. Chained(Copies(S, p), Len(Objects)) \in Seq(Nat) /\ SymbolsAt(p) \in Seq(Nat)
  BY <1>1, SourceFacts, SymbolsFacts
<1> QED
  BY <1>1, <1>2, ConcatIn DEF Shown

\* The objects at an offset when those behind the d-th are not there, or none is.
LEMMA CopiesUpTo ==
  ASSUME NEW S, NEW p \in Nat, NEW d \in 0..Len(Objects), NEW e \in 0..Len(Objects), d <= e,
         \A i \in 1..Len(Objects) : i \in S /\ i > d /\ i <= e => Objects[i].at # p
  PROVE  Chained(Copies(S, p), e) = Chained(Copies(S, p), d)
<1>1. d \in Nat /\ e \in Nat /\ Len(Objects) \in Nat
  BY SourceFacts
<1>2. \A i \in 1..d : Copies(S, p)[i] \in Seq(Nat)
  BY <1>1, CopiesFacts
<1>3. \A i \in (d + 1)..e : Copies(S, p)[i] = <<>>
  BY <1>1, CopiesFacts
<1> QED
  BY <1>1, <1>2, <1>3, ChainedRest

LEMMA NoCopies ==
  ASSUME NEW S, NEW p \in Nat, NEW d \in 0..Len(Objects),
         \A i \in 1..Len(Objects) : i \in S /\ i <= d => Objects[i].at # p
  PROVE  Chained(Copies(S, p), d) = <<>>
<1>1. 0 \in 0..Len(Objects) /\ 0 <= d
  BY SourceFacts
<1>2. \A i \in 1..Len(Objects) : i \in S /\ i > 0 /\ i <= d => Objects[i].at # p
  OBVIOUS
<1>3. Chained(Copies(S, p), d) = Chained(Copies(S, p), 0)
  BY <1>1, <1>2, CopiesUpTo
<1> QED
  BY <1>3, ChainedNone

\* What the offsets of a selection show, and the text merged when the offsets up to p and
\* the first d objects are done.
Shows(range, S) == [k \in 1..(range.end.at - range.start.at) |-> Shown(S, range.start.at + k - 1)]
MergedTo(range, S, p, d) ==
  Chained(Shows(range, S), p - range.start.at) \o Chained(Copies(S, p), d)

\* The symbols of the offsets from p, without objects.
Symbols(p, q) == [k \in 1..(q - p) |-> SymbolsAt(p + k - 1)]

LEMMA ShowsFacts ==
  ASSUME NEW range \in Selections, NEW S, NEW p \in Nat, range.start.at <= p, p <= range.end.at
  PROVE  /\ p - range.start.at \in Nat
         /\ Chained(Shows(range, S), p - range.start.at) \in Seq(Nat)
         /\ p < range.end.at => Shows(range, S)[p + 1 - range.start.at] = Shown(S, p)
<1>1. PICK a, b, v : a = range.start.at /\ b = range.end.at /\ v = Shows(range, S)
  OBVIOUS
<1>2. a \in Nat /\ b \in Nat /\ a <= p /\ p <= b /\ v = [k \in 1..(b - a) |-> Shown(S, a + k - 1)]
  BY <1>1, SelectionFacts DEF Shows
<1>3. p - a \in Nat /\ \A k \in 1..(p - a) : k \in 1..(b - a) /\ a + k - 1 \in Nat
  BY <1>2
<1>4. \A k \in 1..(p - a) : v[k] \in Seq(Nat)
  BY <1>2, <1>3, ShownFacts
<1>5. Chained(v, p - a) \in Seq(Nat)
  BY <1>3, <1>4, ChainedIn
<1>6. ASSUME p < b PROVE v[p + 1 - a] = Shown(S, p)
  <2>1. p + 1 - a \in 1..(b - a) /\ a + (p + 1 - a) - 1 = p
    BY <1>2, <1>6
  <2> QED
    BY <1>2, <2>1
<1> QED
  BY <1>1, <1>3, <1>5, <1>6

\* The text goes on with the symbols of the offsets up to the next object.
LEMMA MergedOn ==
  ASSUME NEW range \in Selections, NEW S, NEW p \in Nat, NEW q \in Nat, NEW d \in 0..Len(Objects),
         range.start.at <= p, p < q, q <= range.end.at,
         \A i \in 1..Len(Objects) : i \in S /\ i <= d => Objects[i].at <= p,
         \A i \in 1..Len(Objects) : i \in S /\ i > d => q <= Objects[i].at
  PROVE  MergedTo(range, S, q, d) = MergedTo(range, S, p, d) \o Chained(Symbols(p, q), q - p)
<1>1. PICK a, b, v, w, n : /\ a = range.start.at /\ b = range.end.at /\ v = Shows(range, S)
                           /\ w = Symbols(p, q) /\ n = Len(Objects)
  OBVIOUS
<1>2. a \in Nat /\ b \in Nat /\ n \in Nat /\ a <= p /\ p < q /\ q <= b /\ d \in 0..n
  BY <1>1, SelectionFacts, SourceFacts
<1>3. \A i \in 1..n : Objects[i].at \in Nat
  BY <1>1, ObjectFacts
<1>4. PICK r, c, y : r = Chained(v, p - a) /\ c = Chained(Copies(S, p), d) /\ y = r \o c
  OBVIOUS
<1>5. /\ r \in Seq(Nat) /\ c \in Seq(Nat) /\ y \in Seq(Nat)
      /\ \A k \in 1..(q - p) : w[k] \in Seq(Nat) /\ w[k] = SymbolsAt(p + k - 1)
  <2>1. r \in Seq(Nat) /\ c \in Seq(Nat)
    <3>1. range.start.at <= p /\ p <= range.end.at
      BY <1>1, <1>2
    <3>2. r \in Seq(Nat)
      BY <1>1, <1>4, <3>1, ShowsFacts
    <3>3. c \in Seq(Nat)
      BY <1>4, ShownFacts
    <3> QED
      BY <3>2, <3>3
  <2>2. \A k \in 1..(q - p) : w[k] = SymbolsAt(p + k - 1) /\ p + k - 1 \in Nat
    BY <1>1, <1>2 DEF Symbols
  <2>3. \A k \in 1..(q - p) : w[k] \in Seq(Nat)
    BY <2>2, SymbolsFacts
  <2> QED
    BY <1>4, <2>1, <2>2, <2>3
<1> DEFINE T == {m \in Nat : m + 1 <= q - p => Chained(v, p - a + (m + 1)) = y \o Chained(w, m + 1)}
<1>6. 0 \in T
  <2>1. v[p - a + 1] = Shown(S, p) /\ p - a \in Nat
    <3>1. v[p + 1 - a] = Shown(S, p) /\ p - a \in Nat /\ p + 1 - a = p - a + 1
      <4>1. range.start.at <= p /\ p <= range.end.at /\ p < range.end.at
        BY <1>1, <1>2
      <4>2. p - range.start.at \in Nat /\ Shows(range, S)[p + 1 - range.start.at] = Shown(S, p)
        BY <4>1, ShowsFacts
      <4> QED
        BY <1>1, <1>2, <4>2
    <3> QED
      BY <3>1
  <2>2. Chained(v, p - a + 1) = r \o Shown(S, p)
    BY <1>4, <2>1, ChainedNext
  <2>3. Chained(Copies(S, p), n) = c
    <3>1. \A i \in 1..n : i \in S /\ i > d /\ i <= n => Objects[i].at # p
      <4> SUFFICES ASSUME NEW i \in 1..n, i \in S, i > d PROVE Objects[i].at # p
        OBVIOUS
      <4>1. q <= Objects[i].at
        BY <1>1
      <4> QED
        BY <1>2, <1>3, <4>1
    <3> QED
      BY <1>1, <1>2, <1>4, <3>1, CopiesUpTo
  <2>4. Shown(S, p) = c \o SymbolsAt(p)
    BY <1>1, <2>3, ShownFacts
  <2>5. Chained(w, 1) = SymbolsAt(p)
    <3>1. 1 \in 1..(q - p) /\ p + 1 - 1 = p
      BY <1>2
    <3>2. w[1] \in Seq(Nat) /\ w[1] = SymbolsAt(p)
      BY <1>5, <3>1
    <3>3. Chained(w, 0 + 1) = Chained(w, 0) \o w[0 + 1] /\ Chained(w, 0) = <<>>
      BY ChainedNext, ChainedNone
    <3>4. <<>> \o w[1] = w[1]
      BY <3>2, ConcatNone
    <3>5. 0 + 1 = 1
      OBVIOUS
    <3> QED
      BY <3>2, <3>3, <3>4, <3>5
  <2>6. SymbolsAt(p) \in Seq(Nat)
    BY SymbolsFacts
  <2>7. r \o (c \o SymbolsAt(p)) = y \o SymbolsAt(p)
    <3>1. r \in Seq(Nat) /\ c \in Seq(Nat)
      BY <1>5
    <3>2. (r \o c) \o SymbolsAt(p) = r \o (c \o SymbolsAt(p))
      BY <2>6, <3>1, TextTwice
    <3> QED
      BY <1>4, <3>2
  <2>8. Chained(v, p - a + (0 + 1)) = y \o Chained(w, 0 + 1)
    BY <2>2, <2>4, <2>5, <2>7
  <2> QED
    BY <2>8
<1>7. ASSUME NEW m \in Nat, m \in T PROVE m + 1 \in T
  <2> SUFFICES ASSUME (m + 1) + 1 <= q - p
               PROVE  Chained(v, p - a + ((m + 1) + 1)) = y \o Chained(w, (m + 1) + 1)
    OBVIOUS
  <2>1. PICK k, z : k = p - a + (m + 1) /\ z = p + (m + 1)
    OBVIOUS
  <2>2. k \in Nat /\ z \in Nat /\ a <= z /\ z < b /\ p < z /\ z < q /\ z - a = k /\ z + 1 - a = k + 1
        /\ m + 1 <= q - p /\ m + 1 \in Nat
    BY <1>2, <2>1
  <2>3. Chained(v, k) = y \o Chained(w, m + 1)
    BY <1>7, <2>1, <2>2
  <2>4. v[k + 1] = Shown(S, z)
    <3>1. range.start.at <= z /\ z <= range.end.at /\ z < range.end.at
      <4>1. a <= z /\ z <= b /\ z < b
        BY ONLY <1>2, <2>2
      <4> QED
        BY <1>1, <4>1
    <3>2. Shows(range, S)[z + 1 - range.start.at] = Shown(S, z)
      BY <2>2, <3>1, ShowsFacts
    <3>3. z + 1 - range.start.at = k + 1
      BY <1>1, <2>2
    <3> QED
      BY <1>1, <3>2, <3>3
  <2>5. Chained(Copies(S, z), n) = <<>>
    <3>1. ASSUME NEW i \in 1..n, i \in S PROVE Objects[i].at # z
      <4>1. (i <= d => Objects[i].at <= p) /\ (i > d => q <= Objects[i].at)
        BY <1>1, <3>1
      <4>2. i \in Nat /\ d \in Nat /\ Objects[i].at \in Nat
        BY <1>2, <1>3
      <4> QED
        BY <2>2, <4>1, <4>2
    <3>2. n \in 0..Len(Objects)
      BY <1>1, <1>2
    <3> QED
      BY <1>1, <2>2, <3>1, <3>2, NoCopies
  <2>6. SymbolsAt(z) \in Seq(Nat)
    BY <2>2, SymbolsFacts
  <2>7. Shown(S, z) = SymbolsAt(z)
    <3>1. Shown(S, z) = <<>> \o SymbolsAt(z)
      BY <1>1, <2>2, <2>5, ShownFacts
    <3> QED
      BY <2>6, <3>1
  <2>8. w[(m + 1) + 1] = SymbolsAt(z)
    <3>1. (m + 1) + 1 \in 1..(q - p) /\ p + ((m + 1) + 1) - 1 = z
      BY <1>2, <2>1
    <3> QED
      BY <1>5, <3>1
  <2>9. Chained(v, k + 1) = Chained(v, k) \o SymbolsAt(z)
    BY <2>2, <2>4, <2>7, ChainedNext
  <2>10. Chained(w, (m + 1) + 1) = Chained(w, m + 1) \o SymbolsAt(z)
    BY <2>2, <2>8, ChainedNext
  <2>11. Chained(w, m + 1) \in Seq(Nat)
    <3>1. \A j \in 1..(m + 1) : w[j] \in Seq(Nat)
      BY <1>5, <2>2
    <3> QED
      BY <2>2, <3>1, ChainedIn
  <2>12. (y \o Chained(w, m + 1)) \o SymbolsAt(z) = y \o (Chained(w, m + 1) \o SymbolsAt(z))
    <3>1. y \in Seq(Nat)
      BY <1>5
    <3> QED
      BY <2>6, <2>11, <3>1, TextTwice
  <2>13. p - a + ((m + 1) + 1) = k + 1
    BY <1>2, <2>1
  <2> QED
    BY <2>3, <2>9, <2>10, <2>12, <2>13
<1> HIDE DEF T
<1>8. Nat \subseteq T
  BY <1>6, <1>7, AllNaturals
<1>9. Chained(v, q - a) = y \o Chained(w, q - p)
  <2>1. PICK m : m = q - p - 1
    OBVIOUS
  <2>2. m \in Nat /\ m + 1 = q - p /\ p - a + (m + 1) = q - a
    BY <1>2, <2>1
  <2>3. m \in T
    BY <1>8, <2>2
  <2> QED
    BY <2>2, <2>3 DEF T
<1>10. Chained(Copies(S, q), d) = <<>>
  <2>1. ASSUME NEW i \in 1..n, i \in S, i <= d PROVE Objects[i].at # q
    <3>1. Objects[i].at <= p /\ Objects[i].at \in Nat
      BY <1>1, <1>3, <2>1
    <3> QED
      BY <1>2, <3>1
  <2> QED
    BY <1>1, <2>1, NoCopies
<1>11. y \o Chained(w, q - p) \in Seq(Nat)
  <2>1. q - p \in Nat
    BY <1>2
  <2>2. Chained(w, q - p) \in Seq(Nat)
    BY <1>5, <2>1, ChainedIn
  <2> QED
    BY <1>5, <2>2, ConcatIn
<1>12. MergedTo(range, S, q, d) = (y \o Chained(w, q - p)) \o <<>>
  BY <1>1, <1>9, <1>10 DEF MergedTo
<1>13. MergedTo(range, S, p, d) = y
  BY <1>1, <1>4 DEF MergedTo
<1> QED
  BY <1>1, <1>11, <1>12, <1>13

LEMMA BytesFacts ==
  ASSUME NEW p \in Nat, NEW q \in Nat, p <= q
  PROVE  Bytes(p, q) \in Seq(Nat) /\ Len(Bytes(p, q)) = q - p
<1>1. q - p \in Nat /\ \A k \in 1..(q - p) : p + k - 1 \in Nat
  OBVIOUS
<1>2. Bytes(p, q) = [k \in 1..(q - p) |-> p + k - 1]
  BY DEF Bytes
<1> QED
  BY <1>1, <1>2

LEMMA BytesNext ==
  ASSUME NEW p \in Nat, NEW m \in Nat
  PROVE  Bytes(p, p + m) \o <<p + m>> = Bytes(p, p + (m + 1))
<1>1. PICK x, y, z : x = Bytes(p, p + m) /\ y = Bytes(p, p + (m + 1)) /\ z = x \o <<p + m>>
  OBVIOUS
<1>2. /\ x \in Seq(Nat) /\ Len(x) = m /\ \A k \in 1..m : x[k] = p + k - 1
      /\ y \in Seq(Nat) /\ Len(y) = m + 1 /\ \A k \in 1..(m + 1) : y[k] = p + k - 1
  <2>1. p + m - p = m /\ p + (m + 1) - p = m + 1
    OBVIOUS
  <2>2. x = [k \in 1..m |-> p + k - 1] /\ y = [k \in 1..(m + 1) |-> p + k - 1]
    BY <1>1, <2>1 DEF Bytes
  <2>3. (\A k \in 1..m : p + k - 1 \in Nat) /\ \A k \in 1..(m + 1) : p + k - 1 \in Nat
    OBVIOUS
  <2> QED
    BY <2>2, <2>3
<1>3. /\ z \in Seq(Nat) /\ Len(z) = m + 1 /\ z[m + 1] = p + m
      /\ \A k \in 1..m : z[k] = x[k]
  <2>1. PICK t : t = <<p + m>>
    OBVIOUS
  <2>2. t \in Seq(Nat) /\ Len(t) = 1 /\ t[1] = p + m
    BY <2>1
  <2>3. x \o t \in Seq(Nat) /\ Len(x \o t) = Len(x) + Len(t)
        /\ (\A k \in 1..Len(x) : (x \o t)[k] = x[k])
        /\ \A k \in 1..Len(t) : (x \o t)[Len(x) + k] = t[k]
    BY <1>2, <2>2, TextAt
  <2>4. 1 \in 1..Len(t)
    BY <2>2
  <2> QED
    BY <1>1, <1>2, <2>1, <2>2, <2>3, <2>4
<1>4. ASSUME NEW k \in 1..(m + 1) PROVE z[k] = y[k]
  BY <1>2, <1>3
<1>5. z = y
  BY <1>2, <1>3, <1>4
<1> QED
  BY <1>1, <1>5

\* The symbols of offsets in no atom, from the start of one, and in one.
LEMMA SymbolsRun ==
  ASSUME NEW p \in Nat, NEW q \in Nat, p < q
  PROVE  /\ (\A i \in 1..Len(Atoms) : ~(Atoms[i].lo < q /\ p < Atoms[i].hi))
              => Chained(Symbols(p, q), q - p) = Bytes(p, q)
         /\ \A j \in 1..Len(Atoms) :
              /\ Atoms[j].lo = p /\ q <= Atoms[j].hi => Chained(Symbols(p, q), q - p) = Atoms[j].copy
              /\ Atoms[j].lo < p /\ q <= Atoms[j].hi => Chained(Symbols(p, q), q - p) = <<>>
<1>1. PICK w : w = Symbols(p, q)
  OBVIOUS
<1>2. /\ \A k \in 1..(q - p) : w[k] = SymbolsAt(p + k - 1) /\ p + k - 1 \in Nat
      /\ q - p \in Nat
  BY <1>1 DEF Symbols
<1>3. ASSUME \A i \in 1..Len(Atoms) : ~(Atoms[i].lo < q /\ p < Atoms[i].hi)
      PROVE  Chained(w, q - p) = Bytes(p, q)
  <2> DEFINE T == {m \in Nat : m <= q - p => Chained(w, m) = Bytes(p, p + m)}
  <2>1. 0 \in T
    <3>1. Bytes(p, p + 0) = <<>>
      <4>1. Bytes(p, p + 0) \in Seq(Nat) /\ Len(Bytes(p, p + 0)) = p + 0 - p
        BY BytesFacts
      <4> QED
        BY <4>1
    <3> QED
      BY <3>1, ChainedNone
  <2>2. ASSUME NEW m \in Nat, m \in T PROVE m + 1 \in T
    <3> SUFFICES ASSUME m + 1 <= q - p PROVE Chained(w, m + 1) = Bytes(p, p + (m + 1))
      OBVIOUS
    <3>1. m + 1 \in 1..(q - p) /\ p + (m + 1) - 1 = p + m /\ p + m \in Nat
      OBVIOUS
    <3>2. w[m + 1] = SymbolsAt(p + m)
      BY <1>2, <3>1
    <3>3. \A i \in 1..Len(Atoms) : ~(Atoms[i].lo <= p + m /\ p + m < Atoms[i].hi)
      <4> SUFFICES ASSUME NEW i \in 1..Len(Atoms), Atoms[i].lo <= p + m, p + m < Atoms[i].hi PROVE FALSE
        OBVIOUS
      <4>1. PICK x, y : x = Atoms[i].lo /\ y = Atoms[i].hi
        OBVIOUS
      <4>2. x \in Nat /\ y \in Nat
        BY <4>1, AtomFacts
      <4>3. x < q /\ p < y
        BY <3>1, <4>1, <4>2
      <4> QED
        BY <1>3, <4>1, <4>3
    <3>4. SymbolsAt(p + m) = <<p + m>>
      BY <3>1, <3>3, SymbolsFacts
    <3>5. Chained(w, m + 1) = Chained(w, m) \o <<p + m>>
      BY <3>2, <3>4, ChainedNext
    <3>6. Chained(w, m) = Bytes(p, p + m)
      BY <2>2, <3>1
    <3> QED
      BY <3>5, <3>6, BytesNext
  <2> HIDE DEF T
  <2>3. Nat \subseteq T
    BY <2>1, <2>2, AllNaturals
  <2>4. q - p \in T /\ p + (q - p) = q
    BY <1>2, <2>3
  <2> QED
    BY <1>2, <2>4 DEF T
<1>4. ASSUME NEW j \in 1..Len(Atoms), Atoms[j].lo <= p, q <= Atoms[j].hi
      PROVE  Chained(w, q - p) = SymbolsAt(p)
  <2>1. PICK x, y : x = Atoms[j].lo /\ y = Atoms[j].hi
    OBVIOUS
  <2>2. x \in Nat /\ y \in Nat /\ x <= p /\ q <= y
    BY <1>4, <2>1, AtomFacts
  <2>3. w[1] = SymbolsAt(p) /\ SymbolsAt(p) \in Seq(Nat)
    <3>1. 1 \in 1..(q - p) /\ p + 1 - 1 = p
      OBVIOUS
    <3> QED
      BY <1>2, <3>1, SymbolsFacts
  <2>4. ASSUME NEW k \in 2..(q - p) PROVE w[k] = <<>>
    <3>1. k \in 1..(q - p) /\ p + k - 1 \in Nat /\ x < p + k - 1 /\ p + k - 1 < y
      BY <2>2
    <3>2. SymbolsAt(p + k - 1) = <<>>
      BY <2>1, <3>1, SymbolsFacts
    <3> QED
      BY <1>2, <3>1, <3>2
  <2>5. Chained(w, q - p) = Chained(w, 1)
    <3>1. \A k \in 1..1 : w[k] \in Seq(Nat)
      BY <2>3
    <3>2. \A k \in (1 + 1)..(q - p) : w[k] = <<>>
      BY <2>4
    <3>3. 1 \in Nat /\ 1 <= q - p /\ q - p \in Nat
      OBVIOUS
    <3> QED
      BY ONLY <3>1, <3>2, <3>3, ChainedRest, SMTT(40)
  <2>6. Chained(w, 1) = w[1]
    <3>1. Chained(w, 0 + 1) = Chained(w, 0) \o w[0 + 1] /\ Chained(w, 0) = <<>> /\ 0 + 1 = 1
      BY ChainedNext, ChainedNone
    <3>2. <<>> \o w[1] = w[1]
      BY <2>3, ConcatNone
    <3> QED
      BY <3>1, <3>2
  <2> QED
    BY <2>3, <2>5, <2>6
<1>5. ASSUME NEW j \in 1..Len(Atoms), Atoms[j].lo = p, q <= Atoms[j].hi
      PROVE  Chained(w, q - p) = Atoms[j].copy
  <2>1. Atoms[j].lo <= p
    BY <1>5
  <2> QED
    BY <1>4, <1>5, <2>1, SymbolsFacts
<1>6. ASSUME NEW j \in 1..Len(Atoms), Atoms[j].lo < p, q <= Atoms[j].hi
      PROVE  Chained(w, q - p) = <<>>
  <2>1. PICK x, y : x = Atoms[j].lo /\ y = Atoms[j].hi
    OBVIOUS
  <2>2. x \in Nat /\ y \in Nat /\ x < p /\ q <= y
    BY <1>6, <2>1, AtomFacts
  <2>3. x <= p /\ p < y
    BY <2>2
  <2> QED
    BY <1>4, <1>6, <2>1, <2>3, SymbolsFacts
<1> QED
  BY <1>1, <1>3, <1>5, <1>6

LEMMA MergedFacts ==
  ASSUME NEW range \in Selections, NEW S, NEW p \in Nat, range.start.at <= p, p <= range.end.at,
         NEW d \in 0..Len(Objects)
  PROVE  MergedTo(range, S, p, d) \in Seq(Nat)
<1>1. Chained(Shows(range, S), p - range.start.at) \in Seq(Nat)
  BY ShowsFacts
<1>2. Chained(Copies(S, p), d) \in Seq(Nat)
  BY ShownFacts
<1> QED
  BY <1>1, <1>2, ConcatIn DEF MergedTo

\* The (d + 1)-th object is at offset p, if it is taken.
MergesNext(range, S, p, d) ==
  /\ range \in Selections /\ p \in Nat /\ d \in Nat /\ range.start.at <= p /\ p <= range.end.at
  /\ d + 1 \in 1..Len(Objects) /\ (d + 1 \in S => Objects[d + 1].at = p)

\* The text goes on with the copy of an object.
LEMMA MergedObject ==
  ASSUME NEW range, NEW S, NEW p, NEW d, MergesNext(range, S, p, d)
  PROVE  MergedTo(range, S, p, d + 1) =
           MergedTo(range, S, p, d) \o IF d + 1 \in S THEN Objects[d + 1].copy ELSE <<>>
<1>0. /\ range \in Selections /\ p \in Nat /\ d \in Nat /\ range.start.at <= p /\ p <= range.end.at
      /\ d + 1 \in 1..Len(Objects) /\ (d + 1 \in S => Objects[d + 1].at = p)
  BY DEF MergesNext
<1>1. PICK r, c, x : /\ r = Chained(Shows(range, S), p - range.start.at) /\ c = Chained(Copies(S, p), d)
                     /\ x = IF d + 1 \in S THEN Objects[d + 1].copy ELSE <<>>
  OBVIOUS
<1>2. d \in 0..Len(Objects)
  BY <1>0, SourceFacts
<1>3. r \in Seq(Nat) /\ c \in Seq(Nat)
  BY <1>0, <1>1, <1>2, ShowsFacts, ShownFacts
<1>4. Copies(S, p)[d + 1] = x /\ x \in Seq(Nat)
  <2>1. /\ Copies(S, p)[d + 1] = IF d + 1 \in S /\ Objects[d + 1].at = p THEN Objects[d + 1].copy ELSE <<>>
        /\ Copies(S, p)[d + 1] \in Seq(Nat)
    BY <1>0, CopiesFacts
  <2> QED
    BY <1>0, <1>1, <2>1
<1>5. Chained(Copies(S, p), d + 1) = c \o x
  BY <1>0, <1>1, <1>4, ChainedNext
<1>6. (r \o c) \o x = r \o (c \o x)
  BY <1>3, <1>4, TextTwice
<1>7. MergedTo(range, S, p, d) = r \o c /\ MergedTo(range, S, p, d + 1) = r \o (c \o x)
  BY <1>1, <1>5 DEF MergedTo
<1> QED
  BY <1>1, <1>6, <1>7

LEMMA MergedStart ==
  ASSUME NEW range \in Selections, NEW S, NEW d \in 0..Len(Objects), \A i \in S : ~(i <= d)
  PROVE  MergedTo(range, S, range.start.at, d) = <<>>
<1>1. PICK a : a = range.start.at /\ a \in Nat
  BY SelectionFacts
<1>2. Chained(Copies(S, a), d) = <<>>
  BY <1>1, NoCopies
<1>3. a - a = 0 /\ Chained(Shows(range, S), 0) = <<>>
  BY <1>1, ChainedNone
<1>4. <<>> \o <<>> = <<>>
  BY EmptyText, ConcatNone
<1> QED
  BY <1>1, <1>2, <1>3, <1>4 DEF MergedTo

LEMMA MergedEnd ==
  ASSUME NEW range \in Selections, NEW S, NEW d \in 0..Len(Objects), \A i \in S : i <= d
  PROVE  MergedTo(range, S, range.end.at, d) = TextOf(range, S)
<1>1. PICK b : b = range.end.at /\ b \in Nat
  BY SelectionFacts
<1>2. Len(Objects) \in 0..Len(Objects) /\ d <= Len(Objects) /\ d \in Nat
  BY SourceFacts
<1>3. \A i \in 1..Len(Objects) : i \in S /\ i > d /\ i <= Len(Objects) => Objects[i].at # b
  BY <1>2
<1>4. Chained(Copies(S, b), Len(Objects)) = Chained(Copies(S, b), d)
  BY <1>1, <1>2, <1>3, CopiesUpTo
<1> QED
  BY <1>1, <1>4 DEF MergedTo, TextOf, Shows

-----------------------------------------------------------------------------
(* What holds of an operation that merges.                                 *)

\* How many objects are done, and how many are done or current.
Done(a) == IF a.prior = Null THEN Outset(a.key.selection) ELSE a.prior
Reached(a) == IF a.current = NoPage THEN Done(a) ELSE Done(a) + 1

\* A page holds the objects behind the from-th up to the one it continues at, or to the last.
Follows(page, from, first, last) ==
  \E w \in from..last :
    /\ page = [facts |-> SubSeq(Objects, from + 1, w), complete |-> page.complete,
               continuation |-> IF page.complete THEN Null ELSE w]
    /\ page.complete \in BOOLEAN
    /\ IF page.complete THEN w = last ELSE w > first

\* The objects come one after the other, whatever pages they came in.
ObjectsInTurn(a) ==
  LET first == Outset(a.key.selection)
      last == Ending(a.key.selection)
  IN /\ a.prior = Null \/ a.prior \in (first + 1)..last
     /\ a.current = NoPage \/ (Done(a) < last /\ a.current = <<Objects[Done(a) + 1]>>)
     /\ a.complete \in BOOLEAN
     /\ a.objectCursor = Null \/ a.objectCursor \in (first + 1)..last
     /\ a.objects = NoPage =>
          Reached(a) = IF a.complete THEN last
                       ELSE IF a.objectCursor = Null THEN first ELSE a.objectCursor
     /\ a.objects # NoPage =>
          ~a.complete /\ a.objects = <<a.objects[1]>> /\ Follows(a.objects[1], Reached(a), first, last)
     /\ a.pendingObjects # Null /\ a.objects = NoPage => ~a.complete /\ a.state = "ObjectPagePending"

\* The offset up to which the text is appended, and up to which it is read.
Cursor(a) == IF a.text = NoPage THEN a.textCursor ELSE a.text[1].cursor
Read(a) == IF a.text = NoPage THEN a.textCursor ELSE a.text[1].end

\* The fragments of a page before the n-th end in front of offset p, the others start behind it.
Aligned(page, p, n) ==
  LET fragments == Fragments(page.lo, page.hi)
  IN /\ n \in 1..(Len(fragments) + 1)
     /\ \A i \in 1..Len(fragments) :
          IF i < n THEN FragmentEnd(fragments[i], page.hi) <= p
                   ELSE p <= FragmentStart(fragments[i], page.lo)

\* A page of text is cut at the target; the fragments before the next one are appended.
Consumed(page, from, target) ==
  /\ page = [lo |-> from, hi |-> page.hi, end |-> page.end, cursor |-> page.cursor, next |-> page.next]
  /\ page.hi \in 1..Extent
  /\ page.lo < page.end /\ page.end = (IF page.hi < target THEN page.hi ELSE target)
  /\ page.cursor \in page.lo..page.end
  /\ Aligned(page, page.cursor, page.next)

\* Text is asked for up to an end of the selection or an object that is not done.
Targets(a) ==
  LET range == a.key.selection
  IN /\ a.target \in (a.textCursor + 1)..range.end.at
     /\ a.target = range.end.at \/ \E i \in 1..Len(Objects) : a.target = Objects[i].at
     /\ \A i \in (Done(a) + 1)..Ending(range) : a.target <= Objects[i].at

\* The text lies between the objects that are done and the others.
TextInTurn(a) ==
  LET range == a.key.selection
  IN /\ a.textCursor \in range.start.at..range.end.at
     /\ a.state \in {"CollectingText", "TextPagePending"} => Targets(a) /\ ~Full(a)
     /\ a.text # NoPage => a.text = <<a.text[1]>> /\ Consumed(a.text[1], a.textCursor, a.target)
     /\ a.text # NoPage \/ a.pendingText # Null => a.state = "TextPagePending"
     /\ \A i \in (Done(a) + 1)..Ending(range) : a.textCursor <= Objects[i].at
     /\ \A i \in Taken(range) : i <= Done(a) => Objects[i].at <= a.textCursor

\* An atom of the selection that offset p is inside of.
Opened(range, p, j) ==
  range.start.at <= Atoms[j].lo /\ Atoms[j].lo < p /\ p < Atoms[j].hi

\* Nothing special was found up to an offset.
Unmarked(range, p) == range.start.at < p => Overlaps(range.start.at, p) = {}

\* While it is being classified nothing is appended; then the output is the text so far.
OutputInTurn(a) ==
  LET range == a.key.selection
  IN /\ Len(a.output) <= MaxBytes
     /\ a.phase \in {"Classifying", "Collecting"}
     /\ a.phase = "Classifying" =>
          /\ policy.atoms = "Propagate" /\ a.output = <<>> /\ a.breaks = 0 /\ a.open = Null
          /\ \A i \in Taken(range) : i > Done(a)
          /\ Unmarked(range, a.textCursor)
          /\ a.text # NoPage => a.text[1].cursor = a.textCursor /\ a.text[1].next = 1
     /\ a.phase = "Collecting" =>
          /\ a.output = MergedTo(range, Taken(range), Cursor(a), Done(a))
          /\ a.breaks = LineBreaks(range.start.at, Read(a))
          /\ policy.atoms = "Propagate" => Taken(range) = {} /\ Unmarked(range, range.end.at)
          /\ IF a.open = Null THEN \A j \in 1..Len(Atoms) : ~Opened(range, Cursor(a), j)
             ELSE \E j \in 1..Len(Atoms) : Opened(range, Cursor(a), j) /\ Atoms[j].id = a.open

\* The provenance pages emitted, and the items of all of them and of the builder.
Pages(a) == a.chain \o a.page
Items(a) == Chained(Pages(a), Len(Pages(a))) \o a.builder

ItemSpace == [object : Nat, start : Nat, end : Nat]

\* The objects up to the d-th that are taken.
Listing(S, d) == Only([i \in 1..d |-> i], S)

\* The bytes an item names are the copy of its object.
Names(item, output) ==
  /\ item.start <= item.end /\ item.end <= Len(output)
  /\ SubSeq(output, item.start + 1, item.end) = Objects[item.object].copy

\* Every taken object so far has its item; pages are full, but for the last.
ProvenanceInTurn(a) ==
  /\ IF a.state = "AwaitingProvenancePage" THEN a.page = <<a.page[1]>> ELSE a.page = NoPage
  /\ policy.items # 0 =>
       /\ a.builder \in Seq(ItemSpace) /\ Pages(a) \in Seq(Seq(ItemSpace)) /\ a.chain \in Seq(Seq(ItemSpace))
       /\ [i \in DOMAIN Items(a) |-> Items(a)[i].object] = Listing(Taken(a.key.selection), Done(a))
       /\ \A i \in DOMAIN Items(a) : Names(Items(a)[i], a.output)
       /\ a.count = Len(Items(a))
       /\ a.builder # <<>> => a.building
       /\ Len(a.builder) <= policy.items
       /\ \A i \in 1..Len(Pages(a)) :
            \/ Len(Pages(a)[i]) = policy.items
            \/ i = Len(Pages(a)) /\ a.builder = <<>> /\ Done(a) = Ending(a.key.selection)

\* The ends that were met and proven are those of the objects that are done.
EndsInTurn(a) ==
  LET range == a.key.selection
      done == (Outset(range) + 1)..Done(a)
  IN /\ a.startMet = \E i \in done : Objects[i].at = range.start.at
     /\ a.endMet = \E i \in done : Objects[i].at = range.end.at
     /\ a.startProven = \E i \in done : range.start \in {Lead(i), Trail(i)}
     /\ a.endProven = \E i \in done : range.end \in {Lead(i), Trail(i)}

Merging(a) ==
  /\ policy \in Policies /\ a.key.selection \in Selections
  /\ ObjectsInTurn(a) /\ TextInTurn(a) /\ OutputInTurn(a) /\ ProvenanceInTurn(a) /\ EndsInTurn(a)

-----------------------------------------------------------------------------
(* What the next step is, and when.                                        *)

Halts(step) == step.do \in {"Terminal", "AllocateOutput"}

LEMMA RoomCases ==
  ASSUME NEW a, NEW length, NEW step
  PROVE  \/ Halts(WithRoom(a, length, step))
         \/ WithRoom(a, length, step) = step /\ ~(Len(a.output) + length > MaxBytes)
  BY DEF WithRoom, Finish, Do, Halts

\* The steps of a page of text; here the text of the operation is the page itself.
OnAtom(a, atom) ==
  LET fragments == Fragments(a.text.lo, a.text.hi)
  IN /\ a.text.next \in DOMAIN fragments /\ atom = fragments[a.text.next] /\ StartsOn(a.text, atom)
     /\ a.phase # "Classifying"

\* An atom that is there, from its start on.
Fits(a, atom) ==
  /\ ~(FragmentStart(atom, a.text.lo) < a.text.cursor) /\ ~(FragmentEnd(atom, a.text.hi) > a.text.end)
  /\ ~(atom.lo < a.key.selection.start.at) /\ ~(atom.hi > a.key.selection.end.at)
Reaches(a, atom) == Fits(a, atom) /\ ~(a.text.cursor < FragmentStart(atom, a.text.lo))

TextBefore(a, step, atom) ==
  /\ OnAtom(a, atom) /\ a.text.cursor < FragmentStart(atom, a.text.lo)
  /\ step = AppendText(a, FragmentStart(atom, a.text.lo))
  /\ ~(Len(a.output) + (FragmentStart(atom, a.text.lo) - a.text.cursor) > MaxBytes)
TextToEnd(a, step) ==
  /\ \A atom : ~OnAtom(a, atom)
  /\ a.phase # "Classifying" /\ a.text.cursor < a.text.end
  /\ step = AppendText(a, a.text.end)
  /\ ~(Len(a.output) + (a.text.end - a.text.cursor) > MaxBytes)
WholeAtom(a, step, atom) ==
  /\ OnAtom(a, atom) /\ Reaches(a, atom) /\ ~(atom.lo < a.text.lo) /\ a.open = Null
  /\ step = [do |-> "AppendAtom", atom |-> atom, end |-> FragmentEnd(atom, a.text.hi),
             opens |-> atom.hi > a.text.hi]
  /\ ~(Len(a.output) + Len(atom.copy) > MaxBytes)
RestOfAtom(a, step, atom) ==
  /\ OnAtom(a, atom) /\ Reaches(a, atom) /\ atom.lo < a.text.lo /\ a.open = atom.id
  /\ step = [do |-> "AdvanceAtom", end |-> FragmentEnd(atom, a.text.hi), closes |-> atom.hi <= a.text.hi]
TextDone(a, step) ==
  /\ step = Do("FinishText")
  /\ \/ a.phase = "Classifying" /\ ~FindsAtom(a.text)
     \/ a.phase # "Classifying" /\ ~(a.text.cursor < a.text.end)

LEMMA AtomCases ==
  ASSUME NEW a, NEW atom, OnAtom(a, atom), NEW step, step = AtomStep(a, atom)
  PROVE  \/ Halts(step) \/ TextBefore(a, step, atom) \/ WholeAtom(a, step, atom) \/ RestOfAtom(a, step, atom)
<1> DEFINE start == FragmentStart(atom, a.text.lo)
           end == FragmentEnd(atom, a.text.hi)
           appended == [do |-> "AppendAtom", atom |-> atom, end |-> end, opens |-> atom.hi > a.text.hi]
           advanced == [do |-> "AdvanceAtom", end |-> end, closes |-> atom.hi <= a.text.hi]
<1>1. PICK before, whole, rest :
        /\ before = WithRoom(a, start - a.text.cursor, AppendText(a, start))
        /\ whole = WithRoom(a, Len(atom.copy), appended)
        /\ rest = advanced
  OBVIOUS
<1>2. step = IF \/ start < a.text.cursor \/ end > a.text.end
                \/ atom.lo < a.key.selection.start.at \/ atom.hi > a.key.selection.end.at
             THEN Finish("Malformed")
             ELSE IF a.text.cursor < start THEN before
             ELSE IF atom.lo < a.text.lo
             THEN IF a.open = atom.id THEN rest ELSE Finish("Malformed")
             ELSE IF a.open # Null THEN Finish("Malformed")
             ELSE whole
  BY <1>1 DEF AtomStep
<1>3. Halts(Finish("Malformed"))
  BY DEF Halts, Finish
<1>4. CASE step = Finish("Malformed")
  BY <1>3, <1>4
<1>5. CASE step = before /\ a.text.cursor < start
  <2>1. Halts(step) \/ (step = AppendText(a, start) /\ ~(Len(a.output) + (start - a.text.cursor) > MaxBytes))
    BY <1>1, <1>5, RoomCases
  <2> QED
    BY <1>5, <2>1 DEF TextBefore
<1>6. CASE step = rest /\ Reaches(a, atom) /\ atom.lo < a.text.lo /\ a.open = atom.id
  BY <1>1, <1>6 DEF RestOfAtom
<1>7. CASE step = whole /\ Reaches(a, atom) /\ ~(atom.lo < a.text.lo) /\ a.open = Null
  <2>1. Halts(step) \/ (step = appended /\ ~(Len(a.output) + Len(atom.copy) > MaxBytes))
    BY <1>1, <1>7, RoomCases
  <2> QED
    BY <1>7, <2>1 DEF WholeAtom
<1> QED
  BY <1>2, <1>4, <1>5, <1>6, <1>7 DEF Reaches, Fits

LEMMA TextCases ==
  ASSUME NEW a, NEW step, step = TextStep(a)
  PROVE  \/ Halts(step) \/ TextDone(a, step) \/ TextToEnd(a, step)
         \/ \E atom : TextBefore(a, step, atom) \/ WholeAtom(a, step, atom) \/ RestOfAtom(a, step, atom)
<1> DEFINE fragments == Fragments(a.text.lo, a.text.hi)
<1>1. PICK rest : rest = WithRoom(a, a.text.end - a.text.cursor, AppendText(a, a.text.end))
  OBVIOUS
<1>2. step = IF a.phase = "Classifying"
             THEN IF FindsAtom(a.text) THEN Finish("Propagate") ELSE Do("FinishText")
             ELSE IF a.text.next \in DOMAIN fragments /\ StartsOn(a.text, fragments[a.text.next])
             THEN AtomStep(a, fragments[a.text.next])
             ELSE IF a.open # Null /\ fragments = <<>> THEN Finish("Malformed")
             ELSE IF a.text.cursor < a.text.end THEN rest ELSE Do("FinishText")
  BY <1>1 DEF TextStep
<1>3. \A completion : Halts(Finish(completion))
  BY DEF Halts, Finish
<1>4. CASE a.phase = "Classifying"
  BY <1>2, <1>3, <1>4 DEF TextDone
<1>5. CASE /\ a.phase # "Classifying"
           /\ a.text.next \in DOMAIN fragments /\ StartsOn(a.text, fragments[a.text.next])
  <2>1. OnAtom(a, fragments[a.text.next])
    BY <1>5 DEF OnAtom
  <2>2. step = AtomStep(a, fragments[a.text.next])
    BY <1>2, <1>5
  <2> QED
    BY <2>1, <2>2, AtomCases
<1>6. CASE /\ a.phase # "Classifying"
           /\ ~(a.text.next \in DOMAIN fragments /\ StartsOn(a.text, fragments[a.text.next]))
  <2>1. \A atom : ~OnAtom(a, atom)
    BY <1>6 DEF OnAtom
  <2>2. step \in {Finish("Malformed"), rest, Do("FinishText")}
        /\ (step = rest => a.text.cursor < a.text.end \/ step \in {Finish("Malformed"), Do("FinishText")})
        /\ (step = Do("FinishText") => ~(a.text.cursor < a.text.end) \/ step \in {Finish("Malformed"), rest})
    BY <1>2, <1>6
  <2>3. \/ step = Finish("Malformed")
        \/ a.text.cursor < a.text.end /\ step = rest
        \/ ~(a.text.cursor < a.text.end) /\ step = Do("FinishText")
    BY <1>2, <1>6
  <2>4. CASE a.text.cursor < a.text.end /\ step = rest
    <3>1. \/ Halts(step)
          \/ step = AppendText(a, a.text.end) /\ ~(Len(a.output) + (a.text.end - a.text.cursor) > MaxBytes)
      BY <1>1, <2>4, RoomCases
    <3> QED
      BY <1>6, <2>1, <2>4, <3>1 DEF TextToEnd
  <2> QED
    BY <1>3, <1>6, <2>3, <2>4 DEF TextDone
<1> QED
  BY <1>4, <1>5, <1>6

\* The steps between pages of text.
ObjectTaken(a, step) ==
  /\ a.current = NoPage /\ a.objects # NoPage /\ Head(a.objects).facts # <<>> /\ step = Do("TakeObject")
PageDone(a, step) ==
  /\ a.objects # NoPage /\ Head(a.objects).facts = <<>> /\ step = Do("FinishObjects")
MoreObjects(a, step) ==
  /\ a.objects = NoPage /\ ~a.complete /\ step = Do("NeedObjectPage")
TextUpTo(a, step) ==
  /\ step = NeedTextPage(step.target) /\ a.textCursor < step.target
  /\ \/ a.current = NoPage /\ a.objects = NoPage /\ a.complete /\ step.target = a.key.selection.end.at
     \/ a.current # NoPage /\ step.target = a.current[1].at
AllDone(a) ==
  /\ a.current = NoPage /\ a.objects = NoPage /\ a.complete /\ ~(a.textCursor < a.key.selection.end.at)
  /\ Proven(a.key.selection.start, a.startProven, a.startMet)
  /\ Proven(a.key.selection.end, a.endProven, a.endMet)
  /\ a.open = Null
LastItems(a, step) == AllDone(a) /\ HasItems(a) /\ step = Do("EmitProvenance")
Completes(a, step) == AllDone(a) /\ ~HasItems(a) /\ step = Do("CompleteCollection")

LEMMA TakeCases ==
  ASSUME NEW a, NEW step, step = TakeStep(a), a.current = NoPage
  PROVE  \/ Halts(step) \/ ObjectTaken(a, step) \/ PageDone(a, step) \/ MoreObjects(a, step)
         \/ TextUpTo(a, step) \/ LastItems(a, step) \/ Completes(a, step)
<1>1. Halts(Finish("Malformed"))
  BY DEF Halts, Finish
<1>2. CASE a.objects # NoPage
  BY <1>2 DEF TakeStep, ObjectTaken, PageDone
<1>3. CASE a.objects = NoPage /\ ~a.complete
  BY <1>3 DEF TakeStep, MoreObjects
<1>4. CASE a.objects = NoPage /\ a.complete /\ a.textCursor < a.key.selection.end.at
  <2>1. step = NeedTextPage(a.key.selection.end.at)
    BY <1>4 DEF TakeStep
  <2>2. step.target = a.key.selection.end.at
    BY <2>1 DEF NeedTextPage
  <2> QED
    BY <1>4, <2>1, <2>2 DEF TextUpTo
<1>5. CASE a.objects = NoPage /\ a.complete /\ ~(a.textCursor < a.key.selection.end.at)
  <2>1. step = IF \/ ~Proven(a.key.selection.start, a.startProven, a.startMet)
                  \/ ~Proven(a.key.selection.end, a.endProven, a.endMet)
                  \/ a.open # Null
               THEN Finish("Malformed")
               ELSE IF HasItems(a) THEN Do("EmitProvenance") ELSE Do("CompleteCollection")
    BY <1>5 DEF TakeStep
  <2> QED
    BY <1>1, <1>5, <2>1 DEF AllDone, LastItems, Completes
<1> QED
  BY <1>2, <1>3, <1>4, <1>5

\* The object before the text, when its successor or the end of the objects is known.
Facts(a) == IF a.objects = NoPage THEN <<>> ELSE Head(a.objects).facts
NextObject(a) == IF Facts(a) = <<>> THEN Null ELSE Head(Facts(a)).id
Ready(a) ==
  /\ a.current # NoPage /\ (a.objects # NoPage => Facts(a) # <<>>) /\ (NextObject(a) = Null => a.complete)
  /\ ~(a.textCursor < a.current[1].at) /\ ~(a.textCursor > a.current[1].at)
Selects(a) ==
  /\ Leads(a.key.selection.start, Leading(a.current[1], a.prior))
  /\ Leads(Trailing(a.current[1], NextObject(a)), a.key.selection.end)
ProcessStep(a) ==
  [do |-> "ProcessObject", selected |-> Selects(a), leading |-> Leading(a.current[1], a.prior),
   trailing |-> Trailing(a.current[1], NextObject(a))]
BuilderMade(a, step) == Ready(a) /\ a.phase # "Classifying" /\ step = Do("AllocateBuilder")
ObjectDone(a, step) ==
  /\ Ready(a) /\ step = ProcessStep(a)
  /\ Selects(a) =>
       /\ a.phase # "Classifying" /\ (policy.items # 0 => a.building)
       /\ ~(Len(a.output) + Len(a.current[1].copy) > MaxBytes)

LEMMA ObjectCases ==
  ASSUME NEW a, NEW step, step = ObjectStep(a), a.current # NoPage,
         Facts(a) # <<>> => NextObject(a) # Null
  PROVE  \/ Halts(step) \/ PageDone(a, step) \/ MoreObjects(a, step) \/ TextUpTo(a, step)
         \/ BuilderMade(a, step) \/ ObjectDone(a, step)
<1>1. \A completion : Halts(Finish(completion))
  BY DEF Halts, Finish
<1>2. PICK o, next, facts, process :
        /\ o = a.current[1] /\ next = NextObject(a) /\ facts = Facts(a) /\ process = ProcessStep(a)
  OBVIOUS
<1>3. PICK made, chosen :
        /\ made = (policy.items # 0 /\ ~a.building)
        /\ chosen = WithRoom(a, Len(o.copy), IF made THEN Do("AllocateBuilder") ELSE process)
  OBVIOUS
<1>4. step = IF a.objects # NoPage /\ facts = <<>> THEN Do("FinishObjects")
             ELSE IF next = Null /\ ~a.complete THEN Do("NeedObjectPage")
             ELSE IF a.textCursor < o.at THEN NeedTextPage(o.at)
             ELSE IF a.textCursor > o.at THEN Finish("Malformed")
             ELSE IF ~Selects(a) THEN process
             ELSE IF a.phase = "Classifying" THEN Finish("Propagate")
             ELSE chosen
  BY <1>2, <1>3 DEF ObjectStep, Facts, NextObject, Selects, ProcessStep
<1>5. CASE a.objects # NoPage /\ facts = <<>>
  BY <1>2, <1>4, <1>5 DEF PageDone, Facts
<1>6. CASE ~(a.objects # NoPage /\ facts = <<>>) /\ next = Null /\ ~a.complete
  <2>1. a.objects = NoPage
    <3>1. facts = <<>>
      BY <1>2, <1>6
    <3> QED
      BY <1>6, <3>1
  <2> QED
    BY <1>4, <1>6, <2>1 DEF MoreObjects
<1>7. CASE ~(a.objects # NoPage /\ facts = <<>>) /\ ~(next = Null /\ ~a.complete) /\ a.textCursor < o.at
  <2>1. step = NeedTextPage(o.at)
    BY <1>4, <1>7
  <2>2. step.target = o.at
    BY <2>1 DEF NeedTextPage
  <2> QED
    BY <1>2, <1>7, <2>1, <2>2 DEF TextUpTo
<1>8. CASE /\ ~(a.objects # NoPage /\ facts = <<>>) /\ ~(next = Null /\ ~a.complete)
           /\ ~(a.textCursor < o.at) /\ ~(a.textCursor > o.at)
  <2>1. Ready(a)
    BY <1>2, <1>8 DEF Ready
  <2>2. CASE ~Selects(a)
    <3>1. step = ProcessStep(a)
      BY <1>2, <1>4, <1>8, <2>2
    <3> QED
      BY <2>1, <2>2, <3>1 DEF ObjectDone
  <2>3. CASE Selects(a) /\ a.phase = "Classifying"
    BY <1>1, <1>4, <1>8, <2>3
  <2>4. CASE Selects(a) /\ a.phase # "Classifying"
    <3>1. step = chosen
      BY <1>4, <1>8, <2>4
    <3>2. \/ Halts(step)
          \/ /\ step = IF made THEN Do("AllocateBuilder") ELSE process
             /\ ~(Len(a.output) + Len(o.copy) > MaxBytes)
      BY <1>3, <3>1, RoomCases
    <3> QED
      BY <1>2, <1>3, <2>1, <2>4, <3>2 DEF BuilderMade, ObjectDone
  <2> QED
    BY <2>2, <2>3, <2>4
<1>9. CASE /\ ~(a.objects # NoPage /\ facts = <<>>) /\ ~(next = Null /\ ~a.complete)
           /\ ~(a.textCursor < o.at) /\ a.textCursor > o.at
  BY <1>1, <1>4, <1>9
<1> QED
  BY <1>5, <1>6, <1>7, <1>8, <1>9

-----------------------------------------------------------------------------
(* What a step leaves alone.                                               *)

SameObjects(a, b) ==
  /\ b.key = a.key /\ b.prior = a.prior /\ b.current = a.current /\ b.complete = a.complete
  /\ b.objectCursor = a.objectCursor /\ b.objects = a.objects /\ b.pendingObjects = a.pendingObjects
SameText(a, b) ==
  /\ b.key = a.key /\ b.prior = a.prior /\ b.textCursor = a.textCursor /\ b.target = a.target
  /\ b.text = a.text /\ b.pendingText = a.pendingText
SameOutput(a, b) ==
  /\ b.key = a.key /\ b.prior = a.prior /\ b.textCursor = a.textCursor /\ b.text = a.text
  /\ b.output = a.output /\ b.phase = a.phase /\ b.breaks = a.breaks /\ b.open = a.open
SameProvenance(a, b) ==
  /\ b.key = a.key /\ b.prior = a.prior /\ b.page = a.page /\ b.chain = a.chain /\ b.builder = a.builder
  /\ b.count = a.count
SameEnds(a, b) ==
  /\ b.key = a.key /\ b.prior = a.prior /\ b.startMet = a.startMet /\ b.endMet = a.endMet
  /\ b.startProven = a.startProven /\ b.endProven = a.endProven

LEMMA DoneSame ==
  ASSUME NEW a, NEW b, b.key = a.key, b.prior = a.prior
  PROVE  Done(b) = Done(a)
  BY DEF Done

LEMMA ObjectsKept ==
  ASSUME NEW a, NEW b, ObjectsInTurn(a), SameObjects(a, b),
         b.pendingObjects # Null /\ b.objects = NoPage => b.state = "ObjectPagePending"
  PROVE  ObjectsInTurn(b)
<1>1. Done(b) = Done(a) /\ Reached(b) = Reached(a)
  BY DoneSame DEF SameObjects, Reached
<1> QED
  BY <1>1 DEF ObjectsInTurn, SameObjects

LEMMA TextKept ==
  ASSUME NEW a, NEW b, TextInTurn(a), SameText(a, b),
         b.state \in {"CollectingText", "TextPagePending"} => Targets(a) /\ ~Full(b),
         b.text # NoPage \/ b.pendingText # Null => b.state = "TextPagePending"
  PROVE  TextInTurn(b)
<1>1. Done(b) = Done(a)
  BY DoneSame DEF SameText
<1>2. Targets(a) => Targets(b)
  BY <1>1 DEF Targets, SameText
<1> QED
  BY <1>1, <1>2 DEF TextInTurn, SameText

LEMMA OutputKept ==
  ASSUME NEW a, NEW b, OutputInTurn(a), SameOutput(a, b)
  PROVE  OutputInTurn(b)
<1>1. Done(b) = Done(a) /\ Cursor(b) = Cursor(a) /\ Read(b) = Read(a)
  BY DoneSame DEF SameOutput, Cursor, Read
<1> QED
  BY <1>1 DEF OutputInTurn, SameOutput

LEMMA ItemsSame ==
  ASSUME NEW a, NEW b, SameProvenance(a, b)
  PROVE  Done(b) = Done(a) /\ Pages(b) = Pages(a) /\ Items(b) = Items(a)
  BY DoneSame DEF SameProvenance, Pages, Items

LEMMA ProvenanceKept ==
  ASSUME NEW a, NEW b, ProvenanceInTurn(a), SameProvenance(a, b), b.output = a.output,
         b.building = a.building \/ b.building, b.state # "AwaitingProvenancePage",
         a.state # "AwaitingProvenancePage"
  PROVE  ProvenanceInTurn(b)
<1>1. Done(b) = Done(a) /\ Pages(b) = Pages(a) /\ Items(b) = Items(a)
  BY ItemsSame
<1> QED
  BY <1>1 DEF ProvenanceInTurn, SameProvenance

LEMMA EndsKept ==
  ASSUME NEW a, NEW b, EndsInTurn(a), SameEnds(a, b)
  PROVE  EndsInTurn(b)
<1>1. Done(b) = Done(a)
  BY DoneSame DEF SameEnds
<1> QED
  BY <1>1 DEF EndsInTurn, SameEnds

LEMMA TailFacts ==
  ASSUME NEW A, NEW s \in Seq(A), s # <<>>
  PROVE  Tail(s) = [i \in 1..(Len(s) - 1) |-> s[i + 1]]
<1>1. PICK t, n : t = Tail(s) /\ n = Len(s) - 1
  OBVIOUS
<1>2. t \in Seq(A) /\ Len(t) = n /\ \A i \in 1..n : t[i] = s[i + 1]
  BY <1>1
<1>3. t = [i \in 1..n |-> t[i]]
  BY <1>2
<1> QED
  BY <1>1, <1>2, <1>3

LEMMA SliceFacts ==
  ASSUME NEW A, NEW s \in Seq(A), NEW m \in Nat, NEW n \in Nat, m <= n, n <= Len(s)
  PROVE  SubSeq(s, m + 1, n) = [i \in 1..(n - m) |-> s[m + i]]
<1>1. SubSeq(s, m + 1, n) = [i \in 1..(1 + n - (m + 1)) |-> s[i + (m + 1) - 1]]
  BY SMT
<1>2. 1 + n - (m + 1) = n - m /\ \A i \in 1..(n - m) : i + (m + 1) - 1 = m + i
  OBVIOUS
<1> QED
  BY <1>1, <1>2

\* What is appended to the output leaves the bytes of an item.
LEMMA NamesKept ==
  ASSUME NEW item, item.start \in Nat, item.end \in Nat, NEW s \in Seq(Nat), NEW x \in Seq(Nat),
         Names(item, s)
  PROVE  Names(item, s \o x)
<1>1. PICK m, n, z : m = item.start /\ n = item.end /\ z = s \o x
  OBVIOUS
<1>2. m \in Nat /\ n \in Nat /\ m <= n /\ n <= Len(s) /\ Len(s) \in Nat /\ Len(x) \in Nat
  BY <1>1 DEF Names
<1>3. /\ z \in Seq(Nat) /\ Len(z) = Len(s) + Len(x)
      /\ \A i \in 1..Len(s) : z[i] = s[i]
  BY <1>1, TextAt
<1>4. SubSeq(z, m + 1, n) = SubSeq(s, m + 1, n)
  <2>1. PICK k : k = Len(s)
    OBVIOUS
  <2>2. \A i \in 1..(n - m) : m + i \in 1..k
    BY <1>2, <2>1
  <2>3. \A i \in 1..(n - m) : z[m + i] = s[m + i]
    BY <1>3, <2>1, <2>2
  <2>4. n <= Len(z)
    BY <1>2, <1>3
  <2>5. SubSeq(z, m + 1, n) = [i \in 1..(n - m) |-> z[m + i]]
    BY ONLY <1>2, <1>3, <2>4, SliceFacts
  <2>6. SubSeq(s, m + 1, n) = [i \in 1..(n - m) |-> s[m + i]]
    BY <1>2, SliceFacts
  <2> QED
    BY <2>3, <2>5, <2>6
<1>5. n <= Len(z)
  BY <1>2, <1>3
<1> QED
  BY <1>1, <1>2, <1>4, <1>5 DEF Names

LEMMA ItemsIn ==
  ASSUME NEW a, a.builder \in Seq(ItemSpace), Pages(a) \in Seq(Seq(ItemSpace))
  PROVE  /\ Items(a) \in Seq(ItemSpace) /\ Chained(Pages(a), Len(Pages(a))) \in Seq(ItemSpace)
         /\ DOMAIN Items(a) = 1..Len(Items(a)) /\ Len(Items(a)) \in Nat
         /\ \A i \in DOMAIN Items(a) :
              Items(a)[i].object \in Nat /\ Items(a)[i].start \in Nat /\ Items(a)[i].end \in Nat
<1>1. PICK v, n : v = Pages(a) /\ n = Len(v)
  OBVIOUS
<1>2. n \in Nat /\ \A i \in 1..n : v[i] \in Seq(ItemSpace)
  BY <1>1
<1>3. Chained(v, n) \in Seq(ItemSpace)
  BY <1>2, ChainedIn
<1>4. PICK s : s = Items(a)
  OBVIOUS
<1>5. s \in Seq(ItemSpace)
  BY <1>1, <1>3, <1>4, ConcatIn DEF Items
<1>6. DOMAIN s = 1..Len(s) /\ Len(s) \in Nat /\ \A i \in DOMAIN s : s[i] \in ItemSpace
  BY <1>5
<1> QED
  BY <1>1, <1>3, <1>4, <1>5, <1>6 DEF ItemSpace

\* The provenance stands when the output grows.
LEMMA ProvenanceGrows ==
  ASSUME NEW a, NEW b, ProvenanceInTurn(a), SameProvenance(a, b), NEW x \in Seq(Nat),
         a.output \in Seq(Nat), b.output = a.output \o x, b.building = a.building,
         b.state = a.state
  PROVE  ProvenanceInTurn(b)
<1>1. Done(b) = Done(a) /\ Pages(b) = Pages(a) /\ Items(b) = Items(a)
  BY ItemsSame
<1>2. ASSUME policy.items # 0 PROVE \A i \in DOMAIN Items(b) : Names(Items(b)[i], b.output)
  <2>1. a.builder \in Seq(ItemSpace) /\ Pages(a) \in Seq(Seq(ItemSpace))
        /\ \A i \in DOMAIN Items(a) : Names(Items(a)[i], a.output)
    BY <1>2 DEF ProvenanceInTurn
  <2> SUFFICES ASSUME NEW i \in DOMAIN Items(a) PROVE Names(Items(a)[i], a.output \o x)
    BY <1>1
  <2>2. PICK item : item = Items(a)[i]
    OBVIOUS
  <2>3. item.start \in Nat /\ item.end \in Nat
    BY <2>1, <2>2, ItemsIn
  <2>4. Names(item, a.output)
    BY <2>1, <2>2
  <2> QED
    BY <2>2, <2>3, <2>4, NamesKept
<1> QED
  BY <1>1, <1>2 DEF ProvenanceInTurn, SameProvenance

-----------------------------------------------------------------------------
(* Where a merge is.                                                       *)

\* The line breaks of two runs are those of both.
LEMMA BreaksFacts ==
  ASSUME NEW p \in Nat, NEW q \in Nat, NEW r \in Nat, p <= q, q <= r
  PROVE  /\ LineBreaks(p, r) = LineBreaks(p, q) + LineBreaks(q, r)
         /\ LineBreaks(p, q) \in Nat /\ LineBreaks(q, r) \in Nat /\ LineBreaks(p, p) = 0
<1>1. PICK S, T, U : S = Breaks \cap p..(q - 1) /\ T = Breaks \cap q..(r - 1) /\ U = Breaks \cap p..(r - 1)
  OBVIOUS
<1>2. \A x, y \in Nat : IsFiniteSet(x..(y - 1))
  BY FS_Interval
<1>3. IsFiniteSet(S) /\ IsFiniteSet(T)
  <2>1. S \in SUBSET (p..(q - 1)) /\ T \in SUBSET (q..(r - 1))
    BY <1>1
  <2> QED
    BY <1>2, <2>1, FS_Subset
<1>4. S \cup T = U /\ S \cap T = {}
  <2>1. p..(q - 1) \cup q..(r - 1) = p..(r - 1) /\ \A x \in p..(q - 1) : x \notin q..(r - 1)
    OBVIOUS
  <2> QED
    BY <1>1, <2>1
<1>5. Cardinality(S) \in Nat /\ Cardinality(T) \in Nat /\ Cardinality({}) = 0
  BY <1>3, FS_CardinalityType, FS_EmptySet
<1>6. Cardinality(U) = Cardinality(S) + Cardinality(T)
  <2>1. Cardinality(S \cup T) = Cardinality(S) + Cardinality(T) - Cardinality(S \cap T)
    BY <1>3, FS_Union
  <2>2. PICK x, y : x = Cardinality(S) /\ y = Cardinality(T)
    OBVIOUS
  <2>3. Cardinality(U) = x + y - 0
    BY <1>4, <1>5, <2>1, <2>2
  <2> QED
    BY <1>5, <2>2, <2>3
<1>7. Breaks \cap p..(p - 1) = {}
  OBVIOUS
<1> QED
  BY <1>1, <1>5, <1>6, <1>7 DEF LineBreaks

LEMMA BoundsFacts ==
  /\ MaxBytes \in Nat /\ MaxObjects \in Nat /\ MaxAsks \in Nat
  /\ \A hi \in Cuts : hi \in 1..Extent
  BY LimitsAssumption, SourceAssumption

\* A merge is somewhere in its selection.
LEMMA PlaceFacts ==
  ASSUME NEW a, Merging(a), NEW range, range = a.key.selection
  PROVE  /\ range \in Selections
         /\ Done(a) \in Nat /\ Outset(range) <= Done(a) /\ Done(a) <= Ending(range)
         /\ Done(a) \in 0..Len(Objects)
         /\ a.current # NoPage => Done(a) < Ending(range)
         /\ a.textCursor \in Nat /\ range.start.at <= a.textCursor /\ a.textCursor <= Cursor(a)
         /\ Cursor(a) \in Nat /\ Cursor(a) <= range.end.at
<1>1. range \in Selections /\ ObjectsInTurn(a) /\ TextInTurn(a)
  BY DEF Merging
<1>2. PICK f, l, d, n : f = Outset(range) /\ l = Ending(range) /\ d = Done(a) /\ n = Len(Objects)
  OBVIOUS
<1>3. f \in Nat /\ l \in Nat /\ f <= l /\ l <= n /\ n \in Nat
  BY <1>1, <1>2, OutsetFacts, SourceFacts
<1>4. d = f \/ d \in (f + 1)..l
  BY <1>1, <1>2 DEF ObjectsInTurn, Done
<1>5. d \in Nat /\ f <= d /\ d <= l /\ d \in 0..n
  BY <1>3, <1>4
<1>6. a.current # NoPage => d < l
  BY <1>1, <1>2 DEF ObjectsInTurn
<1>7. PICK s, e, c : s = range.start.at /\ e = range.end.at /\ c = a.textCursor
  OBVIOUS
<1>8. s \in Nat /\ e \in Nat /\ c \in s..e
  BY <1>1, <1>7, SelectionFacts DEF TextInTurn
<1>9. CASE a.text = NoPage
  BY <1>1, <1>2, <1>5, <1>6, <1>7, <1>8, <1>9 DEF Cursor
<1>10. CASE a.text # NoPage
  <2>1. PICK page, g : page = a.text[1] /\ g = a.target
    OBVIOUS
  <2>2. Consumed(page, c, g) /\ g \in (c + 1)..e
    BY <1>1, <1>7, <1>10, <2>1 DEF TextInTurn, Targets
  <2>3. PICK h, u, k : h = page.hi /\ u = page.end /\ k = page.cursor
    OBVIOUS
  <2>4. /\ page.lo = c /\ h \in 1..Extent /\ c < u /\ u = (IF h < g THEN h ELSE g) /\ k \in c..u
    BY <2>2, <2>3 DEF Consumed
  <2>5. k \in Nat /\ c <= k /\ k <= e
    BY <1>8, <2>2, <2>4
  <2>6. Cursor(a) = k
    BY <1>10, <2>1, <2>3 DEF Cursor
  <2> QED
    BY <1>1, <1>2, <1>5, <1>6, <1>7, <1>8, <2>5, <2>6
<1> QED
  BY <1>9, <1>10

LEMMA OutputIn ==
  ASSUME NEW a, Merging(a)
  PROVE  a.output \in Seq(Nat)
<1>1. PICK range : range = a.key.selection
  OBVIOUS
<1>2. OutputInTurn(a)
  BY DEF Merging
<1>3. CASE a.phase = "Classifying"
  BY <1>2, <1>3, EmptyText DEF OutputInTurn
<1>4. CASE a.phase = "Collecting"
  <2>1. a.output = MergedTo(range, Taken(range), Cursor(a), Done(a))
    BY <1>1, <1>2, <1>4 DEF OutputInTurn
  <2>2. PICK p, d : p = Cursor(a) /\ d = Done(a)
    OBVIOUS
  <2>3. /\ range \in Selections /\ d \in 0..Len(Objects) /\ range.start.at <= a.textCursor
        /\ a.textCursor <= p /\ p \in Nat /\ p <= range.end.at /\ a.textCursor \in Nat
    BY <1>1, <2>2, PlaceFacts
  <2>4. range.start.at \in Nat
    BY <2>3, SelectionFacts
  <2>5. range.start.at <= p
    BY <2>3, <2>4
  <2>6. MergedTo(range, Taken(range), p, d) \in Seq(Nat)
    BY <2>3, <2>5, MergedFacts
  <2> QED
    BY <2>1, <2>2, <2>6
<1> QED
  BY <1>2, <1>3, <1>4 DEF OutputInTurn

\* A step that changes neither text, objects, output nor provenance.
LEMMA MergingKept ==
  ASSUME NEW a, NEW b, Merging(a), SameObjects(a, b), SameText(a, b), SameOutput(a, b),
         SameProvenance(a, b), SameEnds(a, b), b.state = a.state, a.state # "AwaitingProvenancePage",
         b.building = a.building \/ b.building
  PROVE  Merging(b)
<1>1. ObjectsInTurn(b)
  <2>1. ObjectsInTurn(a)
    BY DEF Merging
  <2>2. b.pendingObjects # Null /\ b.objects = NoPage => b.state = "ObjectPagePending"
    BY <2>1 DEF ObjectsInTurn, SameObjects
  <2> QED
    BY <2>1, <2>2, ObjectsKept
<1>2. TextInTurn(b)
  <2>1. TextInTurn(a)
    BY DEF Merging
  <2>2. Full(b) = Full(a)
    BY DEF Full, SameProvenance
  <2>3. /\ b.state \in {"CollectingText", "TextPagePending"} => Targets(a) /\ ~Full(b)
        /\ b.text # NoPage \/ b.pendingText # Null => b.state = "TextPagePending"
    BY <2>1, <2>2 DEF TextInTurn, SameText
  <2> QED
    BY <2>1, <2>3, TextKept
<1>3. OutputInTurn(b)
  BY OutputKept DEF Merging
<1>4. ProvenanceInTurn(b)
  BY ProvenanceKept DEF Merging, SameOutput
<1>5. EndsInTurn(b)
  BY EndsKept DEF Merging
<1> QED
  BY <1>1, <1>2, <1>3, <1>4, <1>5 DEF Merging, SameObjects

-----------------------------------------------------------------------------
(* The fragments of a page, and how a merge goes along them.               *)

Fragmented(s, lo, hi) ==
  /\ Len(s) \in Nat /\ DOMAIN s = 1..Len(s)
  /\ \A i \in 1..Len(s) : \E j \in 1..Len(Atoms) :
       s[i] = Atoms[j] /\ Atoms[j].lo < hi /\ lo < Atoms[j].hi
  /\ \A j \in 1..Len(Atoms) : Atoms[j].lo < hi /\ lo < Atoms[j].hi => \E i \in 1..Len(s) : s[i] = Atoms[j]
  /\ \A i, k \in 1..Len(s) : i < k => s[i].hi <= s[k].lo

LEMMA FragmentFacts ==
  ASSUME NEW lo \in Nat, NEW hi \in Nat, NEW s, s = Fragments(lo, hi)
  PROVE  Fragmented(s, lo, hi)
<1>1. PICK f, l : Listed(s, lo, hi, f, l)
  BY FragmentsFacts
<1>2. PICK n, m : n = Len(Atoms) /\ m = l + 1 - f
  OBVIOUS
<1>3. /\ n \in Nat /\ f \in 1..(n + 1) /\ l \in 0..n /\ f <= l + 1
      /\ s = SubSeq(Atoms, f, l) /\ Len(s) = m
      /\ \A k \in 1..m : s[k] = Atoms[f + k - 1]
      /\ \A i \in 1..n : i \in f..l <=> Atoms[i].lo < hi /\ lo < Atoms[i].hi
  BY <1>1, <1>2, SourceFacts DEF Listed
<1>4. m \in Nat /\ \A k \in 1..m : f + k - 1 \in 1..n /\ f + k - 1 \in f..l
  BY <1>2, <1>3
<1>5. DOMAIN s = 1..Len(s)
  <2>1. Atoms \in Seq(AtomSpace) /\ f \in Nat /\ l \in Nat
    BY <1>3, SourceFacts
  <2>2. SubSeq(Atoms, f, l) = [i \in 1..(1 + l - f) |-> Atoms[i + f - 1]]
    BY <2>1, SMT
  <2>3. 1 + l - f = m
    BY <1>2, <1>3
  <2> QED
    BY <1>3, <2>2, <2>3
<1>6. \A i \in 1..m : \E j \in 1..n : s[i] = Atoms[j] /\ Atoms[j].lo < hi /\ lo < Atoms[j].hi
  BY <1>3, <1>4
<1>7. \A j \in 1..n : Atoms[j].lo < hi /\ lo < Atoms[j].hi => \E i \in 1..m : s[i] = Atoms[j]
  <2> SUFFICES ASSUME NEW j \in f..l, j \in 1..n PROVE \E i \in 1..m : s[i] = Atoms[j]
    BY <1>3
  <2>1. j + 1 - f \in 1..m /\ f + (j + 1 - f) - 1 = j
    BY <1>2, <1>3
  <2> QED
    BY <1>3, <2>1
<1>8. \A i, k \in 1..m : i < k => s[i].hi <= s[k].lo
  <2> SUFFICES ASSUME NEW i \in 1..m, NEW k \in 1..m, i < k PROVE s[i].hi <= s[k].lo
    OBVIOUS
  <2>1. f + i - 1 < f + k - 1
    BY <1>3
  <2>2. Atoms[f + i - 1].hi <= Atoms[f + k - 1].lo
    BY <1>2, <1>4, <2>1, AtomFacts
  <2> QED
    BY <1>3, <2>2
<1> QED
  BY <1>2, <1>3, <1>4, <1>5, <1>6, <1>7, <1>8 DEF Fragmented

\* The ends of a fragment, as numbers.
LEMMA FragmentAt ==
  ASSUME NEW lo \in Nat, NEW hi \in Nat, lo < hi, NEW s, s = Fragments(lo, hi), NEW i \in 1..Len(s)
  PROVE  /\ s[i].lo \in Nat /\ s[i].hi \in Nat /\ s[i].lo < s[i].hi /\ s[i].lo < hi /\ lo < s[i].hi
         /\ s[i].copy \in Seq(Nat) /\ s[i].id # Null
         /\ FragmentStart(s[i], lo) \in Nat /\ s[i].lo <= FragmentStart(s[i], lo) /\ lo <= FragmentStart(s[i], lo)
         /\ FragmentStart(s[i], lo) < s[i].hi /\ FragmentStart(s[i], lo) < hi
         /\ FragmentStart(s[i], lo) \in {lo, s[i].lo}
         /\ FragmentEnd(s[i], hi) \in Nat /\ FragmentEnd(s[i], hi) <= s[i].hi /\ FragmentEnd(s[i], hi) <= hi
         /\ FragmentEnd(s[i], hi) \in {hi, s[i].hi}
         /\ FragmentStart(s[i], lo) < FragmentEnd(s[i], hi)
<1>a. Fragmented(s, lo, hi)
  BY FragmentFacts
<1>1. PICK j \in 1..Len(Atoms) : s[i] = Atoms[j] /\ Atoms[j].lo < hi /\ lo < Atoms[j].hi
  BY <1>a DEF Fragmented
<1>2. PICK x, y : x = s[i].lo /\ y = s[i].hi
  OBVIOUS
<1>3. x \in Nat /\ y \in Nat /\ x < y /\ x < hi /\ lo < y /\ s[i].copy \in Seq(Nat) /\ s[i].id # Null
  BY <1>1, <1>2, AtomFacts
<1>4. /\ FragmentStart(s[i], lo) = (IF x < lo THEN lo ELSE x)
      /\ FragmentEnd(s[i], hi) = (IF y > hi THEN hi ELSE y)
  BY <1>2 DEF FragmentStart, FragmentEnd
<1> QED
  BY <1>2, <1>3, <1>4, SMTT(40)

\* Between two offsets that have the same fragment next there is no atom.
LEMMA NoAtomBetween ==
  ASSUME NEW page, NEW p \in Nat, NEW q \in Nat, NEW n, Aligned(page, p, n), Aligned(page, q, n),
         page.lo \in Nat, page.hi \in Nat, page.lo <= p, p < q, q <= page.hi
  PROVE  \A j \in 1..Len(Atoms) : ~(Atoms[j].lo < q /\ p < Atoms[j].hi)
<1>1. PICK lo, hi, s : lo = page.lo /\ hi = page.hi /\ s = Fragments(lo, hi)
  OBVIOUS
<1>2. lo \in Nat /\ hi \in Nat /\ lo <= p /\ p < q /\ q <= hi /\ lo < hi
  BY <1>1
<1> SUFFICES ASSUME NEW j \in 1..Len(Atoms), Atoms[j].lo < q, p < Atoms[j].hi PROVE FALSE
  OBVIOUS
<1>3. PICK x, y : x = Atoms[j].lo /\ y = Atoms[j].hi /\ x \in Nat /\ y \in Nat /\ x < q /\ p < y
  BY AtomFacts
<1>4. x < hi /\ lo < y
  BY <1>2, <1>3
<1>a. Fragmented(s, lo, hi)
  BY <1>1, <1>2, FragmentFacts
<1>5. PICK i \in 1..Len(s) : s[i] = Atoms[j]
  BY <1>3, <1>4, <1>a DEF Fragmented
<1>6. Len(s) \in Nat /\ n \in 1..(Len(s) + 1)
  BY <1>1, <1>a DEF Aligned, Fragmented
<1>7. CASE i < n
  <2>1. FragmentEnd(s[i], hi) <= p
    BY <1>1, <1>5, <1>7 DEF Aligned
  <2>2. FragmentEnd(s[i], hi) = IF y > hi THEN hi ELSE y
    BY <1>3, <1>5 DEF FragmentEnd
  <2> QED
    BY <1>2, <1>3, <2>1, <2>2
<1>8. CASE ~(i < n)
  <2>1. q <= FragmentStart(s[i], lo)
    BY <1>1, <1>5, <1>8 DEF Aligned
  <2>2. FragmentStart(s[i], lo) = IF x < lo THEN lo ELSE x
    BY <1>3, <1>5 DEF FragmentStart
  <2> QED
    BY <1>2, <1>3, <2>1, <2>2
<1> QED
  BY <1>7, <1>8

\* Up to the start of the next fragment nothing is passed.
LEMMA AlignedTo ==
  ASSUME NEW page, NEW p \in Nat, NEW q \in Nat, NEW n, Aligned(page, p, n), p <= q,
         page.lo \in Nat, page.hi \in Nat, page.lo < page.hi,
         n \in DOMAIN Fragments(page.lo, page.hi)
           => q <= FragmentStart(Fragments(page.lo, page.hi)[n], page.lo)
  PROVE  Aligned(page, q, n)
<1>1. PICK lo, hi, s, m : lo = page.lo /\ hi = page.hi /\ s = Fragments(lo, hi) /\ m = Len(s)
  OBVIOUS
<1>a. lo \in Nat /\ hi \in Nat /\ lo < hi /\ Fragmented(s, lo, hi)
  BY <1>1, FragmentFacts
<1>2. /\ lo \in Nat /\ hi \in Nat /\ lo < hi /\ m \in Nat /\ DOMAIN s = 1..m /\ n \in 1..(m + 1)
      /\ \A i \in 1..m : IF i < n THEN FragmentEnd(s[i], hi) <= p ELSE p <= FragmentStart(s[i], lo)
  BY <1>1, <1>a DEF Aligned, Fragmented
<1>3. ASSUME NEW i \in 1..m, i < n PROVE FragmentEnd(s[i], hi) <= q
  <2>1. FragmentEnd(s[i], hi) \in Nat
    BY <1>1, <1>2, FragmentAt
  <2> QED
    BY <1>2, <1>3, <2>1
<1>4. ASSUME NEW i \in 1..m, ~(i < n) PROVE q <= FragmentStart(s[i], lo)
  <2>1. n \in 1..m
    BY <1>2, <1>4
  <2>2. q <= FragmentStart(s[n], lo)
    BY <1>1, <1>2, <2>1
  <2>3. CASE i = n
    BY <2>2, <2>3
  <2>4. CASE i # n
    <3>1. n < i
      BY <1>2, <1>4, <2>4
    <3>2. s[n].hi <= s[i].lo
      BY <1>1, <1>2, <1>a, <2>1, <3>1 DEF Fragmented
    <3>3. FragmentStart(s[n], lo) < s[n].hi /\ FragmentStart(s[n], lo) \in Nat /\ s[n].hi \in Nat
      BY ONLY <1>1, <1>2, <2>1, FragmentAt, ZenonT(40)
    <3>4. s[i].lo <= FragmentStart(s[i], lo) /\ s[i].lo \in Nat /\ FragmentStart(s[i], lo) \in Nat
      BY <1>1, <1>2, FragmentAt, ZenonT(40)
    <3> QED
      BY <2>2, <3>2, <3>3, <3>4
  <2> QED
    BY <2>3, <2>4
<1> QED
  BY <1>1, <1>2, <1>3, <1>4 DEF Aligned

\* At the end of the next fragment it is passed.
LEMMA AlignedPast ==
  ASSUME NEW page, NEW p \in Nat, NEW q, NEW n, Aligned(page, p, n), p <= q,
         page.lo \in Nat, page.hi \in Nat, page.lo < page.hi,
         n \in DOMAIN Fragments(page.lo, page.hi),
         q = FragmentEnd(Fragments(page.lo, page.hi)[n], page.hi)
  PROVE  Aligned(page, q, n + 1)
<1>1. PICK lo, hi, s, m : lo = page.lo /\ hi = page.hi /\ s = Fragments(lo, hi) /\ m = Len(s)
  OBVIOUS
<1>a. lo \in Nat /\ hi \in Nat /\ lo < hi /\ Fragmented(s, lo, hi)
  BY <1>1, FragmentFacts
<1>2. /\ lo \in Nat /\ hi \in Nat /\ lo < hi /\ m \in Nat /\ n \in 1..m
      /\ \A i \in 1..m : IF i < n THEN FragmentEnd(s[i], hi) <= p ELSE p <= FragmentStart(s[i], lo)
      /\ q = FragmentEnd(s[n], hi)
  BY <1>1, <1>a DEF Aligned, Fragmented
<1>3. q \in Nat /\ q <= s[n].hi /\ s[n].hi \in Nat
  <2>1. FragmentEnd(s[n], hi) \in Nat /\ FragmentEnd(s[n], hi) <= s[n].hi /\ s[n].hi \in Nat
    <3>1. n \in 1..Len(s) /\ s = Fragments(lo, hi) /\ lo < hi /\ lo \in Nat /\ hi \in Nat
      BY <1>1, <1>2
    <3> HIDE DEF FragmentEnd
    <3> QED
      BY <3>1, FragmentAt
  <2> QED
    BY <1>2, <2>1
<1>4. ASSUME NEW i \in 1..m, i < n + 1 PROVE FragmentEnd(s[i], hi) <= q
  <2>1. FragmentEnd(s[i], hi) \in Nat
    BY <1>1, <1>2, FragmentAt
  <2>2. i < n \/ i = n
    BY <1>2, <1>4
  <2> QED
    BY <1>2, <1>3, <2>1, <2>2
<1>5. ASSUME NEW i \in 1..m, ~(i < n + 1) PROVE q <= FragmentStart(s[i], lo)
  <2>1. n < i
    BY <1>2, <1>5
  <2>2. s[n].hi <= s[i].lo
    BY <1>1, <1>2, <1>a, <2>1 DEF Fragmented
  <2>3. s[i].lo <= FragmentStart(s[i], lo) /\ s[i].lo \in Nat /\ FragmentStart(s[i], lo) \in Nat
    BY <1>1, <1>2, FragmentAt, ZenonT(40)
  <2> QED
    BY <1>3, <2>2, <2>3
<1>6. n + 1 \in 1..(m + 1)
  BY <1>2
<1> QED
  BY <1>1, <1>2, <1>4, <1>5, <1>6 DEF Aligned

-----------------------------------------------------------------------------
(* The steps on a page of text.                                            *)

LEMMA PageFacts ==
  ASSUME NEW a, Merging(a), a.text # NoPage, NEW page, page = a.text[1], NEW range, range = a.key.selection
  PROVE  /\ a.text = <<page>> /\ Consumed(page, a.textCursor, a.target) /\ Targets(a) /\ ~Full(a)
         /\ a.state = "TextPagePending"
         /\ page.lo = a.textCursor /\ page.lo \in Nat /\ page.hi \in Nat /\ page.end \in Nat
         /\ page.cursor \in Nat /\ page.lo <= page.cursor /\ page.cursor <= page.end
         /\ page.lo < page.end /\ page.end <= page.hi /\ page.hi <= Extent /\ page.lo < page.hi
         /\ page.end <= a.target /\ a.target \in Nat /\ a.target <= range.end.at
         /\ page.end = (IF page.hi < a.target THEN page.hi ELSE a.target)
         /\ Cursor(a) = page.cursor /\ Read(a) = page.end
         /\ page = [lo |-> page.lo, hi |-> page.hi, end |-> page.end, cursor |-> page.cursor, next |-> page.next]
<1>1. a.text = <<page>> /\ Consumed(page, a.textCursor, a.target) /\ Targets(a) /\ ~Full(a)
      /\ a.state = "TextPagePending"
  BY DEF Merging, TextInTurn
<1>2. PICK c, g, h, u, k : c = a.textCursor /\ g = a.target /\ h = page.hi /\ u = page.end /\ k = page.cursor
  OBVIOUS
<1>3. c \in Nat /\ range.end.at \in Nat
  BY <1>2, PlaceFacts, SelectionFacts
<1>4. g \in (c + 1)..range.end.at
  BY <1>1, <1>2 DEF Targets
<1>5. /\ page.lo = c /\ h \in 1..Extent /\ c < u /\ u = (IF h < g THEN h ELSE g) /\ k \in c..u
      /\ page = [lo |-> c, hi |-> h, end |-> u, cursor |-> k, next |-> page.next]
  BY <1>1, <1>2 DEF Consumed
<1>6. /\ h \in Nat /\ u \in Nat /\ k \in Nat /\ g \in Nat /\ c <= k /\ k <= u /\ u <= h /\ h <= Extent
      /\ c < h /\ u <= g /\ g <= range.end.at
  BY <1>3, <1>4, <1>5, SourceFacts
<1>7. Cursor(a) = k /\ Read(a) = u
  BY <1>2 DEF Cursor, Read
<1> QED
  BY <1>1, <1>2, <1>3, <1>5, <1>6, <1>7

\* Text x is taken from the page up to offset q; the n-th fragment is next.
TextTaken(a, b, q, n, x) ==
  /\ SameObjects(a, b) /\ SameProvenance(a, b) /\ SameEnds(a, b)
  /\ b.state = a.state /\ b.building = a.building /\ b.phase = a.phase /\ b.breaks = a.breaks
  /\ b.textCursor = a.textCursor /\ b.target = a.target /\ b.pendingText = a.pendingText
  /\ b.text = <<[a.text[1] EXCEPT !.cursor = q, !.next = n]>>
  /\ b.output = a.output \o x

\* The atom that is open at an offset.
OpenAt(open, range, p) ==
  IF open = Null THEN \A j \in 1..Len(Atoms) : ~Opened(range, p, j)
  ELSE \E j \in 1..Len(Atoms) : Opened(range, p, j) /\ Atoms[j].id = open

LEMMA TextAdvances ==
  ASSUME NEW a, NEW b, Merging(a), a.text # NoPage, a.phase = "Collecting",
         NEW q \in Nat, a.text[1].cursor < q, q <= a.text[1].end, NEW n, Aligned(a.text[1], q, n),
         NEW x \in Seq(Nat), x = Chained(Symbols(a.text[1].cursor, q), q - a.text[1].cursor),
         ~(Len(a.output) + Len(x) > MaxBytes),
         OpenAt(b.open, a.key.selection, q), TextTaken(a, b, q, n, x)
  PROVE  Merging(b)
<1>1. PICK page, range, p, d : page = a.text[1] /\ range = a.key.selection /\ p = page.cursor /\ d = Done(a)
  OBVIOUS
<1>2. /\ ObjectsInTurn(a) /\ TextInTurn(a) /\ OutputInTurn(a) /\ ProvenanceInTurn(a) /\ EndsInTurn(a)
      /\ b.key = a.key /\ b.prior = a.prior
  BY DEF Merging, TextTaken, SameObjects
<1>3. /\ a.text = <<page>> /\ Consumed(page, a.textCursor, a.target) /\ Targets(a) /\ ~Full(a)
      /\ a.state = "TextPagePending" /\ Cursor(a) = p /\ Read(a) = page.end
      /\ page.lo = a.textCursor /\ page.lo \in Nat /\ page.end \in Nat /\ p \in Nat /\ page.lo <= p
      /\ page.end <= a.target /\ a.target \in Nat /\ a.target <= range.end.at
      /\ page = [lo |-> page.lo, hi |-> page.hi, end |-> page.end, cursor |-> p, next |-> page.next]
  BY <1>1, PageFacts
<1>4. PICK more : more = [page EXCEPT !.cursor = q, !.next = n]
  OBVIOUS
<1>5. /\ more = [lo |-> page.lo, hi |-> page.hi, end |-> page.end, cursor |-> q, next |-> n]
      /\ b.text = <<more>> /\ b.text # NoPage /\ b.text[1] = more
  <2>1. b.text = <<more>>
    BY <1>1, <1>4 DEF TextTaken
  <2>2. more = [lo |-> page.lo, hi |-> page.hi, end |-> page.end, cursor |-> q, next |-> n]
    BY <1>3, <1>4
  <2>3. <<more>> # <<>> /\ <<more>>[1] = more
    OBVIOUS
  <2> QED
    BY <2>1, <2>2, <2>3 DEF NoPage
<1>6. Done(b) = d /\ Cursor(b) = q /\ Read(b) = page.end
  BY <1>1, <1>2, <1>5, DoneSame DEF Cursor, Read
<1>7. ObjectsInTurn(b)
  <2>1. b.pendingObjects # Null /\ b.objects = NoPage => b.state = "ObjectPagePending"
    BY <1>2 DEF ObjectsInTurn, TextTaken, SameObjects
  <2> QED
    BY <1>2, <2>1, ObjectsKept DEF TextTaken
<1>8. TextInTurn(b)
  <2>1. Consumed(more, a.textCursor, a.target)
    <3>1. Aligned(more, q, n)
      BY <1>1, <1>5 DEF Aligned
    <3>2. q \in page.lo..page.end
      BY <1>1, <1>3
    <3> QED
      BY <1>3, <1>5, <3>1, <3>2 DEF Consumed
  <2>2. Targets(b)
    BY <1>1, <1>2, <1>3, <1>6 DEF Targets, TextTaken
  <2>3. ~Full(b)
    BY <1>3 DEF Full, TextTaken, SameProvenance
  <2> QED
    BY <1>1, <1>2, <1>3, <1>5, <1>6, <2>1, <2>2, <2>3 DEF TextInTurn, TextTaken
<1>9. /\ range \in Selections /\ d \in 0..Len(Objects) /\ d \in Nat /\ range.start.at <= a.textCursor
      /\ a.textCursor \in Nat /\ range.start.at \in Nat /\ range.end.at \in Nat
      /\ Outset(range) \in Nat /\ Ending(range) \in Nat /\ Outset(range) <= d
  BY <1>1, PlaceFacts, SelectionFacts, OutsetFacts
<1>10. OutputInTurn(b)
  <2>1. MergedTo(range, Taken(range), q, d) = MergedTo(range, Taken(range), p, d) \o x
    <3>1. \A i \in 1..Len(Objects) : i \in Taken(range) /\ i <= d => Objects[i].at <= p
      <4> SUFFICES ASSUME NEW i \in 1..Len(Objects), i \in Taken(range), i <= d PROVE Objects[i].at <= p
        OBVIOUS
      <4>1. Objects[i].at <= a.textCursor
        BY <1>1, <1>2 DEF TextInTurn
      <4>2. Objects[i].at \in Nat
        BY ObjectFacts
      <4> QED
        BY <1>3, <4>1, <4>2
    <3>2. \A i \in 1..Len(Objects) : i \in Taken(range) /\ i > d => q <= Objects[i].at
      <4> SUFFICES ASSUME NEW i \in 1..Len(Objects), i \in Taken(range), i > d PROVE q <= Objects[i].at
        OBVIOUS
      <4>1. i \in (Outset(range) + 1)..Ending(range)
        BY <1>9, TakenWithin
      <4>2. i \in (d + 1)..Ending(range)
        BY <1>9, <4>1
      <4>3. a.target <= Objects[i].at /\ Objects[i].at \in Nat
        BY <1>1, <1>3, <4>2, ObjectFacts DEF Targets
      <4> QED
        BY <1>1, <1>3, <4>3
    <3>3. range.start.at <= p /\ p < q /\ q <= range.end.at
      <4>1. PICK s, e, c, g, u : s = range.start.at /\ e = range.end.at /\ c = a.textCursor /\ g = a.target /\ u = page.end
        OBVIOUS
      <4>2. s \in Nat /\ e \in Nat /\ c \in Nat /\ g \in Nat /\ u \in Nat /\ s <= c /\ c <= p /\ u <= g /\ g <= e /\ q <= u
        BY <1>1, <1>3, <1>9, <4>1
      <4>3. p < q /\ s <= p /\ q <= e
        BY <1>1, <1>3, <4>2
      <4> QED
        BY <4>1, <4>3
    <3>4. MergedTo(range, Taken(range), q, d) =
            MergedTo(range, Taken(range), p, d) \o Chained(Symbols(p, q), q - p)
      <4>1. PICK S : S = Taken(range)
        OBVIOUS
      <4>2. /\ \A i \in 1..Len(Objects) : i \in S /\ i <= d => Objects[i].at <= p
            /\ \A i \in 1..Len(Objects) : i \in S /\ i > d => q <= Objects[i].at
        BY <3>1, <3>2, <4>1
      <4>3. p \in Nat /\ q \in Nat /\ range \in Selections /\ d \in 0..Len(Objects)
        BY <1>3, <1>9
      <4>4. MergedTo(range, S, q, d) = MergedTo(range, S, p, d) \o Chained(Symbols(p, q), q - p)
        BY ONLY <3>3, <4>2, <4>3, MergedOn
      <4> QED
        BY <4>1, <4>4
    <3> QED
      BY <1>1, <3>4
  <2>2. a.output \in Seq(Nat) /\ Len(b.output) = Len(a.output) + Len(x)
    BY OutputIn, TextAt DEF TextTaken
  <2>3. Len(b.output) <= MaxBytes
    <3>1. PICK m, k : m = Len(a.output) /\ k = Len(x)
      OBVIOUS
    <3>2. m \in Nat /\ k \in Nat
      <4>1. Len(a.output) \in Nat /\ Len(x) \in Nat
        BY ONLY <2>2, x \in Seq(Nat)
      <4> QED
        BY <3>1, <4>1
    <3>3. ~(m + k > MaxBytes) /\ MaxBytes \in Nat
      BY <3>1, BoundsFacts
    <3>4. m + k <= MaxBytes
      BY <3>2, <3>3
    <3> QED
      BY <2>2, <3>1, <3>4
  <2>4. /\ a.output = MergedTo(range, Taken(range), p, d) /\ a.breaks = LineBreaks(range.start.at, page.end)
        /\ policy.atoms = "Propagate" => Taken(range) = {} /\ Unmarked(range, range.end.at)
    BY <1>1, <1>2, <1>3 DEF OutputInTurn
  <2>5. b.output = MergedTo(range, Taken(range), Cursor(b), Done(b)) /\ b.breaks = LineBreaks(range.start.at, Read(b))
    BY <1>6, <2>1, <2>4 DEF TextTaken
  <2>6. b.phase = "Collecting" /\ b.key.selection = range /\ OpenAt(b.open, range, Cursor(b))
    BY <1>1, <1>2, <1>6 DEF TextTaken
  <2> QED
    BY <2>3, <2>4, <2>5, <2>6 DEF OutputInTurn, OpenAt
<1>11. ProvenanceInTurn(b)
  BY <1>2, OutputIn, ProvenanceGrows DEF TextTaken
<1>12. EndsInTurn(b)
  BY <1>2, EndsKept DEF TextTaken
<1> QED
  BY <1>2, <1>7, <1>8, <1>9, <1>10, <1>11, <1>12, <1>1 DEF Merging

\* The operation as a step on its page sees it.
Paged(a) == [a EXCEPT !.text = Head(@)]

LEMMA PagedFacts ==
  ASSUME NEW a, Shaped(a), NEW page, a.text = <<page>>
  PROVE  /\ Paged(a).text = page /\ Paged(a).phase = a.phase /\ Paged(a).open = a.open
         /\ Paged(a).key = a.key /\ Paged(a).output = a.output
<1>1. Head(a.text) = page
  OBVIOUS
<1> QED
  BY <1>1 DEF Paged, Shaped, ClipFields

\* What the steps do to the page.
LEMMA AppendTaken ==
  ASSUME NEW a, Shaped(a), NEW page, a.text = <<page>>,
         page = [lo |-> page.lo, hi |-> page.hi, end |-> page.end, cursor |-> page.cursor, next |-> page.next], page.next \in Nat,
         NEW p, NEW q, NEW step, step = [do |-> "AppendText", start |-> p, end |-> q],
         NEW b, b = Successor(a, step)
  PROVE  TextTaken(a, b, q, page.next, Bytes(p, q)) /\ b.open = a.open
<1>1. step.do = "AppendText" /\ step.start = p /\ step.end = q
  OBVIOUS
<1>2. b = [a EXCEPT !.output = @ \o Bytes(p, q), !.text = TakenTo(@, q, 0)]
  BY <1>1 DEF Successor
<1>3. b.text = TakenTo(a.text, q, 0)
  BY <1>2 DEF Shaped, ClipFields
<1>4. b.text = <<[page EXCEPT !.cursor = q, !.next = page.next]>> /\ a.text[1] = page
  <2>1. page.next + 0 = page.next
    OBVIOUS
  <2>2. [page EXCEPT !.cursor = q, !.next = @ + 0] = [page EXCEPT !.cursor = q, !.next = page.next + 0]
    OBVIOUS
  <2>3. TakenTo(<<page>>, q, 0) = <<[page EXCEPT !.cursor = q, !.next = @ + 0]>> /\ a.text[1] = page
    BY DEF TakenTo
  <2> QED
    BY <1>3, <2>1, <2>2, <2>3
<1>5. SameObjects(a, b) /\ SameProvenance(a, b) /\ SameEnds(a, b)
  <2>1. \A f \in ClipFields \ {"output", "text"} : b[f] = a[f]
    BY <1>2 DEF Shaped
  <2> QED
    BY ONLY <2>1 DEF ClipFields, SameObjects, SameProvenance, SameEnds
<1>6. /\ b.state = a.state /\ b.building = a.building /\ b.phase = a.phase /\ b.breaks = a.breaks
      /\ b.textCursor = a.textCursor /\ b.target = a.target /\ b.pendingText = a.pendingText
      /\ b.output = a.output \o Bytes(p, q) /\ b.open = a.open
  BY <1>2, ZenonT(40) DEF Shaped, ClipFields
<1> QED
  BY <1>4, <1>5, <1>6 DEF TextTaken

LEMMA AtomTaken ==
  ASSUME NEW a, Shaped(a), NEW page, a.text = <<page>>,
         page = [lo |-> page.lo, hi |-> page.hi, end |-> page.end, cursor |-> page.cursor, next |-> page.next],
         NEW atom, NEW q, NEW opens, NEW step,
         step = [do |-> "AppendAtom", atom |-> atom, end |-> q, opens |-> opens],
         NEW b, b = Successor(a, step)
  PROVE  TextTaken(a, b, q, page.next + 1, atom.copy) /\ b.open = IF opens THEN atom.id ELSE Null
<1>1. step.do = "AppendAtom" /\ step.atom = atom /\ step.end = q /\ step.opens = opens
  OBVIOUS
<1>2. b = [a EXCEPT !.output = @ \o atom.copy, !.open = IF opens THEN atom.id ELSE Null,
                    !.text = TakenTo(@, q, 1)]
  BY <1>1 DEF Successor, AtomAppended
<1>3. b.text = TakenTo(a.text, q, 1)
  BY <1>2 DEF Shaped, ClipFields
<1>4. b.text = <<[page EXCEPT !.cursor = q, !.next = page.next + 1]>> /\ a.text[1] = page
  BY <1>3 DEF TakenTo
<1>5. SameObjects(a, b) /\ SameProvenance(a, b) /\ SameEnds(a, b)
  <2>1. \A f \in ClipFields \ {"output", "open", "text"} : b[f] = a[f]
    BY <1>2 DEF Shaped
  <2> QED
    BY ONLY <2>1 DEF ClipFields, SameObjects, SameProvenance, SameEnds
<1>6. /\ b.state = a.state /\ b.building = a.building /\ b.phase = a.phase /\ b.breaks = a.breaks
      /\ b.textCursor = a.textCursor /\ b.target = a.target /\ b.pendingText = a.pendingText
      /\ b.output = a.output \o atom.copy /\ b.open = IF opens THEN atom.id ELSE Null
  <2>1. \A f \in ClipFields \ {"output", "open", "text"} : b[f] = a[f]
    BY <1>2 DEF Shaped
  <2>2. b.output = a.output \o atom.copy /\ b.open = IF opens THEN atom.id ELSE Null
    BY <1>2 DEF Shaped, ClipFields
  <2> QED
    BY ONLY <2>1, <2>2 DEF ClipFields
<1> QED
  BY <1>4, <1>5, <1>6 DEF TextTaken

LEMMA RestTaken ==
  ASSUME NEW a, Shaped(a), NEW page, a.text = <<page>>, a.output \in Seq(Nat),
         page = [lo |-> page.lo, hi |-> page.hi, end |-> page.end, cursor |-> page.cursor, next |-> page.next],
         NEW q, NEW closes, NEW step,
         step = [do |-> "AdvanceAtom", end |-> q, closes |-> closes],
         NEW b, b = Successor(a, step)
  PROVE  TextTaken(a, b, q, page.next + 1, <<>>) /\ b.open = IF closes THEN Null ELSE a.open
<1>1. step.do = "AdvanceAtom" /\ step.end = q /\ step.closes = closes
  OBVIOUS
<1>2. b = [a EXCEPT !.open = IF closes THEN Null ELSE @, !.text = TakenTo(@, q, 1)]
  BY <1>1 DEF Successor
<1>3. b.text = TakenTo(a.text, q, 1)
  BY <1>2 DEF Shaped, ClipFields
<1>4. b.text = <<[page EXCEPT !.cursor = q, !.next = page.next + 1]>> /\ a.text[1] = page
  BY <1>3 DEF TakenTo
<1>5. SameObjects(a, b) /\ SameProvenance(a, b) /\ SameEnds(a, b)
  <2>1. \A f \in ClipFields \ {"open", "text"} : b[f] = a[f]
    BY <1>2 DEF Shaped
  <2> QED
    BY ONLY <2>1 DEF ClipFields, SameObjects, SameProvenance, SameEnds
<1>6. /\ b.state = a.state /\ b.building = a.building /\ b.phase = a.phase /\ b.breaks = a.breaks
      /\ b.textCursor = a.textCursor /\ b.target = a.target /\ b.pendingText = a.pendingText
      /\ b.output = a.output /\ b.open = IF closes THEN Null ELSE a.open
  <2>1. \A f \in ClipFields \ {"open", "text"} : b[f] = a[f]
    BY <1>2 DEF Shaped
  <2>2. b.open = IF closes THEN Null ELSE a.open
    BY <1>2 DEF Shaped, ClipFields
  <2> QED
    BY ONLY <2>1, <2>2 DEF ClipFields
<1>7. a.output \o <<>> = a.output
  BY ConcatNone
<1> QED
  BY <1>4, <1>5, <1>6, <1>7 DEF TextTaken

\* A page while the text is collected.
OnPage(a, page, range, p) ==
  /\ a.text = <<page>> /\ a.text[1] = page /\ a.key.selection = range /\ p = page.cursor
  /\ page = [lo |-> page.lo, hi |-> page.hi, end |-> page.end, cursor |-> page.cursor, next |-> page.next]
  /\ page.lo \in Nat /\ page.hi \in Nat /\ page.end \in Nat /\ p \in Nat /\ page.next \in Nat
  /\ page.lo <= p /\ p <= page.end /\ page.lo < page.end /\ page.end <= page.hi /\ page.lo < page.hi
  /\ Aligned(page, p, page.next) /\ a.output \in Seq(Nat)
  /\ Paged(a).text = page /\ Paged(a).phase = a.phase /\ Paged(a).open = a.open
  /\ Paged(a).key = a.key /\ Paged(a).output = a.output

LEMMA OnPageFacts ==
  ASSUME NEW a, Shaped(a), Merging(a), a.text # NoPage
  PROVE  \E page, range, p : OnPage(a, page, range, p)
<1>1. PICK page, range, p : page = a.text[1] /\ range = a.key.selection /\ p = page.cursor
  OBVIOUS
<1>2. /\ a.text = <<page>> /\ Consumed(page, a.textCursor, a.target)
      /\ page = [lo |-> page.lo, hi |-> page.hi, end |-> page.end, cursor |-> page.cursor, next |-> page.next]
      /\ page.lo \in Nat /\ page.hi \in Nat /\ page.end \in Nat /\ p \in Nat
      /\ page.lo <= p /\ p <= page.end /\ page.lo < page.end /\ page.end <= page.hi /\ page.lo < page.hi
  BY <1>1, PageFacts
<1>3. Aligned(page, p, page.next)
  BY <1>1, <1>2 DEF Consumed
<1>4. page.next \in Nat
  BY <1>3 DEF Aligned
<1>5. a.output \in Seq(Nat)
  BY OutputIn
<1>6. /\ Paged(a).text = page /\ Paged(a).phase = a.phase /\ Paged(a).open = a.open
      /\ Paged(a).key = a.key /\ Paged(a).output = a.output
  BY <1>2, PagedFacts
<1> QED
  BY <1>1, <1>2, <1>3, <1>4, <1>5, <1>6 DEF OnPage

\* Text of the source is taken, in front of the next atom or to the end of the page.
LEMMA BytesTaken ==
  ASSUME NEW a, Shaped(a), Merging(a), a.phase = "Collecting",
         NEW page, NEW range, NEW p, OnPage(a, page, range, p), a.text # NoPage,
         NEW q \in Nat, p < q, q <= page.end, Aligned(page, q, page.next),
         ~(Len(a.output) + (q - p) > MaxBytes),
         NEW b, b = Successor(a, [do |-> "AppendText", start |-> p, end |-> q])
  PROVE  Merging(b)
<1>1. TextTaken(a, b, q, page.next, Bytes(p, q)) /\ b.open = a.open
  BY AppendTaken DEF OnPage
<1>2. \A j \in 1..Len(Atoms) : ~(Atoms[j].lo < q /\ p < Atoms[j].hi)
  <2>1. q <= page.hi
    <3>1. PICK e, h : e = page.end /\ h = page.hi
      OBVIOUS
    <3> QED
      BY <3>1 DEF OnPage
  <2> QED
    BY <2>1, NoAtomBetween DEF OnPage
<1>3. p \in Nat
  BY DEF OnPage
<1>4. Bytes(p, q) = Chained(Symbols(p, q), q - p)
  BY <1>2, <1>3, SymbolsRun
<1>5. Bytes(p, q) \in Seq(Nat) /\ Len(Bytes(p, q)) = q - p
  BY <1>3, BytesFacts
<1>6. OpenAt(a.open, range, q)
  <2>1. OpenAt(a.open, range, p)
    <3>1. Cursor(a) = p
      BY DEF Cursor, OnPage
    <3> QED
      BY <3>1 DEF Merging, OutputInTurn, OpenAt, OnPage
  <2>2. \A j \in 1..Len(Atoms) : ~Opened(range, p, j) /\ ~Opened(range, q, j)
    <3> SUFFICES ASSUME NEW j \in 1..Len(Atoms) PROVE ~Opened(range, p, j) /\ ~Opened(range, q, j)
      OBVIOUS
    <3>1. PICK x, y : x = Atoms[j].lo /\ y = Atoms[j].hi /\ x \in Nat /\ y \in Nat
      BY AtomFacts
    <3>2. ~(x < q /\ p < y)
      BY <1>2, <3>1
    <3>3. ~(x < p /\ p < y) /\ ~(x < q /\ q < y)
      BY <1>3, <3>1, <3>2
    <3> QED
      BY <3>1, <3>3 DEF Opened
  <2> QED
    BY <2>1, <2>2 DEF OpenAt
<1>7. a.text[1] = page /\ page.cursor = p /\ a.key.selection = range
  BY DEF OnPage
<1>8. ~(Len(a.output) + Len(Bytes(p, q)) > MaxBytes)
  BY <1>5
<1> QED
  BY <1>1, <1>4, <1>5, <1>6, <1>7, <1>8, TextAdvances

LEMMA TextBeforeStep ==
  ASSUME NEW a, Shaped(a), Merging(a), a.text # NoPage, NEW step, NEW atom,
         TextBefore(Paged(a), step, atom)
  PROVE  Merging(Successor(a, step))
<1>1. PICK page, range, p : OnPage(a, page, range, p)
  BY OnPageFacts
<1>2. PICK s, n, q : s = Fragments(page.lo, page.hi) /\ n = page.next /\ q = FragmentStart(atom, page.lo)
  OBVIOUS
<1>3. /\ n \in DOMAIN s /\ atom = s[n] /\ StartsOn(page, atom) /\ a.phase # "Classifying"
      /\ p < q /\ step = [do |-> "AppendText", start |-> p, end |-> q]
      /\ ~(Len(a.output) + (q - p) > MaxBytes)
  BY <1>1, <1>2 DEF TextBefore, OnAtom, OnPage, AppendText
<1>4. a.phase = "Collecting"
  BY <1>3 DEF Merging, OutputInTurn
<1>5. q \in Nat /\ q < page.end
  <2>1. page.lo \in Nat /\ page.hi \in Nat /\ page.lo < page.hi
    BY <1>1 DEF OnPage
  <2>2. Fragmented(s, page.lo, page.hi)
    BY <1>2, <2>1, FragmentFacts
  <2>3. n \in 1..Len(s)
    BY <1>3, <2>2 DEF Fragmented
  <2>4. FragmentStart(s[n], page.lo) \in Nat
    BY <1>2, <2>1, <2>3, FragmentAt
  <2> QED
    BY <1>2, <1>3, <2>4 DEF StartsOn
<1>6. Aligned(page, q, n)
  <2>1. /\ page.lo \in Nat /\ page.hi \in Nat /\ page.lo < page.hi /\ p \in Nat /\ p <= q
        /\ Aligned(page, p, n)
    BY <1>1, <1>2, <1>3, <1>5 DEF OnPage
  <2>2. q <= FragmentStart(s[n], page.lo)
    BY <1>2, <1>3, <1>5
  <2> QED
    BY <1>2, <1>5, <2>1, <2>2, AlignedTo
<1>7. q <= page.end
  BY <1>1, <1>5 DEF OnPage
<1> QED
  BY <1>1, <1>2, <1>3, <1>4, <1>5, <1>6, <1>7, BytesTaken

LEMMA TextToEndStep ==
  ASSUME NEW a, Shaped(a), Merging(a), a.text # NoPage, NEW step, TextToEnd(Paged(a), step)
  PROVE  Merging(Successor(a, step))
<1>1. PICK page, range, p : OnPage(a, page, range, p)
  BY OnPageFacts
<1>2. PICK s, n, q : s = Fragments(page.lo, page.hi) /\ n = page.next /\ q = page.end
  OBVIOUS
<1>3. /\ a.phase # "Classifying" /\ p < q /\ step = [do |-> "AppendText", start |-> p, end |-> q]
      /\ ~(Len(a.output) + (q - p) > MaxBytes)
  BY <1>1, <1>2 DEF TextToEnd, OnPage, AppendText
<1>4. a.phase = "Collecting"
  BY <1>3 DEF Merging, OutputInTurn
<1>5. n \in DOMAIN s => ~StartsOn(page, s[n])
  <2>1. \A atom : ~OnAtom(Paged(a), atom)
    BY DEF TextToEnd
  <2> QED
    BY <1>1, <1>2, <1>3, <2>1 DEF OnAtom, OnPage
<1>6. Aligned(page, q, n)
  <2>1. /\ page.lo \in Nat /\ page.hi \in Nat /\ page.lo < page.hi /\ p \in Nat /\ q \in Nat /\ p <= q
        /\ Aligned(page, p, n)
    BY <1>1, <1>2, <1>3 DEF OnPage
  <2>2. ASSUME n \in DOMAIN s PROVE q <= FragmentStart(s[n], page.lo)
    <3>1. Fragmented(s, page.lo, page.hi)
      BY <1>2, <2>1, FragmentFacts
    <3>2. n \in 1..Len(s)
      BY <2>2, <3>1 DEF Fragmented
    <3>3. FragmentStart(s[n], page.lo) \in Nat
      BY <1>2, <2>1, <3>2, FragmentAt
    <3>4. ~(FragmentStart(s[n], page.lo) < q)
      BY <1>2, <1>5, <2>2 DEF StartsOn
    <3> QED
      BY <2>1, <3>3, <3>4
  <2> QED
    BY <1>2, <2>1, <2>2, AlignedTo
<1>7. q \in Nat /\ q <= page.end
  BY <1>1, <1>2 DEF OnPage
<1> QED
  BY <1>1, <1>2, <1>3, <1>4, <1>6, <1>7, BytesTaken

\* The cursor is at the start of the atom's fragment, which the page has to its end.
AtomReached(a, page, range, p, atom, q, j) ==
  /\ j \in 1..Len(Atoms) /\ atom = Atoms[j] /\ a.phase = "Collecting"
  /\ atom.lo \in Nat /\ atom.hi \in Nat /\ atom.lo < atom.hi /\ atom.copy \in Seq(Nat) /\ atom.id # Null
  /\ range.start.at \in Nat /\ range.start.at <= atom.lo
  /\ p = (IF atom.lo < page.lo THEN page.lo ELSE atom.lo) /\ p \in Nat
  /\ q = (IF atom.hi > page.hi THEN page.hi ELSE atom.hi) /\ q \in Nat
  /\ p < q /\ q <= page.end /\ Aligned(page, q, page.next + 1)

LEMMA AtomReachedFacts ==
  ASSUME NEW a, Merging(a), NEW page, NEW range, NEW p, OnPage(a, page, range, p),
         NEW atom, OnAtom(Paged(a), atom), Reaches(Paged(a), atom)
  PROVE  \E j : AtomReached(a, page, range, p, atom, FragmentEnd(atom, page.hi), j)
<1>1. PICK s, n, q, lo, hi : /\ s = Fragments(page.lo, page.hi) /\ n = page.next /\ q = FragmentEnd(atom, page.hi)
                             /\ lo = page.lo /\ hi = page.hi
  OBVIOUS
<1>2. n \in DOMAIN s /\ atom = s[n] /\ StartsOn(page, atom) /\ a.phase # "Classifying"
  BY <1>1 DEF OnAtom, OnPage
<1>3. lo \in Nat /\ hi \in Nat /\ lo < hi /\ p \in Nat /\ page.end \in Nat /\ Aligned(page, p, n)
  BY <1>1 DEF OnPage
<1>4. Fragmented(s, lo, hi)
  BY <1>1, <1>3, FragmentFacts
<1>5. n \in 1..Len(s)
  BY <1>2, <1>4 DEF Fragmented
<1>6. PICK j \in 1..Len(Atoms) : atom = Atoms[j]
  BY <1>2, <1>4, <1>5 DEF Fragmented
<1>7. atom.lo \in Nat /\ atom.hi \in Nat /\ atom.lo < atom.hi /\ atom.copy \in Seq(Nat) /\ atom.id # Null
  BY <1>6, AtomFacts
<1>8. /\ FragmentStart(atom, lo) \in Nat /\ FragmentEnd(atom, hi) \in Nat
      /\ FragmentStart(atom, lo) < FragmentEnd(atom, hi)
  BY <1>1, <1>2, <1>3, <1>5, FragmentAt
<1>9. p <= FragmentStart(atom, lo)
  BY <1>1, <1>2, <1>3, <1>4, <1>5 DEF Aligned, Fragmented
<1>10. ~(p < FragmentStart(atom, lo)) /\ ~(FragmentEnd(atom, hi) > page.end) /\ ~(atom.lo < range.start.at)
  BY <1>1 DEF Reaches, Fits, OnPage
<1>11. p = FragmentStart(atom, lo) /\ FragmentEnd(atom, hi) <= page.end
  BY <1>3, <1>8, <1>9, <1>10
<1>12. a.phase = "Collecting" /\ range \in Selections
  BY <1>2 DEF Merging, OutputInTurn, OnPage
<1>13. range.start.at \in Nat /\ range.start.at <= atom.lo
  <2>1. range.start.at \in Nat
    BY <1>12, SelectionFacts
  <2>2. PICK x, y : x = range.start.at /\ y = atom.lo
    OBVIOUS
  <2> QED
    BY <1>7, <1>10, <2>1, <2>2
<1>14. Aligned(page, q, n + 1)
  <2>1. p <= q /\ q = FragmentEnd(Fragments(page.lo, page.hi)[n], page.hi)
    BY <1>1, <1>2, <1>3, <1>8, <1>11
  <2> QED
    BY <1>1, <1>2, <1>3, <2>1, AlignedPast
<1>15. /\ p = (IF atom.lo < page.lo THEN page.lo ELSE atom.lo)
       /\ q = (IF atom.hi > page.hi THEN page.hi ELSE atom.hi)
  BY <1>1, <1>11 DEF FragmentStart, FragmentEnd
<1>16. p < q /\ q <= page.end /\ q \in Nat
  BY <1>1, <1>8, <1>11
<1> QED
  BY <1>1, <1>3, <1>6, <1>7, <1>12, <1>13, <1>14, <1>15, <1>16 DEF AtomReached

\* At the end of an atom none is open; before its end it is.
LEMMA OpenAfter ==
  ASSUME NEW a, NEW page, NEW range, NEW p, NEW atom, NEW q, NEW j,
         AtomReached(a, page, range, p, atom, q, j), NEW open,
         IF atom.hi > page.hi THEN open = atom.id ELSE open = Null, page.hi \in Nat
  PROVE  OpenAt(open, range, q)
<1>1. PICK x, y, h, s : x = atom.lo /\ y = atom.hi /\ h = page.hi /\ s = range.start.at
  OBVIOUS
<1>2. /\ j \in 1..Len(Atoms) /\ atom = Atoms[j] /\ x \in Nat /\ y \in Nat /\ x < y /\ atom.id # Null
      /\ s \in Nat /\ s <= x /\ q = (IF y > h THEN h ELSE y) /\ q \in Nat /\ p \in Nat /\ p < q /\ h \in Nat
      /\ p = (IF x < page.lo THEN page.lo ELSE x)
  BY <1>1 DEF AtomReached
<1>3. x <= p
  BY <1>2
<1>4. CASE y > h
  <2>1. open = Atoms[j].id /\ open # Null
    BY <1>1, <1>2, <1>4
  <2>2. s <= x /\ x < q /\ q < y
    BY <1>2, <1>3, <1>4
  <2>3. Opened(range, q, j)
    BY <1>1, <1>2, <2>2 DEF Opened
  <2> QED
    BY <1>2, <2>1, <2>3 DEF OpenAt
<1>5. CASE ~(y > h)
  <2>1. open = Null /\ q = y
    BY <1>1, <1>2, <1>5
  <2>2. ASSUME NEW i \in 1..Len(Atoms), Opened(range, q, i) PROVE FALSE
    <3>1. PICK u, v : u = Atoms[i].lo /\ v = Atoms[i].hi
      OBVIOUS
    <3>2. u \in Nat /\ v \in Nat /\ u < q /\ q < v
      BY <2>2, <3>1, AtomFacts DEF Opened
    <3>3. u < y /\ x < v
      BY <1>2, <2>1, <3>2
    <3>4. i = j
      BY <1>1, <1>2, <3>1, <3>3, AtomFacts
    <3> QED
      BY <1>1, <1>2, <2>1, <3>1, <3>2, <3>4
  <2> QED
    BY <2>1, <2>2 DEF OpenAt
<1> QED
  BY <1>4, <1>5

\* An atom is written as its copy, where it starts.
LEMMA WholeAtomStep ==
  ASSUME NEW a, Shaped(a), Merging(a), a.text # NoPage, NEW step, NEW atom, WholeAtom(Paged(a), step, atom)
  PROVE  Merging(Successor(a, step))
<1>1. PICK page, range, p : OnPage(a, page, range, p)
  BY OnPageFacts
<1>2. PICK q, b : q = FragmentEnd(atom, page.hi) /\ b = Successor(a, step)
  OBVIOUS
<1>3. /\ OnAtom(Paged(a), atom) /\ Reaches(Paged(a), atom) /\ ~(atom.lo < page.lo)
      /\ step = [do |-> "AppendAtom", atom |-> atom, end |-> q, opens |-> atom.hi > page.hi]
      /\ ~(Len(a.output) + Len(atom.copy) > MaxBytes)
  BY <1>1, <1>2 DEF WholeAtom, OnPage
<1>4. PICK j : AtomReached(a, page, range, p, atom, q, j)
  BY <1>1, <1>2, <1>3, AtomReachedFacts
<1>5. TextTaken(a, b, q, page.next + 1, atom.copy) /\ b.open = IF atom.hi > page.hi THEN atom.id ELSE Null
  <2>1. PICK opens : opens = (atom.hi > page.hi)
    OBVIOUS
  <2>2. step = [do |-> "AppendAtom", atom |-> atom, end |-> q, opens |-> opens]
    BY <1>3, <2>1
  <2>3. /\ a.text = <<page>>
        /\ page = [lo |-> page.lo, hi |-> page.hi, end |-> page.end, cursor |-> page.cursor, next |-> page.next]
    BY <1>1 DEF OnPage
  <2>4. TextTaken(a, b, q, page.next + 1, atom.copy) /\ b.open = IF opens THEN atom.id ELSE Null
    BY <1>2, <2>2, <2>3, AtomTaken
  <2> QED
    BY <2>1, <2>4
<1>6. OpenAt(b.open, range, q)
  BY <1>1, <1>4, <1>5, OpenAfter DEF OnPage
<1>7. atom.copy = Chained(Symbols(p, q), q - p)
  <2>1. j \in 1..Len(Atoms) /\ Atoms[j].lo = p /\ q <= Atoms[j].hi /\ p \in Nat /\ q \in Nat /\ p < q
        /\ atom = Atoms[j]
    <3>1. PICK h, y : h = page.hi /\ y = atom.hi
      OBVIOUS
    <3>2. h \in Nat /\ y \in Nat /\ q = (IF y > h THEN h ELSE y)
      BY <1>1, <1>4, <3>1 DEF AtomReached, OnPage
    <3> QED
      BY <1>3, <1>4, <3>1, <3>2 DEF AtomReached
  <2> QED
    BY <2>1, SymbolsRun
<1>8. /\ a.phase = "Collecting" /\ q \in Nat /\ p < q /\ q <= page.end /\ Aligned(page, q, page.next + 1)
      /\ atom.copy \in Seq(Nat)
  BY <1>4 DEF AtomReached
<1>9. a.text[1] = page /\ page.cursor = p /\ a.key.selection = range
  BY <1>1 DEF OnPage
<1> QED
  BY <1>2, <1>3, <1>5, <1>6, <1>7, <1>8, <1>9, TextAdvances

\* What follows of it on later pages is passed over.
LEMMA RestOfAtomStep ==
  ASSUME NEW a, Shaped(a), Merging(a), a.text # NoPage, NEW step, NEW atom, RestOfAtom(Paged(a), step, atom)
  PROVE  Merging(Successor(a, step))
<1>1. PICK page, range, p : OnPage(a, page, range, p)
  BY OnPageFacts
<1>2. PICK q, b : q = FragmentEnd(atom, page.hi) /\ b = Successor(a, step)
  OBVIOUS
<1>3. /\ OnAtom(Paged(a), atom) /\ Reaches(Paged(a), atom) /\ atom.lo < page.lo /\ a.open = atom.id
      /\ step = [do |-> "AdvanceAtom", end |-> q, closes |-> atom.hi <= page.hi]
  BY <1>1, <1>2 DEF RestOfAtom, OnPage
<1>4. PICK j : AtomReached(a, page, range, p, atom, q, j)
  BY <1>1, <1>2, <1>3, AtomReachedFacts
<1>5. TextTaken(a, b, q, page.next + 1, <<>>) /\ b.open = IF atom.hi <= page.hi THEN Null ELSE a.open
  <2>1. PICK closes : closes = (atom.hi <= page.hi)
    OBVIOUS
  <2>2. step = [do |-> "AdvanceAtom", end |-> q, closes |-> closes]
    BY <1>3, <2>1
  <2>3. /\ a.text = <<page>> /\ a.output \in Seq(Nat)
        /\ page = [lo |-> page.lo, hi |-> page.hi, end |-> page.end, cursor |-> page.cursor, next |-> page.next]
    BY <1>1 DEF OnPage
  <2>4. TextTaken(a, b, q, page.next + 1, <<>>) /\ b.open = IF closes THEN Null ELSE a.open
    BY <1>2, <2>2, <2>3, RestTaken
  <2> QED
    BY <2>1, <2>4
<1>6. OpenAt(b.open, range, q)
  <2>1. PICK h, y : h = page.hi /\ y = atom.hi
    OBVIOUS
  <2>2. h \in Nat /\ y \in Nat
    BY <1>1, <1>4, <2>1 DEF AtomReached, OnPage
  <2>3. y > h <=> ~(y <= h)
    BY <2>2
  <2>4. IF atom.hi > page.hi THEN b.open = atom.id ELSE b.open = Null
    BY <1>3, <1>5, <2>1, <2>3
  <2> QED
    BY <1>4, <2>1, <2>2, <2>4, OpenAfter
<1>7. <<>> = Chained(Symbols(p, q), q - p)
  <2>1. j \in 1..Len(Atoms) /\ Atoms[j].lo < p /\ q <= Atoms[j].hi /\ p \in Nat /\ q \in Nat /\ p < q
    <3>1. PICK h, y : h = page.hi /\ y = atom.hi
      OBVIOUS
    <3>2. h \in Nat /\ y \in Nat /\ q = (IF y > h THEN h ELSE y)
      BY <1>1, <1>4, <3>1 DEF AtomReached, OnPage
    <3> QED
      BY <1>3, <1>4, <3>1, <3>2 DEF AtomReached
  <2> QED
    BY <2>1, SymbolsRun
<1>8. /\ a.phase = "Collecting" /\ q \in Nat /\ p < q /\ q <= page.end /\ Aligned(page, q, page.next + 1)
  BY <1>4 DEF AtomReached
<1>9. a.text[1] = page /\ page.cursor = p /\ a.key.selection = range
  BY <1>1 DEF OnPage
<1>10. ~(Len(a.output) + Len(<<>>) > MaxBytes)
  <2>1. Len(a.output) <= MaxBytes /\ a.output \in Seq(Nat) /\ MaxBytes \in Nat
    BY OutputIn, BoundsFacts DEF Merging, OutputInTurn
  <2>2. PICK k : k = Len(a.output) /\ k \in Nat
    BY <2>1
  <2> QED
    BY <2>1, <2>2
<1> QED
  BY <1>2, <1>5, <1>6, <1>7, <1>8, <1>9, <1>10, EmptyText, TextAdvances

\* A page that is read leaves nothing of the selection in front of its end but objects.
LEMMA PageClassified ==
  ASSUME NEW a, Merging(a), NEW page, NEW range, NEW p, OnPage(a, page, range, p), a.text # NoPage,
         Unmarked(range, a.textCursor), ~FindsAtom(page)
  PROVE  Unmarked(range, page.end)
<1>1. PICK s, lo, hi, e, c : s = Fragments(page.lo, page.hi) /\ lo = page.lo /\ hi = page.hi /\ e = page.end
                             /\ c = range.start.at
  OBVIOUS
<1>2. lo \in Nat /\ hi \in Nat /\ e \in Nat /\ lo < hi /\ e <= hi /\ lo < e
  BY <1>1 DEF OnPage
<1>3. range \in Selections /\ lo = a.textCursor /\ c \in Nat /\ c <= lo
  <2>1. range = a.key.selection /\ page = a.text[1]
    BY DEF OnPage
  <2>2. range \in Selections /\ range.start.at <= a.textCursor
    BY <2>1, PlaceFacts
  <2>3. page.lo = a.textCursor
    BY <2>1, PageFacts
  <2> QED
    BY <1>1, <2>2, <2>3, SelectionFacts
<1>4. Fragmented(s, lo, hi)
  BY <1>1, <1>2, FragmentFacts
<1> SUFFICES ASSUME NEW j \in 1..Len(Atoms), Atoms[j].lo < e, c < Atoms[j].hi PROVE FALSE
  <2>1. DOMAIN Atoms = 1..Len(Atoms)
    BY SourceFacts
  <2> QED
    BY <1>1, <2>1 DEF Unmarked, Overlaps
<1>5. PICK x, y : x = Atoms[j].lo /\ y = Atoms[j].hi /\ x \in Nat /\ y \in Nat /\ x < y /\ x < e /\ c < y
  BY AtomFacts
<1>6. CASE lo < y
  <2>1. x < hi
    BY <1>2, <1>5
  <2>2. PICK i \in 1..Len(s) : s[i] = Atoms[j]
    BY <1>4, <1>5, <1>6, <2>1 DEF Fragmented
  <2>3. FragmentStart(s[i], lo) = IF x < lo THEN lo ELSE x
    BY <1>5, <2>2 DEF FragmentStart
  <2>4. FragmentStart(s[i], lo) < e
    BY <1>2, <1>5, <2>3
  <2>5. i \in DOMAIN s
    BY <1>4 DEF Fragmented
  <2> QED
    BY <1>1, <2>4, <2>5 DEF FindsAtom, StartsOn
<1>7. CASE ~(lo < y)
  <2>1. c < lo /\ x < lo
    BY <1>2, <1>3, <1>5, <1>7
  <2>2. Overlaps(c, lo) = {}
    BY <1>1, <1>3, <2>1 DEF Unmarked
  <2>3. j \in Overlaps(c, lo)
    BY <1>5, <2>1, SourceFacts DEF Overlaps
  <2> QED
    BY <2>2, <2>3
<1> QED
  BY <1>6, <1>7

\* What the end of a page of text does to the operation.
LEMMA TextFinishedFacts ==
  ASSUME NEW a, Shaped(a), NEW e, e = a.text[1].end, NEW b, b = Successor(a, Do("FinishText"))
  PROVE  /\ SameObjects(a, b) /\ SameProvenance(a, b) /\ SameEnds(a, b)
         /\ b.building = a.building /\ b.phase = a.phase /\ b.breaks = a.breaks /\ b.output = a.output
         /\ b.open = a.open /\ b.textCursor = e /\ b.text = NoPage /\ b.pendingText = Null
         /\ e # a.target => b.target = a.target /\ b.state = "CollectingText"
         /\ e = a.target => b.state = "CollectingObjects"
<1>1. PICK t, s : /\ t = (IF e = a.target THEN Null ELSE a.target)
                  /\ s = (IF e = a.target THEN "CollectingObjects" ELSE "CollectingText")
  OBVIOUS
<1>2. b = TextFinished(a)
  BY DEF Successor, Do
<1>3. b = [a EXCEPT !.text = NoPage, !.pendingText = Null, !.textCursor = e, !.target = t, !.state = s]
  BY <1>1, <1>2 DEF TextFinished
<1>4. \A f \in ClipFields \ {"text", "pendingText", "textCursor", "target", "state"} : b[f] = a[f]
  BY <1>3 DEF Shaped
<1>5. SameObjects(a, b) /\ SameProvenance(a, b) /\ SameEnds(a, b)
  BY ONLY <1>4 DEF ClipFields, SameObjects, SameProvenance, SameEnds
<1>6. b.building = a.building
  BY <1>4 DEF ClipFields
<1>7. b.phase = a.phase /\ b.breaks = a.breaks /\ b.output = a.output /\ b.open = a.open
  BY <1>3 DEF Shaped, ClipFields
<1>8. b.text = NoPage /\ b.pendingText = Null /\ b.textCursor = e /\ b.target = t /\ b.state = s
  BY <1>3 DEF Shaped, ClipFields
<1> QED
  BY <1>1, <1>4, <1>5, <1>6, <1>7, <1>8

LEMMA TextDoneStep ==
  ASSUME NEW a, Shaped(a), Merging(a), a.text # NoPage, NEW step, TextDone(Paged(a), step)
  PROVE  Merging(Successor(a, step))
<1>1. PICK page, range, p : OnPage(a, page, range, p)
  BY OnPageFacts
<1>2. PICK b, e, d : b = Successor(a, step) /\ e = page.end /\ d = Done(a)
  OBVIOUS
<1>3. /\ step = Do("FinishText")
      /\ \/ a.phase = "Classifying" /\ ~FindsAtom(page)
         \/ a.phase # "Classifying" /\ ~(p < e)
  <2>1. Paged(a).text = page /\ Paged(a).phase = a.phase /\ page.cursor = p
    BY <1>1 DEF OnPage
  <2> QED
    BY <1>2, <2>1 DEF TextDone
<1>4. a.text[1] = page /\ a.key.selection = range
  BY <1>1 DEF OnPage
<1>5. /\ SameObjects(a, b) /\ SameProvenance(a, b) /\ SameEnds(a, b)
      /\ b.building = a.building /\ b.phase = a.phase /\ b.breaks = a.breaks /\ b.output = a.output
      /\ b.open = a.open /\ b.textCursor = e /\ b.text = NoPage /\ b.pendingText = Null
      /\ e # a.target => b.target = a.target /\ b.state = "CollectingText"
      /\ e = a.target => b.state = "CollectingObjects"
  BY <1>2, <1>3, <1>4, TextFinishedFacts
<1>6. /\ ObjectsInTurn(a) /\ TextInTurn(a) /\ OutputInTurn(a) /\ ProvenanceInTurn(a) /\ EndsInTurn(a)
      /\ b.key = a.key /\ b.prior = a.prior
  BY <1>5 DEF Merging, SameObjects
<1>7. /\ Targets(a) /\ ~Full(a) /\ a.state = "TextPagePending" /\ Cursor(a) = p /\ Read(a) = e
      /\ page.lo = a.textCursor /\ page.lo < e /\ e <= a.target /\ a.target \in Nat /\ a.target <= range.end.at
      /\ p \in Nat /\ p <= e /\ e \in Nat /\ page.lo \in Nat
  BY <1>1, <1>2, <1>4, PageFacts DEF OnPage
<1>8. Done(b) = d /\ Cursor(b) = e /\ Read(b) = e
  BY <1>2, <1>5, <1>6, DoneSame DEF Cursor, Read
<1>9. /\ range \in Selections /\ range.start.at \in Nat /\ range.start.at <= a.textCursor /\ range.end.at \in Nat
  BY <1>4, PlaceFacts, SelectionFacts
<1>10. ObjectsInTurn(b)
  <2>1. b.pendingObjects # Null /\ b.objects = NoPage => b.state = "ObjectPagePending"
    BY <1>5, <1>6, <1>7 DEF ObjectsInTurn, SameObjects
  <2> QED
    BY <1>5, <1>6, <2>1, ObjectsKept
<1>11. ASSUME NEW i \in (d + 1)..Ending(range) PROVE a.target <= Objects[i].at /\ e <= Objects[i].at
  <2>1. a.target <= Objects[i].at
    BY <1>2, <1>4, <1>7 DEF Targets
  <2>2. i \in 1..Len(Objects)
    BY <1>2, <1>4, <1>9, PlaceFacts, OutsetFacts
  <2>3. Objects[i].at \in Nat
    BY <2>2, ObjectFacts
  <2> QED
    BY <1>7, <2>1, <2>3
<1>12. TextInTurn(b)
  <2>1. e \in range.start.at..range.end.at
    <3>1. PICK s, c, g, u : s = range.start.at /\ c = a.textCursor /\ g = a.target /\ u = range.end.at
      OBVIOUS
    <3> QED
      BY <1>7, <1>9, <3>1
  <2>2. b.state \in {"CollectingText", "TextPagePending"} => Targets(b) /\ ~Full(b)
    <3> SUFFICES ASSUME e # a.target, b.target = a.target PROVE Targets(b) /\ ~Full(b)
      BY <1>5
    <3>1. ~Full(b)
      BY <1>5, <1>7 DEF Full, SameProvenance
    <3>2. a.target \in (e + 1)..range.end.at
      BY <1>7, <1>9
    <3>3. a.target = range.end.at \/ \E i \in 1..Len(Objects) : a.target = Objects[i].at
      BY <1>4, <1>7 DEF Targets
    <3> QED
      BY <1>2, <1>4, <1>5, <1>6, <1>8, <1>11, <3>1, <3>2, <3>3 DEF Targets
  <2>3. ASSUME NEW i \in Taken(range), i <= d PROVE Objects[i].at <= e
    <3>1. Objects[i].at <= a.textCursor
      BY <1>2, <1>4, <1>6, <2>3 DEF TextInTurn
    <3>2. i \in 1..Len(Objects)
      BY <1>9, TakenWithin
    <3>3. Objects[i].at \in Nat
      BY <3>2, ObjectFacts
    <3> QED
      BY <1>7, <3>1, <3>3
  <2> QED
    BY <1>4, <1>5, <1>6, <1>8, <1>11, <2>1, <2>2, <2>3 DEF TextInTurn
<1>13. OutputInTurn(b)
  <2>1. Len(b.output) <= MaxBytes /\ b.phase \in {"Classifying", "Collecting"}
    BY <1>5, <1>6 DEF OutputInTurn
  <2>2. CASE a.phase = "Classifying"
    <3>1. /\ policy.atoms = "Propagate" /\ a.output = <<>> /\ a.breaks = 0 /\ a.open = Null
          /\ \A i \in Taken(range) : i > d
          /\ Unmarked(range, a.textCursor)
      BY <1>2, <1>4, <1>6, <2>2 DEF OutputInTurn
    <3>2. Unmarked(range, e)
      BY <1>1, <1>2, <1>3, <2>2, <3>1, PageClassified
    <3> QED
      BY <1>2, <1>4, <1>5, <1>6, <1>8, <2>1, <2>2, <3>1, <3>2 DEF OutputInTurn
  <2>3. CASE a.phase = "Collecting"
    <3>1. p = e
      BY <1>3, <1>7, <2>3
    <3>2. /\ a.output = MergedTo(range, Taken(range), p, d) /\ a.breaks = LineBreaks(range.start.at, e)
          /\ policy.atoms = "Propagate" => Taken(range) = {} /\ Unmarked(range, range.end.at)
          /\ OpenAt(a.open, range, p)
      BY <1>2, <1>4, <1>6, <1>7, <2>3 DEF OutputInTurn, OpenAt
    <3> QED
      BY <1>4, <1>5, <1>6, <1>8, <2>1, <2>3, <3>1, <3>2 DEF OutputInTurn, OpenAt
  <2> QED
    BY <1>6, <2>2, <2>3 DEF OutputInTurn
<1>14. ProvenanceInTurn(b)
  <2>1. a.state # "AwaitingProvenancePage" /\ b.state # "AwaitingProvenancePage"
    BY <1>5, <1>7
  <2> QED
    BY <1>5, <1>6, <2>1, ProvenanceKept
<1>15. EndsInTurn(b)
  BY <1>5, <1>6, EndsKept
<1> QED
  BY <1>2, <1>4, <1>6, <1>9, <1>10, <1>12, <1>13, <1>14, <1>15 DEF Merging

-----------------------------------------------------------------------------
(* The steps between pages of text.                                        *)

\* What an operation that has work and no page of text waits for.
Works(a) ==
  \/ a.state \in {"CollectingObjects", "CollectingText"}
  \/ a.state = "TextPagePending" /\ a.text # NoPage
  \/ a.state = "ObjectPagePending" /\ a.objects # NoPage

Between(a) ==
  /\ a.text = NoPage /\ a.pendingText = Null
  /\ a.state \in {"CollectingObjects", "CollectingText", "ObjectPagePending"}
  /\ a.pendingObjects # Null => a.objects # NoPage

LEMMA BetweenFacts ==
  ASSUME NEW a, Merging(a), Works(a), a.text = NoPage
  PROVE  Between(a)
<1>1. ObjectsInTurn(a) /\ TextInTurn(a)
  BY DEF Merging
<1>2. a.pendingText # Null => a.state = "TextPagePending"
  BY <1>1 DEF TextInTurn
<1>3. a.pendingObjects # Null /\ a.objects = NoPage => a.state = "ObjectPagePending"
  BY <1>1 DEF ObjectsInTurn
<1> QED
  BY <1>2, <1>3 DEF Between, Works

\* The objects that are left on a page.
Left(a, page, r, w, last) ==
  /\ a.objects = <<page>> /\ a.objects[1] = page /\ Head(a.objects) = page /\ ~a.complete
  /\ r = Reached(a) /\ last = Ending(a.key.selection)
  /\ r \in Nat /\ w \in Nat /\ last \in Nat /\ r <= w /\ w <= last /\ last <= Len(Objects)
  /\ page = [facts |-> SubSeq(Objects, r + 1, w), complete |-> page.complete,
             continuation |-> IF page.complete THEN Null ELSE w]
  /\ page.complete \in BOOLEAN
  /\ IF page.complete THEN w = last ELSE w > Outset(a.key.selection)
  /\ r = w => page.facts = <<>>
  /\ r < w => /\ page.facts # <<>> /\ Head(page.facts) = Objects[r + 1]
              /\ Tail(page.facts) = SubSeq(Objects, r + 2, w)

LEMMA ReachedFacts ==
  ASSUME NEW a, Merging(a)
  PROVE  /\ Reached(a) \in Nat /\ Done(a) \in Nat /\ Done(a) <= Reached(a)
         /\ Outset(a.key.selection) \in Nat /\ Ending(a.key.selection) \in Nat
         /\ Outset(a.key.selection) <= Done(a) /\ Reached(a) <= Ending(a.key.selection)
         /\ Ending(a.key.selection) <= Len(Objects) /\ Len(Objects) \in Nat
<1>1. PICK range, f, l, d, n : /\ range = a.key.selection /\ f = Outset(range) /\ l = Ending(range)
                               /\ d = Done(a) /\ n = Len(Objects)
  OBVIOUS
<1>2. range \in Selections /\ d \in Nat /\ f <= d /\ d <= l /\ (a.current # NoPage => d < l)
  BY <1>1, PlaceFacts
<1>3. f \in Nat /\ l \in Nat /\ l <= n /\ n \in Nat
  BY <1>1, <1>2, OutsetFacts, SourceFacts
<1>4. Reached(a) = d \/ (a.current # NoPage /\ Reached(a) = d + 1)
  BY <1>1 DEF Reached
<1> QED
  BY <1>1, <1>2, <1>3, <1>4

LEMMA LeftFacts ==
  ASSUME NEW a, Merging(a), a.objects # NoPage
  PROVE  \E page, r, w, last : Left(a, page, r, w, last)
<1>1. PICK page, range, r, f, last, n :
        /\ page = a.objects[1] /\ range = a.key.selection /\ r = Reached(a)
        /\ f = Outset(range) /\ last = Ending(range) /\ n = Len(Objects)
  OBVIOUS
<1>2. a.objects = <<page>> /\ ~a.complete /\ Follows(page, r, f, last)
  BY <1>1 DEF Merging, ObjectsInTurn
<1>3. r \in Nat /\ last \in Nat /\ n \in Nat /\ r <= last /\ last <= n
  BY <1>1, ReachedFacts
<1>4. PICK w \in r..last :
        /\ page = [facts |-> SubSeq(Objects, r + 1, w), complete |-> page.complete,
                   continuation |-> IF page.complete THEN Null ELSE w]
        /\ page.complete \in BOOLEAN
        /\ IF page.complete THEN w = last ELSE w > f
  BY <1>2 DEF Follows
<1>5. w \in Nat /\ r <= w /\ w <= last /\ w <= n
  BY <1>3, <1>4
<1>6. PICK s : s = page.facts /\ s = SubSeq(Objects, r + 1, w)
  BY <1>4
<1>7. s = [i \in 1..(w - r) |-> Objects[r + i]]
  <2>1. Objects \in Seq(ObjectSpace) /\ w <= Len(Objects)
    BY <1>1, <1>5, SourceFacts
  <2> QED
    BY ONLY <1>3, <1>5, <1>6, <2>1, SliceFacts
<1>8. s \in Seq(ObjectSpace) /\ Len(s) = w - r
  <2>1. \A i \in 1..(w - r) : r + i \in 1..n
    BY <1>3, <1>5
  <2>2. \A i \in 1..n : Objects[i] \in ObjectSpace
    BY <1>1, SourceFacts
  <2>3. w - r \in Nat
    BY <1>3, <1>5
  <2> QED
    BY <1>7, <2>1, <2>2, <2>3
<1>9. r = w => s = <<>>
  BY <1>8, <1>3
<1>10. ASSUME r < w
       PROVE  s # <<>> /\ Head(s) = Objects[r + 1] /\ Tail(s) = SubSeq(Objects, r + 2, w)
  <2>1. w - r \in Nat /\ 1 \in 1..(w - r)
    BY <1>3, <1>5, <1>10
  <2>2. s # <<>> /\ Head(s) = s[1] /\ s[1] = Objects[r + 1]
    BY <1>7, <1>8, <2>1
  <2>3. Tail(s) = [i \in 1..(w - (r + 1)) |-> Objects[(r + 1) + i]]
    <3>1. Tail(s) = [i \in 1..(Len(s) - 1) |-> s[i + 1]]
      BY <1>8, <2>2, TailFacts
    <3>2. Len(s) - 1 = w - (r + 1) /\ \A i \in 1..(w - (r + 1)) : i + 1 \in 1..(w - r) /\ r + (i + 1) = (r + 1) + i
      BY <1>3, <1>5, <1>8
    <3> QED
      BY <1>7, <3>1, <3>2
  <2>4. SubSeq(Objects, (r + 1) + 1, w) = [i \in 1..(w - (r + 1)) |-> Objects[(r + 1) + i]]
    <3>1. r + 1 \in Nat /\ r + 1 <= w
      BY <1>3, <1>5, <1>10
    <3>2. Objects \in Seq(ObjectSpace) /\ w <= Len(Objects)
      BY <1>1, <1>5, SourceFacts
    <3> QED
      BY <1>5, <3>1, <3>2, SliceFacts
  <2>5. (r + 1) + 1 = r + 2
    BY <1>3
  <2> QED
    BY <2>2, <2>3, <2>4, <2>5
<1>11. Head(a.objects) = page
  BY <1>2
<1> QED
  BY <1>1, <1>2, <1>3, <1>4, <1>5, <1>6, <1>9, <1>10, <1>11 DEF Left

LEMMA ObjectTakenStep ==
  ASSUME NEW a, Shaped(a), Merging(a), Between(a), NEW step, ObjectTaken(a, step)
  PROVE  Merging(Successor(a, step))
<1>1. a.current = NoPage /\ a.objects # NoPage /\ Head(a.objects).facts # <<>> /\ step.do = "TakeObject"
  BY StepNames DEF ObjectTaken
<1>2. PICK page, r, w, last : Left(a, page, r, w, last)
  BY <1>1, LeftFacts
<1>3. PICK b, more, o : /\ b = Successor(a, step) /\ more = [page EXCEPT !.facts = Tail(@)]
                        /\ o = Objects[r + 1]
  OBVIOUS
<1>4. r < w /\ Head(page.facts) = o /\ Tail(page.facts) = SubSeq(Objects, r + 2, w)
  <2>1. page.facts # <<>>
    BY <1>1, <1>2 DEF Left
  <2>2. r # w
    BY <1>2, <2>1 DEF Left
  <2>3. r < w
    BY <1>2, <2>2 DEF Left
  <2> QED
    BY <1>2, <1>3, <2>3 DEF Left
<1>5. b = [a EXCEPT !.current = <<o>>, !.objects = <<more>>]
  <2>1. b = [a EXCEPT !.current = <<Head(a.objects[1].facts)>>, !.objects = <<[a.objects[1] EXCEPT !.facts = Tail(@)]>>]
    BY <1>1, <1>3 DEF Successor
  <2>2. a.objects[1] = page
    BY <1>2 DEF Left
  <2> QED
    <3>1. [a.objects[1] EXCEPT !.facts = Tail(@)] = more
      BY <1>3, <2>2
    <3>2. Head(a.objects[1].facts) = o
      BY <1>4, <2>2
    <3> QED
      BY <2>1, <3>1, <3>2
<1>6. /\ b.current = <<o>> /\ b.objects = <<more>> /\ b.key = a.key /\ b.prior = a.prior /\ b.complete = a.complete
      /\ b.objectCursor = a.objectCursor /\ b.pendingObjects = a.pendingObjects /\ b.state = a.state
      /\ b.building = a.building /\ b.builder = a.builder
  BY <1>5 DEF Shaped, ClipFields
<1>7. SameText(a, b) /\ SameOutput(a, b) /\ SameProvenance(a, b) /\ SameEnds(a, b)
  <2>1. SameText(a, b)
    BY <1>5 DEF Shaped, ClipFields, SameText
  <2>2. SameOutput(a, b)
    BY <1>5 DEF Shaped, ClipFields, SameOutput
  <2>3. SameProvenance(a, b)
    BY <1>5 DEF Shaped, ClipFields, SameProvenance
  <2>4. SameEnds(a, b)
    BY <1>5 DEF Shaped, ClipFields, SameEnds
  <2> QED
    BY <2>1, <2>2, <2>3, <2>4
<1>8. ObjectsInTurn(a) /\ TextInTurn(a) /\ OutputInTurn(a) /\ ProvenanceInTurn(a) /\ EndsInTurn(a)
  BY DEF Merging
<1>9. ObjectsInTurn(b)
  <2>1. PICK f : f = Outset(a.key.selection)
    OBVIOUS
  <2>2. /\ r = Done(a) /\ Done(b) = r /\ Reached(b) = r + 1 /\ r \in Nat /\ w \in Nat /\ last \in Nat
        /\ last = Ending(a.key.selection) /\ w <= last /\ ~a.complete /\ a.objects[1] = page
    <3>1. Done(b) = Done(a)
      BY <1>6, DoneSame
    <3>2. Reached(a) = Done(a)
      BY <1>1 DEF Reached
    <3>3. b.current # NoPage
      BY <1>6 DEF NoPage
    <3>4. Reached(b) = Done(b) + 1
      BY <3>3 DEF Reached
    <3>5. /\ r = Reached(a) /\ r \in Nat /\ w \in Nat /\ last \in Nat
          /\ last = Ending(a.key.selection) /\ w <= last /\ ~a.complete /\ a.objects[1] = page
      BY <1>2 DEF Left
    <3> QED
      BY <3>1, <3>2, <3>4, <3>5
  <2>3. Follows(more, r + 1, f, last)
    <3>1. more = [facts |-> SubSeq(Objects, (r + 1) + 1, w), complete |-> more.complete,
                  continuation |-> IF more.complete THEN Null ELSE w]
      <4>1. page = [facts |-> page.facts, complete |-> page.complete,
                    continuation |-> IF page.complete THEN Null ELSE w]
        BY <1>2 DEF Left
      <4>2. more = [facts |-> Tail(page.facts), complete |-> page.complete,
                    continuation |-> IF page.complete THEN Null ELSE w]
        <5>1. PICK x, y, z : x = page.facts /\ y = page.complete /\ z = IF page.complete THEN Null ELSE w
          OBVIOUS
        <5>2. page = [facts |-> x, complete |-> y, continuation |-> z]
          BY <4>1, <5>1
        <5>3. more = [facts |-> Tail(x), complete |-> y, continuation |-> z]
          BY ONLY <1>3, <5>2
        <5> QED
          BY <5>1, <5>3
      <4>3. (r + 1) + 1 = r + 2
        BY <2>2
      <4> QED
        BY <1>4, <4>2, <4>3
    <3>2. more.complete = page.complete
      <4>1. "complete" \in DOMAIN page
        BY <1>2 DEF Left
      <4> QED
        BY <1>3, <4>1
    <3>3. page.complete \in BOOLEAN /\ IF page.complete THEN w = last ELSE w > f
      BY <1>2, <2>1 DEF Left
    <3>4. w \in (r + 1)..last
      BY <1>4, <2>2
    <3> QED
      BY <3>1, <3>2, <3>3, <3>4 DEF Follows
  <2>4. Done(b) < last
    BY <1>4, <2>2
  <2>5. b.objects # NoPage /\ b.objects = <<b.objects[1]>> /\ b.objects[1] = more /\ b.current # NoPage
    BY <1>6 DEF NoPage
  <2> QED
    BY <1>3, <1>6, <1>8, <2>1, <2>2, <2>3, <2>4, <2>5 DEF ObjectsInTurn
<1>10. TextInTurn(b)
  <2>1. Full(b) = Full(a)
    BY <1>6 DEF Full
  <2>2. /\ b.state \in {"CollectingText", "TextPagePending"} => Targets(a) /\ ~Full(b)
        /\ b.text # NoPage \/ b.pendingText # Null => b.state = "TextPagePending"
    BY <1>6, <1>7, <1>8, <2>1 DEF TextInTurn, SameText
  <2> QED
    BY <1>7, <1>8, <2>2, TextKept
<1>11. OutputInTurn(b)
  BY <1>7, <1>8, OutputKept
<1>12. ProvenanceInTurn(b)
  <2>1. a.state # "AwaitingProvenancePage"
    BY DEF Between
  <2> QED
    BY <1>6, <1>7, <1>8, <2>1, ProvenanceKept DEF SameOutput
<1>13. EndsInTurn(b)
  BY <1>7, <1>8, EndsKept
<1> QED
  BY <1>3, <1>6, <1>9, <1>10, <1>11, <1>12, <1>13 DEF Merging

LEMMA PageDoneStep ==
  ASSUME NEW a, Shaped(a), Merging(a), Between(a), NEW step, PageDone(a, step)
  PROVE  Merging(Successor(a, step))
<1>1. a.objects # NoPage /\ Head(a.objects).facts = <<>> /\ step.do = "FinishObjects"
  BY StepNames DEF PageDone
<1>2. PICK page, r, w, last : Left(a, page, r, w, last)
  BY <1>1, LeftFacts
<1>3. PICK b, more : b = Successor(a, step) /\ more = page.continuation
  OBVIOUS
<1>4. r = w /\ a.objects[1] = page
  BY <1>1, <1>2 DEF Left
<1>5. b = [a EXCEPT !.objects = NoPage, !.pendingObjects = Null, !.objectCursor = more,
                    !.complete = page.complete, !.state = "CollectingObjects"]
  BY <1>1, <1>3, <1>4 DEF Successor, ObjectsFinished
<1>6. /\ b.objects = NoPage /\ b.pendingObjects = Null /\ b.objectCursor = more /\ b.complete = page.complete
      /\ b.state = "CollectingObjects"
  BY <1>5 DEF Shaped, ClipFields
<1>7. SameText(a, b) /\ SameOutput(a, b) /\ SameProvenance(a, b) /\ SameEnds(a, b)
  <2>1. SameText(a, b)
    BY <1>5 DEF Shaped, ClipFields, SameText
  <2>2. SameOutput(a, b)
    BY <1>5 DEF Shaped, ClipFields, SameOutput
  <2>3. SameProvenance(a, b)
    BY <1>5 DEF Shaped, ClipFields, SameProvenance
  <2>4. SameEnds(a, b)
    BY <1>5 DEF Shaped, ClipFields, SameEnds
  <2> QED
    BY <2>1, <2>2, <2>3, <2>4
<1>8. b.key = a.key /\ b.prior = a.prior /\ b.current = a.current /\ b.building = a.building
  BY <1>5 DEF Shaped, ClipFields
<1>9. ObjectsInTurn(a) /\ TextInTurn(a) /\ OutputInTurn(a) /\ ProvenanceInTurn(a) /\ EndsInTurn(a)
  BY DEF Merging
<1>10. ObjectsInTurn(b)
  <2>1. PICK f : f = Outset(a.key.selection)
    OBVIOUS
  <2>2. Done(b) = Done(a) /\ Reached(b) = r /\ last = Ending(a.key.selection)
    BY <1>2, <1>8, DoneSame DEF Reached, Left
  <2>3. page.complete \in BOOLEAN /\ (IF page.complete THEN w = last ELSE w > f)
        /\ more = (IF page.complete THEN Null ELSE w) /\ w \in Nat /\ last \in Nat /\ w <= last
    BY <1>2, <1>3, <2>1 DEF Left
  <2>4. f \in Nat
    BY <2>1, ReachedFacts
  <2>5. more = Null \/ more \in (f + 1)..last
    BY <2>3, <2>4
  <2>6. r = IF page.complete THEN last ELSE IF more = Null THEN f ELSE more
    BY <1>4, <2>3, <2>4 DEF Null
  <2> QED
    BY <1>6, <1>8, <1>9, <2>1, <2>2, <2>3, <2>5, <2>6 DEF ObjectsInTurn
<1>11. TextInTurn(b)
  <2>1. b.text = NoPage /\ b.pendingText = Null
    BY <1>7 DEF Between, SameText
  <2> QED
    BY <1>6, <1>7, <1>9, <2>1, TextKept
<1>12. OutputInTurn(b)
  BY <1>7, <1>9, OutputKept
<1>13. ProvenanceInTurn(b)
  <2>1. a.state # "AwaitingProvenancePage"
    BY DEF Between
  <2> QED
    BY <1>6, <1>7, <1>8, <1>9, <2>1, ProvenanceKept DEF SameOutput
<1>14. EndsInTurn(b)
  BY <1>7, <1>9, EndsKept
<1> QED
  BY <1>3, <1>8, <1>10, <1>11, <1>12, <1>13, <1>14 DEF Merging

LEMMA TextUpToStep ==
  ASSUME NEW a, Shaped(a), Merging(a), Between(a), ~Full(a), NEW step, TextUpTo(a, step)
  PROVE  Merging(Successor(a, step))
<1>1. PICK b, g, range, d, l : /\ b = Successor(a, step) /\ g = step.target /\ range = a.key.selection
                               /\ d = Done(a) /\ l = Ending(range)
  OBVIOUS
<1>2. /\ step.do = "NeedTextPage" /\ a.textCursor < g
      /\ \/ a.current = NoPage /\ a.objects = NoPage /\ a.complete /\ g = range.end.at
         \/ a.current # NoPage /\ g = a.current[1].at
  BY <1>1, StepNames DEF TextUpTo
<1>3. b = [a EXCEPT !.target = g, !.state = "CollectingText"]
  BY <1>1, <1>2 DEF Successor
<1>4. /\ b.target = g /\ b.state = "CollectingText" /\ b.key = a.key /\ b.prior = a.prior
      /\ b.textCursor = a.textCursor /\ b.text = a.text /\ b.pendingText = a.pendingText
      /\ b.builder = a.builder /\ b.building = a.building /\ b.output = a.output
  BY <1>3 DEF Shaped, ClipFields
<1>5. SameObjects(a, b) /\ SameOutput(a, b) /\ SameProvenance(a, b) /\ SameEnds(a, b)
  <2>1. SameObjects(a, b)
    BY <1>3 DEF Shaped, ClipFields, SameObjects
  <2>2. SameOutput(a, b)
    BY <1>3 DEF Shaped, ClipFields, SameOutput
  <2>3. SameProvenance(a, b)
    BY <1>3 DEF Shaped, ClipFields, SameProvenance
  <2>4. SameEnds(a, b)
    BY <1>3 DEF Shaped, ClipFields, SameEnds
  <2> QED
    BY <2>1, <2>2, <2>3, <2>4
<1>6. ObjectsInTurn(a) /\ TextInTurn(a) /\ OutputInTurn(a) /\ ProvenanceInTurn(a) /\ EndsInTurn(a)
  BY DEF Merging
<1>7. ObjectsInTurn(b)
  <2>1. b.pendingObjects # Null => b.objects # NoPage
    BY <1>5 DEF Between, SameObjects
  <2> QED
    BY <1>5, <1>6, <2>1, ObjectsKept
<1>8. /\ range \in Selections /\ d \in Nat /\ d <= l /\ (a.current # NoPage => d < l)
      /\ range.end.at \in Nat /\ a.textCursor \in Nat /\ l \in Nat /\ l <= Len(Objects) /\ Len(Objects) \in Nat
  BY <1>1, PlaceFacts, SelectionFacts, ReachedFacts
<1>9. /\ g \in Nat /\ g <= range.end.at /\ (g = range.end.at \/ \E i \in 1..Len(Objects) : g = Objects[i].at)
      /\ \A i \in (d + 1)..l : g <= Objects[i].at
  <2>1. CASE a.current = NoPage /\ a.objects = NoPage /\ a.complete /\ g = range.end.at
    <3>1. d = l
      BY <1>1, <1>6, <2>1 DEF ObjectsInTurn, Reached
    <3>2. (d + 1)..l = {}
      BY <1>8, <3>1
    <3> QED
      BY <1>8, <2>1, <3>2
  <2>2. CASE a.current # NoPage /\ g = a.current[1].at
    <3>1. a.current = <<Objects[d + 1]>> /\ d < l
      BY <1>1, <1>6, <2>2 DEF ObjectsInTurn
    <3>2. g = Objects[d + 1].at /\ d + 1 \in 1..Len(Objects) /\ d + 1 <= l
      BY <1>8, <2>2, <3>1
    <3>3. g <= range.end.at /\ g \in Nat
      BY <1>1, <1>8, <3>2, OutsetFacts, ObjectFacts
    <3>4. \A i \in (d + 1)..l : i \in 1..Len(Objects) /\ d + 1 <= i
      BY <1>8
    <3>5. \A i \in (d + 1)..l : g <= Objects[i].at
      BY <3>2, <3>4, ObjectFacts
    <3> QED
      BY <3>2, <3>3, <3>5
  <2> QED
    BY <1>2, <2>1, <2>2
<1>10. TextInTurn(b)
  <2>1. Done(b) = d
    BY <1>1, <1>4, DoneSame
  <2>2. g \in (a.textCursor + 1)..range.end.at
    BY <1>2, <1>8, <1>9
  <2>3. Targets(b)
    BY <1>1, <1>4, <1>9, <2>1, <2>2 DEF Targets
  <2>4. ~Full(b)
    BY <1>4 DEF Full
  <2>5. b.text = NoPage /\ b.pendingText = Null
    BY <1>4 DEF Between
  <2> QED
    BY <1>1, <1>4, <1>6, <2>1, <2>3, <2>4, <2>5 DEF TextInTurn
<1>11. OutputInTurn(b)
  BY <1>5, <1>6, OutputKept
<1>12. ProvenanceInTurn(b)
  <2>1. a.state # "AwaitingProvenancePage"
    BY DEF Between
  <2> QED
    BY <1>4, <1>5, <1>6, <2>1, ProvenanceKept
<1>13. EndsInTurn(b)
  BY <1>5, <1>6, EndsKept
<1> QED
  BY <1>1, <1>4, <1>7, <1>8, <1>10, <1>11, <1>12, <1>13 DEF Merging

\* Steps that make room, and the one that asks for objects, leave the merge where it is.
LEMMA RoomStep ==
  ASSUME NEW a, Shaped(a), Merging(a), a.state # "AwaitingProvenancePage",
         NEW step, step.do \in {"AllocateOutput", "AllocateBuilder", "NeedObjectPage"}
  PROVE  Merging(Successor(a, step))
<1>1. PICK b : b = Successor(a, step)
  OBVIOUS
<1>2. CASE step.do = "AllocateOutput"
  <2>1. b = [a EXCEPT !.backed = TRUE]
    BY <1>1, <1>2 DEF Successor
  <2>2. SameObjects(a, b) /\ SameText(a, b)
    BY <2>1 DEF Shaped, ClipFields, SameObjects, SameText
  <2>3. SameOutput(a, b) /\ SameProvenance(a, b)
    BY <2>1 DEF Shaped, ClipFields, SameOutput, SameProvenance
  <2>4. SameEnds(a, b) /\ b.state = a.state /\ b.building = a.building
    BY <2>1 DEF Shaped, ClipFields, SameEnds
  <2> QED
    BY <1>1, <2>2, <2>3, <2>4, MergingKept
<1>3. CASE step.do = "AllocateBuilder"
  <2>1. b = [a EXCEPT !.building = TRUE]
    BY <1>1, <1>3 DEF Successor
  <2>2. SameObjects(a, b) /\ SameText(a, b)
    BY <2>1 DEF Shaped, ClipFields, SameObjects, SameText
  <2>3. SameOutput(a, b) /\ SameProvenance(a, b)
    BY <2>1 DEF Shaped, ClipFields, SameOutput, SameProvenance
  <2>4. SameEnds(a, b) /\ b.state = a.state /\ b.building
    BY <2>1 DEF Shaped, ClipFields, SameEnds
  <2> QED
    BY <1>1, <2>2, <2>3, <2>4, MergingKept
<1>4. CASE step.do = "NeedObjectPage"
  BY <1>1, <1>4 DEF Successor
<1> QED
  BY <1>2, <1>3, <1>4

\* A page of items is emitted when it is full, or when no object is left.
Emits(a) ==
  /\ a.builder # <<>>
  /\ policy.items # 0 =>
       \/ Len(a.builder) = policy.items
       \/ Done(a) = Ending(a.key.selection)

LEMMA EmitsFacts ==
  ASSUME NEW a, Merging(a), NEW step, Full(a) \/ LastItems(a, step)
  PROVE  Emits(a) /\ a.state \notin {"CollectingText", "TextPagePending"}
<1>1. ObjectsInTurn(a) /\ TextInTurn(a)
  BY DEF Merging
<1>2. CASE Full(a)
  <2>1. a.builder # <<>>
    BY <1>2 DEF Full
  <2> QED
    BY <1>1, <1>2, <2>1 DEF Full, Emits, TextInTurn
<1>3. CASE LastItems(a, step)
  <2>1. /\ a.builder # <<>> /\ a.current = NoPage /\ a.objects = NoPage /\ a.complete
        /\ ~(a.textCursor < a.key.selection.end.at)
    BY <1>3 DEF LastItems, HasItems, AllDone
  <2>2. Done(a) = Ending(a.key.selection)
    BY <1>1, <2>1 DEF ObjectsInTurn, Reached
  <2>3. a.state \notin {"CollectingText", "TextPagePending"}
    <3> SUFFICES ASSUME Targets(a) PROVE FALSE
      BY <1>1 DEF TextInTurn
    <3>1. PICK c, e, g : c = a.textCursor /\ e = a.key.selection.end.at /\ g = a.target
      OBVIOUS
    <3>2. c \in Nat /\ e \in Nat
      BY <3>1, PlaceFacts, SelectionFacts
    <3>3. g \in (c + 1)..e
      BY <3>1 DEF Targets
    <3> QED
      BY <2>1, <3>1, <3>2, <3>3
  <2> QED
    BY <2>1, <2>2, <2>3 DEF Emits
<1> QED
  BY <1>2, <1>3

LEMMA EmitStep ==
  ASSUME NEW a, Shaped(a), Merging(a), Works(a), Full(a) \/ LastItems(a, Do("EmitProvenance"))
  PROVE  Merging(Successor(a, Do("EmitProvenance")))
<1>1. PICK b, step : step = Do("EmitProvenance") /\ b = Successor(a, step)
  OBVIOUS
<1>2. /\ ObjectsInTurn(a) /\ TextInTurn(a) /\ OutputInTurn(a) /\ ProvenanceInTurn(a) /\ EndsInTurn(a)
      /\ a.key.selection \in Selections
  BY DEF Merging
<1>3. Emits(a) /\ a.state \notin {"CollectingText", "TextPagePending"}
  BY EmitsFacts
<1>4. a.text = NoPage /\ a.pendingText = Null /\ a.state # "AwaitingProvenancePage"
  BY <1>2, <1>3 DEF TextInTurn, Works
<1>5. Between(a)
  BY <1>4, BetweenFacts
<1>6. b = [a EXCEPT !.page = <<a.builder>>, !.builder = <<>>, !.building = FALSE,
                    !.state = "AwaitingProvenancePage"]
  BY <1>1, StepNames DEF Successor
<1>7. /\ b.page = <<a.builder>> /\ b.builder = <<>> /\ b.state = "AwaitingProvenancePage"
      /\ b.key = a.key /\ b.prior = a.prior /\ b.chain = a.chain /\ b.count = a.count /\ b.output = a.output
  BY <1>6 DEF Shaped, ClipFields
<1>8. SameObjects(a, b) /\ SameText(a, b) /\ SameOutput(a, b) /\ SameEnds(a, b)
  <2>1. SameObjects(a, b)
    BY <1>6 DEF Shaped, ClipFields, SameObjects
  <2>2. SameText(a, b)
    BY <1>6 DEF Shaped, ClipFields, SameText
  <2>3. SameOutput(a, b)
    BY <1>6 DEF Shaped, ClipFields, SameOutput
  <2>4. SameEnds(a, b)
    BY <1>6 DEF Shaped, ClipFields, SameEnds
  <2> QED
    BY <2>1, <2>2, <2>3, <2>4
<1>9. ObjectsInTurn(b)
  <2>1. b.pendingObjects # Null => b.objects # NoPage
    BY <1>5, <1>8 DEF Between, SameObjects
  <2> QED
    BY <1>2, <1>8, <2>1, ObjectsKept
<1>10. TextInTurn(b)
  <2>1. b.text = NoPage /\ b.pendingText = Null
    BY <1>4, <1>8 DEF SameText
  <2> QED
    BY <1>2, <1>7, <1>8, <2>1, TextKept
<1>11. OutputInTurn(b)
  BY <1>2, <1>8, OutputKept
<1>12. ProvenanceInTurn(b)
  <2>1. b.page = <<b.page[1]>> /\ a.page = NoPage
    BY <1>2, <1>4, <1>7 DEF ProvenanceInTurn
  <2> SUFFICES ASSUME policy.items # 0
               PROVE  /\ b.builder \in Seq(ItemSpace) /\ Pages(b) \in Seq(Seq(ItemSpace))
                      /\ b.chain \in Seq(Seq(ItemSpace))
                      /\ Items(b) = Items(a) /\ Done(b) = Done(a) /\ Len(b.builder) <= policy.items
                      /\ \A i \in 1..Len(Pages(b)) :
                           \/ Len(Pages(b)[i]) = policy.items
                           \/ i = Len(Pages(b)) /\ b.builder = <<>> /\ Done(b) = Ending(b.key.selection)
    BY <1>2, <1>7, <2>1 DEF ProvenanceInTurn
  <2>2. PICK v, x, n : v = Pages(a) /\ x = a.builder /\ n = Len(v)
    OBVIOUS
  <2>3. /\ x \in Seq(ItemSpace) /\ v \in Seq(Seq(ItemSpace)) /\ a.chain \in Seq(Seq(ItemSpace)) /\ x # <<>>
        /\ Len(x) <= policy.items
        /\ Len(x) = policy.items \/ Done(a) = Ending(a.key.selection)
        /\ \A i \in 1..n : Len(v[i]) = policy.items
    BY <1>2, <1>3, <2>2 DEF ProvenanceInTurn, Emits
  <2>4. v = a.chain
    BY <2>1, <2>2, <2>3, ConcatNone DEF Pages, NoPage
  <2>5. Pages(b) = Append(v, x)
    <3>1. Pages(b) = v \o <<x>>
      BY <1>7, <2>2, <2>4 DEF Pages
    <3> QED
      BY <2>3, <3>1
  <2>6. Append(v, x) \in Seq(Seq(ItemSpace)) /\ Len(Append(v, x)) = n + 1 /\ n \in Nat
        /\ Append(v, x)[n + 1] = x /\ \A i \in 1..n : Append(v, x)[i] = v[i]
    BY <2>2, <2>3
  <2>7. Items(b) = Items(a)
    <3>1. Chained(Append(v, x), n + 1) = Chained(v, n) \o x
      BY <2>2, <2>3, ChainedAppend
    <3>2. Chained(v, n) \o x \in Seq(ItemSpace)
      <4>1. Items(a) \in Seq(ItemSpace)
        BY <2>2, <2>3, ItemsIn
      <4> QED
        BY <2>2, <4>1 DEF Items
    <3>3. (Chained(v, n) \o x) \o <<>> = Chained(v, n) \o x
      BY <3>2, ConcatNone
    <3>4. Items(b) = Chained(Append(v, x), n + 1) \o <<>>
      BY <1>7, <2>5, <2>6 DEF Items
    <3>5. Items(a) = Chained(v, n) \o x
      BY <2>2 DEF Items
    <3> QED
      BY <3>1, <3>3, <3>4, <3>5
  <2>8. Done(b) = Done(a) /\ b.key.selection = a.key.selection
    BY <1>7, DoneSame
  <2>9. <<>> \in Seq(ItemSpace) /\ Len(<<>>) = 0 /\ 0 <= policy.items
    <3>1. policy \in PolicySpace
      BY LimitsAssumption DEF Merging
    <3>2. policy.items \in Nat
      BY <3>1 DEF PolicySpace
    <3> QED
      BY <3>2
  <2>10. \A i \in 1..(n + 1) :
           \/ Len(Append(v, x)[i]) = policy.items
           \/ i = n + 1 /\ Done(a) = Ending(a.key.selection)
    <3> SUFFICES ASSUME NEW i \in 1..(n + 1)
                 PROVE  \/ Len(Append(v, x)[i]) = policy.items
                        \/ i = n + 1 /\ Done(a) = Ending(a.key.selection)
      OBVIOUS
    <3>1. i \in 1..n \/ i = n + 1
      BY <2>6
    <3> QED
      BY <2>3, <2>6, <3>1
  <2> QED
    BY <1>7, <2>3, <2>5, <2>6, <2>7, <2>8, <2>9, <2>10
<1>13. EndsInTurn(b)
  BY <1>2, <1>8, EndsKept
<1> QED
  BY <1>1, <1>2, <1>7, <1>9, <1>10, <1>11, <1>12, <1>13 DEF Merging

-----------------------------------------------------------------------------
(* The step that is done with an object.                                   *)

LEMMA ListingNext ==
  ASSUME NEW S, NEW d \in Nat
  PROVE  /\ Listing(S, 0) = <<>>
         /\ Listing(S, d + 1) = IF d + 1 \in S THEN Append(Listing(S, d), d + 1) ELSE Listing(S, d)
<1>1. PICK s, t : s = [i \in 1..d |-> i] /\ t = [i \in 1..(d + 1) |-> i]
  OBVIOUS
<1>2. s \in Seq(Nat) /\ Len(s) = d
  BY <1>1
<1>3. Append(s, d + 1) = t
  <2>1. Append(s, d + 1) = [i \in 1..(d + 1) |-> IF i = d + 1 THEN d + 1 ELSE s[i]]
    BY <1>2
  <2>2. \A i \in 1..(d + 1) : i = d + 1 \/ i \in 1..d
    OBVIOUS
  <2> QED
    BY <1>1, <2>1, <2>2
<1>4. Only(t, S) = IF d + 1 \in S THEN Append(Only(s, S), d + 1) ELSE Only(s, S)
  <2>1. PICK x \in Nat : x = d + 1
    OBVIOUS
  <2>2. Only(Append(s, x), S) = IF x \in S THEN Append(Only(s, S), x) ELSE Only(s, S)
    BY <1>2, OnlyAppend
  <2> QED
    BY <1>3, <2>1, <2>2
<1>5. [i \in 1..0 |-> i] = <<>>
  OBVIOUS
<1> QED
  BY <1>1, <1>4, <1>5, OnlyEmpty DEF Listing

\* The objects of a list of items, and of one item more.
LEMMA ObjectsListed ==
  ASSUME NEW s \in Seq(ItemSpace), NEW x \in ItemSpace
  PROVE  [k \in DOMAIN Append(s, x) |-> Append(s, x)[k].object]
           = Append([k \in DOMAIN s |-> s[k].object], x.object)
<1>1. PICK t, n, u : t = Append(s, x) /\ n = Len(s) /\ u = [k \in DOMAIN s |-> s[k].object]
  OBVIOUS
<1>2. n \in Nat /\ DOMAIN s = 1..n /\ \A k \in 1..n : s[k] \in ItemSpace
  BY <1>1
<1>3. t \in Seq(ItemSpace) /\ DOMAIN t = 1..(n + 1) /\ t[n + 1] = x /\ \A k \in 1..n : t[k] = s[k]
  BY <1>1
<1>4. u \in Seq(Nat) /\ Len(u) = n /\ \A k \in 1..n : u[k] = s[k].object
  BY <1>1, <1>2 DEF ItemSpace
<1>5. Append(u, x.object) = [k \in 1..(n + 1) |-> IF k = n + 1 THEN x.object ELSE u[k]]
  BY <1>4
<1>6. \A k \in 1..(n + 1) : k = n + 1 \/ k \in 1..n
  BY <1>2
<1>7. [k \in 1..(n + 1) |-> t[k].object] = [k \in 1..(n + 1) |-> IF k = n + 1 THEN x.object ELSE u[k]]
  BY <1>3, <1>4, <1>6
<1> QED
  BY <1>1, <1>3, <1>5, <1>7

\* The item of an object names the copy that is appended.
LEMMA CopyNamed ==
  ASSUME NEW i \in 1..Len(Objects), NEW s \in Seq(Nat), NEW x, x = Objects[i].copy
  PROVE  /\ Names(Item(i, Len(s), Len(s) + Len(x)), s \o x)
         /\ Item(i, Len(s), Len(s) + Len(x)) \in ItemSpace
<1>1. PICK m, n, z, e : m = Len(s) /\ n = Len(x) /\ z = s \o x /\ e = m + n
  OBVIOUS
<1>2. x \in Seq(Nat) /\ m \in Nat /\ n \in Nat /\ e \in Nat /\ i \in Nat
  <2>1. x \in Seq(Nat)
    BY ObjectFacts
  <2>2. m \in Nat /\ n \in Nat
    BY <1>1, <2>1
  <2>3. e \in Nat /\ i \in Nat
    BY <1>1, <2>2, SourceFacts
  <2> QED
    BY <2>1, <2>2, <2>3
<1>3. z \in Seq(Nat) /\ Len(z) = e /\ \A k \in 1..n : z[m + k] = x[k]
  BY <1>1, <1>2, TextAt
<1>4. SubSeq(z, m + 1, e) = [k \in 1..(e - m) |-> z[m + k]]
  <2>1. m <= e
    BY <1>1, <1>2
  <2> QED
    BY ONLY <1>2, <1>3, <2>1, SliceFacts
<1>5. e - m = n
  <2>1. e = m + n
    BY <1>1
  <2> QED
    BY ONLY <1>2, <2>1
<1>6. x = [k \in 1..n |-> x[k]]
  <2>1. x \in Seq(Nat) /\ n = Len(x)
    BY <1>1, <1>2
  <2> QED
    BY ONLY <2>1
<1>7. SubSeq(z, m + 1, e) = x
  BY <1>3, <1>4, <1>5, <1>6
<1>8. Item(i, m, e) \in ItemSpace
  BY <1>2 DEF Item, ItemSpace
<1>9. m <= e /\ e <= Len(z)
  BY <1>1, <1>2, <1>3
<1>10. Item(i, m, e).object = i /\ Item(i, m, e).start = m /\ Item(i, m, e).end = e
  BY DEF Item
<1>11. Names(Item(i, m, e), z)
  BY <1>7, <1>9, <1>10 DEF Names
<1> QED
  BY <1>1, <1>8, <1>11

\* What is known of an object before the step that is done with it.
AtObject(a, range, i) ==
  /\ range = a.key.selection /\ range \in Selections /\ i = Done(a) + 1 /\ i \in 1..Len(Objects)
  /\ i \in (Outset(range) + 1)..Ending(range) /\ a.current[1] = Objects[i]
  /\ Leading(a.current[1], a.prior) = Lead(i)
  /\ Ready(a) => Trailing(a.current[1], NextObject(a)) = Trail(i) /\ a.textCursor = Objects[i].at

LEMMA AtObjectFacts ==
  ASSUME NEW a, Merging(a), a.current # NoPage
  PROVE  \E range, i : AtObject(a, range, i)
<1>1. PICK range, d, i, l, f, n : /\ range = a.key.selection /\ d = Done(a) /\ i = Done(a) + 1
                                  /\ l = Ending(range) /\ f = Outset(range) /\ n = Len(Objects)
  OBVIOUS
<1>2. /\ range \in Selections /\ d \in Nat /\ f \in Nat /\ l \in Nat /\ n \in Nat /\ f <= d /\ l <= n
  BY <1>1, PlaceFacts, ReachedFacts
<1>3. a.current = <<Objects[i]>> /\ d < l /\ Reached(a) = i
  BY <1>1 DEF Merging, ObjectsInTurn, Reached
<1>4. i \in (f + 1)..l /\ i \in 1..n
  BY <1>1, <1>2, <1>3
<1>5. a.current[1] = Objects[i]
  BY <1>3
<1>6. \/ a.prior = Null /\ i = f + 1
      \/ a.prior = i - 1 /\ a.prior > f
  <2>1. CASE a.prior = Null
    BY <1>1, <2>1 DEF Done
  <2>2. CASE a.prior # Null
    <3>1. a.prior \in (f + 1)..l /\ d = a.prior
      BY <1>1, <2>2 DEF Done, Merging, ObjectsInTurn
    <3> QED
      BY <1>1, <1>2, <3>1
  <2> QED
    BY <2>1, <2>2
<1>7. Leading(Objects[i], a.prior) = Lead(i)
  BY <1>1, <1>2, <1>4, <1>6, LeadingIsLead
<1>8. ASSUME Ready(a)
      PROVE  Trailing(Objects[i], NextObject(a)) = Trail(i) /\ a.textCursor = Objects[i].at
  <2>1. NextObject(a) = IF i = l THEN Null ELSE i + 1
    <3>1. CASE a.objects = NoPage
      <4>1. NextObject(a) = Null
        BY <3>1 DEF NextObject, Facts
      <4>2. a.complete
        BY <1>8, <4>1 DEF Ready
      <4>3. i = l
        BY <1>1, <1>3, <3>1, <4>2 DEF Merging, ObjectsInTurn
      <4> QED
        BY <4>1, <4>3
    <3>2. CASE a.objects # NoPage
      <4>1. PICK page, r, w, last : Left(a, page, r, w, last)
        BY <3>2, LeftFacts
      <4>2. Facts(a) = page.facts /\ page.facts # <<>>
        BY <1>8, <3>2, <4>1 DEF Facts, Ready, Left
      <4>3. r = i /\ last = l /\ r < w /\ w <= last /\ w \in Nat /\ Head(page.facts) = Objects[r + 1]
        <5>1. r = i /\ last = l /\ r <= w /\ r # w /\ r \in Nat /\ w \in Nat /\ w <= last
          BY <1>1, <1>3, <4>1, <4>2 DEF Left
        <5>2. r < w
          BY <5>1
        <5> QED
          BY <4>1, <5>1, <5>2 DEF Left
      <4>4. i + 1 \in 1..n /\ i # l
        BY <1>2, <1>4, <4>3
      <4>5. Objects[i + 1].id = i + 1
        BY <1>1, <4>4, ObjectFacts
      <4> QED
        BY <4>2, <4>3, <4>4, <4>5 DEF NextObject
    <3> QED
      BY <3>1, <3>2
  <2>2. Trailing(Objects[i], IF i = l THEN Null ELSE i + 1) = Trail(i)
    BY <1>1, <1>2, <1>4, TrailingIsTrail
  <2>3. a.textCursor = Objects[i].at
    <3>1. a.textCursor \in Nat /\ Objects[i].at \in Nat
      BY <1>1, <1>4, PlaceFacts, ObjectFacts
    <3>2. ~(a.textCursor < Objects[i].at) /\ ~(a.textCursor > Objects[i].at)
      BY <1>5, <1>8 DEF Ready
    <3> QED
      BY <3>1, <3>2
  <2> QED
    BY <2>1, <2>2, <2>3
<1> QED
  BY <1>1, <1>2, <1>4, <1>5, <1>7, <1>8 DEF AtObject

LEMMA SelectsTaken ==
  ASSUME NEW a, NEW range, NEW i, AtObject(a, range, i), Ready(a)
  PROVE  Selects(a) <=> i \in Taken(range)
  BY DEF AtObject, Selects, Taken

\* What the step that is done with an object changes.
ObjectPassed(a, b, o, selected, gaps) ==
  /\ b.key = a.key /\ b.state = a.state /\ b.current = NoPage /\ b.prior = o.id
  /\ b.complete = a.complete /\ b.objectCursor = a.objectCursor /\ b.objects = a.objects
  /\ b.pendingObjects = a.pendingObjects /\ b.textCursor = a.textCursor /\ b.target = a.target
  /\ b.text = a.text /\ b.pendingText = a.pendingText /\ b.phase = a.phase /\ b.breaks = a.breaks
  /\ b.open = a.open /\ b.page = a.page /\ b.chain = a.chain /\ b.building = a.building
  /\ b.startMet = (a.startMet \/ o.at = a.key.selection.start.at)
  /\ b.endMet = (a.endMet \/ o.at = a.key.selection.end.at)
  /\ b.startProven = (a.startProven \/ a.key.selection.start \in gaps)
  /\ b.endProven = (a.endProven \/ a.key.selection.end \in gaps)
  /\ b.output = (IF selected THEN a.output \o o.copy ELSE a.output)
  /\ b.builder = (IF selected /\ a.building
                  THEN Append(a.builder, Item(o.id, Len(a.output), Len(a.output) + Len(o.copy)))
                  ELSE a.builder)
  /\ b.count = (IF selected /\ a.building THEN a.count + 1 ELSE a.count)

LEMMA PassedFacts ==
  ASSUME NEW a, Shaped(a), NEW o, a.current[1] = o, NEW selected, NEW leading, NEW trailing,
         NEW step, step = [do |-> "ProcessObject", selected |-> selected, leading |-> leading, trailing |-> trailing],
         NEW b, b = Successor(a, step)
  PROVE  ObjectPassed(a, b, o, selected, {leading, trailing})
<1>0. PICK y, z, c :
        /\ y = (IF selected THEN a.output \o o.copy ELSE a.output)
        /\ z = (IF selected /\ a.building
                THEN Append(a.builder, Item(o.id, Len(a.output), Len(a.output) + Len(o.copy)))
                ELSE a.builder)
        /\ c = (IF selected /\ a.building THEN a.count + 1 ELSE a.count)
  OBVIOUS
<1>1. PICK u, v, w, x :
        /\ u = (a.startMet \/ o.at = a.key.selection.start.at)
        /\ v = (a.startProven \/ a.key.selection.start \in {leading, trailing})
        /\ w = (a.endMet \/ o.at = a.key.selection.end.at)
        /\ x = (a.endProven \/ a.key.selection.end \in {leading, trailing})
  OBVIOUS
<1>2. b = Processed(a, step)
  BY DEF Successor
<1>3. step.selected = selected /\ step.leading = leading /\ step.trailing = trailing
  OBVIOUS
<1>4. b = [a EXCEPT !.current = NoPage, !.prior = o.id, !.startMet = u, !.startProven = v, !.endMet = w,
                    !.endProven = x, !.output = y, !.builder = z, !.count = c]
  BY <1>0, <1>1, <1>2, <1>3 DEF Processed
<1>5. \A f \in {"key", "state", "complete", "objectCursor", "objects", "pendingObjects", "textCursor", "target",
                 "text", "pendingText", "phase", "breaks", "open", "page", "chain", "building"} : b[f] = a[f]
  BY <1>4 DEF Shaped, ClipFields
<1>6. /\ b.key = a.key /\ b.state = a.state /\ b.complete = a.complete /\ b.objectCursor = a.objectCursor
      /\ b.objects = a.objects /\ b.pendingObjects = a.pendingObjects /\ b.textCursor = a.textCursor
      /\ b.target = a.target /\ b.text = a.text /\ b.pendingText = a.pendingText /\ b.phase = a.phase
      /\ b.breaks = a.breaks /\ b.open = a.open /\ b.page = a.page /\ b.chain = a.chain
      /\ b.building = a.building
  BY <1>5
<1>7. b.current = NoPage /\ b.prior = o.id
  <2>1. b.current = NoPage BY ONLY <1>4, Shaped(a) DEF Shaped, ClipFields
  <2>2. b.prior = o.id BY ONLY <1>4, Shaped(a) DEF Shaped, ClipFields
  <2> QED
    BY <2>1, <2>2
<1>8. b.startMet = u /\ b.endMet = w /\ b.startProven = v /\ b.endProven = x
  <2>1. b.startMet = u BY ONLY <1>4, Shaped(a) DEF Shaped, ClipFields
  <2>2. b.endMet = w BY ONLY <1>4, Shaped(a) DEF Shaped, ClipFields
  <2>3. b.startProven = v BY ONLY <1>4, Shaped(a) DEF Shaped, ClipFields
  <2>4. b.endProven = x BY ONLY <1>4, Shaped(a) DEF Shaped, ClipFields
  <2> QED
    BY <2>1, <2>2, <2>3, <2>4
<1>9. b.output = y /\ b.builder = z /\ b.count = c
  <2>1. b.output = y BY ONLY <1>4, Shaped(a) DEF Shaped, ClipFields
  <2>2. b.builder = z BY ONLY <1>4, Shaped(a) DEF Shaped, ClipFields
  <2>3. b.count = c BY ONLY <1>4, Shaped(a) DEF Shaped, ClipFields
  <2> QED
    BY <2>1, <2>2, <2>3
<1> QED
  BY <1>0, <1>1, <1>5, <1>6, <1>7, <1>8, <1>9 DEF ObjectPassed

\* The i-th object is passed, with its copy if it is taken.
Passing(a, b, range, i) ==
  /\ AtObject(a, range, i) /\ Ready(a) /\ ~Full(a) /\ Between(a)
  /\ Done(b) = i /\ b.key = a.key
  /\ \E selected : ObjectPassed(a, b, Objects[i], selected, {Lead(i), Trail(i)}) /\ (selected <=> i \in Taken(range))
  /\ i \in Taken(range) =>
       /\ a.phase # "Classifying" /\ (policy.items # 0 => a.building)
       /\ ~(Len(a.output) + Len(Objects[i].copy) > MaxBytes)

LEMMA PassingObjects ==
  ASSUME NEW a, NEW b, NEW range, NEW i, Merging(a), Passing(a, b, range, i)
  PROVE  ObjectsInTurn(b)
<1>1. ObjectsInTurn(a)
  BY DEF Merging
<1>2. /\ range = a.key.selection /\ i = Done(a) + 1 /\ i \in (Outset(range) + 1)..Ending(range)
      /\ a.current # NoPage /\ Objects[i].id = i
  BY ObjectFacts DEF Passing, AtObject, Ready
<1>3. /\ b.current = NoPage /\ b.prior = i /\ b.complete = a.complete /\ b.objectCursor = a.objectCursor
      /\ b.objects = a.objects /\ b.pendingObjects = a.pendingObjects /\ b.key = a.key /\ b.state = a.state
  BY <1>2 DEF Passing, ObjectPassed
<1>4. Reached(b) = i /\ Reached(a) = i
  BY <1>2, <1>3 DEF Reached, Passing
<1> QED
  BY <1>1, <1>2, <1>3, <1>4 DEF ObjectsInTurn

LEMMA PassingText ==
  ASSUME NEW a, NEW b, NEW range, NEW i, Merging(a), Passing(a, b, range, i)
  PROVE  TextInTurn(b)
<1>1. TextInTurn(a)
  BY DEF Merging
<1>2. /\ range = a.key.selection /\ range \in Selections /\ i = Done(a) + 1 /\ i \in (Outset(range) + 1)..Ending(range)
      /\ a.textCursor = Objects[i].at /\ Done(b) = i /\ i \in 1..Len(Objects)
  BY DEF Passing, AtObject
<1>3. /\ b.textCursor = a.textCursor /\ b.target = a.target /\ b.text = a.text /\ b.pendingText = a.pendingText
      /\ b.key = a.key /\ b.state = a.state /\ a.text = NoPage /\ a.pendingText = Null
  BY DEF Passing, ObjectPassed, Between
<1>4. Done(a) \in Nat /\ Ending(range) \in Nat /\ i \in (Done(a) + 1)..Ending(range)
  BY <1>2, ReachedFacts
<1>5. b.state \notin {"CollectingText", "TextPagePending"}
  <2> SUFFICES ASSUME Targets(a) PROVE FALSE
    BY <1>1, <1>3 DEF TextInTurn
  <2>1. a.target \in (a.textCursor + 1)..range.end.at /\ a.target <= Objects[i].at
    BY <1>2, <1>4 DEF Targets
  <2>2. PICK c, g, e : c = a.textCursor /\ g = a.target /\ e = range.end.at
    OBVIOUS
  <2>3. c \in Nat /\ e \in Nat
    BY <1>2, <2>2, PlaceFacts, SelectionFacts
  <2> QED
    BY <1>2, <2>1, <2>2, <2>3
<1>6. \A k \in (i + 1)..Ending(range) : k \in (Done(a) + 1)..Ending(range)
  BY <1>2, <1>4
<1>7. \A k \in Taken(range) : k <= i => Objects[k].at <= a.textCursor
  <2> SUFFICES ASSUME NEW k \in Taken(range), k <= i PROVE Objects[k].at <= a.textCursor
    OBVIOUS
  <2>1. k \in 1..Len(Objects)
    BY <1>2, TakenWithin
  <2> QED
    BY <1>2, <2>1, ObjectFacts
<1> QED
  BY <1>1, <1>2, <1>3, <1>5, <1>6, <1>7 DEF TextInTurn

LEMMA PassingOutput ==
  ASSUME NEW a, NEW b, NEW range, NEW i, Merging(a), Passing(a, b, range, i)
  PROVE  OutputInTurn(b) /\ (i \in Taken(range) => b.output = a.output \o Objects[i].copy)
         /\ (i \notin Taken(range) => b.output = a.output)
<1>1. OutputInTurn(a)
  BY DEF Merging
<1>2. /\ range = a.key.selection /\ range \in Selections /\ i = Done(a) + 1 /\ i \in 1..Len(Objects)
      /\ a.textCursor = Objects[i].at /\ Done(b) = i
  BY DEF Passing, AtObject
<1>3. /\ b.textCursor = a.textCursor /\ b.text = a.text /\ b.key = a.key /\ b.phase = a.phase
      /\ b.breaks = a.breaks /\ b.open = a.open /\ a.text = NoPage
      /\ b.output = IF i \in Taken(range) THEN a.output \o Objects[i].copy ELSE a.output
  BY DEF Passing, ObjectPassed, Between
<1>4. i \in Taken(range) =>
        a.phase # "Classifying" /\ ~(Len(a.output) + Len(Objects[i].copy) > MaxBytes)
  BY DEF Passing
<1>5. PICK p, d : p = a.textCursor /\ d = Done(a)
  OBVIOUS
<1>6. /\ p \in Nat /\ d \in Nat /\ range.start.at <= p /\ p <= range.end.at /\ d \in 0..Len(Objects)
      /\ Cursor(a) = p /\ Cursor(b) = p /\ Read(a) = p /\ Read(b) = p
  BY <1>2, <1>3, <1>5, PlaceFacts DEF Cursor, Read
<1>7. a.output \in Seq(Nat) /\ Objects[i].copy \in Seq(Nat)
  BY <1>2, OutputIn, ObjectFacts
<1>8. Len(b.output) <= MaxBytes
  <2>1. CASE i \in Taken(range)
    <3>1. Len(b.output) = Len(a.output) + Len(Objects[i].copy)
      BY <1>3, <1>7, <2>1, TextAt
    <3>2. PICK m, n : m = Len(a.output) /\ n = Len(Objects[i].copy)
      OBVIOUS
    <3>3. m \in Nat /\ n \in Nat
      BY ONLY <1>7, <3>2
    <3>4. ~(m + n > MaxBytes) /\ Len(b.output) = m + n
      BY <1>4, <2>1, <3>1, <3>2
    <3> QED
      BY ONLY <3>3, <3>4, BoundsFacts
  <2>2. CASE i \notin Taken(range)
    BY <1>1, <1>3, <2>2 DEF OutputInTurn
  <2> QED
    BY <2>1, <2>2
<1>9. CASE a.phase = "Classifying"
  <2>1. i \notin Taken(range)
    BY <1>4, <1>9
  <2>2. \A k \in Taken(range) : k > i
    <3> SUFFICES ASSUME NEW k \in Taken(range) PROVE k > i
      OBVIOUS
    <3>1. k > d /\ k # i /\ k \in Nat
      BY <1>1, <1>2, <1>5, <1>9, <2>1, TakenWithin DEF OutputInTurn
    <3> QED
      BY <1>2, <1>5, <1>6, <3>1
  <2> QED
    BY <1>1, <1>2, <1>3, <1>8, <1>9, <2>1, <2>2 DEF OutputInTurn
<1>10. CASE a.phase = "Collecting"
  <2>1. MergedTo(range, Taken(range), p, d + 1) =
          MergedTo(range, Taken(range), p, d) \o IF d + 1 \in Taken(range) THEN Objects[d + 1].copy ELSE <<>>
    <3>1. PICK S : S = Taken(range)
      OBVIOUS
    <3>2. MergesNext(range, S, p, d)
      BY <1>2, <1>5, <1>6 DEF MergesNext
    <3>3. MergedTo(range, S, p, d + 1) =
            MergedTo(range, S, p, d) \o IF d + 1 \in S THEN Objects[d + 1].copy ELSE <<>>
      BY ONLY <3>2, MergedObject
    <3> QED
      BY <3>1, <3>3
  <2>2. a.output = MergedTo(range, Taken(range), p, d)
    BY <1>1, <1>2, <1>5, <1>6, <1>10 DEF OutputInTurn
  <2>3. b.output = MergedTo(range, Taken(range), p, i)
    <3>1. a.output \o <<>> = a.output
      BY <1>7, ConcatNone
    <3> QED
      BY <1>2, <1>3, <1>5, <2>1, <2>2, <3>1
  <2>4. /\ a.breaks = LineBreaks(range.start.at, p)
        /\ policy.atoms = "Propagate" => Taken(range) = {} /\ Unmarked(range, range.end.at)
        /\ OpenAt(a.open, range, p)
    BY <1>1, <1>2, <1>6, <1>10 DEF OutputInTurn, OpenAt
  <2> QED
    BY <1>2, <1>3, <1>6, <1>8, <1>10, <2>3, <2>4 DEF OutputInTurn, OpenAt
<1> QED
  BY <1>1, <1>3, <1>9, <1>10 DEF OutputInTurn

LEMMA PassingEnds ==
  ASSUME NEW a, NEW b, NEW range, NEW i, Merging(a), Passing(a, b, range, i)
  PROVE  EndsInTurn(b)
<1>1. EndsInTurn(a)
  BY DEF Merging
<1>2. /\ range = a.key.selection /\ i = Done(a) + 1 /\ i \in (Outset(range) + 1)..Ending(range)
      /\ Done(b) = i /\ b.key = a.key
  BY DEF Passing, AtObject
<1>3. /\ b.startMet = (a.startMet \/ Objects[i].at = range.start.at)
      /\ b.endMet = (a.endMet \/ Objects[i].at = range.end.at)
      /\ b.startProven = (a.startProven \/ range.start \in {Lead(i), Trail(i)})
      /\ b.endProven = (a.endProven \/ range.end \in {Lead(i), Trail(i)})
  BY <1>2 DEF Passing, ObjectPassed
<1>4. PICK f, d : f = Outset(range) /\ d = Done(a) /\ f \in Nat /\ d \in Nat /\ f <= d
  BY <1>2, ReachedFacts
<1>5. (f + 1)..i = (f + 1)..d \cup {i}
  BY <1>2, <1>4
<1> QED
  BY <1>1, <1>2, <1>3, <1>4, <1>5 DEF EndsInTurn

LEMMA AppendConcat ==
  ASSUME NEW s \in Seq(ItemSpace), NEW t \in Seq(ItemSpace), NEW x \in ItemSpace
  PROVE  s \o Append(t, x) = Append(s \o t, x)
<1>1. Append(t, x) = t \o <<x>> /\ <<x>> \in Seq(ItemSpace)
  OBVIOUS
<1>2. s \o t \in Seq(ItemSpace)
  OBVIOUS
<1>3. Append(s \o t, x) = (s \o t) \o <<x>>
  BY <1>2
<1> QED
  BY <1>1, <1>3, ConcatTwice

\* A list of items with one more.
LEMMA ItemAppended ==
  ASSUME NEW s \in Seq(ItemSpace), NEW x \in ItemSpace
  PROVE  /\ Append(s, x) \in Seq(ItemSpace) /\ Len(Append(s, x)) = Len(s) + 1 /\ Len(s) \in Nat
         /\ Append(s, x) # <<>>
         /\ \A k \in DOMAIN Append(s, x) : Append(s, x)[k] = x \/ (k \in DOMAIN s /\ Append(s, x)[k] = s[k])
<1>1. Append(s, x) \in Seq(ItemSpace) /\ Len(Append(s, x)) = Len(s) + 1 /\ Len(s) \in Nat
  OBVIOUS
<1>2. DOMAIN Append(s, x) = 1..(Len(s) + 1) /\ DOMAIN s = 1..Len(s)
  BY <1>1
<1>3. \A k \in 1..Len(s) : Append(s, x)[k] = s[k]
  OBVIOUS
<1>4. Append(s, x)[Len(s) + 1] = x
  OBVIOUS
<1>5. \A k \in 1..(Len(s) + 1) : k \in 1..Len(s) \/ k = Len(s) + 1
  BY <1>1
<1>6. \A k \in DOMAIN Append(s, x) : Append(s, x)[k] = x \/ (k \in DOMAIN s /\ Append(s, x)[k] = s[k])
  <2> SUFFICES ASSUME NEW k \in 1..(Len(s) + 1)
               PROVE  Append(s, x)[k] = x \/ (k \in DOMAIN s /\ Append(s, x)[k] = s[k])
    BY <1>2
  <2>1. CASE k \in 1..Len(s)
    BY <1>2, <1>3, <2>1
  <2>2. CASE k = Len(s) + 1
    BY <1>4, <2>2
  <2> QED
    BY <1>5, <2>1, <2>2
<1>7. Append(s, x) # <<>>
  BY <1>1
<1> QED
  BY <1>1, <1>6, <1>7

\* Every page but the last is full, and while an object is left that one too.
LEMMA PagesFull ==
  ASSUME NEW a, ProvenanceInTurn(a), policy.items # 0, Done(a) # Ending(a.key.selection)
  PROVE  \A i \in 1..Len(Pages(a)) : Len(Pages(a)[i]) = policy.items
  BY DEF ProvenanceInTurn

\* The builder has room for the item of one object more.
LEMMA BuilderRoom ==
  ASSUME policy \in Policies, NEW n \in Nat, n <= policy.items, n # policy.items
  PROVE  n + 1 <= policy.items
<1>1. policy.items \in Nat
  BY LimitsAssumption DEF PolicySpace
<1> QED
  BY <1>1

LEMMA PassingProvenance ==
  ASSUME NEW a, NEW b, NEW range, NEW i, Merging(a), Passing(a, b, range, i)
  PROVE  ProvenanceInTurn(b)
<1>1. ProvenanceInTurn(a)
  BY DEF Merging
<1>2. /\ range = a.key.selection /\ b.key = a.key /\ i = Done(a) + 1 /\ i \in 1..Len(Objects)
      /\ i \in (Outset(range) + 1)..Ending(range) /\ Done(b) = i /\ Objects[i].id = i
  BY ObjectFacts DEF Passing, AtObject
<1>3. a.state # "AwaitingProvenancePage" /\ ~Full(a)
  BY DEF Passing, Between
<1>4. /\ b.state = a.state /\ b.page = a.page /\ b.chain = a.chain /\ b.building = a.building
      /\ i \in Taken(range) /\ a.building =>
           /\ b.builder = Append(a.builder, Item(i, Len(a.output), Len(a.output) + Len(Objects[i].copy)))
           /\ b.count = a.count + 1
      /\ ~(i \in Taken(range) /\ a.building) => b.builder = a.builder /\ b.count = a.count
  BY <1>2 DEF Passing, ObjectPassed
<1>5. IF b.state = "AwaitingProvenancePage" THEN b.page = <<b.page[1]>> ELSE b.page = NoPage
  BY <1>1, <1>3, <1>4 DEF ProvenanceInTurn
<1>6. CASE policy.items = 0
  BY <1>5, <1>6 DEF ProvenanceInTurn
<1>7. CASE policy.items # 0
  <2>1. /\ a.builder \in Seq(ItemSpace) /\ Pages(a) \in Seq(Seq(ItemSpace)) /\ a.chain \in Seq(Seq(ItemSpace))
        /\ [k \in DOMAIN Items(a) |-> Items(a)[k].object] = Listing(Taken(range), Done(a))
        /\ \A k \in DOMAIN Items(a) : Names(Items(a)[k], a.output)
        /\ a.count = Len(Items(a)) /\ (a.builder # <<>> => a.building) /\ Len(a.builder) <= policy.items
    BY <1>1, <1>2, <1>7 DEF ProvenanceInTurn
  <2>2. Pages(b) = Pages(a)
    BY <1>4 DEF Pages
  <2>3. \A k \in 1..Len(Pages(b)) : Len(Pages(b)[k]) = policy.items
    <3>1. Done(a) # Ending(a.key.selection)
      <4>1. PICK d, l : d = Done(a) /\ l = Ending(range) /\ d \in Nat /\ l \in Nat
        BY <1>2, ReachedFacts
      <4> QED
        BY <1>2, <4>1
    <3> QED
      BY <1>1, <1>7, <2>2, <3>1, PagesFull
  <2>4. PICK s, d : s = Items(a) /\ d = Done(a) /\ s \in Seq(ItemSpace) /\ d \in Nat
    BY <2>1, ItemsIn, ReachedFacts
  <2>5. CASE i \notin Taken(range)
    <3>1. b.builder = a.builder /\ b.count = a.count /\ b.output = a.output
      BY <1>4, <2>5, PassingOutput
    <3>2. Items(b) = Items(a)
      BY <2>2, <3>1 DEF Items
    <3>3. Listing(Taken(range), Done(b)) = Listing(Taken(range), Done(a))
      BY <1>2, <2>4, <2>5, ListingNext
    <3> QED
      BY <1>2, <1>4, <1>5, <1>7, <2>1, <2>2, <2>3, <3>1, <3>2, <3>3 DEF ProvenanceInTurn
  <2>6. CASE i \in Taken(range)
    <3>1. a.building /\ b.output = a.output \o Objects[i].copy
      <4>1. a.building
        <5>1. i \in Taken(range) => (policy.items # 0 => a.building)
          BY DEF Passing
        <5> QED
          BY ONLY <1>7, <2>6, <5>1
      <4>2. i \in Taken(range) => b.output = a.output \o Objects[i].copy
        BY ONLY Merging(a), Passing(a, b, range, i), PassingOutput, ZenonT(40)
      <4> QED
        BY <2>6, <4>1, <4>2
    <3>2. PICK x, o, c : /\ x = Item(i, Len(o), Len(o) + Len(c)) /\ o = a.output /\ c = Objects[i].copy
                         /\ o \in Seq(Nat) /\ c \in Seq(Nat)
      <4>1. PICK o, c : o = a.output /\ c = Objects[i].copy
        OBVIOUS
      <4>2. o \in Seq(Nat) /\ c \in Seq(Nat)
        BY <1>2, <4>1, OutputIn, ObjectFacts
      <4> QED
        BY ONLY <4>1, <4>2
    <3>3. x \in ItemSpace /\ Names(x, b.output) /\ x.object = i
      <4>1. x.object = i
        BY <3>2 DEF Item
      <4> QED
        BY <1>2, <3>1, <3>2, <4>1, CopyNamed
    <3>4. b.builder = Append(a.builder, x) /\ b.count = a.count + 1
      BY <1>4, <2>6, <3>1, <3>2
    <3>5. Items(b) = Append(s, x)
      <4>1. PICK m : m = Chained(Pages(a), Len(Pages(a))) /\ m \in Seq(ItemSpace)
        BY <2>1, ItemsIn
      <4>2. m \o Append(a.builder, x) = Append(m \o a.builder, x)
        BY <2>1, <3>3, <4>1, AppendConcat
      <4> QED
        BY <2>2, <2>4, <3>4, <4>1, <4>2 DEF Items
    <3>6. [k \in DOMAIN Items(b) |-> Items(b)[k].object] = Listing(Taken(range), i)
      <4>1. [k \in DOMAIN Append(s, x) |-> Append(s, x)[k].object] = Append([k \in DOMAIN s |-> s[k].object], i)
        BY <2>4, <3>3, ObjectsListed
      <4>2. Listing(Taken(range), d + 1) = Append(Listing(Taken(range), d), d + 1)
        <5>1. PICK S : S = Taken(range)
          OBVIOUS
        <5>2. d + 1 \in S /\ d \in Nat
          BY <1>2, <2>4, <2>6, <5>1
        <5>3. Listing(S, d + 1) = Append(Listing(S, d), d + 1)
          BY ONLY <5>2, ListingNext
        <5> QED
          BY <5>1, <5>3
      <4>3. [k \in DOMAIN s |-> s[k].object] = Listing(Taken(range), d)
        BY <2>1, <2>4
      <4> QED
        BY <1>2, <2>4, <3>5, <4>1, <4>2, <4>3
    <3>7. \A k \in DOMAIN Items(b) : Names(Items(b)[k], b.output)
      <4> SUFFICES ASSUME NEW k \in DOMAIN Append(s, x) PROVE Names(Append(s, x)[k], b.output)
        BY <3>5
      <4>1. Append(s, x)[k] = x \/ (k \in DOMAIN s /\ Append(s, x)[k] = s[k])
        BY <2>4, <3>3, ItemAppended
      <4>2. CASE k \in DOMAIN s /\ Append(s, x)[k] = s[k]
        <5>1. Names(s[k], o)
          BY <2>1, <2>4, <3>2, <4>2
        <5>2. s[k].start \in Nat /\ s[k].end \in Nat
          BY <2>1, <2>4, <4>2, ItemsIn
        <5>3. Names(s[k], o \o c)
          BY <3>2, <5>1, <5>2, NamesKept
        <5> QED
          BY <3>1, <3>2, <4>2, <5>3
      <4> QED
        BY <3>3, <4>1, <4>2
    <3>8. b.count = Len(Items(b)) /\ b.builder \in Seq(ItemSpace) /\ Len(b.builder) <= policy.items
      <4>1. PICK m, n : m = Len(a.builder) /\ n = Len(s)
        OBVIOUS
      <4>2. Len(b.builder) = m + 1 /\ m \in Nat /\ b.builder \in Seq(ItemSpace)
        BY <2>1, <3>3, <3>4, <4>1, ItemAppended
      <4>3. Len(Items(b)) = n + 1 /\ b.count = n + 1
        BY <2>1, <2>4, <3>3, <3>4, <3>5, <4>1, ItemAppended
      <4>4. m # policy.items /\ m <= policy.items /\ policy \in Policies
        BY <1>3, <1>7, <2>1, <4>1 DEF Full, Merging
      <4>5. m + 1 <= policy.items
        BY ONLY <4>2, <4>4, BuilderRoom
      <4> QED
        BY <4>2, <4>3, <4>5
    <3> QED
      BY <1>2, <1>4, <1>5, <1>7, <2>1, <2>2, <2>3, <3>1, <3>6, <3>7, <3>8 DEF ProvenanceInTurn
  <2> QED
    BY <2>5, <2>6
<1> QED
  BY <1>6, <1>7

LEMMA ObjectDoneStep ==
  ASSUME NEW a, Shaped(a), Merging(a), Between(a), ~Full(a), NEW step, ObjectDone(a, step)
  PROVE  Merging(Successor(a, step))
<1>1. PICK b : b = Successor(a, step)
  OBVIOUS
<1>2. Ready(a) /\ step = ProcessStep(a) /\ a.current # NoPage
  BY DEF ObjectDone, Ready
<1>3. PICK range, i : AtObject(a, range, i)
  BY <1>2, AtObjectFacts
<1>4. /\ range = a.key.selection /\ i = Done(a) + 1 /\ i \in 1..Len(Objects) /\ a.current[1] = Objects[i]
      /\ Objects[i].id = i /\ Leading(a.current[1], a.prior) = Lead(i)
      /\ Trailing(a.current[1], NextObject(a)) = Trail(i)
  BY <1>2, <1>3, ObjectFacts DEF AtObject
<1>5. PICK selected : selected = Selects(a)
  OBVIOUS
<1>6. selected <=> i \in Taken(range)
  BY <1>2, <1>3, <1>5, SelectsTaken
<1>7. step = [do |-> "ProcessObject", selected |-> selected, leading |-> Lead(i), trailing |-> Trail(i)]
  BY <1>2, <1>4, <1>5 DEF ProcessStep
<1>8. ObjectPassed(a, b, Objects[i], selected, {Lead(i), Trail(i)})
  BY <1>1, <1>4, <1>7, PassedFacts
<1>9. Done(b) = i /\ b.key = a.key
  <2>1. b.prior = i /\ b.key = a.key /\ i # Null
    BY <1>4, <1>8 DEF ObjectPassed, Null
  <2> QED
    BY <2>1 DEF Done
<1>10. i \in Taken(range) =>
         /\ a.phase # "Classifying" /\ (policy.items # 0 => a.building)
         /\ ~(Len(a.output) + Len(Objects[i].copy) > MaxBytes)
  BY <1>4, <1>5, <1>6 DEF ObjectDone
<1>11. Passing(a, b, range, i)
  <2>1. \E sel : ObjectPassed(a, b, Objects[i], sel, {Lead(i), Trail(i)}) /\ (sel <=> i \in Taken(range))
    BY ONLY <1>6, <1>8
  <2> QED
    BY <1>2, <1>3, <1>9, <1>10, <2>1 DEF Passing
<1>12. ObjectsInTurn(b) /\ TextInTurn(b) /\ OutputInTurn(b) /\ ProvenanceInTurn(b) /\ EndsInTurn(b)
  <2>1. ObjectsInTurn(b) BY <1>11, PassingObjects
  <2>2. TextInTurn(b) BY <1>11, PassingText
  <2>3. OutputInTurn(b) BY <1>11, PassingOutput
  <2>4. ProvenanceInTurn(b) BY <1>11, PassingProvenance
  <2>5. EndsInTurn(b) BY <1>11, PassingEnds
  <2> QED
    BY <2>1, <2>2, <2>3, <2>4, <2>5
<1>13. policy \in Policies /\ b.key.selection \in Selections
  BY <1>9 DEF Merging
<1> QED
  BY <1>1, <1>12, <1>13 DEF Merging

-----------------------------------------------------------------------------
(* A merge that starts, and one that starts again.                         *)

LEMMA NothingListed ==
  ASSUME NEW S, NEW d \in Nat, \A i \in S : ~(i \in Nat /\ i <= d)
  PROVE  Listing(S, d) = <<>>
<1>1. PICK s : s = [i \in 1..d |-> i]
  OBVIOUS
<1>2. s \in Seq(Nat) /\ Len(s) = d /\ \A i \in 1..Len(s) : s[i] \notin S
  BY <1>1
<1> QED
  BY <1>1, <1>2, KeptNothing DEF Listing

\* When the objects are done the text is at its end.
LEMMA AllDoneFacts ==
  ASSUME NEW a, Merging(a), AllDone(a), NEW range, range = a.key.selection
  PROVE  /\ Done(a) = Ending(range) /\ a.textCursor = range.end.at /\ a.pendingObjects = Null
         /\ \A i \in Taken(range) : i <= Done(a)
<1>1. ObjectsInTurn(a) /\ TextInTurn(a)
  BY DEF Merging
<1>2. Done(a) = Ending(range) /\ a.pendingObjects = Null
  BY <1>1 DEF ObjectsInTurn, AllDone, Reached
<1>3. a.textCursor = range.end.at
  <2>1. PICK c, e : c = a.textCursor /\ e = range.end.at
    OBVIOUS
  <2>2. c \in Nat /\ e \in Nat /\ c <= e /\ ~(c < e)
    <3>1. c \in Nat /\ e \in Nat /\ c <= e
      <4>1. range \in Selections /\ range.start.at \in Nat /\ e \in Nat
        BY <2>1, SelectionFacts DEF Merging
      <4> QED
        BY <1>1, <2>1, <4>1 DEF TextInTurn
    <3> QED
      BY <2>1, <3>1 DEF AllDone
  <2> QED
    BY <2>1, <2>2
<1>4. \A i \in Taken(range) : i <= Done(a)
  <2>1. range \in Selections
    BY DEF Merging
  <2> QED
    BY <1>2, <2>1, TakenWithin, OutsetFacts
<1> QED
  BY <1>2, <1>3, <1>4

LEMMA RestartedFacts ==
  ASSUME NEW a, Shaped(a), NEW b, b = Restarted(a)
  PROVE  /\ SameObjects(a, b) /\ SameProvenance(a, b) /\ SameEnds(a, b)
         /\ b.text = a.text /\ b.pendingText = a.pendingText /\ b.building = a.building /\ b.kind = a.kind
         /\ b.state = "CollectingText" /\ b.phase = "Collecting"
         /\ b.textCursor = a.key.selection.start.at /\ b.target = a.key.selection.end.at
         /\ b.output = <<>> /\ b.open = Null /\ b.breaks = 0
<1>1. SameObjects(a, b)
  BY DEF Shaped, ClipFields, SameObjects, Restarted
<1>2. SameProvenance(a, b)
  BY DEF Shaped, ClipFields, SameProvenance, Restarted
<1>3. SameEnds(a, b)
  BY DEF Shaped, ClipFields, SameEnds, Restarted
<1>4. b.text = a.text /\ b.pendingText = a.pendingText /\ b.building = a.building /\ b.kind = a.kind
  BY DEF Shaped, ClipFields, Restarted
<1>5. b.state = "CollectingText" /\ b.phase = "Collecting" /\ b.textCursor = a.key.selection.start.at
  BY DEF Shaped, ClipFields, Restarted
<1>6. b.target = a.key.selection.end.at /\ b.output = <<>> /\ b.open = Null /\ b.breaks = 0
  BY DEF Shaped, ClipFields, Restarted
<1> QED
  BY <1>1, <1>2, <1>3, <1>4, <1>5, <1>6

\* The text collected from its start: nothing of it is special, and no object was taken.
LEMMA RestartedHolds ==
  ASSUME NEW a, Shaped(a), Merging(a), Between(a), AllDone(a), ~HasItems(a), a.phase = "Classifying",
         NEW b, b = Restarted(a)
  PROVE  /\ ObjectsInTurn(b) /\ OutputInTurn(b) /\ ProvenanceInTurn(b) /\ EndsInTurn(b)
         /\ a.key.selection.start.at # a.key.selection.end.at => TextInTurn(b)
<1>1. ObjectsInTurn(a) /\ TextInTurn(a) /\ OutputInTurn(a) /\ ProvenanceInTurn(a) /\ EndsInTurn(a)
  BY DEF Merging
<1>2. PICK range, d : range = a.key.selection /\ d = Done(a)
  OBVIOUS
<1>3. /\ range \in Selections /\ d = Ending(range) /\ a.textCursor = range.end.at /\ a.pendingObjects = Null
      /\ d \in Nat /\ d \in 0..Len(Objects) /\ Len(Objects) \in Nat
      /\ \A i \in Taken(range) : i <= d
  <2>1. range \in Selections /\ d \in Nat /\ d \in 0..Len(Objects) /\ Len(Objects) \in Nat
    BY <1>2, PlaceFacts, SourceFacts
  <2> QED
    BY <1>2, <2>1, AllDoneFacts
<1>4. \A i \in Taken(range) : i > d
  BY <1>1, <1>2 DEF OutputInTurn
<1>5. Taken(range) = {}
  <2> SUFFICES ASSUME NEW i \in Taken(range) PROVE FALSE
    OBVIOUS
  <2>1. i \in Nat /\ i <= d /\ i > d
    BY <1>3, <1>4, TakenWithin
  <2> QED
    BY <1>3, <2>1
<1>6. /\ SameObjects(a, b) /\ SameProvenance(a, b) /\ SameEnds(a, b)
      /\ b.text = NoPage /\ b.pendingText = Null /\ b.building = a.building
      /\ b.state = "CollectingText" /\ b.phase = "Collecting" /\ b.key = a.key
      /\ b.textCursor = range.start.at /\ b.target = range.end.at
      /\ b.output = <<>> /\ b.open = Null /\ b.breaks = 0
  BY <1>2, RestartedFacts DEF Between, SameObjects
<1>7. Done(b) = d /\ Pages(b) = Pages(a) /\ Items(b) = Items(a)
  BY <1>2, <1>6, ItemsSame
<1>8. /\ range.start.at \in Nat /\ range.end.at \in Nat /\ range.start.at <= range.end.at
  BY <1>3, SelectionFacts
<1>9. ObjectsInTurn(b)
  <2>1. b.pendingObjects = Null
    BY <1>3, <1>6 DEF SameObjects
  <2> QED
    BY <1>1, <1>6, <2>1, ObjectsKept
<1>10. OutputInTurn(b)
  <2>1. Cursor(b) = range.start.at /\ Read(b) = range.start.at
    BY <1>6 DEF Cursor, Read
  <2>2. MergedTo(range, Taken(range), range.start.at, d) = <<>>
    <3>1. PICK S : S = Taken(range) /\ S = {}
      BY <1>5
    <3> QED
      BY <1>3, <3>1, MergedStart
  <2>3. LineBreaks(range.start.at, range.start.at) = 0
    BY <1>8, BreaksFacts
  <2>4. \A j \in 1..Len(Atoms) : ~Opened(range, range.start.at, j)
    <3> SUFFICES ASSUME NEW j \in 1..Len(Atoms), Opened(range, range.start.at, j) PROVE FALSE
      OBVIOUS
    <3>1. Atoms[j].lo \in Nat /\ range.start.at <= Atoms[j].lo /\ Atoms[j].lo < range.start.at
      BY AtomFacts DEF Opened
    <3> QED
      BY <1>8, <3>1
  <2>5. Len(<<>>) <= MaxBytes
    BY BoundsFacts
  <2>6. Unmarked(range, range.end.at)
    BY <1>1, <1>2, <1>3 DEF OutputInTurn
  <2> QED
    BY <1>2, <1>5, <1>6, <1>7, <2>1, <2>2, <2>3, <2>4, <2>5, <2>6 DEF OutputInTurn
<1>11. ProvenanceInTurn(b)
  <2>1. a.page = NoPage /\ b.page = NoPage
    BY <1>1, <1>6 DEF ProvenanceInTurn, Between, SameProvenance
  <2>2. CASE policy.items = 0
    BY <1>6, <2>1, <2>2 DEF ProvenanceInTurn
  <2>3. CASE policy.items # 0
    <3>1. /\ a.builder \in Seq(ItemSpace) /\ Pages(a) \in Seq(Seq(ItemSpace)) /\ a.chain \in Seq(Seq(ItemSpace))
          /\ [i \in DOMAIN Items(a) |-> Items(a)[i].object] = Listing(Taken(range), d)
          /\ a.count = Len(Items(a))
          /\ (a.builder # <<>> => a.building) /\ Len(a.builder) <= policy.items
          /\ \A i \in 1..Len(Pages(a)) :
               \/ Len(Pages(a)[i]) = policy.items
               \/ i = Len(Pages(a)) /\ a.builder = <<>> /\ Done(a) = Ending(a.key.selection)
      BY <1>1, <1>2, <2>3 DEF ProvenanceInTurn
    <3>2. Listing(Taken(range), d) = <<>>
      BY <1>3, <1>5, NothingListed
    <3>3. DOMAIN Items(a) = {}
      <4>1. DOMAIN [i \in DOMAIN Items(a) |-> Items(a)[i].object] = DOMAIN <<>>
        BY <3>1, <3>2
      <4> QED
        BY <4>1
    <3> QED
      BY <1>2, <1>6, <1>7, <2>1, <2>3, <3>1, <3>3 DEF ProvenanceInTurn, SameProvenance
  <2> QED
    BY <2>2, <2>3
<1>12. EndsInTurn(b)
  BY <1>1, <1>6, EndsKept
<1>13. ASSUME range.start.at # range.end.at PROVE TextInTurn(b)
  <2>1. (d + 1)..Ending(range) = {}
    BY <1>3
  <2>2. range.end.at \in (range.start.at + 1)..range.end.at
    BY <1>8, <1>13
  <2>3. Targets(b)
    BY <1>2, <1>6, <1>7, <2>1, <2>2 DEF Targets
  <2>4. ~Full(b)
    <3>1. b.builder = <<>>
      BY <1>6 DEF HasItems, SameProvenance
    <3> QED
      BY <3>1 DEF Full
  <2>5. range.start.at \in range.start.at..range.end.at
    BY <1>8
  <2> QED
    BY <1>2, <1>5, <1>6, <1>7, <2>1, <2>3, <2>4, <2>5 DEF TextInTurn
<1> QED
  BY <1>2, <1>9, <1>10, <1>11, <1>12, <1>13

\* An operation that has done nothing yet.
New(a, key) ==
  /\ a.state = "CollectingObjects" /\ a.key = key
  /\ a.phase = (IF policy.atoms = "Propagate" THEN "Classifying" ELSE "Collecting")
  /\ a.textCursor = key.selection.start.at /\ a.pendingText = Null /\ a.pendingObjects = Null
  /\ a.objectCursor = Null /\ a.complete = FALSE /\ a.prior = Null /\ a.current = NoPage
  /\ a.text = NoPage /\ a.objects = NoPage
  /\ a.startProven = FALSE /\ a.endProven = FALSE /\ a.startMet = FALSE /\ a.endMet = FALSE
  /\ a.output = <<>> /\ a.open = Null /\ a.breaks = 0 /\ a.builder = <<>> /\ a.page = NoPage
  /\ a.chain = <<>> /\ a.count = 0

LEMMA BegunFacts ==
  ASSUME NEW kind, NEW key
  PROVE  New(Begun(kind, key), key)
  BY DEF Begun, New

\* A merge starts at the start of its selection, with its first object to come.
LEMMA BegunHolds ==
  ASSUME policy \in Policies, NEW key, key.selection \in Selections, NEW a, New(a, key)
  PROVE  Merging(a)
<1>1. PICK range, f : range = key.selection /\ f = Outset(range)
  OBVIOUS
<1>2. /\ range \in Selections /\ range.start.at \in Nat /\ range.end.at \in Nat /\ range.start.at <= range.end.at
      /\ f \in Nat /\ f \in 0..Len(Objects) /\ Len(Objects) \in Nat /\ f <= Ending(range) /\ Ending(range) \in Nat
      /\ Ending(range) <= Len(Objects)
  <2>1. range \in Selections
    BY <1>1
  <2>2. Len(Objects) \in Nat
    BY SourceFacts
  <2>3. f \in Nat /\ Ending(range) \in Nat /\ f <= Ending(range) /\ Ending(range) <= Len(Objects)
    BY <1>1, <2>1, OutsetFacts
  <2>4. f \in 0..Len(Objects)
    BY <2>2, <2>3
  <2> QED
    BY <2>1, <2>2, <2>3, <2>4, SelectionFacts
<1>3. a.key.selection = range /\ Done(a) = f
  BY <1>1 DEF New, Done
<1>4. Cursor(a) = range.start.at /\ Read(a) = range.start.at /\ Reached(a) = f
  BY <1>1, <1>3 DEF New, Cursor, Read, Reached
<1>5. \A i \in Taken(range) : i \in Nat /\ ~(i <= f) /\ i > f
  <2> SUFFICES ASSUME NEW i \in Taken(range) PROVE i \in Nat /\ ~(i <= f) /\ i > f
    OBVIOUS
  <2>1. i \in (f + 1)..Ending(range)
    BY <1>1, <1>2, TakenWithin
  <2> QED
    BY <1>2, <2>1
<1>6. ObjectsInTurn(a)
  BY <1>1, <1>3, <1>4 DEF New, ObjectsInTurn
<1>7. TextInTurn(a)
  <2>1. \A i \in (f + 1)..Ending(range) : range.start.at <= Objects[i].at
    <3> SUFFICES ASSUME NEW i \in (f + 1)..Ending(range) PROVE range.start.at <= Objects[i].at
      OBVIOUS
    <3>1. i \in 1..Len(Objects) /\ ~(i <= f)
      BY <1>2
    <3>2. ~(Objects[i].at < range.start.at) /\ Objects[i].at \in Nat
      BY <1>1, <1>2, <3>1, OutsetFacts, ObjectFacts
    <3> QED
      BY <1>2, <3>2
  <2>2. range.start.at \in range.start.at..range.end.at
    BY <1>2
  <2> QED
    BY <1>1, <1>3, <1>5, <2>1, <2>2 DEF New, TextInTurn
<1>8. OutputInTurn(a)
  <2>1. MergedTo(range, Taken(range), range.start.at, f) = <<>>
    <3>1. PICK S : S = Taken(range)
      OBVIOUS
    <3>2. \A i \in S : ~(i <= f)
      BY <1>5, <3>1
    <3> QED
      BY <1>2, <3>1, <3>2, MergedStart
  <2>0. range.start.at \in Nat /\ range.start.at <= range.start.at
    BY <1>2
  <2>2. LineBreaks(range.start.at, range.start.at) = 0
    BY ONLY <2>0, BreaksFacts
  <2>3. \A j \in 1..Len(Atoms) : ~Opened(range, range.start.at, j)
    <3> SUFFICES ASSUME NEW j \in 1..Len(Atoms), Opened(range, range.start.at, j) PROVE FALSE
      OBVIOUS
    <3>1. Atoms[j].lo \in Nat /\ range.start.at <= Atoms[j].lo /\ Atoms[j].lo < range.start.at
      BY AtomFacts DEF Opened
    <3> QED
      BY <1>2, <3>1
  <2>4. Len(<<>>) <= MaxBytes
    BY BoundsFacts
  <2>5. Unmarked(range, range.start.at)
    BY <1>2 DEF Unmarked
  <2>6. CASE policy.atoms = "Propagate"
    <3>1. a.phase = "Classifying"
      BY <2>6 DEF New
    <3> QED
      BY <1>1, <1>3, <1>5, <2>4, <2>5, <2>6, <3>1 DEF New, OutputInTurn
  <2>7. CASE policy.atoms # "Propagate"
    <3>1. a.phase = "Collecting"
      BY <2>7 DEF New
    <3> QED
      BY <1>1, <1>3, <1>4, <2>1, <2>2, <2>3, <2>4, <2>7, <3>1 DEF New, OutputInTurn
  <2> QED
    BY <2>6, <2>7
<1>9. ProvenanceInTurn(a)
  <2>1. /\ <<>> \in Seq(ItemSpace) /\ <<>> \in Seq(Seq(ItemSpace)) /\ Len(<<>>) = 0
        /\ <<>> \o <<>> = <<>>
    <3>1. <<>> \in Seq(ItemSpace) /\ <<>> \in Seq(Seq(ItemSpace)) /\ Len(<<>>) = 0
      OBVIOUS
    <3> QED
      BY <3>1, EmptyText, ConcatNone
  <2>2. Pages(a) = <<>>
    BY <2>1 DEF New, Pages, NoPage
  <2>3. Items(a) = <<>>
    BY <2>1, <2>2, ChainedNone DEF Items, New
  <2>4. Listing(Taken(range), f) = <<>>
    BY <1>2, <1>5, NothingListed
  <2>5. [i \in DOMAIN Items(a) |-> Items(a)[i].object] = <<>> /\ DOMAIN Items(a) = {}
    BY <2>3
  <2>6. 0 <= policy.items
    BY LimitsAssumption DEF PolicySpace
  <2> QED
    BY <1>3, <2>1, <2>2, <2>3, <2>4, <2>5, <2>6 DEF New, ProvenanceInTurn
<1>10. EndsInTurn(a)
  <2>1. (f + 1)..f = {}
    BY <1>2
  <2> QED
    BY <1>1, <1>3, <2>1 DEF New, EndsInTurn
<1> QED
  BY <1>1, <1>3, <1>6, <1>7, <1>8, <1>9, <1>10 DEF Merging

-----------------------------------------------------------------------------
(* Pages asked for, and what the host answers.                             *)

LEMMA TextAsked ==
  ASSUME NEW a, Shaped(a), Merging(a), a.state = "CollectingText", NEW n, NEW m,
         NEW b, b = [a EXCEPT !.state = "TextPagePending", !.asks = n, !.pendingText = m]
  PROVE  Merging(b)
<1>1. ObjectsInTurn(a) /\ TextInTurn(a) /\ OutputInTurn(a) /\ ProvenanceInTurn(a) /\ EndsInTurn(a)
  BY DEF Merging
<1>2. /\ b.key = a.key /\ b.state = "TextPagePending" /\ b.text = a.text /\ b.textCursor = a.textCursor
      /\ b.target = a.target /\ b.prior = a.prior
  BY DEF Shaped, ClipFields
<1>3. SameObjects(a, b)
  BY DEF Shaped, ClipFields, SameObjects
<1>4. SameOutput(a, b)
  BY DEF Shaped, ClipFields, SameOutput
<1>5. SameProvenance(a, b) /\ b.output = a.output /\ b.building = a.building /\ b.builder = a.builder
  BY DEF Shaped, ClipFields, SameProvenance
<1>6. SameEnds(a, b)
  BY DEF Shaped, ClipFields, SameEnds
<1>7. ObjectsInTurn(b)
  <2>1. ~(b.pendingObjects # Null /\ b.objects = NoPage)
    BY <1>1, <1>3 DEF ObjectsInTurn, SameObjects
  <2> QED
    BY <1>1, <1>3, <2>1, ObjectsKept
<1>8. TextInTurn(b)
  <2>1. Done(b) = Done(a)
    BY <1>2, DoneSame
  <2>2. Targets(b) /\ ~Full(b)
    BY <1>1, <1>2, <1>5, <2>1 DEF TextInTurn, Targets, Full
  <2>3. b.text = NoPage
    BY <1>1, <1>2 DEF TextInTurn
  <2> QED
    BY <1>1, <1>2, <2>1, <2>2, <2>3 DEF TextInTurn
<1>9. OutputInTurn(b)
  BY <1>1, <1>4, OutputKept
<1>10. ProvenanceInTurn(b)
  BY <1>1, <1>2, <1>5, ProvenanceKept
<1>11. EndsInTurn(b)
  BY <1>1, <1>6, EndsKept
<1> QED
  BY <1>2, <1>7, <1>8, <1>9, <1>10, <1>11 DEF Merging

LEMMA ObjectsAsked ==
  ASSUME NEW a, Shaped(a), Merging(a), a.state = "CollectingObjects", ~a.complete, NEW n, NEW m,
         NEW b, b = [a EXCEPT !.state = "ObjectPagePending", !.asks = n, !.pendingObjects = m]
  PROVE  Merging(b)
<1>1. ObjectsInTurn(a) /\ TextInTurn(a) /\ OutputInTurn(a) /\ ProvenanceInTurn(a) /\ EndsInTurn(a)
  BY DEF Merging
<1>2. /\ b.key = a.key /\ b.state = "ObjectPagePending" /\ b.prior = a.prior /\ b.current = a.current
      /\ b.complete = a.complete /\ b.objectCursor = a.objectCursor /\ b.objects = a.objects
  BY DEF Shaped, ClipFields
<1>3. SameText(a, b)
  BY DEF Shaped, ClipFields, SameText
<1>4. SameOutput(a, b)
  BY DEF Shaped, ClipFields, SameOutput
<1>5. SameProvenance(a, b) /\ b.output = a.output /\ b.building = a.building
  BY DEF Shaped, ClipFields, SameProvenance
<1>6. SameEnds(a, b)
  BY DEF Shaped, ClipFields, SameEnds
<1>7. ObjectsInTurn(b)
  <2>1. Done(b) = Done(a)
    BY <1>2, DoneSame
  <2>2. Reached(b) = Reached(a)
    BY <1>2, <2>1 DEF Reached
  <2> QED
    BY <1>1, <1>2, <2>1, <2>2 DEF ObjectsInTurn
<1>8. TextInTurn(b)
  <2>1. a.text = NoPage /\ a.pendingText = Null
    BY <1>1 DEF TextInTurn
  <2> QED
    BY <1>1, <1>2, <1>3, <2>1, TextKept DEF SameText
<1>9. OutputInTurn(b)
  BY <1>1, <1>4, OutputKept
<1>10. ProvenanceInTurn(b)
  BY <1>1, <1>2, <1>5, ProvenanceKept
<1>11. EndsInTurn(b)
  BY <1>1, <1>6, EndsKept
<1> QED
  BY <1>2, <1>7, <1>8, <1>9, <1>10, <1>11 DEF Merging

\* Nothing of a page that was just read is appended.
LEMMA AlignedFirst ==
  ASSUME NEW page, page.lo \in Nat, page.hi \in Nat, page.lo < page.hi
  PROVE  Aligned(page, page.lo, 1)
<1>1. PICK lo, hi, s : lo = page.lo /\ hi = page.hi /\ s = Fragments(lo, hi)
  OBVIOUS
<1>2. lo \in Nat /\ hi \in Nat /\ lo < hi
  BY <1>1
<1>3. Fragmented(s, lo, hi)
  BY <1>1, <1>2, FragmentFacts
<1>4. Len(s) \in Nat
  BY <1>3 DEF Fragmented
<1>5. \A i \in 1..Len(s) : ~(i < 1) /\ lo <= FragmentStart(s[i], lo)
  <2> SUFFICES ASSUME NEW i \in 1..Len(s) PROVE ~(i < 1) /\ lo <= FragmentStart(s[i], lo)
    OBVIOUS
  <2>1. ~(i < 1)
    BY <1>4
  <2>2. s = Fragments(lo, hi)
    BY <1>1
  <2>3. lo <= FragmentStart(s[i], lo)
    BY <1>2, <2>2, FragmentAt
  <2> QED
    BY <2>1, <2>3
<1>6. 1 \in 1..(Len(s) + 1)
  BY <1>4
<1> QED
  BY <1>1, <1>5, <1>6 DEF Aligned

LEMMA TextAnswered ==
  ASSUME NEW a, Shaped(a), Merging(a), a.pendingText # Null, a.text = NoPage,
         NEW hi \in Cuts, hi > a.textCursor, NEW end, end = (IF hi < a.target THEN hi ELSE a.target),
         NEW breaks, breaks = a.breaks + (IF a.phase = "Collecting" THEN LineBreaks(a.textCursor, end) ELSE 0),
         NEW page, page = [lo |-> a.textCursor, hi |-> hi, end |-> end, cursor |-> a.textCursor, next |-> 1],
         NEW b, b = [a EXCEPT !.breaks = breaks, !.text = <<page>>]
  PROVE  Merging(b)
<1>1. ObjectsInTurn(a) /\ TextInTurn(a) /\ OutputInTurn(a) /\ ProvenanceInTurn(a) /\ EndsInTurn(a)
  BY DEF Merging
<1>2. PICK c, g, range : c = a.textCursor /\ g = a.target /\ range = a.key.selection
  OBVIOUS
<1>3. a.state = "TextPagePending" /\ Targets(a) /\ ~Full(a)
  BY <1>1 DEF TextInTurn
<1>4. /\ range \in Selections /\ c \in Nat /\ range.end.at \in Nat /\ range.start.at \in Nat /\ range.start.at <= c
      /\ c <= range.end.at /\ hi \in Nat /\ hi \in 1..Extent
  <2>1. range \in Selections /\ c \in Nat /\ range.start.at <= c /\ Cursor(a) = c /\ Cursor(a) <= range.end.at
    <3>1. Cursor(a) = c
      BY <1>2 DEF Cursor
    <3> QED
      BY <1>2, <3>1, PlaceFacts
  <2>2. range.end.at \in Nat /\ range.start.at \in Nat
    BY <2>1, SelectionFacts
  <2>3. hi \in 1..Extent /\ Extent \in Nat
    BY BoundsFacts, SourceFacts
  <2> QED
    BY <2>1, <2>2, <2>3
<1>5. g \in Nat /\ c < g /\ g <= range.end.at
  <2>1. g \in (c + 1)..range.end.at
    BY <1>2, <1>3 DEF Targets
  <2> QED
    BY <1>4, <2>1
<1>6. end \in Nat /\ c < end /\ end <= hi /\ end <= g /\ end = (IF hi < g THEN hi ELSE g)
  BY <1>2, <1>4, <1>5
<1>7. /\ b.key = a.key /\ b.state = a.state /\ b.text = <<page>> /\ b.textCursor = c /\ b.target = g
      /\ b.prior = a.prior /\ b.pendingText = a.pendingText /\ b.builder = a.builder
  BY <1>2 DEF Shaped, ClipFields
<1>8. b.output = a.output /\ b.phase = a.phase /\ b.breaks = breaks /\ b.open = a.open
  BY DEF Shaped, ClipFields
<1>9. SameObjects(a, b)
  BY DEF Shaped, ClipFields, SameObjects
<1>10. SameProvenance(a, b) /\ b.building = a.building
  BY DEF Shaped, ClipFields, SameProvenance
<1>11. SameEnds(a, b)
  BY DEF Shaped, ClipFields, SameEnds
<1>12. Done(b) = Done(a)
  BY <1>7, DoneSame
<1>13. page.lo = c /\ page.hi = hi /\ page.end = end /\ page.cursor = c /\ page.next = 1
  BY <1>2
<1>14. ObjectsInTurn(b)
  <2>1. ~(b.pendingObjects # Null /\ b.objects = NoPage)
    BY <1>1, <1>3, <1>9 DEF ObjectsInTurn, SameObjects
  <2> QED
    BY <1>1, <1>9, <2>1, ObjectsKept
<1>15. TextInTurn(b)
  <2>1. Aligned(page, c, 1)
    <3>1. page.lo \in Nat /\ page.hi \in Nat /\ page.lo < page.hi
      BY <1>4, <1>6, <1>13
    <3> QED
      BY <1>13, <3>1, AlignedFirst
  <2>2. Consumed(page, c, g)
    <3>1. page = [lo |-> c, hi |-> page.hi, end |-> page.end, cursor |-> page.cursor, next |-> page.next]
      BY <1>2
    <3>2. page.lo < page.end /\ page.end = (IF page.hi < g THEN page.hi ELSE g) /\ page.hi \in 1..Extent
      BY <1>4, <1>6, <1>13
    <3>3. page.cursor \in page.lo..page.end
      BY <1>4, <1>6, <1>13
    <3> QED
      BY <1>13, <2>1, <3>1, <3>2, <3>3 DEF Consumed
  <2>3. Targets(b)
    BY <1>2, <1>3, <1>7, <1>12 DEF Targets
  <2>4. ~Full(b)
    BY <1>3, <1>7 DEF Full
  <2>5. b.text[1] = page
    BY <1>7
  <2> QED
    BY <1>1, <1>2, <1>3, <1>7, <1>12, <2>2, <2>3, <2>4, <2>5 DEF TextInTurn
<1>16. OutputInTurn(b)
  <2>1. b.text[1] = page /\ b.text # NoPage
    BY <1>7 DEF NoPage
  <2>2. Cursor(a) = c /\ Read(a) = c /\ Cursor(b) = c /\ Read(b) = end
    BY <1>2, <1>13, <2>1 DEF Cursor, Read
  <2>3. CASE a.phase = "Classifying"
    <3>1. breaks = 0
      BY <1>1, <2>3 DEF OutputInTurn
    <3> QED
      BY <1>1, <1>2, <1>7, <1>8, <1>12, <1>13, <2>1, <2>3, <3>1 DEF OutputInTurn
  <2>4. CASE a.phase = "Collecting"
    <3>1. breaks = LineBreaks(range.start.at, end)
      <4>1. a.breaks = LineBreaks(range.start.at, c)
        BY <1>1, <1>2, <2>2, <2>4 DEF OutputInTurn
      <4>2. breaks = LineBreaks(range.start.at, c) + LineBreaks(c, end)
        BY <1>2, <2>4, <4>1
      <4>3. PICK o : o = range.start.at
        OBVIOUS
      <4>4. o \in Nat /\ c \in Nat /\ end \in Nat /\ o <= c /\ c <= end
        BY <1>4, <1>6, <4>3
      <4>5. LineBreaks(o, end) = LineBreaks(o, c) + LineBreaks(c, end)
        BY ONLY <4>4, BreaksFacts
      <4> QED
        BY <4>2, <4>3, <4>5
    <3>2. /\ a.output = MergedTo(range, Taken(range), c, Done(a)) /\ Len(a.output) <= MaxBytes
          /\ policy.atoms = "Propagate" => Taken(range) = {} /\ Unmarked(range, range.end.at)
          /\ OpenAt(a.open, range, c)
      BY <1>1, <1>2, <2>2, <2>4 DEF OutputInTurn, OpenAt
    <3> QED
      BY <1>2, <1>7, <1>8, <1>12, <2>2, <2>4, <3>1, <3>2 DEF OutputInTurn, OpenAt
  <2> QED
    BY <1>1, <2>3, <2>4 DEF OutputInTurn
<1>17. ProvenanceInTurn(b)
  BY <1>1, <1>3, <1>7, <1>8, <1>10, ProvenanceKept
<1>18. EndsInTurn(b)
  BY <1>1, <1>11, EndsKept
<1> QED
  BY <1>7, <1>14, <1>15, <1>16, <1>17, <1>18 DEF Merging

\* The first n of the objects from the m-th.
LEMMA SliceOfSlice ==
  ASSUME NEW m \in Nat, NEW l \in Nat, NEW n \in Nat, NEW s, s = SubSeq(Objects, m + 1, l),
         m <= l, l <= Len(Objects), n <= Len(s)
  PROVE  /\ Len(s) = l - m /\ SubSeq(s, 1, n) = SubSeq(Objects, m + 1, m + n)
         /\ n > 0 => s[n] = Objects[m + n]
<1>1. Objects \in Seq(ObjectSpace)
  BY SourceFacts
<1>2. s = [i \in 1..(l - m) |-> Objects[m + i]] /\ s \in Seq(ObjectSpace)
  BY <1>1, SliceFacts
<1>3. Len(s) = l - m /\ l - m \in Nat
  BY <1>2
<1>4. n <= l - m /\ m + n <= Len(Objects) /\ m + n \in Nat /\ m <= m + n
  BY <1>1, <1>3
<1>5. SubSeq(s, 1, n) = [i \in 1..n |-> s[i]]
  BY <1>2, <1>3
<1>6. SubSeq(Objects, m + 1, m + n) = [i \in 1..n |-> Objects[m + i]]
  <2>1. SubSeq(Objects, m + 1, m + n) = [i \in 1..((m + n) - m) |-> Objects[m + i]]
    BY <1>1, <1>4, SliceFacts
  <2>2. (m + n) - m = n
    OBVIOUS
  <2> QED
    BY <2>1, <2>2
<1>7. \A i \in 1..n : s[i] = Objects[m + i]
  BY <1>2, <1>4
<1>8. n > 0 => n \in 1..n
  OBVIOUS
<1> QED
  BY <1>3, <1>5, <1>6, <1>7, <1>8

LEMMA ObjectsAnswered ==
  ASSUME NEW a, Shaped(a), Merging(a), a.pendingObjects # Null, a.objects = NoPage,
         NEW eligible, eligible = Eligible(a.key.selection, a.objectCursor),
         NEW n \in Nat, n <= Len(eligible), NEW complete \in BOOLEAN,
         IF complete THEN n = Len(eligible) ELSE n > 0,
         NEW page, page = [facts |-> SubSeq(eligible, 1, n), complete |-> complete,
                           continuation |-> IF complete THEN Null ELSE eligible[n].id],
         NEW b, b = [a EXCEPT !.objects = <<page>>]
  PROVE  Merging(b)
<1>1. ObjectsInTurn(a) /\ TextInTurn(a) /\ OutputInTurn(a) /\ ProvenanceInTurn(a) /\ EndsInTurn(a)
  BY DEF Merging
<1>2. PICK range, r, first, last : /\ range = a.key.selection /\ r = Reached(a)
                                   /\ first = Outset(range) /\ last = Ending(range)
  OBVIOUS
<1>3. ~a.complete /\ a.state = "ObjectPagePending"
  BY <1>1 DEF ObjectsInTurn
<1>4. /\ range \in Selections /\ r \in Nat /\ first \in Nat /\ last \in Nat /\ first <= r /\ r <= last
      /\ last <= Len(Objects) /\ Len(Objects) \in Nat
  <2>1. range \in Selections
    BY <1>2 DEF Merging
  <2>2. PICK d : d = Done(a) /\ d \in Nat /\ d <= r /\ first <= d
    BY <1>2, ReachedFacts
  <2>3. r \in Nat /\ first \in Nat /\ last \in Nat /\ r <= last /\ last <= Len(Objects) /\ Len(Objects) \in Nat
    BY <1>2, ReachedFacts
  <2> QED
    BY <2>1, <2>2, <2>3
<1>5. eligible = SubSeq(Objects, r + 1, last)
  <2>1. \/ a.objectCursor = Null /\ r = first
        \/ a.objectCursor = r /\ r \in first..last
    <3>1. r = IF a.objectCursor = Null THEN first ELSE a.objectCursor
      BY <1>1, <1>2, <1>3 DEF ObjectsInTurn
    <3> QED
      BY <1>4, <3>1
  <2>2. a.objectCursor \in Nat
    BY <1>4, <2>1 DEF Null
  <2> QED
    BY <1>2, <1>4, <2>1, <2>2, EligibleFacts
<1>6. /\ Len(eligible) = last - r /\ SubSeq(eligible, 1, n) = SubSeq(Objects, r + 1, r + n)
      /\ n > 0 => eligible[n] = Objects[r + n]
  <2>1. r \in Nat /\ last \in Nat /\ n \in Nat /\ r <= last /\ last <= Len(Objects) /\ n <= Len(eligible)
    BY <1>4
  <2> QED
    BY ONLY <1>5, <2>1, SliceOfSlice
<1>7. r + n \in r..last /\ (n > 0 => r + n \in 1..Len(Objects)) /\ r + n \in Nat
  <2>1. PICK k, m : k = Len(eligible) /\ m = Len(Objects)
    OBVIOUS
  <2>2. n \in Nat /\ n <= k /\ k = last - r /\ r \in Nat /\ last \in Nat /\ r <= last /\ last <= m /\ m \in Nat
    BY <1>4, <1>6, <2>1
  <2>3. r + n \in r..last /\ (n > 0 => r + n \in 1..m) /\ r + n \in Nat
    BY ONLY <2>2
  <2> QED
    BY <2>1, <2>3
<1>8. /\ b.key = a.key /\ b.state = a.state /\ b.prior = a.prior /\ b.current = a.current
      /\ b.complete = a.complete /\ b.objectCursor = a.objectCursor /\ b.objects = <<page>>
      /\ b.building = a.building /\ b.output = a.output
  BY DEF Shaped, ClipFields
<1>9. SameText(a, b)
  BY DEF Shaped, ClipFields, SameText
<1>10. SameOutput(a, b)
  BY DEF Shaped, ClipFields, SameOutput
<1>11. SameProvenance(a, b)
  BY DEF Shaped, ClipFields, SameProvenance
<1>12. SameEnds(a, b)
  BY DEF Shaped, ClipFields, SameEnds
<1>13. Follows(page, r, first, last)
  <2>1. page.complete = complete /\ page.facts = SubSeq(Objects, r + 1, r + n)
    BY <1>6
  <2>2. page.continuation = IF complete THEN Null ELSE r + n
    <3>1. ~complete => eligible[n].id = r + n
      BY <1>6, <1>7, ObjectFacts
    <3> QED
      BY <3>1
  <2>3. page = [facts |-> SubSeq(Objects, r + 1, r + n), complete |-> page.complete,
                continuation |-> IF page.complete THEN Null ELSE r + n]
    BY <2>1, <2>2
  <2>4. IF page.complete THEN r + n = last ELSE r + n > first
    BY <1>4, <1>6, <2>1
  <2> QED
    BY <1>7, <2>1, <2>3, <2>4 DEF Follows
<1>14. ObjectsInTurn(b)
  <2>1. Done(b) = Done(a)
    BY <1>8, DoneSame
  <2>2. Reached(b) = r
    BY <1>2, <1>8, <2>1 DEF Reached
  <2>3. b.objects # NoPage /\ b.objects[1] = page
    BY <1>8 DEF NoPage
  <2> QED
    BY <1>1, <1>2, <1>3, <1>8, <1>13, <2>1, <2>2, <2>3 DEF ObjectsInTurn
<1>15. TextInTurn(b)
  <2>1. a.text = NoPage /\ a.pendingText = Null
    BY <1>1, <1>3 DEF TextInTurn
  <2> QED
    BY <1>1, <1>3, <1>8, <1>9, <2>1, TextKept DEF SameText
<1>16. OutputInTurn(b)
  BY <1>1, <1>10, OutputKept
<1>17. ProvenanceInTurn(b)
  BY <1>1, <1>3, <1>8, <1>11, ProvenanceKept
<1>18. EndsInTurn(b)
  BY <1>1, <1>12, EndsKept
<1> QED
  BY <1>8, <1>14, <1>15, <1>16, <1>17, <1>18 DEF Merging

\* The pages are the same when the last one is acknowledged.
LEMMA PageChained ==
  ASSUME NEW chain \in Seq(Seq(ItemSpace)), NEW x, chain \o <<x>> \in Seq(Seq(ItemSpace))
  PROVE  /\ Append(chain, x) \in Seq(Seq(ItemSpace))
         /\ Append(chain, x) \o <<>> = chain \o <<x>>
<1>1. x \in Seq(ItemSpace)
  <2>1. Len(chain \o <<x>>) = Len(chain) + 1 /\ Len(chain) \in Nat
    OBVIOUS
  <2>2. (chain \o <<x>>)[Len(chain) + 1] = x
    OBVIOUS
  <2>3. Len(chain) + 1 \in 1..Len(chain \o <<x>>)
    BY <2>1
  <2>4. (chain \o <<x>>)[Len(chain) + 1] \in Seq(ItemSpace)
    BY <2>3
  <2> QED
    BY <2>2, <2>4
<1>2. PICK A : A = Seq(ItemSpace)
  OBVIOUS
<1>3. Append(chain, x) \in Seq(A)
  BY <1>1, <1>2
<1>4. Append(chain, x) = chain \o <<x>>
  BY <1>1
<1>5. Append(chain, x) \o <<>> = Append(chain, x)
  BY <1>3, ConcatNone
<1> QED
  BY <1>2, <1>3, <1>4, <1>5

LEMMA PageAcknowledged ==
  ASSUME NEW a, Shaped(a), Merging(a), a.state = "AwaitingProvenancePage", NEW b, b = Acknowledged(a)
  PROVE  Merging(b)
<1>1. ObjectsInTurn(a) /\ TextInTurn(a) /\ OutputInTurn(a) /\ ProvenanceInTurn(a) /\ EndsInTurn(a)
  BY DEF Merging
<1>2. /\ b.chain = Append(a.chain, a.page[1]) /\ b.page = NoPage /\ b.state = "CollectingObjects"
      /\ b.key = a.key /\ b.prior = a.prior
  BY DEF Shaped, ClipFields, Acknowledged
<1>3. b.builder = a.builder /\ b.building = a.building /\ b.count = a.count /\ b.output = a.output
  BY DEF Shaped, ClipFields, Acknowledged
<1>4. SameObjects(a, b)
  BY DEF Shaped, ClipFields, SameObjects, Acknowledged
<1>5. SameText(a, b)
  BY DEF Shaped, ClipFields, SameText, Acknowledged
<1>6. SameOutput(a, b)
  BY DEF Shaped, ClipFields, SameOutput, Acknowledged
<1>7. SameEnds(a, b)
  BY DEF Shaped, ClipFields, SameEnds, Acknowledged
<1>8. ObjectsInTurn(b)
  <2>1. ~(b.pendingObjects # Null /\ b.objects = NoPage)
    BY <1>1, <1>4 DEF ObjectsInTurn, SameObjects
  <2> QED
    BY <1>1, <1>4, <2>1, ObjectsKept
<1>9. TextInTurn(b)
  <2>1. a.text = NoPage /\ a.pendingText = Null
    BY <1>1 DEF TextInTurn
  <2> QED
    BY <1>1, <1>2, <1>5, <2>1, TextKept DEF SameText
<1>10. OutputInTurn(b)
  BY <1>1, <1>6, OutputKept
<1>11. ProvenanceInTurn(b)
  <2>1. CASE policy.items = 0
    BY <1>2, <2>1 DEF ProvenanceInTurn
  <2>2. CASE policy.items # 0
    <3>1. /\ a.page = <<a.page[1]>> /\ a.chain \in Seq(Seq(ItemSpace)) /\ Pages(a) \in Seq(Seq(ItemSpace))
      BY <1>1, <2>2 DEF ProvenanceInTurn
    <3>2. PICK x, chain : x = a.page[1] /\ chain = a.chain
      OBVIOUS
    <3>3. Pages(a) = chain \o <<x>>
      BY <3>1, <3>2 DEF Pages
    <3>4. Append(chain, x) \in Seq(Seq(ItemSpace)) /\ Append(chain, x) \o <<>> = chain \o <<x>>
      BY <3>1, <3>2, <3>3, PageChained
    <3>5. Pages(b) = Pages(a) /\ b.chain \in Seq(Seq(ItemSpace))
      BY <1>2, <3>2, <3>3, <3>4 DEF Pages, NoPage
    <3>6. Items(b) = Items(a) /\ Done(b) = Done(a)
      BY <1>2, <1>3, <3>5, DoneSame DEF Items
    <3> QED
      BY <1>1, <1>2, <1>3, <2>2, <3>5, <3>6 DEF ProvenanceInTurn
  <2> QED
    BY <2>1, <2>2
<1>12. EndsInTurn(b)
  BY <1>1, <1>7, EndsKept
<1> QED
  BY <1>2, <1>8, <1>9, <1>10, <1>11, <1>12 DEF Merging

-----------------------------------------------------------------------------
(* The next step of a merge.                                               *)

\* The steps on the page of text that was read.
OnText(a, step) ==
  /\ a.text # NoPage
  /\ \/ TextDone(Paged(a), step) \/ TextToEnd(Paged(a), step)
     \/ \E atom : \/ TextBefore(Paged(a), step, atom) \/ WholeAtom(Paged(a), step, atom)
                  \/ RestOfAtom(Paged(a), step, atom)

\* The steps between pages.
OnObjects(a, step) ==
  /\ Between(a) /\ ~Full(a)
  /\ \/ ObjectTaken(a, step) \/ PageDone(a, step) \/ MoreObjects(a, step) \/ TextUpTo(a, step)
     \/ BuilderMade(a, step) \/ ObjectDone(a, step)

Emitting(a, step) == step = Do("EmitProvenance") /\ (Full(a) \/ LastItems(a, Do("EmitProvenance")))

LEMMA NextCases ==
  ASSUME NEW a, Merging(a), Works(a), NEW step, step = NextStep(a)
  PROVE  \/ Halts(step) \/ OnText(a, step) \/ OnObjects(a, step) \/ Emitting(a, step)
         \/ Between(a) /\ Completes(a, step)
<1>1. CASE Full(a)
  BY <1>1 DEF NextStep, Emitting
<1>2. CASE ~Full(a) /\ a.text # NoPage
  <2>1. step = TextStep(Paged(a))
    BY <1>2 DEF NextStep, Paged
  <2>2. \/ Halts(step) \/ TextDone(Paged(a), step) \/ TextToEnd(Paged(a), step)
        \/ \E atom : \/ TextBefore(Paged(a), step, atom) \/ WholeAtom(Paged(a), step, atom)
                     \/ RestOfAtom(Paged(a), step, atom)
    BY <2>1, TextCases
  <2> QED
    BY <1>2, <2>2 DEF OnText
<1>3. CASE ~Full(a) /\ a.text = NoPage
  <2>1. Between(a)
    BY <1>3, BetweenFacts
  <2>2. CASE a.current = NoPage
    <3>1. step = TakeStep(a)
      BY <1>3, <2>2 DEF NextStep
    <3>2. \/ Halts(step) \/ ObjectTaken(a, step) \/ PageDone(a, step) \/ MoreObjects(a, step)
          \/ TextUpTo(a, step) \/ LastItems(a, step) \/ Completes(a, step)
      BY <2>2, <3>1, TakeCases
    <3>3. LastItems(a, step) => Emitting(a, step)
      BY DEF LastItems, Emitting
    <3> QED
      BY <1>3, <2>1, <3>2, <3>3 DEF OnObjects
  <2>3. CASE a.current # NoPage
    <3>1. step = ObjectStep(a)
      BY <1>3, <2>3 DEF NextStep
    <3>2. Facts(a) # <<>> => NextObject(a) # Null
      <4> SUFFICES ASSUME Facts(a) # <<>> PROVE NextObject(a) # Null
        OBVIOUS
      <4>1. a.objects # NoPage
        BY DEF Facts
      <4>2. PICK page, r, w, last : Left(a, page, r, w, last)
        BY <4>1, LeftFacts
      <4>3. Facts(a) = page.facts
        BY <4>1, <4>2 DEF Facts, Left
      <4>4. r < w /\ r \in Nat /\ w \in Nat /\ last \in Nat /\ w <= last /\ last <= Len(Objects)
        BY <4>2, <4>3 DEF Left
      <4>5. Head(page.facts) = Objects[r + 1]
        BY <4>2, <4>4 DEF Left
      <4>6. r + 1 \in 1..Len(Objects) /\ r + 1 # 0
        BY <4>4, SourceFacts
      <4>7. NextObject(a) = r + 1
        BY <4>3, <4>5, <4>6, ObjectFacts DEF NextObject
      <4> QED
        BY <4>6, <4>7 DEF Null
    <3>3. \/ Halts(step) \/ PageDone(a, step) \/ MoreObjects(a, step) \/ TextUpTo(a, step)
          \/ BuilderMade(a, step) \/ ObjectDone(a, step)
      BY <2>3, <3>1, <3>2, ObjectCases
    <3> QED
      BY <1>3, <2>1, <3>3 DEF OnObjects
  <2> QED
    BY <2>2, <2>3
<1> QED
  BY <1>1, <1>2, <1>3

\* What the steps are called.
LEMMA CaseNames ==
  ASSUME NEW a, NEW step
  PROVE  /\ OnText(a, step) => step.do \in {"FinishText", "AppendText", "AppendAtom", "AdvanceAtom"}
         /\ OnObjects(a, step) =>
              \/ MoreObjects(a, step) /\ step.do = "NeedObjectPage"
              \/ step.do \in {"TakeObject", "FinishObjects", "NeedTextPage", "AllocateBuilder", "ProcessObject"}
         /\ Emitting(a, step) => step.do = "EmitProvenance"
         /\ Completes(a, step) => step.do = "CompleteCollection"
<1>1. OnText(a, step) => step.do \in {"FinishText", "AppendText", "AppendAtom", "AdvanceAtom"}
  <2>1. \A p : TextDone(p, step) => step.do = "FinishText"
    BY StepNames DEF TextDone
  <2>2. \A p : TextToEnd(p, step) => step.do = "AppendText"
    BY DEF TextToEnd, AppendText
  <2>3. \A p, atom : TextBefore(p, step, atom) => step.do = "AppendText"
    BY DEF TextBefore, AppendText
  <2>4. \A p, atom : WholeAtom(p, step, atom) => step.do = "AppendAtom"
    BY DEF WholeAtom
  <2>5. \A p, atom : RestOfAtom(p, step, atom) => step.do = "AdvanceAtom"
    BY DEF RestOfAtom
  <2> QED
    BY <2>1, <2>2, <2>3, <2>4, <2>5 DEF OnText
<1>2. ASSUME OnObjects(a, step)
      PROVE  \/ MoreObjects(a, step) /\ step.do = "NeedObjectPage"
             \/ step.do \in {"TakeObject", "FinishObjects", "NeedTextPage", "AllocateBuilder", "ProcessObject"}
  <2>1. ObjectTaken(a, step) => step.do = "TakeObject"
    BY StepNames DEF ObjectTaken
  <2>2. PageDone(a, step) => step.do = "FinishObjects"
    BY StepNames DEF PageDone
  <2>3. MoreObjects(a, step) => step.do = "NeedObjectPage"
    BY StepNames DEF MoreObjects
  <2>4. TextUpTo(a, step) => step.do = "NeedTextPage"
    BY StepNames DEF TextUpTo
  <2>5. BuilderMade(a, step) => step.do = "AllocateBuilder"
    BY StepNames DEF BuilderMade
  <2>6. ObjectDone(a, step) => step.do = "ProcessObject"
    BY DEF ObjectDone, ProcessStep
  <2> QED
    BY <1>2, <2>1, <2>2, <2>3, <2>4, <2>5, <2>6 DEF OnObjects
<1>3. Emitting(a, step) => step.do = "EmitProvenance"
  BY StepNames DEF Emitting
<1>4. Completes(a, step) => step.do = "CompleteCollection"
  BY StepNames DEF Completes
<1> QED
  BY <1>1, <1>2, <1>3, <1>4

\* A step leads from a merge to a merge.
LEMMA StepMerges ==
  ASSUME NEW a, Shaped(a), Merging(a), Works(a), NEW step, step = NextStep(a), step.do \in Proceeding
  PROVE  /\ Merging(Successor(a, step))
         /\ step.do = "NeedObjectPage" => MoreObjects(a, step)
<1>1. \/ Halts(step) \/ OnText(a, step) \/ OnObjects(a, step) \/ Emitting(a, step)
      \/ Between(a) /\ Completes(a, step)
  BY NextCases
<1>2. a.state # "AwaitingProvenancePage"
  BY DEF Works
<1>3. CASE Halts(step)
  <2>1. step.do = "AllocateOutput"
    BY <1>3 DEF Halts, Proceeding
  <2> QED
    BY <1>2, <2>1, RoomStep
<1>4. CASE OnText(a, step)
  <2>1. a.text # NoPage
    BY <1>4 DEF OnText
  <2>2. ASSUME TextDone(Paged(a), step) PROVE Merging(Successor(a, step))
    BY <2>1, <2>2, TextDoneStep
  <2>3. ASSUME TextToEnd(Paged(a), step) PROVE Merging(Successor(a, step))
    BY <2>1, <2>3, TextToEndStep
  <2>4. ASSUME NEW atom, TextBefore(Paged(a), step, atom) PROVE Merging(Successor(a, step))
    BY <2>1, <2>4, TextBeforeStep
  <2>5. ASSUME NEW atom, WholeAtom(Paged(a), step, atom) PROVE Merging(Successor(a, step))
    BY <2>1, <2>5, WholeAtomStep
  <2>6. ASSUME NEW atom, RestOfAtom(Paged(a), step, atom) PROVE Merging(Successor(a, step))
    BY <2>1, <2>6, RestOfAtomStep
  <2>7. Merging(Successor(a, step))
    BY <1>4, <2>2, <2>3, <2>4, <2>5, <2>6 DEF OnText
  <2>8. step.do # "NeedObjectPage"
    BY <1>4, CaseNames
  <2> QED
    BY <2>7, <2>8
<1>5. CASE OnObjects(a, step)
  <2>1. Between(a) /\ ~Full(a)
    BY <1>5 DEF OnObjects
  <2>2. ASSUME ObjectTaken(a, step) PROVE Merging(Successor(a, step))
    BY <2>1, <2>2, ObjectTakenStep
  <2>3. ASSUME PageDone(a, step) PROVE Merging(Successor(a, step))
    BY <2>1, <2>3, PageDoneStep
  <2>4. ASSUME MoreObjects(a, step) PROVE Merging(Successor(a, step))
    <3>1. step.do = "NeedObjectPage"
      BY <2>4, StepNames DEF MoreObjects
    <3> QED
      BY <1>2, <3>1, RoomStep
  <2>5. ASSUME TextUpTo(a, step) PROVE Merging(Successor(a, step))
    BY <2>1, <2>5, TextUpToStep
  <2>6. ASSUME BuilderMade(a, step) PROVE Merging(Successor(a, step))
    <3>1. step.do = "AllocateBuilder"
      BY <2>6, StepNames DEF BuilderMade
    <3> QED
      BY <1>2, <3>1, RoomStep
  <2>7. ASSUME ObjectDone(a, step) PROVE Merging(Successor(a, step))
    BY <2>1, <2>7, ObjectDoneStep
  <2>8. Merging(Successor(a, step))
    BY <1>5, <2>2, <2>3, <2>4, <2>5, <2>6, <2>7 DEF OnObjects
  <2>9. step.do = "NeedObjectPage" => MoreObjects(a, step)
    BY <1>5, CaseNames
  <2> QED
    BY <2>8, <2>9
<1>6. CASE Emitting(a, step)
  <2>1. step = Do("EmitProvenance") /\ step.do = "EmitProvenance"
    BY <1>6, StepNames DEF Emitting
  <2> QED
    BY <1>6, <2>1, EmitStep DEF Emitting
<1>7. ~Completes(a, step)
  BY CaseNames DEF Proceeding
<1>8. CASE step.do = "AllocateOutput" \/ step.do = "AllocateBuilder"
  BY <1>2, <1>8, RoomStep
<1> QED
  BY <1>1, <1>3, <1>4, <1>5, <1>6, <1>7

-----------------------------------------------------------------------------
(* What is written.                                                        *)

\* A request to write the text, the line breaks and the provenance of its selection.
WrittenRight(o) ==
  LET range == o.key.selection
      items == Chained(o.pages, Len(o.pages))
  IN /\ o.text = SelectedText(range)
     /\ o.breaks = LineBreaks(range.start.at, range.end.at)
     /\ Len(o.text) <= MaxBytes
     /\ policy.atoms = "Propagate" => ~HasSpecial(range)
     /\ policy.items # 0 =>
          /\ [i \in DOMAIN items |-> items[i].object] = Only([i \in DOMAIN Objects |-> i], Selected(range))
          /\ \A i \in DOMAIN items :
               SubSeq(o.text, items[i].start + 1, items[i].end) = Objects[items[i].object].copy
          /\ o.count = Len(items)
          /\ \A i \in 1..(Len(o.pages) - 1) : Len(o.pages[i]) = policy.items

\* Objects that are not taken behind the d-th leave the list.
LEMMA ListedToEnd ==
  ASSUME NEW S, NEW d \in Nat, NEW e \in Nat, d <= e, \A i \in (d + 1)..e : i \notin S
  PROVE  Listing(S, e) = Listing(S, d)
<1>1. PICK s, t, u : /\ s = [i \in 1..d |-> i] /\ t = [i \in 1..(e - d) |-> d + i] /\ u = [i \in 1..e |-> i]
  OBVIOUS
<1>2. e - d \in Nat
  OBVIOUS
<1>3. s \in Seq(Nat) /\ t \in Seq(Nat) /\ Len(s) = d /\ Len(t) = e - d
  BY <1>1, <1>2
<1>4. s \o t = u
  <2>1. PICK w : w = s \o t
    OBVIOUS
  <2>2. /\ w \in Seq(Nat) /\ Len(w) = Len(s) + Len(t)
        /\ \A i \in 1..Len(s) : w[i] = s[i]
        /\ \A i \in 1..Len(t) : w[Len(s) + i] = t[i]
    BY ONLY <1>3, <2>1, TextAt
  <2>3. Len(w) = e
    BY <1>3, <2>2
  <2>4. \A i \in 1..e : w[i] = i
    <3> SUFFICES ASSUME NEW i \in 1..e PROVE w[i] = i
      OBVIOUS
    <3>1. CASE i <= d
      BY <1>1, <1>3, <2>2, <3>1
    <3>2. CASE ~(i <= d)
      <4>1. PICK k : k = i - d
        OBVIOUS
      <4>2. k \in 1..(e - d) /\ d + k = i
        BY <3>2, <4>1
      <4>3. w[d + k] = t[k] /\ t[k] = d + k
        BY <1>1, <1>3, <2>2, <4>2
      <4> QED
        BY <4>2, <4>3
    <3> QED
      BY <3>1, <3>2
  <2>5. w = [i \in 1..Len(w) |-> w[i]]
    BY <2>2
  <2>6. w = [i \in 1..e |-> i]
    BY <2>3, <2>4, <2>5
  <2> QED
    BY <1>1, <2>1, <2>6
<1>5. Only(t, S) = <<>>
  <2>1. \A i \in 1..Len(t) : t[i] \notin S
    BY <1>1, <1>3
  <2> QED
    BY <1>3, <2>1, KeptNothing
<1>6. Only(u, S) = Only(s, S) \o Only(t, S)
  <2>1. Only(s \o t, S) = Only(s, S) \o Only(t, S)
    BY ONLY <1>3, OnlyConcat
  <2> QED
    BY <1>4, <2>1
<1>7. Only(s, S) \o <<>> = Only(s, S)
  <2>1. PICK A : A = Nat \cap S
    OBVIOUS
  <2>2. Only(s, S) \in Seq(A)
    BY <1>3, <2>1, OnlyIn
  <2> QED
    BY ONLY <2>2, ConcatNone
<1> QED
  BY <1>1, <1>5, <1>6, <1>7 DEF Listing

\* A merge at its end.
Finished(a, range) ==
  /\ range = a.key.selection /\ range \in Selections
  /\ OutputInTurn(a) /\ ProvenanceInTurn(a) /\ EndsInTurn(a)
  /\ a.phase = "Collecting" /\ Done(a) = Ending(range) /\ Cursor(a) = range.end.at /\ Read(a) = range.end.at
  /\ Proven(range.start, a.startProven, a.startMet) /\ Proven(range.end, a.endProven, a.endMet)
  /\ a.page = NoPage /\ a.builder = <<>>

\* An end that was proven is a position of the source.
LEMMA ProvenIsMet ==
  ASSUME NEW range \in Selections, NEW p \in {range.start, range.end}, NEW proven, NEW met,
         met = \E i \in (Outset(range) + 1)..Ending(range) : Objects[i].at = p.at,
         proven = \E i \in (Outset(range) + 1)..Ending(range) : p \in {Lead(i), Trail(i)},
         Proven(p, proven, met)
  PROVE  Met(p)
<1>1. PICK f, l, m : f = Outset(range) /\ l = Ending(range) /\ m = Len(Objects)
  OBVIOUS
<1>2. /\ f \in Nat /\ l \in Nat /\ f <= l /\ l <= m /\ m \in Nat
      /\ \A i \in 1..m : Objects[i].at < range.start.at <=> i <= f
      /\ \A i \in 1..m : Objects[i].at <= range.end.at <=> i <= l
  BY <1>1, OutsetFacts, SourceFacts
<1>3. range.start.at \in Nat /\ range.end.at \in Nat /\ range.start.at <= range.end.at
  BY SelectionFacts
<1>4. CASE proven
  <2>1. PICK i \in (f + 1)..l : p \in {Lead(i), Trail(i)}
    BY <1>1, <1>4
  <2>2. i \in 1..Len(Objects)
    BY <1>1, <1>2
  <2> QED
    BY <2>1, <2>2 DEF Met, Beside
<1>5. CASE ~proven
  <2>1. \A i \in (f + 1)..l : Objects[i].at # p.at
    BY <1>1, <1>5 DEF Proven
  <2>2. ASSUME NEW k \in 1..m, Objects[k].at = p.at PROVE FALSE
    <3>1. range.start.at <= p.at /\ p.at <= range.end.at
      BY <1>3
    <3>2. ~(Objects[k].at < range.start.at) /\ Objects[k].at <= range.end.at
      <4>1. p.at \in Nat
        BY <1>3
      <4> QED
        BY <1>3, <2>2, <3>1, <4>1
    <3>3. k \in (f + 1)..l
      BY <1>2, <3>2
    <3> QED
      BY <2>1, <2>2, <3>3
  <2> QED
    BY <1>1, <2>2 DEF Met
<1> QED
  BY <1>4, <1>5

LEMMA FinishedWrites ==
  ASSUME NEW a, NEW range, Finished(a, range), policy \in Policies
  PROVE  WrittenRight(Write(a))
<1>1. PICK o, l : o = Write(a) /\ l = Ending(range)
  OBVIOUS
<1>2. /\ o.key = a.key /\ o.text = a.output /\ o.pages = a.chain /\ o.count = a.count /\ o.breaks = a.breaks
  BY <1>1 DEF Write
<1>3. range = a.key.selection /\ range \in Selections /\ Done(a) = l
  BY <1>1 DEF Finished
<1>4. l \in Nat /\ l <= Len(Objects) /\ Len(Objects) \in Nat /\ l \in 0..Len(Objects) /\ Outset(range) \in Nat
  <2>1. l \in Nat /\ l <= Len(Objects) /\ Outset(range) \in Nat
    BY <1>1, <1>3, OutsetFacts
  <2>2. Len(Objects) \in Nat
    BY SourceFacts
  <2> QED
    BY <2>1, <2>2
<1>5. Met(range.start) /\ Met(range.end)
  <2>1. /\ a.startMet = \E i \in (Outset(range) + 1)..l : Objects[i].at = range.start.at
        /\ a.endMet = \E i \in (Outset(range) + 1)..l : Objects[i].at = range.end.at
        /\ a.startProven = \E i \in (Outset(range) + 1)..l : range.start \in {Lead(i), Trail(i)}
        /\ a.endProven = \E i \in (Outset(range) + 1)..l : range.end \in {Lead(i), Trail(i)}
    BY <1>1, <1>3 DEF Finished, EndsInTurn
  <2>2. Proven(range.start, a.startProven, a.startMet) /\ Proven(range.end, a.endProven, a.endMet)
    BY DEF Finished
  <2>3. Met(range.start)
    BY <1>1, <1>3, <2>1, <2>2, ProvenIsMet
  <2>4. Met(range.end)
    BY <1>1, <1>3, <2>1, <2>2, ProvenIsMet
  <2> QED
    BY <2>3, <2>4
<1>6. Taken(range) = Selected(range)
  BY <1>3, <1>5, TakenIsSelected
<1>7. /\ a.output = MergedTo(range, Taken(range), range.end.at, l) /\ Len(a.output) <= MaxBytes
      /\ a.breaks = LineBreaks(range.start.at, range.end.at)
      /\ policy.atoms = "Propagate" => Taken(range) = {} /\ Unmarked(range, range.end.at)
  BY <1>3 DEF Finished, OutputInTurn
<1>8. \A i \in Taken(range) : i <= l
  BY <1>1, <1>3, <1>4, TakenWithin
<1>9. o.text = SelectedText(range)
  <2>1. PICK S : S = Taken(range)
    OBVIOUS
  <2>2. MergedTo(range, S, range.end.at, l) = TextOf(range, S)
    BY <1>3, <1>4, <1>8, <2>1, MergedEnd
  <2> QED
    BY <1>2, <1>6, <1>7, <2>1, <2>2 DEF SelectedText
<1>10. policy.atoms = "Propagate" => ~HasSpecial(range)
  BY <1>6, <1>7 DEF HasSpecial, Unmarked
<1>11. ASSUME policy.items # 0
       PROVE  LET items == Chained(o.pages, Len(o.pages))
              IN /\ [i \in DOMAIN items |-> items[i].object] = Only([i \in DOMAIN Objects |-> i], Selected(range))
                 /\ \A i \in DOMAIN items :
                      SubSeq(o.text, items[i].start + 1, items[i].end) = Objects[items[i].object].copy
                 /\ o.count = Len(items)
                 /\ \A i \in 1..(Len(o.pages) - 1) : Len(o.pages[i]) = policy.items
  <2>1. /\ a.builder \in Seq(ItemSpace) /\ Pages(a) \in Seq(Seq(ItemSpace)) /\ a.chain \in Seq(Seq(ItemSpace))
        /\ [i \in DOMAIN Items(a) |-> Items(a)[i].object] = Listing(Taken(range), l)
        /\ \A i \in DOMAIN Items(a) : Names(Items(a)[i], a.output)
        /\ a.count = Len(Items(a))
        /\ \A i \in 1..Len(Pages(a)) : Len(Pages(a)[i]) = policy.items \/ i = Len(Pages(a))
    BY <1>3, <1>11 DEF Finished, ProvenanceInTurn
  <2>2. Pages(a) = a.chain
    <3>1. PICK A, c : A = Seq(ItemSpace) /\ c = a.chain
      OBVIOUS
    <3>2. c \in Seq(A)
      BY <2>1, <3>1
    <3>3. c \o <<>> = c
      BY <3>2, ConcatNone
    <3> QED
      BY <3>1, <3>3 DEF Pages, Finished, NoPage
  <2>3. PICK items : items = Chained(o.pages, Len(o.pages))
    OBVIOUS
  <2>4. Items(a) = items
    <3>1. items = Chained(Pages(a), Len(Pages(a))) /\ items \in Seq(ItemSpace)
      <4>1. items = Chained(Pages(a), Len(Pages(a)))
        BY <1>2, <2>2, <2>3
      <4> QED
        BY <2>1, <4>1, ItemsIn
    <3>2. items \o <<>> = items
      BY <3>1, ConcatNone
    <3> QED
      BY <3>1, <3>2 DEF Items, Finished
  <2>5. Listing(Taken(range), l) = Only([i \in DOMAIN Objects |-> i], Selected(range))
    <3>1. PICK S, m : S = Taken(range) /\ m = Len(Objects) /\ m \in Nat /\ l <= m
      BY <1>4
    <3>2. \A i \in (l + 1)..m : i \notin S
      <4> SUFFICES ASSUME NEW i \in (l + 1)..m, i \in S PROVE FALSE
        OBVIOUS
      <4>1. i <= l /\ i \in Nat /\ i >= l + 1
        BY <1>4, <1>8, <3>1
      <4> QED
        BY <1>4, <4>1
    <3>3. Listing(S, m) = Listing(S, l)
      BY <1>4, <3>1, <3>2, ListedToEnd
    <3>4. DOMAIN Objects = 1..m
      BY <3>1, SourceFacts
    <3> QED
      BY <1>6, <3>1, <3>3, <3>4 DEF Listing
  <2>6. [i \in DOMAIN items |-> items[i].object] = Only([i \in DOMAIN Objects |-> i], Selected(range))
    BY <2>1, <2>4, <2>5
  <2>7. \A i \in DOMAIN items :
          SubSeq(o.text, items[i].start + 1, items[i].end) = Objects[items[i].object].copy
    BY <1>2, <2>1, <2>4 DEF Names
  <2>8. o.count = Len(items)
    BY <1>2, <2>1, <2>4
  <2>9. \A i \in 1..(Len(o.pages) - 1) : Len(o.pages[i]) = policy.items
    <3>1. Len(o.pages) \in Nat
      BY <1>2, <2>1
    <3>2. \A i \in 1..(Len(o.pages) - 1) : i \in 1..Len(o.pages) /\ i # Len(o.pages)
      BY <3>1
    <3>3. \A i \in 1..Len(o.pages) : Len(o.pages[i]) = policy.items \/ i = Len(o.pages)
      BY <1>2, <2>1, <2>2
    <3> QED
      BY <3>2, <3>3
  <2> QED
    BY <2>3, <2>6, <2>7, <2>8, <2>9
<1>12. o.key.selection = range
  BY <1>2, <1>3
<1>13. o.breaks = LineBreaks(range.start.at, range.end.at) /\ Len(o.text) <= MaxBytes
  BY <1>2, <1>7
<1> QED
  BY <1>1, <1>9, <1>10, <1>11, <1>12, <1>13 DEF WrittenRight

\* An empty selection has no object and no text.
LEMMA NothingSelected ==
  ASSUME NEW range \in Selections, range.start = range.end
  PROVE  Selected(range) = {} /\ SelectedText(range) = <<>>
<1>1. PICK p, g : /\ p = range.start.at /\ p = range.end.at /\ g = range.start.gap[1] /\ g = range.end.gap[1]
                  /\ p \in Nat /\ g \in Nat
  BY SelectionFacts
<1>2. Selected(range) = {}
  <2> SUFFICES ASSUME NEW i \in 1..Len(Objects), Inside(Objects[i], range) PROVE FALSE
    BY SourceFacts DEF Selected
  <2>1. PICK q : q = Objects[i].at /\ q \in Nat
    BY ObjectFacts
  <2>2. p <= q /\ q <= p /\ Objects[i].id = i /\ i \in Nat
    <3>1. Objects[i].id = i /\ i \in Nat
      <4>1. Objects[i].id = i
        BY ObjectFacts
      <4>2. i \in Nat
        BY SourceFacts
      <4> QED
        BY <4>1, <4>2
    <3>2. p <= q /\ q <= p
      BY <1>1, <2>1 DEF Inside
    <3> QED
      BY <3>1, <3>2
  <2>3. q = p
    BY <1>1, <2>1, <2>2
  <2>4. g < i /\ i <= g
    BY <1>1, <2>1, <2>2, <2>3 DEF Inside
  <2> QED
    BY <1>1, <2>2, <2>4
<1>3. MergedTo(range, {}, range.start.at, 0) = <<>> /\ MergedTo(range, {}, range.end.at, 0) = TextOf(range, {})
  <2>1. PICK S : S = {}
    OBVIOUS
  <2>2. 0 \in 0..Len(Objects) /\ (\A i \in S : ~(i <= 0)) /\ (\A i \in S : i <= 0)
    BY <2>1, SourceFacts
  <2>3. MergedTo(range, S, range.start.at, 0) = <<>>
    BY <2>2, MergedStart
  <2>4. MergedTo(range, S, range.end.at, 0) = TextOf(range, S)
    BY <2>2, MergedEnd
  <2> QED
    BY <2>1, <2>3, <2>4
<1>4. SelectedText(range) = <<>>
  BY <1>1, <1>2, <1>3 DEF SelectedText
<1> QED
  BY <1>2, <1>4

\* It is written at once.
LEMMA NothingWrites ==
  ASSUME NEW a, a.key.selection \in Selections, a.key.selection.start = a.key.selection.end,
         a.output = <<>>, a.breaks = 0, a.chain = <<>>, a.count = 0
  PROVE  WrittenRight(Write(a))
<1>1. PICK o, range : o = Write(a) /\ range = a.key.selection
  OBVIOUS
<1>2. o.key = a.key /\ o.text = <<>> /\ o.pages = <<>> /\ o.count = 0 /\ o.breaks = 0
  BY <1>1 DEF Write
<1>3. Selected(range) = {} /\ SelectedText(range) = <<>> /\ range \in Selections
  BY <1>1, NothingSelected
<1>4. PICK p : p = range.start.at /\ p = range.end.at /\ p \in Nat
  BY <1>1, <1>3, SelectionFacts
<1>5. LineBreaks(p, p) = 0
  <2>1. p \in Nat /\ p <= p
    BY <1>4
  <2> QED
    BY ONLY <2>1, BreaksFacts
<1>6. ~HasSpecial(range)
  BY <1>3, <1>4 DEF HasSpecial
<1>7. Chained(o.pages, Len(o.pages)) = <<>>
  <2>1. Len(o.pages) = 0
    BY <1>2
  <2> QED
    BY <2>1, ChainedNone
<1>8. Only([i \in DOMAIN Objects |-> i], Selected(range)) = <<>>
  <2>1. PICK s : s = [i \in DOMAIN Objects |-> i] /\ s \in Seq(Nat)
    <3>1. PICK m : m = Len(Objects) /\ DOMAIN Objects = 1..m /\ m \in Nat
      BY SourceFacts
    <3>2. [i \in 1..m |-> i] \in Seq(Nat)
      BY <3>1
    <3> QED
      BY <3>1, <3>2
  <2> QED
    BY <1>3, <2>1, NoneKept
<1>9. /\ [i \in DOMAIN <<>> |-> <<>>[i].object] = <<>> /\ DOMAIN <<>> = {} /\ Len(<<>>) = 0 /\ Len(<<>>) <= MaxBytes
      /\ 1..(0 - 1) = {}
  BY BoundsFacts
<1>10. /\ o.text = SelectedText(range) /\ o.breaks = LineBreaks(range.start.at, range.end.at)
       /\ Len(o.text) <= MaxBytes
  BY <1>2, <1>3, <1>4, <1>5, <1>9
<1>11. LET items == Chained(o.pages, Len(o.pages))
       IN /\ [i \in DOMAIN items |-> items[i].object] = Only([i \in DOMAIN Objects |-> i], Selected(range))
          /\ \A i \in DOMAIN items :
               SubSeq(o.text, items[i].start + 1, items[i].end) = Objects[items[i].object].copy
          /\ o.count = Len(items)
          /\ \A i \in 1..(Len(o.pages) - 1) : Len(o.pages[i]) = policy.items
  BY <1>2, <1>7, <1>8, <1>9
<1>12. o.key.selection = range
  BY <1>1, <1>2
<1> QED
  BY <1>1, <1>6, <1>10, <1>11, <1>12 DEF WrittenRight

-----------------------------------------------------------------------------
(* The invariant of the merge.                                             *)

\* An operation merges until it asks for its write; a request for objects is made when
\* there are more to come; a begin is of a selection of the source; what is written is
\* right.
MergeInv ==
  /\ policy \in Policies
  /\ active # NoClip /\ active.state # "AwaitingWrite" => Merging(active)
  /\ outcome.do = "NeedObjectPage" /\ active.state = "CollectingObjects" =>
       ~active.complete /\ active.objects = NoPage
  /\ held.do = "Begin" => held.of.key.selection \in Selections
  /\ outcome.do = "Write" => WrittenRight(outcome)

\* What a step leaves of the operation and of what was asked of the host.
MergesOn ==
  /\ policy' = policy
  /\ active' # NoClip /\ active'.state # "AwaitingWrite" => Merging(active')
  /\ outcome'.do = "NeedObjectPage" /\ active'.state = "CollectingObjects" =>
       ~active'.complete /\ active'.objects = NoPage
  /\ outcome'.do = "Write" => WrittenRight(outcome')

LEMMA OverMerges ==
  ASSUME NEW result, Over(result), result.do # "Write", policy' = policy
  PROVE  MergesOn
<1>1. active' = NoClip /\ outcome' = result
  BY DEF Over
<1>2. active'.state = "Idle"
  BY <1>1, NoClipFacts
<1> QED
  BY <1>1, <1>2 DEF MergesOn

LEMMA SameMerges ==
  ASSUME MergeInv, UNCHANGED <<policy, active, outcome>>
  PROVE  MergesOn
  BY DEF MergeInv, MergesOn

\* It goes on with its pages.
LEMMA PageMerges ==
  ASSUME Merging(active'), policy' = policy, outcome'.do \notin {"NeedObjectPage", "Write"}
  PROVE  MergesOn
  BY DEF MergesOn

\* It asks for its write.
LEMMA WriteMerges ==
  ASSUME NEW b, Shaped(b), WrittenRight(Write(b)), active' = Written(b), outcome' = Write(b), policy' = policy
  PROVE  MergesOn
<1>1. active'.state = "AwaitingWrite"
  BY DEF Written, Shaped, ClipFields
<1>2. outcome'.do = "Write"
  BY DEF Write
<1> QED
  BY <1>1, <1>2 DEF MergesOn

LEMMA CompleteMerges ==
  ASSUME policy \in Policies, NEW a, Shaped(a), Merging(a), Between(a), AllDone(a), ~HasItems(a),
         Complete(a), policy' = policy
  PROVE  MergesOn
<1>1. PICK range : range = a.key.selection /\ range \in Selections
  BY DEF Merging
<1>2. ObjectsInTurn(a) /\ TextInTurn(a) /\ OutputInTurn(a) /\ ProvenanceInTurn(a) /\ EndsInTurn(a)
  BY DEF Merging
<1>3. /\ Done(a) = Ending(range) /\ a.textCursor = range.end.at /\ a.text = NoPage /\ a.builder = <<>>
      /\ Proven(range.start, a.startProven, a.startMet) /\ Proven(range.end, a.endProven, a.endMet)
  BY <1>1, AllDoneFacts DEF Between, AllDone, HasItems
<1>4. CASE a.phase = "Classifying"
  <2>1. PICK b : b = Restarted(a)
    OBVIOUS
  <2>2. /\ SameProvenance(a, b) /\ SameEnds(a, b) /\ b.text = NoPage
        /\ b.state = "CollectingText" /\ b.phase = "Collecting" /\ b.key = a.key
        /\ b.textCursor = range.start.at /\ b.target = range.end.at /\ b.builder = <<>>
    BY <1>1, <1>3, <2>1, RestartedFacts DEF SameObjects, SameProvenance
  <2>3. /\ ObjectsInTurn(b) /\ OutputInTurn(b) /\ ProvenanceInTurn(b) /\ EndsInTurn(b)
        /\ range.start.at # range.end.at => TextInTurn(b)
    BY <1>1, <1>4, <2>1, RestartedHolds
  <2>4. Shaped(b)
    BY <2>1 DEF Restarted, Shaped, ClipFields
  <2>5. CASE range.start.at # range.end.at
    <3>1. active' = b /\ outcome' = NeedTextPage(b.target)
      BY <1>4, <2>1, <2>2, <2>5 DEF Complete
    <3>2. Merging(b)
      BY <1>1, <2>2, <2>3, <2>5 DEF Merging
    <3> QED
      BY <3>1, <3>2, PageMerges, StepNames
  <2>6. CASE range.start.at = range.end.at
    <3>1. active' = Written(b) /\ outcome' = Write(b)
      BY <1>4, <2>1, <2>2, <2>6 DEF Complete
    <3>2. Done(b) = Ending(range) /\ Cursor(b) = range.end.at /\ Read(b) = range.end.at
      <4>1. Done(b) = Done(a)
        BY <2>2, DoneSame DEF SameProvenance
      <4> QED
        BY <1>3, <2>2, <2>6, <4>1 DEF Cursor, Read
    <3>3. b.page = NoPage
      BY <2>2, <2>3 DEF ProvenanceInTurn
    <3>4. Proven(range.start, b.startProven, b.startMet) /\ Proven(range.end, b.endProven, b.endMet)
      BY <1>3, <2>2 DEF SameEnds
    <3>5. Finished(b, range)
      BY <1>1, <2>2, <2>3, <3>2, <3>3, <3>4 DEF Finished
    <3> QED
      BY <2>4, <3>1, <3>5, FinishedWrites, WriteMerges
  <2> QED
    BY <2>5, <2>6
<1>5. CASE a.phase # "Classifying"
  <2>1. active' = Written(a) /\ outcome' = Write(a)
    BY <1>5 DEF Complete
  <2>2. a.phase = "Collecting" /\ a.page = NoPage
    BY <1>2, <1>5 DEF OutputInTurn, ProvenanceInTurn, Between
  <2>3. Cursor(a) = range.end.at /\ Read(a) = range.end.at
    BY <1>3 DEF Cursor, Read
  <2>4. Finished(a, range)
    BY <1>1, <1>2, <1>3, <2>2, <2>3 DEF Finished
  <2> QED
    BY <2>1, <2>4, FinishedWrites, WriteMerges
<1> QED
  BY <1>4, <1>5

LEMMA OpensMerges ==
  ASSUME policy \in Policies, NEW kind, NEW key, Opens(kind, key), key.selection \in Selections
  PROVE  MergesOn
<1>1. PICK a : a = Begun(kind, key)
  OBVIOUS
<1>2. Shaped(a) /\ New(a, key) /\ policy' = policy
  BY <1>1, BegunFacts DEF Begun, Shaped, ClipFields, Opens
<1>3. CASE key.selection.start = key.selection.end
  <2>1. Complete(a)
    BY <1>1, <1>3 DEF Opens
  <2>2. CASE a.phase = "Classifying"
    <3>1. PICK b : b = Restarted(a)
      OBVIOUS
    <3>2. /\ SameProvenance(a, b) /\ b.textCursor = key.selection.start.at /\ b.target = key.selection.end.at
          /\ b.output = <<>> /\ b.breaks = 0 /\ b.key = key
      BY <1>2, <3>1, RestartedFacts DEF SameObjects, New
    <3>3. Shaped(b)
      BY <1>2, <3>1 DEF Restarted, Shaped, ClipFields
    <3>4. active' = Written(b) /\ outcome' = Write(b)
      BY <1>3, <2>1, <2>2, <3>1, <3>2 DEF Complete
    <3>5. b.chain = <<>> /\ b.count = 0
      BY <1>2, <3>2 DEF SameProvenance, New
    <3>6. WrittenRight(Write(b))
      BY <1>3, <3>2, <3>5, NothingWrites
    <3> QED
      BY <1>2, <3>3, <3>4, <3>6, WriteMerges
  <2>3. CASE a.phase # "Classifying"
    <3>1. active' = Written(a) /\ outcome' = Write(a)
      BY <2>1, <2>3 DEF Complete
    <3>2. a.key = key /\ a.output = <<>> /\ a.breaks = 0 /\ a.chain = <<>> /\ a.count = 0
      BY <1>2 DEF New
    <3>3. WrittenRight(Write(a))
      BY <1>3, <3>2, NothingWrites
    <3> QED
      BY <1>2, <3>1, <3>3, WriteMerges
  <2> QED
    BY <2>2, <2>3
<1>4. CASE key.selection.start # key.selection.end
  <2>1. active' = a /\ outcome'.do = "NeedObjectPage"
    BY <1>1, <1>4, StepNames DEF Opens
  <2>2. Merging(a)
    BY <1>2, BegunHolds
  <2>3. ~a.complete /\ a.objects = NoPage
    BY <1>2 DEF New
  <2> QED
    BY <1>2, <2>1, <2>2, <2>3 DEF MergesOn
<1> QED
  BY <1>3, <1>4

LEMMA WorkMerges ==
  ASSUME ClipInv, MergeInv, HasWork
  PROVE  Shaped(active) /\ Merging(active) /\ Works(active)
<1>1. active # NoClip /\ active.state \in Working
  BY NoClipFacts
<1>2. active.state # "AwaitingWrite"
  BY <1>1 DEF Working
<1> QED
  BY <1>1, <1>2 DEF ClipInv, Shapes, MergeInv, HasWork, Works

LEMMA PerformMerges ==
  ASSUME ClipInv, MergeInv, HasWork, NEW step, step = NextStep(active), Perform(step), policy' = policy
  PROVE  MergesOn
<1>1. Shaped(active) /\ Merging(active) /\ Works(active) /\ policy \in Policies /\ step.do \in StepKinds
  BY WorkMerges, NextStepKind DEF MergeInv
<1>2. CASE step.do = "Terminal" /\ Over(step)
  BY <1>2, OverMerges
<1>3. CASE step.do = "CompleteCollection" /\ Complete(active) /\ UNCHANGED terminal
  <2>1. Between(active) /\ Completes(active, step)
    <3>1. ~Halts(step)
      BY <1>3 DEF Halts
    <3>2. ~OnText(active, step) /\ ~OnObjects(active, step) /\ ~Emitting(active, step)
      BY <1>3, CaseNames
    <3> QED
      BY <1>1, <3>1, <3>2, NextCases
  <2> QED
    BY <1>1, <1>3, <2>1, CompleteMerges DEF Completes
<1>4. CASE /\ step.do \notin {"Terminal", "CompleteCollection"}
           /\ active' = Successor(active, step)
           /\ outcome' = Progress(active, step)
           /\ UNCHANGED terminal
  <2>1. step.do \in Proceeding
    BY <1>1, <1>4 DEF StepKinds
  <2>2. Merging(active') /\ (step.do = "NeedObjectPage" => MoreObjects(active, step))
    BY <1>1, <1>4, <2>1, StepMerges
  <2>3. CASE step.do = "NeedObjectPage"
    <3>1. active' = active /\ outcome' = step
      BY <1>4, <2>3 DEF Successor, Progress
    <3>2. ~active.complete /\ active.objects = NoPage
      BY <2>2, <2>3 DEF MoreObjects
    <3> QED
      BY <2>2, <2>3, <3>1, <3>2 DEF MergesOn
  <2>4. CASE step.do # "NeedObjectPage"
    <3>1. outcome'.do \in {"NeedTextPage", "None"}
      BY <1>4, <2>4, StepNames, NoClipFacts DEF Progress
    <3> QED
      BY <2>2, <3>1, PageMerges
  <2> QED
    BY <2>3, <2>4
<1>5. CASE Allocates(step) /\ Over(Finish("AllocationFailed"))
  BY <1>5, OverMerges, StepNames
<1> QED
  BY <1>2, <1>3, <1>4, <1>5 DEF Perform

LEMMA AdvanceMerges ==
  ASSUME ClipInv, MergeInv, Advance
  PROVE  MergesOn
  BY PerformMerges DEF Advance

LEMMA CommitMerges ==
  ASSUME ClipInv, MergeInv, Commit
  PROVE  MergesOn
<1>1. HasWork /\ held.of = NextStep(active)
  BY DEF Commit, ClipInv, StepIsNext
<1> QED
  BY <1>1, PerformMerges DEF Commit

LEMMA BeginsMerge ==
  ASSUME MergeInv
  PROVE  /\ \A id, kind : \A selection \in Selections : Begin(id, kind, selection) => MergesOn
         /\ CommitBegin => MergesOn
<1>1. ASSUME NEW id, NEW kind, NEW selection \in Selections, Begin(id, kind, selection) PROVE MergesOn
  <2>1. Key(id, selection).selection = selection
    BY DEF Key
  <2> QED
    BY <1>1, <2>1, OpensMerges DEF Begin, MergeInv
<1>2. ASSUME CommitBegin PROVE MergesOn
  BY <1>2, OpensMerges DEF CommitBegin, BeginsHere, MergeInv
<1> QED
  BY <1>1, <1>2

LEMMA RequestsMerge ==
  ASSUME ClipInv, MergeInv, Requests
  PROVE  MergesOn
<1>1. CASE RequestText
  <2>1. Shaped(active) /\ Merging(active) /\ active.state = "CollectingText"
    BY <1>1, NoClipFacts DEF RequestText, ClipInv, Shapes, MergeInv
  <2>2. Merging(active')
    BY <1>1, <2>1, TextAsked DEF RequestText
  <2> QED
    BY <1>1, <2>2, NoClipFacts, PageMerges DEF RequestText
<1>2. CASE RequestObjects
  <2>1. Shaped(active) /\ Merging(active) /\ active.state = "CollectingObjects" /\ ~active.complete
    BY <1>2, NoClipFacts DEF RequestObjects, ClipInv, Shapes, MergeInv
  <2>2. Merging(active')
    BY <1>2, <2>1, ObjectsAsked DEF RequestObjects
  <2> QED
    BY <1>2, <2>2, NoClipFacts, PageMerges DEF RequestObjects
<1> QED
  BY <1>1, <1>2 DEF Requests

\* Only an operation that merges waits for a page.
LEMMA PagesMerge ==
  ASSUME ClipInv, MergeInv
  PROVE  /\ \A hi \in Cuts : AdmitText(hi) => MergesOn
         /\ \A n \in Nat, complete \in BOOLEAN : AdmitObjects(n, complete) => MergesOn
<1>1. ASSUME active.state # "Idle", active.pendingText # Null \/ active.pendingObjects # Null
      PROVE  Shaped(active) /\ Merging(active)
  <2>1. active # NoClip /\ active.state # "AwaitingWrite"
    BY <1>1, NoClipFacts DEF ClipInv, Writes
  <2> QED
    BY <2>1 DEF ClipInv, Shapes, MergeInv
<1>2. ASSUME NEW hi \in Cuts, AdmitText(hi) PROVE MergesOn
  <2>1. Shaped(active) /\ Merging(active) /\ active.pendingText # Null /\ active.text = NoPage /\ hi > active.textCursor
    BY <1>1, <1>2 DEF AdmitText
  <2>2. PICK a, end : a = active /\ end = (IF hi < a.target THEN hi ELSE a.target)
    OBVIOUS
  <2>3. PICK breaks, page :
          /\ breaks = a.breaks + (IF a.phase = "Collecting" THEN LineBreaks(a.textCursor, end) ELSE 0)
          /\ page = [lo |-> a.textCursor, hi |-> hi, end |-> end, cursor |-> a.textCursor, next |-> 1]
    OBVIOUS
  <2>4. active' = [a EXCEPT !.breaks = breaks, !.text = <<page>>] /\ policy' = policy /\ outcome' = NoStep
    BY <1>2, <2>2, <2>3 DEF AdmitText, BreaksRead
  <2>5. Merging(active')
    <3>1. Shaped(a) /\ Merging(a) /\ a.pendingText # Null /\ a.text = NoPage /\ hi > a.textCursor
      BY <2>1, <2>2
    <3>2. PICK b : b = active'
      OBVIOUS
    <3>3. b = [a EXCEPT !.breaks = breaks, !.text = <<page>>] /\ hi \in Cuts
      BY <1>2, <2>4, <3>2
    <3>4. Merging(b)
      BY ONLY <2>2, <2>3, <3>1, <3>3, TextAnswered, ZenonT(40)
    <3> QED
      BY <3>2, <3>4
  <2> QED
    BY <2>4, <2>5, NoClipFacts, PageMerges
<1>3. ASSUME NEW n \in Nat, NEW complete \in BOOLEAN, AdmitObjects(n, complete) PROVE MergesOn
  <2>1. Shaped(active) /\ Merging(active) /\ active.pendingObjects # Null /\ active.objects = NoPage
    BY <1>1, <1>3 DEF AdmitObjects
  <2>2. PICK a, eligible : a = active /\ eligible = Eligible(a.key.selection, a.objectCursor)
    OBVIOUS
  <2>3. PICK page : page = [facts |-> SubSeq(eligible, 1, n), complete |-> complete,
                            continuation |-> IF complete THEN Null ELSE eligible[n].id]
    OBVIOUS
  <2>4. /\ active' = [a EXCEPT !.objects = <<page>>] /\ policy' = policy /\ outcome' = NoStep
        /\ n <= Len(eligible) /\ (IF complete THEN n = Len(eligible) ELSE n > 0)
    BY <1>3, <2>2, <2>3 DEF AdmitObjects
  <2>5. Merging(active')
    BY <2>1, <2>2, <2>3, <2>4, ObjectsAnswered
  <2> QED
    BY <2>4, <2>5, NoClipFacts, PageMerges
<1> QED
  BY <1>2, <1>3

LEMMA AcknowledgePageMerges ==
  ASSUME ClipInv, MergeInv, AcknowledgePage
  PROVE  MergesOn
<1>1. CASE Over(Finish("Collision"))
  BY <1>1, OverMerges, StepNames DEF AcknowledgePage
<1>2. CASE active' = Acknowledged(active) /\ outcome' = NoStep
  <2>1. active.state = "AwaitingProvenancePage" /\ active # NoClip
    BY NoClipFacts DEF AcknowledgePage
  <2>2. Shaped(active) /\ Merging(active)
    BY <2>1 DEF ClipInv, Shapes, MergeInv
  <2>3. Merging(active')
    BY <1>2, <2>1, <2>2, PageAcknowledged
  <2> QED
    BY <1>2, <2>3, NoClipFacts, PageMerges DEF AcknowledgePage
<1> QED
  BY <1>1, <1>2 DEF AcknowledgePage

LEMMA AcknowledgeWriteMerges ==
  ASSUME NEW written, AcknowledgeWrite(written)
  PROVE  MergesOn
<1>1. PICK result : /\ result = IF Deletes(written)
                                THEN [do |-> "Delete", key |-> active.key, breaks |-> active.breaks]
                                ELSE Finish(written)
  OBVIOUS
<1>2. result.do # "Write"
  <2>1. CASE Deletes(written)
    BY <1>1, <2>1
  <2>2. CASE ~Deletes(written)
    <3>1. result.do = "Terminal"
      BY <1>1, <2>2, StepNames
    <3> QED
      BY <3>1
  <2> QED
    BY <2>1, <2>2
<1> QED
  BY <1>1, <1>2, OverMerges DEF AcknowledgeWrite

LEMMA NextMerges ==
  ASSUME ClipInv, MergeInv, [Next]_vars
  PROVE  MergesOn
<1>1. CASE Advance BY <1>1, AdvanceMerges
<1>2. CASE Requests BY <1>2, RequestsMerge
<1>3. CASE Answers
  <2>1. \A n \in 0..MaxObjects : n \in Nat
    OBVIOUS
  <2> QED
    BY <1>3, <2>1, PagesMerge, AcknowledgePageMerges, AcknowledgeWriteMerges DEF Answers
<1>4. ASSUME NEW id, NEW kind, NEW selection \in Selections, Begin(id, kind, selection) PROVE MergesOn
  BY <1>4, BeginsMerge
<1>5. ASSUME NEW id, NEW kind, NEW selection, PrepareBegin(id, kind, selection) PROVE MergesOn
  BY <1>5, SameMerges DEF PrepareBegin
<1>6. CASE CommitBegin BY <1>6, BeginsMerge
<1>7. CASE Prepare BY <1>7, SameMerges DEF Prepare
<1>8. CASE Commit BY <1>8, CommitMerges
<1>9. ASSUME NEW completion, AdmitFlawed(completion) PROVE MergesOn
  BY <1>9, OverMerges, StepNames DEF AdmitFlawed
<1>10. ASSUME NEW completion, SettlePage(completion) PROVE MergesOn
  BY <1>10, OverMerges, StepNames DEF SettlePage
<1>11. CASE Cancel BY <1>11, OverMerges, StepNames DEF Cancel
<1>12. CASE Rebind
  <2>1. CASE active = NoClip
    BY <1>12, <2>1, SameMerges DEF Rebind
  <2>2. CASE active # NoClip
    BY <1>12, <2>2, OverMerges, StepNames DEF Rebind
  <2> QED
    BY <2>1, <2>2
<1>13. CASE UNCHANGED vars BY <1>13, SameMerges DEF vars
<1> QED
  BY <1>1, <1>2, <1>3, <1>4, <1>5, <1>6, <1>7, <1>8, <1>9, <1>10, <1>11, <1>12, <1>13 DEF Next

\* A begin that is held is of a selection of the source.
HeldBegins == held'.do = "Begin" => held'.of.key.selection \in Selections

LEMMA HeldSame ==
  ASSUME ClipInv, MergeInv, held' \in {NoStep, Stale(held), held}
  PROVE  HeldBegins
<1>1. CASE held' = NoStep
  BY <1>1, NoClipFacts DEF HeldBegins
<1>2. CASE held' = held
  BY <1>2 DEF HeldBegins, MergeInv
<1>3. CASE held' = Stale(held) /\ held # NoStep
  <2>1. held' = [held EXCEPT !.fresh = FALSE] /\ Prepared(held)
    BY <1>3 DEF Stale, ClipInv, Shapes
  <2>2. held'.do = held.do /\ held'.of = held.of
    BY <2>1 DEF Prepared
  <2> QED
    BY <2>2 DEF HeldBegins, MergeInv
<1>4. CASE held' = Stale(held) /\ held = NoStep
  BY <1>1, <1>4 DEF Stale
<1> QED
  BY <1>1, <1>2, <1>3, <1>4

LEMMA NextBegins ==
  ASSUME ClipInv, MergeInv, [Next]_vars
  PROVE  HeldBegins
<1>1. CASE Advance BY <1>1, HeldSame DEF Advance
<1>2. CASE Requests BY <1>2, HeldSame DEF Requests, RequestText, RequestObjects
<1>3. CASE Answers
  <2>1. ASSUME NEW hi, AdmitText(hi) PROVE HeldBegins
    BY <2>1, HeldSame DEF AdmitText
  <2>2. ASSUME NEW n, NEW complete, AdmitObjects(n, complete) PROVE HeldBegins
    BY <2>2, HeldSame DEF AdmitObjects
  <2>3. CASE AcknowledgePage
    <3>1. CASE held' = Token("Step", NextStep(active'))
      <4>1. held'.do = "Step"
        BY <3>1, TokenFacts
      <4> QED
        BY <4>1 DEF HeldBegins
    <3>2. CASE held' = held
      BY <3>2, HeldSame
    <3> QED
      BY <2>3, <3>1, <3>2 DEF AcknowledgePage
  <2>4. ASSUME NEW written, AcknowledgeWrite(written) PROVE HeldBegins
    BY <2>4, HeldSame DEF AcknowledgeWrite
  <2> QED
    BY <1>3, <2>1, <2>2, <2>3, <2>4 DEF Answers
<1>4. ASSUME NEW id, NEW kind, NEW selection, Begin(id, kind, selection) PROVE HeldBegins
  BY <1>4, HeldSame DEF Begin
<1>5. ASSUME NEW id, NEW kind, NEW selection \in Selections, PrepareBegin(id, kind, selection)
      PROVE  HeldBegins
  <2>1. held'.of = [kind |-> kind, key |-> Key(id, selection)]
    BY <1>5, TokenFacts DEF PrepareBegin
  <2> QED
    BY <2>1 DEF HeldBegins, Key
<1>6. CASE CommitBegin BY <1>6, HeldSame DEF CommitBegin
<1>7. CASE Prepare
  <2>1. held'.do = "Step"
    BY <1>7, TokenFacts DEF Prepare
  <2> QED
    BY <2>1 DEF HeldBegins
<1>8. CASE Commit BY <1>8, HeldSame DEF Commit
<1>9. ASSUME NEW completion, AdmitFlawed(completion) PROVE HeldBegins
  BY <1>9, HeldSame DEF AdmitFlawed
<1>10. ASSUME NEW completion, SettlePage(completion) PROVE HeldBegins
  BY <1>10, HeldSame DEF SettlePage
<1>11. CASE Cancel BY <1>11, HeldSame DEF Cancel
<1>12. CASE Rebind BY <1>12, HeldSame DEF Rebind
<1>13. CASE UNCHANGED vars BY <1>13, HeldSame DEF vars
<1> QED
  BY <1>1, <1>2, <1>3, <1>4, <1>5, <1>6, <1>7, <1>8, <1>9, <1>10, <1>11, <1>12, <1>13 DEF Next

\* The policy does not change, so neither does what is said of an operation or a write.
LEMMA SaidLater ==
  ASSUME policy' = policy
  PROVE  Merging(active)' = Merging(active') /\ WrittenRight(outcome)' = WrittenRight(outcome')
<1>1. ObjectsInTurn(active)' = ObjectsInTurn(active') /\ EndsInTurn(active)' = EndsInTurn(active')
  OBVIOUS
<1>2. TextInTurn(active)' = TextInTurn(active')
  BY DEF TextInTurn, Full
<1>3. OutputInTurn(active)' = OutputInTurn(active')
  BY DEF OutputInTurn
<1>4. ProvenanceInTurn(active)' = ProvenanceInTurn(active')
  BY DEF ProvenanceInTurn
<1>5. WrittenRight(outcome)' = WrittenRight(outcome')
  BY DEF WrittenRight
<1> QED
  BY <1>1, <1>2, <1>3, <1>4, <1>5 DEF Merging

LEMMA MergeInit == ASSUME Init PROVE MergeInv
  BY NoClipFacts DEF Init, MergeInv

LEMMA MergeStep == ASSUME ClipInv, MergeInv, [Next]_vars PROVE MergeInv'
<1>1. MergesOn /\ HeldBegins
  BY NextMerges, NextBegins
<1>2. policy' = policy
  BY <1>1 DEF MergesOn
<1>3. Merging(active)' = Merging(active') /\ WrittenRight(outcome)' = WrittenRight(outcome')
  BY <1>2, SaidLater
<1>4. policy' \in Policies
  BY <1>2 DEF MergeInv
<1> QED
  BY <1>1, <1>3, <1>4 DEF MergesOn, HeldBegins, MergeInv

\* The text appended so far is the selection's up to where the merge is, whatever pages it
\* came in, and its items are those of the objects that were taken (collection.rs
\* prepare_text_response_step, prepare_merge_step, commit_prepared).
THEOREM MergeInvariant == Spec => []MergeInv
  BY MergeInit, MergeStep, ClipInvariant, PTL DEF Spec

\* The text, its line breaks and the provenance that the host is asked to write are those
\* of the selection (collection.rs complete_collection, provenance.rs
\* ProvenanceCollection::closure).
THEOREM WrittenIsSelectedHolds == Spec => []WrittenIsSelected
<1>1. ClipInv /\ MergeInv => WrittenIsSelected
  <2> SUFFICES ASSUME ClipInv, MergeInv, outcome.do = "Write" PROVE WrittenIsSelected
    BY DEF WrittenIsSelected
  <2>1. WrittenRight(outcome)
    BY DEF MergeInv
  <2>2. outcome.key.binding = binding
    <3>1. active.state = "AwaitingWrite" /\ active # NoClip
      BY NoClipFacts DEF ClipInv, Writes
    <3> QED
      BY <3>1 DEF ClipInv, Writes, OfThisBinding
  <2> QED
    BY <2>1, <2>2 DEF WrittenIsSelected, WrittenRight
<1> QED
  BY ClipInvariant, MergeInvariant, <1>1, PTL

-----------------------------------------------------------------------------
(* A selection of the source is never called malformed.                    *)

Malformed == Finish("Malformed")

LEMMA Distinct ==
  /\ \A name : name # "Terminal" => Do(name) # Malformed
  /\ Finish("Propagate") # Malformed /\ Finish("TooLarge") # Malformed
  /\ \A target : NeedTextPage(target) # Malformed
  /\ \A step : step.do # "Terminal" => step # Malformed
<1>1. Malformed.do = "Terminal" /\ Malformed.completion = "Malformed"
  BY DEF Malformed, Finish
<1>2. Finish("Propagate").completion = "Propagate" /\ Finish("TooLarge").completion = "TooLarge"
  BY DEF Finish
<1>3. \A name : name # "Terminal" => Do(name) # Malformed
  BY <1>1, StepNames
<1>4. \A target : NeedTextPage(target) # Malformed
  BY <1>1, StepNames
<1> QED
  BY <1>1, <1>2, <1>3, <1>4

LEMMA RoomStands ==
  ASSUME NEW a, NEW length, NEW step, step # Malformed
  PROVE  WithRoom(a, length, step) # Malformed
  BY Distinct DEF WithRoom

\* An atom of the selection is all in it, and no object is inside.
LEMMA SoundAtom ==
  ASSUME NEW range, Sound(range), NEW j \in 1..Len(Atoms),
         Atoms[j].lo < range.end.at, range.start.at < Atoms[j].hi
  PROVE  /\ range.start.at <= Atoms[j].lo /\ Atoms[j].hi <= range.end.at
         /\ \A i \in 1..Len(Objects) : ~(Atoms[j].lo < Objects[i].at /\ Objects[i].at < Atoms[j].hi)
  BY SourceFacts DEF Sound

\* The next atom of a page, when the merge is in front of it.
Faces(a, page, range, p, atom, j, q, r) ==
  /\ j \in 1..Len(Atoms) /\ atom = Atoms[j] /\ atom.id # Null
  /\ atom.lo \in Nat /\ atom.hi \in Nat /\ atom.lo < atom.hi
  /\ q = FragmentStart(atom, page.lo) /\ q \in Nat /\ p <= q /\ atom.lo <= q /\ q < page.end
  /\ q = (IF atom.lo < page.lo THEN page.lo ELSE atom.lo)
  /\ r = FragmentEnd(atom, page.hi) /\ r \in Nat
  /\ r = (IF atom.hi > page.hi THEN page.hi ELSE atom.hi)
  /\ page.lo < atom.hi

LEMMA FacesNext ==
  ASSUME NEW a, NEW page, NEW range, NEW p, OnPage(a, page, range, p), NEW atom, OnAtom(Paged(a), atom)
  PROVE  \E j, q, r : Faces(a, page, range, p, atom, j, q, r)
<1>1. PICK lo, hi, s, n : lo = page.lo /\ hi = page.hi /\ s = Fragments(lo, hi) /\ n = page.next
  OBVIOUS
<1>2. lo \in Nat /\ hi \in Nat /\ lo < hi /\ Aligned(page, p, n) /\ p \in Nat
  BY <1>1 DEF OnPage
<1>3. n \in DOMAIN s /\ atom = s[n] /\ FragmentStart(atom, lo) < page.end
  BY <1>1 DEF OnAtom, OnPage, StartsOn
<1>4. Fragmented(s, lo, hi)
  BY <1>1, <1>2, FragmentFacts
<1>5. n \in 1..Len(s) /\ Len(s) \in Nat
  BY <1>3, <1>4 DEF Fragmented
<1>6. PICK j \in 1..Len(Atoms) : atom = Atoms[j]
  BY <1>3, <1>4, <1>5 DEF Fragmented
<1>7. /\ atom.lo \in Nat /\ atom.hi \in Nat /\ atom.lo < atom.hi /\ lo < atom.hi /\ atom.id # Null
      /\ FragmentStart(atom, lo) \in Nat /\ atom.lo <= FragmentStart(atom, lo)
      /\ FragmentEnd(atom, hi) \in Nat
  BY <1>1, <1>2, <1>3, <1>5, FragmentAt
<1>8. p <= FragmentStart(atom, lo)
  <2>1. \A i \in 1..Len(s) : IF i < n THEN FragmentEnd(s[i], page.hi) <= p ELSE p <= FragmentStart(s[i], page.lo)
    BY <1>1, <1>2 DEF Aligned
  <2>2. ~(n < n)
    BY <1>5
  <2> QED
    BY <1>1, <1>3, <1>5, <2>1, <2>2
<1>9. /\ FragmentStart(atom, lo) = (IF atom.lo < lo THEN lo ELSE atom.lo)
      /\ FragmentEnd(atom, hi) = (IF atom.hi > hi THEN hi ELSE atom.hi)
  BY DEF FragmentStart, FragmentEnd
<1>10. Faces(a, page, range, p, atom, j, FragmentStart(atom, lo), FragmentEnd(atom, hi))
  BY <1>1, <1>3, <1>6, <1>7, <1>8, <1>9 DEF Faces
<1> QED
  BY <1>10

\* The atom ends on the page or behind what is demanded of it, and is in the selection.
LEMMA FacesSound ==
  ASSUME NEW a, Merging(a), a.text # NoPage, NEW page, NEW range, NEW p, OnPage(a, page, range, p),
         Sound(range), NEW atom, NEW j, NEW q, NEW r, Faces(a, page, range, p, atom, j, q, r)
  PROVE  r <= page.end /\ range.start.at <= atom.lo /\ atom.hi <= range.end.at
<1>1. /\ page.lo \in Nat /\ page.hi \in Nat /\ page.end \in Nat /\ page = a.text[1] /\ range = a.key.selection
  BY DEF OnPage
<1>2. PICK g : g = a.target
  OBVIOUS
<1>3. /\ page.end = (IF page.hi < g THEN page.hi ELSE g) /\ g \in Nat /\ g <= range.end.at /\ page.end <= g
      /\ page.lo = a.textCursor /\ Targets(a)
  BY <1>1, <1>2, PageFacts
<1>4. range \in Selections /\ range.start.at \in Nat /\ range.end.at \in Nat /\ range.start.at <= page.lo
  <2>1. range \in Selections /\ range.start.at <= a.textCursor
    BY <1>1, PlaceFacts
  <2> QED
    BY <1>3, <2>1, SelectionFacts
<1>5. /\ j \in 1..Len(Atoms) /\ atom = Atoms[j] /\ atom.lo \in Nat /\ atom.hi \in Nat /\ q \in Nat /\ r \in Nat
      /\ atom.lo <= q /\ q < page.end /\ page.lo < atom.hi
      /\ r = (IF atom.hi > page.hi THEN page.hi ELSE atom.hi)
  BY DEF Faces
<1>6. atom.lo < g /\ atom.lo < range.end.at /\ range.start.at < atom.hi
  <2>1. PICK alo, ahi, plo, pe, st, en : /\ alo = atom.lo /\ ahi = atom.hi /\ plo = page.lo /\ pe = page.end
                                         /\ st = range.start.at /\ en = range.end.at
    OBVIOUS
  <2>2. alo \in Nat /\ ahi \in Nat /\ plo \in Nat /\ pe \in Nat /\ st \in Nat /\ en \in Nat /\ g \in Nat /\ q \in Nat
    BY <1>1, <1>3, <1>4, <1>5, <2>1
  <2>3. alo <= q /\ q < pe /\ pe <= g /\ g <= en
    BY <1>3, <1>5, <2>1
  <2>4. st <= plo /\ plo < ahi
    BY <1>4, <1>5, <2>1
  <2>5. alo < g /\ alo < en /\ st < ahi
    BY ONLY <2>2, <2>3, <2>4
  <2> QED
    BY <2>1, <2>5
<1>7. /\ range.start.at <= atom.lo /\ atom.hi <= range.end.at
      /\ \A i \in 1..Len(Objects) : ~(atom.lo < Objects[i].at /\ Objects[i].at < atom.hi)
  BY <1>5, <1>6, SoundAtom
<1>8. atom.hi <= g
  <2>1. g = range.end.at \/ \E i \in 1..Len(Objects) : g = Objects[i].at
    BY <1>1, <1>2, <1>3 DEF Targets
  <2>2. CASE g = range.end.at
    BY <1>7, <2>2
  <2>3. ASSUME NEW i \in 1..Len(Objects), g = Objects[i].at PROVE atom.hi <= g
    <3>1. ~(g < atom.hi)
      BY <1>6, <1>7, <2>3
    <3> QED
      BY <1>3, <1>5, <3>1
  <2> QED
    BY <2>1, <2>2, <2>3
<1>9. r <= page.end
  BY <1>1, <1>3, <1>5, <1>8
<1> QED
  BY <1>7, <1>9

LEMMA AtomStands ==
  ASSUME NEW a, Merging(a), a.text # NoPage, a.phase = "Collecting",
         NEW page, NEW range, NEW p, OnPage(a, page, range, p), Sound(range),
         NEW atom, OnAtom(Paged(a), atom)
  PROVE  AtomStep(Paged(a), atom) # Malformed
<1>1. PICK j, q, r : Faces(a, page, range, p, atom, j, q, r)
  BY FacesNext
<1>2. r <= page.end /\ range.start.at <= atom.lo /\ atom.hi <= range.end.at
  BY <1>1, FacesSound
<1>3. /\ j \in 1..Len(Atoms) /\ atom = Atoms[j] /\ atom.id # Null /\ atom.lo \in Nat /\ atom.hi \in Nat
      /\ atom.lo < atom.hi /\ q \in Nat /\ r \in Nat /\ p <= q /\ atom.lo <= q /\ page.lo < atom.hi
      /\ q = FragmentStart(atom, page.lo) /\ r = FragmentEnd(atom, page.hi)
      /\ q = (IF atom.lo < page.lo THEN page.lo ELSE atom.lo)
  BY <1>1 DEF Faces
<1>4. /\ p = page.cursor /\ p \in Nat /\ page.lo \in Nat /\ page.lo <= p /\ page.end \in Nat
      /\ range = a.key.selection /\ page = a.text[1]
  BY DEF OnPage
<1>5. range.start.at \in Nat /\ range.end.at \in Nat
  BY <1>4, SelectionFacts DEF Merging
<1>6. ~(q < p) /\ ~(r > page.end) /\ ~(atom.lo < range.start.at) /\ ~(atom.hi > range.end.at)
  <2>1. PICK alo, ahi, pe, st, en : /\ alo = atom.lo /\ ahi = atom.hi /\ pe = page.end
                                    /\ st = range.start.at /\ en = range.end.at
    OBVIOUS
  <2>2. /\ alo \in Nat /\ ahi \in Nat /\ pe \in Nat /\ st \in Nat /\ en \in Nat
        /\ p \in Nat /\ q \in Nat /\ r \in Nat
    BY <1>3, <1>4, <1>5, <2>1
  <2>3. p <= q /\ r <= pe /\ st <= alo /\ ahi <= en
    BY <1>2, <1>3, <2>1
  <2>4. ~(q < p) /\ ~(r > pe) /\ ~(alo < st) /\ ~(ahi > en)
    BY ONLY <2>2, <2>3
  <2> QED
    BY <2>1, <2>4
<1>7. Cursor(a) = p
  BY <1>4 DEF Cursor
<1>8. OpenAt(a.open, range, p)
  BY <1>4, <1>7 DEF Merging, OutputInTurn, OpenAt
<1>9. ASSUME NEW k \in 1..Len(Atoms), Opened(range, p, k), p = q PROVE k = j
  <2>1. Atoms[k].lo \in Nat /\ Atoms[k].hi \in Nat /\ Atoms[k].lo < p /\ p < Atoms[k].hi
    BY <1>9, AtomFacts DEF Opened
  <2>2. atom.lo <= p /\ p < atom.hi
    BY <1>3, <1>9
  <2>3. Atoms[k].lo < Atoms[j].hi /\ Atoms[j].lo < Atoms[k].hi
    BY <1>3, <1>4, <2>1, <2>2, SMTT(40)
  <2> QED
    BY <1>3, <2>3, AtomFacts
<1>10. ASSUME ~(p < q), atom.lo < page.lo PROVE a.open = atom.id
  <2>1. p = q /\ p = page.lo
    BY <1>3, <1>4, <1>6, <1>10
  <2>2. Opened(range, p, j)
    BY <1>2, <1>3, <1>10, <2>1 DEF Opened
  <2>3. PICK k \in 1..Len(Atoms) : Opened(range, p, k) /\ Atoms[k].id = a.open
    BY <1>3, <1>8, <2>2 DEF OpenAt
  <2>4. k = j
    BY <1>9, <2>1, <2>3
  <2> QED
    BY <1>3, <2>3, <2>4
<1>11. ASSUME ~(p < q), ~(atom.lo < page.lo) PROVE a.open = Null
  <2> SUFFICES ASSUME a.open # Null PROVE FALSE
    OBVIOUS
  <2>1. p = q /\ p = atom.lo
    BY <1>3, <1>4, <1>6, <1>11
  <2>2. PICK k \in 1..Len(Atoms) : Opened(range, p, k)
    BY <1>8 DEF OpenAt
  <2>3. k = j
    BY <1>9, <2>1, <2>2
  <2>4. atom.lo < p
    BY <1>3, <2>2, <2>3 DEF Opened
  <2> QED
    BY <1>3, <2>1, <2>4
<1>12. PICK b : b = Paged(a)
  OBVIOUS
<1>13. b.text = page /\ b.open = a.open /\ b.key = a.key
  BY <1>12 DEF OnPage
<1>14. PICK step : step = AtomStep(b, atom)
  OBVIOUS
<1>15. CASE p < q
  <2>1. step = WithRoom(b, q - p, AppendText(b, q))
    BY <1>3, <1>4, <1>6, <1>13, <1>14, <1>15 DEF AtomStep
  <2>2. AppendText(b, q) # Malformed
    <3>1. AppendText(b, q).do = "AppendText"
      BY DEF AppendText
    <3> QED
      BY <3>1, Distinct
  <2> QED
    BY <1>12, <1>14, <2>1, <2>2, RoomStands
<1>16. CASE ~(p < q) /\ atom.lo < page.lo
  <2>1. step = [do |-> "AdvanceAtom", end |-> r, closes |-> atom.hi <= page.hi]
    BY <1>3, <1>4, <1>6, <1>10, <1>13, <1>14, <1>16 DEF AtomStep
  <2>2. step.do = "AdvanceAtom"
    BY <2>1
  <2> QED
    BY <1>12, <1>14, <2>2, Distinct
<1>17. CASE ~(p < q) /\ ~(atom.lo < page.lo)
  <2>1. PICK append : append = [do |-> "AppendAtom", atom |-> atom, end |-> r, opens |-> atom.hi > page.hi]
    OBVIOUS
  <2>2. step = WithRoom(b, Len(atom.copy), append)
    BY <1>3, <1>4, <1>6, <1>11, <1>13, <1>14, <1>17, <2>1 DEF AtomStep
  <2>3. append # Malformed
    <3>1. append.do = "AppendAtom"
      BY <2>1
    <3> QED
      BY <3>1, Distinct
  <2> QED
    BY <1>12, <1>14, <2>2, <2>3, RoomStands
<1> QED
  BY <1>15, <1>16, <1>17

LEMMA TextStands ==
  ASSUME NEW a, Shaped(a), Merging(a), a.text # NoPage, Sound(a.key.selection)
  PROVE  TextStep(Paged(a)) # Malformed
<1>1. PICK page, range, p : OnPage(a, page, range, p)
  BY OnPageFacts
<1>2. PICK b, s : b = Paged(a) /\ s = Fragments(page.lo, page.hi)
  OBVIOUS
<1>3. b.text = page /\ b.phase = a.phase /\ b.open = a.open /\ Sound(range) /\ p = page.cursor
      /\ range = a.key.selection /\ a.text[1] = page
  BY <1>1, <1>2 DEF OnPage
<1>4. CASE a.phase = "Classifying"
  <2>1. TextStep(b) \in {Finish("Propagate"), Do("FinishText")}
    BY <1>3, <1>4 DEF TextStep
  <2> QED
    BY <1>2, <2>1, Distinct
<1>5. CASE a.phase # "Classifying"
  <2>1. a.phase = "Collecting"
    BY <1>5 DEF Merging, OutputInTurn
  <2>2. CASE b.text.next \in DOMAIN s /\ StartsOn(b.text, s[b.text.next])
    <3>1. PICK atom : atom = s[b.text.next]
      OBVIOUS
    <3>2. OnAtom(b, atom)
      BY <1>2, <1>3, <1>5, <2>2, <3>1 DEF OnAtom
    <3>3. TextStep(b) = AtomStep(b, atom)
      BY <1>2, <1>3, <1>5, <2>2, <3>1 DEF TextStep
    <3> QED
      BY <1>1, <1>2, <1>3, <2>1, <3>2, <3>3, AtomStands
  <2>3. CASE ~(b.text.next \in DOMAIN s /\ StartsOn(b.text, s[b.text.next]))
    <3>1. ~(b.open # Null /\ s = <<>>)
      <4> SUFFICES ASSUME a.open # Null, s = <<>> PROVE FALSE
        BY <1>3
      <4>1. Cursor(a) = p
        BY <1>3 DEF Cursor
      <4>2. PICK j \in 1..Len(Atoms) : Opened(range, p, j)
        BY <1>3, <2>1, <4>1 DEF Merging, OutputInTurn
      <4>3. /\ page.lo \in Nat /\ page.hi \in Nat /\ p \in Nat /\ page.lo <= p /\ p <= page.end /\ page.end <= page.hi
            /\ page.end \in Nat
        BY <1>1 DEF OnPage
      <4>4. Atoms[j].lo < page.hi /\ page.lo < Atoms[j].hi
        <5>1. Atoms[j].lo \in Nat /\ Atoms[j].hi \in Nat /\ Atoms[j].lo < p /\ p < Atoms[j].hi
          BY <4>2, AtomFacts DEF Opened
        <5> QED
          BY <4>3, <5>1
      <4>5. Fragmented(s, page.lo, page.hi)
        BY <1>2, <4>3, FragmentFacts
      <4>6. PICK i \in 1..Len(s) : TRUE
        BY <4>4, <4>5 DEF Fragmented
      <4>7. Len(s) = 0
        OBVIOUS
      <4> QED
        BY <4>6, <4>7
    <3>2. TextStep(b) = IF p < page.end THEN WithRoom(b, page.end - p, AppendText(b, page.end))
                        ELSE Do("FinishText")
      BY <1>2, <1>3, <1>5, <2>3, <3>1 DEF TextStep
    <3>3. AppendText(b, page.end) # Malformed
      <4>1. AppendText(b, page.end).do = "AppendText"
        BY DEF AppendText
      <4> QED
        BY <4>1, Distinct
    <3> QED
      BY <1>2, <3>2, <3>3, Distinct, RoomStands
  <2> QED
    BY <2>2, <2>3
<1> QED
  BY <1>4, <1>5

\* When all objects are done, an end the source has is proven.
LEMMA RealIsProven ==
  ASSUME NEW range \in Selections, NEW p \in {range.start, range.end}, Real(p), NEW proven, NEW met,
         met = \E i \in (Outset(range) + 1)..Ending(range) : Objects[i].at = p.at,
         proven = \E i \in (Outset(range) + 1)..Ending(range) : p \in {Lead(i), Trail(i)}
  PROVE  Proven(p, proven, met)
<1>1. PICK f, l, m : f = Outset(range) /\ l = Ending(range) /\ m = Len(Objects)
  OBVIOUS
<1>2. /\ f \in Nat /\ l \in Nat /\ f <= l /\ l <= m /\ m \in Nat
      /\ \A i \in 1..m : Objects[i].at < range.start.at <=> i <= f
      /\ \A i \in 1..m : Objects[i].at <= range.end.at <=> i <= l
  BY <1>1, OutsetFacts, SourceFacts
<1>3. range.start.at \in Nat /\ range.end.at \in Nat /\ range.start.at <= range.end.at
  BY SelectionFacts
<1>4. p = [at |-> p.at, gap |-> <<p.gap[1], p.gap[2]>>]
  BY SelectionFacts
<1>5. \/ Beside(p)
      \/ p.gap = NoGap /\ \A k \in 1..Len(Objects) : Objects[k].at # p.at
  BY <1>4, RealIsMet
<1>6. CASE Beside(p)
  <2>1. PICK k \in 1..m : p \in {Lead(k), Trail(k)}
    BY <1>1, <1>6 DEF Beside
  <2>2. Objects[k].at = p.at
    BY <2>1 DEF Lead, Trail
  <2>3. range.start.at <= p.at /\ p.at <= range.end.at /\ p.at \in Nat
    BY <1>3
  <2>4. ~(Objects[k].at < range.start.at) /\ Objects[k].at <= range.end.at
    BY <1>3, <2>2, <2>3
  <2>5. k \in (f + 1)..l
    BY <1>2, <2>4
  <2> QED
    BY <1>1, <2>1, <2>5 DEF Proven
<1>7. CASE p.gap = NoGap /\ \A k \in 1..Len(Objects) : Objects[k].at # p.at
  <2>1. ~met
    <3>1. \A i \in (f + 1)..l : i \in 1..Len(Objects)
      BY <1>1, <1>2
    <3> QED
      BY <1>1, <1>7, <3>1
  <2> QED
    BY <1>7, <2>1 DEF Proven
<1> QED
  BY <1>5, <1>6, <1>7

LEMMA TakeStands ==
  ASSUME NEW a, Merging(a), Between(a), a.current = NoPage, Sound(a.key.selection)
  PROVE  TakeStep(a) # Malformed
<1>1. PICK range : range = a.key.selection /\ range \in Selections
  BY DEF Merging
<1>2. CASE a.objects # NoPage \/ ~a.complete \/ a.textCursor < range.end.at
  BY <1>1, <1>2, Distinct DEF TakeStep
<1>3. CASE a.objects = NoPage /\ a.complete /\ ~(a.textCursor < range.end.at)
  <2>1. Done(a) = Ending(range)
    BY <1>1, <1>3 DEF Merging, ObjectsInTurn, Reached
  <2>2. /\ a.startMet = \E i \in (Outset(range) + 1)..Ending(range) : Objects[i].at = range.start.at
        /\ a.endMet = \E i \in (Outset(range) + 1)..Ending(range) : Objects[i].at = range.end.at
        /\ a.startProven = \E i \in (Outset(range) + 1)..Ending(range) : range.start \in {Lead(i), Trail(i)}
        /\ a.endProven = \E i \in (Outset(range) + 1)..Ending(range) : range.end \in {Lead(i), Trail(i)}
    BY <1>1, <2>1 DEF Merging, EndsInTurn
  <2>3. Real(range.start) /\ Real(range.end)
    BY <1>1 DEF Sound
  <2>4. Proven(range.start, a.startProven, a.startMet)
    BY <1>1, <2>2, <2>3, RealIsProven
  <2>5. Proven(range.end, a.endProven, a.endMet)
    BY <1>1, <2>2, <2>3, RealIsProven
  <2>6. a.open = Null
    <3> SUFFICES ASSUME a.open # Null PROVE FALSE
      OBVIOUS
    <3>1. a.phase = "Collecting"
      BY DEF Merging, OutputInTurn
    <3>2. PICK c : c = a.textCursor /\ c = Cursor(a)
      BY DEF Between, Cursor
    <3>3. PICK j \in 1..Len(Atoms) : Opened(range, c, j)
      BY <1>1, <3>1, <3>2 DEF Merging, OutputInTurn
    <3>4. c \in Nat /\ c <= range.end.at /\ range.start.at \in Nat /\ range.end.at \in Nat
      <4>1. range \in Selections /\ Cursor(a) \in Nat /\ Cursor(a) <= range.end.at
        BY <1>1, PlaceFacts
      <4> QED
        BY <3>2, <4>1, SelectionFacts
    <3>5. c = range.end.at
      BY <1>3, <3>2, <3>4
    <3>6. Atoms[j].lo \in Nat /\ Atoms[j].hi \in Nat /\ range.start.at <= Atoms[j].lo /\ Atoms[j].lo < c /\ c < Atoms[j].hi
      BY <3>3, AtomFacts DEF Opened
    <3>7. Atoms[j].lo < range.end.at /\ range.start.at < Atoms[j].hi
      BY <3>4, <3>5, <3>6
    <3>8. Atoms[j].hi <= range.end.at
      BY <1>1, <3>7, SoundAtom
    <3> QED
      BY <3>4, <3>5, <3>6, <3>8
  <2>7. TakeStep(a) \in {Do("EmitProvenance"), Do("CompleteCollection")}
    BY <1>1, <1>3, <2>4, <2>5, <2>6 DEF TakeStep
  <2> QED
    BY <2>7, Distinct
<1> QED
  BY <1>2, <1>3

LEMMA ObjectStands ==
  ASSUME NEW a, Merging(a), a.current # NoPage
  PROVE  ObjectStep(a) # Malformed
<1>1. PICK range, i : AtObject(a, range, i)
  BY AtObjectFacts
<1>2. /\ range = a.key.selection /\ i = Done(a) + 1 /\ i \in 1..Len(Objects) /\ i \in (Outset(range) + 1)..Ending(range)
      /\ a.current[1] = Objects[i]
  BY <1>1 DEF AtObject
<1>3. ~(a.textCursor > a.current[1].at)
  <2>1. Done(a) \in Nat /\ Ending(range) \in Nat
    BY <1>2, ReachedFacts
  <2>2. i \in (Done(a) + 1)..Ending(range)
    BY <1>2, <2>1
  <2>3. a.textCursor <= Objects[i].at
    BY <1>2, <2>2 DEF Merging, TextInTurn
  <2>4. a.textCursor \in Nat /\ Objects[i].at \in Nat
    <3>1. a.textCursor \in Nat
      BY PlaceFacts
    <3>2. Objects[i].at \in Nat
      BY <1>2, ObjectFacts
    <3> QED
      BY <3>1, <3>2
  <2> QED
    BY <1>2, <2>3, <2>4
<1>4. \A sel, le, tr : [do |-> "ProcessObject", selected |-> sel, leading |-> le, trailing |-> tr] # Malformed
  <2>1. \A sel, le, tr : [do |-> "ProcessObject", selected |-> sel, leading |-> le, trailing |-> tr].do = "ProcessObject"
    OBVIOUS
  <2> QED
    BY <2>1, Distinct
<1> QED
  BY <1>3, <1>4, Distinct, RoomStands DEF ObjectStep

LEMMA NextStands ==
  ASSUME NEW a, Shaped(a), Merging(a), Works(a), Sound(a.key.selection)
  PROVE  NextStep(a) # Malformed
<1>1. CASE Full(a)
  BY <1>1, Distinct DEF NextStep
<1>2. CASE ~Full(a) /\ a.text # NoPage
  <2>1. NextStep(a) = TextStep(Paged(a))
    BY <1>2 DEF NextStep, Paged
  <2> QED
    BY <1>2, <2>1, TextStands
<1>3. CASE ~Full(a) /\ a.text = NoPage
  <2>1. Between(a)
    BY <1>3, BetweenFacts
  <2>2. CASE a.current = NoPage
    BY <1>3, <2>1, <2>2, TakeStands DEF NextStep
  <2>3. CASE a.current # NoPage
    BY <1>3, <2>3, ObjectStands DEF NextStep
  <2> QED
    BY <2>2, <2>3
<1> QED
  BY <1>1, <1>2, <1>3

\* A selection the source has, that cuts no atom and has no object inside one, is never
\* called malformed, however the host cuts its pages (collection.rs
\* prepare_text_response_step, prepare_merge_step).
THEOREM SoundSelectionsMergeHolds == Spec => []SoundSelectionsMerge
<1>1. ClipInv /\ MergeInv => SoundSelectionsMerge
  BY WorkMerges, NextStands DEF SoundSelectionsMerge, Malformed
<1> QED
  BY ClipInvariant, MergeInvariant, <1>1, PTL

\* What a copy writes is its selection, whatever pages its text and its objects come in,
\* and a selection of the source is merged to its end (range_clipboard.rs,
\* collection.rs, provenance.rs).
THEOREM WritesTheSelectionHolds == Spec => []WritesTheSelection
  BY WrittenIsSelectedHolds, SoundSelectionsMergeHolds, PTL DEF WritesTheSelection
=============================================================================
