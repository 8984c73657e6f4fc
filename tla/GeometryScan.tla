----------------------------- MODULE GeometryScan -----------------------------
(***************************************************************************)
(* The scanner of the exact geometry engine: what one page of text with    *)
(* the objects on it does to a geometry job (src/src/range_geometry/exact/ *)
(* scan.rs, scan/text.rs, scan/output.rs, checkpoint.rs, target_output.rs).*)
(*                                                                         *)
(* The scanner cuts the text into pieces and admits them to the layout     *)
(* session one by one: text of whole graphemes up to a segment, an atom or *)
(* a longer grapheme alone, an inline object, a line break, the end.  It   *)
(* keeps what is not decided at a page edge for the next page: a grapheme  *)
(* begun, a segment not full, an atom, an object whose successor is not    *)
(* known, and the need for text before the page.                           *)
(*                                                                         *)
(* A source is a record: text, one symbol per byte, which is also a        *)
(* scalar; atoms, [lo, hi] in order; objects, their anchors in order.  The *)
(* layout session is external: a piece stays on the line it begins on, a   *)
(* break and the end close the line, and a line is one unit high.          *)
(***************************************************************************)
EXTENDS SourcePositions, Integers, SequencesExt

CONSTANTS
  SegmentBytes,     \* StreamingLayoutLimits::segment_bytes
  MaxCheckpoints    \* ExactGeometryLimits::max_checkpoints

ASSUME ScanAssumption == SegmentBytes \in Nat \ {0} /\ MaxCheckpoints \in Nat \ {0, 1}

\* What a byte is to the grapheme rules and to lines: "n" breaks the line, "e" extends
\* the grapheme before it, two "r" (regional indicators) are one grapheme, "x" is other.
Kinds == {"x", "n", "e", "r"}

Extent(S) == Len(S.text)
Kind(S, k) == S.text[k + 1]

MaxOf(a, b) == IF a < b THEN b ELSE a

\* InlineObjectGap::before at an object's anchor; the position after it, where next is
\* the object the source has next on the same page, Null for none.
Before(S, o) == [at |-> S.objects[o], gap |-> <<Null, o>>]
Behind(S, o, next) ==
  [at |-> S.objects[o],
   gap |-> <<o, IF next # Null /\ S.objects[next] = S.objects[o] THEN next ELSE Null>>]

-----------------------------------------------------------------------------
(* Graphemes: the library's GraphemeCursor.                                *)

\* A cursor is at an offset, may have to decide a boundary there first (resuming),
\* knows how many indicators stand before it or not, and may wait for the text before
\* an offset (asks).
Cursor(at) == [at |-> at, known |-> FALSE, resuming |-> FALSE, asks |-> Null]

\* The indicators that end at b, counted back to lo and no further.
Flags(S, lo, b) ==
  Cardinality({k \in lo..(b - 1) : \A i \in k..(b - 1) : Kind(S, i) = "r"})

\* No boundary at b in text that begins at origin.
Joined(S, origin, b) ==
  \/ Kind(S, b) = "e" /\ Kind(S, b - 1) # "n"
  \/ Kind(S, b) = "r" /\ Kind(S, b - 1) = "r" /\ Flags(S, origin, b) % 2 = 1

\* What the cursor has read up to b tells the parity of the indicators before b.
Learns(S, cursor, b) ==
  cursor.known \/ \E k \in cursor.at..(b - 1) : Kind(S, k) # "r" \/ k > cursor.at

\* The parity matters at b, and the text from lo does not tell it.
Unsure(S, cursor, origin, lo, b) ==
  /\ Kind(S, b) = "r" /\ Kind(S, b - 1) = "r"
  /\ ~Learns(S, cursor, b)
  /\ lo # origin /\ Flags(S, lo, b) = b - lo

\* provide_context of the text from lo to asks.
Informed(S, cursor, origin, lo) ==
  LET from == MaxOf(lo, origin)
  IN  IF from = origin \/ Flags(S, from, cursor.asks) # cursor.asks - from
      THEN [cursor EXCEPT !.known = TRUE, !.asks = Null]
      ELSE [cursor EXCEPT !.asks = from]

-----------------------------------------------------------------------------
(* The layout and what a job keeps of it.                                  *)

Fault(j) == [j EXCEPT !.fault = TRUE]

\* Not PageScan::Complete: an error, or NeedContext.
Halted(j) == j.fault \/ j.need # {}

\* checkpoint::checkpoint refuses a cursor or an object elsewhere than the position.
MayCheckpoint(S, j) ==
  /\ j.cursor.at = j.cont.at.at
  /\ j.object # Null => S.objects[j.object] <= j.cont.at.at

CheckpointOf(j) ==
  [source |-> j.cont.at, block |-> j.cont.block, ordinal |-> j.cont.ordinal,
   object |-> j.object, origin |-> j.origin, cursor |-> j.cursor]

\* A checkpoint replaces the last if that is of the same place, and pushes out the
\* oldest but the origin.
Retain(kept, checkpoint) ==
  LET last == kept[Len(kept)]
      others == IF /\ Len(kept) > 1
                   /\ last.source = checkpoint.source /\ last.object = checkpoint.object
                THEN Front(kept) ELSE kept
  IN  (IF Len(others) >= MaxCheckpoints
       THEN <<others[1]>> \o SubSeq(others, Len(others) - MaxCheckpoints + 3, Len(others))
       ELSE others) \o <<checkpoint>>

Checkpointed(S, j) ==
  IF MayCheckpoint(S, j) THEN [j EXCEPT !.checkpoints = Retain(@, CheckpointOf(j))] ELSE Fault(j)

\* The lines a target asks for, the first line after the screen, and the first line of
\* the context before it.
Foot(goal) == goal.block + goal.view + goal.over
Lead(goal) == MaxOf(goal.block - goal.over, 0)

\* fragment_anchor_position: the piece has a place for the position.
Maps(piece, position) == Leads(piece.from, position) /\ Leads(position, piece.to)

\* fragment_intersects_target
Intersects(piece, goal, anchor) ==
  \/ goal.block <= piece.block /\ piece.block < Foot(goal)
  \/ piece.type = "object" /\ Lead(goal) <= piece.block /\ piece.block < goal.block
  \/ goal.block <= piece.block /\ \E a \in anchor : Maps(piece, a)

\* update_target_source: the source position of the line the target begins with.
Sourced(j) ==
  LET line == IF j.cont.block > j.line.block
              THEN [at |-> j.cont.at, block |-> j.cont.block] ELSE j.line
  IN  IF j.origins # {} THEN j
      ELSE IF j.cont.block > j.goal.block THEN [j EXCEPT !.origins = {j.line.at}]
      ELSE [j EXCEPT !.line = line,
                     !.origins = IF line.block <= j.goal.block /\ j.goal.block <= j.cont.block
                                 THEN {line.at} ELSE {}]

\* What a target keeps of a piece, and whether the piece has its anchor.
Targeted(j, piece) ==
  Sourced([j EXCEPT !.kept = IF Intersects(piece, j.goal, j.anchor)
                             THEN @ \cup {j.cont.ordinal - 1} ELSE @,
                    !.anchor = {a \in @ : ~Maps(piece, a)}])

\* admit_layout; keep is retain_checkpoint.
Admit(S, j, type, to, body, keep) ==
  LET piece == [type |-> type, from |-> j.cont.at, to |-> to, body |-> body,
                block |-> j.cont.block]
      closes == IF type \in {"line", "end"} THEN 1 ELSE 0
      moved == [j EXCEPT !.cont = [at |-> to, block |-> @.block + closes, ordinal |-> @.ordinal + 1],
                         !.log = Append(@, piece)]
  IN  IF j.kind = "Target" THEN Targeted(moved, piece)
      ELSE IF keep THEN Checkpointed(S, moved) ELSE moved

-----------------------------------------------------------------------------
(* Graphemes into pieces.                                                  *)

\* admit_text_segment
Flush(S, j, to, keep) ==
  IF j.segment = <<>> THEN j
  ELSE Admit(S, [j EXCEPT !.segment = <<>>], "text", to, j.segment, keep)

\* admit_compact_atom, of an atom, which ends the text graphemes are looked for in, or
\* of a grapheme longer than a segment.
AdmitCompact(S, j, lo, hi, cursor, to, imposes) ==
  LET flushed == Flush(S, [j EXCEPT !.cursor = j.mark], Plain(lo), TRUE)
  IN  Admit(S, [flushed EXCEPT !.cursor = cursor, !.mark = cursor, !.start = hi,
                               !.origin = IF imposes THEN hi ELSE @],
            "compact", to, [k \in 1..(hi - lo) |-> lo + k - 1], TRUE)

\* complete_grapheme: the bytes from start to end, which the job has in grapheme.
CompleteGrapheme(S, j, end, to) ==
  LET opened == [j EXCEPT !.cursor = j.mark]
      Closed(i) == [i EXCEPT !.cursor = j.cursor, !.mark = j.cursor, !.start = end, !.grapheme = <<>>]
      emptied == Flush(S, opened, Plain(j.start), TRUE)
  IN  IF j.grapheme # <<>> /\ Kind(S, j.grapheme[1]) = "n"
      THEN Admit(S, Closed(Flush(S, opened, Plain(j.start), FALSE)), "line", to, j.grapheme, TRUE)
      ELSE IF Len(j.grapheme) > SegmentBytes
      THEN Closed(AdmitCompact(S, emptied, j.start, end, j.cursor, to, FALSE))
      ELSE IF Len(j.segment) + Len(j.grapheme) > SegmentBytes
      THEN Closed([emptied EXCEPT !.segment = j.grapheme])
      ELSE Closed([j EXCEPT !.segment = @ \o j.grapheme])

\* Offsets from lo up to hi, hi excluded.
Offsets(lo, hi) == [k \in 1..(hi - lo) |-> lo + k - 1]

\* append_grapheme of the bytes up to b that are read from lo on.
Appended(j, lo, b) == [j EXCEPT !.grapheme = @ \o Offsets(MaxOf(lo, j.start), b)]

\* Text before the offset end is needed; the page is read again from replay.
Asks(j, b, end, lo) ==
  LET replay == MaxOf(lo, j.start)
  IN  [j EXCEPT !.cursor = [@ EXCEPT !.at = b, !.resuming = TRUE, !.asks = end],
                !.need = {[end |-> end, replay |-> replay]}, !.read = replay]

\* MUTANT of Parts: the end of a page ends a grapheme.
PartsAtPage(S, origin, b, hi) == b = hi \/ ~Joined(S, origin, b)

\* A boundary is proved at b by the text up to hi: what follows tells, or nothing does.
Parts(S, origin, b, hi) == b = Extent(S) \/ (b < hi /\ ~Joined(S, origin, b))

\* next_boundary at b, in the text from lo to hi.
AtOffset(S, j, b, lo, hi, to) ==
  LET cursor == j.cursor
      first == IF cursor.resuming THEN cursor.at ELSE cursor.at + 1
      known == Learns(S, cursor, b)
      stopped == [Cursor(b) EXCEPT !.known = known \/ (b < hi /\ Kind(S, b) = "r")]
  IN  IF Halted(j) \/ b < first THEN j
      ELSE IF b < hi /\ cursor.asks # Null THEN Asks(j, b, cursor.asks, lo)
      ELSE IF b < hi /\ Unsure(S, cursor, j.origin, lo, b) THEN Asks(j, b, lo, lo)
      ELSE IF Parts(S, j.origin, b, hi)
      THEN CompleteGrapheme(S, [Appended(j, lo, b) EXCEPT !.cursor = stopped], b,
                            IF b = hi THEN to ELSE Plain(b))
      ELSE IF b = hi
      THEN [Appended(j, lo, b) EXCEPT !.cursor = [Cursor(b) EXCEPT !.known = known, !.resuming = TRUE,
                                                                   !.asks = cursor.asks]]
      ELSE j

\* forced_boundary: a grapheme ends at hi in any case.
Forced(S, read, hi, to) ==
  IF ~Halted(read) /\ read.start < hi
  THEN CompleteGrapheme(S, [read EXCEPT !.cursor = Cursor(hi)], hi, to)
  ELSE read

\* process_text_region, before what forced_boundary adds.
TextRegion(S, j, lo, hi, to) ==
  FoldLeft(LAMBDA i, b : AtOffset(S, i, b, lo, hi, to), j, Offsets(lo, hi + 1))

-----------------------------------------------------------------------------
(* Pages.                                                                  *)

\* The atoms with a fragment on a page.
Fragments(S, page) ==
  SelectSeq(Offsets(1, Len(S.atoms) + 1),
            LAMBDA i : S.atoms[i].lo < page.hi /\ page.lo < S.atoms[i].hi)

\* An atom of which the last byte is before hi, or the end of the range.
WholeAtom(S, j, i, hi, to) ==
  LET atom == S.atoms[i]
  IN  [AdmitCompact(S, j, atom.lo, atom.hi, Cursor(atom.hi),
                    IF atom.hi = hi THEN to ELSE Plain(atom.hi), TRUE)
         EXCEPT !.atom = Null, !.read = atom.hi]

\* An atom from where the job has read: the page may end inside it.
TakeAtom(S, j, page, i, hi, to) ==
  IF Halted(j) THEN j
  ELSE IF S.atoms[i].hi <= hi THEN WholeAtom(S, j, i, hi, to)
  ELSE IF hi = page.hi THEN [j EXCEPT !.atom = i, !.read = hi] ELSE Fault(j)

\* process_page_range, the atom that began on an earlier page.
ActiveAtom(S, j, page, hi, to) ==
  LET fragments == Fragments(S, page)
  IN  IF fragments = <<>> \/ fragments[1] # j.atom THEN Fault(j)
      ELSE TakeAtom(S, j, page, j.atom, hi, to)

\* process_page_range, the next atom of the page and the text before it.  read is the
\* position reached.
NextAtom(S, j, page, lo, hi, to, i) ==
  LET atom == S.atoms[i]
  IN  IF Halted(j) \/ atom.hi <= lo \/ atom.lo >= hi THEN j
      ELSE IF MaxOf(atom.lo, page.lo) < j.read \/ atom.lo < j.read THEN Fault(j)
      ELSE TakeAtom(S, IF atom.lo = j.read THEN j
                       ELSE Forced(S, TextRegion(S, j, j.read, atom.lo, Plain(atom.lo)),
                                   atom.lo, Plain(atom.lo)),
                    page, i, hi, to)

\* process_page_range, the text behind the last atom.
LastText(S, j, hi, to) ==
  IF Halted(j) \/ j.read >= hi THEN j
  ELSE IF to.gap = NoGap THEN TextRegion(S, j, j.read, hi, to)
  ELSE Forced(S, TextRegion(S, j, j.read, hi, to), hi, to)

ReadTo(j, hi) == IF Halted(j) THEN j ELSE [j EXCEPT !.read = hi]

\* process_page_range, from where the job has read up to hi.
ProcessRange(S, j, page, hi, to) ==
  IF j.read > hi \/ hi > page.hi \/ j.read < page.lo THEN Fault(j)
  ELSE ReadTo(LastText(S, FoldLeft(LAMBDA i, a : NextAtom(S, i, page, j.read, hi, to, a),
                                   IF j.atom = Null THEN j ELSE ActiveAtom(S, j, page, hi, to),
                                   SelectSeq(Fragments(S, page), LAMBDA i : i # j.atom)),
                       hi, to), hi)

\* admit_inline_object once the text before the object is read: the job must be before
\* the object.  The first object of a source makes the origin a position before it.
AdmitObject(S, j, o, next, leading, expected) ==
  LET Moved(p) == IF leading = Plain(S.objects[o]) /\ p = leading THEN expected ELSE p
  IN  IF Moved(j.cont.at) # expected THEN Fault(j)
      ELSE Admit(S, [j EXCEPT !.cont.at = expected, !.line.at = Moved(@),
                              !.origins = {Moved(p) : p \in @}, !.object = o],
                 "object", Behind(S, o, next), <<o>>, TRUE)

\* admit_inline_object, next the object that follows on the page.  A NeedContext of the
\* text before the object is dropped.
AdmitInlineObject(S, j, page, o, next) ==
  LET anchor == S.objects[o]
      leading == j.cont.at
      expected == IF leading.at = anchor /\ leading # Plain(anchor) THEN leading ELSE Before(S, o)
  IN  IF leading.at > anchor THEN Fault(j)
      ELSE AdmitObject(S, IF leading.at = anchor THEN j
                          ELSE Flush(S, [ProcessRange(S, j, page, anchor, expected) EXCEPT !.need = {}],
                                     expected, TRUE),
                       o, next, leading, expected)

\* admit_deferred_object: the object that waited, before the first of the objects now.
AdmitDeferred(S, j, page, objects) ==
  IF j.deferred = Null THEN j
  ELSE IF objects = <<>> THEN Fault(j)
  ELSE AdmitInlineObject(S, [j EXCEPT !.deferred = Null], page, j.deferred, objects[1])

\* defer_object, if there are more objects; the text behind the last object of all.
AfterObjects(S, j, page, complete) ==
  IF Halted(j) THEN j
  ELSE IF ~complete THEN [j EXCEPT !.deferred = j.object]
  ELSE ProcessRange(S, j, page, page.hi, IF j.read = page.hi THEN j.cont.at ELSE Plain(page.hi))

\* process_object_page: the objects of a page of text, some or all (complete) of them.
\* The last of some waits for the object after it.
ProcessObjectPage(S, j, page, objects, complete) ==
  LET count == Len(objects)
      Begun(i) == [i EXCEPT !.first = IF @ = Null /\ count > 0 THEN objects[1] ELSE @]
      Known(i) == [i EXCEPT !.object = IF count > 0 /\ ~Halted(i) THEN objects[count] ELSE @]
      Step(i, k) == IF Halted(i) THEN i
                    ELSE AdmitInlineObject(S, i, page, objects[k], IF k < count THEN objects[k + 1] ELSE Null)
  IN  AfterObjects(S, Known(FoldLeft(Step, Begun(AdmitDeferred(S, j, page, objects)),
                                     Offsets(1, IF complete THEN count + 1 ELSE count))),
                   page, complete)

\* finalize_source
FinalizeSource(S, j) ==
  LET end == Extent(S)
      Closed == IF j.start < end THEN CompleteGrapheme(S, j, end, Plain(end)) ELSE j
      Ended(i) == Admit(S, i, "end", i.cont.at, <<>>, FALSE)
      Settled(i) == IF i.kind = "Index" THEN Checkpointed(S, i)
                    ELSE [i EXCEPT !.origins = IF @ = {} THEN {i.line.at} ELSE @]
      Drained(i) == Flush(S, i, IF i.cont.at.at = end THEN i.cont.at ELSE Plain(end), FALSE)
  IN  IF j.atom # Null THEN Fault(j) ELSE Settled(Ended(Drained(Closed)))

-----------------------------------------------------------------------------
(* Jobs.                                                                   *)

\* The checkpoint of the origin: Scanner::origin_unallocated.
Origin ==
  [source |-> Plain(0), block |-> 0, ordinal |-> 0, object |-> Null, origin |-> 0, cursor |-> Cursor(0)]

\* Scanner::from_checkpoint
Scanner(checkpoint) ==
  [cursor |-> checkpoint.cursor, origin |-> checkpoint.origin, mark |-> checkpoint.cursor,
   cont |-> [at |-> checkpoint.source, block |-> checkpoint.block, ordinal |-> checkpoint.ordinal],
   segment |-> <<>>, grapheme |-> <<>>, start |-> checkpoint.source.at,
   read |-> checkpoint.source.at, atom |-> Null,
   checkpoints |-> <<>>, log |-> <<>>, kept |-> {},
   line |-> [at |-> checkpoint.source, block |-> checkpoint.block], origins |-> {},
   first |-> Null, object |-> checkpoint.object, deferred |-> Null,
   fault |-> FALSE, need |-> {}]

\* The objects a request for the objects of a page names: anchored on it, both edges
\* included, after the cursor if that is anchored on it.
Eligible(S, page, cursor) ==
  SelectSeq(Offsets(1, Len(S.objects) + 1),
            LAMBDA o : /\ page.lo <= S.objects[o] /\ S.objects[o] <= page.hi
                       /\ cursor # Null /\ page.lo <= S.objects[cursor] => o > cursor)
=============================================================================
