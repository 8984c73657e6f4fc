------------------------------ MODULE TextBuffer ------------------------------
(***************************************************************************)
(* What an owned-value text input computes on its value: boundaries, atoms, *)
(* normalisation, the edit of a buffer and the export of a selection       *)
(* (src/src/boundary.rs, atom.rs, newline.rs, value_limit.rs, state.rs).   *)
(*                                                                         *)
(* A text is its sequence of UTF-8 bytes, so offsets are those of the      *)
(* code.  A scalar is its first byte, which stands for the whole of it,    *)
(* followed by its tail bytes.  There is a letter, a space, a combining    *)
(* mark of two bytes and the two newline characters.  Graphemes and words  *)
(* are those the Unicode library finds in such texts.                      *)
(***************************************************************************)
EXTENDS Integers, FiniteSets, SequencesExt, Lists

Letter == "a"
Space == "_"
Mark == "m"      \* the first byte of a combining mark
TailByte == "t"  \* a byte that begins no scalar
Newline == "n"   \* a line feed
Return == "r"    \* a carriage return

Byte == {Letter, Space, Mark, TailByte, Newline, Return}

\* A text begins with a scalar.
IsText(t) == t \in Seq(Byte) /\ (t = <<>> \/ t[1] # TailByte)

Lower(i, j) == IF i < j THEN i ELSE j
Upper(i, j) == IF i < j THEN j ELSE i

-----------------------------------------------------------------------------
(* Ranges and boundaries.                                                  *)

\* The range lo..hi of offsets.
Span(lo, hi) == [lo |-> lo, hi |-> hi]
Caret(offset) == Span(offset, offset)
NoSpan == Span(-1, -1)
IsCaret(r) == r.lo = r.hi
Meets(r, s) == r.lo < s.hi /\ s.lo < r.hi
Slice(t, r) == SubSeq(t, r.lo + 1, r.hi)

IsCharBoundary(t, i) == i = Len(t) \/ (i \in 0..(Len(t) - 1) /\ t[i + 1] # TailByte)
CharBoundaries(t) == {i \in 0..Len(t) : IsCharBoundary(t, i)}

\* clamp_to_char_boundary.
Clamp(t, offset) == Max({i \in CharBoundaries(t) : i <= offset})
\* normalize_range.
Ordered(i, j) == Span(Lower(i, j), Upper(i, j))
Clamped(t, r) == Ordered(Clamp(t, r.lo), Clamp(t, r.hi))

\* Where a grapheme begins: a mark joins what is before it, but a newline.
GraphemeStarts(t) ==
  {i \in CharBoundaries(t) : i < Len(t) /\ (i = 0 \/ t[i + 1] # Mark \/ t[i] = Newline)}

PreviousGrapheme(t, offset) == Max({0} \cup {i \in GraphemeStarts(t) : i < offset})
NextGrapheme(t, offset) == Min({Len(t)} \cup {i \in GraphemeStarts(t) : i > offset})

\* What is before offset i, the marks on it passed over.
BaseBefore(t, i) ==
  LET bases == {j \in 1..i : t[j] \notin {Mark, TailByte}}
  IN IF bases = {} THEN Mark ELSE t[Max(bases)]

\* Where a word segment begins.  Letters stay together over marks, spaces only beside
\* each other.
WordStarts(t) ==
  {i \in GraphemeStarts(t) :
     i = 0 \/ ~ \/ t[i + 1] = Letter /\ BaseBefore(t, i) = Letter
                \/ t[i + 1] = Space /\ t[i] = Space}
WordEnd(t, start) == Min({Len(t)} \cup {i \in WordStarts(t) : i > start})
WordAt(t, offset) == Max({i \in WordStarts(t) : i <= offset})
IsWhitespace(t, start) == \A j \in (start + 1)..WordEnd(t, start) : t[j] \in {Space, Newline}

PreviousWord(t, offset) ==
  Max({0} \cup {i \in WordStarts(t) : i < offset /\ ~IsWhitespace(t, i)})

NextWord(t, offset) ==
  Min({Len(t)} \cup {i \in WordStarts(t) : i > offset /\ ~IsWhitespace(t, i)})

\* word_range_at, of a text that is not empty.
WordFrom(t, start) == Span(start, WordEnd(t, start))
WordRange(t, offset) ==
  WordFrom(t, WordAt(t, IF offset = Len(t) THEN PreviousGrapheme(t, offset) ELSE offset))

LineStart(t, offset) == Max({0} \cup {i \in 1..offset : t[i] = Newline})
LineEnd(t, offset) == Min({Len(t)} \cup {i \in offset..(Len(t) - 1) : t[i + 1] = Newline})

-----------------------------------------------------------------------------
(* Normalisation, written once for the text and once for its length.       *)

IsNewline(byte) == byte \in {Newline, Return}

\* The bytes of t at the places kept, its newline characters replaced.
Replaced(t, kept, byte) ==
  LET places == Only([i \in DOMAIN t |-> i], kept)
  IN [k \in DOMAIN places |-> IF IsNewline(t[places[k]]) THEN byte ELSE t[places[k]]]

\* normalize_single_line_text: a run of newline characters becomes one space.
NormalizedSingleLine(t) ==
  Replaced(t, {i \in DOMAIN t : IsNewline(t[i]) => i = 1 \/ ~IsNewline(t[i - 1])}, Space)

\* normalize_multiline_text: a carriage return becomes a line feed, with the line
\* feed after it.
NormalizedMultiline(t) ==
  Replaced(t, {i \in DOMAIN t : t[i] = Newline => i = 1 \/ t[i - 1] # Return}, Newline)

Normalized(t, mode) ==
  IF mode = "SingleLine" THEN NormalizedSingleLine(t) ELSE NormalizedMultiline(t)

\* normalized_value_bytes.
NormalizedBytes(t, mode) ==
  Cardinality(
    IF mode = "SingleLine"
    THEN {i \in DOMAIN t : IsNewline(t[i]) => i = 1 \/ ~IsNewline(t[i - 1])}
    ELSE {i \in DOMAIN t : t[i] = Newline => i = 1 \/ t[i - 1] # Return})

-----------------------------------------------------------------------------
(* Atoms: [id, lo, hi, copy], in the order of the text.                    *)

\* snap_offset_to_atoms: out of the atom an offset is in.
SnappedAt(atoms, at, affinity) ==
  LET inside == {i \in DOMAIN atoms : atoms[i].lo < at /\ at < atoms[i].hi}
      atom == atoms[Min(inside)]
  IN IF inside = {} THEN at
     ELSE CASE affinity = "Backward" -> atom.lo
            [] affinity = "Forward" -> atom.hi
            [] affinity = "Nearest" -> IF at - atom.lo < atom.hi - at THEN atom.lo ELSE atom.hi
Snap(t, atoms, offset, affinity) == SnappedAt(atoms, Clamp(t, offset), affinity)

\* expand_range_to_intersecting_atoms.
Joined(r, atom) ==
  IF Meets(r, atom) THEN Span(Lower(r.lo, atom.lo), Upper(r.hi, atom.hi)) ELSE r
Expanded(r, t, atoms) ==
  LET grown[n \in 0..Len(atoms)] == IF n = 0 THEN r ELSE Joined(grown[n - 1], atoms[n])
  IN Clamped(t, grown[Len(atoms)])

\* normalize_selection_range_with_atoms and normalize_edit_range_with_atoms.
WholeOf(r, t, atoms) ==
  IF IsCaret(r) THEN Caret(SnappedAt(atoms, r.lo, "Nearest")) ELSE Expanded(r, t, atoms)
Whole(r, t, atoms) == WholeOf(Clamped(t, r), t, atoms)

MeetsAtom(r, atoms) == \E i \in DOMAIN atoms : Meets(r, atoms[i])

\* validate_atoms: what a text may carry.
ValidAtoms(t, atoms) ==
  /\ \A a \in atoms : a.lo < a.hi /\ {a.lo, a.hi} \subseteq CharBoundaries(t)
  /\ \A a, b \in atoms : a # b => ~Meets(a, b)

\* validate_selection_atoms: atoms of a pasted text, each with the text it shows.
ValidSelectionAtoms(t, atoms) ==
  ValidAtoms(t, atoms) /\ \A a \in atoms : a.display = Slice(t, a)

\* The atoms in the order of the text, at an offset from where they were given.
Kth(atoms, k) == CHOOSE a \in atoms : Cardinality({b \in atoms : b.lo < a.lo}) = k - 1
PlacedAt(a, offset) == [id |-> a.id, lo |-> a.lo + offset, hi |-> a.hi + offset, copy |-> a.copy]
Placed(atoms, offset) ==
  [k \in 1..Cardinality(atoms) |-> PlacedAt(Kth(atoms, k), offset)]

\* transform_atoms_after_edit; what is before, inserted and after is in order already.
MovedBy(atoms, by) == [i \in DOMAIN atoms |-> [atoms[i] EXCEPT !.lo = @ + by, !.hi = @ + by]]
Before(atoms, r) == Only(atoms, {a \in ToSet(atoms) : a.hi <= r.lo})
After(atoms, r) == Only(atoms, {a \in ToSet(atoms) : a.hi > r.lo /\ a.lo >= r.hi})
\* Fault: what is after the edit moves back by what was deleted only.
AtomsAfterDeletion(atoms, r, length, inserted) ==
  Before(atoms, r) \o inserted \o MovedBy(After(atoms, r), r.lo - r.hi)

AtomsAfterEdit(atoms, r, length, inserted) ==
  Before(atoms, r) \o inserted \o MovedBy(After(atoms, r), r.lo + length - r.hi)

-----------------------------------------------------------------------------
(* The buffer: what EditSnapshot keeps of a text input.                    *)

\* A buffer with the caret at the end of a text.
NewBuffer(t) ==
  [text |-> t, selected |-> Caret(Len(t)), reversed |-> FALSE, marked |-> NoSpan,
   atoms |-> <<>>]

Cursor(b) == IF b.reversed THEN b.selected.lo ELSE b.selected.hi

\* has_active_selection.
HasActiveSelection(b) == ~IsCaret(b.selected) \/ b.marked # NoSpan

\* active_edit_range: the range that is given, or the marked text, or the selection.
ActiveEditRange(b, given) ==
  Whole(IF given # NoSpan THEN given ELSE IF b.marked # NoSpan THEN b.marked ELSE b.selected,
        b.text, b.atoms)

\* apply_edit_with_inserted_atoms: the successor of a buffer, whose selection and marked
\* range are made to fit its atoms.
WithoutAtoms(marked, atoms) == IF MeetsAtom(marked, atoms) THEN NoSpan ELSE marked
Fitted(t, atoms, selected, marked) ==
  [text |-> t, selected |-> Whole(selected, t, atoms), reversed |-> FALSE,
   marked |-> IF marked = NoSpan THEN NoSpan ELSE WithoutAtoms(Whole(marked, t, atoms), atoms),
   atoms |-> atoms]
Edited(b, r, replacement, selected, marked, inserted) ==
  Fitted(SubSeq(b.text, 1, r.lo) \o replacement \o SubSeq(b.text, r.hi + 1, Len(b.text)),
         AtomsAfterEdit(b.atoms, r, Len(replacement), inserted), selected, marked)

\* export_range: the text a range shows, the text to copy, where an atom is its copy,
\* and the atoms, counted from the range's start.
CopiedText(b, r, met) ==
  LET end(n) == IF n = 0 THEN r.lo ELSE met[n].hi
      done[n \in 0..Len(met)] ==
        IF n = 0 THEN <<>>
        ELSE done[n - 1] \o Slice(b.text, Span(end(n - 1), met[n].lo)) \o met[n].copy
  IN done[Len(met)] \o Slice(b.text, Span(end(Len(met)), r.hi))
ExportedOf(b, r, met) ==
  [display |-> Slice(b.text, r),
   copied |-> CopiedText(b, r, met),
   atoms |-> {[id |-> a.id, lo |-> a.lo - r.lo, hi |-> a.hi - r.lo,
               display |-> Slice(b.text, a), copy |-> a.copy] : a \in ToSet(met)}]
ExportedWhole(b, r) == ExportedOf(b, r, Only(b.atoms, {a \in ToSet(b.atoms) : Meets(r, a)}))
Exported(b, range) == ExportedWhole(b, Whole(range, b.text, b.atoms))

\* snapshot_retained_bytes; an id is one byte.
SnapshotBytes(b) ==
  Len(b.text) + Total([i \in DOMAIN b.atoms |->
                         1 + (b.atoms[i].hi - b.atoms[i].lo) + Len(b.atoms[i].copy)])

\* push_snapshot onto a stack with limits on its count and its bytes.
StackBytes(stack) == Total([i \in DOMAIN stack |-> SnapshotBytes(stack[i])])
Kept(stack, countLimit, byteLimit) ==
  LET newest(n) == SubSeq(stack, n, Len(stack))
  IN newest(Min({n \in 1..Len(stack) :
                   Len(newest(n)) <= countLimit /\ StackBytes(newest(n)) <= byteLimit}))
Pushed(stack, b, countLimit, byteLimit) ==
  IF \/ countLimit = 0 \/ byteLimit = 0 \/ SnapshotBytes(b) > byteLimit
     \/ stack # <<>> /\ Last(stack) = b
  THEN stack
  ELSE Kept(Append(stack, b), countLimit, byteLimit)
=============================================================================
