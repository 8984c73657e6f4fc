------------------------------ MODULE TextInput -------------------------------
(***************************************************************************)
(* The owned-value text input: TextInputState (src/src/state.rs,           *)
(* editing.rs, movement.rs, value_limit.rs) as the widget TextInput drives *)
(* it from keys, the pointer, the platform's input method and the host     *)
(* (src/src/widget/).                                                      *)
(*                                                                         *)
(* One action is one call.  The host hears of edits and selections through *)
(* the events a call emits; host is what it knows by them.  Layout and     *)
(* scrolling are left out: a pointer position and a vertical movement name *)
(* any offset of the text last painted, which may not be the present one.  *)
(***************************************************************************)
EXTENDS TextBuffer

CONSTANTS
  Setups,       \* what inputs are made with: [mode, enterKey, atomClipboard, text, atoms]
  Clip,         \* what another input left on the clipboard: [copied, display, atoms]
  Inputs,       \* texts that are typed, pasted or set
  AtomIds,      \* host identities of atoms
  CopyText,     \* the fallback copy text of every atom
  Ranges,       \* explicit ranges given by the host, in bytes, and by the platform
  Limits,       \* value byte limits the host sets, NoLimit among them
  UndoLimit,    \* TextInputOptions::undo_limit
  UndoBytes,    \* TextInputOptions::undo_byte_limit
  MaxCalls      \* BOUND: calls, those of undo, redo and copy not counted

ASSUME LimitsAssumption ==
  /\ UndoLimit \in Nat /\ UndoBytes \in Nat /\ MaxCalls \in Nat

NoLimit == -1

\* What a host or a platform gives is UTF-8, and its ranges are byte offsets, of this text
\* or of another one.
ASSUME InputsAssumption ==
  /\ \A text \in Inputs \cup {CopyText, Clip.copied, Clip.display} : IsText(text)
  /\ IsFiniteSet(Clip.atoms) /\ \A a \in Clip.atoms : IsText(a.copy)
  /\ \A range \in Ranges : range = NoSpan \/ range \in [lo : Nat, hi : Nat]
  /\ \A bytes \in Limits : bytes = NoLimit \/ bytes \in Nat

\* The host makes an input with atoms that are valid in its text.
ASSUME SetupsAssumption ==
  \A s \in Setups :
    /\ s.mode \in {"SingleLine", "Multiline"} /\ IsText(s.text)
    /\ IsFiniteSet(s.atoms) /\ \A a \in s.atoms : IsText(a.copy)
    /\ ValidAtoms(Normalized(s.text, s.mode), s.atoms)

VARIABLES
  setup,      \* mode and policies of this input
  buffer,     \* text, selection, marked range and atoms
  undo,       \* undo_stack, the newest last
  redo,       \* redo_stack
  limit,      \* value_byte_limit
  readOnly,   \* TextInputOptions::is_read_only
  enabled,    \* TextInput::is_enabled
  selecting,  \* is_selecting: a drag extends the selection
  clip,       \* what was last copied or cut: its text, and as the host exported it
  refused,    \* the byte length ValueLimitExceeded tells, None when it was not emitted
  host,       \* text and selection as the events told them
  calls       \* calls counted against the bound

content == <<buffer, undo, redo, host>>
settings == <<limit, readOnly, enabled>>
vars == <<setup, content, settings, selecting, clip, refused, calls>>

None == -1

-----------------------------------------------------------------------------
(* How a call ends.                                                        *)

\* admit_value_bytes.
TooLong(bytes) == limit # NoLimit /\ bytes > limit

Keep == UNCHANGED content /\ refused' = None
Refuse(bytes) == UNCHANGED content /\ refused' = bytes

\* finish_change: the host applies the change and takes over the selection.
Heard(text, b) == [text |-> text, selected |-> b.selected, reversed |-> b.reversed]
HearChange(replaced, replacement, b) ==
  host' = Heard(SubSeq(host.text, 1, replaced.lo) \o replacement
                  \o SubSeq(host.text, replaced.hi + 1, Len(host.text)), b)

\* finish_selection_change.
TakeSelection(b) ==
  /\ buffer' = b
  /\ host' = IF b = buffer THEN host ELSE Heard(host.text, b)
  /\ refused' = None
  /\ UNCHANGED <<undo, redo>>

\* apply_edit_with_inserted_atoms.
ApplyEdit(range, replacement, selected, marked, inserted) ==
  \E r \in {Whole(range, buffer.text, buffer.atoms)} :
  \E successor \in {Edited(buffer, r, replacement, selected, marked, inserted)} :
    CASE TooLong(Len(successor.text)) -> Refuse(Len(successor.text))
      [] ~TooLong(Len(successor.text)) /\ successor = buffer -> Keep
      [] OTHER ->
           /\ buffer' = successor
           /\ undo' = Pushed(undo, buffer, UndoLimit, UndoBytes)
           /\ redo' = <<>>
           /\ HearChange(r, replacement, successor)
           /\ refused' = None

\* admit_replacement: the length of the successor is asked for before the text is made.
Admitted(r, text, edit) ==
  \E bytes \in {Len(buffer.text) - (r.hi - r.lo) + NormalizedBytes(text, setup.mode)} :
    IF TooLong(bytes) THEN Refuse(bytes) ELSE edit

\* replace_text_in_range_with_atoms, without atoms replace_text_in_range: the given
\* range, the marked text or the selection.
Replace(given, text, atoms) ==
  IF readOnly THEN Keep
  ELSE \E r \in {ActiveEditRange(buffer, given)} :
       \E replacement \in {Normalized(text, setup.mode)} :
         Admitted(r, text,
                  IF ValidSelectionAtoms(replacement, atoms)
                  THEN ApplyEdit(r, replacement, Caret(r.lo + Len(replacement)), NoSpan,
                                 Placed(atoms, r.lo))
                  ELSE Keep)

-----------------------------------------------------------------------------
(* Edits.                                                                  *)

Counted == calls < MaxCalls /\ calls' = calls + 1

\* A call that may edit.
Edits == Counted /\ UNCHANGED <<setup, settings, selecting>>

\* What Backspace, Delete and their word forms erase when nothing is selected.
Erasures == {"Backspace", "Delete", "DeleteWordBackward", "DeleteWordForward"}
ErasedFrom(b, command) ==
  LET cursor == Cursor(b)
  IN CASE command = "Backspace" -> Span(PreviousGrapheme(b.text, cursor), cursor)
       [] command = "Delete" -> Span(cursor, NextGrapheme(b.text, cursor))
       [] command = "DeleteWordBackward" -> Span(PreviousWord(b.text, cursor), cursor)
       [] command = "DeleteWordForward" -> Span(cursor, NextWord(b.text, cursor))

Erase(command) ==
  /\ enabled
  /\ Edits
  /\ \E erased \in {IF HasActiveSelection(buffer) THEN NoSpan ELSE ErasedFrom(buffer, command)} :
       IF erased # NoSpan /\ IsCaret(erased) THEN Keep ELSE Replace(erased, <<>>, {})
  /\ UNCHANGED clip

\* insert_newline, by the host or by a key, which the widget takes when the key is not
\* the host's.
InsertNewline ==
  /\ Edits
  /\ IF setup.mode = "Multiline" THEN Replace(NoSpan, <<Newline>>, {}) ELSE Keep
  /\ UNCHANGED clip

\* replace_selected_text, and insert_text_at_offset, by the host.
ReplaceSelected(text) == Edits /\ Replace(NoSpan, text, {}) /\ UNCHANGED clip
InsertTextAt(offset, text) ==
  /\ Edits
  /\ Replace(Caret(Clamp(buffer.text, offset)), text, {})
  /\ UNCHANGED clip

\* replace_text_range_with_atom: one atom over the whole of what is inserted.
AtomOver(shown, id) ==
  [id |-> id, lo |-> 0, hi |-> Len(shown), display |-> shown, copy |-> CopyText]
ReplaceWithAtom(given, text, id) ==
  /\ Edits
  /\ Replace(given, text, {AtomOver(Normalized(text, setup.mode), id)})
  /\ UNCHANGED clip

\* replace_selected_text_with_atoms: the host pastes what it exported.
PasteExport == Edits /\ Replace(NoSpan, clip.display, clip.atoms) /\ UNCHANGED clip

\* paste: the text of the clipboard, in which an atom is its copy.
Paste == enabled /\ Edits /\ Replace(NoSpan, clip.copied, {}) /\ UNCHANGED clip

\* remove_atom_by_id: the first atom with the identity.
RemoveAtom(id) ==
  /\ Edits
  /\ \E named \in {{i \in DOMAIN buffer.atoms : buffer.atoms[i].id = id}} :
       IF named = {} THEN Keep
       ELSE Replace(Span(buffer.atoms[Min(named)].lo, buffer.atoms[Min(named)].hi), <<>>, {})
  /\ UNCHANGED clip

\* The selection is exported whatever is marked.
Selection == Exported(buffer, buffer.selected)
AsText(export) == [copied |-> export.copied, display |-> export.copied, atoms |-> {}]

\* cut_selection_export by the host, and cut by a key, which leaves atoms to a host
\* that wants them.
CutExport ==
  /\ Edits
  /\ \E export \in {Selection} :
       IF readOnly \/ export.display = <<>> THEN Keep /\ UNCHANGED clip
       ELSE Replace(NoSpan, <<>>, {}) /\ clip' = export

\* What a key copies or cuts.
KeyTakes(export) ==
  export.display # <<>> /\ ~(setup.atomClipboard = "Propagate" /\ export.atoms # {})

Cut ==
  /\ enabled
  /\ Edits
  /\ \E export \in {Selection} :
       IF readOnly \/ ~KeyTakes(export) THEN Keep /\ UNCHANGED clip
       ELSE Replace(NoSpan, <<>>, {}) /\ clip' = AsText(export)

Copy ==
  /\ enabled
  /\ \E export \in {Selection} : KeyTakes(export) /\ clip' = AsText(export)
  /\ Keep
  /\ UNCHANGED <<setup, settings, selecting, calls>>

-----------------------------------------------------------------------------
(* The platform's input method counts in UTF-16 units: here one for every  *)
(* scalar.                                                                 *)

\* offset_from_utf16.
FromUtf16(t, offset) ==
  Min({Len(t)} \cup {i \in CharBoundaries(t) :
                       Cardinality({j \in CharBoundaries(t) : j < i}) >= offset})
SpanFromUtf16(t, r) == IF r = NoSpan THEN NoSpan ELSE Span(FromUtf16(t, r.lo), FromUtf16(t, r.hi))

\* replace_text_in_range: a newline is the host's when Enter is.
ImeReplace(given, text) ==
  /\ enabled
  /\ Edits
  /\ IF /\ setup.enterKey = "Propagate" /\ text # <<>>
        /\ \A i \in DOMAIN text : IsNewline(text[i])
     THEN Keep
     ELSE Replace(SpanFromUtf16(buffer.text, given), text, {})
  /\ UNCHANGED clip

\* replace_and_mark_text_in_range: what is composed stays marked, with the selection
\* the platform wants in it.
ChosenIn(r, chosen) == Span(r.lo + chosen.lo, r.lo + chosen.hi)
Compose(given, text, chosen) ==
  /\ enabled
  /\ Edits
  /\ IF readOnly THEN Keep
     ELSE \E r \in {ActiveEditRange(buffer, SpanFromUtf16(buffer.text, given))} :
          \E replacement \in {Normalized(text, setup.mode)} :
            Admitted(r, text,
                     ApplyEdit(r, replacement,
                               ChosenIn(r, IF chosen = NoSpan THEN Caret(Len(replacement))
                                           ELSE Clamped(replacement, SpanFromUtf16(text, chosen))),
                               IF replacement = <<>> THEN NoSpan
                               ELSE Span(r.lo, r.lo + Len(replacement)),
                               <<>>))
  /\ UNCHANGED clip

\* unmark_text.
Unmark ==
  /\ enabled
  /\ ~readOnly
  /\ buffer.marked # NoSpan
  /\ TakeSelection([buffer EXCEPT !.marked = NoSpan])
  /\ Counted
  /\ UNCHANGED <<setup, settings, selecting, clip>>

\* A call that changes a setting or drops the history.
Settings == Counted /\ UNCHANGED <<setup, selecting, clip>>

-----------------------------------------------------------------------------
(* History.                                                                *)

\* Fault: a snapshot is restored without asking for its length.
RestoresUnasked(from, to) ==
  /\ buffer' = Last(from)
  /\ HearChange(Span(0, Len(buffer.text)), Last(from).text, Last(from))
  /\ refused' = None
  /\ to' = Pushed(to, buffer, UndoLimit, UndoBytes)
  /\ from' = Front(from)

\* Fault: what was restored goes on the other stack, not what it replaces.
RestoresOnly(from, to) ==
  LET snapshot == Last(from)
  IN IF TooLong(Len(snapshot.text))
     THEN Refuse(Len(snapshot.text))
     ELSE /\ buffer' = snapshot
          /\ HearChange(Span(0, Len(buffer.text)), snapshot.text, snapshot)
          /\ refused' = None
          /\ to' = Pushed(to, snapshot, UndoLimit, UndoBytes)
          /\ from' = Front(from)

\* Fault: the change names all of the new text as replaced, not all of the old.
RestoresNewRange(from, to) ==
  LET snapshot == Last(from)
  IN IF TooLong(Len(snapshot.text))
     THEN Refuse(Len(snapshot.text))
     ELSE /\ buffer' = snapshot
          /\ HearChange(Span(0, Len(snapshot.text)), snapshot.text, snapshot)
          /\ refused' = None
          /\ to' = Pushed(to, buffer, UndoLimit, UndoBytes)
          /\ from' = Front(from)

\* undo and redo: the length is admitted before the snapshot is taken, and what is
\* left goes on the other stack.
Restores(from, to) ==
  LET snapshot == Last(from)
  IN IF TooLong(Len(snapshot.text))
     THEN Refuse(Len(snapshot.text))
     ELSE /\ buffer' = snapshot
          /\ HearChange(Span(0, Len(buffer.text)), snapshot.text, snapshot)
          /\ refused' = None
          /\ to' = Pushed(to, buffer, UndoLimit, UndoBytes)
          /\ from' = Front(from)

Undo ==
  /\ enabled /\ ~readOnly
  /\ undo # <<>>
  /\ Restores(undo, redo)
  /\ UNCHANGED <<setup, settings, selecting, clip, calls>>

Redo ==
  /\ enabled /\ ~readOnly
  /\ redo # <<>>
  /\ Restores(redo, undo)
  /\ UNCHANGED <<setup, settings, selecting, clip, calls>>

ClearHistory ==
  /\ undo' = <<>> /\ redo' = <<>>
  /\ UNCHANGED <<buffer, host>>
  /\ refused' = None
  /\ Settings
  /\ UNCHANGED settings

-----------------------------------------------------------------------------
(* The selection.                                                          *)

\* set_selection, move_to_offset and select_to_offset.
Selecting(b, range, reversed) ==
  [b EXCEPT !.selected = Whole(range, b.text, b.atoms), !.reversed = reversed, !.marked = NoSpan]
MovedTo(b, offset) ==
  Selecting(b, Caret(Snap(b.text, b.atoms, offset, "Nearest")), FALSE)
Extended(b, at) ==
  LET anchor == IF b.reversed THEN b.selected.hi ELSE b.selected.lo
  IN Selecting(b, Ordered(anchor, at), IF at = anchor THEN b.reversed ELSE at < anchor)
SelectedTo(b, offset) == Extended(b, Snap(b.text, b.atoms, offset, "Nearest"))

Motions == {"Left", "Right", "WordLeft", "WordRight", "Home", "End", "ToStart", "ToEnd"}

\* Fault: a step goes to the nearest side of an atom.
ReachedNearest(b, motion) ==
  LET t == b.text
      cursor == Cursor(b)
  IN Snap(t, b.atoms,
          CASE motion = "Left" -> PreviousGrapheme(t, cursor)
            [] motion = "Right" -> NextGrapheme(t, cursor)
            [] motion = "WordLeft" -> PreviousWord(t, cursor)
            [] motion = "WordRight" -> NextWord(t, cursor)
            [] motion \in {"Home", "ToStart"} -> 0
            [] motion \in {"End", "ToEnd"} -> Len(t),
          "Nearest")

\* Where a movement takes the cursor: steps stop at the far side of an atom.
Reached(b, motion) ==
  LET t == b.text
      cursor == Cursor(b)
      multiline == setup.mode = "Multiline"
  IN CASE motion = "Left" -> Snap(t, b.atoms, PreviousGrapheme(t, cursor), "Backward")
       [] motion = "Right" -> Snap(t, b.atoms, NextGrapheme(t, cursor), "Forward")
       [] motion = "WordLeft" -> Snap(t, b.atoms, PreviousWord(t, cursor), "Backward")
       [] motion = "WordRight" -> Snap(t, b.atoms, NextWord(t, cursor), "Forward")
       [] motion = "Home" -> IF multiline THEN LineStart(t, cursor) ELSE 0
       [] motion = "End" -> IF multiline THEN LineEnd(t, cursor) ELSE Len(t)
       [] motion = "ToStart" -> 0
       [] motion = "ToEnd" -> Len(t)

\* A step with a selection goes to its side instead.
Moved(b, motion) ==
  MovedTo(b, CASE ~IsCaret(b.selected) /\ motion \in {"Left", "WordLeft"} -> b.selected.lo
               [] ~IsCaret(b.selected) /\ motion \in {"Right", "WordRight"} -> b.selected.hi
               [] OTHER -> Reached(b, motion))

Selects == Counted /\ UNCHANGED <<setup, settings, selecting, clip>>

Move(motion) == enabled /\ TakeSelection(Moved(buffer, motion)) /\ Selects
Extend(motion) == enabled /\ TakeSelection(SelectedTo(buffer, Reached(buffer, motion))) /\ Selects

\* move_vertically, to an offset the last layout gives.
MoveVertically(offset, direction, extend) ==
  /\ enabled
  /\ setup.mode = "Multiline"
  /\ TakeSelection(
       IF extend THEN SelectedTo(buffer, offset)
       ELSE MovedTo(buffer, CASE IsCaret(buffer.selected) -> offset
                              [] ~IsCaret(buffer.selected) /\ direction = "Up" -> buffer.selected.lo
                              [] ~IsCaret(buffer.selected) /\ direction = "Down" -> buffer.selected.hi))
  /\ Selects

\* select_all by a key, select_all_text and set_selection by the host.
SetSelection(range, reversed) == TakeSelection(Selecting(buffer, range, reversed)) /\ Selects
SelectAll == SetSelection(Span(0, Len(buffer.text)), FALSE)

\* on_mouse_down: a click on an atom is the host's.
LineOf(t, at) == IF setup.mode = "SingleLine" THEN Span(0, Len(t))
                 ELSE Span(LineStart(t, at), LineEnd(t, at))
Clicked(b, offset, clicks) ==
  IF clicks = 1 \/ (clicks = 2 /\ b.text = <<>>) THEN MovedTo(b, offset)
  ELSE Selecting(b, IF clicks = 2 THEN WordRange(b.text, Clamp(b.text, offset))
                    ELSE LineOf(b.text, Clamp(b.text, offset)), FALSE)

HitsAtom(at) ==
  \E i \in DOMAIN buffer.atoms : buffer.atoms[i].lo <= at /\ at <= buffer.atoms[i].hi

MouseDown(offset, clicks, shift) ==
  /\ enabled
  /\ IF ~shift /\ clicks = 1 /\ HitsAtom(Clamp(buffer.text, offset))
     THEN Keep /\ selecting' = FALSE
     ELSE /\ TakeSelection(IF shift THEN SelectedTo(buffer, offset)
                           ELSE Clicked(buffer, offset, clicks))
          /\ selecting' = (clicks = 1)
  /\ Counted
  /\ UNCHANGED <<setup, settings, clip>>

Drag(offset) == enabled /\ selecting /\ TakeSelection(SelectedTo(buffer, offset)) /\ Selects

MouseUp ==
  /\ enabled
  /\ selecting' = FALSE
  /\ Keep
  /\ UNCHANGED <<setup, settings, clip, calls>>

-----------------------------------------------------------------------------
(* The host's settings.                                                    *)

\* set_text and set_text_and_select; the host knows the text it gave.
Fresh(t, selectAll) ==
  IF selectAll THEN Selecting(NewBuffer(t), Span(0, Len(t)), FALSE) ELSE NewBuffer(t)
SetText(text, selectAll) ==
  /\ Edits
  /\ IF TooLong(NormalizedBytes(text, setup.mode))
     THEN Refuse(NormalizedBytes(text, setup.mode))
     ELSE \E next \in {Fresh(Normalized(text, setup.mode), selectAll)} :
            /\ buffer' = next
            /\ undo' = <<>> /\ redo' = <<>>
            /\ host' = Heard(next.text, IF next = buffer THEN host ELSE next)
            /\ refused' = None
  /\ UNCHANGED clip

\* Fault: what is composed stays marked over the new atoms.
SetAtomsWhileMarked(atoms) ==
  /\ Edits
  /\ \E placed \in {Placed(atoms, 0)} :
       IF ~ValidAtoms(buffer.text, atoms) THEN Keep
       ELSE TakeSelection([buffer EXCEPT !.atoms = placed,
                                         !.selected = Whole(@, buffer.text, placed)])
  /\ UNCHANGED clip

\* set_atoms: the atoms of the whole text, without a step of history.
SetAtoms(atoms) ==
  /\ Edits
  /\ \E placed \in {Placed(atoms, 0)} :
       IF ~ValidAtoms(buffer.text, atoms) THEN Keep
       ELSE TakeSelection([buffer EXCEPT !.atoms = placed,
                                         !.selected = Whole(@, buffer.text, placed),
                                         !.marked = WithoutAtoms(@, placed)])
  /\ UNCHANGED clip

\* set_value_byte_limit: never below the value.
SetLimit(bytes) ==
  /\ bytes = NoLimit \/ Len(buffer.text) <= bytes
  /\ limit' = bytes
  /\ Keep
  /\ Settings
  /\ UNCHANGED <<readOnly, enabled>>

SetReadOnly == readOnly' = ~readOnly /\ Keep /\ Settings /\ UNCHANGED <<limit, enabled>>
SetEnabled == enabled' = ~enabled /\ Keep /\ Settings /\ UNCHANGED <<limit, readOnly>>

-----------------------------------------------------------------------------
Init ==
  /\ setup \in Setups
  /\ buffer = [NewBuffer(Normalized(setup.text, setup.mode)) EXCEPT !.atoms = Placed(setup.atoms, 0)]
  /\ undo = <<>> /\ redo = <<>>
  /\ limit = NoLimit /\ readOnly = FALSE /\ enabled = TRUE
  /\ selecting = FALSE
  /\ clip = Clip
  /\ refused = None
  /\ host = Heard(buffer.text, buffer)
  /\ calls = 0

\* Offsets a painted text may give, one past the present one included.
Offsets == 0..(Len(buffer.text) + 1)
\* Atom sets the host may give.
GivenAtoms ==
  {{}} \cup {{[id |-> id, lo |-> r.lo, hi |-> r.hi, copy |-> CopyText]} :
               id \in AtomIds, r \in Ranges \ {NoSpan}}

Next ==
  \/ \E command \in Erasures : Erase(command)
  \/ InsertNewline
  \/ \E text \in Inputs :
       \/ ReplaceSelected(text)
       \/ \E offset \in Offsets : InsertTextAt(offset, text)
       \/ \E given \in Ranges : ImeReplace(given, text)
       \/ \E given, chosen \in Ranges : Compose(given, text, chosen)
       \/ \E given \in Ranges \ {NoSpan}, id \in AtomIds : ReplaceWithAtom(given, text, id)
       \/ \E selectAll \in BOOLEAN : SetText(text, selectAll)
  \/ \E atoms \in GivenAtoms : SetAtoms(atoms)
  \/ \E id \in AtomIds : RemoveAtom(id)
  \/ CutExport \/ Cut \/ Copy \/ Paste \/ PasteExport
  \/ Unmark
  \/ Undo \/ Redo \/ ClearHistory
  \/ \E motion \in Motions : Move(motion) \/ Extend(motion)
  \/ \E offset \in Offsets, direction \in {"Up", "Down"}, extend \in BOOLEAN :
       MoveVertically(offset, direction, extend)
  \/ \E range \in Ranges \ {NoSpan}, reversed \in BOOLEAN : SetSelection(range, reversed)
  \/ SelectAll
  \/ \E offset \in Offsets, clicks \in 1..3, shift \in BOOLEAN : MouseDown(offset, clicks, shift)
  \/ \E offset \in Offsets : Drag(offset)
  \/ MouseUp
  \/ \E bytes \in Limits : SetLimit(bytes)
  \/ SetReadOnly \/ SetEnabled

Spec == Init /\ [][Next]_vars

-----------------------------------------------------------------------------
(* Properties.                                                             *)

\* A text with its selection, marked range and atoms that fit together: offsets on
\* character boundaries, atoms in order and apart, and nothing ends within an atom.
SoundBuffer(b) ==
  /\ Normalized(b.text, setup.mode) = b.text
  /\ ValidAtoms(b.text, ToSet(b.atoms))
  /\ \A i \in 1..(Len(b.atoms) - 1) : b.atoms[i].hi <= b.atoms[i + 1].lo
  /\ Whole(b.selected, b.text, b.atoms) = b.selected
  /\ b.marked # NoSpan =>
       /\ Clamped(b.text, b.marked) = b.marked
       /\ ~MeetsAtom(b.marked, b.atoms)
       /\ b.marked.lo <= b.selected.lo /\ b.selected.hi <= b.marked.hi

\* Coherent: whatever is typed, composed, pasted, set or undone, the value and every
\* kept snapshot of it have text, selection, marked range and atoms that fit together
\* (offsets and atoms come from hosts and platforms that may know an older text).
Coherent ==
  /\ SoundBuffer(buffer)
  /\ \A i \in DOMAIN undo : SoundBuffer(undo[i])
  /\ \A i \in DOMAIN redo : SoundBuffer(redo[i])

\* WithinBounds: no edit, composition, undo, redo or change of the limit leaves a value
\* over its byte limit, only what would be over it is refused, and neither stack holds
\* more snapshots or bytes than it may (doc/design.md "Owned-Value Byte Limit" and "retained editor mechanics").
WithinBounds ==
  /\ ~TooLong(Len(buffer.text))
  /\ refused # None => limit # NoLimit /\ refused > limit
  /\ \A stack \in {undo, redo} : Len(stack) <= UndoLimit /\ StackBytes(stack) <= UndoBytes

\* The values undo and redo lead through, from the oldest to the newest.
Value(b) == <<b.text, b.atoms>>
Line == LET values == [i \in DOMAIN undo |-> Value(undo[i])] \o <<Value(buffer)>>
                        \o [i \in DOMAIN redo |-> Value(redo[Len(redo) + 1 - i])]
            turns == SelectSeq([i \in DOMAIN values |-> i],
                               LAMBDA i : i = 1 \/ values[i] # values[i - 1])
        IN [k \in DOMAIN turns |-> values[turns[k]]]
AllFits == /\ Len(undo) + Len(redo) < UndoLimit
           /\ StackBytes(undo) + StackBytes(redo) + SnapshotBytes(buffer) <= UndoBytes

\* HistoryKeepsItsLine: undo and redo only walk along the values there were: while the
\* limits evict nothing, what one takes the other gives back, whatever moved between.
HistoryKeepsItsLine == [][(Undo \/ Redo) /\ AllFits => Line' = Line]_vars

\* HostMirrors: a host that applies the changes and selections it is told has the text
\* and the selection of the widget.
HostMirrors == host = Heard(buffer.text, buffer)

\* The atoms of a buffer with the text each of them shows, from an offset of the end.
Shown(b, atoms) == [i \in DOMAIN atoms |-> <<atoms[i].id, atoms[i].copy, Slice(b.text, atoms[i])>>]

\* AtomsStayWhole: an edit of any range keeps every atom outside it, over its own text,
\* and removes whole each one it meets; what is exported of the selection can be pasted
\* back where it was cut, and gives the same text and atoms.
AtomsStayWhole ==
  /\ \A range \in Ranges \ {NoSpan}, text \in Inputs :
       LET r == ActiveEditRange(buffer, range)
           replacement == Normalized(text, setup.mode)
           edited == Edited(buffer, r, replacement, Caret(r.lo), NoSpan, <<>>)
           named == Clamped(buffer.text, range)
           apart == Only(buffer.atoms,
                         {a \in ToSet(buffer.atoms) : IsCaret(named) \/ ~Meets(named, a)})
       IN Shown(edited, edited.atoms) = Shown(buffer, apart)
  /\ LET cut == Edited(buffer, buffer.selected, <<>>, Caret(buffer.selected.lo), NoSpan, <<>>)
         back == Edited(cut, cut.selected, Selection.display, cut.selected, NoSpan,
                        Placed(Selection.atoms, cut.selected.lo))
     IN /\ ValidSelectionAtoms(Selection.display, Selection.atoms)
        /\ Value(back) = Value(buffer)

\* CaretAdvances: every step and word step moves the cursor on, until the end of the
\* text, also where it meets an atom or an end of the selection, and an erasing key with
\* nothing selected erases something.
CaretAdvances ==
  \A motion \in {"Left", "WordLeft", "Right", "WordRight"} :
    LET left == motion \in {"Left", "WordLeft"}
        before == Cursor(buffer)
        advanced(b) == IF left THEN before = 0 \/ Cursor(b) < before
                       ELSE before = Len(b.text) \/ Cursor(b) > before
    IN /\ IsCaret(buffer.selected) => advanced(Moved(buffer, motion))
       /\ advanced(SelectedTo(buffer, Reached(buffer, motion)))
=============================================================================
