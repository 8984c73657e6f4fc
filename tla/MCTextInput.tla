----------------------------- MODULE MCTextInput ------------------------------
(* A small value for TextInput.                                              *)
EXTENDS TextInput

\* What an atom is copied as.
Fallback == <<Letter, Space>>

\* A multiline input whose keys are its own, and a single-line input that is all one
\* atom, which like Enter is the host's.
TwoSetups ==
  {[mode |-> "Multiline", enterKey |-> "InsertNewline", atomClipboard |-> "PlainText",
    text |-> <<Letter, Mark, TailByte>>, atoms |-> {}],
   [mode |-> "SingleLine", enterKey |-> "Propagate", atomClipboard |-> "Propagate",
    text |-> <<Letter, Letter, Letter>>,
    atoms |-> {[id |-> "x", lo |-> 0, hi |-> 3, copy |-> Fallback]}]}

\* A letter and an atom behind it.
OtherClip ==
  [display |-> <<Letter, Letter>>, copied |-> <<Letter>> \o Fallback,
   atoms |-> {[id |-> "x", lo |-> 1, hi |-> 2, display |-> <<Letter>>, copy |-> Fallback]}]

\* Nothing, a mark before a letter, a line break of two characters.
SomeInputs == {<<>>, <<Mark, TailByte, Letter>>, <<Return, Newline>>}
SomeRanges == {NoSpan, Span(0, 1), Span(1, 4)}
OneId == {"x"}
SomeLimits == {NoLimit, 3}
=============================================================================
