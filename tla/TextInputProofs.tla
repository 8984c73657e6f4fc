--------------------------- MODULE TextInputProofs ---------------------------
(***************************************************************************)
(* Proofs about TextInput for every text, range, atom, limit and number of *)
(* calls.                                                                  *)
(*                                                                         *)
(* Coherent is shown by what makes it so: offsets are edges, atoms are a   *)
(* row and a selection is snug, that is, ends in no atom.  Then            *)
(* normalising a range of a sound buffer changes nothing (SnugIsWhole),    *)
(* and normalising any range gives a snug one (WholeIsSnug).               *)
(***************************************************************************)
EXTENDS TextInput, ListTheorems, FiniteSetTheorems

-----------------------------------------------------------------------------
(* Numbers.                                                                *)

LEMMA MinFacts ==
  ASSUME NEW T, T \subseteq Nat, T # {}
  PROVE  Min(T) \in T /\ \A y \in T : Min(T) <= y
  BY LeastNatural DEF Min

LEMMA MaxFacts ==
  ASSUME NEW n \in Nat, NEW T, T \subseteq 0..n, T # {}
  PROVE  Max(T) \in T /\ \A y \in T : y <= Max(T)
<1> DEFINE U == {k \in Nat : n - k \in T}
<1>1. \E k \in Nat : k \in U
  <2>1. PICK x \in T : x \in 0..n
    OBVIOUS
  <2>2. n - x \in Nat /\ n - (n - x) = x
    BY <2>1
  <2> QED
    BY <2>1, <2>2
<1>2. U \subseteq Nat /\ U # {}
  BY <1>1
<1> HIDE DEF U
<1>3. PICK k \in U : \A m \in U : k <= m
  BY <1>2, LeastNatural
<1>4. n - k \in T /\ k \in Nat
  BY <1>3 DEF U
<1>5. ASSUME NEW y \in T PROVE y <= n - k
  <2>1. y \in 0..n
    OBVIOUS
  <2>2. n - y \in U
    BY <2>1 DEF U
  <2>3. k <= n - y
    BY <1>3, <2>2
  <2> QED
    BY <1>4, <2>1, <2>3
<1> QED
  BY <1>4, <1>5 DEF Max

LEMMA LowerFacts ==
  ASSUME NEW i \in Int, NEW j \in Int
  PROVE  /\ Lower(i, j) \in {i, j} /\ Lower(i, j) <= i /\ Lower(i, j) <= j
         /\ Upper(i, j) \in {i, j} /\ i <= Upper(i, j) /\ j <= Upper(i, j)
         /\ Lower(i, j) <= Upper(i, j) /\ (i <= j => Lower(i, j) = i /\ Upper(i, j) = j)
         /\ i \in {Lower(i, j), Upper(i, j)} /\ j \in {Lower(i, j), Upper(i, j)}
  BY DEF Lower, Upper

LEMMA SpanFacts ==
  /\ \A i, j : Span(i, j).lo = i /\ Span(i, j).hi = j
  /\ \A i, j, k, l : Span(i, j) = Span(k, l) <=> i = k /\ j = l
  /\ \A i : Caret(i) = Span(i, i)
  BY DEF Span, Caret

-----------------------------------------------------------------------------
(* Texts and edges.                                                        *)

Edge(t, i) == i \in CharBoundaries(t)

LEMMA TextFacts ==
  ASSUME NEW t, IsText(t)
  PROVE  /\ Len(t) \in Nat /\ t \in Seq(Byte) /\ DOMAIN t = 1..Len(t)
         /\ \A i \in 1..Len(t) : t[i] \in Byte
  BY DEF IsText

LEMMA EdgeFacts ==
  ASSUME NEW t, IsText(t)
  PROVE  /\ CharBoundaries(t) \subseteq 0..Len(t)
         /\ Edge(t, 0) /\ Edge(t, Len(t))
         /\ \A i \in 0..(Len(t) - 1) : Edge(t, i) <=> t[i + 1] # TailByte
<1>1. Len(t) \in Nat
  BY TextFacts
<1>2. t # <<>> => Len(t) > 0 /\ t[1] # TailByte
  BY <1>1, TextFacts DEF IsText
<1>3. t = <<>> => Len(t) = 0
  OBVIOUS
<1> QED
  BY <1>1, <1>2, <1>3 DEF Edge, CharBoundaries, IsCharBoundary

LEMMA ClampFacts ==
  ASSUME NEW t, IsText(t), NEW offset \in Nat
  PROVE  /\ Edge(t, Clamp(t, offset)) /\ Clamp(t, offset) <= offset
         /\ Edge(t, offset) => Clamp(t, offset) = offset
<1> DEFINE T == {i \in CharBoundaries(t) : i <= offset}
<1>1. T \subseteq 0..Len(t) /\ 0 \in T
  BY EdgeFacts DEF Edge
<1>2. Clamp(t, offset) = Max(T)
  BY DEF Clamp
<1>3. Edge(t, offset) => offset \in T
  BY EdgeFacts DEF Edge
<1>4. \A i \in T : i \in CharBoundaries(t) /\ i <= offset
  OBVIOUS
<1> HIDE DEF T
<1>5. Max(T) \in T /\ \A y \in T : y <= Max(T)
  BY <1>1, MaxFacts, TextFacts
<1>6. Max(T) \in Nat
  <2>1. PICK m : m = Max(T)
    OBVIOUS
  <2>2. m \in 0..Len(t)
    BY <1>1, <1>5, <2>1
  <2> QED
    BY <2>1, <2>2, TextFacts
<1> QED
  BY <1>2, <1>3, <1>4, <1>5, <1>6 DEF Edge

\* A range of edges in order.
EdgeSpan(t, r) == r = Span(r.lo, r.hi) /\ Edge(t, r.lo) /\ Edge(t, r.hi) /\ r.lo <= r.hi

LEMMA EdgeSpanFacts ==
  ASSUME NEW t, IsText(t), NEW r, EdgeSpan(t, r)
  PROVE  r.lo \in 0..Len(t) /\ r.hi \in 0..Len(t) /\ r.lo \in Nat /\ r.hi \in Nat
  BY EdgeFacts, TextFacts DEF EdgeSpan, Edge

LEMMA ClampedFacts ==
  ASSUME NEW t, IsText(t), NEW r, r.lo \in Nat, r.hi \in Nat
  PROVE  /\ EdgeSpan(t, Clamped(t, r))
         /\ EdgeSpan(t, r) => Clamped(t, r) = r
<1>1. PICK lo, hi : lo = Clamp(t, r.lo) /\ hi = Clamp(t, r.hi)
  OBVIOUS
<1>2. Edge(t, lo) /\ Edge(t, hi) /\ lo \in Int /\ hi \in Int
  BY <1>1, ClampFacts, EdgeFacts, TextFacts DEF Edge
<1>3. Clamped(t, r) = Span(Lower(lo, hi), Upper(lo, hi))
  BY <1>1 DEF Clamped, Ordered
<1>4. EdgeSpan(t, Clamped(t, r))
  BY <1>2, <1>3, LowerFacts, SpanFacts DEF EdgeSpan
<1>5. ASSUME EdgeSpan(t, r) PROVE Clamped(t, r) = r
  <2>1. lo = r.lo /\ hi = r.hi /\ r.lo <= r.hi /\ r = Span(r.lo, r.hi)
    BY <1>1, <1>5, ClampFacts DEF EdgeSpan
  <2> QED
    BY <1>2, <1>3, <2>1, LowerFacts
<1> QED
  BY <1>4, <1>5

\* What lies between two edges is a text.
LEMMA SliceFacts ==
  ASSUME NEW t, IsText(t), NEW lo, NEW hi, Edge(t, lo), Edge(t, hi)
  PROVE  /\ IsText(Slice(t, Span(lo, hi)))
         /\ lo <= hi => Len(Slice(t, Span(lo, hi))) = hi - lo
         /\ \A i \in 1..(hi - lo) : Slice(t, Span(lo, hi))[i] = t[lo + i]
<1>1. t \in Seq(Byte) /\ Len(t) \in Nat /\ lo \in 0..Len(t) /\ hi \in 0..Len(t)
  BY TextFacts, EdgeFacts DEF Edge
<1>2. PICK s : s = SubSeq(t, lo + 1, hi)
  OBVIOUS
<1>3. Slice(t, Span(lo, hi)) = s
  BY <1>2, SpanFacts DEF Slice
<1>4. /\ s \in Seq(Byte)
      /\ lo <= hi => Len(s) = hi - lo
      /\ lo > hi => s = <<>>
      /\ \A i \in 1..(hi - lo) : s[i] = t[lo + i]
  BY <1>1, <1>2
<1>5. s = <<>> \/ s[1] # TailByte
  <2>1. CASE lo >= hi
    BY <1>1, <1>4, <2>1
  <2>2. CASE lo < hi
    <3>1. s[1] = t[lo + 1] /\ lo \in 0..(Len(t) - 1)
      BY <1>1, <1>4, <2>2
    <3> QED
      BY <3>1, EdgeFacts
  <2> QED
    BY <1>1, <2>1, <2>2
<1> QED
  BY <1>3, <1>4, <1>5 DEF IsText

LEMMA ConcatText ==
  ASSUME NEW s, IsText(s), NEW t, IsText(t)
  PROVE  IsText(s \o t)
<1>1. s \in Seq(Byte) /\ t \in Seq(Byte)
  BY TextFacts
<1>2. s \o t \in Seq(Byte)
  BY <1>1
<1>3. CASE s = <<>>
  <2>1. s \o t = t
    BY <1>1, <1>3
  <2> QED
    BY <2>1
<1>4. CASE s # <<>>
  <2>1. (s \o t)[1] = s[1]
    BY <1>1, <1>4
  <2> QED
    BY <1>2, <1>4, <2>1 DEF IsText
<1> QED
  BY <1>3, <1>4

LEMMA EmptyText == IsText(<<>>)
  BY DEF IsText

-----------------------------------------------------------------------------
(* Rows of atoms.                                                          *)

IsAtom(a) ==
  /\ a = [id |-> a.id, lo |-> a.lo, hi |-> a.hi, copy |-> a.copy]
  /\ a.lo \in Nat /\ a.hi \in Nat /\ a.lo < a.hi /\ IsText(a.copy)

\* Atoms in order and apart.
Row(atoms) ==
  /\ Len(atoms) \in Nat /\ atoms = [i \in 1..Len(atoms) |-> atoms[i]]
  /\ \A i \in 1..Len(atoms) : IsAtom(atoms[i])
  /\ \A i, j \in 1..Len(atoms) : i < j => atoms[i].hi <= atoms[j].lo

Edged(t, atoms) == \A i \in 1..Len(atoms) : Edge(t, atoms[i].lo) /\ Edge(t, atoms[i].hi)

\* An offset that is in no atom.
Outside(atoms, at) == \A i \in 1..Len(atoms) : ~(atoms[i].lo < at /\ at < atoms[i].hi)

Snug(r, t, atoms) == EdgeSpan(t, r) /\ Outside(atoms, r.lo) /\ Outside(atoms, r.hi)

LEMMA RowFacts ==
  ASSUME NEW atoms, Row(atoms)
  PROVE  /\ Len(atoms) \in Nat /\ DOMAIN atoms = 1..Len(atoms)
         /\ atoms \in Seq(ToSet(atoms))
         /\ ToSet(atoms) = {atoms[i] : i \in 1..Len(atoms)}
         /\ \A i \in 1..Len(atoms) :
              atoms[i].lo \in Nat /\ atoms[i].hi \in Nat /\ atoms[i].lo < atoms[i].hi
         /\ \A i \in 1..Len(atoms) : Outside(atoms, atoms[i].lo) /\ Outside(atoms, atoms[i].hi)
<1>1. Len(atoms) \in Nat /\ DOMAIN atoms = 1..Len(atoms)
  BY DEF Row
<1>2. ToSet(atoms) = {atoms[i] : i \in 1..Len(atoms)}
  BY <1>1 DEF ToSet
<1>3. atoms \in Seq(ToSet(atoms))
  <2>1. PICK A : A = ToSet(atoms)
    OBVIOUS
  <2>2. atoms \in [1..Len(atoms) -> A]
    BY <1>2, <2>1 DEF Row
  <2>3. atoms \in Seq(A)
    BY <1>1, <2>2
  <2> QED
    BY <2>1, <2>3
<1>4. \A i \in 1..Len(atoms) :
        atoms[i].lo \in Nat /\ atoms[i].hi \in Nat /\ atoms[i].lo < atoms[i].hi
  BY DEF Row, IsAtom
<1>5. ASSUME NEW i \in 1..Len(atoms), NEW j \in 1..Len(atoms)
      PROVE  /\ ~(atoms[j].lo < atoms[i].lo /\ atoms[i].lo < atoms[j].hi)
             /\ ~(atoms[j].lo < atoms[i].hi /\ atoms[i].hi < atoms[j].hi)
  <2>1. i < j => atoms[i].hi <= atoms[j].lo
    BY DEF Row
  <2>2. j < i => atoms[j].hi <= atoms[i].lo
    BY DEF Row
  <2> QED
    BY <1>1, <1>4, <2>1, <2>2
<1> QED
  BY <1>1, <1>2, <1>3, <1>4, <1>5 DEF Outside

\* A meeting of atoms is a meeting of places.
LEMMA MeetsAtomAt ==
  ASSUME NEW atoms, Row(atoms), NEW r
  PROVE  MeetsAtom(r, atoms) <=> \E i \in 1..Len(atoms) : Meets(r, atoms[i])
  BY RowFacts DEF MeetsAtom

Affinities == {"Backward", "Forward", "Nearest"}

LEMMA SnappedFacts ==
  ASSUME NEW atoms, Row(atoms), NEW at \in Nat, NEW affinity \in Affinities
  PROVE  LET snapped == SnappedAt(atoms, at, affinity)
         IN /\ Outside(atoms, snapped) /\ snapped \in Nat
            /\ Outside(atoms, at) => snapped = at
            /\ \/ snapped = at
               \/ \E i \in 1..Len(atoms) : snapped \in {atoms[i].lo, atoms[i].hi}
            /\ affinity = "Backward" => snapped <= at
            /\ affinity = "Forward" => at <= snapped
<1> DEFINE inside == {i \in DOMAIN atoms : atoms[i].lo < at /\ at < atoms[i].hi}
           snapped == SnappedAt(atoms, at, affinity)
<1>1. inside \subseteq 1..Len(atoms) /\ (inside = {} <=> Outside(atoms, at))
  BY RowFacts DEF Outside
<1>2. CASE inside = {}
  <2>1. snapped = at
    BY <1>2 DEF SnappedAt
  <2> QED
    BY <1>1, <1>2, <2>1
<1>3. CASE inside # {}
  <2>1. PICK k : k = Min(inside)
    OBVIOUS
  <2>2. k \in inside
    <3>1. inside \subseteq Nat
      <4>1. DOMAIN atoms = 1..Len(atoms)
        BY RowFacts
      <4>2. inside \subseteq 1..Len(atoms)
        BY <4>1
      <4> QED
        BY <4>2
    <3> HIDE DEF inside
    <3> QED
      BY <1>3, <2>1, <3>1, MinFacts
  <2>3. PICK atom : atom = atoms[k]
    OBVIOUS
  <2>4. /\ k \in 1..Len(atoms) /\ atom.lo < at /\ at < atom.hi
        /\ atom.lo \in Nat /\ atom.hi \in Nat
    BY <1>1, <2>2, <2>3, RowFacts
  <2>5. /\ snapped \in {atom.lo, atom.hi}
        /\ affinity = "Backward" => snapped = atom.lo
        /\ affinity = "Forward" => snapped = atom.hi
    BY <1>3, <2>1, <2>3, Zenon DEF SnappedAt, Affinities
  <2>6. Outside(atoms, atom.lo) /\ Outside(atoms, atom.hi)
    BY <2>3, <2>4, RowFacts
  <2>7. ~Outside(atoms, at)
    BY <1>1, <1>3
  <2> HIDE DEF inside, snapped
  <2> QED
    BY <2>3, <2>4, <2>5, <2>6, <2>7 DEF snapped
<1> QED
  BY <1>2, <1>3

-----------------------------------------------------------------------------
(* Ranges grown over the atoms they meet.                                  *)

GrownOf(g, r, atoms, N) ==
  g = [n \in 0..N |-> IF n = 0 THEN r ELSE Joined(g[n - 1], atoms[n])]

LEMMA GrownExist ==
  ASSUME NEW r, NEW atoms
  PROVE  \A N \in Nat : \E g : GrownOf(g, r, atoms, N)
<1> DEFINE T == {N \in Nat : \E g : GrownOf(g, r, atoms, N)}
<1>1. 0 \in T
  <2> DEFINE g == [n \in 0..0 |-> r]
  <2>1. g = [n \in 0..0 |-> IF n = 0 THEN r ELSE Joined(g[n - 1], atoms[n])]
    OBVIOUS
  <2> QED
    BY <2>1 DEF GrownOf
<1>2. ASSUME NEW N \in Nat, N \in T PROVE N + 1 \in T
  <2>1. PICK g : GrownOf(g, r, atoms, N)
    BY <1>2
  <2>2. PICK last : last = Joined(g[N], atoms[N + 1])
    OBVIOUS
  <2> DEFINE h == [n \in 0..(N + 1) |-> IF n = N + 1 THEN last ELSE g[n]]
  <2>3. h = [n \in 0..(N + 1) |-> IF n = 0 THEN r ELSE Joined(h[n - 1], atoms[n])]
    <3> SUFFICES ASSUME NEW n \in 0..(N + 1)
                 PROVE  h[n] = IF n = 0 THEN r ELSE Joined(h[n - 1], atoms[n])
      OBVIOUS
    <3>1. CASE n = 0
      BY <2>1, <3>1 DEF GrownOf
    <3>2. CASE n = N + 1
      <4>1. h[n] = last /\ h[n - 1] = g[N] /\ n # 0
        BY <3>2
      <4> QED
        BY <2>2, <3>2, <4>1
    <3>3. CASE n # 0 /\ n # N + 1
      <4>1. n \in 0..N /\ n - 1 \in 0..(N + 1) /\ n - 1 # N + 1
        BY <3>3
      <4>2. g[n] = Joined(g[n - 1], atoms[n])
        BY <2>1, <3>3, <4>1 DEF GrownOf
      <4>3. h[n] = g[n] /\ h[n - 1] = g[n - 1]
        BY <3>3, <4>1
      <4> QED
        BY <3>3, <4>2, <4>3
    <3> QED
      BY <3>1, <3>2, <3>3
  <2>4. GrownOf(h, r, atoms, N + 1)
    BY <2>3 DEF GrownOf
  <2> QED
    BY <2>4
<1> HIDE DEF T
<1>3. Nat \subseteq T
  BY <1>1, <1>2, AllNaturals
<1> QED
  BY <1>3 DEF T

LEMMA ExpandedIsLast ==
  ASSUME NEW r, NEW t, NEW atoms, Len(atoms) \in Nat
  PROVE  \E g : GrownOf(g, r, atoms, Len(atoms)) /\ Expanded(r, t, atoms) = Clamped(t, g[Len(atoms)])
<1> DEFINE N == Len(atoms)
           grown == CHOOSE g : g = [n \in 0..N |-> IF n = 0 THEN r ELSE Joined(g[n - 1], atoms[n])]
<1>1. Expanded(r, t, atoms) = Clamped(t, grown[N])
  BY DEF Expanded
<1>2. \E g : GrownOf(g, r, atoms, N)
  BY GrownExist
<1>3. \E g : g = [n \in 0..N |-> IF n = 0 THEN r ELSE Joined(g[n - 1], atoms[n])]
  BY <1>2 DEF GrownOf
<1>4. grown = [n \in 0..N |-> IF n = 0 THEN r ELSE Joined(grown[n - 1], atoms[n])]
  BY <1>3
<1>5. GrownOf(grown, r, atoms, N)
  BY <1>4 DEF GrownOf
<1> HIDE DEF grown
<1> QED
  BY <1>1, <1>5

\* One more atom: what the range ends in it ends in no more, and it ends in none before.
LEMMA JoinedFacts ==
  ASSUME NEW t, IsText(t), NEW a, IsAtom(a), Edge(t, a.lo), Edge(t, a.hi),
         NEW r, EdgeSpan(t, r), r.lo < r.hi
  PROVE  LET j == Joined(r, a)
         IN /\ EdgeSpan(t, j) /\ j.lo < j.hi /\ j.lo <= r.lo /\ r.hi <= j.hi
            /\ j.lo \in {r.lo, a.lo} /\ j.hi \in {r.hi, a.hi}
            /\ ~(a.lo < j.lo /\ j.lo < a.hi) /\ ~(a.lo < j.hi /\ j.hi < a.hi)
            /\ ~(a.lo < r.lo /\ r.lo < a.hi) /\ ~(a.lo < r.hi /\ r.hi < a.hi) => j = r
<1>1. /\ r.lo \in Nat /\ r.hi \in Nat /\ a.lo \in Nat /\ a.hi \in Nat /\ a.lo < a.hi
      /\ r = Span(r.lo, r.hi)
  BY EdgeSpanFacts DEF IsAtom, EdgeSpan
<1>2. CASE ~Meets(r, a)
  <2>1. Joined(r, a) = r
    BY <1>2 DEF Joined
  <2> QED
    BY <1>1, <1>2, <2>1 DEF Meets
<1>3. CASE Meets(r, a)
  <2>1. PICK lo, hi : lo = Lower(r.lo, a.lo) /\ hi = Upper(r.hi, a.hi)
    OBVIOUS
  <2>2. PICK j : j = Joined(r, a)
    OBVIOUS
  <2>3. j = Span(lo, hi) /\ j.lo = lo /\ j.hi = hi
    BY <1>3, <2>1, <2>2, SpanFacts DEF Joined
  <2>4. lo \in {r.lo, a.lo} /\ hi \in {r.hi, a.hi} /\ lo <= r.lo /\ lo <= a.lo
        /\ r.hi <= hi /\ a.hi <= hi
    BY <1>1, <2>1, LowerFacts
  <2>5. r.lo < a.hi /\ a.lo < r.hi
    BY <1>3 DEF Meets
  <2>6. Edge(t, lo) /\ Edge(t, hi)
    BY <2>4 DEF EdgeSpan
  <2>7. lo < hi
    BY <1>1, <2>4
  <2>8. EdgeSpan(t, j)
    BY <1>1, <2>3, <2>4, <2>6, <2>7 DEF EdgeSpan
  <2>9. /\ ~(a.lo < lo /\ lo < a.hi) /\ ~(a.lo < hi /\ hi < a.hi)
        /\ ~(a.lo < r.lo /\ r.lo < a.hi) /\ ~(a.lo < r.hi /\ r.hi < a.hi) => lo = r.lo /\ hi = r.hi
    BY <1>1, <2>4, <2>5
  <2> QED
    BY <1>1, <2>2, <2>3, <2>4, <2>7, <2>8, <2>9
<1> QED
  BY <1>2, <1>3

\* What a range has grown to after n atoms.
GrownWell(r, t, atoms, g, n) ==
  /\ EdgeSpan(t, g) /\ g.lo < g.hi /\ g.lo <= r.lo /\ r.hi <= g.hi
  /\ Outside(atoms, r.lo) /\ Outside(atoms, r.hi) => g = r
  /\ g.lo = r.lo \/ Outside(atoms, g.lo)
  /\ g.hi = r.hi \/ Outside(atoms, g.hi)
  /\ \A i \in 1..n :
       /\ ~(atoms[i].lo < g.lo /\ g.lo < atoms[i].hi)
       /\ ~(atoms[i].lo < g.hi /\ g.hi < atoms[i].hi)

LEMMA GrownFacts ==
  ASSUME NEW t, IsText(t), NEW atoms, Row(atoms), Edged(t, atoms),
         NEW r, EdgeSpan(t, r), r.lo < r.hi, NEW g, GrownOf(g, r, atoms, Len(atoms))
  PROVE  GrownWell(r, t, atoms, g[Len(atoms)], Len(atoms))
<1> DEFINE N == Len(atoms)
           T == {n \in Nat : n <= N => GrownWell(r, t, atoms, g[n], n)}
<1>0. N \in Nat /\ r.lo \in Nat /\ r.hi \in Nat
  BY EdgeSpanFacts DEF Row
<1>1. 0 \in T
  <2>1. g[0] = r
    BY <1>0 DEF GrownOf
  <2>2. GrownWell(r, t, atoms, r, 0)
    BY <1>0 DEF GrownWell
  <2> QED
    BY <2>1, <2>2
<1>2. ASSUME NEW n \in Nat, n \in T PROVE n + 1 \in T
  <2> SUFFICES ASSUME n + 1 <= N PROVE GrownWell(r, t, atoms, g[n + 1], n + 1)
    OBVIOUS
  <2>1. PICK h, j, a : h = g[n] /\ j = g[n + 1] /\ a = atoms[n + 1]
    OBVIOUS
  <2>2. j = Joined(h, a)
    BY <1>0, <2>1 DEF GrownOf
  <2>3. GrownWell(r, t, atoms, h, n)
    BY <1>0, <1>2, <2>1
  <2>4. n + 1 \in 1..N
    BY <1>0
  <2>5. /\ IsAtom(a) /\ Edge(t, a.lo) /\ Edge(t, a.hi)
        /\ Outside(atoms, a.lo) /\ Outside(atoms, a.hi)
    BY <2>1, <2>4, RowFacts DEF Row, Edged
  <2>6. /\ EdgeSpan(t, j) /\ j.lo < j.hi /\ j.lo <= h.lo /\ h.hi <= j.hi
        /\ j.lo \in {h.lo, a.lo} /\ j.hi \in {h.hi, a.hi}
        /\ ~(a.lo < j.lo /\ j.lo < a.hi) /\ ~(a.lo < j.hi /\ j.hi < a.hi)
        /\ ~(a.lo < h.lo /\ h.lo < a.hi) /\ ~(a.lo < h.hi /\ h.hi < a.hi) => j = h
    BY <2>2, <2>3, <2>5, JoinedFacts DEF GrownWell
  <2>7. h.lo \in Nat /\ h.hi \in Nat /\ j.lo \in Nat /\ j.hi \in Nat
    BY <2>3, <2>6, EdgeSpanFacts DEF GrownWell
  <2>8. j.lo <= r.lo /\ r.hi <= j.hi
    BY <1>0, <2>3, <2>6, <2>7 DEF GrownWell
  <2>9. ASSUME Outside(atoms, r.lo), Outside(atoms, r.hi) PROVE j = r
    <3>1. h = r
      BY <2>3, <2>9 DEF GrownWell
    <3>2. ~(a.lo < h.lo /\ h.lo < a.hi) /\ ~(a.lo < h.hi /\ h.hi < a.hi)
      BY <2>1, <2>4, <2>9, <3>1 DEF Outside
    <3> QED
      BY <2>6, <3>1, <3>2
  <2>10. (j.lo = r.lo \/ Outside(atoms, j.lo)) /\ (j.hi = r.hi \/ Outside(atoms, j.hi))
    BY <2>3, <2>5, <2>6 DEF GrownWell
  <2>11. ASSUME NEW i \in 1..(n + 1)
         PROVE  /\ ~(atoms[i].lo < j.lo /\ j.lo < atoms[i].hi)
                /\ ~(atoms[i].lo < j.hi /\ j.hi < atoms[i].hi)
    <3>1. CASE i = n + 1
      BY <2>1, <2>6, <3>1
    <3>2. CASE i # n + 1
      <4>1. i \in 1..n /\ i \in 1..N
        BY <1>0, <2>4, <3>2
      <4>2. /\ ~(atoms[i].lo < h.lo /\ h.lo < atoms[i].hi)
            /\ ~(atoms[i].lo < h.hi /\ h.hi < atoms[i].hi)
        BY <2>3, <4>1 DEF GrownWell
      <4>3. /\ ~(atoms[i].lo < a.lo /\ a.lo < atoms[i].hi)
            /\ ~(atoms[i].lo < a.hi /\ a.hi < atoms[i].hi)
        BY <2>5, <4>1 DEF Outside
      <4> QED
        BY <2>6, <4>2, <4>3
    <3> QED
      BY <3>1, <3>2
  <2> QED
    BY <2>1, <2>6, <2>8, <2>9, <2>10, <2>11 DEF GrownWell
<1> HIDE DEF T
<1>3. Nat \subseteq T
  BY <1>1, <1>2, AllNaturals
<1> QED
  BY <1>0, <1>3 DEF T

LEMMA ExpandedFacts ==
  ASSUME NEW t, IsText(t), NEW atoms, Row(atoms), Edged(t, atoms),
         NEW r, EdgeSpan(t, r), r.lo < r.hi
  PROVE  LET e == Expanded(r, t, atoms)
         IN /\ Snug(e, t, atoms) /\ e.lo < e.hi /\ e.lo <= r.lo /\ r.hi <= e.hi
            /\ Snug(r, t, atoms) => e = r
<1>1. PICK g : /\ GrownOf(g, r, atoms, Len(atoms))
               /\ Expanded(r, t, atoms) = Clamped(t, g[Len(atoms)])
  BY ExpandedIsLast, RowFacts
<1>2. PICK h : h = g[Len(atoms)]
  OBVIOUS
<1>3. GrownWell(r, t, atoms, h, Len(atoms))
  BY <1>1, <1>2, GrownFacts
<1>4. Expanded(r, t, atoms) = h
  BY <1>1, <1>2, <1>3, ClampedFacts, EdgeSpanFacts DEF GrownWell
<1>5. Outside(atoms, h.lo) /\ Outside(atoms, h.hi)
  BY <1>3 DEF GrownWell, Outside
<1> QED
  BY <1>3, <1>4, <1>5 DEF GrownWell, Snug

\* A normalised range is snug, and a snug one is normal.
LEMMA WholeIsSnug ==
  ASSUME NEW t, IsText(t), NEW atoms, Row(atoms), Edged(t, atoms),
         NEW r, r.lo \in Nat, r.hi \in Nat
  PROVE  /\ Snug(Whole(r, t, atoms), t, atoms)
         /\ Snug(r, t, atoms) => Whole(r, t, atoms) = r
<1>1. PICK c : c = Clamped(t, r)
  OBVIOUS
<1>2. EdgeSpan(t, c) /\ (EdgeSpan(t, r) => c = r)
  BY <1>1, ClampedFacts
<1>3. Whole(r, t, atoms) = WholeOf(c, t, atoms)
  BY <1>1 DEF Whole
<1>4. c.lo \in Nat /\ c.hi \in Nat
  BY <1>2, EdgeSpanFacts
<1>5. CASE c.lo = c.hi
  <2>1. PICK s : s = SnappedAt(atoms, c.lo, "Nearest")
    OBVIOUS
  <2>2. /\ Outside(atoms, s) /\ (Outside(atoms, c.lo) => s = c.lo) /\ s \in Nat
        /\ s = c.lo \/ \E i \in 1..Len(atoms) : s \in {atoms[i].lo, atoms[i].hi}
    BY <1>4, <2>1, SnappedFacts DEF Affinities
  <2>3. Edge(t, s)
    BY <1>2, <2>2 DEF Edged, EdgeSpan
  <2>4. WholeOf(c, t, atoms) = Span(s, s)
    BY <1>5, <2>1, SpanFacts DEF WholeOf, IsCaret
  <2>5. Snug(Span(s, s), t, atoms)
    BY <2>2, <2>3, SpanFacts DEF Snug, EdgeSpan
  <2>6. ASSUME Snug(r, t, atoms) PROVE WholeOf(c, t, atoms) = r
    BY <1>2, <1>5, <2>2, <2>4, <2>6 DEF Snug, EdgeSpan
  <2> QED
    BY <1>3, <2>4, <2>5, <2>6
<1>6. CASE c.lo # c.hi
  <2>1. WholeOf(c, t, atoms) = Expanded(c, t, atoms) /\ c.lo < c.hi
    BY <1>2, <1>4, <1>6 DEF WholeOf, IsCaret, EdgeSpan
  <2>2. /\ Snug(Expanded(c, t, atoms), t, atoms)
        /\ Snug(c, t, atoms) => Expanded(c, t, atoms) = c
    BY <1>2, <2>1, ExpandedFacts
  <2> QED
    BY <1>2, <1>3, <2>1, <2>2 DEF Snug
<1> QED
  BY <1>5, <1>6

LEMMA SnugFacts ==
  ASSUME NEW t, IsText(t), NEW atoms, NEW r, Snug(r, t, atoms)
  PROVE  /\ r = Span(r.lo, r.hi) /\ r.lo \in 0..Len(t) /\ r.hi \in 0..Len(t)
         /\ r.lo \in Nat /\ r.hi \in Nat /\ r.lo <= r.hi
  BY EdgeSpanFacts DEF Snug, EdgeSpan

\* A range within one that meets no atom is snug.
LEMMA InsideUnmet ==
  ASSUME NEW t, IsText(t), NEW atoms, Row(atoms), NEW m, m.lo \in Nat, m.hi \in Nat,
         ~MeetsAtom(m, atoms),
         NEW r, EdgeSpan(t, r), m.lo <= r.lo, r.hi <= m.hi
  PROVE  Snug(r, t, atoms)
<1>1. r.lo \in Nat /\ r.hi \in Nat /\ r.lo <= r.hi
  BY EdgeSpanFacts DEF EdgeSpan
<1>2. ASSUME NEW i \in 1..Len(atoms)
      PROVE  /\ ~(atoms[i].lo < r.lo /\ r.lo < atoms[i].hi)
             /\ ~(atoms[i].lo < r.hi /\ r.hi < atoms[i].hi)
  <2>1. ~(m.lo < atoms[i].hi /\ atoms[i].lo < m.hi)
    BY MeetsAtomAt DEF Meets
  <2>2. atoms[i].lo \in Nat /\ atoms[i].hi \in Nat
    BY RowFacts
  <2> QED
    BY <1>1, <2>1, <2>2
<1> QED
  BY <1>2 DEF Snug, Outside

-----------------------------------------------------------------------------
(* Atoms after an edit.                                                    *)

\* A function of a prefix of the numbers is a list.
LEMMA ListLength ==
  ASSUME NEW n \in Nat, NEW m, m = [i \in 1..n |-> m[i]]
  PROVE  Len(m) = n /\ m \in Seq({m[i] : i \in 1..n})
<1>1. PICK A : A = {m[i] : i \in 1..n}
  OBVIOUS
<1>2. \A i \in 1..n : m[i] \in A
  BY <1>1
<1>3. m \in [1..n -> A]
  BY <1>2
<1>4. m \in Seq(A) /\ Len(m) = n
  BY <1>3
<1> QED
  BY <1>1, <1>4

LEMMA EmptyRow == Row(<<>>)
<1>1. Len(<<>>) = 0 /\ <<>> = [i \in 1..0 |-> <<>>[i]]
  OBVIOUS
<1> QED
  BY <1>1 DEF Row

\* Some of the atoms of a row, in their order, each of which is one of them.
LEMMA OnlyRow ==
  ASSUME NEW atoms, Row(atoms), NEW S
  PROVE  /\ Row(Only(atoms, S))
         /\ \A i \in 1..Len(Only(atoms, S)) :
              Only(atoms, S)[i] \in S /\ \E k \in 1..Len(atoms) : Only(atoms, S)[i] = atoms[k]
<1>1. PICK A, s : A = ToSet(atoms) /\ s = Only(atoms, S)
  OBVIOUS
<1>2. atoms \in Seq(A)
  BY <1>1, RowFacts
<1>3. s \in Seq(A \cap S)
  BY <1>1, <1>2, OnlyIn
<1>4. Within(s, atoms)
  BY <1>1, <1>2, OnlyWithin
<1>5. PICK e \in [1..Len(s) -> 1..Len(atoms)] :
        /\ \A i \in 1..Len(s) : s[i] = atoms[e[i]]
        /\ \A i, j \in 1..Len(s) : i < j => e[i] < e[j]
  BY <1>4 DEF Within
<1>6. Len(s) \in Nat /\ s = [i \in 1..Len(s) |-> s[i]] /\ \A i \in 1..Len(s) : s[i] \in S
  BY <1>3
<1>7. \A i \in 1..Len(s) : IsAtom(s[i])
  BY <1>5 DEF Row
<1>8. \A i, j \in 1..Len(s) : i < j => s[i].hi <= s[j].lo
  BY <1>5 DEF Row
<1> QED
  BY <1>1, <1>5, <1>6, <1>7, <1>8 DEF Row

\* Every atom of s is before those of u.
InFront(s, u) == \A i \in 1..Len(s), j \in 1..Len(u) : s[i].hi <= u[j].lo

LEMMA ConcatRow ==
  ASSUME NEW s, Row(s), NEW u, Row(u), InFront(s, u)
  PROVE  /\ Row(s \o u) /\ Len(s \o u) = Len(s) + Len(u)
         /\ \A i \in 1..Len(s) : (s \o u)[i] = s[i]
         /\ \A i \in 1..Len(u) : (s \o u)[Len(s) + i] = u[i]
<1>1. PICK A : A = ToSet(s) \cup ToSet(u)
  OBVIOUS
<1>2. s \in Seq(A) /\ u \in Seq(A)
  <2>1. s \in Seq(ToSet(s)) /\ u \in Seq(ToSet(u))
    BY RowFacts
  <2>2. ToSet(s) \subseteq A /\ ToSet(u) \subseteq A
    BY <1>1
  <2> HIDE <1>1
  <2>3. PICK B, C : B = ToSet(s) /\ C = ToSet(u)
    OBVIOUS
  <2>4. s \in Seq(B) /\ u \in Seq(C) /\ B \subseteq A /\ C \subseteq A
    BY <2>1, <2>2, <2>3
  <2> QED
    BY <2>4
<1>3. PICK c : c = s \o u
  OBVIOUS
<1>4. /\ c \in Seq(A) /\ Len(c) = Len(s) + Len(u)
      /\ \A i \in 1..Len(s) : c[i] = s[i]
      /\ \A i \in 1..Len(u) : c[Len(s) + i] = u[i]
  BY <1>2, <1>3
<1>5. Len(c) \in Nat /\ c = [i \in 1..Len(c) |-> c[i]] /\ Len(s) \in Nat /\ Len(u) \in Nat
  BY <1>2, <1>4
<1>6. ASSUME NEW i \in 1..Len(c)
      PROVE  \/ i \in 1..Len(s) /\ c[i] = s[i]
             \/ i > Len(s) /\ i - Len(s) \in 1..Len(u) /\ c[i] = u[i - Len(s)]
  <2>1. CASE i <= Len(s)
    BY <1>4, <1>5, <2>1
  <2>2. CASE i > Len(s)
    <3>1. i - Len(s) \in 1..Len(u) /\ Len(s) + (i - Len(s)) = i
      BY <1>4, <1>5, <2>2
    <3>2. c[Len(s) + (i - Len(s))] = u[i - Len(s)]
      BY <1>4, <3>1
    <3> QED
      BY <2>2, <3>1, <3>2
  <2> QED
    BY <1>5, <2>1, <2>2
<1>7. \A i \in 1..Len(c) : IsAtom(c[i])
  BY <1>6 DEF Row
<1>8. ASSUME NEW i \in 1..Len(c), NEW j \in 1..Len(c), i < j PROVE c[i].hi <= c[j].lo
  <2>1. CASE i \in 1..Len(s) /\ j \in 1..Len(s)
    <3>1. c[i] = s[i] /\ c[j] = s[j]
      BY <1>4, <2>1
    <3> QED
      BY <1>8, <2>1, <3>1 DEF Row
  <2>2. CASE i \in 1..Len(s) /\ j > Len(s)
    <3>1. j - Len(s) \in 1..Len(u) /\ c[j] = u[j - Len(s)] /\ c[i] = s[i]
      BY <1>5, <1>6, <2>2
    <3> QED
      BY <2>2, <3>1 DEF InFront
  <2>3. CASE i > Len(s) /\ j > Len(s)
    <3>1. /\ i - Len(s) \in 1..Len(u) /\ c[i] = u[i - Len(s)]
          /\ j - Len(s) \in 1..Len(u) /\ c[j] = u[j - Len(s)]
          /\ i - Len(s) < j - Len(s)
      BY <1>5, <1>6, <1>8, <2>3
    <3> QED
      BY <3>1 DEF Row
  <2> QED
    BY <1>5, <1>8, <2>1, <2>2, <2>3
<1>9. Row(c)
  BY <1>5, <1>7, <1>8 DEF Row
<1> QED
  BY <1>3, <1>4, <1>9

LEMMA MovedFacts ==
  ASSUME NEW atoms, Row(atoms), NEW by \in Int, \A i \in 1..Len(atoms) : atoms[i].lo + by \in Nat
  PROVE  LET m == MovedBy(atoms, by)
         IN /\ Row(m) /\ Len(m) = Len(atoms)
            /\ \A i \in 1..Len(atoms) :
                 /\ m[i].lo = atoms[i].lo + by /\ m[i].hi = atoms[i].hi + by
                 /\ m[i].copy = atoms[i].copy
<1>1. PICK m : m = MovedBy(atoms, by)
  OBVIOUS
<1>2. DOMAIN atoms = 1..Len(atoms) /\ Len(atoms) \in Nat
  BY RowFacts
<1>3. m = [i \in 1..Len(atoms) |-> [atoms[i] EXCEPT !.lo = @ + by, !.hi = @ + by]]
  BY <1>1, <1>2 DEF MovedBy
<1>4. Len(m) = Len(atoms) /\ m = [i \in 1..Len(m) |-> m[i]]
  <2>1. m = [i \in 1..Len(atoms) |-> m[i]]
    BY <1>3
  <2> QED
    BY <1>2, <2>1, ListLength
<1>5. ASSUME NEW i \in 1..Len(atoms)
      PROVE  /\ m[i].lo = atoms[i].lo + by /\ m[i].hi = atoms[i].hi + by
             /\ m[i].copy = atoms[i].copy /\ IsAtom(m[i])
  <2>1. PICK a : a = atoms[i]
    OBVIOUS
  <2>2. IsAtom(a) /\ a.lo + by \in Nat
    BY <2>1 DEF Row
  <2>3. m[i] = [id |-> a.id, lo |-> a.lo + by, hi |-> a.hi + by, copy |-> a.copy]
    BY <1>3, <2>1, <2>2 DEF IsAtom
  <2>4. a.hi + by \in Nat /\ a.lo + by < a.hi + by
    BY <2>2 DEF IsAtom
  <2> QED
    BY <2>1, <2>2, <2>3, <2>4 DEF IsAtom
<1>6. ASSUME NEW i \in 1..Len(atoms), NEW j \in 1..Len(atoms), i < j PROVE m[i].hi <= m[j].lo
  <2>1. atoms[i].hi <= atoms[j].lo
    BY <1>6 DEF Row
  <2>2. m[i].hi = atoms[i].hi + by /\ m[j].lo = atoms[j].lo + by
    BY <1>5
  <2>3. atoms[i].hi \in Nat /\ atoms[j].lo \in Nat
    BY RowFacts
  <2> QED
    BY <2>1, <2>2, <2>3
<1>7. Row(m)
  BY <1>2, <1>4, <1>5, <1>6 DEF Row
<1> QED
  BY <1>1, <1>4, <1>5, <1>7

-----------------------------------------------------------------------------
(* Atoms put in the order of the text: the k-th has k - 1 before it.        *)

Preceding(atoms, a) == {b \in atoms : b.lo < a.lo}

LEMMA RankFacts ==
  ASSUME NEW atoms, IsFiniteSet(atoms), \A a \in atoms : a.lo \in Nat,
         \A a, b \in atoms : a # b => a.lo # b.lo
  PROVE  /\ Cardinality(atoms) \in Nat
         /\ \A a \in atoms : Cardinality(Preceding(atoms, a)) \in 0..(Cardinality(atoms) - 1)
         /\ \A a, b \in atoms :
              a.lo < b.lo => Cardinality(Preceding(atoms, a)) < Cardinality(Preceding(atoms, b))
<1>1. Cardinality(atoms) \in Nat
  BY FS_CardinalityType
<1>2. ASSUME NEW a \in atoms, NEW S \in SUBSET atoms, a \in S, Preceding(atoms, a) \subseteq S
      PROVE  /\ Cardinality(Preceding(atoms, a)) \in Nat /\ Cardinality(S) \in Nat
             /\ Cardinality(Preceding(atoms, a)) < Cardinality(S)
  <2>1. PICK P : P = Preceding(atoms, a)
    OBVIOUS
  <2>2. P \in SUBSET atoms /\ a \notin P /\ P \cup {a} \in SUBSET S
    BY <1>2, <2>1 DEF Preceding
  <2>3. IsFiniteSet(S) /\ IsFiniteSet(P)
    BY <2>2, FS_Subset
  <2>4. Cardinality(P) \in Nat /\ Cardinality(S) \in Nat
    BY <2>3, FS_CardinalityType
  <2>5. Cardinality(P \cup {a}) = Cardinality(P) + 1
    BY <2>2, <2>3, FS_AddElement
  <2>6. Cardinality(P \cup {a}) <= Cardinality(S)
    BY <2>2, <2>3, FS_Subset
  <2> QED
    BY <2>1, <2>4, <2>5, <2>6
<1>3. ASSUME NEW a \in atoms
      PROVE  Cardinality(Preceding(atoms, a)) \in 0..(Cardinality(atoms) - 1)
  <2>1. Preceding(atoms, a) \subseteq atoms
    BY DEF Preceding
  <2>2. /\ Cardinality(Preceding(atoms, a)) \in Nat
        /\ Cardinality(Preceding(atoms, a)) < Cardinality(atoms)
    BY <1>2, <2>1
  <2> QED
    BY <1>1, <2>2
<1>4. ASSUME NEW a \in atoms, NEW b \in atoms, a.lo < b.lo
      PROVE  Cardinality(Preceding(atoms, a)) < Cardinality(Preceding(atoms, b))
  <2>1. Preceding(atoms, b) \in SUBSET atoms /\ a \in Preceding(atoms, b)
    BY <1>4 DEF Preceding
  <2>2. Preceding(atoms, a) \subseteq Preceding(atoms, b)
    <3>1. \A c \in atoms : c.lo < a.lo => c.lo < b.lo
      BY <1>4
    <3> QED
      BY <3>1 DEF Preceding
  <2> QED
    BY <1>2, <2>1, <2>2
<1> QED
  BY <1>1, <1>3, <1>4

LEMMA KthFacts ==
  ASSUME NEW atoms, IsFiniteSet(atoms), \A a \in atoms : a.lo \in Nat,
         \A a, b \in atoms : a # b => a.lo # b.lo
  PROVE  /\ \A k \in 1..Cardinality(atoms) : Kth(atoms, k) \in atoms
         /\ \A j, k \in 1..Cardinality(atoms) : j < k => Kth(atoms, j).lo < Kth(atoms, k).lo
<1> DEFINE n == Cardinality(atoms)
           f == [a \in atoms |-> Cardinality(Preceding(atoms, a)) + 1]
<1>1. /\ n \in Nat
      /\ \A a \in atoms : Cardinality(Preceding(atoms, a)) \in 0..(n - 1)
      /\ \A a, b \in atoms :
           a.lo < b.lo => Cardinality(Preceding(atoms, a)) < Cardinality(Preceding(atoms, b))
  BY RankFacts
<1>2. f \in [atoms -> 1..n] /\ \A a \in atoms : f[a] = Cardinality(Preceding(atoms, a)) + 1
  BY <1>1
<1>3. \A a, b \in atoms : a.lo < b.lo => f[a] < f[b]
  <2>1. ASSUME NEW a \in atoms, NEW b \in atoms, a.lo < b.lo PROVE f[a] < f[b]
    <3>1. /\ Cardinality(Preceding(atoms, a)) \in Int /\ Cardinality(Preceding(atoms, b)) \in Int
          /\ Cardinality(Preceding(atoms, a)) < Cardinality(Preceding(atoms, b))
      BY <1>1, <2>1
    <3> QED
      BY <1>2, <3>1
  <2> QED
    BY <2>1
<1> HIDE DEF f
<1>4. f \in Injection(atoms, 1..n)
  <2>1. ASSUME NEW a \in atoms, NEW b \in atoms, a # b PROVE f[a] # f[b]
    <3>1. f[a] \in Int /\ f[b] \in Int /\ a.lo \in Int /\ b.lo \in Int /\ a.lo # b.lo
      BY <1>1, <1>2, <2>1
    <3>2. a.lo < b.lo \/ b.lo < a.lo
      BY <3>1
    <3> QED
      BY <1>3, <3>1, <3>2
  <2> QED
    BY <1>2, <2>1 DEF Injection, IsInjective
<1>5. IsFiniteSet(1..n) /\ Cardinality(1..n) = n
  BY <1>1, FS_Interval
<1>6. f \in Surjection(atoms, 1..n)
  BY <1>4, <1>5, FS_Injection
<1>7. ASSUME NEW k \in 1..n
      PROVE  Kth(atoms, k) \in atoms /\ f[Kth(atoms, k)] = k
  <2>1. PICK a \in atoms : f[a] = k
    BY <1>6 DEF Surjection
  <2>2. Cardinality(Preceding(atoms, a)) = k - 1
    BY <1>1, <1>2, <2>1
  <2>3. Cardinality({b \in atoms : b.lo < a.lo}) = k - 1
    BY <2>2 DEF Preceding
  <2>4. /\ Kth(atoms, k) \in atoms
        /\ Cardinality({b \in atoms : b.lo < Kth(atoms, k).lo}) = k - 1
    BY <2>3 DEF Kth
  <2>5. Cardinality(Preceding(atoms, Kth(atoms, k))) = k - 1
    BY <2>4 DEF Preceding
  <2> QED
    BY <1>1, <1>2, <2>4, <2>5
<1>8. ASSUME NEW j \in 1..n, NEW k \in 1..n, j < k
      PROVE  Kth(atoms, j).lo < Kth(atoms, k).lo
  <2>1. PICK a, b : a = Kth(atoms, j) /\ b = Kth(atoms, k)
    OBVIOUS
  <2>2. a \in atoms /\ b \in atoms /\ f[a] = j /\ f[b] = k
    BY <1>7, <2>1
  <2>3. a.lo \in Int /\ b.lo \in Int /\ a # b /\ a.lo # b.lo
    BY <1>1, <1>8, <2>2
  <2>4. ~(b.lo < a.lo)
    BY <1>1, <1>3, <1>8, <2>2
  <2> QED
    BY <2>1, <2>3, <2>4
<1> QED
  BY <1>7, <1>8

\* What a text may carry, put in order and moved, is a row of atoms.
LEMMA PlacedFacts ==
  ASSUME NEW t, IsText(t), NEW atoms, IsFiniteSet(atoms), ValidAtoms(t, atoms),
         \A a \in atoms : IsText(a.copy), NEW offset \in Nat
  PROVE  LET p == Placed(atoms, offset)
         IN /\ Row(p)
            /\ \A i \in 1..Len(p) : \E a \in atoms :
                 /\ p[i].lo = a.lo + offset /\ p[i].hi = a.hi + offset /\ p[i].copy = a.copy
                 /\ Edge(t, a.lo) /\ Edge(t, a.hi)
<1>1. PICK p, n : p = Placed(atoms, offset) /\ n = Cardinality(atoms)
  OBVIOUS
<1>2. ASSUME NEW a \in atoms
      PROVE  /\ Edge(t, a.lo) /\ Edge(t, a.hi) /\ a.lo < a.hi
             /\ a.lo \in Nat /\ a.hi \in Nat
  <2>1. Edge(t, a.lo) /\ Edge(t, a.hi) /\ a.lo < a.hi
    BY DEF ValidAtoms, Edge
  <2> QED
    BY <2>1, EdgeFacts, TextFacts DEF Edge
<1>3. ASSUME NEW a \in atoms, NEW b \in atoms, a # b
      PROVE  ~(a.lo < b.hi /\ b.lo < a.hi)
  BY <1>3 DEF ValidAtoms, Meets
<1>4. \A a, b \in atoms : a # b => a.lo # b.lo
  BY <1>2, <1>3
<1>5. /\ n \in Nat /\ \A k \in 1..n : Kth(atoms, k) \in atoms
      /\ \A j, k \in 1..n : j < k => Kth(atoms, j).lo < Kth(atoms, k).lo
  BY <1>1, <1>2, <1>4, KthFacts, FS_CardinalityType
<1>6. p = [k \in 1..n |-> PlacedAt(Kth(atoms, k), offset)]
  BY <1>1 DEF Placed
<1>7. p = [k \in 1..n |-> p[k]] /\ Len(p) = n
  <2>1. p = [k \in 1..n |-> p[k]]
    BY <1>6
  <2> QED
    BY <1>5, <2>1, ListLength
<1>8. ASSUME NEW k \in 1..n, NEW a \in atoms, a = Kth(atoms, k)
      PROVE  /\ p[k].lo = a.lo + offset /\ p[k].hi = a.hi + offset /\ p[k].copy = a.copy
             /\ IsAtom(p[k])
  <2>1. p[k] = [id |-> a.id, lo |-> a.lo + offset, hi |-> a.hi + offset, copy |-> a.copy]
    BY <1>6, <1>8 DEF PlacedAt
  <2>2. a.lo + offset \in Nat /\ a.hi + offset \in Nat /\ a.lo + offset < a.hi + offset
    BY <1>2
  <2> QED
    BY <2>1, <2>2 DEF IsAtom
<1>9. ASSUME NEW j \in 1..n, NEW k \in 1..n, j < k PROVE p[j].hi <= p[k].lo
  <2>1. PICK a \in atoms, b \in atoms : a = Kth(atoms, j) /\ b = Kth(atoms, k)
    BY <1>5
  <2>2. a.lo < b.lo
    BY <1>5, <1>9, <2>1
  <2>3. a.hi <= b.lo
    BY <1>2, <1>3, <2>2
  <2>4. p[j].hi = a.hi + offset /\ p[k].lo = b.lo + offset
    BY <1>8, <2>1
  <2> QED
    BY <1>2, <2>3, <2>4
<1>10. Row(p)
  <2>1. \A k \in 1..n : IsAtom(p[k])
    BY <1>5, <1>8
  <2> QED
    BY <1>5, <1>7, <1>9, <2>1 DEF Row
<1>11. \A k \in 1..n : \E a \in atoms :
         /\ p[k].lo = a.lo + offset /\ p[k].hi = a.hi + offset /\ p[k].copy = a.copy
         /\ Edge(t, a.lo) /\ Edge(t, a.hi)
  BY <1>2, <1>5, <1>8
<1> QED
  BY <1>1, <1>7, <1>10, <1>11

-----------------------------------------------------------------------------
(* Normalisation.                                                          *)

\* A list of what is kept is all of it.
LEMMA OnlyAll ==
  ASSUME NEW A, NEW s \in Seq(A)
  PROVE  Only(s, A) = s
<1> DEFINE P == {v \in Seq(A) : Only(v, A) = v}
<1>1. <<>> \in Seq(A)
  OBVIOUS
<1>2. <<>> \in P
  BY <1>1, OnlyEmpty
<1>3. ASSUME NEW v \in Seq(A), v \in P, NEW x \in A PROVE Append(v, x) \in P
  <2>1. Append(v, x) \in Seq(A)
    BY AppendIn
  <2>2. Only(v, A) = v
    BY <1>3
  <2>3. Only(Append(v, x), A) = Append(v, x)
    BY <2>2, OnlyAppend
  <2> QED
    BY <2>1, <2>3
<1> HIDE DEF P
<1>4. Seq(A) \subseteq P
  BY <1>2, <1>3, AllLists
<1> QED
  BY <1>4 DEF P

\* The places in K, in their order.
LEMMA KeptPlaces ==
  ASSUME NEW n \in Nat, NEW K, K \subseteq 1..n
  PROVE  LET p == Only([i \in 1..n |-> i], K)
         IN /\ Len(p) \in Nat /\ DOMAIN p = 1..Len(p) /\ Len(p) = Cardinality(K)
            /\ \A k \in 1..Len(p) : p[k] \in K
            /\ 1 \in K => Len(p) > 0 /\ p[1] = 1
            /\ K = 1..n => p = [i \in 1..n |-> i]
<1>1. PICK s, p : s = [i \in 1..n |-> i] /\ p = Only(s, K)
  OBVIOUS
<1>2. s \in Seq(1..n) /\ Len(s) = n
  BY <1>1
<1>3. p \in Seq((1..n) \cap K)
  BY <1>1, <1>2, OnlyIn
<1>4. Len(p) \in Nat /\ DOMAIN p = 1..Len(p) /\ \A k \in 1..Len(p) : p[k] \in K
  BY <1>3
<1>5. PICK e : Places(e, p, s, K)
  BY <1>1, <1>2, OnlyPlaces
<1>6. /\ e \in [1..Len(p) -> 1..n]
      /\ \A i \in 1..Len(p) : p[i] = e[i]
      /\ \A i, j \in 1..Len(p) : i < j => e[i] < e[j]
      /\ \A k \in 1..n : k \in K <=> \E i \in 1..Len(p) : e[i] = k
  BY <1>1, <1>2, <1>5 DEF Places
<1>7. Len(p) = Cardinality(K)
  <2>1. e \in [1..Len(p) -> K]
    BY <1>4, <1>6
  <2>2. e \in Injection(1..Len(p), K)
    <3>1. ASSUME NEW i \in 1..Len(p), NEW j \in 1..Len(p), i # j PROVE e[i] # e[j]
      <4>1. i < j \/ j < i
        BY <1>4, <3>1
      <4> QED
        BY <1>6, <4>1
    <3> QED
      BY <2>1, <3>1 DEF Injection, IsInjective
  <2>3. e \in Surjection(1..Len(p), K)
    <3>1. \A k \in K : \E i \in 1..Len(p) : e[i] = k
      BY <1>6
    <3> QED
      BY <2>1, <3>1 DEF Surjection
  <2>4. IsFiniteSet(1..Len(p)) /\ Cardinality(1..Len(p)) = Len(p)
    <3>1. PICK l \in Nat : l = Len(p)
      BY <1>4
    <3>2. IsFiniteSet(1..l) /\ Cardinality(1..l) = IF 1 > l THEN 0 ELSE l - 1 + 1
      BY FS_Interval
    <3> QED
      BY <3>1, <3>2
  <2>5. ExistsBijection(1..Len(p), K)
    BY <2>2, <2>3 DEF ExistsBijection, Bijection
  <2> QED
    BY <2>4, <2>5, FS_Bijection
<1>8. ASSUME 1 \in K PROVE Len(p) > 0 /\ p[1] = 1
  <2>1. 1 \in 1..n
    BY <1>8
  <2>2. PICK i \in 1..Len(p) : e[i] = 1
    BY <1>6, <1>8, <2>1
  <2>3. 1 \in 1..Len(p)
    BY <1>4
  <2>4. i = 1
    <3>1. CASE 1 < i
      <4>1. e[1] < e[i] /\ e[1] \in 1..n
        BY <1>6, <2>3, <3>1
      <4> QED
        BY <2>2, <4>1
    <3> QED
      BY <3>1
  <2> QED
    BY <1>4, <1>6, <2>2, <2>3, <2>4
<1>9. K = 1..n => p = s
  BY <1>1, <1>2, OnlyAll
<1> QED
  BY <1>1, <1>4, <1>7, <1>8, <1>9

\* A text without the newline characters its mode replaces.
Clean(t, mode) ==
  \A i \in 1..Len(t) : IF mode = "SingleLine" THEN ~IsNewline(t[i]) ELSE t[i] # Return

KeptOf(t, mode) ==
  IF mode = "SingleLine"
  THEN {i \in DOMAIN t : IsNewline(t[i]) => i = 1 \/ ~IsNewline(t[i - 1])}
  ELSE {i \in DOMAIN t : t[i] = Newline => i = 1 \/ t[i - 1] # Return}
NewlineOf(mode) == IF mode = "SingleLine" THEN Space ELSE Newline

\* Normalized: a text of one's mode, of the length that was told before it was made; what
\* is normalized stays as it is.
LEMMA NormalizedFacts ==
  ASSUME NEW t, IsText(t), NEW mode
  PROVE  /\ IsText(Normalized(t, mode)) /\ Clean(Normalized(t, mode), mode)
         /\ Len(Normalized(t, mode)) = NormalizedBytes(t, mode)
         /\ Clean(t, mode) => Normalized(t, mode) = t
<1>1. PICK n, K, byte : n = Len(t) /\ K = KeptOf(t, mode) /\ byte = NewlineOf(mode)
  OBVIOUS
<1>2. n \in Nat /\ DOMAIN t = 1..n /\ \A i \in 1..n : t[i] \in Byte
  BY <1>1, TextFacts
<1>3. K \subseteq 1..n
  BY <1>1, <1>2 DEF KeptOf
<1>4. PICK s : s = [i \in 1..n |-> i]
  OBVIOUS
<1>5. PICK p : p = Only(s, K)
  OBVIOUS
<1>6. /\ Len(p) \in Nat /\ DOMAIN p = 1..Len(p) /\ Len(p) = Cardinality(K)
      /\ \A k \in 1..Len(p) : p[k] \in K
      /\ 1 \in K => Len(p) > 0 /\ p[1] = 1
      /\ K = 1..n => p = s
  BY <1>2, <1>3, <1>4, <1>5, KeptPlaces
<1>7. PICK w : w = [k \in 1..Len(p) |-> IF IsNewline(t[p[k]]) THEN byte ELSE t[p[k]]]
  OBVIOUS
<1>8. Replaced(t, K, byte) = w
  <2>1. Only([i \in DOMAIN t |-> i], K) = p
    BY <1>2, <1>4, <1>5
  <2>2. PICK q : q = Only([i \in DOMAIN t |-> i], K)
    OBVIOUS
  <2>3. Replaced(t, K, byte) = [k \in DOMAIN q |-> IF IsNewline(t[q[k]]) THEN byte ELSE t[q[k]]]
    BY <2>2 DEF Replaced
  <2> QED
    BY <1>6, <1>7, <2>1, <2>2, <2>3
<1>9. Normalized(t, mode) = w
  <2>1. CASE mode = "SingleLine"
    <3>1. K = {i \in DOMAIN t : IsNewline(t[i]) => i = 1 \/ ~IsNewline(t[i - 1])} /\ byte = Space
      BY <1>1, <2>1 DEF KeptOf, NewlineOf
    <3>2. Normalized(t, mode) = Replaced(t, K, byte)
      BY <2>1, <3>1 DEF Normalized, NormalizedSingleLine
    <3> QED
      BY <1>8, <3>2
  <2>2. CASE mode # "SingleLine"
    <3>1. K = {i \in DOMAIN t : t[i] = Newline => i = 1 \/ t[i - 1] # Return} /\ byte = Newline
      BY <1>1, <2>2 DEF KeptOf, NewlineOf
    <3>2. Normalized(t, mode) = Replaced(t, K, byte)
      BY <2>2, <3>1 DEF Normalized, NormalizedMultiline
    <3> QED
      BY <1>8, <3>2
  <2> QED
    BY <2>1, <2>2
<1>10. Len(w) = NormalizedBytes(t, mode) /\ w \in Seq({w[i] : i \in 1..Len(p)}) /\ Len(w) = Len(p)
  <2>1. w = [k \in 1..Len(p) |-> w[k]]
    BY <1>7
  <2>2. NormalizedBytes(t, mode) = Cardinality(K)
    BY <1>1 DEF NormalizedBytes, KeptOf
  <2> QED
    BY <1>6, <2>1, <2>2, ListLength
<1>11. byte \in {Space, Newline} /\ byte \in Byte /\ byte # TailByte /\ byte # Return
  BY <1>1 DEF NewlineOf, Byte, Space, Newline, TailByte, Return, Letter, Mark
<1>12. ASSUME NEW k \in 1..Len(p)
       PROVE  w[k] = IF IsNewline(t[p[k]]) THEN byte ELSE t[p[k]]
  BY <1>7
<1>13. ASSUME NEW k \in 1..Len(p) PROVE w[k] \in Byte
  BY <1>2, <1>3, <1>6, <1>11, <1>12
<1>14. IsText(w)
  <2>1. w \in Seq(Byte)
    <3>1. PICK B : B = {w[i] : i \in 1..Len(p)}
      OBVIOUS
    <3>2. B \subseteq Byte
      BY <1>13, <3>1
    <3>3. w \in Seq(B)
      BY <1>10, <3>1
    <3> QED
      BY <3>2, <3>3
  <2>2. CASE n = 0
    <3>0. K = {}
      BY <1>3, <2>2
    <3>1. \A k \in 1..Len(p) : FALSE
      BY <1>6, <3>0
    <3>2. Len(w) = 0
      BY <1>6, <1>10, <3>1
    <3>3. w = <<>>
      BY <2>1, <3>2
    <3> QED
      BY <2>1, <3>3 DEF IsText
  <2>3. CASE n > 0
    <3>1. 1 \in DOMAIN t
      BY <1>2, <2>3
    <3>2. 1 \in K
      BY <1>1, <3>1 DEF KeptOf
    <3>3. 1 \in 1..Len(p) /\ p[1] = 1
      BY <1>6, <3>2
    <3>4. t # <<>> /\ t[1] # TailByte
      BY <1>1, <2>3 DEF IsText
    <3>5. w[1] # TailByte
      BY <1>11, <1>12, <3>3, <3>4
    <3> QED
      BY <2>1, <3>5 DEF IsText
  <2> QED
    BY <1>2, <2>2, <2>3
<1>15. Clean(w, mode)
  <2>1. ASSUME NEW k \in 1..Len(w)
        PROVE  IF mode = "SingleLine" THEN ~IsNewline(w[k]) ELSE w[k] # Return
    <3>1. k \in 1..Len(p)
      BY <1>10
    <3>2. w[k] = IF IsNewline(t[p[k]]) THEN byte ELSE t[p[k]]
      BY <1>12, <3>1
    <3>3. mode = "SingleLine" => ~IsNewline(byte)
      BY <1>1 DEF NewlineOf, IsNewline, Space, Newline, Return
    <3>4. IsNewline(Return)
      BY DEF IsNewline
    <3> QED
      BY <1>11, <3>2, <3>3, <3>4
  <2> QED
    BY <2>1 DEF Clean
<1>16. ASSUME Clean(t, mode) PROVE w = t
  <2>1. ASSUME NEW i \in 1..n PROVE i \in K
    <3>1. mode = "SingleLine" => ~IsNewline(t[i])
      BY <1>1, <1>16 DEF Clean
    <3>2. ASSUME mode # "SingleLine", i # 1 PROVE t[i - 1] # Return
      <4>1. i - 1 \in 1..Len(t)
        BY <1>1, <1>2, <3>2
      <4> QED
        BY <1>16, <3>2, <4>1 DEF Clean
    <3> QED
      BY <1>1, <1>2, <3>1, <3>2 DEF KeptOf
  <2>2. p = s
    BY <1>3, <1>6, <2>1
  <2>3. Len(p) = n
    <3>1. s = [i \in 1..n |-> s[i]]
      BY <1>4
    <3> QED
      BY <1>2, <2>2, <3>1, ListLength
  <2>4. ASSUME NEW i \in 1..n PROVE w[i] = t[i]
    <3>1. p[i] = i
      BY <1>4, <2>2
    <3>2. w[i] = IF IsNewline(t[i]) THEN byte ELSE t[i]
      BY <1>12, <2>3, <3>1
    <3>3. IF mode = "SingleLine" THEN ~IsNewline(t[i]) ELSE t[i] # Return
      BY <1>1, <1>16 DEF Clean
    <3>4. mode # "SingleLine" => byte = Newline
      BY <1>1 DEF NewlineOf
    <3> QED
      BY <3>2, <3>3, <3>4 DEF IsNewline
  <2>5. t = [i \in 1..n |-> t[i]]
    <3>1. t \in Seq(Byte)
      BY TextFacts
    <3> QED
      BY <1>1, <3>1
  <2>6. w = [i \in 1..n |-> w[i]]
    BY <1>7, <2>3
  <2> QED
    BY <2>4, <2>5, <2>6
<1> QED
  BY <1>9, <1>10, <1>14, <1>15, <1>16

-----------------------------------------------------------------------------
(* Texts put together.                                                     *)

\* Two texts in a row: their length, their bytes and their boundaries.
LEMMA ConcatFacts ==
  ASSUME NEW s, IsText(s), NEW t, IsText(t)
  PROVE  LET c == s \o t
         IN /\ IsText(c) /\ Len(c) = Len(s) + Len(t)
            /\ \A i \in 1..Len(s) : c[i] = s[i]
            /\ \A i \in 1..Len(t) : c[Len(s) + i] = t[i]
            /\ \A i : Edge(s, i) => Edge(c, i)
            /\ \A i : Edge(t, i) => Edge(c, Len(s) + i)
            /\ \A mode : Clean(s, mode) /\ Clean(t, mode) => Clean(c, mode)
<1>1. PICK c : c = s \o t
  OBVIOUS
<1>2. IsText(c)
  BY <1>1, ConcatText
<1>3. Len(s) \in Nat /\ Len(t) \in Nat /\ s \in Seq(Byte) /\ t \in Seq(Byte)
  BY TextFacts
<1>4. /\ Len(c) = Len(s) + Len(t)
      /\ \A i \in 1..Len(s) : c[i] = s[i]
      /\ \A i \in 1..Len(t) : c[Len(s) + i] = t[i]
  BY <1>1, <1>3
<1>5. ASSUME NEW i, Edge(t, i) PROVE Edge(c, Len(s) + i)
  <2>1. i \in 0..Len(t)
    BY <1>5, EdgeFacts DEF Edge
  <2>2. CASE i = Len(t)
    BY <1>2, <1>4, <2>2, EdgeFacts
  <2>3. CASE i # Len(t)
    <3>1. i \in 0..(Len(t) - 1) /\ i + 1 \in 1..Len(t)
      BY <1>3, <2>1, <2>3
    <3>2. t[i + 1] # TailByte
      BY <1>5, <3>1, EdgeFacts
    <3>3. Len(s) + i \in 0..(Len(c) - 1) /\ (Len(s) + i) + 1 = Len(s) + (i + 1)
      BY <1>3, <1>4, <3>1
    <3>4. c[(Len(s) + i) + 1] # TailByte
      BY <1>4, <3>1, <3>2, <3>3
    <3> QED
      BY <1>2, <3>3, <3>4, EdgeFacts
  <2> QED
    BY <2>2, <2>3
<1>6. ASSUME NEW i, Edge(s, i) PROVE Edge(c, i)
  <2>1. i \in 0..Len(s)
    BY <1>6, EdgeFacts DEF Edge
  <2>2. CASE i = Len(s)
    <3>1. Edge(t, 0)
      BY EdgeFacts
    <3>2. Edge(c, Len(s) + 0)
      BY <1>5, <3>1
    <3> QED
      BY <1>3, <2>2, <3>2
  <2>3. CASE i # Len(s)
    <3>1. i \in 0..(Len(s) - 1) /\ i + 1 \in 1..Len(s)
      BY <1>3, <2>1, <2>3
    <3>2. s[i + 1] # TailByte
      BY <1>6, <3>1, EdgeFacts
    <3>3. i \in 0..(Len(c) - 1)
      BY <1>3, <1>4, <3>1
    <3>4. c[i + 1] # TailByte
      BY <1>4, <3>1, <3>2
    <3> QED
      BY <1>2, <3>3, <3>4, EdgeFacts
  <2> QED
    BY <2>2, <2>3
<1>7. ASSUME NEW mode, Clean(s, mode), Clean(t, mode) PROVE Clean(c, mode)
  <2>1. ASSUME NEW i \in 1..Len(c)
        PROVE  IF mode = "SingleLine" THEN ~IsNewline(c[i]) ELSE c[i] # Return
    <3>1. CASE i <= Len(s)
      <4>1. i \in 1..Len(s)
        BY <1>3, <3>1
      <4> QED
        BY <1>4, <1>7, <4>1 DEF Clean
    <3>2. CASE ~(i <= Len(s))
      <4>1. i - Len(s) \in 1..Len(t) /\ Len(s) + (i - Len(s)) = i
        BY <1>3, <1>4, <3>2
      <4>2. c[i] = t[i - Len(s)]
        BY <1>4, <4>1
      <4> QED
        BY <1>7, <4>1, <4>2 DEF Clean
    <3> QED
      BY <3>1, <3>2
  <2> QED
    BY <2>1 DEF Clean
<1> QED
  BY <1>1, <1>2, <1>4, <1>5, <1>6, <1>7

\* A part of a text between two boundaries.
LEMMA PartFacts ==
  ASSUME NEW t, IsText(t), NEW lo, NEW hi, Edge(t, lo), Edge(t, hi), lo <= hi
  PROVE  LET p == Slice(t, Span(lo, hi))
         IN /\ IsText(p) /\ Len(p) = hi - lo /\ lo \in Nat /\ hi \in Nat
            /\ \A i : Edge(t, i) /\ lo <= i /\ i <= hi => Edge(p, i - lo)
            /\ \A mode : Clean(t, mode) => Clean(p, mode)
<1>1. PICK p : p = Slice(t, Span(lo, hi))
  OBVIOUS
<1>2. IsText(p) /\ Len(p) = hi - lo /\ \A i \in 1..(hi - lo) : p[i] = t[lo + i]
  BY <1>1, SliceFacts
<1>3. lo \in 0..Len(t) /\ hi \in 0..Len(t) /\ Len(t) \in Nat
  BY EdgeFacts, TextFacts DEF Edge
<1>4. ASSUME NEW i, Edge(t, i), lo <= i, i <= hi PROVE Edge(p, i - lo)
  <2>1. i \in 0..Len(t)
    BY <1>4, EdgeFacts DEF Edge
  <2>2. CASE i = hi
    BY <1>2, <2>2, EdgeFacts
  <2>3. CASE i # hi
    <3>1. i \in 0..(Len(t) - 1) /\ i - lo \in 0..(Len(p) - 1) /\ (i - lo) + 1 \in 1..(hi - lo)
      BY <1>2, <1>3, <1>4, <2>1, <2>3
    <3>2. t[i + 1] # TailByte
      BY <1>4, <3>1, EdgeFacts
    <3>3. p[(i - lo) + 1] = t[lo + ((i - lo) + 1)] /\ lo + ((i - lo) + 1) = i + 1
      BY <1>2, <1>3, <2>1, <3>1
    <3> QED
      BY <1>2, <3>1, <3>2, <3>3, EdgeFacts
  <2> QED
    BY <2>2, <2>3
<1>5. ASSUME NEW mode, Clean(t, mode) PROVE Clean(p, mode)
  <2>1. ASSUME NEW i \in 1..Len(p)
        PROVE  IF mode = "SingleLine" THEN ~IsNewline(p[i]) ELSE p[i] # Return
    <3>1. i \in 1..(hi - lo) /\ lo + i \in 1..Len(t)
      BY <1>2, <1>3
    <3> QED
      BY <1>2, <1>5, <3>1 DEF Clean
  <2> QED
    BY <2>1 DEF Clean
<1> QED
  BY <1>1, <1>2, <1>3, <1>4, <1>5

\* A text with a range of it replaced.
Spliced(t, r, s) == SubSeq(t, 1, r.lo) \o s \o SubSeq(t, r.hi + 1, Len(t))

LEMMA SplicedFacts ==
  ASSUME NEW t, IsText(t), NEW r, EdgeSpan(t, r), NEW s, IsText(s)
  PROVE  LET u == Spliced(t, r, s)
         IN /\ IsText(u) /\ Len(u) = Len(t) - (r.hi - r.lo) + Len(s)
            /\ \A i : Edge(t, i) /\ i <= r.lo => Edge(u, i)
            /\ \A i : Edge(s, i) => Edge(u, r.lo + i)
            /\ \A i : Edge(t, i) /\ r.hi <= i => Edge(u, i + (r.lo + Len(s) - r.hi))
            /\ \A mode : Clean(t, mode) /\ Clean(s, mode) => Clean(u, mode)
<1>1. PICK x, z : x = Slice(t, Span(0, r.lo)) /\ z = Slice(t, Span(r.hi, Len(t)))
  OBVIOUS
<1>2. /\ r.lo \in 0..Len(t) /\ r.hi \in 0..Len(t) /\ Len(t) \in Nat /\ Len(s) \in Nat
      /\ r.lo <= r.hi /\ Edge(t, r.lo) /\ Edge(t, r.hi) /\ Edge(t, 0) /\ Edge(t, Len(t))
  BY EdgeSpanFacts, EdgeFacts, TextFacts DEF EdgeSpan
<1>3. /\ IsText(x) /\ Len(x) = r.lo
      /\ \A i : Edge(t, i) /\ 0 <= i /\ i <= r.lo => Edge(x, i - 0)
      /\ \A mode : Clean(t, mode) => Clean(x, mode)
  <2>1. 0 <= r.lo /\ r.lo - 0 = r.lo
    BY <1>2
  <2> QED
    BY <1>1, <1>2, <2>1, PartFacts
<1>4. /\ IsText(z) /\ Len(z) = Len(t) - r.hi
      /\ \A i : Edge(t, i) /\ r.hi <= i /\ i <= Len(t) => Edge(z, i - r.hi)
      /\ \A mode : Clean(t, mode) => Clean(z, mode)
  <2>1. r.hi <= Len(t)
    BY <1>2
  <2> QED
    BY <1>1, <1>2, <2>1, PartFacts
<1>5. PICK v, u : v = x \o s /\ u = v \o z
  OBVIOUS
<1>6. Spliced(t, r, s) = u
  <2>1. x = SubSeq(t, 1, r.lo)
    <3>1. 0 + 1 = 1
      OBVIOUS
    <3> QED
      BY <1>1, <3>1, SpanFacts DEF Slice
  <2>2. z = SubSeq(t, r.hi + 1, Len(t))
    BY <1>1, SpanFacts DEF Slice
  <2> QED
    BY <1>5, <2>1, <2>2 DEF Spliced
<1>7. /\ IsText(v) /\ Len(v) = r.lo + Len(s)
      /\ \A i : Edge(x, i) => Edge(v, i)
      /\ \A i : Edge(s, i) => Edge(v, r.lo + i)
      /\ \A mode : Clean(x, mode) /\ Clean(s, mode) => Clean(v, mode)
  <2>1. /\ IsText(v) /\ Len(v) = Len(x) + Len(s)
        /\ \A i : Edge(x, i) => Edge(v, i)
        /\ \A i : Edge(s, i) => Edge(v, Len(x) + i)
        /\ \A mode : Clean(x, mode) /\ Clean(s, mode) => Clean(v, mode)
    BY <1>3, <1>5, ConcatFacts
  <2> QED
    BY <1>3, <2>1
<1>8. /\ IsText(u) /\ Len(u) = Len(v) + Len(z)
      /\ \A i : Edge(v, i) => Edge(u, i)
      /\ \A i : Edge(z, i) => Edge(u, Len(v) + i)
      /\ \A mode : Clean(v, mode) /\ Clean(z, mode) => Clean(u, mode)
  BY <1>4, <1>5, <1>7, ConcatFacts
<1>9. \A i : Edge(t, i) => i \in 0..Len(t)
  BY EdgeFacts DEF Edge
<1>10. Len(u) = Len(t) - (r.hi - r.lo) + Len(s)
  <2>1. Len(u) = (r.lo + Len(s)) + (Len(t) - r.hi)
    BY <1>4, <1>7, <1>8
  <2>2. r.lo \in Nat /\ r.hi \in Nat /\ Len(t) \in Nat /\ Len(s) \in Nat
    BY <1>2
  <2> QED
    BY <2>1, <2>2
<1>11. ASSUME NEW i, Edge(t, i), i <= r.lo PROVE Edge(u, i)
  <2>1. 0 <= i /\ i - 0 = i
    BY <1>9, <1>11
  <2>2. Edge(x, i)
    BY <1>3, <1>11, <2>1
  <2> QED
    BY <1>7, <1>8, <2>2
<1>12. ASSUME NEW i, Edge(t, i), r.hi <= i PROVE Edge(u, i + (r.lo + Len(s) - r.hi))
  <2>1. i \in 0..Len(t) /\ i <= Len(t)
    BY <1>9, <1>12
  <2>2. Edge(z, i - r.hi)
    BY <1>4, <1>12, <2>1
  <2>3. Edge(u, Len(v) + (i - r.hi))
    BY <1>8, <2>2
  <2>4. Len(v) + (i - r.hi) = i + (r.lo + Len(s) - r.hi)
    BY <1>2, <1>7, <2>1
  <2> QED
    BY <2>3, <2>4
<1> QED
  BY <1>3, <1>4, <1>6, <1>7, <1>8, <1>10, <1>11, <1>12

\* All of a text replaced.
LEMMA AllReplaced ==
  ASSUME NEW t, IsText(t), NEW s, IsText(s)
  PROVE  Spliced(t, Span(0, Len(t)), s) = s
<1>1. t \in Seq(Byte) /\ s \in Seq(Byte) /\ Len(t) \in Nat
  BY TextFacts
<1>2. SubSeq(t, 1, 0) = <<>> /\ SubSeq(t, Len(t) + 1, Len(t)) = <<>>
  BY <1>1
<1>3. <<>> \o s \o <<>> = s
  BY <1>1
<1> QED
  BY <1>2, <1>3, SpanFacts DEF Spliced

-----------------------------------------------------------------------------
(* The edit of a buffer.                                                   *)

\* A buffer of a mode whose parts fit together, with the types they have.
Sound(b, mode) ==
  /\ b = [text |-> b.text, selected |-> b.selected, reversed |-> b.reversed,
          marked |-> b.marked, atoms |-> b.atoms]
  /\ IsText(b.text) /\ Clean(b.text, mode)
  /\ Row(b.atoms) /\ Edged(b.text, b.atoms)
  /\ Snug(b.selected, b.text, b.atoms)
  /\ b.marked # NoSpan =>
       /\ EdgeSpan(b.text, b.marked) /\ ~MeetsAtom(b.marked, b.atoms)
       /\ b.marked.lo <= b.selected.lo /\ b.selected.hi <= b.marked.hi

\* A range the code may be given: any offsets, of this text or of another.
Given(r) == r.lo \in Nat /\ r.hi \in Nat

LEMMA NoSpanFacts ==
  ASSUME NEW t, IsText(t), NEW r, EdgeSpan(t, r)
  PROVE  r # NoSpan /\ Given(r)
  BY EdgeSpanFacts, SpanFacts DEF EdgeSpan, NoSpan, Given

\* The row after an edit: what was before it, what was inserted, and what was after it,
\* moved by the change of length.
LEMMA RowAfterEdit ==
  ASSUME NEW atoms, Row(atoms), NEW r, Given(r), NEW length \in Nat, NEW inserted, Row(inserted),
         \A i \in 1..Len(inserted) : r.lo <= inserted[i].lo /\ inserted[i].hi <= r.lo + length
  PROVE  LET u == AtomsAfterEdit(atoms, r, length, inserted)
         IN /\ Row(u)
            /\ \A i \in 1..Len(u) :
                 \/ \E k \in 1..Len(atoms) : u[i] = atoms[k] /\ u[i].hi <= r.lo
                 \/ \E k \in 1..Len(inserted) : u[i] = inserted[k]
                 \/ \E k \in 1..Len(atoms) :
                      /\ r.hi <= atoms[k].lo
                      /\ u[i].lo = atoms[k].lo + (r.lo + length - r.hi)
                      /\ u[i].hi = atoms[k].hi + (r.lo + length - r.hi)
<1>1. PICK by, x, y, m, v, u :
        /\ by = r.lo + length - r.hi /\ x = Before(atoms, r) /\ y = After(atoms, r)
        /\ m = MovedBy(y, by) /\ v = x \o inserted /\ u = v \o m
  OBVIOUS
<1>2. AtomsAfterEdit(atoms, r, length, inserted) = u
  BY <1>1 DEF AtomsAfterEdit
<1>3. /\ Row(x)
      /\ \A i \in 1..Len(x) : x[i].hi <= r.lo /\ \E k \in 1..Len(atoms) : x[i] = atoms[k]
  <2>1. PICK S : S = {a \in ToSet(atoms) : a.hi <= r.lo}
    OBVIOUS
  <2>2. x = Only(atoms, S)
    BY <1>1, <2>1 DEF Before
  <2>3. /\ Row(x)
        /\ \A i \in 1..Len(x) : x[i] \in S /\ \E k \in 1..Len(atoms) : x[i] = atoms[k]
    BY <2>2, OnlyRow
  <2> QED
    BY <2>1, <2>3
<1>4. /\ Row(y)
      /\ \A i \in 1..Len(y) : r.hi <= y[i].lo /\ \E k \in 1..Len(atoms) : y[i] = atoms[k]
  <2>1. PICK S : S = {a \in ToSet(atoms) : a.hi > r.lo /\ a.lo >= r.hi}
    OBVIOUS
  <2>2. y = Only(atoms, S)
    BY <1>1, <2>1 DEF After
  <2>3. /\ Row(y)
        /\ \A i \in 1..Len(y) : y[i] \in S /\ \E k \in 1..Len(atoms) : y[i] = atoms[k]
    BY <2>2, OnlyRow
  <2>4. \A i \in 1..Len(y) : y[i].lo >= r.hi /\ y[i].lo \in Nat
    BY <2>1, <2>3, RowFacts
  <2> QED
    BY <2>3, <2>4 DEF Given
<1>5. by \in Int /\ \A i \in 1..Len(y) : y[i].lo + by \in Nat /\ r.lo + length <= y[i].lo + by
  <2>1. by \in Int
    BY <1>1 DEF Given
  <2>2. ASSUME NEW i \in 1..Len(y) PROVE y[i].lo + by \in Nat /\ r.lo + length <= y[i].lo + by
    <3>1. y[i].lo \in Nat /\ r.hi <= y[i].lo
      BY <1>4, RowFacts
    <3>2. PICK a, lo, hi : a = y[i].lo /\ lo = r.lo /\ hi = r.hi
      OBVIOUS
    <3>3. a \in Nat /\ lo \in Nat /\ hi \in Nat /\ hi <= a /\ by = lo + length - hi
      BY <1>1, <3>1, <3>2 DEF Given
    <3>4. a + by \in Nat /\ lo + length <= a + by
      BY <3>3
    <3> QED
      BY <3>2, <3>4
  <2> QED
    BY <2>1, <2>2
<1>6. /\ Row(m) /\ Len(m) = Len(y)
      /\ \A i \in 1..Len(y) : m[i].lo = y[i].lo + by /\ m[i].hi = y[i].hi + by
  <2>1. /\ Row(MovedBy(y, by)) /\ Len(MovedBy(y, by)) = Len(y)
        /\ \A i \in 1..Len(y) :
             /\ MovedBy(y, by)[i].lo = y[i].lo + by /\ MovedBy(y, by)[i].hi = y[i].hi + by
    BY <1>4, <1>5, MovedFacts
  <2>2. m = MovedBy(y, by)
    BY <1>1
  <2> QED
    BY <2>1, <2>2
<1>7. /\ Row(v) /\ Len(v) = Len(x) + Len(inserted)
      /\ \A i \in 1..Len(x) : v[i] = x[i]
      /\ \A i \in 1..Len(inserted) : v[Len(x) + i] = inserted[i]
  <2>1. ASSUME NEW i \in 1..Len(x), NEW j \in 1..Len(inserted) PROVE x[i].hi <= inserted[j].lo
    <3>1. x[i].hi \in Nat /\ inserted[j].lo \in Nat
      BY <1>3, RowFacts
    <3>2. x[i].hi <= r.lo /\ r.lo <= inserted[j].lo
      BY <1>3
    <3> QED
      BY <3>1, <3>2 DEF Given
  <2>2. Row(x) /\ Row(inserted) /\ v = x \o inserted
    BY <1>1, <1>3
  <2>3. InFront(x, inserted)
    BY <2>1 DEF InFront
  <2>4. /\ Row(x \o inserted) /\ Len(x \o inserted) = Len(x) + Len(inserted)
        /\ \A i \in 1..Len(x) : (x \o inserted)[i] = x[i]
        /\ \A i \in 1..Len(inserted) : (x \o inserted)[Len(x) + i] = inserted[i]
    BY <2>2, <2>3, ConcatRow
  <2> QED
    BY <2>2, <2>4
<1>8. Len(x) \in Nat /\ Len(inserted) \in Nat /\ Len(v) \in Nat /\ Len(m) \in Nat
  BY <1>3, <1>6, <1>7 DEF Row
<1>9. ASSUME NEW i \in 1..Len(v)
      PROVE  \/ i \in 1..Len(x) /\ v[i] = x[i]
             \/ i - Len(x) \in 1..Len(inserted) /\ v[i] = inserted[i - Len(x)]
  <2>1. CASE i <= Len(x)
    BY <1>7, <1>8, <2>1
  <2>2. CASE ~(i <= Len(x))
    <3>1. i - Len(x) \in 1..Len(inserted) /\ Len(x) + (i - Len(x)) = i
      BY <1>7, <1>8, <2>2
    <3> QED
      BY <1>7, <3>1
  <2> QED
    BY <2>1, <2>2
<1>10. ASSUME NEW i \in 1..Len(v) PROVE v[i].hi <= r.lo + length
  <2>1. CASE i \in 1..Len(x) /\ v[i] = x[i]
    <3>1. x[i].hi <= r.lo /\ x[i].hi \in Nat
      BY <1>3, <2>1, RowFacts
    <3> QED
      BY <2>1, <3>1 DEF Given
  <2>2. CASE i - Len(x) \in 1..Len(inserted) /\ v[i] = inserted[i - Len(x)]
    BY <2>2
  <2> QED
    BY <1>9, <2>1, <2>2
<1>11. /\ Row(u) /\ Len(u) = Len(v) + Len(m)
       /\ \A i \in 1..Len(v) : u[i] = v[i]
       /\ \A i \in 1..Len(m) : u[Len(v) + i] = m[i]
  <2>1. ASSUME NEW i \in 1..Len(v), NEW j \in 1..Len(m) PROVE v[i].hi <= m[j].lo
    <3>1. v[i].hi \in Nat /\ m[j].lo \in Nat
      BY <1>6, <1>7, RowFacts
    <3>2. m[j].lo = y[j].lo + by /\ r.lo + length <= y[j].lo + by /\ v[i].hi <= r.lo + length
      BY <1>5, <1>6, <1>10
    <3> QED
      BY <3>1, <3>2 DEF Given
  <2>2. Row(v) /\ Row(m) /\ u = v \o m
    BY <1>1, <1>6, <1>7
  <2>3. InFront(v, m)
    BY <2>1 DEF InFront
  <2>4. /\ Row(v \o m) /\ Len(v \o m) = Len(v) + Len(m)
        /\ \A i \in 1..Len(v) : (v \o m)[i] = v[i]
        /\ \A i \in 1..Len(m) : (v \o m)[Len(v) + i] = m[i]
    BY <2>2, <2>3, ConcatRow
  <2> QED
    BY <2>2, <2>4
<1>12. ASSUME NEW i \in 1..Len(u)
       PROVE  \/ \E k \in 1..Len(atoms) : u[i] = atoms[k] /\ u[i].hi <= r.lo
              \/ \E k \in 1..Len(inserted) : u[i] = inserted[k]
              \/ \E k \in 1..Len(atoms) : /\ r.hi <= atoms[k].lo
                                          /\ u[i].lo = atoms[k].lo + by
                                          /\ u[i].hi = atoms[k].hi + by
  <2>1. CASE i <= Len(v)
    <3>1. i \in 1..Len(v) /\ u[i] = v[i]
      BY <1>8, <1>11, <2>1
    <3>2. CASE i \in 1..Len(x) /\ v[i] = x[i]
      BY <1>3, <3>1, <3>2
    <3>3. CASE i - Len(x) \in 1..Len(inserted) /\ v[i] = inserted[i - Len(x)]
      BY <3>1, <3>3
    <3> QED
      BY <1>9, <3>1, <3>2, <3>3
  <2>2. CASE ~(i <= Len(v))
    <3>1. i - Len(v) \in 1..Len(m) /\ Len(v) + (i - Len(v)) = i
      BY <1>8, <1>11, <2>2
    <3>2. PICK j \in 1..Len(m) : j = i - Len(v)
      BY <3>1
    <3>3. u[i] = m[j]
      BY <1>11, <3>1, <3>2
    <3>4. j \in 1..Len(y) /\ m[j].lo = y[j].lo + by /\ m[j].hi = y[j].hi + by
      BY <1>6
    <3>5. PICK k \in 1..Len(atoms) : y[j] = atoms[k]
      BY <1>4, <3>4
    <3>6. r.hi <= atoms[k].lo
      BY <1>4, <3>4, <3>5
    <3> QED
      BY <3>3, <3>4, <3>5, <3>6
  <2> QED
    BY <2>1, <2>2
<1>13. by = r.lo + length - r.hi
  BY <1>1
<1> HIDE <1>1
<1> QED
  BY <1>2, <1>11, <1>12, <1>13

\* What Fitted makes of a text and a row of atoms in it.  The marked range is dropped
\* unless it meets no atom and has the selection in it.
LEMMA FittedSound ==
  ASSUME NEW mode, NEW t, IsText(t), Clean(t, mode), NEW atoms, Row(atoms), Edged(t, atoms),
         NEW selected, Given(selected), NEW marked,
         \/ marked = NoSpan
         \/ /\ EdgeSpan(t, marked) /\ ~MeetsAtom(marked, atoms) /\ EdgeSpan(t, selected)
            /\ marked.lo <= selected.lo /\ selected.hi <= marked.hi
  PROVE  Sound(Fitted(t, atoms, selected, marked), mode) /\ Fitted(t, atoms, selected, marked).text = t
<1>1. PICK s, m, b :
        /\ s = Whole(selected, t, atoms)
        /\ m = IF marked = NoSpan THEN NoSpan ELSE WithoutAtoms(Whole(marked, t, atoms), atoms)
        /\ b = [text |-> t, selected |-> s, reversed |-> FALSE, marked |-> m, atoms |-> atoms]
  OBVIOUS
<1>2. b = Fitted(t, atoms, selected, marked)
  BY <1>1 DEF Fitted
<1>3. Snug(s, t, atoms)
  BY <1>1, WholeIsSnug DEF Given
<1>4. ASSUME m # NoSpan
      PROVE  /\ EdgeSpan(t, m) /\ ~MeetsAtom(m, atoms)
             /\ m.lo <= s.lo /\ s.hi <= m.hi
  <2>1. /\ EdgeSpan(t, marked) /\ ~MeetsAtom(marked, atoms) /\ EdgeSpan(t, selected)
        /\ marked.lo <= selected.lo /\ selected.hi <= marked.hi
    BY <1>1, <1>4
  <2>2. Given(marked) /\ marked.lo <= marked.hi /\ marked # NoSpan
    BY <2>1, NoSpanFacts DEF EdgeSpan
  <2>3. marked.lo <= marked.lo /\ marked.hi <= marked.hi
    BY <2>2 DEF Given
  <2>4. Snug(marked, t, atoms) /\ Snug(selected, t, atoms)
    BY <2>1, <2>2, <2>3, InsideUnmet DEF Given
  <2>5. Whole(marked, t, atoms) = marked /\ Whole(selected, t, atoms) = selected
    BY <2>2, <2>4, WholeIsSnug DEF Given
  <2>6. m = marked /\ s = selected
    BY <1>1, <2>1, <2>2, <2>5 DEF WithoutAtoms
  <2> QED
    BY <2>1, <2>6
<1>5. /\ b.text = t /\ b.selected = s /\ b.reversed = FALSE /\ b.marked = m /\ b.atoms = atoms
      /\ b = [text |-> b.text, selected |-> b.selected, reversed |-> b.reversed,
              marked |-> b.marked, atoms |-> b.atoms]
  BY <1>1
<1> QED
  BY <1>2, <1>3, <1>4, <1>5 DEF Sound

\* Edited: a sound buffer is sound after an edit of a range that cuts no atom, whatever
\* atoms of the new text it brings, with the new text marked where it brings none.
LEMMA EditedSound ==
  ASSUME NEW mode, NEW b, Sound(b, mode), NEW r, Snug(r, b.text, b.atoms),
         NEW new, IsText(new), Clean(new, mode), NEW selected, Given(selected), NEW inserted,
         Row(inserted),
         \A i \in 1..Len(inserted) : \E lo, hi : /\ inserted[i].lo = r.lo + lo /\ Edge(new, lo)
                                                 /\ inserted[i].hi = r.lo + hi /\ Edge(new, hi),
         NEW marked,
         \/ marked = NoSpan
         \/ /\ inserted = <<>> /\ marked = Span(r.lo, r.lo + Len(new))
            /\ \E c : EdgeSpan(new, c) /\ selected = Span(r.lo + c.lo, r.lo + c.hi)
  PROVE  /\ Sound(Edited(b, r, new, selected, marked, inserted), mode)
         /\ Edited(b, r, new, selected, marked, inserted).text = Spliced(b.text, r, new)
<1>1. PICK t, u, atoms, after :
        /\ t = b.text /\ u = Spliced(t, r, new) /\ atoms = b.atoms
        /\ after = AtomsAfterEdit(atoms, r, Len(new), inserted)
  OBVIOUS
<1>2. Edited(b, r, new, selected, marked, inserted) = Fitted(u, after, selected, marked)
  BY <1>1 DEF Edited, Spliced
<1>3. IsText(t) /\ Clean(t, mode) /\ Row(atoms) /\ Edged(t, atoms) /\ Snug(r, t, atoms)
  BY <1>1 DEF Sound
<1>4. /\ r.lo \in Nat /\ r.hi \in Nat /\ r.lo <= r.hi /\ EdgeSpan(t, r) /\ Len(new) \in Nat
      /\ Len(t) \in Nat /\ r.hi <= Len(t)
  <2>1. EdgeSpan(t, r) /\ Len(new) \in Nat /\ Len(t) \in Nat
    BY <1>3, TextFacts DEF Snug
  <2>2. /\ r.lo \in 0..Len(t) /\ r.hi \in 0..Len(t) /\ r.lo <= r.hi
        /\ r.lo \in Nat /\ r.hi \in Nat
    BY <1>3, SnugFacts
  <2> QED
    BY <2>1, <2>2
<1>5. /\ IsText(u) /\ Clean(u, mode)
      /\ \A i : Edge(t, i) /\ i <= r.lo => Edge(u, i)
      /\ \A i : Edge(new, i) => Edge(u, r.lo + i)
      /\ \A i : Edge(t, i) /\ r.hi <= i => Edge(u, i + (r.lo + Len(new) - r.hi))
  BY <1>1, <1>3, <1>4, SplicedFacts
<1>6. ASSUME NEW i \in 1..Len(inserted)
      PROVE  /\ r.lo <= inserted[i].lo /\ inserted[i].hi <= r.lo + Len(new)
             /\ Edge(u, inserted[i].lo) /\ Edge(u, inserted[i].hi)
  <2>1. PICK lo, hi : /\ inserted[i].lo = r.lo + lo /\ Edge(new, lo)
                      /\ inserted[i].hi = r.lo + hi /\ Edge(new, hi)
    OBVIOUS
  <2>2. lo \in 0..Len(new) /\ hi \in 0..Len(new)
    BY <2>1, EdgeFacts DEF Edge
  <2>3. Edge(u, r.lo + lo) /\ Edge(u, r.lo + hi)
    BY <1>5, <2>1
  <2> QED
    BY <1>4, <2>1, <2>2, <2>3
<1>7. /\ Row(after)
      /\ \A i \in 1..Len(after) :
           \/ \E k \in 1..Len(atoms) : after[i] = atoms[k] /\ after[i].hi <= r.lo
           \/ \E k \in 1..Len(inserted) : after[i] = inserted[k]
           \/ \E k \in 1..Len(atoms) :
                /\ r.hi <= atoms[k].lo
                /\ after[i].lo = atoms[k].lo + (r.lo + Len(new) - r.hi)
                /\ after[i].hi = atoms[k].hi + (r.lo + Len(new) - r.hi)
  <2>1. Given(r) /\ Row(atoms) /\ Row(inserted) /\ Len(new) \in Nat
    BY <1>3, <1>4 DEF Given
  <2>2. \A i \in 1..Len(inserted) :
          r.lo <= inserted[i].lo /\ inserted[i].hi <= r.lo + Len(new)
    BY <1>6
  <2>3. PICK w, l : w = AtomsAfterEdit(atoms, r, l, inserted) /\ l = Len(new)
    OBVIOUS
  <2>4. l \in Nat /\ \A i \in 1..Len(inserted) : r.lo <= inserted[i].lo /\ inserted[i].hi <= r.lo + l
    BY <2>1, <2>2, <2>3
  <2>5. /\ Row(w)
        /\ \A i \in 1..Len(w) :
           \/ \E k \in 1..Len(atoms) : w[i] = atoms[k] /\ w[i].hi <= r.lo
           \/ \E k \in 1..Len(inserted) : w[i] = inserted[k]
           \/ \E k \in 1..Len(atoms) :
                /\ r.hi <= atoms[k].lo
                /\ w[i].lo = atoms[k].lo + (r.lo + l - r.hi)
                /\ w[i].hi = atoms[k].hi + (r.lo + l - r.hi)
    BY <2>1, <2>3, <2>4, RowAfterEdit
  <2>6. w = after
    BY <1>1, <2>3
  <2> QED
    BY <2>3, <2>5, <2>6
<1>8. ASSUME NEW i \in 1..Len(after) PROVE Edge(u, after[i].lo) /\ Edge(u, after[i].hi)
  <2>1. CASE \E k \in 1..Len(atoms) : after[i] = atoms[k] /\ after[i].hi <= r.lo
    <3>1. PICK k \in 1..Len(atoms) : after[i] = atoms[k] /\ after[i].hi <= r.lo
      BY <2>1
    <3>2. Edge(t, atoms[k].lo) /\ Edge(t, atoms[k].hi)
      BY <1>3 DEF Edged
    <3>3. atoms[k].lo \in Nat /\ atoms[k].hi \in Nat /\ atoms[k].lo < atoms[k].hi
      BY <1>3, RowFacts
    <3>4. atoms[k].lo <= r.lo /\ atoms[k].hi <= r.lo
      <4>1. r.lo \in Nat /\ atoms[k].hi <= r.lo
        BY <1>4, <3>1
      <4> QED
        BY <3>3, <4>1
    <3> QED
      BY <1>5, <3>1, <3>2, <3>4
  <2>2. CASE \E k \in 1..Len(inserted) : after[i] = inserted[k]
    BY <1>6, <2>2
  <2>3. CASE \E k \in 1..Len(atoms) :
               /\ r.hi <= atoms[k].lo
               /\ after[i].lo = atoms[k].lo + (r.lo + Len(new) - r.hi)
               /\ after[i].hi = atoms[k].hi + (r.lo + Len(new) - r.hi)
    <3>1. PICK k \in 1..Len(atoms) :
            /\ r.hi <= atoms[k].lo
            /\ after[i].lo = atoms[k].lo + (r.lo + Len(new) - r.hi)
            /\ after[i].hi = atoms[k].hi + (r.lo + Len(new) - r.hi)
      BY <2>3
    <3>2. Edge(t, atoms[k].lo) /\ Edge(t, atoms[k].hi)
      BY <1>3 DEF Edged
    <3>3. atoms[k].lo \in Nat /\ atoms[k].hi \in Nat /\ atoms[k].lo < atoms[k].hi
      BY <1>3, RowFacts
    <3>4. r.hi <= atoms[k].hi
      <4>1. r.hi \in Nat /\ r.hi <= atoms[k].lo
        BY <1>4, <3>1
      <4> QED
        BY <3>3, <4>1
    <3> QED
      BY <1>5, <3>1, <3>2, <3>4
  <2> QED
    BY <1>7, <2>1, <2>2, <2>3
<1>9. Edged(u, after)
  BY <1>8 DEF Edged
<1>10. \/ marked = NoSpan
       \/ /\ EdgeSpan(u, marked) /\ ~MeetsAtom(marked, after) /\ EdgeSpan(u, selected)
          /\ marked.lo <= selected.lo /\ selected.hi <= marked.hi
  <2>1. SUFFICES ASSUME marked # NoSpan
                 PROVE  /\ EdgeSpan(u, marked) /\ ~MeetsAtom(marked, after) /\ EdgeSpan(u, selected)
                        /\ marked.lo <= selected.lo /\ selected.hi <= marked.hi
    OBVIOUS
  <2>2. PICK c : EdgeSpan(new, c) /\ selected = Span(r.lo + c.lo, r.lo + c.hi)
    BY <2>1
  <2>3. inserted = <<>> /\ marked.lo = r.lo /\ marked.hi = r.lo + Len(new)
    BY <2>1, SpanFacts
  <2>4. /\ c.lo \in 0..Len(new) /\ c.hi \in 0..Len(new) /\ c.lo <= c.hi
        /\ Edge(new, c.lo) /\ Edge(new, c.hi) /\ Edge(new, Len(new))
    BY <2>2, EdgeSpanFacts, EdgeFacts DEF EdgeSpan
  <2>5. selected.lo = r.lo + c.lo /\ selected.hi = r.lo + c.hi
    BY <2>2, SpanFacts
  <2>6. EdgeSpan(u, marked)
    <3>1. Edge(u, r.lo)
      <4>1. Edge(t, r.lo) /\ r.lo <= r.lo
        BY <1>4 DEF EdgeSpan
      <4> QED
        BY <1>5, <4>1
    <3>2. Edge(u, r.lo + Len(new))
      BY <1>5, <2>4
    <3>3. r.lo <= r.lo + Len(new) /\ marked = Span(marked.lo, marked.hi)
      BY <1>4, <2>1, <2>3
    <3> QED
      BY <2>3, <3>1, <3>2, <3>3 DEF EdgeSpan
  <2>7. EdgeSpan(u, selected)
    <3>1. Edge(u, r.lo + c.lo) /\ Edge(u, r.lo + c.hi)
      BY <1>5, <2>4
    <3>2. r.lo + c.lo <= r.lo + c.hi /\ selected = Span(selected.lo, selected.hi)
      BY <1>4, <2>2, <2>4, <2>5
    <3> QED
      BY <2>5, <3>1, <3>2 DEF EdgeSpan
  <2>8. ASSUME NEW i \in 1..Len(after) PROVE ~Meets(marked, after[i])
    <3>1. ~(\E k \in 1..Len(inserted) : after[i] = inserted[k])
      <4>1. Len(inserted) = 0
        BY <2>3
      <4> QED
        BY <4>1
    <3>2. after[i].lo \in Nat /\ after[i].hi \in Nat
      BY <1>7, RowFacts
    <3>3. after[i].hi <= r.lo \/ r.lo + Len(new) <= after[i].lo
      <4>1. CASE \E k \in 1..Len(atoms) : after[i] = atoms[k] /\ after[i].hi <= r.lo
        BY <4>1
      <4>2. CASE \E k \in 1..Len(atoms) :
                   /\ r.hi <= atoms[k].lo
                   /\ after[i].lo = atoms[k].lo + (r.lo + Len(new) - r.hi)
                   /\ after[i].hi = atoms[k].hi + (r.lo + Len(new) - r.hi)
        <5>1. PICK k \in 1..Len(atoms) :
                r.hi <= atoms[k].lo /\ after[i].lo = atoms[k].lo + (r.lo + Len(new) - r.hi)
          BY <4>2
        <5>2. atoms[k].lo \in Nat
          BY <1>3, RowFacts
        <5>3. r.lo \in Nat /\ r.hi \in Nat /\ Len(new) \in Nat
          BY <1>4
        <5>4. PICK from, upto, length, low, moved :
                /\ from = r.lo /\ upto = r.hi /\ length = Len(new)
                /\ low = atoms[k].lo /\ moved = after[i].lo
          OBVIOUS
        <5>5. /\ from \in Nat /\ upto \in Nat /\ length \in Nat /\ low \in Nat
              /\ upto <= low /\ moved = low + (from + length - upto)
          BY <5>1, <5>2, <5>3, <5>4
        <5>6. from + length <= moved
          BY <5>5
        <5> QED
          BY <5>4, <5>6
      <4> QED
        BY <1>7, <3>1, <4>1, <4>2
    <3> QED
      BY <1>4, <2>3, <3>2, <3>3 DEF Meets
  <2>9. ~MeetsAtom(marked, after)
    BY <1>7, <2>8, MeetsAtomAt
  <2>10. marked.lo <= selected.lo /\ selected.hi <= marked.hi
    BY <1>4, <2>3, <2>4, <2>5
  <2> QED
    BY <2>6, <2>7, <2>9, <2>10
<1>11. Sound(Fitted(u, after, selected, marked), mode) /\ Fitted(u, after, selected, marked).text = u
  BY <1>5, <1>7, <1>9, <1>10, FittedSound
<1> QED
  BY <1>1, <1>2, <1>11

-----------------------------------------------------------------------------
(* The stacks of snapshots.                                                *)

LEMMA TotalNat ==
  ASSUME NEW v \in Seq(Nat)
  PROVE  Total(v) \in Nat
<1> DEFINE f == [n \in Nat |-> n]
<1>1. \A n \in Nat : f[n] \in Nat
  OBVIOUS
<1>2. Weighs(v, f) \in Nat
  BY <1>1, WeighsNat
<1>3. Weights(v, f) = v
  <2>1. \A i \in 1..Len(v) : f[v[i]] = v[i]
    OBVIOUS
  <2>2. v = [i \in 1..Len(v) |-> v[i]]
    OBVIOUS
  <2> HIDE DEF f
  <2>3. [i \in 1..Len(v) |-> f[v[i]]] = [i \in 1..Len(v) |-> v[i]]
    BY <2>1
  <2> QED
    BY <2>2, <2>3 DEF Weights
<1> QED
  BY <1>2, <1>3 DEF Weighs

\* What a snapshot keeps is a number of bytes.
LEMMA SnapshotBytesNat ==
  ASSUME NEW mode, NEW b, Sound(b, mode)
  PROVE  SnapshotBytes(b) \in Nat
<1>1. PICK n, v :
        /\ n = Len(b.atoms)
        /\ v = [i \in 1..n |-> 1 + (b.atoms[i].hi - b.atoms[i].lo) + Len(b.atoms[i].copy)]
  OBVIOUS
<1>2. Row(b.atoms) /\ IsText(b.text)
  BY DEF Sound
<1>3. n \in Nat /\ DOMAIN b.atoms = 1..n /\ Len(b.text) \in Nat
  BY <1>1, <1>2, RowFacts, TextFacts
<1>4. ASSUME NEW i \in 1..n PROVE v[i] \in Nat
  <2>1. PICK a : a = b.atoms[i]
    OBVIOUS
  <2>2. a.lo \in Nat /\ a.hi \in Nat /\ a.lo < a.hi /\ IsText(a.copy)
    BY <1>1, <1>2, <2>1 DEF Row, IsAtom
  <2>3. Len(a.copy) \in Nat
    BY <2>2, TextFacts
  <2>4. v[i] = 1 + (a.hi - a.lo) + Len(a.copy)
    BY <1>1, <2>1
  <2> QED
    BY <2>2, <2>3, <2>4
<1>5. v \in Seq(Nat)
  <2>1. v = [i \in 1..n |-> v[i]]
    BY <1>1
  <2>2. v \in [1..n -> Nat]
    BY <1>4, <2>1
  <2> QED
    BY <1>3, <2>2
<1>6. SnapshotBytes(b) = Len(b.text) + Total(v)
  BY <1>1, <1>3 DEF SnapshotBytes
<1> QED
  BY <1>3, <1>5, <1>6, TotalNat

Bytes(A) == [b \in A |-> SnapshotBytes(b)]

LEMMA StackWeighs ==
  ASSUME NEW A, NEW s \in Seq(A)
  PROVE  StackBytes(s) = Weighs(s, Bytes(A))
<1>1. DOMAIN s = 1..Len(s) /\ \A i \in 1..Len(s) : s[i] \in A
  OBVIOUS
<1>2. \A i \in 1..Len(s) : Bytes(A)[s[i]] = SnapshotBytes(s[i])
  BY <1>1 DEF Bytes
<1>3. [i \in DOMAIN s |-> SnapshotBytes(s[i])] = [i \in 1..Len(s) |-> Bytes(A)[s[i]]]
  BY <1>1, <1>2
<1> QED
  BY <1>3 DEF StackBytes, Weighs, Weights

\* Pushed: a stack within its limits stays in them, and holds no snapshot it did not hold
\* or was given.
LEMMA PushedFacts ==
  ASSUME NEW A, \A b \in A : SnapshotBytes(b) \in Nat, NEW stack \in Seq(A), NEW b \in A,
         NEW countLimit \in Nat, NEW byteLimit \in Nat,
         Len(stack) <= countLimit, StackBytes(stack) <= byteLimit
  PROVE  LET p == Pushed(stack, b, countLimit, byteLimit)
         IN p \in Seq(A) /\ Len(p) <= countLimit /\ StackBytes(p) <= byteLimit
<1>1. PICK full : full = Append(stack, b)
  OBVIOUS
<1>2. full \in Seq(A) /\ Len(full) = Len(stack) + 1 /\ full[Len(full)] = b /\ Len(stack) \in Nat
  BY <1>1
<1>3. CASE \/ countLimit = 0 \/ byteLimit = 0 \/ SnapshotBytes(b) > byteLimit
           \/ stack # <<>> /\ Last(stack) = b
  BY <1>3 DEF Pushed
<1>4. CASE ~ \/ countLimit = 0 \/ byteLimit = 0 \/ SnapshotBytes(b) > byteLimit
             \/ stack # <<>> /\ Last(stack) = b
  <2>1. PICK n : n = Len(full)
    OBVIOUS
  <2>2. n \in Nat /\ n > 0
    BY <1>2, <2>1
  <2>3. PICK T : T = {k \in 1..n : /\ Len(SubSeq(full, k, n)) <= countLimit
                                   /\ StackBytes(SubSeq(full, k, n)) <= byteLimit}
    OBVIOUS
  <2>4. Pushed(stack, b, countLimit, byteLimit) = SubSeq(full, Min(T), n)
    BY <1>1, <1>4, <2>1, <2>3 DEF Pushed, Kept
  <2>5. n \in T
    <3>1. SubSeq(full, n, n) = <<b>>
      <4>1. n \in 1..Len(full) /\ full[n] = b
        BY <1>2, <2>1, <2>2
      <4>2. PICK u : u = SubSeq(full, n, n)
        OBVIOUS
      <4>3. u \in Seq(A) /\ Len(u) = 1 /\ u[1] = full[n]
        BY <1>2, <2>2, <4>1, <4>2
      <4>4. u = <<b>>
        BY <4>1, <4>3
      <4> QED
        BY <4>2, <4>4
    <3>2. StackBytes(<<b>>) = SnapshotBytes(b)
      <4>1. <<>> \in Seq(A) /\ Append(<<>>, b) = <<b>> /\ <<b>> \in Seq(A)
        OBVIOUS
      <4>2. \A c \in A : Bytes(A)[c] \in Nat
        BY DEF Bytes
      <4>3. Weighs(<<b>>, Bytes(A)) = Weighs(<<>>, Bytes(A)) + Bytes(A)[b]
        BY <4>1, <4>2, WeighsAppend
      <4>4. Weighs(<<>>, Bytes(A)) = 0
        BY WeighsEmpty
      <4>5. Bytes(A)[b] = SnapshotBytes(b) /\ SnapshotBytes(b) \in Nat
        BY DEF Bytes
      <4>6. StackBytes(<<b>>) = Weighs(<<b>>, Bytes(A))
        BY <4>1, StackWeighs
      <4>7. PICK w, z : w = Weighs(<<b>>, Bytes(A)) /\ z = Weighs(<<>>, Bytes(A))
        OBVIOUS
      <4>8. w = z + Bytes(A)[b] /\ z = 0
        BY <4>3, <4>4, <4>7
      <4> QED
        BY <4>5, <4>6, <4>7, <4>8
    <3>3. Len(<<b>>) = 1
      OBVIOUS
    <3>4. SnapshotBytes(b) \in Nat /\ SnapshotBytes(b) <= byteLimit /\ 1 <= countLimit
      BY <1>4
    <3>5. PICK u : u = SubSeq(full, n, n)
      OBVIOUS
    <3>6. Len(u) = 1 /\ StackBytes(u) = SnapshotBytes(b)
      BY <3>1, <3>2, <3>3, <3>5
    <3>7. Len(u) <= countLimit /\ StackBytes(u) <= byteLimit /\ n \in 1..n
      BY <2>2, <3>4, <3>6
    <3> QED
      BY <2>3, <3>5, <3>7
  <2>6. T \subseteq Nat /\ T # {}
    BY <2>3, <2>5
  <2>7. Min(T) \in T
    BY <2>6, MinFacts
  <2>8. /\ Min(T) \in 1..n /\ Len(SubSeq(full, Min(T), n)) <= countLimit
        /\ StackBytes(SubSeq(full, Min(T), n)) <= byteLimit
    BY <2>3, <2>7
  <2>9. SubSeq(full, Min(T), n) \in Seq(A)
    BY <1>2, <2>1, <2>8
  <2> QED
    BY <2>4, <2>8, <2>9
<1> QED
  BY <1>3, <1>4

\* A stack without its newest snapshot.
LEMMA FrontFacts ==
  ASSUME NEW A, \A b \in A : SnapshotBytes(b) \in Nat, NEW stack \in Seq(A), stack # <<>>
  PROVE  /\ Front(stack) \in Seq(A) /\ Last(stack) \in A
         /\ Len(Front(stack)) <= Len(stack) /\ StackBytes(Front(stack)) <= StackBytes(stack)
<1>1. PICK n, f, b : n = Len(stack) /\ f = Front(stack) /\ b = Last(stack)
  OBVIOUS
<1>2. n \in Nat /\ n > 0
  BY <1>1
<1>3. f = SubSeq(stack, 1, n - 1) /\ b = stack[n]
  BY <1>1 DEF Front, Last
<1>4. b \in A /\ f \in Seq(A) /\ Len(f) = n - 1 /\ Append(f, b) = stack
  BY <1>1, <1>2, <1>3
<1>5. \A c \in A : Bytes(A)[c] \in Nat
  BY DEF Bytes
<1>6. Weighs(stack, Bytes(A)) = Weighs(f, Bytes(A)) + Bytes(A)[b]
  BY <1>4, <1>5, WeighsAppend
<1>7. Weighs(f, Bytes(A)) \in Nat /\ Bytes(A)[b] \in Nat
  BY <1>4, <1>5, WeighsNat
<1>8. StackBytes(f) = Weighs(f, Bytes(A)) /\ StackBytes(stack) = Weighs(stack, Bytes(A))
  BY <1>4, StackWeighs
<1> QED
  BY <1>1, <1>2, <1>4, <1>6, <1>7, <1>8

-----------------------------------------------------------------------------
(* What is exported.                                                       *)

\* What is shown before the n-th of the atoms met.
Between(b, r, met, n) ==
  Slice(b.text, Span(IF n - 1 = 0 THEN r.lo ELSE met[n - 1].hi, met[n].lo))

CopiedUpTo(f, b, r, met, N) ==
  f = [n \in 0..N |-> IF n = 0 THEN <<>> ELSE f[n - 1] \o Between(b, r, met, n) \o met[n].copy]

LEMMA CopiesExist ==
  ASSUME NEW b, NEW r, NEW met
  PROVE  \A N \in Nat : \E f : CopiedUpTo(f, b, r, met, N)
<1> DEFINE T == {N \in Nat : \E f : CopiedUpTo(f, b, r, met, N)}
           Next1(s, n) == s \o Between(b, r, met, n) \o met[n].copy
<1>1. 0 \in T
  <2> DEFINE f == [n \in 0..0 |-> <<>>]
  <2>1. f = [n \in 0..0 |-> IF n = 0 THEN <<>> ELSE Next1(f[n - 1], n)]
    OBVIOUS
  <2> QED
    BY <2>1 DEF CopiedUpTo
<1>2. ASSUME NEW N \in Nat, N \in T PROVE N + 1 \in T
  <2>1. PICK f : CopiedUpTo(f, b, r, met, N)
    BY <1>2
  <2>2. f = [n \in 0..N |-> IF n = 0 THEN <<>> ELSE Next1(f[n - 1], n)]
    BY <2>1 DEF CopiedUpTo
  <2> HIDE DEF Next1
  <2>3. PICK last : last = Next1(f[N], N + 1)
    OBVIOUS
  <2> DEFINE h == [n \in 0..(N + 1) |-> IF n = N + 1 THEN last ELSE f[n]]
  <2>4. h = [n \in 0..(N + 1) |-> IF n = 0 THEN <<>> ELSE Next1(h[n - 1], n)]
    <3> SUFFICES ASSUME NEW n \in 0..(N + 1)
                 PROVE  h[n] = IF n = 0 THEN <<>> ELSE Next1(h[n - 1], n)
      OBVIOUS
    <3>1. CASE n = 0
      BY <2>2, <3>1
    <3>2. CASE n = N + 1
      <4>1. h[n] = last /\ h[n - 1] = f[N] /\ n # 0
        BY <3>2
      <4> QED
        BY <2>3, <3>2, <4>1
    <3>3. CASE n # 0 /\ n # N + 1
      <4>1. n \in 0..N /\ n - 1 \in 0..(N + 1) /\ n - 1 # N + 1
        BY <3>3
      <4>2. f[n] = Next1(f[n - 1], n)
        BY <2>2, <3>3, <4>1
      <4>3. h[n] = f[n] /\ h[n - 1] = f[n - 1]
        BY <3>3, <4>1
      <4> QED
        BY <3>3, <4>2, <4>3
    <3> QED
      BY <3>1, <3>2, <3>3
  <2>5. CopiedUpTo(h, b, r, met, N + 1)
    BY <2>4 DEF CopiedUpTo, Next1
  <2> QED
    BY <2>5
<1> HIDE DEF T
<1>3. Nat \subseteq T
  BY <1>1, <1>2, AllNaturals
<1> QED
  BY <1>3 DEF T

\* CopiedText: a text, whatever atoms are met.
LEMMA CopiedIsText ==
  ASSUME NEW b, IsText(b.text), NEW r, Edge(b.text, r.lo), Edge(b.text, r.hi),
         NEW met, Row(met), Edged(b.text, met)
  PROVE  IsText(CopiedText(b, r, met))
<1> DEFINE N == Len(met)
           done == CHOOSE f : f = [n \in 0..N |-> IF n = 0 THEN <<>>
                                     ELSE f[n - 1] \o Between(b, r, met, n) \o met[n].copy]
           rest == Slice(b.text, Span(IF N = 0 THEN r.lo ELSE met[N].hi, r.hi))
<1>0. N \in Nat
  BY DEF Row
<1>1. CopiedText(b, r, met) = done[N] \o rest
  BY DEF CopiedText, Between
<1>2. \E f : CopiedUpTo(f, b, r, met, N)
  BY <1>0, CopiesExist
<1>3. \E f : f = [n \in 0..N |-> IF n = 0 THEN <<>>
                    ELSE f[n - 1] \o Between(b, r, met, n) \o met[n].copy]
  BY <1>2 DEF CopiedUpTo
<1>4. done = [n \in 0..N |-> IF n = 0 THEN <<>>
                ELSE done[n - 1] \o Between(b, r, met, n) \o met[n].copy]
  BY <1>3
<1> HIDE DEF done
<1>5. \A n \in 0..N : Edge(b.text, IF n = 0 THEN r.lo ELSE met[n].hi)
  BY <1>0 DEF Edged
<1>6. ASSUME NEW n \in 1..N PROVE IsText(Between(b, r, met, n)) /\ IsText(met[n].copy)
  <2>1. n - 1 \in 0..N
    BY <1>0
  <2>2. PICK lo : lo = IF n - 1 = 0 THEN r.lo ELSE met[n - 1].hi
    OBVIOUS
  <2>3. Edge(b.text, lo) /\ Edge(b.text, met[n].lo)
    BY <1>5, <2>1, <2>2 DEF Edged
  <2>4. IsText(Slice(b.text, Span(lo, met[n].lo)))
    BY <2>3, SliceFacts
  <2> QED
    BY <2>2, <2>4 DEF Between, Row, IsAtom
<1> DEFINE T == {n \in Nat : n <= N => IsText(done[n])}
<1>7. 0 \in T
  <2>1. done[0] = <<>>
    BY <1>0, <1>4
  <2> QED
    BY <2>1, EmptyText
<1>8. ASSUME NEW n \in Nat, n \in T PROVE n + 1 \in T
  <2> SUFFICES ASSUME n + 1 <= N PROVE IsText(done[n + 1])
    OBVIOUS
  <2>1. IsText(done[n]) /\ n + 1 \in 1..N
    BY <1>0, <1>8
  <2>2. done[n + 1] = done[n] \o Between(b, r, met, n + 1) \o met[n + 1].copy
    <3>1. n + 1 \in 0..N /\ n + 1 # 0 /\ (n + 1) - 1 = n
      BY <1>0, <2>1
    <3> QED
      BY <1>4, <3>1
  <2>3. IsText(done[n] \o Between(b, r, met, n + 1))
    BY <1>6, <2>1, ConcatText
  <2> QED
    BY <1>6, <2>1, <2>2, <2>3, ConcatText
<1> HIDE DEF T
<1>9. Nat \subseteq T
  BY <1>7, <1>8, AllNaturals
<1>10. IsText(done[N])
  BY <1>0, <1>9 DEF T
<1>11. IsText(rest)
  <2>1. PICK lo : lo = IF N = 0 THEN r.lo ELSE met[N].hi
    OBVIOUS
  <2>2. Edge(b.text, lo)
    BY <1>0, <1>5, <2>1
  <2>3. IsText(Slice(b.text, Span(lo, r.hi)))
    BY <2>2, SliceFacts
  <2> QED
    BY <2>1, <2>3
<1> HIDE DEF rest
<1> QED
  BY <1>1, <1>10, <1>11, ConcatText

\* What the clipboard may hold.
ClipOk(c) ==
  /\ IsText(c.copied) /\ IsText(c.display)
  /\ IsFiniteSet(c.atoms) /\ \A a \in c.atoms : IsText(a.copy)

LEMMA ExportedFacts ==
  ASSUME NEW mode, NEW b, Sound(b, mode), NEW range, Given(range)
  PROVE  ClipOk(Exported(b, range)) /\ ClipOk(AsText(Exported(b, range)))
<1>1. IsText(b.text) /\ Row(b.atoms) /\ Edged(b.text, b.atoms)
  BY DEF Sound
<1>2. PICK r, S, met, e :
        /\ r = Whole(range, b.text, b.atoms) /\ S = {a \in ToSet(b.atoms) : Meets(r, a)}
        /\ met = Only(b.atoms, S) /\ e = Exported(b, range)
  OBVIOUS
<1>3. e = ExportedOf(b, r, met)
  BY <1>2 DEF Exported, ExportedWhole
<1>4. Edge(b.text, r.lo) /\ Edge(b.text, r.hi) /\ r = Span(r.lo, r.hi)
  <2>1. Snug(r, b.text, b.atoms)
    BY <1>1, <1>2, WholeIsSnug DEF Given
  <2> QED
    BY <2>1 DEF Snug, EdgeSpan
<1>5. /\ Row(met)
      /\ \A i \in 1..Len(met) : \E k \in 1..Len(b.atoms) : met[i] = b.atoms[k]
  <2>1. /\ Row(Only(b.atoms, S))
        /\ \A i \in 1..Len(Only(b.atoms, S)) :
             \E k \in 1..Len(b.atoms) : Only(b.atoms, S)[i] = b.atoms[k]
    <3>1. PICK atoms : atoms = b.atoms
      OBVIOUS
    <3>2. Row(atoms)
      BY <1>1, <3>1
    <3>3. /\ Row(Only(atoms, S))
          /\ \A i \in 1..Len(Only(atoms, S)) : \E k \in 1..Len(atoms) : Only(atoms, S)[i] = atoms[k]
      BY <3>2, OnlyRow
    <3> QED
      BY <3>1, <3>3
  <2>2. met = Only(b.atoms, S)
    BY <1>2
  <2> QED
    BY <2>1, <2>2
<1>6. Edged(b.text, met)
  BY <1>1, <1>5 DEF Edged
<1> DEFINE E(a) == [id |-> a.id, lo |-> a.lo - r.lo, hi |-> a.hi - r.lo,
                    display |-> Slice(b.text, a), copy |-> a.copy]
           g == [i \in 1..Len(met) |-> E(met[i])]
<1>7. e.atoms = {E(a) : a \in ToSet(met)} /\ e.copied = CopiedText(b, r, met) /\ e.display = Slice(b.text, r)
  BY <1>3 DEF ExportedOf
<1>8. e.atoms = {g[i] : i \in 1..Len(met)}
  <2>1. ToSet(met) = {met[i] : i \in 1..Len(met)}
    BY <1>5, RowFacts
  <2> QED
    BY <1>7, <2>1
<1>9. \A i \in 1..Len(met) : IsText(g[i].copy)
  BY <1>5 DEF Row, IsAtom
<1> HIDE DEF g
<1>10. IsFiniteSet(e.atoms)
  <2>1. g \in [1..Len(met) -> e.atoms]
    BY <1>8 DEF g
  <2>2. g \in Surjection(1..Len(met), e.atoms)
    BY <1>8, <2>1 DEF Surjection
  <2>3. IsFiniteSet(1..Len(met))
    <3>1. PICK n \in Nat : n = Len(met)
      BY <1>5 DEF Row
    <3>2. IsFiniteSet(1..n)
      BY FS_Interval
    <3> QED
      BY <3>1, <3>2
  <2> QED
    BY <2>2, <2>3, FS_Surjection
<1>11. \A a \in e.atoms : IsText(a.copy)
  BY <1>8, <1>9
<1>12. IsText(e.copied)
  BY <1>1, <1>4, <1>5, <1>6, <1>7, CopiedIsText
<1>13. IsText(e.display)
  <2>1. IsText(Slice(b.text, Span(r.lo, r.hi)))
    BY <1>1, <1>4, SliceFacts
  <2> QED
    BY <1>4, <1>7, <2>1
<1>14. ClipOk(e)
  BY <1>10, <1>11, <1>12, <1>13 DEF ClipOk
<1>15. ClipOk(AsText(e))
  <2>1. PICK c : c = AsText(e)
    OBVIOUS
  <2>2. c.copied = e.copied /\ c.display = e.copied /\ c.atoms = {}
    BY <2>1 DEF AsText
  <2> QED
    BY <1>12, <2>1, <2>2, FS_EmptySet DEF ClipOk
<1> QED
  BY <1>2, <1>14, <1>15

-----------------------------------------------------------------------------
(* Where movements, clicks and platforms point: at some offset.            *)

\* The greatest and the least of the offsets that are asked for.
LEMMA GreatestOffset ==
  ASSUME NEW n \in Nat, NEW S, S \subseteq 0..n
  PROVE  Max({0} \cup S) \in 0..n
<1>1. PICK T : T = {0} \cup S
  OBVIOUS
<1>2. T \subseteq 0..n /\ T # {}
  BY <1>1
<1> QED
  BY <1>1, <1>2, MaxFacts

LEMMA LeastOffset ==
  ASSUME NEW n \in Nat, NEW S, S \subseteq 0..n
  PROVE  Min({n} \cup S) \in 0..n
<1>1. PICK T : T = {n} \cup S
  OBVIOUS
<1>2. T \subseteq 0..n /\ T \subseteq Nat /\ T # {}
  BY <1>1
<1> QED
  BY <1>1, <1>2, MinFacts

\* Every movement ends at an offset of the text.
LEMMA Offset ==
  ASSUME NEW t, IsText(t), NEW at \in Nat
  PROVE  /\ PreviousGrapheme(t, at) \in Nat /\ NextGrapheme(t, at) \in Nat
         /\ PreviousWord(t, at) \in Nat /\ NextWord(t, at) \in Nat
         /\ LineEnd(t, at) \in Nat /\ (at <= Len(t) => LineStart(t, at) \in Nat)
<1>1. PICK n \in Nat : n = Len(t)
  BY TextFacts
<1>2. GraphemeStarts(t) \subseteq 0..n
  BY <1>1, EdgeFacts DEF GraphemeStarts
<1>3. WordStarts(t) \subseteq 0..n
  BY <1>2 DEF WordStarts
<1>4. PreviousGrapheme(t, at) \in 0..n
  <2>1. {i \in GraphemeStarts(t) : i < at} \subseteq 0..n
    BY <1>2
  <2> QED
    BY <2>1, GreatestOffset DEF PreviousGrapheme
<1>5. NextGrapheme(t, at) \in 0..n
  <2>1. {i \in GraphemeStarts(t) : i > at} \subseteq 0..n
    BY <1>2
  <2> QED
    BY <1>1, <2>1, LeastOffset DEF NextGrapheme
<1>6. PreviousWord(t, at) \in 0..n
  <2>1. {i \in WordStarts(t) : i < at /\ ~IsWhitespace(t, i)} \subseteq 0..n
    BY <1>3
  <2> QED
    BY <2>1, GreatestOffset DEF PreviousWord
<1>7. NextWord(t, at) \in 0..n
  <2>1. {i \in WordStarts(t) : i > at /\ ~IsWhitespace(t, i)} \subseteq 0..n
    BY <1>3
  <2> QED
    BY <1>1, <2>1, LeastOffset DEF NextWord
<1>8. LineEnd(t, at) \in 0..n
  <2>1. {i \in at..(Len(t) - 1) : t[i + 1] = Newline} \subseteq 0..n
    BY <1>1
  <2> QED
    BY <1>1, <2>1, LeastOffset DEF LineEnd
<1>9. ASSUME at <= Len(t) PROVE LineStart(t, at) \in 0..n
  <2>1. {i \in 1..at : t[i] = Newline} \subseteq 0..n
    BY <1>1, <1>9
  <2> QED
    BY <2>1, GreatestOffset DEF LineStart
<1> QED
  BY <1>4, <1>5, <1>6, <1>7, <1>8, <1>9

\* A double click's word, of a text that is not empty.
LEMMA WordGiven ==
  ASSUME NEW t, IsText(t), t # <<>>, NEW at \in Nat
  PROVE  Given(WordRange(t, at))
<1>1. PICK n \in Nat : n = Len(t) /\ t \in Seq(Byte)
  BY TextFacts
<1>2. n > 0
  BY <1>1
<1>3. GraphemeStarts(t) \subseteq 0..n /\ WordStarts(t) \subseteq 0..n
  <2>1. GraphemeStarts(t) \subseteq 0..n
    BY <1>1, EdgeFacts DEF GraphemeStarts
  <2> QED
    BY <2>1 DEF WordStarts
<1>4. 0 \in WordStarts(t)
  <2>1. 0 \in CharBoundaries(t)
    BY EdgeFacts DEF Edge
  <2>2. 0 \in GraphemeStarts(t)
    BY <1>1, <1>2, <2>1 DEF GraphemeStarts
  <2> QED
    BY <2>2 DEF WordStarts
<1>5. PICK offset : offset = IF at = Len(t) THEN PreviousGrapheme(t, at) ELSE at
  OBVIOUS
<1>6. offset \in Nat
  BY <1>5, Offset
<1>7. PICK start : start = WordAt(t, offset)
  OBVIOUS
<1>8. start \in Nat
  <2>1. PICK T : T = {i \in WordStarts(t) : i <= offset}
    OBVIOUS
  <2>2. T \subseteq 0..n /\ T # {}
    BY <1>3, <1>4, <1>6, <2>1
  <2>3. Max(T) \in T
    BY <2>2, MaxFacts
  <2> QED
    BY <1>7, <2>1, <2>2, <2>3 DEF WordAt
<1>9. WordEnd(t, start) \in Nat
  <2>1. {i \in WordStarts(t) : i > start} \subseteq 0..n
    BY <1>3
  <2>2. WordEnd(t, start) \in 0..n
    BY <1>1, <2>1, LeastOffset DEF WordEnd
  <2> QED
    BY <2>2
<1>10. WordRange(t, at) = Span(start, WordEnd(t, start))
  BY <1>5, <1>7 DEF WordRange, WordFrom
<1> QED
  BY <1>8, <1>9, <1>10, SpanFacts DEF Given

LEMMA Utf16Given ==
  ASSUME NEW t, IsText(t), NEW r, r = NoSpan \/ Given(r)
  PROVE  /\ SpanFromUtf16(t, r) = NoSpan \/ Given(SpanFromUtf16(t, r))
         /\ r # NoSpan => Given(SpanFromUtf16(t, r))
<1>1. PICK n \in Nat : n = Len(t)
  BY TextFacts
<1>2. ASSUME NEW offset PROVE FromUtf16(t, offset) \in Nat
  <2>1. PICK S : S = {i \in CharBoundaries(t) :
                       Cardinality({j \in CharBoundaries(t) : j < i}) >= offset}
    OBVIOUS
  <2>2. S \subseteq 0..n
    BY <1>1, <2>1, EdgeFacts
  <2>3. FromUtf16(t, offset) = Min({n} \cup S)
    BY <1>1, <2>1 DEF FromUtf16
  <2>4. Min({n} \cup S) \in 0..n
    BY <2>2, LeastOffset
  <2> QED
    BY <2>3, <2>4
<1> QED
  BY <1>2, SpanFacts DEF SpanFromUtf16, Given

LEMMA SnapGiven ==
  ASSUME NEW mode, NEW b, Sound(b, mode), NEW offset \in Nat, NEW affinity \in Affinities
  PROVE  Snap(b.text, b.atoms, offset, affinity) \in Nat
<1>1. PICK at : at = Clamp(b.text, offset)
  OBVIOUS
<1>2. IsText(b.text) /\ Row(b.atoms)
  BY DEF Sound
<1>3. at \in Nat
  BY <1>1, <1>2, ClampFacts, EdgeFacts, TextFacts DEF Edge
<1> QED
  BY <1>1, <1>2, <1>3, SnappedFacts DEF Snap

-----------------------------------------------------------------------------
(* Selections.                                                             *)

\* A buffer of the same text, sound like it.
Reselects(b, mode, c) == Sound(c, mode) /\ c.text = b.text

LEMMA SelectingSound ==
  ASSUME NEW mode, NEW b, Sound(b, mode), NEW range, Given(range), NEW reversed
  PROVE  Reselects(b, mode, Selecting(b, range, reversed))
<1>1. PICK s, c : s = Whole(range, b.text, b.atoms) /\ c = Selecting(b, range, reversed)
  OBVIOUS
<1>2. b = [text |-> b.text, selected |-> b.selected, reversed |-> b.reversed,
           marked |-> b.marked, atoms |-> b.atoms]
  BY DEF Sound
<1>3. c = [text |-> b.text, selected |-> s, reversed |-> reversed,
           marked |-> NoSpan, atoms |-> b.atoms]
  BY <1>1, <1>2 DEF Selecting
<1>4. /\ c.text = b.text /\ c.selected = s /\ c.marked = NoSpan /\ c.atoms = b.atoms
      /\ c = [text |-> c.text, selected |-> c.selected, reversed |-> c.reversed,
              marked |-> c.marked, atoms |-> c.atoms]
  BY <1>3
<1>5. Snug(s, b.text, b.atoms)
  BY <1>1, WholeIsSnug DEF Sound, Given
<1>6. Sound(c, mode)
  BY <1>4, <1>5 DEF Sound
<1> QED
  BY <1>1, <1>4, <1>6 DEF Reselects

LEMMA SoundEnds ==
  ASSUME NEW mode, NEW b, Sound(b, mode)
  PROVE  /\ b.selected.lo \in Nat /\ b.selected.hi \in Nat
         /\ Cursor(b) \in Nat /\ Cursor(b) <= Len(b.text) /\ IsText(b.text) /\ Given(b.selected)
<1>1. IsText(b.text) /\ Snug(b.selected, b.text, b.atoms)
  BY DEF Sound
<1>2. /\ b.selected.lo \in 0..Len(b.text) /\ b.selected.hi \in 0..Len(b.text)
      /\ Len(b.text) \in Nat
  BY <1>1, SnugFacts, TextFacts
<1> QED
  BY <1>1, <1>2 DEF Cursor, Given

LEMMA MovedToSound ==
  ASSUME NEW mode, NEW b, Sound(b, mode), NEW offset \in Nat
  PROVE  Reselects(b, mode, MovedTo(b, offset))
<1>1. PICK at : at = Snap(b.text, b.atoms, offset, "Nearest")
  OBVIOUS
<1>2. at \in Nat
  BY <1>1, SnapGiven DEF Affinities
<1>3. Given(Caret(at))
  BY <1>2, SpanFacts DEF Given
<1> QED
  BY <1>1, <1>3, SelectingSound DEF MovedTo

LEMMA ExtendedSound ==
  ASSUME NEW mode, NEW b, Sound(b, mode), NEW at \in Nat
  PROVE  Reselects(b, mode, Extended(b, at))
<1>1. PICK anchor, reversed :
        /\ anchor = IF b.reversed THEN b.selected.hi ELSE b.selected.lo
        /\ reversed = IF at = anchor THEN b.reversed ELSE at < anchor
  OBVIOUS
<1>2. anchor \in Nat
  BY <1>1, SoundEnds
<1>3. Given(Ordered(anchor, at))
  <2>1. PICK i, j : i = Lower(anchor, at) /\ j = Upper(anchor, at)
    OBVIOUS
  <2>2. i \in Nat /\ j \in Nat
    BY <1>2, <2>1 DEF Lower, Upper
  <2> QED
    BY <2>1, <2>2, SpanFacts DEF Ordered, Given
<1>4. Extended(b, at) = Selecting(b, Ordered(anchor, at), reversed)
  BY <1>1 DEF Extended
<1> QED
  BY <1>3, <1>4, SelectingSound

LEMMA SelectedToSound ==
  ASSUME NEW mode, NEW b, Sound(b, mode), NEW offset \in Nat
  PROVE  Reselects(b, mode, SelectedTo(b, offset))
<1>1. PICK at : at = Snap(b.text, b.atoms, offset, "Nearest")
  OBVIOUS
<1>2. at \in Nat
  BY <1>1, SnapGiven DEF Affinities
<1> QED
  BY <1>1, <1>2, ExtendedSound DEF SelectedTo

LEMMA ReachedGiven ==
  ASSUME NEW mode, NEW b, Sound(b, mode), NEW motion \in Motions
  PROVE  Reached(b, motion) \in Nat
<1>1. PICK t, at : t = b.text /\ at = Cursor(b)
  OBVIOUS
<1>2. IsText(t) /\ at \in Nat /\ at <= Len(t) /\ Len(t) \in Nat
  BY <1>1, SoundEnds, TextFacts
<1>3. /\ PreviousGrapheme(t, at) \in Nat /\ NextGrapheme(t, at) \in Nat
      /\ PreviousWord(t, at) \in Nat /\ NextWord(t, at) \in Nat
      /\ LineEnd(t, at) \in Nat /\ LineStart(t, at) \in Nat
  BY <1>2, Offset
<1>4. /\ Snap(t, b.atoms, PreviousGrapheme(t, at), "Backward") \in Nat
      /\ Snap(t, b.atoms, NextGrapheme(t, at), "Forward") \in Nat
      /\ Snap(t, b.atoms, PreviousWord(t, at), "Backward") \in Nat
      /\ Snap(t, b.atoms, NextWord(t, at), "Forward") \in Nat
  BY <1>1, <1>3, SnapGiven DEF Affinities
<1>5. \/ motion = "Left" \/ motion = "Right" \/ motion = "WordLeft" \/ motion = "WordRight"
      \/ motion = "Home" \/ motion = "End" \/ motion = "ToStart" \/ motion = "ToEnd"
  BY DEF Motions
<1> QED
  BY <1>1, <1>2, <1>3, <1>4, <1>5 DEF Reached

LEMMA MovedSound ==
  ASSUME NEW mode, NEW b, Sound(b, mode), NEW motion \in Motions
  PROVE  Reselects(b, mode, Moved(b, motion)) /\ Reselects(b, mode, SelectedTo(b, Reached(b, motion)))
<1>1. PICK at : at = CASE ~IsCaret(b.selected) /\ motion \in {"Left", "WordLeft"} -> b.selected.lo
                       [] ~IsCaret(b.selected) /\ motion \in {"Right", "WordRight"} -> b.selected.hi
                       [] OTHER -> Reached(b, motion)
  OBVIOUS
<1>2. b.selected.lo \in Nat /\ b.selected.hi \in Nat /\ Reached(b, motion) \in Nat
  BY SoundEnds, ReachedGiven
<1>3. at \in Nat
  BY <1>1, <1>2
<1>4. Moved(b, motion) = MovedTo(b, at)
  BY <1>1 DEF Moved
<1> QED
  BY <1>2, <1>3, <1>4, MovedToSound, SelectedToSound

LEMMA ClickedSound ==
  ASSUME NEW mode, NEW b, Sound(b, mode), NEW offset \in Nat, NEW clicks
  PROVE  Reselects(b, mode, Clicked(b, offset, clicks))
<1>1. PICK t, at : t = b.text /\ at = Clamp(b.text, offset)
  OBVIOUS
<1>2. IsText(t) /\ at \in Nat /\ at <= Len(t) /\ Len(t) \in Nat
  <2>1. IsText(t)
    BY <1>1 DEF Sound
  <2>2. at \in 0..Len(t) /\ Len(t) \in Nat
    BY <1>1, <2>1, ClampFacts, EdgeFacts, TextFacts DEF Edge
  <2> QED
    BY <2>1, <2>2
<1>3. CASE clicks = 1 \/ (clicks = 2 /\ t = <<>>)
  BY <1>1, <1>3, MovedToSound DEF Clicked
<1>4. CASE ~(clicks = 1 \/ (clicks = 2 /\ t = <<>>))
  <2>1. PICK r : r = IF clicks = 2 THEN WordRange(t, at) ELSE LineOf(t, at)
    OBVIOUS
  <2>2. Clicked(b, offset, clicks) = Selecting(b, r, FALSE)
    BY <1>1, <1>4, <2>1 DEF Clicked
  <2>3. Given(r)
    <3>1. CASE clicks = 2
      BY <1>2, <1>4, <2>1, <3>1, WordGiven
    <3>2. CASE clicks # 2
      <4>1. LineStart(t, at) \in Nat /\ LineEnd(t, at) \in Nat
        BY <1>2, Offset
      <4>2. r = Span(0, Len(t)) \/ r = Span(LineStart(t, at), LineEnd(t, at))
        BY <2>1, <3>2 DEF LineOf
      <4> QED
        BY <1>2, <4>1, <4>2, SpanFacts DEF Given
    <3> QED
      BY <3>1, <3>2
  <2> QED
    BY <2>2, <2>3, SelectingSound
<1> QED
  BY <1>3, <1>4

\* SetAtoms: atoms that are valid in the text take the place of those there were.
Reatomed(b, placed) ==
  [b EXCEPT !.atoms = placed, !.selected = Whole(@, b.text, placed),
            !.marked = WithoutAtoms(@, placed)]

LEMMA ReatomedSound ==
  ASSUME NEW mode, NEW b, Sound(b, mode), NEW placed, Row(placed), Edged(b.text, placed)
  PROVE  Reselects(b, mode, Reatomed(b, placed))
<1>1. PICK t, s, m, c :
        /\ t = b.text /\ s = Whole(b.selected, t, placed) /\ m = WithoutAtoms(b.marked, placed)
        /\ c = Reatomed(b, placed)
  OBVIOUS
<1>2. b = [text |-> b.text, selected |-> b.selected, reversed |-> b.reversed,
           marked |-> b.marked, atoms |-> b.atoms]
  BY DEF Sound
<1>3. c = [text |-> t, selected |-> s, reversed |-> b.reversed, marked |-> m, atoms |-> placed]
  BY <1>1, <1>2 DEF Reatomed
<1>4. /\ c.text = t /\ c.selected = s /\ c.marked = m /\ c.atoms = placed
      /\ c = [text |-> c.text, selected |-> c.selected, reversed |-> c.reversed,
              marked |-> c.marked, atoms |-> c.atoms]
  BY <1>3
<1>5. IsText(t) /\ Clean(t, mode) /\ Snug(b.selected, t, b.atoms) /\ Given(b.selected)
  BY <1>1, SoundEnds DEF Sound
<1>6. Snug(s, t, placed)
  BY <1>1, <1>5, WholeIsSnug DEF Given
<1>7. ASSUME m # NoSpan
      PROVE  EdgeSpan(t, m) /\ ~MeetsAtom(m, placed) /\ m.lo <= s.lo /\ s.hi <= m.hi
  <2>1. m = b.marked /\ ~MeetsAtom(m, placed)
    BY <1>1, <1>7 DEF WithoutAtoms
  <2>2. EdgeSpan(t, m) /\ m.lo <= b.selected.lo /\ b.selected.hi <= m.hi
    BY <1>1, <1>7, <2>1 DEF Sound
  <2>3. Given(m)
    BY <1>5, <2>2, NoSpanFacts
  <2>4. EdgeSpan(t, b.selected)
    BY <1>5 DEF Snug
  <2>5. Snug(b.selected, t, placed)
    BY <1>5, <2>1, <2>2, <2>3, <2>4, InsideUnmet DEF Given
  <2>6. s = b.selected
    BY <1>1, <1>5, <2>5, WholeIsSnug DEF Given
  <2> QED
    BY <2>1, <2>2, <2>6
<1>8. Sound(c, mode)
  BY <1>1, <1>4, <1>5, <1>6, <1>7 DEF Sound
<1> QED
  BY <1>1, <1>4, <1>8 DEF Reselects

LEMMA UnmarkedSound ==
  ASSUME NEW mode, NEW b, Sound(b, mode)
  PROVE  Reselects(b, mode, [b EXCEPT !.marked = NoSpan])
<1>1. PICK c : c = [b EXCEPT !.marked = NoSpan]
  OBVIOUS
<1>2. b = [text |-> b.text, selected |-> b.selected, reversed |-> b.reversed,
           marked |-> b.marked, atoms |-> b.atoms]
  BY DEF Sound
<1>3. c = [text |-> b.text, selected |-> b.selected, reversed |-> b.reversed,
           marked |-> NoSpan, atoms |-> b.atoms]
  BY <1>1, <1>2
<1>4. /\ c.text = b.text /\ c.selected = b.selected /\ c.marked = NoSpan /\ c.atoms = b.atoms
      /\ c = [text |-> c.text, selected |-> c.selected, reversed |-> c.reversed,
              marked |-> c.marked, atoms |-> c.atoms]
  BY <1>3
<1> QED
  BY <1>1, <1>4 DEF Sound, Reselects

-----------------------------------------------------------------------------
(* How a call may end.                                                     *)

\* A stack of sound snapshots within its limits.
Stacked(stack, mode) ==
  /\ stack \in Seq(ToSet(stack)) /\ \A b \in ToSet(stack) : Sound(b, mode)
  /\ Len(stack) <= UndoLimit /\ StackBytes(stack) <= UndoBytes

LEMMA StackOf ==
  ASSUME NEW mode, NEW A, \A b \in A : Sound(b, mode), NEW stack \in Seq(A),
         Len(stack) <= UndoLimit, StackBytes(stack) <= UndoBytes
  PROVE  Stacked(stack, mode)
<1>1. DOMAIN stack = 1..Len(stack) /\ stack = [i \in 1..Len(stack) |-> stack[i]] /\ Len(stack) \in Nat
  OBVIOUS
<1>2. PICK S : S = ToSet(stack)
  OBVIOUS
<1>3. S = {stack[i] : i \in 1..Len(stack)}
  BY <1>1, <1>2 DEF ToSet
<1>4. S \subseteq A /\ stack \in [1..Len(stack) -> S]
  BY <1>1, <1>3
<1>5. stack \in Seq(S)
  BY <1>1, <1>4
<1> QED
  BY <1>2, <1>4, <1>5 DEF Stacked

LEMMA StackedEmpty == ASSUME NEW mode PROVE Stacked(<<>>, mode)
<1>1. <<>> \in Seq({}) /\ Len(<<>>) = 0
  OBVIOUS
<1>2. StackBytes(<<>>) = 0
  <2>1. Weighs(<<>>, Bytes({})) = 0
    BY WeighsEmpty
  <2>2. StackBytes(<<>>) = Weighs(<<>>, Bytes({}))
    BY <1>1, StackWeighs
  <2> QED
    BY <2>1, <2>2
<1>3. Len(<<>>) <= UndoLimit /\ StackBytes(<<>>) <= UndoBytes
  BY <1>1, <1>2, LimitsAssumption
<1> QED
  BY <1>1, <1>3, StackOf

LEMMA StackedPushed ==
  ASSUME NEW mode, NEW stack, Stacked(stack, mode), NEW b, Sound(b, mode)
  PROVE  Stacked(Pushed(stack, b, UndoLimit, UndoBytes), mode)
<1>1. PICK S, A : S = ToSet(stack) /\ A = S \cup {b}
  OBVIOUS
<1>2. stack \in Seq(S) /\ \A c \in S : Sound(c, mode)
  BY <1>1 DEF Stacked
<1>3. stack \in Seq(A)
  <2>1. S \subseteq A
    BY <1>1
  <2> HIDE <1>1
  <2> QED
    BY <1>2, <2>1
<1>4. b \in A /\ \A c \in A : Sound(c, mode)
  BY <1>1, <1>2
<1>5. \A c \in A : SnapshotBytes(c) \in Nat
  BY <1>4, SnapshotBytesNat
<1>6. PICK p : p = Pushed(stack, b, UndoLimit, UndoBytes)
  OBVIOUS
<1>7. Len(stack) <= UndoLimit /\ StackBytes(stack) <= UndoBytes
  BY DEF Stacked
<1>8. p \in Seq(A) /\ Len(p) <= UndoLimit /\ StackBytes(p) <= UndoBytes
  BY <1>3, <1>4, <1>5, <1>6, <1>7, PushedFacts, LimitsAssumption
<1> QED
  BY <1>4, <1>6, <1>8, StackOf

LEMMA StackedFront ==
  ASSUME NEW mode, NEW stack, Stacked(stack, mode), stack # <<>>
  PROVE  Stacked(Front(stack), mode) /\ Sound(Last(stack), mode)
<1>1. PICK S, f : S = ToSet(stack) /\ f = Front(stack)
  OBVIOUS
<1>2. /\ stack \in Seq(S) /\ \A c \in S : Sound(c, mode)
      /\ Len(stack) <= UndoLimit /\ StackBytes(stack) <= UndoBytes
  BY <1>1 DEF Stacked
<1>3. \A c \in S : SnapshotBytes(c) \in Nat
  BY <1>2, SnapshotBytesNat
<1>4. /\ f \in Seq(S) /\ Last(stack) \in S
      /\ Len(f) <= Len(stack) /\ StackBytes(f) <= StackBytes(stack)
  BY <1>1, <1>2, <1>3, FrontFacts
<1>5. Len(f) \in Nat /\ Len(stack) \in Nat /\ StackBytes(f) \in Nat /\ StackBytes(stack) \in Nat
  <2>1. \A c \in S : Bytes(S)[c] \in Nat
    BY <1>3 DEF Bytes
  <2>2. Weighs(f, Bytes(S)) \in Nat /\ Weighs(stack, Bytes(S)) \in Nat
    BY <1>2, <1>4, <2>1, WeighsNat
  <2>3. StackBytes(f) = Weighs(f, Bytes(S)) /\ StackBytes(stack) = Weighs(stack, Bytes(S))
    BY <1>2, <1>4, StackWeighs
  <2> QED
    BY <1>2, <1>4, <2>2, <2>3
<1>6. Len(f) <= UndoLimit /\ StackBytes(f) <= UndoBytes
  BY <1>2, <1>4, <1>5, LimitsAssumption
<1> QED
  BY <1>1, <1>2, <1>4, <1>6, StackOf

\* The inductive invariant: what is kept is sound, within its limits and as the host
\* heard it, and the clipboard holds texts.
TextInv ==
  /\ setup \in Setups
  /\ Sound(buffer, setup.mode)
  /\ Stacked(undo, setup.mode) /\ Stacked(redo, setup.mode)
  /\ HostMirrors
  /\ ~TooLong(Len(buffer.text))
  /\ refused # None => TooLong(refused)
  /\ ClipOk(clip)

\* Nothing is taken; an edit is taken; a selection; another text or no history; a snapshot.
Stays == UNCHANGED content /\ (refused' # None => TooLong(refused'))
Agrees == Sound(buffer', setup.mode) /\ host' = Heard(buffer'.text, buffer') /\ refused' = None
Changes ==
  /\ Agrees /\ ~TooLong(Len(buffer'.text))
  /\ undo' = Pushed(undo, buffer, UndoLimit, UndoBytes) /\ redo' = <<>>
SelectsAnew == Agrees /\ buffer'.text = buffer.text /\ UNCHANGED <<undo, redo>>
Resets == Agrees /\ ~TooLong(Len(buffer'.text)) /\ undo' = <<>> /\ redo' = <<>>
GoesBack ==
  /\ Agrees /\ ~TooLong(Len(buffer'.text))
  /\ \/ /\ undo # <<>> /\ undo' = Front(undo)
        /\ redo' = Pushed(redo, buffer, UndoLimit, UndoBytes)
     \/ /\ redo # <<>> /\ redo' = Front(redo)
        /\ undo' = Pushed(undo, buffer, UndoLimit, UndoBytes)

Ends == Stays \/ Changes \/ SelectsAnew \/ Resets \/ GoesBack

\* However a call that leaves the limit ends, the invariant holds after it.
LEMMA EndsWell ==
  ASSUME TextInv, Ends, setup' = setup, limit' = limit, ClipOk(clip')
  PROVE  TextInv'
<1>1. \A bytes : TooLong(bytes)' <=> TooLong(bytes)
  BY DEF TooLong
<1>2. CASE Stays
  <2>1. buffer' = buffer /\ undo' = undo /\ redo' = redo /\ host' = host
    BY <1>2 DEF Stays, content
  <2>2. limit' = limit /\ (refused' # None => TooLong(refused'))
    BY <1>2 DEF Stays
  <2> QED
    BY <2>1, <2>2 DEF TextInv, HostMirrors, Sound, Stacked, TooLong
<1>3. CASE Agrees /\ ~TooLong(Len(buffer'.text)) /\ Stacked(undo', setup.mode) /\ Stacked(redo', setup.mode)
  BY <1>3 DEF Agrees, TextInv, HostMirrors, TooLong
<1>4. Stacked(undo, setup.mode) /\ Stacked(redo, setup.mode) /\ Sound(buffer, setup.mode)
  BY DEF TextInv
<1>5. CASE Changes
  BY <1>3, <1>4, <1>5, StackedPushed, StackedEmpty DEF Changes
<1>6. CASE SelectsAnew
  BY <1>3, <1>4, <1>6 DEF SelectsAnew, TextInv
<1>7. CASE Resets
  BY <1>3, <1>7, StackedEmpty DEF Resets
<1>8. CASE GoesBack
  BY <1>3, <1>4, <1>8, StackedPushed, StackedFront DEF GoesBack
<1> QED
  BY <1>2, <1>5, <1>6, <1>7, <1>8 DEF Ends

-----------------------------------------------------------------------------
(* Every call ends so.                                                     *)

LEMMA ModeFacts ==
  ASSUME TextInv
  PROVE  /\ setup.mode \in {"SingleLine", "Multiline"}
         /\ IsText(buffer.text) /\ Row(buffer.atoms) /\ Edged(buffer.text, buffer.atoms)
         /\ Sound(buffer, setup.mode)
  BY SetupsAssumption DEF TextInv, Sound

\* ApplyEdit, on a range that cuts no atom.
LEMMA ApplyEditEnds ==
  ASSUME TextInv, NEW r, Snug(r, buffer.text, buffer.atoms),
         NEW new, IsText(new), Clean(new, setup.mode), NEW selected, Given(selected), NEW inserted,
         Row(inserted),
         \A i \in 1..Len(inserted) : \E lo, hi : /\ inserted[i].lo = r.lo + lo /\ Edge(new, lo)
                                                 /\ inserted[i].hi = r.lo + hi /\ Edge(new, hi),
         NEW marked,
         \/ marked = NoSpan
         \/ /\ inserted = <<>> /\ marked = Span(r.lo, r.lo + Len(new))
            /\ \E c : EdgeSpan(new, c) /\ selected = Span(r.lo + c.lo, r.lo + c.hi),
         ApplyEdit(r, new, selected, marked, inserted)
  PROVE  Ends
<1>1. /\ IsText(buffer.text) /\ Row(buffer.atoms) /\ Edged(buffer.text, buffer.atoms)
      /\ Sound(buffer, setup.mode)
  BY ModeFacts
<1>2. r.lo \in Nat /\ r.hi \in Nat
  BY <1>1, SnugFacts
<1>3. Whole(r, buffer.text, buffer.atoms) = r
  BY <1>1, <1>2, WholeIsSnug
<1>4. PICK next : next = Edited(buffer, r, new, selected, marked, inserted)
  OBVIOUS
<1>5. Sound(next, setup.mode) /\ next.text = Spliced(buffer.text, r, new)
  BY <1>1, <1>4, EditedSound
<1>6. CASE TooLong(Len(next.text)) /\ Refuse(Len(next.text))
  BY <1>6 DEF Refuse, Ends, Stays
<1>7. CASE Keep
  BY <1>7 DEF Keep, Ends, Stays
<1>8. CASE /\ ~TooLong(Len(next.text))
           /\ buffer' = next
           /\ undo' = Pushed(undo, buffer, UndoLimit, UndoBytes)
           /\ redo' = <<>>
           /\ HearChange(r, new, next)
           /\ refused' = None
  <2>1. host.text = buffer.text
    BY DEF TextInv, HostMirrors, Heard
  <2>2. host' = Heard(next.text, next)
    BY <1>5, <1>8, <2>1 DEF HearChange, Spliced
  <2> QED
    BY <1>5, <1>8, <2>2 DEF Ends, Changes, Agrees
<1> QED
  BY <1>3, <1>4, <1>6, <1>7, <1>8 DEF ApplyEdit

\* The range an edit is of.
LEMMA ActiveRangeSnug ==
  ASSUME TextInv, NEW given, given = NoSpan \/ Given(given)
  PROVE  Snug(ActiveEditRange(buffer, given), buffer.text, buffer.atoms)
<1>1. /\ IsText(buffer.text) /\ Row(buffer.atoms) /\ Edged(buffer.text, buffer.atoms)
      /\ Sound(buffer, setup.mode)
  BY ModeFacts
<1>2. PICK range : range = IF given # NoSpan THEN given
                           ELSE IF buffer.marked # NoSpan THEN buffer.marked ELSE buffer.selected
  OBVIOUS
<1>3. Given(buffer.selected)
  BY <1>1, SoundEnds
<1>4. buffer.marked # NoSpan => Given(buffer.marked)
  BY <1>1, NoSpanFacts DEF Sound
<1>5. Given(range)
  BY <1>2, <1>3, <1>4
<1> QED
  BY <1>1, <1>2, <1>5, WholeIsSnug DEF ActiveEditRange, Given

\* Replace: whatever range, text and atoms are given.
LEMMA ReplaceEnds ==
  ASSUME TextInv, NEW given, given = NoSpan \/ Given(given), NEW text, IsText(text),
         NEW atoms, IsFiniteSet(atoms), \A a \in atoms : IsText(a.copy),
         Replace(given, text, atoms)
  PROVE  Ends
<1>1. PICK r, new : r = ActiveEditRange(buffer, given) /\ new = Normalized(text, setup.mode)
  OBVIOUS
<1>2. Snug(r, buffer.text, buffer.atoms)
  BY <1>1, ActiveRangeSnug
<1>3. IsText(new) /\ Clean(new, setup.mode)
  BY <1>1, NormalizedFacts
<1>4. IsText(buffer.text) /\ r.lo \in Nat /\ Len(new) \in Nat
  BY <1>2, <1>3, ModeFacts, SnugFacts, TextFacts
<1>5. CASE Keep
  BY <1>5 DEF Keep, Ends, Stays
<1>6. CASE \E bytes : TooLong(bytes) /\ Refuse(bytes)
  BY <1>6 DEF Refuse, Ends, Stays
<1>7. CASE /\ ValidSelectionAtoms(new, atoms)
           /\ ApplyEdit(r, new, Caret(r.lo + Len(new)), NoSpan, Placed(atoms, r.lo))
  <2>1. PICK inserted, selected : inserted = Placed(atoms, r.lo) /\ selected = Caret(r.lo + Len(new))
    OBVIOUS
  <2>2. ValidAtoms(new, atoms)
    BY <1>7 DEF ValidSelectionAtoms
  <2>3. /\ Row(Placed(atoms, r.lo))
        /\ \A i \in 1..Len(Placed(atoms, r.lo)) : \E a \in atoms :
             /\ Placed(atoms, r.lo)[i].lo = a.lo + r.lo /\ Placed(atoms, r.lo)[i].hi = a.hi + r.lo
             /\ Edge(new, a.lo) /\ Edge(new, a.hi)
    BY <1>3, <1>4, <2>2, PlacedFacts
  <2>4. Row(inserted)
    BY <2>1, <2>3
  <2>5. ASSUME NEW i \in 1..Len(inserted)
        PROVE  \E lo, hi : /\ inserted[i].lo = r.lo + lo /\ Edge(new, lo)
                           /\ inserted[i].hi = r.lo + hi /\ Edge(new, hi)
    <3>1. PICK a \in atoms :
            /\ inserted[i].lo = a.lo + r.lo /\ inserted[i].hi = a.hi + r.lo
            /\ Edge(new, a.lo) /\ Edge(new, a.hi)
      BY <2>1, <2>3
    <3>2. a.lo \in Int /\ a.hi \in Int
      BY <1>3, <3>1, EdgeFacts DEF Edge
    <3>3. a.lo + r.lo = r.lo + a.lo /\ a.hi + r.lo = r.lo + a.hi
      BY <1>4, <3>2
    <3> QED
      BY <3>1, <3>3
  <2>6. Given(selected)
    BY <1>4, <2>1, SpanFacts DEF Given
  <2>7. ApplyEdit(r, new, selected, NoSpan, inserted)
    BY <1>7, <2>1
  <2> QED
    BY <1>2, <1>3, <2>4, <2>5, <2>6, <2>7, ApplyEditEnds
<1>8. \/ Keep \/ (\E bytes : TooLong(bytes) /\ Refuse(bytes))
      \/ /\ ValidSelectionAtoms(new, atoms)
         /\ ApplyEdit(r, new, Caret(r.lo + Len(new)), NoSpan, Placed(atoms, r.lo))
  BY <1>1 DEF Replace, Admitted
<1> QED
  BY <1>5, <1>6, <1>7, <1>8

\* A selection is taken.
LEMMA TakeSelectionEnds ==
  ASSUME TextInv, NEW b, Reselects(buffer, setup.mode, b), TakeSelection(b)
  PROVE  Ends
<1>1. Sound(b, setup.mode) /\ b.text = buffer.text
  BY DEF Reselects
<1>2. host = Heard(buffer.text, buffer) /\ host.text = buffer.text
  BY DEF TextInv, HostMirrors, Heard
<1>3. host' = Heard(b.text, b)
  BY <1>1, <1>2 DEF TakeSelection
<1> QED
  BY <1>1, <1>3 DEF TakeSelection, Ends, SelectsAnew, Agrees

\* A snapshot is restored: the host hears that all of its text is replaced.
LEMMA RestoresEnds ==
  ASSUME TextInv
  PROVE  /\ undo # <<>> /\ Restores(undo, redo) => Ends
         /\ redo # <<>> /\ Restores(redo, undo) => Ends
<1>1. ASSUME NEW from, from # <<>>, Stacked(from, setup.mode)
      PROVE  /\ Sound(Last(from), setup.mode)
             /\ SubSeq(host.text, 1, 0) \o Last(from).text
                  \o SubSeq(host.text, Len(buffer.text) + 1, Len(host.text)) = Last(from).text
  <2>1. Sound(Last(from), setup.mode) /\ IsText(Last(from).text) /\ IsText(buffer.text)
    BY <1>1, StackedFront, ModeFacts DEF Sound
  <2>2. host.text = buffer.text
    BY DEF TextInv, HostMirrors, Heard
  <2>3. Spliced(buffer.text, Span(0, Len(buffer.text)), Last(from).text) = Last(from).text
    BY <2>1, AllReplaced
  <2> QED
    <3>1. PICK r, t : r = Span(0, Len(buffer.text)) /\ t = buffer.text
      OBVIOUS
    <3>2. r.lo = 0 /\ r.hi = Len(t)
      BY <3>1, SpanFacts
    <3>3. Spliced(t, r, Last(from).text)
            = SubSeq(t, 1, 0) \o Last(from).text \o SubSeq(t, Len(t) + 1, Len(t))
      BY <3>2 DEF Spliced
    <3> QED
      BY <2>1, <2>2, <2>3, <3>1, <3>3
<1>2. ASSUME NEW b, SubSeq(host.text, 1, 0) \o b.text
                      \o SubSeq(host.text, Len(buffer.text) + 1, Len(host.text)) = b.text,
             HearChange(Span(0, Len(buffer.text)), b.text, b)
      PROVE  host' = Heard(b.text, b)
  BY <1>2, SpanFacts DEF HearChange
<1>3. Stacked(undo, setup.mode) /\ Stacked(redo, setup.mode)
  BY DEF TextInv
<1>4. ASSUME undo # <<>>, Restores(undo, redo) PROVE Ends
  <2>1. CASE TooLong(Len(Last(undo).text))
    BY <1>4, <2>1 DEF Restores, Refuse, Ends, Stays
  <2>2. CASE ~TooLong(Len(Last(undo).text))
    BY <1>1, <1>2, <1>3, <1>4, <2>2 DEF Restores, Ends, GoesBack, Agrees
  <2> QED
    BY <2>1, <2>2
<1>5. ASSUME redo # <<>>, Restores(redo, undo) PROVE Ends
  <2>1. CASE TooLong(Len(Last(redo).text))
    BY <1>5, <2>1 DEF Restores, Refuse, Ends, Stays
  <2>2. CASE ~TooLong(Len(Last(redo).text))
    BY <1>1, <1>2, <1>3, <1>5, <2>2 DEF Restores, Ends, GoesBack, Agrees
  <2> QED
    BY <2>1, <2>2
<1> QED
  BY <1>4, <1>5

\* Everything a call may leave behind that the invariant speaks of.
Well == Ends /\ setup' = setup /\ limit' = limit /\ ClipOk(clip')

LEMMA InputFacts ==
  /\ \A text \in Inputs : IsText(text)
  /\ IsText(CopyText) /\ ClipOk(Clip)
  /\ \A range \in Ranges : range = NoSpan \/ Given(range)
  /\ \A range \in Ranges \ {NoSpan} : Given(range)
<1>1. ASSUME NEW range \in Ranges PROVE range = NoSpan \/ Given(range)
  <2>1. range = NoSpan \/ range \in [lo : Nat, hi : Nat]
    BY InputsAssumption
  <2> QED
    BY <2>1 DEF Given
<1>2. ClipOk(Clip)
  BY InputsAssumption DEF ClipOk
<1> QED
  BY <1>1, <1>2, InputsAssumption

\* A call that edits and leaves the clipboard alone.
LEMMA EditsWell ==
  ASSUME TextInv, Ends, Edits, UNCHANGED clip
  PROVE  Well
  BY DEF Edits, settings, Well, TextInv

\* The same of a call that selects.
LEMMA SelectsWell ==
  ASSUME TextInv, Ends, UNCHANGED <<setup, settings, clip>>
  PROVE  Well
  BY DEF settings, Well, TextInv

LEMMA KeepEnds == Keep => Ends
  BY DEF Keep, Ends, Stays

\* A text without atoms.
LEMMA ReplaceTextEnds ==
  ASSUME TextInv, NEW given, given = NoSpan \/ Given(given), NEW text, IsText(text),
         Replace(given, text, {})
  PROVE  Ends
<1>1. IsFiniteSet({}) /\ \A a \in {} : IsText(a.copy)
  BY FS_EmptySet
<1> QED
  BY <1>1, ReplaceEnds

LEMMA EraseWell ==
  ASSUME TextInv, NEW command \in Erasures, Erase(command)
  PROVE  Well
<1>1. PICK erased :
        /\ erased = IF HasActiveSelection(buffer) THEN NoSpan ELSE ErasedFrom(buffer, command)
        /\ IF erased # NoSpan /\ IsCaret(erased) THEN Keep ELSE Replace(erased, <<>>, {})
  BY DEF Erase
<1>2. erased = NoSpan \/ Given(erased)
  <2>1. PICK t, at : t = buffer.text /\ at = Cursor(buffer)
    OBVIOUS
  <2>2. IsText(t) /\ at \in Nat
    BY <2>1, ModeFacts, SoundEnds
  <2>3. /\ PreviousGrapheme(t, at) \in Nat /\ NextGrapheme(t, at) \in Nat
        /\ PreviousWord(t, at) \in Nat /\ NextWord(t, at) \in Nat
    BY <2>2, Offset
  <2>4. \/ command = "Backspace" \/ command = "Delete"
        \/ command = "DeleteWordBackward" \/ command = "DeleteWordForward"
    BY DEF Erasures
  <2>5. \/ ErasedFrom(buffer, command) = Span(PreviousGrapheme(t, at), at)
        \/ ErasedFrom(buffer, command) = Span(at, NextGrapheme(t, at))
        \/ ErasedFrom(buffer, command) = Span(PreviousWord(t, at), at)
        \/ ErasedFrom(buffer, command) = Span(at, NextWord(t, at))
    BY <2>1, <2>4 DEF ErasedFrom
  <2>6. Given(ErasedFrom(buffer, command))
    BY <2>2, <2>3, <2>5, SpanFacts DEF Given
  <2> QED
    BY <1>1, <2>6
<1>3. Ends
  BY <1>1, <1>2, ReplaceTextEnds, EmptyText, KeepEnds
<1> QED
  BY <1>3, EditsWell DEF Erase

LEMMA HostEditsWell ==
  ASSUME TextInv, NEW text \in Inputs
  PROVE  /\ ReplaceSelected(text) => Well
         /\ \A offset \in Nat : InsertTextAt(offset, text) => Well
<1>1. IsText(text)
  BY InputFacts
<1>2. ASSUME ReplaceSelected(text) PROVE Well
  <2>1. Ends
    BY <1>1, <1>2, ReplaceTextEnds DEF ReplaceSelected
  <2> QED
    BY <1>2, <2>1, EditsWell DEF ReplaceSelected
<1>3. ASSUME NEW offset \in Nat, InsertTextAt(offset, text) PROVE Well
  <2>1. Clamp(buffer.text, offset) \in Nat
    BY ModeFacts, ClampFacts, EdgeFacts, TextFacts DEF Edge
  <2>2. Given(Caret(Clamp(buffer.text, offset)))
    BY <2>1, SpanFacts DEF Given
  <2>3. Ends
    BY <1>1, <1>3, <2>2, ReplaceTextEnds DEF InsertTextAt
  <2> QED
    BY <1>3, <2>3, EditsWell DEF InsertTextAt
<1> QED
  BY <1>2, <1>3

LEMMA NewlineWell ==
  ASSUME TextInv, InsertNewline
  PROVE  Well
<1>1. IsText(<<Newline>>)
  <2>1. <<Newline>> \in Seq(Byte)
    <3>1. Newline \in Byte
      BY DEF Byte
    <3> QED
      BY <3>1
  <2>2. <<Newline>>[1] # TailByte
    BY DEF Newline, TailByte
  <2> QED
    BY <2>1, <2>2 DEF IsText
<1>2. Ends
  BY <1>1, ReplaceTextEnds, KeepEnds DEF InsertNewline
<1> QED
  BY <1>2, EditsWell DEF InsertNewline

LEMMA AtomEditsWell ==
  ASSUME TextInv
  PROVE  /\ \A given \in Ranges \ {NoSpan}, text \in Inputs, id \in AtomIds :
              ReplaceWithAtom(given, text, id) => Well
         /\ \A id : RemoveAtom(id) => Well
<1>1. ASSUME NEW given \in Ranges \ {NoSpan}, NEW text \in Inputs, NEW id \in AtomIds,
             ReplaceWithAtom(given, text, id)
      PROVE  Well
  <2>1. PICK a : a = AtomOver(Normalized(text, setup.mode), id)
    OBVIOUS
  <2>2. IsText(a.copy)
    BY <2>1, InputFacts DEF AtomOver
  <2>3. IsFiniteSet({a}) /\ \A x \in {a} : IsText(x.copy)
    BY <2>2, FS_Singleton
  <2>4. Replace(given, text, {a})
    BY <1>1, <2>1 DEF ReplaceWithAtom
  <2>5. Ends
    BY <2>3, <2>4, InputFacts, ReplaceEnds
  <2> QED
    BY <1>1, <2>5, EditsWell DEF ReplaceWithAtom
<1>2. ASSUME NEW id, RemoveAtom(id) PROVE Well
  <2>1. PICK named :
          /\ named = {i \in DOMAIN buffer.atoms : buffer.atoms[i].id = id}
          /\ IF named = {} THEN Keep
             ELSE Replace(Span(buffer.atoms[Min(named)].lo, buffer.atoms[Min(named)].hi), <<>>, {})
    BY <1>2 DEF RemoveAtom
  <2>2. CASE named = {}
    BY <1>2, <2>1, <2>2, KeepEnds, EditsWell DEF RemoveAtom
  <2>3. CASE named # {}
    <3>1. Row(buffer.atoms) /\ DOMAIN buffer.atoms = 1..Len(buffer.atoms) /\ Len(buffer.atoms) \in Nat
      BY ModeFacts, RowFacts
    <3>2. named \subseteq Nat
      BY <2>1, <3>1
    <3>3. PICK i \in 1..Len(buffer.atoms) : i = Min(named)
      BY <2>1, <2>3, <3>1, <3>2, MinFacts
    <3>4. buffer.atoms[i].lo \in Nat /\ buffer.atoms[i].hi \in Nat
      BY <3>1, RowFacts
    <3>5. Given(Span(buffer.atoms[i].lo, buffer.atoms[i].hi))
      BY <3>4, SpanFacts DEF Given
    <3>6. Ends
      BY <2>1, <2>3, <3>3, <3>5, ReplaceTextEnds, EmptyText
    <3> QED
      BY <1>2, <3>6, EditsWell DEF RemoveAtom
  <2> QED
    BY <2>2, <2>3
<1> QED
  BY <1>1, <1>2

LEMMA ClipboardWell ==
  ASSUME TextInv
  PROVE  CutExport \/ Cut \/ Copy \/ Paste \/ PasteExport => Well
<1>1. ClipOk(clip)
  BY DEF TextInv
<1>2. ClipOk(Selection) /\ ClipOk(AsText(Selection))
  <2>1. Sound(buffer, setup.mode) /\ Given(buffer.selected)
    BY ModeFacts, SoundEnds
  <2> QED
    BY <2>1, ExportedFacts DEF Selection
<1>3. Replace(NoSpan, <<>>, {}) => Ends
  BY ReplaceTextEnds, EmptyText
<1>4. ASSUME CutExport PROVE Well
  <2>1. clip' = clip \/ clip' = Selection
    BY <1>4 DEF CutExport
  <2>2. Ends
    BY <1>3, <1>4, KeepEnds DEF CutExport
  <2> QED
    BY <1>1, <1>2, <1>4, <2>1, <2>2 DEF CutExport, Edits, settings, Well
<1>5. ASSUME Cut PROVE Well
  <2>1. clip' = clip \/ clip' = AsText(Selection)
    BY <1>5 DEF Cut
  <2>2. Ends
    BY <1>3, <1>5, KeepEnds DEF Cut
  <2> QED
    BY <1>1, <1>2, <1>5, <2>1, <2>2 DEF Cut, Edits, settings, Well
<1>6. ASSUME Copy PROVE Well
  <2>1. clip' = AsText(Selection) /\ Keep
    BY <1>6 DEF Copy
  <2> QED
    BY <1>2, <1>6, <2>1, KeepEnds DEF Copy, settings, Well
<1>7. ASSUME Paste PROVE Well
  <2>1. Ends
    BY <1>1, <1>7, ReplaceTextEnds DEF Paste, ClipOk
  <2> QED
    BY <1>7, <2>1, EditsWell DEF Paste
<1>8. ASSUME PasteExport PROVE Well
  <2>1. Ends
    BY <1>1, <1>8, ReplaceEnds DEF PasteExport, ClipOk
  <2> QED
    BY <1>8, <2>1, EditsWell DEF PasteExport
<1> QED
  BY <1>4, <1>5, <1>6, <1>7, <1>8

\* The platform's input method.
LEMMA ImeWell ==
  ASSUME TextInv, NEW given \in Ranges, NEW text \in Inputs, ImeReplace(given, text)
  PROVE  Well
<1>1. IsText(text) /\ IsText(buffer.text) /\ (given = NoSpan \/ Given(given))
  BY InputFacts, ModeFacts
<1>2. SpanFromUtf16(buffer.text, given) = NoSpan \/ Given(SpanFromUtf16(buffer.text, given))
  BY <1>1, Utf16Given
<1>3. Ends
  BY <1>1, <1>2, ReplaceTextEnds, KeepEnds DEF ImeReplace
<1> QED
  BY <1>3, EditsWell DEF ImeReplace

LEMMA ComposeWell ==
  ASSUME TextInv, NEW given \in Ranges, NEW chosen \in Ranges, NEW text \in Inputs,
         Compose(given, text, chosen)
  PROVE  Well
<1>1. /\ IsText(text) /\ IsText(buffer.text)
      /\ given = NoSpan \/ Given(given)
      /\ chosen = NoSpan \/ Given(chosen)
  BY InputFacts, ModeFacts
<1>2. PICK range, r, new, c, selected, marked :
        /\ range = SpanFromUtf16(buffer.text, given) /\ r = ActiveEditRange(buffer, range)
        /\ new = Normalized(text, setup.mode)
        /\ c = IF chosen = NoSpan THEN Caret(Len(new)) ELSE Clamped(new, SpanFromUtf16(text, chosen))
        /\ selected = ChosenIn(r, c)
        /\ marked = IF new = <<>> THEN NoSpan ELSE Span(r.lo, r.lo + Len(new))
  OBVIOUS
<1>3. range = NoSpan \/ Given(range)
  BY <1>1, <1>2, Utf16Given
<1>4. Snug(r, buffer.text, buffer.atoms)
  BY <1>2, <1>3, ActiveRangeSnug
<1>5. IsText(new) /\ Clean(new, setup.mode)
  BY <1>1, <1>2, NormalizedFacts
<1>6. r.lo \in Nat /\ Len(new) \in Nat
  BY <1>1, <1>4, <1>5, SnugFacts, TextFacts
<1>7. EdgeSpan(new, c)
  <2>1. CASE chosen = NoSpan
    <3>1. c.lo = Len(new) /\ c.hi = Len(new) /\ c = Span(c.lo, c.hi)
      BY <1>2, <2>1, SpanFacts
    <3>2. Edge(new, Len(new)) /\ Len(new) <= Len(new)
      BY <1>5, <1>6, EdgeFacts
    <3> QED
      BY <3>1, <3>2 DEF EdgeSpan
  <2>2. CASE chosen # NoSpan
    <3>1. Given(SpanFromUtf16(text, chosen))
      BY <1>1, <2>2, Utf16Given
    <3> QED
      BY <1>2, <1>5, <2>2, <3>1, ClampedFacts DEF Given
  <2> QED
    BY <2>1, <2>2
<1>8. selected = Span(r.lo + c.lo, r.lo + c.hi) /\ Given(selected)
  <2>1. c.lo \in Nat /\ c.hi \in Nat
    BY <1>5, <1>7, EdgeSpanFacts
  <2>2. selected = Span(r.lo + c.lo, r.lo + c.hi)
    BY <1>2 DEF ChosenIn
  <2>3. r.lo + c.lo \in Nat /\ r.lo + c.hi \in Nat
    BY <1>6, <2>1
  <2> QED
    BY <2>2, <2>3, SpanFacts DEF Given
<1>9. CASE Keep
  BY <1>9, KeepEnds, EditsWell DEF Compose
<1>10. CASE \E bytes : TooLong(bytes) /\ Refuse(bytes)
  <2>1. Ends
    BY <1>10 DEF Refuse, Ends, Stays
  <2> QED
    BY <2>1, EditsWell DEF Compose
<1>11. CASE ApplyEdit(r, new, selected, marked, <<>>)
  <2>1. Row(<<>>) /\ \A i \in 1..Len(<<>>) : FALSE
    BY EmptyRow
  <2>2. \/ marked = NoSpan
        \/ /\ <<>> = <<>> /\ marked = Span(r.lo, r.lo + Len(new))
           /\ \E d : EdgeSpan(new, d) /\ selected = Span(r.lo + d.lo, r.lo + d.hi)
    BY <1>2, <1>7, <1>8
  <2>3. Ends
    BY <1>4, <1>5, <1>8, <1>11, <2>1, <2>2, ApplyEditEnds
  <2> QED
    BY <2>3, EditsWell DEF Compose
<1>12. \/ Keep \/ (\E bytes : TooLong(bytes) /\ Refuse(bytes))
       \/ ApplyEdit(r, new, selected, marked, <<>>)
  <2>1. CASE readOnly
    BY <2>1 DEF Compose
  <2>2. CASE ~readOnly
    <3>1. Admitted(r, text, ApplyEdit(r, new, selected, marked, <<>>))
      BY <1>2, <2>2 DEF Compose
    <3> QED
      BY <3>1 DEF Admitted
  <2> QED
    BY <2>1, <2>2
<1> QED
  BY <1>9, <1>10, <1>11, <1>12

LEMMA SelectionWell ==
  ASSUME TextInv
  PROVE  /\ \A motion \in Motions : Move(motion) \/ Extend(motion) => Well
         /\ \A offset \in Offsets :
              /\ \A direction \in {"Up", "Down"}, extend \in BOOLEAN :
                   MoveVertically(offset, direction, extend) => Well
              /\ \A clicks \in 1..3, shift \in BOOLEAN : MouseDown(offset, clicks, shift) => Well
              /\ Drag(offset) => Well
         /\ \A range \in Ranges \ {NoSpan}, reversed \in BOOLEAN : SetSelection(range, reversed) => Well
         /\ SelectAll \/ Unmark \/ MouseUp => Well
<1> DEFINE b == buffer
           mode == setup.mode
<1>1. Sound(b, mode) /\ Given(b.selected) /\ Len(b.text) \in Nat
  BY ModeFacts, SoundEnds, TextFacts
<1>2. \A offset \in Offsets : offset \in Nat
  BY <1>1 DEF Offsets
<1>3. ASSUME NEW c, Reselects(b, mode, c), TakeSelection(c), UNCHANGED <<setup, settings, clip>>
      PROVE  Well
  BY <1>3, TakeSelectionEnds, SelectsWell
<1>4. \A c : Reselects(b, mode, c) /\ TakeSelection(c) /\ Selects => Well
  BY <1>3 DEF Selects
<1>5. ASSUME NEW motion \in Motions, Move(motion) \/ Extend(motion) PROVE Well
  BY <1>1, <1>4, <1>5, MovedSound DEF Move, Extend
<1>6. ASSUME NEW offset \in Offsets, NEW direction \in {"Up", "Down"}, NEW extend \in BOOLEAN,
             MoveVertically(offset, direction, extend)
      PROVE  Well
  <2>1. PICK at : at = CASE IsCaret(b.selected) -> offset
                         [] ~IsCaret(b.selected) /\ direction = "Up" -> b.selected.lo
                         [] ~IsCaret(b.selected) /\ direction = "Down" -> b.selected.hi
    OBVIOUS
  <2>2. at \in Nat /\ offset \in Nat
    BY <1>1, <1>2, <2>1 DEF Given
  <2>3. Reselects(b, mode, SelectedTo(b, offset)) /\ Reselects(b, mode, MovedTo(b, at))
    BY <1>1, <2>2, SelectedToSound, MovedToSound
  <2>4. TakeSelection(IF extend THEN SelectedTo(b, offset) ELSE MovedTo(b, at)) /\ Selects
    BY <1>6, <2>1 DEF MoveVertically
  <2>5. TakeSelection(SelectedTo(b, offset)) \/ TakeSelection(MovedTo(b, at))
    BY <2>4
  <2> QED
    BY <1>4, <2>3, <2>4, <2>5
<1>7. ASSUME NEW range, Given(range), NEW reversed, SetSelection(range, reversed) PROVE Well
  BY <1>1, <1>4, <1>7, SelectingSound DEF SetSelection
<1>8. ASSUME SelectAll PROVE Well
  <2>1. Given(Span(0, Len(b.text)))
    BY <1>1, SpanFacts DEF Given
  <2> QED
    BY <1>7, <1>8, <2>1 DEF SelectAll
<1>9. ASSUME NEW offset \in Offsets, NEW clicks \in 1..3, NEW shift \in BOOLEAN,
             MouseDown(offset, clicks, shift)
      PROVE  Well
  <2>1. UNCHANGED <<setup, settings, clip>>
    BY <1>9 DEF MouseDown
  <2>2. CASE Keep
    BY <2>1, <2>2, KeepEnds, SelectsWell
  <2>3. CASE TakeSelection(IF shift THEN SelectedTo(b, offset) ELSE Clicked(b, offset, clicks))
    <3>1. Reselects(b, mode, SelectedTo(b, offset)) /\ Reselects(b, mode, Clicked(b, offset, clicks))
      BY <1>1, <1>2, SelectedToSound, ClickedSound
    <3>2. TakeSelection(SelectedTo(b, offset)) \/ TakeSelection(Clicked(b, offset, clicks))
      BY <2>3
    <3> QED
      BY <1>3, <2>1, <3>1, <3>2
  <2> QED
    BY <1>9, <2>2, <2>3 DEF MouseDown
<1>10. ASSUME NEW offset \in Offsets, Drag(offset) PROVE Well
  BY <1>1, <1>2, <1>4, <1>10, SelectedToSound DEF Drag
<1>11. ASSUME Unmark PROVE Well
  BY <1>1, <1>3, <1>11, UnmarkedSound DEF Unmark
<1>12. ASSUME MouseUp PROVE Well
  BY <1>12, KeepEnds, SelectsWell DEF MouseUp
<1> QED
  BY <1>5, <1>6, <1>7, <1>8, <1>9, <1>10, <1>11, <1>12, InputFacts

\* A fresh buffer, with atoms.
NewWith(t, atoms) ==
  [text |-> t, selected |-> Caret(Len(t)), reversed |-> FALSE, marked |-> NoSpan,
   atoms |-> atoms]

LEMMA NewBufferSound ==
  ASSUME NEW mode, NEW t, IsText(t), Clean(t, mode), NEW atoms, Row(atoms), Edged(t, atoms)
  PROVE  /\ Sound(NewWith(t, atoms), mode) /\ NewWith(t, atoms).text = t
<1>1. PICK b : b = NewWith(t, atoms)
  OBVIOUS
<1>2. b = [text |-> t, selected |-> Caret(Len(t)), reversed |-> FALSE, marked |-> NoSpan, atoms |-> atoms]
  BY <1>1 DEF NewWith
<1>3. /\ b.text = t /\ b.selected = Caret(Len(t)) /\ b.marked = NoSpan /\ b.atoms = atoms
      /\ b = [text |-> b.text, selected |-> b.selected, reversed |-> b.reversed,
              marked |-> b.marked, atoms |-> b.atoms]
  BY <1>2
<1>4. Snug(Caret(Len(t)), t, atoms)
  <2>1. PICK r : r = Caret(Len(t))
    OBVIOUS
  <2>2. r.lo = Len(t) /\ r.hi = Len(t) /\ r = Span(r.lo, r.hi) /\ Len(t) \in Nat /\ Edge(t, Len(t))
    BY <2>1, SpanFacts, TextFacts, EdgeFacts
  <2>3. ASSUME NEW i \in 1..Len(atoms) PROVE ~(atoms[i].lo < Len(t) /\ Len(t) < atoms[i].hi)
    <3>1. Edge(t, atoms[i].hi)
      BY DEF Edged
    <3>2. atoms[i].hi \in 0..Len(t)
      BY <3>1, EdgeFacts DEF Edge
    <3> QED
      BY <2>2, <3>2
  <2> QED
    BY <2>1, <2>2, <2>3 DEF Snug, EdgeSpan, Outside
<1>5. Sound(b, mode)
  BY <1>3, <1>4 DEF Sound
<1> QED
  BY <1>1, <1>3, <1>5

LEMMA FreshSound ==
  ASSUME NEW mode, NEW t, IsText(t), Clean(t, mode), NEW selectAll \in BOOLEAN
  PROVE  Sound(Fresh(t, selectAll), mode) /\ Fresh(t, selectAll).text = t
<1>1. Row(<<>>) /\ Edged(t, <<>>)
  BY EmptyRow DEF Edged
<1>2. NewBuffer(t) = NewWith(t, <<>>)
  BY DEF NewBuffer, NewWith
<1>3. Sound(NewBuffer(t), mode) /\ NewBuffer(t).text = t
  BY <1>1, <1>2, NewBufferSound
<1>4. Given(Span(0, Len(t)))
  BY TextFacts, SpanFacts DEF Given
<1>5. Reselects(NewBuffer(t), mode, Selecting(NewBuffer(t), Span(0, Len(t)), FALSE))
  BY <1>3, <1>4, SelectingSound
<1> QED
  BY <1>3, <1>5 DEF Fresh, Reselects

LEMMA SetTextWell ==
  ASSUME TextInv, NEW text \in Inputs, NEW selectAll \in BOOLEAN, SetText(text, selectAll)
  PROVE  Well
<1>1. PICK new : new = Normalized(text, setup.mode)
  OBVIOUS
<1>2. IsText(new) /\ Clean(new, setup.mode) /\ Len(new) = NormalizedBytes(text, setup.mode)
  BY <1>1, InputFacts, NormalizedFacts
<1>3. CASE TooLong(NormalizedBytes(text, setup.mode))
  <2>1. Ends
    BY <1>3 DEF SetText, Refuse, Ends, Stays
  <2> QED
    BY <2>1, EditsWell DEF SetText
<1>4. CASE ~TooLong(NormalizedBytes(text, setup.mode))
  <2>1. PICK next : next = Fresh(new, selectAll)
    OBVIOUS
  <2>2. /\ buffer' = next /\ undo' = <<>> /\ redo' = <<>> /\ refused' = None
        /\ host' = Heard(next.text, IF next = buffer THEN host ELSE next)
    BY <1>1, <1>4, <2>1 DEF SetText
  <2>3. Sound(next, setup.mode) /\ next.text = new
    BY <1>2, <2>1, FreshSound
  <2>4. host.selected = buffer.selected /\ host.reversed = buffer.reversed
    BY DEF TextInv, HostMirrors, Heard
  <2>5. host' = Heard(next.text, next)
    BY <2>2, <2>4 DEF Heard
  <2>6. Ends
    BY <1>2, <1>4, <2>2, <2>3, <2>5 DEF Ends, Resets, Agrees
  <2> QED
    BY <2>6, EditsWell DEF SetText
<1> QED
  BY <1>3, <1>4

LEMMA SetAtomsWell ==
  ASSUME TextInv, NEW atoms \in GivenAtoms, SetAtoms(atoms)
  PROVE  Well
<1>1. IsFiniteSet(atoms) /\ \A a \in atoms : IsText(a.copy)
  <2>1. CASE atoms = {}
    BY <2>1, FS_EmptySet
  <2>2. CASE atoms # {}
    <3>1. PICK id \in AtomIds, r \in Ranges \ {NoSpan} :
            atoms = {[id |-> id, lo |-> r.lo, hi |-> r.hi, copy |-> CopyText]}
      BY <2>2 DEF GivenAtoms
    <3>2. PICK a : a = [id |-> id, lo |-> r.lo, hi |-> r.hi, copy |-> CopyText]
      OBVIOUS
    <3>3. IsText(a.copy) /\ atoms = {a}
      BY <3>1, <3>2, InputFacts
    <3> QED
      BY <3>3, FS_Singleton
  <2> QED
    BY <2>1, <2>2
<1>2. PICK placed : placed = Placed(atoms, 0)
  OBVIOUS
<1>3. CASE ~ValidAtoms(buffer.text, atoms)
  BY <1>3, KeepEnds, EditsWell DEF SetAtoms
<1>4. CASE ValidAtoms(buffer.text, atoms)
  <2>1. IsText(buffer.text) /\ Sound(buffer, setup.mode) /\ 0 \in Nat
    BY ModeFacts
  <2>2. /\ Row(Placed(atoms, 0))
        /\ \A i \in 1..Len(Placed(atoms, 0)) : \E a \in atoms :
             /\ Placed(atoms, 0)[i].lo = a.lo + 0 /\ Placed(atoms, 0)[i].hi = a.hi + 0
             /\ Edge(buffer.text, a.lo) /\ Edge(buffer.text, a.hi)
    BY <1>1, <1>4, <2>1, PlacedFacts
  <2>3. Edged(buffer.text, placed)
    <3>1. ASSUME NEW i \in 1..Len(placed)
          PROVE  Edge(buffer.text, placed[i].lo) /\ Edge(buffer.text, placed[i].hi)
      <4>1. PICK a \in atoms : /\ placed[i].lo = a.lo + 0 /\ placed[i].hi = a.hi + 0
                               /\ Edge(buffer.text, a.lo) /\ Edge(buffer.text, a.hi)
        BY <1>2, <2>2
      <4>2. a.lo \in Int /\ a.hi \in Int
        BY <2>1, <4>1, EdgeFacts DEF Edge
      <4> QED
        BY <4>1, <4>2
    <3> QED
      BY <3>1 DEF Edged
  <2>4. Reselects(buffer, setup.mode, Reatomed(buffer, placed))
    BY <1>2, <2>1, <2>2, <2>3, ReatomedSound
  <2>5. TakeSelection(Reatomed(buffer, placed))
    BY <1>2, <1>4 DEF SetAtoms, Reatomed
  <2>6. Ends
    BY <2>4, <2>5, TakeSelectionEnds
  <2> QED
    BY <2>6, EditsWell DEF SetAtoms
<1> QED
  BY <1>3, <1>4

LEMMA HistoryWell ==
  ASSUME TextInv
  PROVE  Undo \/ Redo \/ ClearHistory => Well
<1>1. ASSUME Undo \/ Redo PROVE Well
  <2>1. Ends
    BY <1>1, RestoresEnds DEF Undo, Redo
  <2> QED
    BY <1>1, <2>1, SelectsWell DEF Undo, Redo
<1>2. ASSUME ClearHistory PROVE Well
  <2>1. Ends
    BY <1>2 DEF ClearHistory, Ends, Resets, Agrees, TextInv, HostMirrors
  <2> QED
    BY <1>2, <2>1, SelectsWell DEF ClearHistory, Settings
<1> QED
  BY <1>1, <1>2

LEMMA SettingsWell ==
  ASSUME TextInv
  PROVE  SetReadOnly \/ SetEnabled => Well
<1>1. ASSUME SetReadOnly \/ SetEnabled PROVE Ends /\ setup' = setup /\ limit' = limit /\ clip' = clip
  BY <1>1, KeepEnds DEF SetReadOnly, SetEnabled, Settings
<1> QED
  BY <1>1 DEF Well, TextInv

\* A limit is set where the value is within it.
LEMMA SetLimitWell ==
  ASSUME TextInv, NEW bytes \in Limits, SetLimit(bytes)
  PROVE  TextInv'
<1>1. /\ buffer' = buffer /\ undo' = undo /\ redo' = redo /\ host' = host /\ refused' = None
      /\ setup' = setup /\ clip' = clip /\ limit' = bytes
      /\ bytes = NoLimit \/ Len(buffer.text) <= bytes
  BY DEF SetLimit, Keep, content, Settings
<1>2. Len(buffer.text) \in Nat /\ (bytes = NoLimit \/ bytes \in Nat)
  BY ModeFacts, TextFacts, InputsAssumption
<1>3. ~TooLong(Len(buffer.text))'
  BY <1>1, <1>2 DEF TooLong
<1> QED
  BY <1>1, <1>3 DEF TextInv, HostMirrors, Sound, Stacked

-----------------------------------------------------------------------------
(* The theorems.                                                           *)

LEMMA Initially == Init => TextInv
<1> SUFFICES ASSUME Init PROVE TextInv
  OBVIOUS
<1>1. PICK t, placed :
        t = Normalized(setup.text, setup.mode) /\ placed = Placed(setup.atoms, 0)
  OBVIOUS
<1>2. /\ setup \in Setups /\ buffer = [NewBuffer(t) EXCEPT !.atoms = placed]
      /\ undo = <<>> /\ redo = <<>> /\ limit = NoLimit /\ clip = Clip /\ refused = None
      /\ host = Heard(buffer.text, buffer)
  BY <1>1 DEF Init
<1>3. /\ IsText(setup.text) /\ IsFiniteSet(setup.atoms) /\ \A a \in setup.atoms : IsText(a.copy)
      /\ ValidAtoms(t, setup.atoms)
  BY <1>1, <1>2, SetupsAssumption
<1>4. IsText(t) /\ Clean(t, setup.mode)
  BY <1>1, <1>3, NormalizedFacts
<1>5. /\ Row(Placed(setup.atoms, 0))
      /\ \A i \in 1..Len(Placed(setup.atoms, 0)) : \E a \in setup.atoms :
           /\ Placed(setup.atoms, 0)[i].lo = a.lo + 0 /\ Placed(setup.atoms, 0)[i].hi = a.hi + 0
           /\ Edge(t, a.lo) /\ Edge(t, a.hi)
  BY <1>3, <1>4, PlacedFacts
<1>6. Edged(t, placed)
  <2>1. ASSUME NEW i \in 1..Len(placed) PROVE Edge(t, placed[i].lo) /\ Edge(t, placed[i].hi)
    <3>1. PICK a \in setup.atoms : /\ placed[i].lo = a.lo + 0 /\ placed[i].hi = a.hi + 0
                                   /\ Edge(t, a.lo) /\ Edge(t, a.hi)
      BY <1>1, <1>5
    <3>2. a.lo \in Int /\ a.hi \in Int
      BY <1>4, <3>1, EdgeFacts DEF Edge
    <3> QED
      BY <3>1, <3>2
  <2> QED
    BY <2>1 DEF Edged
<1>7. Sound(buffer, setup.mode)
  <2>1. buffer = NewWith(t, placed)
    BY <1>2 DEF NewBuffer, NewWith
  <2> QED
    BY <1>1, <1>4, <1>5, <1>6, <2>1, NewBufferSound
<1>8. ~TooLong(Len(buffer.text))
  BY <1>2 DEF TooLong
<1> QED
  BY <1>2, <1>7, <1>8, StackedEmpty, InputFacts DEF TextInv, HostMirrors

LEMMA NextKeeps == TextInv /\ [Next]_vars => TextInv'
<1> SUFFICES ASSUME TextInv, [Next]_vars PROVE TextInv'
  OBVIOUS
<1>1. Well => TextInv'
  BY EndsWell DEF Well
<1>2. CASE UNCHANGED vars
  <2>1. Stays /\ setup' = setup /\ limit' = limit /\ clip' = clip
    <3>1. refused' = refused /\ UNCHANGED content /\ setup' = setup /\ limit' = limit /\ clip' = clip
      BY <1>2 DEF vars, settings
    <3> QED
      BY <3>1 DEF Stays, TextInv
  <2> QED
    BY <2>1, EndsWell DEF Ends, TextInv
<1>3. CASE Next
  <2>1. \A offset \in Offsets : offset \in Nat
    BY ModeFacts, TextFacts DEF Offsets
  <2>2. CASE \E command \in Erasures : Erase(command)
    BY <1>1, <2>2, EraseWell
  <2>3. CASE InsertNewline
    BY <1>1, <2>3, NewlineWell
  <2>4. ASSUME NEW text \in Inputs,
               \/ ReplaceSelected(text)
               \/ \E offset \in Offsets : InsertTextAt(offset, text)
               \/ \E given \in Ranges : ImeReplace(given, text)
               \/ \E given, chosen \in Ranges : Compose(given, text, chosen)
               \/ \E given \in Ranges \ {NoSpan}, id \in AtomIds : ReplaceWithAtom(given, text, id)
               \/ \E selectAll \in BOOLEAN : SetText(text, selectAll)
        PROVE  TextInv'
    BY <1>1, <2>1, <2>4, HostEditsWell, ImeWell, ComposeWell, AtomEditsWell, SetTextWell
  <2>5. CASE \E atoms \in GivenAtoms : SetAtoms(atoms)
    BY <1>1, <2>5, SetAtomsWell
  <2>6. CASE \E id \in AtomIds : RemoveAtom(id)
    BY <1>1, <2>6, AtomEditsWell
  <2>7. CASE CutExport \/ Cut \/ Copy \/ Paste \/ PasteExport
    BY <1>1, <2>7, ClipboardWell
  <2>8. CASE Undo \/ Redo \/ ClearHistory
    BY <1>1, <2>8, HistoryWell
  <2>9. CASE \E motion \in Motions : Move(motion) \/ Extend(motion)
    BY <1>1, <2>9, SelectionWell
  <2>10. CASE \E offset \in Offsets, direction \in {"Up", "Down"}, extend \in BOOLEAN :
                MoveVertically(offset, direction, extend)
    BY <1>1, <2>10, SelectionWell
  <2>11. CASE \E range \in Ranges \ {NoSpan}, reversed \in BOOLEAN : SetSelection(range, reversed)
    BY <1>1, <2>11, SelectionWell
  <2>12. CASE \E offset \in Offsets, clicks \in 1..3, shift \in BOOLEAN :
                MouseDown(offset, clicks, shift)
    BY <1>1, <2>12, SelectionWell
  <2>13. CASE SelectAll \/ Unmark \/ MouseUp
    <3>1. SelectAll \/ Unmark \/ MouseUp => Well
      BY SelectionWell
    <3> QED
      BY <1>1, <2>13, <3>1
  <2>16. CASE \E offset \in Offsets : Drag(offset)
    BY <1>1, <2>16, SelectionWell
  <2>14. CASE \E bytes \in Limits : SetLimit(bytes)
    BY <2>14, SetLimitWell
  <2>15. CASE SetReadOnly \/ SetEnabled
    BY <1>1, <2>15, SettingsWell
  <2> QED
    BY <1>3, <2>2, <2>3, <2>4, <2>5, <2>6, <2>7, <2>8, <2>9, <2>10, <2>11, <2>12, <2>13,
       <2>14, <2>15, <2>16 DEF Next
<1> QED
  BY <1>2, <1>3

\* TextInvariant: whatever is called in whatever order, the value and every snapshot of it
\* are sound, the stacks within their limits, the value within its own, and the host as
\* told.
THEOREM TextInvariant == Spec => []TextInv
<1>1. Init => TextInv
  BY Initially
<1>2. TextInv /\ [Next]_vars => TextInv'
  BY NextKeeps
<1> QED
  BY <1>1, <1>2, PTL DEF Spec

\* What the invariant says of a buffer is what the property asks of it.
LEMMA SoundIsSound ==
  ASSUME NEW b, Sound(b, setup.mode)
  PROVE  SoundBuffer(b)
<1>1. /\ IsText(b.text) /\ Clean(b.text, setup.mode) /\ Row(b.atoms) /\ Edged(b.text, b.atoms)
      /\ Snug(b.selected, b.text, b.atoms)
      /\ b.marked # NoSpan =>
           /\ EdgeSpan(b.text, b.marked) /\ ~MeetsAtom(b.marked, b.atoms)
           /\ b.marked.lo <= b.selected.lo /\ b.selected.hi <= b.marked.hi
  BY DEF Sound
<1>2. Normalized(b.text, setup.mode) = b.text
  BY <1>1, NormalizedFacts
<1>3. /\ Len(b.atoms) \in Nat /\ ToSet(b.atoms) = {b.atoms[i] : i \in 1..Len(b.atoms)}
      /\ \A i \in 1..Len(b.atoms) :
           b.atoms[i].lo \in Nat /\ b.atoms[i].hi \in Nat /\ b.atoms[i].lo < b.atoms[i].hi
  BY <1>1, RowFacts
<1>4. \A i, j \in 1..Len(b.atoms) : i < j => b.atoms[i].hi <= b.atoms[j].lo
  BY <1>1 DEF Row
<1>5. ValidAtoms(b.text, ToSet(b.atoms))
  <2>1. ASSUME NEW i \in 1..Len(b.atoms)
        PROVE  /\ b.atoms[i].lo < b.atoms[i].hi
               /\ {b.atoms[i].lo, b.atoms[i].hi} \subseteq CharBoundaries(b.text)
    BY <1>1, <1>3 DEF Edged, Edge
  <2>2. ASSUME NEW i \in 1..Len(b.atoms), NEW j \in 1..Len(b.atoms), b.atoms[i] # b.atoms[j]
        PROVE  ~Meets(b.atoms[i], b.atoms[j])
    <3>1. i < j \/ j < i
      BY <1>3, <2>2
    <3>2. b.atoms[i].hi <= b.atoms[j].lo \/ b.atoms[j].hi <= b.atoms[i].lo
      BY <1>4, <3>1
    <3> QED
      BY <1>3, <3>2 DEF Meets
  <2> QED
    BY <1>3, <2>1, <2>2 DEF ValidAtoms
<1>6. \A i \in 1..(Len(b.atoms) - 1) : b.atoms[i].hi <= b.atoms[i + 1].lo
  BY <1>3, <1>4
<1>7. Whole(b.selected, b.text, b.atoms) = b.selected
  BY <1>1, SnugFacts, WholeIsSnug
<1>8. b.marked # NoSpan => Clamped(b.text, b.marked) = b.marked
  BY <1>1, EdgeSpanFacts, ClampedFacts
<1> QED
  BY <1>1, <1>2, <1>5, <1>6, <1>7, <1>8 DEF SoundBuffer

\* CoherentHolds: Coherent, for every text, atoms, range, limit and sequence of calls.
THEOREM CoherentHolds == Spec => []Coherent
<1>1. TextInv => Coherent
  <2> SUFFICES ASSUME TextInv PROVE Coherent
    OBVIOUS
  <2>1. ASSUME NEW stack, Stacked(stack, setup.mode), NEW i \in DOMAIN stack
        PROVE  SoundBuffer(stack[i])
    <3>1. stack[i] \in ToSet(stack)
      BY DEF ToSet
    <3> QED
      BY <2>1, <3>1, SoundIsSound DEF Stacked
  <2> QED
    BY <2>1, SoundIsSound DEF TextInv, Coherent
<1> QED
  BY <1>1, TextInvariant, PTL

\* WithinBoundsHolds: WithinBounds, for every limit.
THEOREM WithinBoundsHolds == Spec => []WithinBounds
<1>1. TextInv => WithinBounds
  BY DEF TextInv, WithinBounds, Stacked, TooLong
<1> QED
  BY <1>1, TextInvariant, PTL

\* HostMirrorsHolds: HostMirrors, whatever is edited, selected, undone or set.
THEOREM HostMirrorsHolds == Spec => []HostMirrors
<1>1. TextInv => HostMirrors
  BY DEF TextInv
<1> QED
  BY <1>1, TextInvariant, PTL

-----------------------------------------------------------------------------
(* Movements.                                                              *)

\* The grapheme or word before an offset is an edge before it, unless the text starts
\* there, and the one after it an edge after it.
LEMMA StepsMove ==
  ASSUME NEW t, IsText(t), NEW at \in 0..Len(t)
  PROVE  /\ \A p \in {PreviousGrapheme(t, at), PreviousWord(t, at)} :
              Edge(t, p) /\ (at = 0 \/ p < at)
         /\ \A p \in {NextGrapheme(t, at), NextWord(t, at)} :
              Edge(t, p) /\ (at = Len(t) \/ at < p)
<1>1. Len(t) \in Nat /\ at \in Nat
  BY TextFacts
<1>2. GraphemeStarts(t) \subseteq CharBoundaries(t) /\ WordStarts(t) \subseteq CharBoundaries(t)
  BY DEF GraphemeStarts, WordStarts
<1>3. CharBoundaries(t) \subseteq 0..Len(t) /\ 0 \in CharBoundaries(t) /\ Len(t) \in CharBoundaries(t)
  BY EdgeFacts DEF Edge
<1>4. ASSUME NEW S, S \subseteq CharBoundaries(t), \A i \in S : i < at
      PROVE  Edge(t, Max({0} \cup S)) /\ (at = 0 \/ Max({0} \cup S) < at)
  <2>1. PICK T : T = {0} \cup S
    OBVIOUS
  <2>2. T \subseteq 0..Len(t) /\ T # {}
    BY <1>3, <1>4, <2>1
  <2>3. Max(T) \in T
    BY <1>1, <2>2, MaxFacts
  <2>4. Max(T) \in CharBoundaries(t) /\ (at = 0 \/ Max(T) < at)
    BY <1>1, <1>3, <1>4, <2>1, <2>3
  <2> QED
    BY <2>1, <2>4 DEF Edge
<1>5. ASSUME NEW S, S \subseteq CharBoundaries(t), \A i \in S : i > at
      PROVE  Edge(t, Min({Len(t)} \cup S)) /\ (at = Len(t) \/ at < Min({Len(t)} \cup S))
  <2>1. PICK T : T = {Len(t)} \cup S
    OBVIOUS
  <2>2. T \subseteq Nat /\ T # {}
    BY <1>1, <1>3, <1>5, <2>1
  <2>3. Min(T) \in T
    BY <2>2, MinFacts
  <2>4. Min(T) \in CharBoundaries(t) /\ (at = Len(t) \/ at < Min(T))
    BY <1>1, <1>3, <1>5, <2>1, <2>3
  <2> QED
    BY <2>1, <2>4 DEF Edge
<1>6. PICK S1 : S1 = {i \in GraphemeStarts(t) : i < at}
  OBVIOUS
<1>7. PICK S2 : S2 = {i \in WordStarts(t) : i < at /\ ~IsWhitespace(t, i)}
  OBVIOUS
<1>8. PICK S3 : S3 = {i \in GraphemeStarts(t) : i > at}
  OBVIOUS
<1>9. PICK S4 : S4 = {i \in WordStarts(t) : i > at /\ ~IsWhitespace(t, i)}
  OBVIOUS
<1>10. /\ PreviousGrapheme(t, at) = Max({0} \cup S1) /\ PreviousWord(t, at) = Max({0} \cup S2)
       /\ NextGrapheme(t, at) = Min({Len(t)} \cup S3) /\ NextWord(t, at) = Min({Len(t)} \cup S4)
  BY <1>6, <1>7, <1>8, <1>9 DEF PreviousGrapheme, PreviousWord, NextGrapheme, NextWord
<1>11. /\ S1 \subseteq CharBoundaries(t) /\ (\A i \in S1 : i < at)
       /\ S2 \subseteq CharBoundaries(t) /\ (\A i \in S2 : i < at)
  BY <1>2, <1>6, <1>7
<1>12. /\ S3 \subseteq CharBoundaries(t) /\ (\A i \in S3 : i > at)
       /\ S4 \subseteq CharBoundaries(t) /\ (\A i \in S4 : i > at)
  BY <1>2, <1>8, <1>9
<1>13. /\ Edge(t, PreviousGrapheme(t, at)) /\ (at = 0 \/ PreviousGrapheme(t, at) < at)
       /\ Edge(t, PreviousWord(t, at)) /\ (at = 0 \/ PreviousWord(t, at) < at)
  BY <1>4, <1>10, <1>11
<1>14. /\ Edge(t, NextGrapheme(t, at)) /\ (at = Len(t) \/ at < NextGrapheme(t, at))
       /\ Edge(t, NextWord(t, at)) /\ (at = Len(t) \/ at < NextWord(t, at))
  BY <1>5, <1>10, <1>12
<1> QED
  BY <1>13, <1>14

\* An edge snapped out of its atom is an edge in no atom; one in no atom stays.
LEMMA SnapFacts ==
  ASSUME NEW t, IsText(t), NEW atoms, Row(atoms), Edged(t, atoms), NEW at, Edge(t, at),
         NEW affinity \in Affinities
  PROVE  LET snapped == Snap(t, atoms, at, affinity)
         IN /\ Edge(t, snapped) /\ Outside(atoms, snapped)
            /\ Outside(atoms, at) => snapped = at
            /\ affinity = "Backward" => snapped <= at
            /\ affinity = "Forward" => at <= snapped
<1>1. at \in Nat
  BY EdgeFacts, TextFacts DEF Edge
<1>2. Snap(t, atoms, at, affinity) = SnappedAt(atoms, at, affinity)
  BY <1>1, ClampFacts DEF Snap
<1>3. PICK snapped : snapped = SnappedAt(atoms, at, affinity)
  OBVIOUS
<1>4. /\ Outside(atoms, snapped)
      /\ Outside(atoms, at) => snapped = at
      /\ \/ snapped = at
         \/ \E i \in 1..Len(atoms) : snapped \in {atoms[i].lo, atoms[i].hi}
      /\ affinity = "Backward" => snapped <= at
      /\ affinity = "Forward" => at <= snapped
  BY <1>1, <1>3, SnappedFacts
<1>5. Edge(t, snapped)
  BY <1>4 DEF Edged
<1> QED
  BY <1>2, <1>3, <1>4, <1>5

Steps == {"Left", "WordLeft", "Right", "WordRight"}

\* Where a step reaches: on, unless there is no more text that way.
LEMMA ReachedOn ==
  ASSUME NEW mode, NEW b, Sound(b, mode), NEW motion \in Steps
  PROVE  LET at == Reached(b, motion)
         IN /\ Edge(b.text, at) /\ Outside(b.atoms, at)
            /\ IF motion \in {"Left", "WordLeft"} THEN Cursor(b) = 0 \/ at < Cursor(b)
               ELSE Cursor(b) = Len(b.text) \/ Cursor(b) < at
<1>1. IsText(b.text) /\ Row(b.atoms) /\ Edged(b.text, b.atoms) /\ Snug(b.selected, b.text, b.atoms)
  BY DEF Sound
<1>2. PICK t, atoms, cursor : t = b.text /\ atoms = b.atoms /\ cursor = Cursor(b)
  OBVIOUS
<1>3. cursor \in 0..Len(t) /\ cursor \in Nat /\ Len(t) \in Nat
  BY <1>1, <1>2, SnugFacts, TextFacts DEF Cursor
<1>4. PICK near, affinity : /\ near \in {PreviousGrapheme(t, cursor), PreviousWord(t, cursor),
                                         NextGrapheme(t, cursor), NextWord(t, cursor)}
                            /\ affinity \in {"Backward", "Forward"}
                            /\ Reached(b, motion) = Snap(t, atoms, near, affinity)
                            /\ motion \in {"Left", "WordLeft"} =>
                                 /\ affinity = "Backward"
                                 /\ near \in {PreviousGrapheme(t, cursor), PreviousWord(t, cursor)}
                            /\ motion \notin {"Left", "WordLeft"} =>
                                 /\ affinity = "Forward"
                                 /\ near \in {NextGrapheme(t, cursor), NextWord(t, cursor)}
  <2>1. CASE motion = "Left" BY <1>2, <2>1 DEF Reached
  <2>2. CASE motion = "WordLeft" BY <1>2, <2>2 DEF Reached
  <2>3. CASE motion = "Right" BY <1>2, <2>3 DEF Reached
  <2>4. CASE motion = "WordRight" BY <1>2, <2>4 DEF Reached
  <2> QED
    BY <2>1, <2>2, <2>3, <2>4 DEF Steps
<1>5. Edge(t, near) /\ near \in Nat
  <2>1. Edge(t, near)
    BY <1>1, <1>2, <1>3, <1>4, StepsMove
  <2> QED
    BY <1>1, <1>2, <1>3, <2>1, EdgeFacts DEF Edge
<1>6. IF motion \in {"Left", "WordLeft"} THEN cursor = 0 \/ near < cursor
      ELSE cursor = Len(t) \/ cursor < near
  BY <1>1, <1>2, <1>3, <1>4, StepsMove
<1>7. PICK at : at = Snap(t, atoms, near, affinity)
  OBVIOUS
<1>8. /\ Edge(t, at) /\ Outside(atoms, at)
      /\ affinity = "Backward" => at <= near
      /\ affinity = "Forward" => near <= at
  BY <1>1, <1>2, <1>4, <1>5, <1>7, SnapFacts DEF Affinities
<1>9. at \in Nat
  BY <1>1, <1>2, <1>3, <1>8, EdgeFacts DEF Edge
<1>10. IF motion \in {"Left", "WordLeft"} THEN cursor = 0 \/ at < cursor
       ELSE cursor = Len(t) \/ cursor < at
  BY <1>3, <1>4, <1>5, <1>6, <1>8, <1>9
<1> QED
  BY <1>2, <1>4, <1>7, <1>8, <1>10

\* The cursor goes where it is sent, if that is an edge in no atom.
LEMMA CursorGoes ==
  ASSUME NEW mode, NEW b, Sound(b, mode), NEW at, Edge(b.text, at), Outside(b.atoms, at)
  PROVE  Cursor(MovedTo(b, at)) = at /\ Cursor(SelectedTo(b, at)) = at
<1>1. /\ IsText(b.text) /\ Row(b.atoms) /\ Edged(b.text, b.atoms) /\ Snug(b.selected, b.text, b.atoms)
      /\ b = [text |-> b.text, selected |-> b.selected, reversed |-> b.reversed,
              marked |-> b.marked, atoms |-> b.atoms]
  BY DEF Sound
<1>2. at \in Nat
  BY <1>1, EdgeFacts, TextFacts DEF Edge
<1>3. Snap(b.text, b.atoms, at, "Nearest") = at
  BY <1>1, SnapFacts DEF Affinities
<1>4. ASSUME NEW r, Snug(r, b.text, b.atoms), NEW reversed
      PROVE  Cursor(Selecting(b, r, reversed)) = IF reversed THEN r.lo ELSE r.hi
  <2>1. Whole(r, b.text, b.atoms) = r
    BY <1>1, <1>4, WholeIsSnug, SnugFacts
  <2> QED
    BY <1>1, <2>1 DEF Selecting, Cursor
<1>5. Cursor(MovedTo(b, at)) = at
  <2>1. Snug(Caret(at), b.text, b.atoms)
    BY <1>2, SpanFacts DEF Snug, EdgeSpan
  <2>2. MovedTo(b, at) = Selecting(b, Caret(at), FALSE)
    BY <1>3 DEF MovedTo
  <2>3. PICK r : r = Caret(at)
    OBVIOUS
  <2>4. Cursor(Selecting(b, r, FALSE)) = r.hi
    BY <1>4, <2>1, <2>3
  <2> QED
    BY <2>2, <2>3, <2>4, SpanFacts
<1>6. PICK anchor : anchor = IF b.reversed THEN b.selected.hi ELSE b.selected.lo
  OBVIOUS
<1>7. Edge(b.text, anchor) /\ Outside(b.atoms, anchor) /\ anchor \in Nat
  BY <1>1, <1>6, SnugFacts DEF Snug, EdgeSpan
<1>8. PICK r : r = Ordered(anchor, at)
  OBVIOUS
<1>9. r = Span(Lower(anchor, at), Upper(anchor, at))
  BY <1>8 DEF Ordered
<1>10. r.lo = Lower(anchor, at) /\ r.hi = Upper(anchor, at)
  BY <1>9, SpanFacts
<1>11. Snug(r, b.text, b.atoms)
  BY <1>2, <1>7, <1>9, <1>10 DEF Snug, EdgeSpan, Lower, Upper
<1>12. PICK reversed : reversed = IF at = anchor THEN b.reversed ELSE at < anchor
  OBVIOUS
<1>13. Cursor(SelectedTo(b, at)) = IF reversed THEN r.lo ELSE r.hi
  BY <1>3, <1>4, <1>6, <1>8, <1>11, <1>12 DEF SelectedTo, Extended
<1>14. Cursor(SelectedTo(b, at)) = at
  <2>1. r.lo \in {at, anchor} /\ r.hi \in {at, anchor}
    BY <1>10 DEF Lower, Upper
  <2>2. CASE at = anchor
    BY <1>13, <2>1, <2>2
  <2>3. CASE at < anchor
    <3>1. at # anchor /\ (at < anchor) = TRUE /\ r.lo = at
      BY <1>2, <1>7, <1>10, <2>3 DEF Lower
    <3>2. reversed = TRUE
      BY <1>12, <3>1, Zenon
    <3> QED
      BY <1>13, <3>1, <3>2
  <2>4. CASE anchor < at
    <3>1. at # anchor /\ (at < anchor) = FALSE /\ r.hi = at
      BY <1>2, <1>7, <1>10, <2>4 DEF Upper
    <3>2. reversed = FALSE
      BY <1>12, <3>1, Zenon
    <3> QED
      BY <1>13, <3>1, <3>2
  <2> QED
    BY <1>2, <1>7, <2>2, <2>3, <2>4
<1> QED
  BY <1>5, <1>14

\* CaretAdvancesHolds: CaretAdvances, for every text and every atoms in it
\* (movement.rs, boundary.rs, atom.rs snap_offset_to_atoms).
THEOREM CaretAdvancesHolds == Spec => []CaretAdvances
<1>1. ASSUME TextInv, NEW motion \in Steps
      PROVE  LET left == motion \in {"Left", "WordLeft"}
                 before == Cursor(buffer)
                 advanced(b) == IF left THEN before = 0 \/ Cursor(b) < before
                                ELSE before = Len(b.text) \/ Cursor(b) > before
             IN /\ IsCaret(buffer.selected) => advanced(Moved(buffer, motion))
                /\ advanced(SelectedTo(buffer, Reached(buffer, motion)))
  <2>1. Sound(buffer, setup.mode)
    BY <1>1, ModeFacts
  <2>2. PICK at : at = Reached(buffer, motion)
    OBVIOUS
  <2>3. /\ Edge(buffer.text, at) /\ Outside(buffer.atoms, at)
        /\ IF motion \in {"Left", "WordLeft"} THEN Cursor(buffer) = 0 \/ at < Cursor(buffer)
           ELSE Cursor(buffer) = Len(buffer.text) \/ Cursor(buffer) < at
    BY <2>1, <2>2, ReachedOn
  <2>4. Cursor(MovedTo(buffer, at)) = at /\ Cursor(SelectedTo(buffer, at)) = at
    BY <2>1, <2>3, CursorGoes
  <2>5. IsCaret(buffer.selected) => Moved(buffer, motion) = MovedTo(buffer, at)
    BY <2>2 DEF Moved
  <2>6. SelectedTo(buffer, at).text = buffer.text /\ MovedTo(buffer, at).text = buffer.text
    <3>1. at \in Nat
      BY <2>1, <2>3, EdgeFacts, TextFacts DEF Sound, Edge
    <3> QED
      BY <2>1, <3>1, SelectedToSound, MovedToSound DEF Reselects
  <2>7. Cursor(buffer) \in Nat /\ at \in Nat
    BY <2>1, <2>3, SoundEnds, EdgeFacts, TextFacts DEF Edge
  <2> QED
    BY <2>2, <2>3, <2>4, <2>5, <2>6, <2>7
<1>2. TextInv => CaretAdvances
  BY <1>1 DEF CaretAdvances, Steps
<1> QED
  BY <1>2, TextInvariant, PTL

-----------------------------------------------------------------------------
(* Atoms outside an edit.                                                  *)

\* A side of a grown range is the range's own, or that of an atom the range meets.
FromMet(r, atoms, g, n) ==
  /\ g.lo = r.lo \/ \E k \in 1..n : g.lo = atoms[k].lo /\ Meets(r, atoms[k])
  /\ g.hi = r.hi \/ \E k \in 1..n : g.hi = atoms[k].hi /\ Meets(r, atoms[k])

LEMMA GrownFromMet ==
  ASSUME NEW t, IsText(t), NEW atoms, Row(atoms), NEW r, EdgeSpan(t, r),
         NEW g, GrownOf(g, r, atoms, Len(atoms))
  PROVE  FromMet(r, atoms, g[Len(atoms)], Len(atoms))
<1> DEFINE N == Len(atoms)
           T == {n \in Nat : n <= N => FromMet(r, atoms, g[n], n)}
<1>0. N \in Nat /\ r.lo \in Nat /\ r.hi \in Nat
  BY EdgeSpanFacts DEF Row
<1>1. 0 \in T
  <2>1. g[0] = r
    BY <1>0 DEF GrownOf
  <2> QED
    BY <2>1 DEF FromMet
<1>2. ASSUME NEW n \in Nat, n \in T PROVE n + 1 \in T
  <2> SUFFICES ASSUME n + 1 <= N PROVE FromMet(r, atoms, g[n + 1], n + 1)
    OBVIOUS
  <2>1. PICK h, j, a : h = g[n] /\ j = g[n + 1] /\ a = atoms[n + 1]
    OBVIOUS
  <2>2. j = Joined(h, a)
    BY <1>0, <2>1 DEF GrownOf
  <2>3. FromMet(r, atoms, h, n)
    BY <1>0, <1>2, <2>1
  <2>4. n + 1 \in 1..N /\ \A k \in 1..n : k \in 1..N /\ k \in 1..(n + 1) /\ k < n + 1
    BY <1>0
  <2>5. /\ a.lo \in Nat /\ a.hi \in Nat /\ a.lo < a.hi
        /\ \A k \in 1..n : /\ atoms[k].lo \in Nat /\ atoms[k].hi \in Nat
                           /\ atoms[k].lo < atoms[k].hi /\ atoms[k].hi <= a.lo
    BY <2>1, <2>4, RowFacts DEF Row
  <2>6. CASE ~Meets(h, a)
    <3>1. j = h
      BY <2>2, <2>6 DEF Joined
    <3> QED
      BY <2>1, <2>3, <2>4, <3>1 DEF FromMet
  <2>7. CASE Meets(h, a)
    <3>1. h.lo < a.hi /\ a.lo < h.hi
      BY <2>7 DEF Meets
    <3>2. h.lo \in Nat /\ h.hi \in Nat
      BY <1>0, <2>3, <2>5 DEF FromMet
    <3>3. h.hi = r.hi
      BY <2>3, <2>5, <3>1, <3>2 DEF FromMet
    <3>4. r.lo < a.hi
      <4>1. CASE h.lo = r.lo
        BY <3>1, <4>1
      <4>2. CASE h.lo # r.lo
        <5>1. PICK k \in 1..n : h.lo = atoms[k].lo /\ Meets(r, atoms[k])
          BY <2>3, <4>2 DEF FromMet
        <5> QED
          BY <1>0, <2>5, <5>1 DEF Meets
      <4> QED
        BY <4>1, <4>2
    <3>5. Meets(r, a)
      BY <3>1, <3>3, <3>4 DEF Meets
    <3>6. j.lo \in {h.lo, a.lo} /\ j.hi \in {h.hi, a.hi}
      BY <2>2, <2>5, <2>7, <3>2, LowerFacts, SpanFacts DEF Joined
    <3>7. j.lo = r.lo \/ \E k \in 1..(n + 1) : j.lo = atoms[k].lo /\ Meets(r, atoms[k])
      BY <2>1, <2>3, <2>4, <3>5, <3>6 DEF FromMet
    <3>8. j.hi = r.hi \/ \E k \in 1..(n + 1) : j.hi = atoms[k].hi /\ Meets(r, atoms[k])
      BY <2>1, <2>4, <3>3, <3>5, <3>6
    <3> QED
      BY <2>1, <3>7, <3>8 DEF FromMet
  <2> QED
    BY <2>6, <2>7
<1> HIDE DEF T
<1>3. Nat \subseteq T
  BY <1>1, <1>2, AllNaturals
<1> QED
  BY <1>0, <1>3 DEF T

\* A range that is made whole meets the atoms the range that was named does, and no other.
LEMMA WholeMeetsNamed ==
  ASSUME NEW t, IsText(t), NEW atoms, Row(atoms), Edged(t, atoms), NEW r, Given(r),
         NEW i \in 1..Len(atoms)
  PROVE  LET named == Clamped(t, r)
             whole == Whole(r, t, atoms)
         IN IsCaret(named) \/ ~Meets(named, atoms[i])
              <=> atoms[i].hi <= whole.lo \/ whole.hi <= atoms[i].lo
<1>1. PICK named, w, a : named = Clamped(t, r) /\ w = Whole(r, t, atoms) /\ a = atoms[i]
  OBVIOUS
<1>2. /\ EdgeSpan(t, named) /\ named.lo \in Nat /\ named.hi \in Nat /\ named.lo <= named.hi
  BY <1>1, ClampedFacts, EdgeSpanFacts DEF Given, EdgeSpan
<1>3. Snug(w, t, atoms) /\ w.lo \in Nat /\ w.hi \in Nat /\ w.lo <= w.hi
  BY <1>1, WholeIsSnug, SnugFacts DEF Given
<1>4. a.lo \in Nat /\ a.hi \in Nat /\ a.lo < a.hi
  BY <1>1, RowFacts
<1>5. ~(a.lo < w.lo /\ w.lo < a.hi) /\ ~(a.lo < w.hi /\ w.hi < a.hi)
  BY <1>1, <1>3 DEF Snug, Outside
<1>6. CASE IsCaret(named)
  <2>1. w = Caret(SnappedAt(atoms, named.lo, "Nearest"))
    BY <1>1, <1>6 DEF Whole, WholeOf
  <2>2. w.lo = w.hi
    BY <2>1, SpanFacts
  <2>3. a.hi <= w.lo \/ w.hi <= a.lo
    BY <1>3, <1>4, <1>5, <2>2
  <2> QED
    BY <1>1, <1>6, <2>3
<1>7. CASE ~IsCaret(named)
  <2>1. named.lo < named.hi
    BY <1>2, <1>7 DEF IsCaret
  <2>2. w = Expanded(named, t, atoms)
    BY <1>1, <1>7 DEF Whole, WholeOf
  <2>3. w.lo <= named.lo /\ named.hi <= w.hi
    BY <1>2, <2>1, <2>2, ExpandedFacts
  <2>4. PICK g : GrownOf(g, named, atoms, Len(atoms)) /\ w = Clamped(t, g[Len(atoms)])
    BY <2>2, ExpandedIsLast, RowFacts
  <2>5. PICK h : h = g[Len(atoms)]
    OBVIOUS
  <2>6. EdgeSpan(t, h)
    BY <1>2, <2>1, <2>4, <2>5, GrownFacts DEF GrownWell
  <2>7. w = h
    BY <2>4, <2>5, <2>6, ClampedFacts, EdgeSpanFacts
  <2>8. FromMet(named, atoms, w, Len(atoms))
    BY <1>2, <2>4, <2>5, <2>7, GrownFromMet
  <2>9. ASSUME Meets(named, a) PROVE ~(a.hi <= w.lo \/ w.hi <= a.lo)
    BY <1>2, <1>3, <1>4, <2>3, <2>9 DEF Meets
  <2>10. ASSUME ~Meets(named, a) PROVE a.hi <= w.lo \/ w.hi <= a.lo
    <3> SUFFICES ASSUME ~(a.hi <= w.lo \/ w.hi <= a.lo) PROVE FALSE
      OBVIOUS
    <3>1. w.lo <= a.lo /\ a.hi <= w.hi
      BY <1>3, <1>4, <1>5
    <3>2. a.hi <= named.lo \/ named.hi <= a.lo
      BY <1>2, <1>4, <2>10 DEF Meets
    <3>3. \A k \in 1..Len(atoms) :
            /\ atoms[k].lo \in Nat /\ atoms[k].hi \in Nat /\ atoms[k].lo < atoms[k].hi
            /\ k = i \/ atoms[k].hi <= a.lo \/ a.hi <= atoms[k].lo
      <4>1. ASSUME NEW k \in 1..Len(atoms), k # i
            PROVE  atoms[k].hi <= a.lo \/ a.hi <= atoms[k].lo
        <5>1. k < i \/ i < k
          BY <4>1, RowFacts
        <5> QED
          BY <1>1, <5>1 DEF Row
      <4> QED
        BY <4>1, RowFacts
    <3>4. CASE a.hi <= named.lo
      <4>1. w.lo # named.lo
        BY <1>2, <1>3, <1>4, <3>1, <3>4
      <4>2. PICK k \in 1..Len(atoms) : w.lo = atoms[k].lo /\ Meets(named, atoms[k])
        BY <2>8, <4>1 DEF FromMet
      <4>3. k # i
        BY <1>1, <2>10, <4>2
      <4> QED
        BY <1>2, <1>3, <1>4, <3>1, <3>3, <3>4, <4>2, <4>3 DEF Meets
    <3>5. CASE named.hi <= a.lo
      <4>1. w.hi # named.hi
        BY <1>2, <1>3, <1>4, <3>1, <3>5
      <4>2. PICK k \in 1..Len(atoms) : w.hi = atoms[k].hi /\ Meets(named, atoms[k])
        BY <2>8, <4>1 DEF FromMet
      <4>3. k # i
        BY <1>1, <2>10, <4>2
      <4> QED
        BY <1>2, <1>3, <1>4, <3>1, <3>3, <3>5, <4>2, <4>3 DEF Meets
    <3> QED
      BY <3>2, <3>4, <3>5
  <2> QED
    BY <1>1, <1>7, <2>9, <2>10
<1> QED
  BY <1>6, <1>7

\* The bytes of a text with a range of it replaced.
BytesOf(t, r, s, u) ==
  /\ \A i \in 1..r.lo : u[i] = t[i]
  /\ \A i \in 1..Len(s) : u[r.lo + i] = s[i]
  /\ \A i \in 1..(Len(t) - r.hi) : u[r.lo + Len(s) + i] = t[r.hi + i]

LEMMA SplicedBytes ==
  ASSUME NEW t, IsText(t), NEW r, EdgeSpan(t, r), NEW s, IsText(s)
  PROVE  BytesOf(t, r, s, Spliced(t, r, s))
<1>1. /\ r.lo \in 0..Len(t) /\ r.hi \in 0..Len(t) /\ Len(t) \in Nat /\ Len(s) \in Nat
      /\ r.lo <= r.hi /\ r.lo \in Nat /\ r.hi \in Nat /\ t \in Seq(Byte) /\ s \in Seq(Byte)
  BY EdgeSpanFacts, TextFacts DEF EdgeSpan
<1>2. PICK lo, hi, n : lo = r.lo /\ hi = r.hi /\ n = Len(t)
  OBVIOUS
<1>3. lo \in 0..n /\ hi \in 0..n /\ n \in Nat
  BY <1>1, <1>2
<1>4. PICK x, z : x = SubSeq(t, 1, lo) /\ z = SubSeq(t, hi + 1, n)
  OBVIOUS
<1>5. x \in Seq(Byte) /\ Len(x) = lo /\ \A i \in 1..lo : x[i] = t[i]
  BY <1>1, <1>2, <1>3, <1>4
<1>6. z \in Seq(Byte) /\ Len(z) = n - hi /\ \A i \in 1..(n - hi) : z[i] = t[hi + i]
  BY <1>1, <1>2, <1>3, <1>4, SuffixFacts
<1>7. PICK v, u : v = x \o s /\ u = v \o z
  OBVIOUS
<1>8. Spliced(t, r, s) = u
  BY <1>2, <1>4, <1>7 DEF Spliced
<1>9. /\ v \in Seq(Byte) /\ Len(v) = lo + Len(s)
      /\ \A i \in 1..lo : v[i] = x[i]
      /\ \A i \in 1..Len(s) : v[lo + i] = s[i]
  <2>0. x \in Seq(Byte) /\ s \in Seq(Byte)
    BY <1>1, <1>5
  <2>1. /\ x \o s \in Seq(Byte) /\ Len(x \o s) = Len(x) + Len(s)
        /\ \A i \in 1..Len(x) : (x \o s)[i] = x[i]
        /\ \A i \in 1..Len(s) : (x \o s)[Len(x) + i] = s[i]
    BY <2>0
  <2>2. Len(x) = lo /\ x \o s = v
    BY <1>5, <1>7
  <2> HIDE <1>7
  <2> QED
    BY <2>1, <2>2
<1>10. /\ \A i \in 1..(lo + Len(s)) : u[i] = v[i]
       /\ \A i \in 1..(n - hi) : u[lo + Len(s) + i] = z[i]
  <2>0. v \in Seq(Byte) /\ z \in Seq(Byte)
    BY <1>6, <1>9
  <2>1. /\ \A i \in 1..Len(v) : (v \o z)[i] = v[i]
        /\ \A i \in 1..Len(z) : (v \o z)[Len(v) + i] = z[i]
    BY <2>0
  <2>2. Len(v) = lo + Len(s) /\ Len(z) = n - hi /\ v \o z = u
    BY <1>6, <1>7, <1>9
  <2> HIDE <1>7
  <2> QED
    BY <2>1, <2>2
<1>11. \A i \in 1..lo : i \in 1..(lo + Len(s))
  BY <1>1, <1>3
<1>12. \A i \in 1..Len(s) : lo + i \in 1..(lo + Len(s))
  BY <1>1, <1>3
<1>13. \A i \in 1..lo : u[i] = t[i]
  BY <1>5, <1>9, <1>10, <1>11
<1>14. \A i \in 1..Len(s) : u[lo + i] = s[i]
  BY <1>9, <1>10, <1>12
<1>15. \A i \in 1..(n - hi) : u[lo + Len(s) + i] = t[hi + i]
  BY <1>6, <1>10
<1> QED
  BY <1>2, <1>8, <1>13, <1>14, <1>15 DEF BytesOf

\* Two slices with the same bytes.
SameBytes(t, lo, hi, u, by) == \A i \in (lo + 1)..hi : u[i + by] = t[i]

LEMMA SameSlice ==
  ASSUME NEW t, IsText(t), NEW lo, NEW hi, Edge(t, lo), Edge(t, hi), lo <= hi,
         NEW u, IsText(u), NEW by \in Int, Edge(u, lo + by), Edge(u, hi + by),
         SameBytes(t, lo, hi, u, by)
  PROVE  Slice(u, Span(lo + by, hi + by)) = Slice(t, Span(lo, hi))
<1>1. lo \in Nat /\ hi \in Nat
  BY EdgeFacts, TextFacts DEF Edge
<1>0. PICK n : n = hi - lo
  OBVIOUS
<1>2. PICK x, z : /\ x = Slice(t, Span(lo, hi)) /\ z = Slice(u, Span(lo + by, hi + by))
                  /\ n \in Nat /\ n = hi - lo
  BY <1>0, <1>1
<1>3. x \in Seq(Byte) /\ Len(x) = n /\ \A i \in 1..n : x[i] = t[lo + i]
  BY <1>2, SliceFacts DEF IsText
<1>4. (lo + by) <= (hi + by) /\ (hi + by) - (lo + by) = n
  BY <1>1, <1>2
<1>5. z \in Seq(Byte) /\ Len(z) = n /\ \A i \in 1..n : z[i] = u[(lo + by) + i]
  BY <1>2, <1>4, SliceFacts DEF IsText
<1>6. ASSUME NEW i \in 1..n PROVE z[i] = x[i]
  <2>1. lo + i \in (lo + 1)..hi /\ (lo + by) + i = (lo + i) + by
    BY <1>1, <1>2
  <2> QED
    BY <1>3, <1>5, <2>1 DEF SameBytes
<1>7. z = x
  BY <1>3, <1>5, <1>6
<1> QED
  BY <1>2, <1>7

LEMMA SliceOf == ASSUME NEW t, NEW a PROVE Slice(t, a) = Slice(t, Span(a.lo, a.hi))
  BY SpanFacts DEF Slice

\* The atoms before and after an edit, as they were and as they are.
Around(atoms, r, length, x, y, by, m) ==
  /\ by \in Int /\ Row(x) /\ Row(y) /\ Row(m) /\ Len(m) = Len(y)
  /\ \A i \in 1..Len(x) : x[i].hi <= r.lo /\ \E k \in 1..Len(atoms) : x[i] = atoms[k]
  /\ \A i \in 1..Len(y) : /\ r.hi <= y[i].lo /\ r.lo < y[i].hi
                          /\ \E k \in 1..Len(atoms) : y[i] = atoms[k]
  /\ \A i \in 1..Len(y) : m[i] = PlacedAt(y[i], by) /\ r.lo + length <= m[i].lo

LEMMA AroundEdit ==
  ASSUME NEW atoms, Row(atoms), NEW r, Given(r), NEW length \in Nat
  PROVE  LET by == r.lo + length - r.hi
         IN Around(atoms, r, length, Before(atoms, r), After(atoms, r), by,
                   MovedBy(After(atoms, r), by))
<1>1. PICK by, x, y, m :
        by = r.lo + length - r.hi /\ x = Before(atoms, r) /\ y = After(atoms, r) /\ m = MovedBy(y, by)
  OBVIOUS
<1>2. r.lo \in Nat /\ r.hi \in Nat /\ by \in Int
  BY <1>1 DEF Given
<1>3. Row(x) /\ \A i \in 1..Len(x) : x[i].hi <= r.lo /\ \E k \in 1..Len(atoms) : x[i] = atoms[k]
  <2>1. PICK S : S = {a \in ToSet(atoms) : a.hi <= r.lo}
    OBVIOUS
  <2>2. x = Only(atoms, S)
    BY <1>1, <2>1 DEF Before
  <2>3. /\ Row(x)
        /\ \A i \in 1..Len(x) : x[i] \in S /\ \E k \in 1..Len(atoms) : x[i] = atoms[k]
    BY <2>2, OnlyRow
  <2> QED
    BY <2>1, <2>3
<1>4. Row(y) /\ \A i \in 1..Len(y) : /\ r.hi <= y[i].lo /\ r.lo < y[i].hi
                                     /\ \E k \in 1..Len(atoms) : y[i] = atoms[k]
  <2>1. PICK S : S = {a \in ToSet(atoms) : a.hi > r.lo /\ a.lo >= r.hi}
    OBVIOUS
  <2>2. y = Only(atoms, S)
    BY <1>1, <2>1 DEF After
  <2>3. /\ Row(y)
        /\ \A i \in 1..Len(y) : y[i] \in S /\ \E k \in 1..Len(atoms) : y[i] = atoms[k]
    BY <2>2, OnlyRow
  <2>4. \A i \in 1..Len(y) : y[i].lo \in Nat /\ y[i].hi \in Nat
    BY <2>3, RowFacts
  <2> QED
    BY <1>2, <2>1, <2>3, <2>4
<1>5. ASSUME NEW i \in 1..Len(y) PROVE y[i].lo + by \in Nat /\ r.lo + length <= y[i].lo + by
  <2>1. PICK a, lo, hi : a = y[i].lo /\ lo = r.lo /\ hi = r.hi
    OBVIOUS
  <2>2. a \in Nat /\ lo \in Nat /\ hi \in Nat /\ hi <= a /\ by = lo + length - hi
    BY <1>1, <1>2, <1>4, <2>1, RowFacts
  <2>3. a + by \in Nat /\ lo + length <= a + by
    BY <2>2
  <2> QED
    BY <2>1, <2>3
<1>6. Row(m) /\ Len(m) = Len(y) /\ \A i \in 1..Len(y) : m[i].lo = y[i].lo + by
  <2>1. \A i \in 1..Len(y) : y[i].lo + by \in Nat
    BY <1>5
  <2>2. /\ Row(MovedBy(y, by)) /\ Len(MovedBy(y, by)) = Len(y)
        /\ \A i \in 1..Len(y) : MovedBy(y, by)[i].lo = y[i].lo + by
    BY <1>2, <1>4, <2>1, MovedFacts
  <2>3. m = MovedBy(y, by)
    BY <1>1
  <2> QED
    BY <2>2, <2>3
<1>7. ASSUME NEW i \in 1..Len(y) PROVE m[i] = PlacedAt(y[i], by)
  <2>1. DOMAIN y = 1..Len(y)
    BY <1>4, RowFacts
  <2>2. m[i] = [y[i] EXCEPT !.lo = @ + by, !.hi = @ + by]
    BY <1>1, <2>1 DEF MovedBy
  <2>3. PICK a : a = y[i]
    OBVIOUS
  <2>4. IsAtom(a)
    BY <1>4, <2>3 DEF Row
  <2> QED
    BY <2>2, <2>3, <2>4 DEF IsAtom, PlacedAt
<1>8. \A i \in 1..Len(y) : m[i] = PlacedAt(y[i], by) /\ r.lo + length <= m[i].lo
  BY <1>5, <1>6, <1>7
<1>9. Around(atoms, r, length, x, y, by, m)
  BY <1>2, <1>3, <1>4, <1>6, <1>8 DEF Around
<1> QED
  BY <1>1, <1>9

LEMMA PlacedFields ==
  ASSUME NEW a, NEW by
  PROVE  /\ PlacedAt(a, by).lo = a.lo + by /\ PlacedAt(a, by).hi = a.hi + by
         /\ PlacedAt(a, by).id = a.id /\ PlacedAt(a, by).copy = a.copy
  BY DEF PlacedAt

LEMMA MovedAtom ==
  ASSUME NEW z, IsAtom(z), NEW by
  PROVE  [z EXCEPT !.lo = @ + by, !.hi = @ + by] = PlacedAt(z, by)
<1>1. PICK m, a : m = [z EXCEPT !.lo = @ + by, !.hi = @ + by] /\ a = z
  OBVIOUS
<1>2. IsAtom(a)
  BY <1>1
<1>3. m = PlacedAt(z, by)
  BY <1>1, <1>2 DEF IsAtom, PlacedAt
<1> QED
  BY <1>1, <1>3

\* Atoms that show the same.
SameShown(b, a, d, c) ==
  \A i \in 1..Len(a) : /\ a[i].id = c[i].id /\ a[i].copy = c[i].copy
                       /\ Slice(b.text, a[i]) = Slice(d.text, c[i])

LEMMA ShownSame ==
  ASSUME NEW b, NEW d, NEW a, Row(a), NEW c, Row(c), Len(a) = Len(c), SameShown(b, a, d, c)
  PROVE  Shown(b, a) = Shown(d, c)
<1>1. DOMAIN a = 1..Len(a) /\ DOMAIN c = 1..Len(a)
  BY RowFacts
<1> QED
  BY <1>1 DEF Shown, SameShown

\* An edit without atoms: the atoms that are left, and what they show.
LEMMA EditKeepsApart ==
  ASSUME NEW mode, NEW b, Sound(b, mode), NEW r, Snug(r, b.text, b.atoms),
         NEW new, IsText(new), Clean(new, mode), NEW selected, Given(selected)
  PROVE  LET e == Edited(b, r, new, selected, NoSpan, <<>>)
             x == Before(b.atoms, r)
             y == After(b.atoms, r)
             m == MovedBy(y, r.lo + Len(new) - r.hi)
         IN /\ Sound(e, mode) /\ e.text = Spliced(b.text, r, new) /\ e.atoms = x \o m
            /\ Row(x) /\ Row(y) /\ Row(m) /\ InFront(x, y) /\ InFront(x, m)
            /\ Shown(e, e.atoms) = Shown(b, x \o y)
<1>1. PICK e, t, u, x, y, by, m :
        /\ e = Edited(b, r, new, selected, NoSpan, <<>>) /\ t = b.text /\ u = Spliced(b.text, r, new)
        /\ x = Before(b.atoms, r) /\ y = After(b.atoms, r) /\ by = r.lo + Len(new) - r.hi
        /\ m = MovedBy(y, by)
  OBVIOUS
<1>2. IsText(t) /\ Row(b.atoms) /\ Edged(t, b.atoms) /\ EdgeSpan(t, r) /\ Given(r) /\ Len(new) \in Nat
      /\ r.lo \in Nat /\ r.hi \in Nat /\ r.lo <= r.hi /\ r.hi \in 0..Len(t) /\ Len(t) \in Nat
  BY <1>1, SnugFacts, TextFacts DEF Sound, Snug, Given
<1>3. Sound(e, mode) /\ e.text = u
  <2>1. \A i \in 1..Len(<<>>) : \E lo, hi : /\ <<>>[i].lo = r.lo + lo /\ Edge(new, lo)
                                            /\ <<>>[i].hi = r.lo + hi /\ Edge(new, hi)
    OBVIOUS
  <2> QED
    BY <1>1, <2>1, EditedSound, EmptyRow
<1>4. /\ by \in Int /\ Row(x) /\ Row(y) /\ Row(m) /\ Len(m) = Len(y)
      /\ \A i \in 1..Len(x) : x[i].hi <= r.lo /\ \E k \in 1..Len(b.atoms) : x[i] = b.atoms[k]
      /\ \A i \in 1..Len(y) : /\ r.hi <= y[i].lo /\ r.lo < y[i].hi
                              /\ \E k \in 1..Len(b.atoms) : y[i] = b.atoms[k]
      /\ \A i \in 1..Len(y) : m[i] = PlacedAt(y[i], by) /\ r.lo + Len(new) <= m[i].lo
  <2>1. Around(b.atoms, r, Len(new), x, y, by, m)
    BY <1>1, <1>2, AroundEdit
  <2> QED
    BY <2>1 DEF Around
<1>5. InFront(x, y) /\ InFront(x, m)
  <2>1. ASSUME NEW i \in 1..Len(x), NEW j \in 1..Len(y) PROVE x[i].hi <= y[j].lo /\ x[i].hi <= m[j].lo
    <3>1. x[i].hi \in Nat /\ y[j].lo \in Nat /\ m[j].lo \in Nat
      BY <1>4, RowFacts
    <3>2. x[i].hi <= r.lo /\ r.hi <= y[j].lo /\ r.lo + Len(new) <= m[j].lo
      BY <1>4
    <3> QED
      BY <1>2, <3>1, <3>2
  <2> QED
    BY <1>4, <2>1 DEF InFront
<1>6. e.atoms = x \o m
  <2>0. Edited(b, r, new, selected, NoSpan, <<>>).atoms = AtomsAfterEdit(b.atoms, r, Len(new), <<>>)
    BY DEF Edited, Fitted
  <2>1. e.atoms = x \o <<>> \o m
    <3>1. e.atoms = AtomsAfterEdit(b.atoms, r, Len(new), <<>>)
      BY <1>1, <2>0
    <3>2. m = MovedBy(y, r.lo + Len(new) - r.hi)
      BY <1>1
    <3>3. AtomsAfterEdit(b.atoms, r, Len(new), <<>>) = x \o <<>> \o m
      BY <1>1, <3>2, Zenon DEF AtomsAfterEdit
    <3> QED
      BY <3>1, <3>3
  <2>2. x \in Seq(ToSet(x))
    BY <1>4, RowFacts
  <2>3. x \o <<>> = x
    BY <2>2
  <2> QED
    BY <2>1, <2>3
<1>7. IsText(u) /\ (\A i : Edge(t, i) /\ i <= r.lo => Edge(u, i))
      /\ (\A i : Edge(t, i) /\ r.hi <= i => Edge(u, i + by))
  BY <1>1, <1>2, SplicedFacts
<1>8. /\ \A i \in 1..r.lo : u[i] = t[i]
      /\ \A i \in 1..(Len(t) - r.hi) : u[r.lo + Len(new) + i] = t[r.hi + i]
  <2>1. BytesOf(t, r, new, u)
    BY <1>1, <1>2, SplicedBytes
  <2> QED
    BY <2>1 DEF BytesOf
<1>9. ASSUME NEW i \in 1..Len(x) PROVE Slice(u, x[i]) = Slice(t, x[i])
  <2>1. PICK lo, hi : lo = x[i].lo /\ hi = x[i].hi
    OBVIOUS
  <2>2. lo \in Nat /\ hi \in Nat /\ lo < hi /\ hi <= r.lo /\ Edge(t, lo) /\ Edge(t, hi)
    BY <1>2, <1>4, <2>1, RowFacts DEF Edged
  <2>3. Edge(u, lo + 0) /\ Edge(u, hi + 0) /\ lo <= hi /\ lo + 0 = lo /\ hi + 0 = hi
    BY <1>2, <1>7, <2>2
  <2>4. ASSUME NEW k \in (lo + 1)..hi PROVE u[k + 0] = t[k]
    <3>1. k \in 1..r.lo /\ k + 0 = k
      BY <1>2, <2>2
    <3> QED
      BY <1>8, <3>1
  <2>5. SameBytes(t, lo, hi, u, 0)
    BY <2>4 DEF SameBytes
  <2>6. Slice(u, Span(lo + 0, hi + 0)) = Slice(t, Span(lo, hi))
    BY <1>2, <1>7, <2>2, <2>3, <2>5, SameSlice
  <2> QED
    BY <2>1, <2>3, <2>6, SliceOf
<1>10. ASSUME NEW i \in 1..Len(y) PROVE Slice(u, m[i]) = Slice(t, y[i])
  <2>1. PICK lo, hi : lo = y[i].lo /\ hi = y[i].hi
    OBVIOUS
  <2>2. lo \in Nat /\ hi \in Nat /\ lo < hi /\ r.hi <= lo /\ Edge(t, lo) /\ Edge(t, hi)
    BY <1>2, <1>4, <2>1, RowFacts DEF Edged
  <2>3. r.hi <= hi /\ hi <= Len(t)
    <3>1. hi \in 0..Len(t)
      BY <1>2, <2>2, EdgeFacts DEF Edge
    <3> QED
      BY <1>2, <2>2, <3>1
  <2>4. Edge(u, lo + by) /\ Edge(u, hi + by) /\ lo <= hi
    BY <1>7, <2>2, <2>3
  <2>5. ASSUME NEW k \in (lo + 1)..hi PROVE u[k + by] = t[k]
    <3>1. PICK n : n = k - r.hi
      OBVIOUS
    <3>2. n \in 1..(Len(t) - r.hi) /\ r.hi + n = k
      BY <1>2, <2>2, <2>3, <3>1
    <3>3. r.lo + Len(new) + n = k + by
      BY <1>1, <1>2, <2>2, <3>1
    <3> QED
      BY <1>8, <3>2, <3>3
  <2>6. SameBytes(t, lo, hi, u, by)
    BY <2>5 DEF SameBytes
  <2>7. Slice(u, Span(lo + by, hi + by)) = Slice(t, Span(lo, hi))
    <3>1. IsText(t) /\ IsText(u) /\ by \in Int /\ Edge(t, lo) /\ Edge(t, hi) /\ lo <= hi
          /\ Edge(u, lo + by) /\ Edge(u, hi + by)
      BY <1>2, <1>4, <1>7, <2>2, <2>4
    <3> QED
      BY <2>6, <3>1, SameSlice
  <2>8. m[i].lo = lo + by /\ m[i].hi = hi + by
    BY <1>4, <2>1, PlacedFields
  <2> QED
    BY <2>1, <2>7, <2>8, SliceOf
<1>11. Shown(e, e.atoms) = Shown(b, x \o y)
  <2>1. PICK v, w : v = x \o m /\ w = x \o y
    OBVIOUS
  <2>2. /\ Row(v) /\ Len(v) = Len(x) + Len(y) /\ (\A i \in 1..Len(x) : v[i] = x[i])
        /\ \A i \in 1..Len(y) : v[Len(x) + i] = m[i]
    <3>1. /\ Row(x \o m) /\ Len(x \o m) = Len(x) + Len(m) /\ (\A i \in 1..Len(x) : (x \o m)[i] = x[i])
          /\ \A i \in 1..Len(m) : (x \o m)[Len(x) + i] = m[i]
      <4>1. Row(x) /\ Row(m) /\ InFront(x, m)
        BY <1>4, <1>5
      <4> QED
        BY <4>1, ConcatRow
    <3>2. Len(m) = Len(y)
      BY <1>4
    <3> QED
      BY <2>1, <3>1, <3>2, Zenon
  <2>3. /\ Row(w) /\ Len(w) = Len(x) + Len(y) /\ (\A i \in 1..Len(x) : w[i] = x[i])
        /\ \A i \in 1..Len(y) : w[Len(x) + i] = y[i]
    BY <1>4, <1>5, <2>1, ConcatRow
  <2>4. Len(x) \in Nat /\ Len(y) \in Nat
    BY <1>4, RowFacts
  <2>5. ASSUME NEW i \in 1..Len(v)
        PROVE  v[i].id = w[i].id /\ v[i].copy = w[i].copy /\ Slice(e.text, v[i]) = Slice(b.text, w[i])
    <3>1. CASE i \in 1..Len(x)
      BY <1>1, <1>3, <1>9, <2>2, <2>3, <3>1
    <3>2. CASE i \notin 1..Len(x)
      <4>1. PICK j : j = i - Len(x)
        OBVIOUS
      <4>2. j \in 1..Len(y) /\ Len(x) + j = i
        BY <2>2, <2>4, <3>2, <4>1
      <4>3. v[i] = m[j] /\ w[i] = y[j]
        BY <2>2, <2>3, <4>2
      <4>4. m[j].id = y[j].id /\ m[j].copy = y[j].copy
        BY <1>4, <4>2, PlacedFields
      <4> QED
        BY <1>1, <1>3, <1>10, <4>2, <4>3, <4>4
    <3> QED
      BY <3>1, <3>2
  <2>6. Shown(e, v) = Shown(b, w)
    <3>1. SameShown(e, v, b, w)
      BY <2>5 DEF SameShown
    <3> QED
      BY <2>2, <2>3, <3>1, ShownSame
  <2> QED
    BY <1>6, <2>1, <2>6
<1> QED
  BY <1>1, <1>3, <1>4, <1>5, <1>6, <1>11

\* What an edit leaves is what the named range does not meet.
LEMMA ApartIsAround ==
  ASSUME NEW t, IsText(t), NEW atoms, Row(atoms), Edged(t, atoms), NEW range, Given(range)
  PROVE  LET named == Clamped(t, range)
             r == Whole(range, t, atoms)
         IN Only(atoms, {a \in ToSet(atoms) : IsCaret(named) \/ ~Meets(named, a)})
              = Before(atoms, r) \o After(atoms, r)
<1>1. PICK named, r, A : /\ named = Clamped(t, range) /\ r = Whole(range, t, atoms)
                         /\ A = ToSet(atoms)
  OBVIOUS
<1>2. PICK S, P, Q : /\ S = {a \in A : IsCaret(named) \/ ~Meets(named, a)}
                     /\ P = {a \in A : a.hi <= r.lo}
                     /\ Q = {a \in A : a.hi > r.lo /\ a.lo >= r.hi}
  OBVIOUS
<1>3. /\ atoms \in Seq(A) /\ A = {atoms[i] : i \in 1..Len(atoms)}
      /\ \A i \in 1..Len(atoms) : atoms[i].lo \in Nat /\ atoms[i].hi \in Nat /\ atoms[i].lo < atoms[i].hi
  BY <1>1, RowFacts
<1>4. r.lo \in Nat /\ r.hi \in Nat /\ r.lo <= r.hi
  <2>1. Snug(r, t, atoms)
    BY <1>1, WholeIsSnug DEF Given
  <2> QED
    BY <2>1, SnugFacts
<1>5. Only(atoms, S) = Only(atoms, P \cup Q)
  <2>1. ASSUME NEW i \in 1..Len(atoms) PROVE atoms[i] \in S <=> atoms[i] \in P \cup Q
    <3>1. IsCaret(named) \/ ~Meets(named, atoms[i]) <=> atoms[i].hi <= r.lo \/ r.hi <= atoms[i].lo
      BY <1>1, WholeMeetsNamed
    <3>2. PICK a, lo, hi : a = atoms[i] /\ lo = a.lo /\ hi = a.hi
      OBVIOUS
    <3>3. a \in A /\ lo \in Nat /\ hi \in Nat
      BY <1>3, <3>2
    <3>4. a \in S <=> hi <= r.lo \/ r.hi <= lo
      BY <1>2, <3>1, <3>2, <3>3
    <3>5. a \in P \cup Q <=> hi <= r.lo \/ (hi > r.lo /\ lo >= r.hi)
      BY <1>2, <3>2, <3>3
    <3> QED
      BY <1>4, <3>2, <3>3, <3>4, <3>5
  <2> QED
    BY <1>3, <2>1, OnlySame
<1>6. Only(atoms, P \cup Q) = Only(atoms, P) \o Only(atoms, Q)
  <2>1. ASSUME NEW i \in 1..Len(atoms), NEW j \in 1..Len(atoms), i < j, atoms[i] \in Q, atoms[j] \in P
        PROVE  FALSE
    <3>1. atoms[i].hi <= atoms[j].lo
      BY <2>1 DEF Row
    <3>2. atoms[i].hi > r.lo /\ atoms[j].hi <= r.lo
      BY <1>2, <2>1
    <3>3. PICK h, l, k : h = atoms[i].hi /\ l = atoms[j].lo /\ k = atoms[j].hi
      OBVIOUS
    <3>4. h \in Nat /\ l \in Nat /\ k \in Nat /\ l < k
      BY <1>3, <3>3
    <3> QED
      BY <1>4, <3>1, <3>2, <3>3, <3>4
  <2>2. \A i, j \in 1..Len(atoms) : i < j => ~(atoms[i] \in Q /\ atoms[j] \in P)
    BY <2>1
  <2>3. P \cap Q = {}
    <3>1. ASSUME NEW a \in A, a \in P, a \in Q PROVE FALSE
      <4>1. a.hi \in Nat /\ a.hi <= r.lo /\ a.hi > r.lo
        BY <1>2, <1>3, <3>1
      <4> QED
        BY <1>4, <4>1
    <3> QED
      BY <1>2, <3>1
  <2> QED
    BY <1>3, <2>2, <2>3, OnlySplit
<1>7. Only(atoms, P) = Before(atoms, r) /\ Only(atoms, Q) = After(atoms, r)
  BY <1>1, <1>2 DEF Before, After
<1> QED
  BY <1>1, <1>2, <1>5, <1>6, <1>7

\* The first half of AtomsStayWhole.
KeepsApart(b, mode, range, text) ==
  LET r == ActiveEditRange(b, range)
      edited == Edited(b, r, Normalized(text, mode), Caret(r.lo), NoSpan, <<>>)
      named == Clamped(b.text, range)
      apart == Only(b.atoms, {a \in ToSet(b.atoms) : IsCaret(named) \/ ~Meets(named, a)})
  IN Shown(edited, edited.atoms) = Shown(b, apart)

LEMMA EditsKeepAtoms ==
  ASSUME NEW mode \in {"SingleLine", "Multiline"}, NEW b, Sound(b, mode), NEW range, Given(range),
         range # NoSpan, NEW text, IsText(text)
  PROVE  KeepsApart(b, mode, range, text)
<1>1. PICK r, new, edited : /\ r = ActiveEditRange(b, range) /\ new = Normalized(text, mode)
                            /\ edited = Edited(b, r, new, Caret(r.lo), NoSpan, <<>>)
  OBVIOUS
<1>2. r = Whole(range, b.text, b.atoms)
  BY <1>1 DEF ActiveEditRange
<1>3. IsText(b.text) /\ Row(b.atoms) /\ Edged(b.text, b.atoms)
  BY DEF Sound
<1>4. Snug(r, b.text, b.atoms)
  BY <1>2, <1>3, WholeIsSnug DEF Given
<1>5. IsText(new) /\ Clean(new, mode)
  BY <1>1, NormalizedFacts
<1>6. Given(Caret(r.lo))
  BY <1>3, <1>4, SnugFacts, SpanFacts DEF Given
<1>7. Shown(edited, edited.atoms) = Shown(b, Before(b.atoms, r) \o After(b.atoms, r))
  BY <1>1, <1>4, <1>5, <1>6, EditKeepsApart
<1>8. Only(b.atoms, {a \in ToSet(b.atoms) :
                       IsCaret(Clamped(b.text, range)) \/ ~Meets(Clamped(b.text, range), a)})
        = Before(b.atoms, r) \o After(b.atoms, r)
  BY <1>2, <1>3, ApartIsAround
<1> QED
  BY <1>1, <1>7, <1>8 DEF KeepsApart

-----------------------------------------------------------------------------
(* What is cut and pasted back.                                            *)

\* A list without repetition has as many elements as it is long.
LEMMA ListCounted ==
  ASSUME NEW e, NEW m \in Nat, \A i, j \in 1..m : i < j => e[i] # e[j]
  PROVE  IsFiniteSet({e[i] : i \in 1..m}) /\ Cardinality({e[i] : i \in 1..m}) = m
<1>1. PICK S, f : S = {e[i] : i \in 1..m} /\ f = [i \in 1..m |-> e[i]]
  OBVIOUS
<1>2. f \in [1..m -> S] /\ \A i \in 1..m : f[i] = e[i]
  BY <1>1
<1>3. \A i, j \in 1..m : i # j => f[i] # f[j]
  <2>1. \A i, j \in 1..m : i # j => i < j \/ j < i
    OBVIOUS
  <2> QED
    BY <1>2, <2>1
<1>4. f \in Bijection(1..m, S)
  <2>1. f \in Injection(1..m, S)
    BY <1>2, <1>3 DEF Injection, IsInjective
  <2>2. f \in Surjection(1..m, S)
    BY <1>1, <1>2 DEF Surjection
  <2> QED
    BY <2>1, <2>2 DEF Bijection
<1>5. IsFiniteSet(1..m) /\ Cardinality(1..m) = m
  BY FS_Interval
<1>6. IsFiniteSet(S)
  BY <1>4, <1>5, FS_Surjection DEF Bijection
<1>7. Cardinality(S) = m
  BY <1>4, FS_CountingElements DEF ExistsBijection
<1> QED
  BY <1>1, <1>6, <1>7

\* Atoms counted from an offset, each with its place in the list, are put back as they were.
CountedFrom(e, w, offset) ==
  \A i \in 1..Len(w) : /\ e[i].lo \in Nat /\ e[i].lo + offset = w[i].lo
                       /\ PlacedAt(e[i], offset) = w[i]

LEMMA PlacedBack ==
  ASSUME NEW w, Row(w), NEW offset \in Nat, NEW e, CountedFrom(e, w, offset)
  PROVE  Placed({e[i] : i \in 1..Len(w)}, offset) = w
<1>1. PICK n, S : n = Len(w) /\ S = {e[i] : i \in 1..n}
  OBVIOUS
<1>2. n \in Nat /\ w = [i \in 1..n |-> w[i]] /\ \A i, j \in 1..n : i < j => w[i].lo < w[j].lo
  <2>1. n \in Nat /\ w = [i \in 1..n |-> w[i]]
    BY <1>1 DEF Row
  <2>2. ASSUME NEW i \in 1..n, NEW j \in 1..n, i < j PROVE w[i].lo < w[j].lo
    <3>1. PICK k, h, l : k = w[i].lo /\ h = w[i].hi /\ l = w[j].lo
      OBVIOUS
    <3>2. k \in Nat /\ h \in Nat /\ l \in Nat /\ k < h
      BY <1>1, <3>1, RowFacts
    <3>3. h <= l
      BY <1>1, <2>2, <3>1 DEF Row
    <3> QED
      BY <3>1, <3>2, <3>3
  <2> QED
    BY <2>1, <2>2
<1>3. \A i \in 1..n : e[i].lo \in Nat /\ e[i].lo + offset = w[i].lo /\ PlacedAt(e[i], offset) = w[i]
  BY <1>1 DEF CountedFrom
<1>4. ASSUME NEW i \in 1..n, NEW j \in 1..n, i < j PROVE e[i].lo < e[j].lo
  <2>1. PICK k, l : k = e[i].lo /\ l = e[j].lo
    OBVIOUS
  <2>2. k \in Nat /\ l \in Nat /\ k + offset < l + offset
    BY <1>2, <1>3, <1>4, <2>1
  <2> QED
    BY <2>1, <2>2
<1>5. \A i, j \in 1..n : i < j => e[i] # e[j]
  BY <1>3, <1>4
<1>6. Cardinality(S) = n
  <2>1. n \in Nat
    BY <1>2
  <2>2. Cardinality({e[i] : i \in 1..n}) = n
    BY <1>5, <2>1, ListCounted
  <2> QED
    BY <1>1, <2>2
<1>7. ASSUME NEW k \in 1..n PROVE Cardinality({b \in S : b.lo < e[k].lo}) = k - 1
  <2>1. \A i \in 1..n : e[i].lo < e[k].lo <=> i \in 1..(k - 1)
    <3>1. ASSUME NEW i \in 1..n PROVE e[i].lo < e[k].lo <=> i \in 1..(k - 1)
      <4>1. PICK a, b : a = e[i].lo /\ b = e[k].lo
        OBVIOUS
      <4>2. a \in Nat /\ b \in Nat /\ (i < k => a < b) /\ (k < i => b < a) /\ (i = k => a = b)
        BY <1>3, <1>4, <4>1
      <4> QED
        BY <1>2, <4>1, <4>2
    <3> QED
      BY <3>1
  <2>2. {b \in S : b.lo < e[k].lo} = {e[i] : i \in 1..(k - 1)}
    <3>1. ASSUME NEW b PROVE b \in S /\ b.lo < e[k].lo <=> b \in {e[i] : i \in 1..(k - 1)}
      <4>1. 1..(k - 1) \subseteq 1..n
        BY <1>2
      <4> QED
        BY <1>1, <2>1, <4>1
    <3> QED
      BY <3>1
  <2>3. k - 1 \in Nat /\ \A i, j \in 1..(k - 1) : i \in 1..n /\ j \in 1..n
    BY <1>2
  <2>4. \A i, j \in 1..(k - 1) : i < j => e[i] # e[j]
    BY <1>5, <2>3
  <2>5. Cardinality({e[i] : i \in 1..(k - 1)}) = k - 1
    BY <2>3, <2>4, ListCounted
  <2> QED
    BY <2>2, <2>5
<1>8. ASSUME NEW k \in 1..n PROVE Kth(S, k) = e[k]
  <2>1. e[k] \in S /\ Cardinality({b \in S : b.lo < e[k].lo}) = k - 1
    BY <1>1, <1>7
  <2>2. ASSUME NEW a \in S, Cardinality({b \in S : b.lo < a.lo}) = k - 1 PROVE a = e[k]
    <3>1. PICK j \in 1..n : a = e[j]
      BY <1>1
    <3>2. j - 1 = k - 1
      BY <1>7, <2>2, <3>1
    <3> QED
      BY <1>2, <3>1, <3>2
  <2> QED
    BY <2>1, <2>2 DEF Kth
<1>9. Placed(S, offset) = [k \in 1..n |-> w[k]]
  <2>1. Placed(S, offset) = [k \in 1..n |-> PlacedAt(Kth(S, k), offset)]
    BY <1>6 DEF Placed
  <2>2. \A k \in 1..n : PlacedAt(Kth(S, k), offset) = w[k]
    BY <1>3, <1>8
  <2> QED
    BY <2>1, <2>2
<1> QED
  BY <1>1, <1>2, <1>9

\* The atoms before, in and after a range.
LEMMA InThreeParts ==
  ASSUME NEW w, Row(w), NEW r, Given(r), r.lo <= r.hi
  PROVE  w = (Before(w, r) \o Only(w, {a \in ToSet(w) : Meets(r, a)})) \o After(w, r)
<1>1. PICK A, P, M, Q : /\ A = ToSet(w)
                        /\ P = {a \in A : a.hi <= r.lo}
                        /\ M = {a \in A : Meets(r, a)}
                        /\ Q = {a \in A : a.hi > r.lo /\ a.lo >= r.hi}
  OBVIOUS
<1>2. /\ w \in Seq(A) /\ A = {w[i] : i \in 1..Len(w)}
      /\ \A i \in 1..Len(w) : w[i].lo \in Nat /\ w[i].hi \in Nat /\ w[i].lo < w[i].hi
  BY <1>1, RowFacts
<1>3. PICK lo, hi : lo = r.lo /\ hi = r.hi
  OBVIOUS
<1>4. lo \in Nat /\ hi \in Nat /\ lo <= hi
  BY <1>3 DEF Given
<1>5. ASSUME NEW i \in 1..Len(w)
      PROVE  /\ w[i] \in P <=> w[i].hi <= lo
             /\ w[i] \in M <=> lo < w[i].hi /\ w[i].lo < hi
             /\ w[i] \in Q <=> w[i].hi > lo /\ w[i].lo >= hi
  <2>1. w[i] \in A
    BY <1>2
  <2> QED
    BY <1>1, <1>3, <2>1 DEF Meets
<1>6. \A i \in 1..Len(w) : /\ w[i] \in (P \cup M) \cup Q
                           /\ ~(w[i] \in P /\ w[i] \in M)
                           /\ ~(w[i] \in P \cup M /\ w[i] \in Q)
  <2>1. ASSUME NEW i \in 1..Len(w)
        PROVE  /\ w[i] \in (P \cup M) \cup Q
               /\ ~(w[i] \in P /\ w[i] \in M)
               /\ ~(w[i] \in P \cup M /\ w[i] \in Q)
    <3>1. PICK k, h : k = w[i].lo /\ h = w[i].hi
      OBVIOUS
    <3>2. k \in Nat /\ h \in Nat
      BY <1>2, <3>1
    <3>3. /\ w[i] \in P <=> h <= lo
          /\ w[i] \in M <=> lo < h /\ k < hi
          /\ w[i] \in Q <=> h > lo /\ k >= hi
      BY <1>5, <3>1
    <3> QED
      BY <1>4, <3>2, <3>3
  <2> QED
    BY <2>1
<1>7. ASSUME NEW i \in 1..Len(w), NEW j \in 1..Len(w), i < j
      PROVE  ~(w[i] \in M /\ w[j] \in P) /\ ~(w[i] \in Q /\ w[j] \in P \cup M)
  <2>1. PICK k, h, l, g : k = w[i].lo /\ h = w[i].hi /\ l = w[j].lo /\ g = w[j].hi
    OBVIOUS
  <2>2. k \in Nat /\ h \in Nat /\ l \in Nat /\ g \in Nat /\ k < h /\ l < g
    BY <1>2, <2>1
  <2>3. h <= l
    BY <1>7, <2>1 DEF Row
  <2>4. /\ w[i] \in M <=> lo < h /\ k < hi
        /\ w[i] \in Q <=> h > lo /\ k >= hi
        /\ w[j] \in P <=> g <= lo
        /\ w[j] \in M <=> lo < g /\ l < hi
    BY <1>5, <2>1
  <2> QED
    BY <1>4, <2>2, <2>3, <2>4
<1>8. Only(w, (P \cup M) \cup Q) = w
  BY <1>2, <1>6, KeptWhole
<1>9. P \cap M = {} /\ (P \cup M) \cap Q = {}
  <2>1. P \subseteq A /\ M \subseteq A /\ Q \subseteq A
    BY <1>1
  <2> QED
    BY <1>2, <1>6, <2>1
<1>10. Only(w, (P \cup M) \cup Q) = Only(w, P \cup M) \o Only(w, Q)
  <2>1. \A i, j \in 1..Len(w) : i < j => ~(w[i] \in Q /\ w[j] \in P \cup M)
    BY <1>7
  <2> QED
    BY <1>2, <1>9, <2>1, OnlySplit
<1>11. Only(w, P \cup M) = Only(w, P) \o Only(w, M)
  <2>1. \A i, j \in 1..Len(w) : i < j => ~(w[i] \in M /\ w[j] \in P)
    BY <1>7
  <2> QED
    BY <1>2, <1>9, <2>1, OnlySplit
<1>12. Only(w, P) = Before(w, r) /\ Only(w, Q) = After(w, r)
  BY <1>1 DEF Before, After
<1> QED
  BY <1>1, <1>8, <1>10, <1>11, <1>12

\* What is cut out of a text and put back in its place gives the text.
LEMMA TextBack ==
  ASSUME NEW t, IsText(t), NEW r, EdgeSpan(t, r)
  PROVE  Spliced(Spliced(t, r, <<>>), Caret(r.lo), Slice(t, r)) = t
<1>1. PICK lo, hi, n, d, u, v :
        /\ lo = r.lo /\ hi = r.hi /\ n = Len(t) /\ d = Slice(t, r)
        /\ u = Spliced(t, r, <<>>) /\ v = Spliced(u, Caret(lo), d)
  OBVIOUS
<1>2. /\ n \in Nat /\ lo \in 0..n /\ hi \in 0..n /\ lo <= hi /\ t \in Seq(Byte)
      /\ Edge(t, lo) /\ Edge(t, hi) /\ r = Span(lo, hi)
  BY <1>1, EdgeSpanFacts, TextFacts DEF EdgeSpan
<1>3. IsText(d) /\ Len(d) = hi - lo /\ \A i \in 1..(hi - lo) : d[i] = t[lo + i]
  BY <1>1, <1>2, SliceFacts
<1>4. IsText(<<>>) /\ Len(<<>>) = 0
  BY EmptyText
<1>5. IsText(u) /\ Len(u) = n - (hi - lo) /\ Edge(u, lo)
  <2>1. /\ IsText(Spliced(t, r, <<>>))
        /\ Len(Spliced(t, r, <<>>)) = Len(t) - (r.hi - r.lo) + Len(<<>>)
        /\ \A i : Edge(t, i) /\ i <= r.lo => Edge(Spliced(t, r, <<>>), i)
    BY <1>4, SplicedFacts
  <2>2. IsText(u) /\ Len(u) = n - (hi - lo) + 0
    BY <1>1, <1>4, <2>1
  <2>3. Edge(u, lo)
    BY <1>1, <1>2, <2>1
  <2> QED
    BY <1>2, <2>2, <2>3
<1>6. (\A i \in 1..lo : u[i] = t[i]) /\ \A i \in 1..(n - hi) : u[lo + i] = t[hi + i]
  <2>1. BytesOf(t, r, <<>>, u)
    BY <1>1, <1>4, SplicedBytes
  <2>2. \A i : lo + 0 + i = lo + i
    BY <1>2
  <2>3. (\A i \in 1..lo : u[i] = t[i]) /\ \A i \in 1..(n - hi) : u[lo + Len(<<>>) + i] = t[hi + i]
    BY <1>1, <2>1 DEF BytesOf
  <2> QED
    BY <1>2, <1>4, <2>3
<1>7. PICK c : c = Caret(lo)
  OBVIOUS
<1>8. c.lo = lo /\ c.hi = lo /\ EdgeSpan(u, c)
  BY <1>2, <1>5, <1>7, SpanFacts DEF EdgeSpan
<1>9. BytesOf(u, c, d, v)
  BY <1>1, <1>3, <1>5, <1>7, <1>8, SplicedBytes
<1>10. IsText(v) /\ Len(v) = n
  <2>1. IsText(v) /\ Len(v) = Len(u) - (lo - lo) + Len(d)
    <3>1. IsText(Spliced(u, c, d)) /\ Len(Spliced(u, c, d)) = Len(u) - (c.hi - c.lo) + Len(d)
      <4>1. IsText(u) /\ IsText(d) /\ EdgeSpan(u, c)
        BY <1>3, <1>5, <1>8
      <4> QED
        BY <4>1, SplicedFacts
    <3> QED
      BY <1>1, <1>7, <1>8, <3>1
  <2> QED
    BY <1>2, <1>3, <1>5, <2>1
<1>11. /\ \A i \in 1..lo : v[i] = u[i]
       /\ \A i \in 1..(hi - lo) : v[lo + i] = d[i]
       /\ \A i \in 1..(n - hi) : v[hi + i] = u[lo + i]
  <2>1. Len(u) - lo = n - hi /\ \A i \in 1..(n - hi) : lo + Len(d) + i = hi + i
    BY <1>2, <1>3, <1>5
  <2>2. /\ \A i \in 1..lo : v[i] = u[i]
        /\ \A i \in 1..Len(d) : v[lo + i] = d[i]
        /\ \A i \in 1..(Len(u) - lo) : v[lo + Len(d) + i] = u[lo + i]
    BY <1>8, <1>9 DEF BytesOf
  <2> QED
    BY <1>3, <2>1, <2>2
<1>12. ASSUME NEW i \in 1..n PROVE v[i] = t[i]
  <2>1. CASE i <= lo
    <3>1. i \in 1..lo
      BY <1>2, <2>1
    <3> QED
      BY <1>6, <1>11, <3>1
  <2>2. CASE lo < i /\ i <= hi
    <3>1. PICK j : j = i - lo
      OBVIOUS
    <3>2. j \in 1..(hi - lo) /\ lo + j = i
      BY <1>2, <2>2, <3>1
    <3> QED
      BY <1>3, <1>11, <3>2
  <2>3. CASE hi < i
    <3>1. PICK j : j = i - hi
      OBVIOUS
    <3>2. j \in 1..(n - hi) /\ hi + j = i
      BY <1>2, <2>3, <3>1
    <3> QED
      BY <1>6, <1>11, <3>2
  <2> QED
    BY <1>2, <2>1, <2>2, <2>3
<1>13. v = t
  <2>1. v \in Seq(Byte) /\ Len(v) = Len(t)
    BY <1>1, <1>10 DEF IsText
  <2> QED
    BY <1>1, <1>2, <1>12, <2>1
<1> QED
  BY <1>1, <1>13

\* The atoms of a selection that ends in none, counted from its start.
ExportAtom(t, at, a) ==
  [id |-> a.id, lo |-> a.lo - at, hi |-> a.hi - at, display |-> Slice(t, a), copy |-> a.copy]
MetBy(b) == Only(b.atoms, {a \in ToSet(b.atoms) : Meets(b.selected, a)})
ExportAtoms(b) == [i \in 1..Len(MetBy(b)) |-> ExportAtom(b.text, b.selected.lo, MetBy(b)[i])]

LEMMA MetFacts ==
  ASSUME NEW mode, NEW b, Sound(b, mode)
  PROVE  /\ Row(MetBy(b))
         /\ \A i \in 1..Len(MetBy(b)) : LET a == MetBy(b)[i]
                                        IN /\ b.selected.lo <= a.lo /\ a.hi <= b.selected.hi
                                           /\ a.lo \in Nat /\ a.hi \in Nat /\ a.lo < a.hi
                                           /\ Edge(b.text, a.lo) /\ Edge(b.text, a.hi)
<1>1. PICK w, r, S, met : /\ w = b.atoms /\ r = b.selected
                          /\ S = {a \in ToSet(w) : Meets(r, a)} /\ met = Only(w, S)
  OBVIOUS
<1>2. Row(w) /\ Edged(b.text, w) /\ Snug(r, b.text, w) /\ IsText(b.text)
  BY <1>1 DEF Sound
<1>3. r.lo \in Nat /\ r.hi \in Nat /\ r.lo <= r.hi /\ Outside(w, r.lo) /\ Outside(w, r.hi)
  BY <1>2, SnugFacts DEF Snug
<1>4. Row(met) /\ \A i \in 1..Len(met) : met[i] \in S /\ \E k \in 1..Len(w) : met[i] = w[k]
  <2>1. /\ Row(Only(w, S))
        /\ \A i \in 1..Len(Only(w, S)) :
             Only(w, S)[i] \in S /\ \E k \in 1..Len(w) : Only(w, S)[i] = w[k]
    BY <1>2, OnlyRow
  <2> QED
    BY <1>1, <2>1
<1>5. ASSUME NEW i \in 1..Len(met)
      PROVE  /\ r.lo <= met[i].lo /\ met[i].hi <= r.hi
             /\ met[i].lo \in Nat /\ met[i].hi \in Nat /\ met[i].lo < met[i].hi
             /\ Edge(b.text, met[i].lo) /\ Edge(b.text, met[i].hi)
  <2>1. PICK k \in 1..Len(w) : met[i] = w[k]
    BY <1>4
  <2>2. PICK lo, hi : lo = w[k].lo /\ hi = w[k].hi
    OBVIOUS
  <2>3. lo \in Nat /\ hi \in Nat /\ lo < hi
    BY <1>2, <2>2, RowFacts
  <2>4. r.lo < hi /\ lo < r.hi
    BY <1>1, <1>4, <2>1, <2>2 DEF Meets
  <2>5. ~(lo < r.lo /\ r.lo < hi) /\ ~(lo < r.hi /\ r.hi < hi)
    BY <1>3, <2>2 DEF Outside
  <2>6. r.lo <= lo /\ hi <= r.hi
    BY <1>3, <2>3, <2>4, <2>5
  <2>7. Edge(b.text, lo) /\ Edge(b.text, hi)
    BY <1>2, <2>2 DEF Edged
  <2> QED
    BY <2>1, <2>2, <2>3, <2>6, <2>7
<1>6. met = MetBy(b)
  BY <1>1 DEF MetBy
<1> QED
  BY <1>1, <1>4, <1>5, <1>6

\* What is exported of a selection.
LEMMA SelectionExport ==
  ASSUME NEW mode, NEW b, Sound(b, mode)
  PROVE  LET export == Exported(b, b.selected)
         IN /\ export.display = Slice(b.text, b.selected)
            /\ export.atoms = {ExportAtoms(b)[i] : i \in 1..Len(MetBy(b))}
            /\ CountedFrom(ExportAtoms(b), MetBy(b), b.selected.lo)
<1>1. PICK met, e, r : met = MetBy(b) /\ e = ExportAtoms(b) /\ r = b.selected
  OBVIOUS
<1>2. Whole(r, b.text, b.atoms) = r
  BY <1>1, WholeIsSnug, SnugFacts DEF Sound, Given
<1>3. Exported(b, r) = ExportedOf(b, r, met)
  BY <1>1, <1>2 DEF Exported, ExportedWhole, MetBy
<1>4. Row(met) /\ ToSet(met) = {met[i] : i \in 1..Len(met)}
  BY <1>1, MetFacts, RowFacts
<1>5. \A i \in 1..Len(met) : e[i] = ExportAtom(b.text, r.lo, met[i])
  BY <1>1 DEF ExportAtoms
<1>6. Exported(b, r).atoms = {ExportAtom(b.text, r.lo, a) : a \in ToSet(met)}
  BY <1>3 DEF ExportedOf, ExportAtom
<1>7. Exported(b, r).atoms = {e[i] : i \in 1..Len(met)}
  BY <1>4, <1>5, <1>6
<1>8. Exported(b, r).display = Slice(b.text, r)
  BY <1>3 DEF ExportedOf
<1>9. CountedFrom(e, met, r.lo)
  <2>1. ASSUME NEW i \in 1..Len(met)
        PROVE  /\ e[i].lo \in Nat /\ e[i].lo + r.lo = met[i].lo /\ PlacedAt(e[i], r.lo) = met[i]
    <3>1. PICK a, at : a = met[i] /\ at = r.lo
      OBVIOUS
    <3>2. IsAtom(a)
      BY <1>4, <3>1 DEF Row
    <3>3. at \in Nat /\ at <= a.lo
      BY <1>1, <3>1, MetFacts, SnugFacts DEF Sound
    <3>4. PICK x : x = ExportAtom(b.text, at, a)
      OBVIOUS
    <3>5. x = e[i]
      BY <1>5, <3>1, <3>4
    <3>6. x.lo = a.lo - at /\ x.hi = a.hi - at /\ x.id = a.id /\ x.copy = a.copy
      BY <3>4 DEF ExportAtom
    <3>7. a.lo \in Nat /\ a.hi \in Nat
      BY <3>2 DEF IsAtom
    <3>8. x.lo \in Nat /\ x.lo + at = a.lo /\ x.hi + at = a.hi
      BY <3>3, <3>6, <3>7
    <3>9. PlacedAt(x, at) = a
      BY <3>2, <3>6, <3>8 DEF PlacedAt, IsAtom
    <3> QED
      BY <3>1, <3>5, <3>8, <3>9
  <2> QED
    BY <2>1 DEF CountedFrom
<1> QED
  BY <1>1, <1>7, <1>8, <1>9

LEMMA ExportValid ==
  ASSUME NEW mode, NEW b, Sound(b, mode)
  PROVE  ValidSelectionAtoms(Exported(b, b.selected).display, Exported(b, b.selected).atoms)
<1>1. PICK t, r, lo, hi, d, met, e, S :
        /\ t = b.text /\ r = b.selected /\ lo = r.lo /\ hi = r.hi /\ d = Slice(t, r)
        /\ met = MetBy(b) /\ e = ExportAtoms(b) /\ S = Exported(b, r).atoms
  OBVIOUS
<1>2. /\ IsText(t) /\ r = Span(lo, hi) /\ Edge(t, lo) /\ Edge(t, hi) /\ lo <= hi
      /\ lo \in Nat /\ hi \in Nat
  <2>1. IsText(t) /\ Snug(r, t, b.atoms)
    BY <1>1 DEF Sound
  <2> QED
    BY <1>1, <2>1, SnugFacts DEF Snug, EdgeSpan
<1>3. Exported(b, r).display = d /\ S = {e[i] : i \in 1..Len(met)}
  <2>1. /\ Exported(b, b.selected).display = Slice(b.text, b.selected)
        /\ Exported(b, b.selected).atoms = {ExportAtoms(b)[i] : i \in 1..Len(MetBy(b))}
    BY SelectionExport
  <2> QED
    BY <1>1, <2>1
<1>4. Row(met) /\ \A i \in 1..Len(met) : /\ lo <= met[i].lo /\ met[i].hi <= hi
                                         /\ met[i].lo \in Nat /\ met[i].hi \in Nat
                                         /\ met[i].lo < met[i].hi
                                         /\ Edge(t, met[i].lo) /\ Edge(t, met[i].hi)
  BY <1>1, MetFacts
<1>5. /\ IsText(d) /\ (\A i : Edge(t, i) /\ lo <= i /\ i <= hi => Edge(d, i - lo))
      /\ \A i \in 1..(hi - lo) : d[i] = t[lo + i]
  <2>1. /\ IsText(Slice(t, Span(lo, hi)))
        /\ \A i : Edge(t, i) /\ lo <= i /\ i <= hi => Edge(Slice(t, Span(lo, hi)), i - lo)
    BY <1>2, PartFacts
  <2>2. \A i \in 1..(hi - lo) : Slice(t, Span(lo, hi))[i] = t[lo + i]
    <3>1. IsText(t) /\ Edge(t, lo) /\ Edge(t, hi)
      BY <1>2
    <3> QED
      BY <3>1, SliceFacts
  <2> QED
    BY <1>1, <1>2, <2>1, <2>2
<1>6. ASSUME NEW i \in 1..Len(met)
      PROVE  /\ e[i].lo = met[i].lo - lo /\ e[i].hi = met[i].hi - lo
             /\ e[i].display = Slice(t, met[i])
  BY <1>1 DEF ExportAtoms, ExportAtom
<1>7. ASSUME NEW i \in 1..Len(met)
      PROVE  /\ e[i].lo \in Nat /\ e[i].hi \in Nat /\ e[i].lo < e[i].hi
             /\ Edge(d, e[i].lo) /\ Edge(d, e[i].hi) /\ e[i].display = Slice(d, e[i])
  <2>1. PICK k, h : k = met[i].lo /\ h = met[i].hi
    OBVIOUS
  <2>2. /\ k \in Nat /\ h \in Nat /\ k < h /\ lo <= k /\ h <= hi /\ k <= hi /\ lo <= h
        /\ Edge(t, k) /\ Edge(t, h)
    BY <1>2, <1>4, <2>1
  <2>3. e[i].lo = k - lo /\ e[i].hi = h - lo
    BY <1>6, <2>1
  <2>4. Edge(d, k - lo) /\ Edge(d, h - lo)
    BY <1>5, <2>2
  <2>5. PICK by : by = 0 - lo
    OBVIOUS
  <2>6. by \in Int /\ k + by = k - lo /\ h + by = h - lo /\ k <= h
    BY <1>2, <2>2, <2>5
  <2>7. SameBytes(t, k, h, d, by)
    <3>1. ASSUME NEW j \in (k + 1)..h PROVE d[j + by] = t[j]
      <4>1. PICK n : n = j - lo
        OBVIOUS
      <4>2. n \in 1..(hi - lo) /\ lo + n = j /\ j + by = n
        BY <1>2, <2>2, <2>5, <4>1
      <4> QED
        BY <1>5, <4>2
    <3> QED
      BY <3>1 DEF SameBytes
  <2>8. Slice(d, Span(k + by, h + by)) = Slice(t, Span(k, h))
    <3>1. Edge(d, k + by) /\ Edge(d, h + by) /\ IsText(d) /\ IsText(t)
      BY <1>2, <1>5, <2>4, <2>6
    <3> QED
      BY <2>2, <2>6, <2>7, <3>1, SameSlice
  <2>9. Slice(d, e[i]) = Slice(t, met[i])
    BY <2>1, <2>3, <2>6, <2>8, SliceOf
  <2> QED
    BY <1>2, <1>6, <2>2, <2>3, <2>4, <2>9
<1>8. ASSUME NEW i \in 1..Len(met), NEW j \in 1..Len(met), i < j
      PROVE  ~Meets(e[i], e[j]) /\ ~Meets(e[j], e[i])
  <2>1. PICK h, k : h = met[i].hi /\ k = met[j].lo
    OBVIOUS
  <2>2. h \in Nat /\ k \in Nat /\ h <= k
    BY <1>4, <1>8, <2>1 DEF Row
  <2>3. e[i].hi = h - lo /\ e[j].lo = k - lo
    BY <1>6, <2>1
  <2>4. e[i].hi <= e[j].lo /\ e[i].hi \in Int /\ e[j].lo \in Int
    BY <1>2, <2>2, <2>3
  <2> QED
    BY <2>4 DEF Meets
<1>9. ValidAtoms(d, S)
  <2>1. \A a \in S : a.lo < a.hi /\ {a.lo, a.hi} \subseteq CharBoundaries(d)
    BY <1>3, <1>7 DEF Edge
  <2>2. ASSUME NEW a \in S, NEW c \in S, a # c PROVE ~Meets(a, c)
    <3>1. PICK i \in 1..Len(met), j \in 1..Len(met) : a = e[i] /\ c = e[j]
      BY <1>3, <2>2
    <3>2. i # j
      BY <2>2, <3>1
    <3>3. i < j \/ j < i
      BY <3>2
    <3> QED
      BY <1>8, <3>1, <3>3
  <2> QED
    BY <2>1, <2>2 DEF ValidAtoms
<1>10. \A a \in S : a.display = Slice(d, a)
  BY <1>3, <1>7
<1> QED
  BY <1>1, <1>3, <1>9, <1>10 DEF ValidSelectionAtoms

\* The second half of AtomsStayWhole.
LEMMA CutComesBack ==
  ASSUME NEW mode, NEW b, Sound(b, mode)
  PROVE  LET cut == Edited(b, b.selected, <<>>, Caret(b.selected.lo), NoSpan, <<>>)
             export == Exported(b, b.selected)
             back == Edited(cut, cut.selected, export.display, cut.selected, NoSpan,
                            Placed(export.atoms, cut.selected.lo))
         IN Value(back) = Value(b)
<1>1. PICK t, w, r, lo, hi, c, cut, export, x, y, m, met :
        /\ t = b.text /\ w = b.atoms /\ r = b.selected /\ lo = r.lo /\ hi = r.hi /\ c = Caret(lo)
        /\ cut = Edited(b, r, <<>>, c, NoSpan, <<>>) /\ export = Exported(b, r)
        /\ x = Before(w, r) /\ y = After(w, r) /\ m = MovedBy(y, lo + Len(<<>>) - hi)
        /\ met = MetBy(b)
  OBVIOUS
<1>2. /\ IsText(t) /\ Row(w) /\ Edged(t, w) /\ Snug(r, t, w) /\ EdgeSpan(t, r)
      /\ lo \in Nat /\ hi \in Nat /\ lo <= hi /\ Given(r) /\ Edge(t, lo) /\ Len(<<>>) = 0
      /\ r = Span(lo, hi) /\ Edge(t, hi)
  <2>1. IsText(t) /\ Row(w) /\ Edged(t, w) /\ Snug(r, t, w)
    BY <1>1 DEF Sound
  <2> QED
    BY <1>1, <2>1, SnugFacts DEF Snug, EdgeSpan, Given
<1>3. c.lo = lo /\ c.hi = lo /\ c = Span(lo, lo) /\ Given(c)
  BY <1>1, <1>2, SpanFacts DEF Given
<1>4. /\ Sound(cut, mode) /\ cut.text = Spliced(t, r, <<>>) /\ cut.atoms = x \o m
      /\ Row(x) /\ Row(y) /\ Row(m) /\ InFront(x, m)
  <2>1. Clean(<<>>, mode)
    BY DEF Clean
  <2> QED
    <3>1. PICK e0 : e0 = Edited(b, r, <<>>, c, NoSpan, <<>>)
      OBVIOUS
    <3>2. /\ Sound(e0, mode) /\ e0.text = Spliced(b.text, r, <<>>)
          /\ e0.atoms = Before(b.atoms, r) \o MovedBy(After(b.atoms, r), r.lo + Len(<<>>) - r.hi)
          /\ Row(Before(b.atoms, r)) /\ Row(After(b.atoms, r))
          /\ Row(MovedBy(After(b.atoms, r), r.lo + Len(<<>>) - r.hi))
          /\ InFront(Before(b.atoms, r), MovedBy(After(b.atoms, r), r.lo + Len(<<>>) - r.hi))
      <4>1. Snug(r, b.text, b.atoms) /\ Given(c) /\ IsText(<<>>)
        BY <1>1, <1>2, <1>3, EmptyText
      <4> QED
        BY <2>1, <3>1, <4>1, EditKeepsApart
    <3> QED
      BY <1>1, <3>1, <3>2
<1>5. /\ \A i \in 1..Len(x) : x[i].hi <= lo
      /\ Len(m) = Len(y) /\ \A i \in 1..Len(y) : m[i] = PlacedAt(y[i], lo - hi) /\ lo <= m[i].lo
  <2>1. Around(w, r, 0, Before(w, r), After(w, r), r.lo + 0 - r.hi, MovedBy(After(w, r), r.lo + 0 - r.hi))
    BY <1>2, AroundEdit
  <2>2. lo + 0 - hi = lo - hi /\ lo + 0 = lo
    BY <1>2
  <2>3. Around(w, r, 0, x, y, lo - hi, m)
    BY <1>1, <1>2, <2>1, <2>2
  <2> QED
    BY <1>1, <2>2, <2>3 DEF Around
<1>6. cut.selected = c
  <2>1. cut.selected = Whole(c, cut.text, cut.atoms)
    BY <1>1, <1>4 DEF Edited, Fitted, Spliced, AtomsAfterEdit
  <2>2. IsText(cut.text) /\ Row(cut.atoms) /\ Edged(cut.text, cut.atoms)
    BY <1>4 DEF Sound
  <2>3. Edge(cut.text, lo)
    <3>1. \A i : Edge(t, i) /\ i <= r.lo => Edge(Spliced(t, r, <<>>), i)
      BY <1>2, EmptyText, SplicedFacts
    <3>2. Edge(t, lo) /\ lo <= r.lo
      BY <1>1, <1>2
    <3>3. Edge(Spliced(t, r, <<>>), lo)
      BY <3>1, <3>2
    <3> QED
      BY <1>4, <3>3
  <2>4. Outside(cut.atoms, lo)
    <3>1. PICK v : v = x \o m
      OBVIOUS
    <3>2. /\ Len(v) = Len(x) + Len(m) /\ (\A i \in 1..Len(x) : v[i] = x[i])
          /\ \A i \in 1..Len(m) : v[Len(x) + i] = m[i]
      BY <1>4, <3>1, ConcatRow
    <3>3. Len(x) \in Nat /\ Len(m) \in Nat
      BY <1>4, RowFacts
    <3>4. ASSUME NEW i \in 1..Len(v) PROVE ~(v[i].lo < lo /\ lo < v[i].hi)
      <4>1. CASE i \in 1..Len(x)
        <5>1. v[i].hi <= lo /\ v[i].hi \in Nat
          BY <1>4, <1>5, <3>2, <4>1, RowFacts
        <5> QED
          BY <1>2, <5>1
      <4>2. CASE i \notin 1..Len(x)
        <5>1. PICK j : j = i - Len(x)
          OBVIOUS
        <5>2. j \in 1..Len(m) /\ Len(x) + j = i
          BY <3>2, <3>3, <4>2, <5>1
        <5>3. lo <= v[i].lo /\ v[i].lo \in Nat
          BY <1>4, <1>5, <3>2, <5>2, RowFacts
        <5> QED
          BY <1>2, <5>3
      <4> QED
        BY <4>1, <4>2
    <3> QED
      BY <1>4, <3>1, <3>4 DEF Outside
  <2>5. Snug(c, cut.text, cut.atoms)
    <3>1. EdgeSpan(cut.text, c)
      BY <1>2, <1>3, <2>3 DEF EdgeSpan
    <3> QED
      BY <1>3, <2>4, <3>1 DEF Snug
  <2> QED
    BY <1>3, <2>1, <2>2, <2>5, WholeIsSnug DEF Given
<1>7. export.display = Slice(t, r) /\ Placed(export.atoms, lo) = met
  <2>1. /\ export.display = Slice(t, r)
        /\ export.atoms = {ExportAtoms(b)[i] : i \in 1..Len(met)}
        /\ CountedFrom(ExportAtoms(b), met, lo)
    BY <1>1, SelectionExport
  <2>2. Row(met)
    BY <1>1, MetFacts
  <2>3. Placed({ExportAtoms(b)[i] : i \in 1..Len(met)}, lo) = met
    <3>1. CountedFrom(ExportAtoms(b), met, lo) /\ lo \in Nat
      BY <1>2, <2>1
    <3> QED
      BY <2>2, <3>1, PlacedBack
  <2> QED
    BY <2>1, <2>3
<1>8. PICK back : back = Edited(cut, c, Slice(t, r), c, NoSpan, met)
  OBVIOUS
<1>9. back.text = t
  <2>1. back.text = Spliced(cut.text, c, Slice(t, r))
    BY <1>8 DEF Edited, Fitted, Spliced
  <2>2. Spliced(Spliced(t, r, <<>>), Caret(r.lo), Slice(t, r)) = t
    BY <1>2, TextBack
  <2> QED
    BY <1>1, <1>4, <2>1, <2>2
<1>10. Before(cut.atoms, c) = x /\ After(cut.atoms, c) = m
  <2>1. PICK v, A, P, Q : /\ v = x \o m /\ A = ToSet(v)
                          /\ P = {a \in A : a.hi <= lo} /\ Q = {a \in A : a.hi > lo /\ a.lo >= lo}
    OBVIOUS
  <2>2. /\ Row(v) /\ Len(v) = Len(x) + Len(m) /\ (\A i \in 1..Len(x) : v[i] = x[i])
        /\ \A i \in 1..Len(m) : v[Len(x) + i] = m[i]
    BY <1>4, <2>1, ConcatRow
  <2>3. Len(x) \in Nat /\ Len(m) \in Nat /\ A = {v[i] : i \in 1..Len(v)}
        /\ x = [i \in 1..Len(x) |-> x[i]] /\ m = [i \in 1..Len(m) |-> m[i]]
    <3>1. A = {v[i] : i \in 1..Len(v)}
      <4>1. Row(v)
        BY <2>2
      <4>2. ToSet(v) = {v[i] : i \in 1..Len(v)}
        BY <4>1, RowFacts
      <4> QED
        BY <2>1, <4>2
    <3> QED
      BY <1>4, <3>1 DEF Row
  <2>4. ASSUME NEW i \in 1..Len(x) PROVE x[i] \in A /\ x[i] \in P /\ x[i] \notin Q
    <3>1. i \in 1..Len(v)
      BY <2>2, <2>3
    <3>2. x[i] \in A
      BY <2>2, <2>3, <3>1
    <3>3. x[i].hi <= lo /\ x[i].hi \in Nat
      BY <1>4, <1>5, RowFacts
    <3>4. ~(x[i].hi > lo)
      BY <1>2, <3>3
    <3> QED
      BY <2>1, <3>2, <3>3, <3>4
  <2>5. ASSUME NEW i \in 1..Len(m) PROVE m[i] \in A /\ m[i] \notin P /\ m[i] \in Q
    <3>1. Len(x) + i \in 1..Len(v)
      BY <2>2, <2>3
    <3>2. m[i] \in A
      BY <2>2, <2>3, <3>1
    <3>3. PICK k, h : k = m[i].lo /\ h = m[i].hi
      OBVIOUS
    <3>4. k \in Nat /\ h \in Nat /\ k < h /\ lo <= k
      BY <1>4, <1>5, <3>3, RowFacts
    <3>5. ~(h <= lo) /\ h > lo /\ k >= lo
      BY <1>2, <3>4
    <3> QED
      BY <2>1, <3>2, <3>3, <3>5
  <2>6. x \in Seq(A) /\ m \in Seq(A)
    BY <2>3, <2>4, <2>5
  <2>7. Only(x, P) = x /\ Only(m, P) = <<>> /\ Only(x, Q) = <<>> /\ Only(m, Q) = m
    BY <2>4, <2>5, <2>6, KeptWhole, KeptNothing
  <2>8. Only(v, P) = Only(x, P) \o Only(m, P) /\ Only(v, Q) = Only(x, Q) \o Only(m, Q)
    <3>1. Only(x \o m, P) = Only(x, P) \o Only(m, P) /\ Only(x \o m, Q) = Only(x, Q) \o Only(m, Q)
      BY <2>6, OnlyConcat
    <3> QED
      BY <2>1, <3>1
  <2>9. x \o <<>> = x /\ <<>> \o m = m
    BY <2>6
  <2>10. Before(cut.atoms, c) = Only(v, P) /\ After(cut.atoms, c) = Only(v, Q)
    BY <1>3, <1>4, <2>1 DEF Before, After
  <2> QED
    BY <2>7, <2>8, <2>9, <2>10
<1>11. MovedBy(m, hi - lo) = y
  <2>1. DOMAIN m = 1..Len(y) /\ y = [i \in 1..Len(y) |-> y[i]]
    BY <1>4, <1>5, RowFacts DEF Row
  <2>2. ASSUME NEW i \in 1..Len(y) PROVE [m[i] EXCEPT !.lo = @ + (hi - lo), !.hi = @ + (hi - lo)] = y[i]
    <3>1. PICK a, k, h : a = y[i] /\ k = a.lo /\ h = a.hi
      OBVIOUS
    <3>2. IsAtom(a) /\ k \in Nat /\ h \in Nat
      BY <1>4, <3>1 DEF Row, IsAtom
    <3>3. m[i] = PlacedAt(a, lo - hi) /\ IsAtom(m[i])
      BY <1>4, <1>5, <3>1 DEF Row
    <3>4. [m[i] EXCEPT !.lo = @ + (hi - lo), !.hi = @ + (hi - lo)] = PlacedAt(m[i], hi - lo)
      BY <3>3, MovedAtom
    <3>5. /\ m[i].lo = k + (lo - hi) /\ m[i].hi = h + (lo - hi)
          /\ m[i].id = a.id /\ m[i].copy = a.copy
      BY <3>1, <3>3, PlacedFields
    <3>6. m[i].lo + (hi - lo) = k /\ m[i].hi + (hi - lo) = h
      BY <1>2, <3>2, <3>5
    <3>7. PlacedAt(m[i], hi - lo) = [id |-> a.id, lo |-> k, hi |-> h, copy |-> a.copy]
      BY <3>5, <3>6 DEF PlacedAt
    <3> QED
      BY <3>1, <3>2, <3>4, <3>7 DEF IsAtom
  <2>3. MovedBy(m, hi - lo) = [i \in 1..Len(y) |-> y[i]]
    BY <2>1, <2>2 DEF MovedBy
  <2> QED
    BY <2>1, <2>3
<1>12. back.atoms = w
  <2>1. Len(Slice(t, r)) = hi - lo
    BY <1>2, SliceFacts
  <2>2. lo + (hi - lo) - lo = hi - lo
    BY <1>2
  <2>3. back.atoms = Before(cut.atoms, c) \o met \o MovedBy(After(cut.atoms, c), lo + (hi - lo) - lo)
    BY <1>3, <1>8, <2>1 DEF Edited, Fitted, AtomsAfterEdit
  <2>4. back.atoms = x \o met \o y
    BY <1>10, <1>11, <2>2, <2>3
  <2>5. w = (x \o met) \o y
    BY <1>1, <1>2, InThreeParts DEF MetBy
  <2> QED
    BY <2>4, <2>5
<1>13. Value(back) = Value(b)
  BY <1>1, <1>9, <1>12 DEF Value
<1> QED
  BY <1>1, <1>3, <1>6, <1>7, <1>8, <1>13

\* AtomsStayWhole holds of every buffer whose parts fit together: an edit of any range keeps
\* every atom outside it, over its own text, and removes whole each one it meets
\* (state.rs, atom.rs: transform_atoms_after_edit), and what is exported of the selection
\* and pasted back where it was cut gives the same text and atoms (export_range).
THEOREM AtomsStayWholeHolds == Spec => []AtomsStayWhole
<1>1. ASSUME TextInv PROVE AtomsStayWhole
  <2>1. Sound(buffer, setup.mode) /\ setup.mode \in {"SingleLine", "Multiline"}
    BY <1>1, ModeFacts
  <2>2. ASSUME NEW range \in Ranges \ {NoSpan}, NEW text \in Inputs
        PROVE  LET r == ActiveEditRange(buffer, range)
                   replacement == Normalized(text, setup.mode)
                   edited == Edited(buffer, r, replacement, Caret(r.lo), NoSpan, <<>>)
                   named == Clamped(buffer.text, range)
                   apart == Only(buffer.atoms,
                                 {a \in ToSet(buffer.atoms) : IsCaret(named) \/ ~Meets(named, a)})
               IN Shown(edited, edited.atoms) = Shown(buffer, apart)
    <3>1. Given(range) /\ range # NoSpan /\ IsText(text)
      BY <2>2, InputFacts
    <3>2. KeepsApart(buffer, setup.mode, range, text)
      BY <2>1, <3>1, EditsKeepAtoms
    <3> QED
      BY <3>2 DEF KeepsApart
  <2>3. LET cut == Edited(buffer, buffer.selected, <<>>, Caret(buffer.selected.lo), NoSpan, <<>>)
            back == Edited(cut, cut.selected, Selection.display, cut.selected, NoSpan,
                           Placed(Selection.atoms, cut.selected.lo))
        IN /\ ValidSelectionAtoms(Selection.display, Selection.atoms)
           /\ Value(back) = Value(buffer)
    <3>1. ValidSelectionAtoms(Selection.display, Selection.atoms)
      BY <2>1, ExportValid DEF Selection
    <3>2. PICK cut, export :
            /\ cut = Edited(buffer, buffer.selected, <<>>, Caret(buffer.selected.lo), NoSpan, <<>>)
            /\ export = Selection
      OBVIOUS
    <3>3. Value(Edited(cut, cut.selected, export.display, cut.selected, NoSpan,
                       Placed(export.atoms, cut.selected.lo))) = Value(buffer)
      BY <2>1, <3>2, CutComesBack DEF Selection
    <3> QED
      BY <3>1, <3>2, <3>3
  <2> QED
    BY <2>2, <2>3 DEF AtomsStayWhole
<1> QED
  BY <1>1, TextInvariant, PTL
=============================================================================
