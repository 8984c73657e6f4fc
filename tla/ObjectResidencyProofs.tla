------------------------- MODULE ObjectResidencyProofs -------------------------
(***************************************************************************)
(* Answers, residents and gaps of ObjectResidency, for any objects, any    *)
(* demands and any limits.                                                 *)
(*                                                                         *)
(* The gaps a page proves are a matter of order alone: an object the page  *)
(* does not show lies before all that it shows or after all of them, and   *)
(* no nearer than the edge it continues from.  The residents after a step  *)
(* are picked from those before it, so what holds of every two stays true. *)
(***************************************************************************)
EXTENDS ObjectResidency, ListTheorems, FiniteSetTheorems

-----------------------------------------------------------------------------
(* The order of objects and cursors.                                       *)

Positioned(x) == x.at \in Nat /\ x.order \in Nat /\ x.id \in Nat

LEMMA PrecedesTransitive ==
  ASSUME NEW a, NEW b, NEW c, Positioned(a), Positioned(b), Positioned(c),
         Precedes(a, b), Precedes(b, c)
  PROVE  Precedes(a, c)
  BY DEF Positioned, Precedes

LEMMA PrecedesAsymmetric ==
  ASSUME NEW a, NEW b, Positioned(a), Positioned(b), Precedes(a, b)
  PROVE  ~Precedes(b, a)
  BY DEF Positioned, Precedes

LEMMA PrecedesTotal ==
  ASSUME NEW a, NEW b, Positioned(a), Positioned(b)
  PROVE  \/ Precedes(a, b) \/ Precedes(b, a)
         \/ a.at = b.at /\ a.order = b.order /\ a.id = b.id
  BY DEF Positioned, Precedes

\* Every two objects of T have an order.
Chain(T) ==
  /\ \A x \in T : Positioned(x)
  /\ \A x, y \in T : x # y => Precedes(x, y) \/ Precedes(y, x)

\* The one with the fewest before it has none before it.
LEMMA EarliestExists ==
  ASSUME NEW T, IsFiniteSet(T), T # {}, Chain(T)
  PROVE  Earliest(T) \in T /\ \A p \in T \ {Earliest(T)} : Precedes(Earliest(T), p)
<1> DEFINE Ahead(x) == {q \in T : Precedes(q, x)}
           Counts == {Cardinality(Ahead(x)) : x \in T}
<1>1. \A x \in T : IsFiniteSet(Ahead(x)) /\ Cardinality(Ahead(x)) \in Nat
  <2> TAKE x \in T
  <2>1. Ahead(x) \in SUBSET T
    OBVIOUS
  <2> HIDE DEF Ahead
  <2>2. IsFiniteSet(Ahead(x))
    BY <2>1, FS_Subset
  <2> QED
    BY <2>2, FS_CardinalityType
<1>2. Counts \subseteq Nat /\ Counts # {}
  <2> HIDE DEF Ahead
  <2> QED
    BY <1>1
<1>3. PICK n \in Counts : \A m \in Counts : n <= m
  <2> HIDE DEF Counts
  <2> QED
    BY <1>2, LeastNatural
<1>4. PICK x \in T : n = Cardinality(Ahead(x))
  OBVIOUS
<1>5. ASSUME NEW p \in T \ {x} PROVE Precedes(x, p)
  <2> SUFFICES ASSUME ~Precedes(x, p) PROVE FALSE
    OBVIOUS
  <2>1. Precedes(p, x) /\ Positioned(p) /\ Positioned(x)
    BY DEF Chain
  <2>2. Ahead(p) \subseteq Ahead(x)
    <3> SUFFICES ASSUME NEW q \in T, Precedes(q, p) PROVE Precedes(q, x)
      OBVIOUS
    <3>1. Positioned(q)
      BY DEF Chain
    <3> QED
      BY <2>1, <3>1, PrecedesTransitive
  <2>3. p \in Ahead(x) /\ p \notin Ahead(p)
    <3>1. ~Precedes(p, p)
      BY <2>1, PrecedesAsymmetric
    <3> QED
      BY <2>1, <3>1
  <2>4. Cardinality(Ahead(x)) \in Nat /\ Cardinality(Ahead(p)) \in Nat /\ IsFiniteSet(Ahead(x))
    BY <1>1
  <2>5. Cardinality(Ahead(p)) \in Counts
    OBVIOUS
  <2>6. n <= Cardinality(Ahead(p))
    BY <1>3, <2>5
  <2> HIDE DEF Ahead
  <2>7. Cardinality(Ahead(p)) <= Cardinality(Ahead(x))
        /\ (Cardinality(Ahead(x)) = Cardinality(Ahead(p)) => Ahead(x) = Ahead(p))
    BY <2>2, <2>4, FS_Subset
  <2>8. Cardinality(Ahead(x)) = Cardinality(Ahead(p))
    BY <1>4, <2>4, <2>6, <2>7
  <2> QED
    BY <2>3, <2>7, <2>8
<1>6. \E e \in T : \A p \in T \ {e} : Precedes(e, p)
  BY <1>5
<1> QED
  BY <1>6 DEF Earliest

LEMMA LatestExists ==
  ASSUME NEW T, IsFiniteSet(T), T # {}, Chain(T)
  PROVE  Latest(T) \in T /\ \A p \in T \ {Latest(T)} : Precedes(p, Latest(T))
<1> DEFINE Behind(x) == {q \in T : Precedes(x, q)}
           Counts == {Cardinality(Behind(x)) : x \in T}
<1>1. \A x \in T : IsFiniteSet(Behind(x)) /\ Cardinality(Behind(x)) \in Nat
  <2> TAKE x \in T
  <2>1. Behind(x) \in SUBSET T
    OBVIOUS
  <2> HIDE DEF Behind
  <2>2. IsFiniteSet(Behind(x))
    BY <2>1, FS_Subset
  <2> QED
    BY <2>2, FS_CardinalityType
<1>2. Counts \subseteq Nat /\ Counts # {}
  <2> HIDE DEF Behind
  <2> QED
    BY <1>1
<1>3. PICK n \in Counts : \A m \in Counts : n <= m
  <2> HIDE DEF Counts
  <2> QED
    BY <1>2, LeastNatural
<1>4. PICK x \in T : n = Cardinality(Behind(x))
  OBVIOUS
<1>5. ASSUME NEW p \in T \ {x} PROVE Precedes(p, x)
  <2> SUFFICES ASSUME ~Precedes(p, x) PROVE FALSE
    OBVIOUS
  <2>1. Precedes(x, p) /\ Positioned(p) /\ Positioned(x)
    BY DEF Chain
  <2>2. Behind(p) \subseteq Behind(x)
    <3> SUFFICES ASSUME NEW q \in T, Precedes(p, q) PROVE Precedes(x, q)
      OBVIOUS
    <3>1. Positioned(q)
      BY DEF Chain
    <3> QED
      BY <2>1, <3>1, PrecedesTransitive
  <2>3. p \in Behind(x) /\ p \notin Behind(p)
    <3>1. ~Precedes(p, p)
      BY <2>1, PrecedesAsymmetric
    <3> QED
      BY <2>1, <3>1
  <2>4. Cardinality(Behind(x)) \in Nat /\ Cardinality(Behind(p)) \in Nat /\ IsFiniteSet(Behind(x))
    BY <1>1
  <2>5. Cardinality(Behind(p)) \in Counts
    OBVIOUS
  <2>6. n <= Cardinality(Behind(p))
    BY <1>3, <2>5
  <2> HIDE DEF Behind
  <2>7. Cardinality(Behind(p)) <= Cardinality(Behind(x))
        /\ (Cardinality(Behind(x)) = Cardinality(Behind(p)) => Behind(x) = Behind(p))
    BY <2>2, <2>4, FS_Subset
  <2>8. Cardinality(Behind(x)) = Cardinality(Behind(p))
    BY <1>4, <2>4, <2>6, <2>7
  <2> QED
    BY <2>3, <2>7, <2>8
<1>6. \E e \in T : \A p \in T \ {e} : Precedes(p, e)
  BY <1>5
<1> QED
  BY <1>6 DEF Latest

LEMMA EarliestIs ==
  ASSUME NEW T, NEW x \in T, \A y \in T : Positioned(y), \A p \in T \ {x} : Precedes(x, p)
  PROVE  Earliest(T) = x
<1>1. Earliest(T) \in T /\ \A p \in T \ {Earliest(T)} : Precedes(Earliest(T), p)
  BY DEF Earliest
<1>2. ASSUME Earliest(T) # x PROVE FALSE
  <2>1. Precedes(Earliest(T), x) /\ Precedes(x, Earliest(T)) /\ Positioned(x) /\ Positioned(Earliest(T))
    BY <1>1, <1>2
  <2> QED
    BY <2>1, PrecedesAsymmetric
<1> QED
  BY <1>2

LEMMA LatestIs ==
  ASSUME NEW T, NEW x \in T, \A y \in T : Positioned(y), \A p \in T \ {x} : Precedes(p, x)
  PROVE  Latest(T) = x
<1>1. Latest(T) \in T /\ \A p \in T \ {Latest(T)} : Precedes(p, Latest(T))
  BY DEF Latest
<1>2. ASSUME Latest(T) # x PROVE FALSE
  <2>1. Precedes(x, Latest(T)) /\ Precedes(Latest(T), x) /\ Positioned(x) /\ Positioned(Latest(T))
    BY <1>1, <1>2
  <2> QED
    BY <2>1, PrecedesAsymmetric
<1> QED
  BY <1>2

\* A cursor stands where its object stands, and is a cursor.
LEMMA CursorFacts ==
  ASSUME NEW o \in Facts
  PROVE  /\ Positioned(o) /\ Positioned(Cursor(o)) /\ Cursor(o) \in CursorSpace /\ Cursor(o) # None
         /\ Cursor(o).at = o.at /\ Cursor(o).order = o.order /\ Cursor(o).id = o.id
         /\ \A x : (Precedes(Cursor(o), x) <=> Precedes(o, x)) /\ (Precedes(x, Cursor(o)) <=> Precedes(x, o))
<1>1. o \in FactSpace
  BY SourceAssumption
<1>2. o.at \in Nat /\ o.order \in Nat \ {0} /\ o.id \in Nat
  BY <1>1 DEF FactSpace
<1>3. /\ Cursor(o).at = o.at /\ Cursor(o).order = o.order /\ Cursor(o).id = o.id
      /\ Cursor(o) \in CursorSpace
  BY <1>2 DEF Cursor, CursorSpace
<1>4. None.order = 0
  BY DEF None
<1>5. Cursor(o) # None
  BY <1>2, <1>3, <1>4
<1> QED
  BY <1>2, <1>3, <1>5 DEF Positioned, Precedes
-----------------------------------------------------------------------------
(* What a page shows.                                                      *)

Pages ==
  {page \in [id : PageIds, key : Keys, objects : SUBSET Facts, complete : BOOLEAN] :
     IsFiniteSet(page.objects)}

LEMMA PageFacts ==
  ASSUME NEW page \in Pages
  PROVE  /\ page.id \in PageIds /\ page.key \in Keys /\ page.complete \in BOOLEAN
         /\ page.objects \subseteq Facts /\ IsFiniteSet(page.objects)
         /\ page.key.purpose \in Purposes /\ page.key.demand \in Demands
         /\ page.key.demand.cursor \in CursorSpace /\ page.key.demand.forward \in BOOLEAN
         /\ page.key.demand.objects \in Nat /\ page.key.demand.bytes \in Nat
         /\ page.key.demand.lo \in Nat /\ page.key.demand.hi \in Nat
<1>1. page.id \in PageIds /\ page.key \in Keys /\ page.complete \in BOOLEAN
      /\ page.objects \subseteq Facts /\ IsFiniteSet(page.objects)
  BY DEF Pages
<1>2. page.key.demand \in Demands /\ page.key.purpose \in Purposes
  BY <1>1 DEF Keys
<1>3. page.key.demand \in DemandSpace
  BY <1>2, SourceAssumption
<1> QED
  BY <1>1, <1>2, <1>3 DEF DemandSpace

\* The objects of a page are in an order, one to each place.
LEMMA ShownInOrder ==
  ASSUME NEW page \in Pages, Constructed(page), page.objects # {}
  PROVE  /\ Earliest(page.objects) \in page.objects
         /\ \A p \in page.objects : p # Earliest(page.objects) => Precedes(Earliest(page.objects), p)
         /\ Latest(page.objects) \in page.objects
         /\ \A p \in page.objects : p # Latest(page.objects) => Precedes(p, Latest(page.objects))
<1>1. \A o \in page.objects : Positioned(o)
  BY PageFacts, CursorFacts
<1>2. \A o, p \in page.objects : o # p => ~(o.at = p.at /\ o.order = p.order)
  BY DEF Constructed
<1>3. Chain(page.objects)
  BY <1>1, <1>2, PrecedesTotal DEF Chain
<1>4. IsFiniteSet(page.objects)
  BY PageFacts
<1> QED
  BY <1>3, <1>4, EarliestExists, LatestExists

\* An object that is not shown and lies before all that is shown, no nearer than the
\* cursor the page goes on from on that side; or after all of it.
LeftBefore(page, o) ==
  /\ Preceding(page) # None /\ ~Precedes(Preceding(page), o)
  /\ \A p \in page.objects : Precedes(o, p)
LeftAfter(page, o) ==
  /\ Following(page) # None /\ ~Precedes(o, Following(page))
  /\ \A p \in page.objects : Precedes(p, o)

LEMMA LeftOut ==
  ASSUME NEW page \in Pages, Constructed(page), Truthful(page), gen \in Generations,
         NEW o \in Objects[gen], ContainsAnchor(page.key.demand, o.at), o \notin page.objects
  PROVE  LeftBefore(page, o) \/ LeftAfter(page, o)
<1> DEFINE d == page.key.demand
           P == page.objects
<1>1. o \in Facts /\ P \subseteq Facts
  BY SourceAssumption, PageFacts
<1>2. Positioned(o) /\ \A p \in P : Positioned(p)
  BY <1>1, CursorFacts
<1>3. CASE Beyond(d, o)
  <2>1. o \in Asked(d) /\ o \in Asked(d) \ P
    BY <1>3 DEF Asked
  <2>2. ~page.complete /\ P # {}
    BY <2>1 DEF Truthful, Constructed
  <2>3. CASE d.forward
    <3>1. \A p \in P : Precedes(p, o)
      BY <2>1, <2>3 DEF Truthful
    <3>2. Latest(P) \in P
      BY <2>2, ShownInOrder
    <3>3. Following(page) = Cursor(Latest(P))
      BY <2>2, <2>3 DEF Following, Continuation
    <3>4. Cursor(Latest(P)) # None /\ (Precedes(o, Cursor(Latest(P))) <=> Precedes(o, Latest(P)))
      BY <1>1, <3>2, CursorFacts
    <3>5. ~Precedes(o, Latest(P))
      BY <1>2, <3>1, <3>2, PrecedesAsymmetric
    <3> QED
      BY <3>1, <3>3, <3>4, <3>5 DEF LeftAfter
  <2>4. CASE ~d.forward
    <3>1. \A p \in P : Precedes(o, p)
      BY <2>1, <2>4 DEF Truthful
    <3>2. Earliest(P) \in P
      BY <2>2, ShownInOrder
    <3>3. Preceding(page) = Cursor(Earliest(P))
      BY <2>2, <2>4 DEF Preceding, Continuation
    <3>4. Cursor(Earliest(P)) # None /\ (Precedes(Cursor(Earliest(P)), o) <=> Precedes(Earliest(P), o))
      BY <1>1, <3>2, CursorFacts
    <3>5. ~Precedes(Earliest(P), o)
      BY <1>2, <3>1, <3>2, PrecedesAsymmetric
    <3> QED
      BY <3>1, <3>3, <3>4, <3>5 DEF LeftBefore
  <2> QED
    BY <2>3, <2>4
<1>4. CASE ~Beyond(d, o)
  <2>1. d.cursor # None /\ (d.forward => ~Precedes(d.cursor, o)) /\ (~d.forward => ~Precedes(o, d.cursor))
    BY <1>4 DEF Beyond
  <2>2. Positioned(d.cursor)
    BY PageFacts DEF CursorSpace, Positioned
  <2>3. \A p \in P : Beyond(d, p)
    BY DEF Constructed
  <2>4. CASE d.forward
    <3>1. Preceding(page) = d.cursor
      BY <2>4 DEF Preceding
    <3>2. ASSUME NEW p \in P PROVE Precedes(o, p)
      <4>1. Precedes(d.cursor, p)
        BY <2>1, <2>3, <2>4 DEF Beyond
      <4>2. CASE Precedes(o, d.cursor)
        BY <1>2, <2>2, <4>1, <4>2, PrecedesTransitive
      <4>3. CASE d.cursor.at = o.at /\ d.cursor.order = o.order /\ d.cursor.id = o.id
        BY <4>1, <4>3 DEF Precedes
      <4> QED
        BY <1>2, <2>1, <2>2, <2>4, <4>2, <4>3, PrecedesTotal
    <3> QED
      BY <2>1, <2>4, <3>1, <3>2 DEF LeftBefore
  <2>5. CASE ~d.forward
    <3>1. Following(page) = d.cursor
      BY <2>5 DEF Following
    <3>2. ASSUME NEW p \in P PROVE Precedes(p, o)
      <4>1. Precedes(p, d.cursor)
        BY <2>1, <2>3, <2>5 DEF Beyond
      <4>2. CASE Precedes(d.cursor, o)
        BY <1>2, <2>2, <4>1, <4>2, PrecedesTransitive
      <4>3. CASE d.cursor.at = o.at /\ d.cursor.order = o.order /\ d.cursor.id = o.id
        BY <4>1, <4>3 DEF Precedes
      <4> QED
        BY <1>2, <2>1, <2>2, <2>5, <4>2, <4>3, PrecedesTotal
    <3> QED
      BY <2>1, <2>5, <3>1, <3>2 DEF LeftAfter
  <2> QED
    BY <2>4, <2>5
<1> QED
  BY <1>3, <1>4

-----------------------------------------------------------------------------
(* What gaps a page proves.                                                *)

\* The cursors at an anchor, of objects shown or of objects there are.
Standing(objects, at) == {Cursor(o) : o \in {o \in objects : o.at = at}}

LEMMA StandingFacts ==
  ASSUME NEW objects, objects \subseteq Facts, NEW at
  PROVE  /\ \A c \in Standing(objects, at) : Positioned(c) /\ c \in CursorSpace /\ c # None /\ c.at = at
         /\ \A c \in Standing(objects, at) : \E o \in objects : c = Cursor(o) /\ o.at = at
         /\ \A o \in objects : o.at = at => Cursor(o) \in Standing(objects, at)
<1>1. \A o \in objects : Positioned(Cursor(o)) /\ Cursor(o) \in CursorSpace /\ Cursor(o) # None /\ Cursor(o).at = o.at
  BY CursorFacts
<1> QED
  BY <1>1 DEF Standing

LEMMA StandingChain ==
  ASSUME NEW page \in Pages, Constructed(page), NEW at, Standing(page.objects, at) # {}
  PROVE  LET T == Standing(page.objects, at)
         IN  /\ Earliest(T) \in T /\ \A p \in T \ {Earliest(T)} : Precedes(Earliest(T), p)
             /\ Latest(T) \in T /\ \A p \in T \ {Latest(T)} : Precedes(p, Latest(T))
<1> DEFINE T == Standing(page.objects, at)
           C == {Cursor(o) : o \in page.objects}
<1>1. page.objects \subseteq Facts /\ IsFiniteSet(page.objects)
  BY PageFacts
<1>2. IsFiniteSet(T)
  <2> DEFINE f == [o \in page.objects |-> Cursor(o)]
  <2>1. IsFiniteSet(C)
    <3>1. f \in Surjection(page.objects, C)
      BY DEF Surjection
    <3> HIDE DEF f, C
    <3> QED
      BY <1>1, <3>1, FS_Surjection
  <2>2. T \in SUBSET C
    BY DEF Standing
  <2> HIDE DEF C, T
  <2> QED
    BY <2>1, <2>2, FS_Subset
<1>3. Chain(T)
  <2>1. \A c \in T : Positioned(c)
    BY <1>1, StandingFacts
  <2>2. ASSUME NEW x \in T, NEW y \in T, x # y PROVE Precedes(x, y) \/ Precedes(y, x)
    <3>1. PICK o \in page.objects : x = Cursor(o)
      BY <1>1, StandingFacts
    <3>2. PICK p \in page.objects : y = Cursor(p)
      BY <1>1, StandingFacts
    <3>3. o # p
      BY <2>2, <3>1, <3>2
    <3>4. ~(o.at = p.at /\ o.order = p.order)
      BY <3>3 DEF Constructed
    <3>5. o \in Facts /\ p \in Facts
      BY <1>1
    <3>6. x.at = o.at /\ x.order = o.order /\ y.at = p.at /\ y.order = p.order
      BY <3>1, <3>2, <3>5, CursorFacts
    <3> QED
      BY <2>1, <3>4, <3>6, PrecedesTotal
  <2> QED
    BY <2>1, <2>2 DEF Chain
<1> HIDE DEF T
<1>4. /\ Earliest(T) \in T /\ \A p \in T \ {Earliest(T)} : Precedes(Earliest(T), p)
      /\ Latest(T) \in T /\ \A p \in T \ {Latest(T)} : Precedes(p, Latest(T))
  BY <1>2, <1>3, EarliestExists, LatestExists DEF T
<1> QED
  BY <1>4 DEF T

\* Nothing is left out between what the page shows and an anchor it shows completely.
LEMMA CompleteBefore ==
  ASSUME NEW page \in Pages, NEW o \in Facts, PrecedingComplete(page, o.at)
  PROVE  ~LeftBefore(page, o)
<1> SUFFICES ASSUME LeftBefore(page, o) PROVE FALSE
  OBVIOUS
<1>1. Positioned(o) /\ \A p \in page.objects : Positioned(p)
  BY PageFacts, CursorFacts
<1>2. CASE \E p \in page.objects : p.at < o.at
  BY <1>1, <1>2 DEF LeftBefore, Precedes, Positioned
<1>3. CASE Preceding(page) = None \/ Preceding(page).at < o.at
  BY <1>3 DEF LeftBefore, Precedes
<1> QED
  BY <1>2, <1>3 DEF PrecedingComplete

LEMMA CompleteAfter ==
  ASSUME NEW page \in Pages, NEW o \in Facts, FollowingComplete(page, o.at),
         Following(page) \in CursorSpace
  PROVE  ~LeftAfter(page, o)
<1> SUFFICES ASSUME LeftAfter(page, o) PROVE FALSE
  OBVIOUS
<1>1. Positioned(o) /\ \A p \in page.objects : Positioned(p)
  BY PageFacts, CursorFacts
<1>2. CASE \E p \in page.objects : p.at > o.at
  BY <1>1, <1>2 DEF LeftAfter, Precedes, Positioned
<1>3. CASE Following(page) = None \/ Following(page).at > o.at
  <2>1. Following(page).at \in Nat
    BY DEF CursorSpace
  <2> QED
    BY <1>1, <1>3, <2>1 DEF LeftAfter, Precedes, Positioned
<1> QED
  BY <1>2, <1>3 DEF FollowingComplete

\* An edge is no cursor, or the cursor of an object of the source; the one it continues
\* from is shown.
LEMMA EdgeFacts ==
  ASSUME NEW page \in Pages, Constructed(page), Truthful(page), gen \in Generations
  PROVE  /\ Preceding(page) # None => Preceding(page) \in {Cursor(o) : o \in Objects[gen]}
         /\ Following(page) # None => Following(page) \in {Cursor(o) : o \in Objects[gen]}
         /\ Preceding(page) \in CursorSpace /\ Following(page) \in CursorSpace
<1> DEFINE C == {Cursor(o) : o \in Objects[gen]}
<1>1. Continuation(page) # None => Continuation(page) \in C
  <2> SUFFICES ASSUME Continuation(page) # None PROVE Continuation(page) \in C
    OBVIOUS
  <2>1. ~page.complete /\ page.objects # {}
    BY DEF Continuation, Constructed
  <2>2. Earliest(page.objects) \in page.objects /\ Latest(page.objects) \in page.objects
    BY <2>1, ShownInOrder
  <2>3. page.objects \subseteq Objects[gen]
    BY DEF Truthful, Asked
  <2> QED
    BY <2>1, <2>2, <2>3 DEF Continuation
<1>2. page.key.demand.cursor # None => page.key.demand.cursor \in C
  BY DEF Truthful
<1>3. C \subseteq CursorSpace /\ None \in CursorSpace
  <2>1. Objects[gen] \subseteq Facts
    BY SourceAssumption
  <2>2. None \in CursorSpace
    BY DEF None, CursorSpace
  <2> QED
    BY <2>1, <2>2, CursorFacts
<1> HIDE DEF C
<1>4. /\ Preceding(page) = None \/ Preceding(page) \in C
      /\ Following(page) = None \/ Following(page) \in C
  BY <1>1, <1>2 DEF Preceding, Following
<1> QED
  BY <1>3, <1>4 DEF C
LEMMA GapFacts ==
  ASSUME extent \in Nat, NEW gap \in Gaps
  PROVE  /\ gap.at \in Nat /\ Orderly(gap)
         /\ gap.preceding # None => gap.preceding \in CursorSpace /\ gap.preceding.at = gap.at
         /\ gap.following # None => gap.following \in CursorSpace /\ gap.following.at = gap.at
<1>1. PICK at \in 0..extent : \E before, after \in Neighbours(at) : gap = Gap(at, before, after)
  BY DEF Gaps
<1>2. PICK before \in Neighbours(at), after \in Neighbours(at) : gap = Gap(at, before, after)
  BY <1>1
<1>3. \A x \in Neighbours(at) : x # None => x \in CursorSpace /\ x.at = at
  <2>1. \A o \in Facts : o.order \in Nat /\ o.id \in Nat
    BY CursorFacts DEF Positioned
  <2> QED
    BY <1>1, <2>1 DEF Neighbours, CursorSpace
<1>4. gap.at = at /\ gap.preceding = before /\ gap.following = after
  BY <1>2 DEF Gap
<1> QED
  BY <1>2, <1>3, <1>4 DEF Gaps

\* What a proved gap says of the objects shown, and of those that are not.
LEMMA ProvenFacts ==
  ASSUME gen \in Generations, extent \in Nat, NEW page \in Pages, Constructed(page), Truthful(page),
         NEW at \in Nat, ContainsAnchor(page.key.demand, at)
  PROVE  /\ Standing(page.objects, at) \subseteq Standing(Objects[gen], at)
         /\ \A c \in Standing(Objects[gen], at) \ Standing(page.objects, at) :
              \/ /\ ~PrecedingComplete(page, at)
                 /\ Preceding(page) # None /\ ~Precedes(Preceding(page), c)
                 /\ \A p \in Standing(page.objects, at) : Precedes(c, p)
              \/ /\ ~FollowingComplete(page, at)
                 /\ Following(page) # None /\ ~Precedes(c, Following(page))
                 /\ \A p \in Standing(page.objects, at) : Precedes(p, c)
<1>1. Objects[gen] \subseteq Facts /\ page.objects \subseteq Facts /\ page.objects \subseteq Objects[gen]
  BY SourceAssumption, PageFacts DEF Truthful, Asked
<1>2. Standing(page.objects, at) \subseteq Standing(Objects[gen], at)
  BY <1>1 DEF Standing
<1>3. ASSUME NEW c \in Standing(Objects[gen], at) \ Standing(page.objects, at)
      PROVE  \/ /\ ~PrecedingComplete(page, at)
                /\ Preceding(page) # None /\ ~Precedes(Preceding(page), c)
                /\ \A p \in Standing(page.objects, at) : Precedes(c, p)
             \/ /\ ~FollowingComplete(page, at)
                /\ Following(page) # None /\ ~Precedes(c, Following(page))
                /\ \A p \in Standing(page.objects, at) : Precedes(p, c)
  <2>1. PICK o \in Objects[gen] : c = Cursor(o) /\ o.at = at
    BY <1>1, StandingFacts, SMTT(30)
  <2>2. o \in Facts /\ o \notin page.objects
    BY <1>1, <1>3, <2>1, StandingFacts
  <2>3. \A p \in Standing(page.objects, at) : \E q \in page.objects : p = Cursor(q)
    BY DEF Standing
  <2>4. \A x : (Precedes(c, x) <=> Precedes(o, x)) /\ (Precedes(x, c) <=> Precedes(x, o))
    BY <2>1, <2>2, CursorFacts
  <2>5. ASSUME NEW p \in Standing(page.objects, at)
        PROVE  \E q \in page.objects : (Precedes(c, p) <=> Precedes(o, q)) /\ (Precedes(p, c) <=> Precedes(q, o))
    <3>1. PICK q \in page.objects : p = Cursor(q)
      BY <2>3
    <3>2. q \in Facts
      BY <1>1
    <3>3. \A x : (Precedes(p, x) <=> Precedes(q, x)) /\ (Precedes(x, p) <=> Precedes(x, q))
      BY <3>1, <3>2, CursorFacts
    <3> QED
      BY <2>4, <3>3
  <2>6. LeftBefore(page, o) \/ LeftAfter(page, o)
    BY <2>1, <2>2, LeftOut
  <2>7. CASE LeftBefore(page, o)
    <3>1. ~PrecedingComplete(page, at)
      BY <2>1, <2>2, <2>7, CompleteBefore
    <3> QED
      BY <2>4, <2>5, <2>7, <3>1 DEF LeftBefore
  <2>8. CASE LeftAfter(page, o)
    <3>1. ~FollowingComplete(page, at)
      BY <2>1, <2>2, <2>8, CompleteAfter, EdgeFacts
    <3> QED
      BY <2>4, <2>5, <2>8, <3>1 DEF LeftAfter
  <2> QED
    BY <2>6, <2>7, <2>8
<1> QED
  BY <1>2, <1>3

\* A gap that a page of a truthful host proves is a gap of the source.
LEMMA ProvenGapIsTrue ==
  ASSUME gen \in Generations, extent \in Nat, NEW page \in Pages, Constructed(page), Truthful(page),
         NEW gap \in Gaps, ProvesGap(page, gap)
  PROVE  TrueGap(gap)
<1> DEFINE T == Standing(page.objects, gap.at)
           S == Standing(Objects[gen], gap.at)
           a == gap.preceding
           b == gap.following
<1>1. /\ gap.at \in Nat /\ Orderly(gap)
      /\ a # None => a \in CursorSpace /\ a.at = gap.at
      /\ b # None => b \in CursorSpace /\ b.at = gap.at
  BY GapFacts
<1>2. ContainsAnchor(page.key.demand, gap.at)
  BY DEF ProvesGap
<1>3. /\ T \subseteq S
      /\ \A c \in S \ T :
           \/ /\ ~PrecedingComplete(page, gap.at)
              /\ Preceding(page) # None /\ ~Precedes(Preceding(page), c)
              /\ \A p \in T : Precedes(c, p)
           \/ /\ ~FollowingComplete(page, gap.at)
              /\ Following(page) # None /\ ~Precedes(c, Following(page))
              /\ \A p \in T : Precedes(p, c)
  BY <1>1, <1>2, ProvenFacts
<1>4. \A c \in S : Positioned(c) /\ c \in CursorSpace /\ c # None /\ c.at = gap.at
  <2>1. Objects[gen] \subseteq Facts
    BY SourceAssumption
  <2> QED
    BY <2>1, StandingFacts
<1>5. T # {} => /\ Earliest(T) \in T /\ \A p \in T \ {Earliest(T)} : Precedes(Earliest(T), p)
                /\ Latest(T) \in T /\ \A p \in T \ {Latest(T)} : Precedes(p, Latest(T))
  BY StandingChain
<1>6. /\ a = None /\ b = None => T = {} /\ PrecedingComplete(page, gap.at) /\ FollowingComplete(page, gap.at)
      /\ a = None /\ b # None => T # {} /\ b = Earliest(T) /\ PrecedingComplete(page, gap.at)
      /\ a # None /\ b = None => T # {} /\ a = Latest(T) /\ FollowingComplete(page, gap.at)
      /\ a # None /\ b # None =>
           \/ Adjacent(a, b, T)
           \/ T # {} /\ b = Earliest(T) /\ Preceding(page) = a
           \/ T # {} /\ a = Latest(T) /\ Following(page) = b
  BY DEF ProvesGap, Standing
<1>7. /\ Preceding(page) # None => Preceding(page) \in {Cursor(o) : o \in Objects[gen]}
      /\ Following(page) # None => Following(page) \in {Cursor(o) : o \in Objects[gen]}
  BY EdgeFacts
<1>8. \A c \in {Cursor(o) : o \in Objects[gen]} : c.at = gap.at => c \in S
  <2>1. \A o \in Objects[gen] : Cursor(o).at = o.at
    BY SourceAssumption, CursorFacts
  <2> QED
    BY <2>1 DEF Standing
<1> HIDE DEF T, S
<1>9. CASE a = None /\ b = None
  <2>1. S = {}
    BY <1>3, <1>6, <1>9
  <2> QED
    BY <1>9, <2>1 DEF TrueGap, S, Standing
<1>10. CASE a = None /\ b # None
  <2>1. b \in S /\ b \in T
    BY <1>3, <1>5, <1>6, <1>10
  <2>2. \A p \in S \ {b} : Precedes(b, p)
    BY <1>3, <1>5, <1>6, <1>10, <2>1
  <2>3. Earliest(S) = b
    BY <1>4, <2>1, <2>2, EarliestIs
  <2> QED
    BY <1>10, <2>1, <2>3 DEF TrueGap, S, Standing
<1>11. CASE a # None /\ b = None
  <2>1. a \in S /\ a \in T
    BY <1>3, <1>5, <1>6, <1>11
  <2>2. \A p \in S \ {a} : Precedes(p, a)
    BY <1>3, <1>5, <1>6, <1>11, <2>1
  <2>3. Latest(S) = a
    BY <1>4, <2>1, <2>2, LatestIs
  <2> QED
    BY <1>11, <2>1, <2>3 DEF TrueGap, S, Standing
<1>12. CASE a # None /\ b # None
  <2>0. a.at = gap.at /\ b.at = gap.at /\ Positioned(a) /\ Positioned(b) /\ a.order < b.order
    BY <1>1, <1>12 DEF Orderly, CursorSpace, Positioned
  <2>1. Precedes(a, b)
    BY <2>0 DEF Precedes
  <2>2. ASSUME Adjacent(a, b, T) PROVE Adjacent(a, b, S)
    <3>1. a \in T /\ b \in T
      BY <2>2 DEF Adjacent
    <3>2. ASSUME NEW c \in S, Precedes(a, c), Precedes(c, b) PROVE FALSE
      <4>1. c \notin T
        BY <2>2, <3>2 DEF Adjacent
      <4>2. Precedes(c, a) \/ Precedes(b, c)
        BY <1>3, <3>1, <4>1
      <4> QED
        BY <1>4, <2>0, <3>2, <4>2, PrecedesAsymmetric
    <3> QED
      BY <1>3, <2>1, <3>1, <3>2 DEF Adjacent
  <2>3. ASSUME T # {}, b = Earliest(T), Preceding(page) = a PROVE Adjacent(a, b, S)
    <3>1. b \in T /\ \A p \in T \ {b} : Precedes(b, p)
      BY <1>5, <2>3
    <3>2. a \in S
      BY <1>7, <1>8, <1>12, <2>0, <2>3
    <3>3. ASSUME NEW c \in S, Precedes(a, c), Precedes(c, b) PROVE FALSE
      <4>1. CASE c \in T
        <5>1. c = b \/ Precedes(b, c)
          BY <3>1, <4>1
        <5>2. ~Precedes(b, c) /\ c # b
          BY <1>4, <2>0, <3>3, PrecedesAsymmetric
        <5> QED
          BY <5>1, <5>2
      <4>2. CASE c \notin T
        <5>1. ~Precedes(a, c) \/ Precedes(b, c)
          BY <1>3, <2>3, <3>1, <4>2
        <5> QED
          BY <1>4, <2>0, <3>3, <5>1, PrecedesAsymmetric
      <4> QED
        BY <4>1, <4>2
    <3> QED
      BY <1>3, <2>1, <3>1, <3>2, <3>3 DEF Adjacent
  <2>4. ASSUME T # {}, a = Latest(T), Following(page) = b PROVE Adjacent(a, b, S)
    <3>1. a \in T /\ \A p \in T \ {a} : Precedes(p, a)
      BY <1>5, <2>4
    <3>2. b \in S
      BY <1>7, <1>8, <1>12, <2>0, <2>4
    <3>3. ASSUME NEW c \in S, Precedes(a, c), Precedes(c, b) PROVE FALSE
      <4>1. CASE c \in T
        <5>1. c = a \/ Precedes(c, a)
          BY <3>1, <4>1
        <5>2. ~Precedes(c, a) /\ c # a
          BY <1>4, <2>0, <3>3, PrecedesAsymmetric
        <5> QED
          BY <5>1, <5>2
      <4>2. CASE c \notin T
        <5>1. ~Precedes(c, b) \/ Precedes(c, a)
          BY <1>3, <2>4, <3>1, <4>2
        <5> QED
          BY <1>4, <2>0, <3>3, <5>1, PrecedesAsymmetric
      <4> QED
        BY <4>1, <4>2
    <3> QED
      BY <1>3, <2>1, <3>1, <3>2, <3>3 DEF Adjacent
  <2>5. Adjacent(a, b, S)
    BY <1>6, <1>12, <2>2, <2>3, <2>4
  <2> QED
    BY <1>12, <2>5 DEF TrueGap, S, Standing
<1> QED
  BY <1>9, <1>10, <1>11, <1>12

\* A complete page without a cursor proves every gap there is in its envelope.
LEMMA TrueGapIsProven ==
  ASSUME gen \in Generations, extent \in Nat, NEW page \in Pages, Constructed(page), Truthful(page),
         NEW gap \in Gaps, TrueGap(gap), page.complete, page.key.demand.cursor = None,
         ContainsAnchor(page.key.demand, gap.at)
  PROVE  ProvesGap(page, gap)
<1> DEFINE T == Standing(page.objects, gap.at)
           S == Standing(Objects[gen], gap.at)
           d == page.key.demand
<1>1. page.objects = {o \in Objects[gen] : ContainsAnchor(d, o.at)}
  BY DEF Truthful, Asked, Beyond
<1>2. T = S
  <2>1. \A o \in Objects[gen] : o.at = gap.at => o \in page.objects
    BY <1>1
  <2>2. page.objects \subseteq Objects[gen]
    BY <1>1
  <2> QED
    BY <2>1, <2>2 DEF Standing
<1>3. Preceding(page) = None /\ Following(page) = None
  BY DEF Preceding, Following, Continuation
<1>4. PrecedingComplete(page, gap.at) /\ FollowingComplete(page, gap.at)
  BY <1>3 DEF PrecedingComplete, FollowingComplete
<1>5. /\ gap.preceding = None /\ gap.following = None => S = {}
      /\ gap.preceding = None /\ gap.following # None => S # {} /\ gap.following = Earliest(S)
      /\ gap.preceding # None /\ gap.following = None => S # {} /\ gap.preceding = Latest(S)
      /\ gap.preceding # None /\ gap.following # None => Adjacent(gap.preceding, gap.following, S)
  BY DEF TrueGap, Standing
<1>6. /\ gap.preceding = None /\ gap.following = None => T = {}
      /\ gap.preceding = None /\ gap.following # None => T # {} /\ gap.following = Earliest(T)
      /\ gap.preceding # None /\ gap.following = None => T # {} /\ gap.preceding = Latest(T)
      /\ gap.preceding # None /\ gap.following # None => Adjacent(gap.preceding, gap.following, T)
  <2> HIDE DEF T, S
  <2> QED
    BY <1>2, <1>5
<1>7. T = {Cursor(o) : o \in {o \in page.objects : o.at = gap.at}}
  BY DEF Standing
<1> HIDE DEF T, S
<1> QED
  BY <1>4, <1>6, <1>7 DEF ProvesGap
-----------------------------------------------------------------------------
(* What requests and pages weigh.                                          *)

AskObjects == [key \in Keys |-> key.demand.objects]
AskBytes == [key \in Keys |-> key.demand.bytes]

TotalAsked(keys) == [objects |-> TotalObjects(keys), bytes |-> TotalBytes(keys)]

LEMMA AskNat ==
  /\ \A key \in Keys : AskObjects[key] = key.demand.objects /\ AskObjects[key] \in Nat
  /\ \A key \in Keys : AskBytes[key] = key.demand.bytes /\ AskBytes[key] \in Nat
<1>1. \A key \in Keys : key.demand \in DemandSpace
  BY SourceAssumption DEF Keys
<1> QED
  BY <1>1 DEF AskObjects, AskBytes, DemandSpace

LEMMA AskedWeighs ==
  ASSUME NEW keys \in Seq(Keys)
  PROVE  /\ TotalObjects(keys) = Weighs(keys, AskObjects) /\ TotalObjects(keys) \in Nat
         /\ TotalBytes(keys) = Weighs(keys, AskBytes) /\ TotalBytes(keys) \in Nat
<1>1. DOMAIN keys = 1..Len(keys) /\ \A i \in 1..Len(keys) : keys[i] \in Keys
  OBVIOUS
<1>2. [i \in DOMAIN keys |-> keys[i].demand.objects] = Weights(keys, AskObjects)
  <2>1. \A i \in 1..Len(keys) : keys[i].demand.objects = AskObjects[keys[i]]
    BY <1>1, AskNat
  <2> QED
    BY <1>1, <2>1 DEF Weights
<1>3. [i \in DOMAIN keys |-> keys[i].demand.bytes] = Weights(keys, AskBytes)
  <2>1. \A i \in 1..Len(keys) : keys[i].demand.bytes = AskBytes[keys[i]]
    BY <1>1, AskNat
  <2> QED
    BY <1>1, <2>1 DEF Weights
<1>4. TotalObjects(keys) = Weighs(keys, AskObjects) /\ TotalBytes(keys) = Weighs(keys, AskBytes)
  BY <1>2, <1>3 DEF TotalObjects, TotalBytes, Weighs
<1>5. Weighs(keys, AskObjects) \in Nat /\ Weighs(keys, AskBytes) \in Nat
  BY AskNat, WeighsNat
<1> QED
  BY <1>4, <1>5

LEMMA AskedEmpty == TotalAsked(<<>>) = [objects |-> 0, bytes |-> 0]
<1>1. <<>> \in Seq(Keys)
  OBVIOUS
<1> QED
  BY <1>1, AskedWeighs, WeighsEmpty DEF TotalAsked

LEMMA AskedAppend ==
  ASSUME NEW keys \in Seq(Keys), NEW key \in Keys
  PROVE  /\ Append(keys, key) \in Seq(Keys)
         /\ Add(TotalAsked(keys), key) = TotalAsked(Append(keys, key))
<1>1. Append(keys, key) \in Seq(Keys)
  BY AppendIn
<1>2. /\ Weighs(Append(keys, key), AskObjects) = Weighs(keys, AskObjects) + AskObjects[key]
      /\ Weighs(Append(keys, key), AskBytes) = Weighs(keys, AskBytes) + AskBytes[key]
  BY AskNat, WeighsAppend
<1>3. /\ TotalObjects(Append(keys, key)) = TotalObjects(keys) + key.demand.objects
      /\ TotalBytes(Append(keys, key)) = TotalBytes(keys) + key.demand.bytes
  BY <1>1, <1>2, AskedWeighs, AskNat
<1> QED
  BY <1>1, <1>3 DEF Add, TotalAsked

LEMMA AskedOne ==
  ASSUME NEW key \in Keys
  PROVE  /\ <<key>> \in Seq(Keys)
         /\ TotalObjects(<<key>>) = key.demand.objects /\ TotalBytes(<<key>>) = key.demand.bytes
<1>1. <<>> \in Seq(Keys) /\ Append(<<>>, key) = <<key>> /\ <<key>> \in Seq(Keys)
  OBVIOUS
<1>2. /\ Weighs(Append(<<>>, key), AskObjects) = 0 + AskObjects[key]
      /\ Weighs(Append(<<>>, key), AskBytes) = 0 + AskBytes[key]
  <2>1. PICK none \in Seq(Keys) : none = <<>>
    BY <1>1
  <2>2. Weighs(none, AskObjects) = 0 /\ Weighs(none, AskBytes) = 0
    BY <2>1, WeighsEmpty
  <2>3. /\ Weighs(Append(none, key), AskObjects) = Weighs(none, AskObjects) + AskObjects[key]
        /\ Weighs(Append(none, key), AskBytes) = Weighs(none, AskBytes) + AskBytes[key]
    BY AskNat, WeighsAppend
  <2> QED
    BY <2>1, <2>2, <2>3
<1>3. /\ Weighs(<<key>>, AskObjects) = key.demand.objects
      /\ Weighs(<<key>>, AskBytes) = key.demand.bytes
  BY <1>1, <1>2, AskNat
<1> QED
  BY <1>1, <1>3, AskedWeighs

\* Counts without some keys, where the rest is what stays.
LEMMA AskedRest ==
  ASSUME NEW keys \in Seq(Keys), NEW gone \in Seq(Keys), NEW rest \in Seq(Keys),
         TotalObjects(gone) + TotalObjects(rest) = TotalObjects(keys),
         TotalBytes(gone) + TotalBytes(rest) = TotalBytes(keys)
  PROVE  /\ Subtract(TotalAsked(keys), gone) = TotalAsked(rest)
         /\ TotalObjects(rest) <= TotalObjects(keys) /\ TotalBytes(rest) <= TotalBytes(keys)
<1>1. PICK a \in Nat : a = TotalObjects(gone)
  BY AskedWeighs
<1>2. PICK b \in Nat : b = TotalObjects(rest)
  BY AskedWeighs
<1>3. PICK c \in Nat : c = TotalBytes(gone)
  BY AskedWeighs
<1>4. PICK d \in Nat : d = TotalBytes(rest)
  BY AskedWeighs
<1>5. /\ TotalObjects(keys) - a = b /\ b <= TotalObjects(keys)
      /\ TotalBytes(keys) - c = d /\ d <= TotalBytes(keys)
  BY <1>1, <1>2, <1>3, <1>4, SMTT(30)
<1> QED
  BY <1>1, <1>2, <1>3, <1>4, <1>5 DEF Subtract, TotalAsked

LEMMA AskedSplit ==
  ASSUME NEW keys \in Seq(Keys), NEW S
  PROVE  /\ Removed(keys, S) \in Seq(Keys) /\ Only(keys, S) \in Seq(Keys)
         /\ Len(Removed(keys, S)) = Len(keys) - Len(Only(keys, S))
         /\ Len(Only(keys, S)) \in Nat
         /\ Subtract(TotalAsked(keys), Only(keys, S)) = TotalAsked(Removed(keys, S))
         /\ TotalObjects(Removed(keys, S)) <= TotalObjects(keys)
         /\ TotalBytes(Removed(keys, S)) <= TotalBytes(keys)
<1> DEFINE R == Keys \ S
<1>1. Removed(keys, S) = Only(keys, R)
  BY RemovedOnly
<1>2. /\ Weighs(Only(keys, S), AskObjects) + Weighs(Only(keys, R), AskObjects) = Weighs(keys, AskObjects)
      /\ Weighs(Only(keys, S), AskBytes) + Weighs(Only(keys, R), AskBytes) = Weighs(keys, AskBytes)
  BY AskNat, WeighsSplit
<1>3. Len(Only(keys, S)) + Len(Only(keys, R)) = Len(keys)
  BY SplitLength
<1> HIDE DEF R
<1>4. PICK rest \in Seq(Keys) : rest = Only(keys, R)
  BY OnlyShorter
<1>5. PICK gone \in Seq(Keys) : gone = Only(keys, S)
  BY OnlyShorter
<1>6. /\ TotalObjects(gone) + TotalObjects(rest) = TotalObjects(keys)
      /\ TotalBytes(gone) + TotalBytes(rest) = TotalBytes(keys)
  BY <1>2, <1>4, <1>5, AskedWeighs
<1>7. /\ Subtract(TotalAsked(keys), gone) = TotalAsked(rest)
      /\ TotalObjects(rest) <= TotalObjects(keys) /\ TotalBytes(rest) <= TotalBytes(keys)
  BY <1>6, AskedRest
<1>8. Len(rest) = Len(keys) - Len(gone) /\ Len(gone) \in Nat
  BY <1>3, <1>4, <1>5
<1> QED
  BY <1>1, <1>4, <1>5, <1>7, <1>8

LEMMA AskedLess ==
  ASSUME NEW keys \in Seq(Keys), NEW i \in 1..Len(keys)
  PROVE  /\ Less(keys, i) \in Seq(Keys) /\ Len(Less(keys, i)) = Len(keys) - 1
         /\ Subtract(TotalAsked(keys), <<keys[i]>>) = TotalAsked(Less(keys, i))
         /\ TotalObjects(Less(keys, i)) <= TotalObjects(keys)
         /\ TotalBytes(Less(keys, i)) <= TotalBytes(keys)
<1>1. PICK rest \in Seq(Keys) : rest = Less(keys, i) /\ Len(rest) = Len(keys) - 1
  BY LessFacts
<1>2. keys[i] \in Keys
  OBVIOUS
<1>3. PICK gone \in Seq(Keys) : gone = <<keys[i]>>
  <2>1. <<keys[i]>> \in Seq(Keys)
    BY <1>2
  <2> QED
    BY <2>1
<1>4. TotalObjects(gone) = AskObjects[keys[i]] /\ TotalBytes(gone) = AskBytes[keys[i]]
  BY <1>2, <1>3, AskedOne, AskNat
<1>5. /\ Weighs(Less(keys, i), AskObjects) + AskObjects[keys[i]] = Weighs(keys, AskObjects)
      /\ Weighs(Less(keys, i), AskBytes) + AskBytes[keys[i]] = Weighs(keys, AskBytes)
  BY AskNat, LessWeighs
<1>6. /\ TotalObjects(rest) = Weighs(Less(keys, i), AskObjects) /\ TotalObjects(rest) \in Nat
      /\ TotalBytes(rest) = Weighs(Less(keys, i), AskBytes) /\ TotalBytes(rest) \in Nat
      /\ TotalObjects(gone) \in Nat /\ TotalBytes(gone) \in Nat
      /\ TotalObjects(keys) = Weighs(keys, AskObjects) /\ TotalBytes(keys) = Weighs(keys, AskBytes)
  BY <1>1, AskedWeighs
<1>7. TotalObjects(rest) + TotalObjects(gone) = TotalObjects(keys)
      /\ TotalBytes(rest) + TotalBytes(gone) = TotalBytes(keys)
  BY <1>4, <1>5, <1>6
<1>8. TotalObjects(gone) + TotalObjects(rest) = TotalObjects(keys)
      /\ TotalBytes(gone) + TotalBytes(rest) = TotalBytes(keys)
  BY <1>6, <1>7
<1> QED
  BY <1>1, <1>3, <1>8, AskedRest

\* The payload of a page is that of its objects, each counted once.
LEMMA PresentationNat == \A page \in Pages : Presentation(page) \in Nat
<1> SUFFICES ASSUME NEW page \in Pages PROVE Presentation(page) \in Nat
  OBVIOUS
<1>1. page.objects \subseteq Facts /\ IsFiniteSet(page.objects)
  BY PageFacts
<1> DEFINE P == page.objects
<1>2. PICK n \in Nat : n = Cardinality(P) /\ ExistsBijection(1..n, P)
  BY <1>1, FS_CardinalityType
<1>3. \E f \in [1..n -> P] : IsInjective(f)
  BY <1>2 DEF ExistsBijection, Bijection, Injection
<1>4. SetToSeq(P) \in [1..n -> P]
  BY <1>2, <1>3 DEF SetToSeq
<1> HIDE DEF P
<1>5. PICK s \in Seq(P) : s = SetToSeq(P)
  <2>1. SetToSeq(P) \in Seq(P)
    BY <1>2, <1>4
  <2> QED
    BY <2>1
<1> DEFINE w == [o \in P |-> o.payload]
<1>6. \A o \in P : w[o] \in Nat
  BY <1>1, SourceAssumption DEF FactSpace, P
<1>7. Weighs(s, w) \in Nat
  <2> HIDE DEF w
  <2> QED
    BY <1>6, WeighsNat
<1>8. [i \in DOMAIN s |-> s[i].payload] = Weights(s, w)
  <2>1. DOMAIN s = 1..Len(s) /\ \A i \in 1..Len(s) : s[i] \in P
    OBVIOUS
  <2>2. \A i \in 1..Len(s) : s[i].payload = w[s[i]]
    BY <2>1
  <2> HIDE DEF w
  <2> QED
    BY <2>1, <2>2 DEF Weights
<1>9. Presentation(page) = Total([i \in DOMAIN s |-> s[i].payload])
  BY <1>5 DEF Presentation, P
<1> HIDE DEF w
<1> QED
  BY <1>7, <1>8, <1>9 DEF Weighs

HeldObjects == [page \in Pages |-> Charge(page).objects]
HeldBytes == [page \in Pages |-> Charge(page).bytes]
HeldPresentation == [page \in Pages |-> Charge(page).presentation]

LEMMA ChargeNat ==
  /\ \A page \in Pages : HeldObjects[page] = Charge(page).objects /\ HeldObjects[page] \in Nat
  /\ \A page \in Pages : HeldBytes[page] = Charge(page).bytes /\ HeldBytes[page] \in Nat
  /\ \A page \in Pages : HeldPresentation[page] = Charge(page).presentation /\ HeldPresentation[page] \in Nat
<1>1. ASSUME NEW page \in Pages
      PROVE  Charge(page).objects \in Nat /\ Charge(page).bytes \in Nat /\ Charge(page).presentation \in Nat
  <2>1. PICK n \in Nat : n = Cardinality(page.objects)
    BY PageFacts, FS_CardinalityType
  <2>2. PICK p \in Nat : p = Presentation(page)
    BY PresentationNat
  <2>3. Charge(page) = [objects |-> n, bytes |-> 1 + n + p, presentation |-> p]
    BY <2>1, <2>2 DEF Charge
  <2> QED
    BY <2>3
<1> QED
  BY <1>1 DEF HeldObjects, HeldBytes, HeldPresentation

\* A sum of charges as three sums of weights.
LEMMA HeldWeighs ==
  ASSUME NEW pages \in Seq(Pages)
  PROVE  /\ TotalHeld(pages) = [objects |-> Weighs(pages, HeldObjects), bytes |-> Weighs(pages, HeldBytes),
                                presentation |-> Weighs(pages, HeldPresentation)]
         /\ Weighs(pages, HeldObjects) \in Nat /\ Weighs(pages, HeldBytes) \in Nat
         /\ Weighs(pages, HeldPresentation) \in Nat
<1>1. DOMAIN pages = 1..Len(pages) /\ \A i \in 1..Len(pages) : pages[i] \in Pages
  OBVIOUS
<1>2. \A i \in 1..Len(pages) : /\ Charge(pages[i]).objects = HeldObjects[pages[i]]
                               /\ Charge(pages[i]).bytes = HeldBytes[pages[i]]
                               /\ Charge(pages[i]).presentation = HeldPresentation[pages[i]]
  BY <1>1, ChargeNat
<1>3. [i \in DOMAIN pages |-> Charge(pages[i]).objects] = Weights(pages, HeldObjects)
  BY <1>1, <1>2 DEF Weights
<1>4. [i \in DOMAIN pages |-> Charge(pages[i]).bytes] = Weights(pages, HeldBytes)
  BY <1>1, <1>2 DEF Weights
<1>5. [i \in DOMAIN pages |-> Charge(pages[i]).presentation] = Weights(pages, HeldPresentation)
  BY <1>1, <1>2 DEF Weights
<1>6. /\ Weighs(pages, HeldObjects) \in Nat /\ Weighs(pages, HeldBytes) \in Nat
      /\ Weighs(pages, HeldPresentation) \in Nat
  BY ChargeNat, WeighsNat
<1> QED
  BY <1>3, <1>4, <1>5, <1>6 DEF TotalHeld, Weighs

LEMMA HeldEmpty == TotalHeld(<<>>) = NoHeld
<1>1. <<>> \in Seq(Pages)
  OBVIOUS
<1> QED
  BY <1>1, HeldWeighs, WeighsEmpty DEF NoHeld

LEMMA HeldAppend ==
  ASSUME NEW pages \in Seq(Pages), NEW page \in Pages
  PROVE  TotalHeld(Append(pages, page)) = Plus(TotalHeld(pages), page)
<1>1. Append(pages, page) \in Seq(Pages)
  BY AppendIn
<1>2. /\ Weighs(Append(pages, page), HeldObjects) = Weighs(pages, HeldObjects) + HeldObjects[page]
      /\ Weighs(Append(pages, page), HeldBytes) = Weighs(pages, HeldBytes) + HeldBytes[page]
      /\ Weighs(Append(pages, page), HeldPresentation) = Weighs(pages, HeldPresentation) + HeldPresentation[page]
  BY ChargeNat, WeighsAppend
<1>3. /\ HeldObjects[page] = Charge(page).objects /\ HeldBytes[page] = Charge(page).bytes
      /\ HeldPresentation[page] = Charge(page).presentation
  BY ChargeNat
<1>4. /\ TotalHeld(pages).objects = Weighs(pages, HeldObjects)
      /\ TotalHeld(pages).bytes = Weighs(pages, HeldBytes)
      /\ TotalHeld(pages).presentation = Weighs(pages, HeldPresentation)
  BY HeldWeighs
<1>5. TotalHeld(Append(pages, page)) =
        [objects |-> Weighs(Append(pages, page), HeldObjects),
         bytes |-> Weighs(Append(pages, page), HeldBytes),
         presentation |-> Weighs(Append(pages, page), HeldPresentation)]
  BY <1>1, HeldWeighs
<1> QED
  BY <1>2, <1>3, <1>4, <1>5 DEF Plus

LEMMA HeldLess ==
  ASSUME NEW pages \in Seq(Pages), NEW i \in 1..Len(pages), WithinLimits(TotalHeld(pages))
  PROVE  /\ Minus(TotalHeld(pages), pages[i]) = TotalHeld(Less(pages, i))
         /\ WithinLimits(TotalHeld(Less(pages, i)))
<1>1. Less(pages, i) \in Seq(Pages) /\ pages[i] \in Pages
  BY LessFacts
<1>2. /\ Weighs(Less(pages, i), HeldObjects) + HeldObjects[pages[i]] = Weighs(pages, HeldObjects)
      /\ Weighs(Less(pages, i), HeldBytes) + HeldBytes[pages[i]] = Weighs(pages, HeldBytes)
      /\ Weighs(Less(pages, i), HeldPresentation) + HeldPresentation[pages[i]] = Weighs(pages, HeldPresentation)
  BY ChargeNat, LessWeighs
<1>3. /\ HeldObjects[pages[i]] = Charge(pages[i]).objects /\ HeldObjects[pages[i]] \in Nat
      /\ HeldBytes[pages[i]] = Charge(pages[i]).bytes /\ HeldBytes[pages[i]] \in Nat
      /\ HeldPresentation[pages[i]] = Charge(pages[i]).presentation /\ HeldPresentation[pages[i]] \in Nat
  BY <1>1, ChargeNat
<1>4. /\ Weighs(Less(pages, i), HeldObjects) \in Nat /\ Weighs(Less(pages, i), HeldBytes) \in Nat
      /\ Weighs(Less(pages, i), HeldPresentation) \in Nat
      /\ TotalHeld(Less(pages, i)) =
           [objects |-> Weighs(Less(pages, i), HeldObjects), bytes |-> Weighs(Less(pages, i), HeldBytes),
            presentation |-> Weighs(Less(pages, i), HeldPresentation)]
  BY <1>1, HeldWeighs
<1>5. /\ TotalHeld(pages).objects = Weighs(pages, HeldObjects)
      /\ TotalHeld(pages).bytes = Weighs(pages, HeldBytes)
      /\ TotalHeld(pages).presentation = Weighs(pages, HeldPresentation)
  BY HeldWeighs
<1>6. /\ TotalHeld(pages).objects - Charge(pages[i]).objects = Weighs(Less(pages, i), HeldObjects)
      /\ Weighs(Less(pages, i), HeldObjects) <= TotalHeld(pages).objects
  BY <1>2, <1>3, <1>4, <1>5
<1>7. /\ TotalHeld(pages).bytes - Charge(pages[i]).bytes = Weighs(Less(pages, i), HeldBytes)
      /\ Weighs(Less(pages, i), HeldBytes) <= TotalHeld(pages).bytes
  BY <1>2, <1>3, <1>4, <1>5
<1>8. /\ TotalHeld(pages).presentation - Charge(pages[i]).presentation = Weighs(Less(pages, i), HeldPresentation)
      /\ Weighs(Less(pages, i), HeldPresentation) <= TotalHeld(pages).presentation
  BY <1>2, <1>3, <1>4, <1>5
<1>9. Minus(TotalHeld(pages), pages[i]) = TotalHeld(Less(pages, i))
  BY <1>4, <1>6, <1>7, <1>8 DEF Minus
<1>10. /\ TotalHeld(pages).objects \in Nat /\ TotalHeld(pages).bytes \in Nat /\ TotalHeld(pages).presentation \in Nat
       /\ MaxObjects \in Nat /\ MaxBytes \in Nat /\ MaxPresentation \in Nat
  BY <1>5, HeldWeighs, LimitsAssumption
<1>11. WithinLimits(TotalHeld(Less(pages, i)))
  BY <1>4, <1>6, <1>7, <1>8, <1>10, SMTT(30) DEF WithinLimits
<1> QED
  BY <1>9, <1>11

\* A page that moves to the recent end: the same pages, in another order.
LEMMA MovedFacts ==
  ASSUME NEW A, A \subseteq Pages, NEW pages \in Seq(A), NEW id
  PROVE  /\ Moved(pages, id) \in Seq(A) /\ Len(Moved(pages, id)) = Len(pages)
         /\ Picked(Moved(pages, id), pages)
         /\ \A k \in 1..Len(pages) : \E i \in 1..Len(Moved(pages, id)) : Moved(pages, id)[i] = pages[k]
         /\ TotalHeld(Moved(pages, id)) = TotalHeld(pages)
<1> DEFINE S == {page \in Range(pages) : page.id = id}
           next == Removed(pages, S) \o Only(pages, S)
<1>1. Moved(pages, id) = next
  BY DEF Moved
<1> HIDE DEF S
<1>2. /\ next \in Seq(A) /\ Len(next) = Len(pages) /\ Picked(next, pages)
      /\ \A k \in 1..Len(pages) : \E i \in 1..Len(pages) : next[i] = pages[k]
  <2>1. /\ Removed(pages, S) \o Only(pages, S) \in Seq(A)
        /\ Len(Removed(pages, S) \o Only(pages, S)) = Len(pages)
        /\ Picked(Removed(pages, S) \o Only(pages, S), pages)
    BY SplitPicked
  <2>2. \A k \in 1..Len(pages) : \E i \in 1..Len(pages) : (Removed(pages, S) \o Only(pages, S))[i] = pages[k]
    BY SplitPicked, SMTT(30)
  <2> QED
    BY <2>1, <2>2
<1>3. pages \in Seq(Pages) /\ next \in Seq(Pages)
  <2> HIDE DEF next
  <2> QED
    BY <1>2
<1>4. /\ Weighs(next, HeldObjects) = Weighs(pages, HeldObjects)
      /\ Weighs(next, HeldBytes) = Weighs(pages, HeldBytes)
      /\ Weighs(next, HeldPresentation) = Weighs(pages, HeldPresentation)
  BY <1>3, ChargeNat, SplitWeighs
<1> HIDE DEF next
<1>5. TotalHeld(next) = TotalHeld(pages)
  BY <1>3, <1>4, HeldWeighs
<1> QED
  BY <1>1, <1>2, <1>5

-----------------------------------------------------------------------------
(* The invariant.                                                          *)

\* Two pages that may be resident together.
Compatible(a, b) ==
  /\ a.id # b.id /\ ~SharesLane(a.key, b.key)
  /\ \A o \in a.objects, p \in b.objects : o.id # p.id /\ ~(o.at = p.at /\ o.order = p.order)

Apart == {r \in Pages \X Pages : Compatible(r[1], r[2])}
OtherLanes == {r \in Keys \X Keys : ~SharesLane(r[1], r[2])}

\* The pages a source of e bytes may have.
Sound(e) == {page \in Pages : Constructed(page) /\ \A o \in page.objects : o.at <= e}

Resting(pages, counts, e) ==
  /\ pages \in Seq(Sound(e)) /\ Pairwise(pages, Apart)
  /\ counts = TotalHeld(pages) /\ WithinLimits(counts)
  /\ Len(pages) <= MaxPages

Requesting(keys, counts) ==
  /\ keys \in Seq(Keys) /\ Pairwise(keys, OtherLanes)
  /\ counts = TotalAsked(keys)
  /\ TotalObjects(keys) <= MaxPendingObjects /\ TotalBytes(keys) <= MaxPendingBytes
  /\ Len(keys) <= MaxPending

Remembering(keys) == keys \in Seq(Keys) /\ Len(keys) <= MaxPending

Unanswered(pages, keys) ==
  \A i \in 1..Len(pages), j \in 1..Len(keys) : ~SharesLane(pages[i].key, keys[j])

AnswerStands(pages, keys, given) ==
  /\ given.type = "Resident" =>
       \E i \in 1..Len(pages) :
         pages[i].id = given.page /\ SameLane(pages[i].key, given.key.purpose, given.key.demand)
  /\ given.type = "Coalesced" => \E i \in 1..Len(keys) : given.with = keys[i]
  /\ given.type = "Requested" => \E i \in 1..Len(keys) : given.key = keys[i]

ObjectsInv ==
  /\ gen \in Generations /\ extent \in Nat
  /\ Resting(resident, held, extent)
  /\ Requesting(pending, asked)
  /\ Remembering(cancelled)
  /\ Unanswered(resident, pending)
  /\ AnswerStands(resident, pending, answer)
-----------------------------------------------------------------------------
(* Steps on requests.                                                      *)

LEMMA LanesSymmetric ==
  ASSUME NEW a, NEW b, SharesLane(a, b)
  PROVE  SharesLane(b, a)
  BY DEF SharesLane, SameLane

\* What is remembered of the cancelled are cancelled keys, few enough.
LEMMA RememberFacts ==
  ASSUME NEW gone \in Seq(Keys), NEW more \in Seq(Keys)
  PROVE  Remembering(RememberEach(gone, more))
<1>1. PICK all \in Seq(Keys) : all = gone \o more
  BY ConcatIn
<1>2. MaxPending \in Nat
  BY LimitsAssumption
<1>3. PICK n \in 0..Len(all) : n = IF Len(all) > MaxPending THEN Len(all) - MaxPending ELSE 0
  <2>1. Len(all) \in Nat
    OBVIOUS
  <2>2. (IF Len(all) > MaxPending THEN Len(all) - MaxPending ELSE 0) \in 0..Len(all)
    BY <1>2, <2>1
  <2> QED
    BY <2>2
<1>4. RememberEach(gone, more) = SubSeq(all, n + 1, Len(all))
  <2>1. n + 1 = 1 + n
    OBVIOUS
  <2> QED
    BY <1>1, <1>3, <2>1 DEF RememberEach
<1>5. /\ SubSeq(all, n + 1, Len(all)) \in Seq(Keys)
      /\ Len(SubSeq(all, n + 1, Len(all))) = Len(all) - n
  BY SuffixFacts
<1>6. Len(all) - n <= MaxPending
  BY <1>2, <1>3
<1> QED
  BY <1>4, <1>5, <1>6 DEF Remembering

\* What a step that retires some requests leaves of them.
Leaves(keys, counts, retired) ==
  /\ Requesting(keys, counts)
  /\ counts = Subtract(asked, Gone(retired)) /\ Len(keys) = Len(Staying(retired))
  /\ \A j \in 1..Len(keys) : \E i \in 1..Len(pending) : keys[j] = pending[i] /\ pending[i] \notin retired
  /\ \A i \in 1..Len(pending) : pending[i] \notin retired => \E j \in 1..Len(keys) : keys[j] = pending[i]

LEMMA PickedRequesting ==
  ASSUME Requesting(pending, asked), NEW keys \in Seq(Keys), Within(keys, pending),
         Len(keys) <= Len(pending),
         TotalObjects(keys) <= TotalObjects(pending), TotalBytes(keys) <= TotalBytes(pending)
  PROVE  Requesting(keys, TotalAsked(keys))
<1>1. pending \in Seq(Keys) /\ Len(pending) \in Nat /\ Len(keys) \in Nat
  BY DEF Requesting
<1>2. Pairwise(keys, OtherLanes)
  BY <1>1, WithinPicked, PickedPairwise DEF Requesting
<1>3. /\ TotalObjects(keys) \in Nat /\ TotalBytes(keys) \in Nat
      /\ TotalObjects(pending) \in Nat /\ TotalBytes(pending) \in Nat
  BY <1>1, AskedWeighs
<1>4. MaxPending \in Nat /\ MaxPendingObjects \in Nat /\ MaxPendingBytes \in Nat
  BY LimitsAssumption
<1>5. /\ TotalObjects(keys) <= MaxPendingObjects /\ TotalBytes(keys) <= MaxPendingBytes
      /\ Len(keys) <= MaxPending
  BY <1>1, <1>3, <1>4 DEF Requesting
<1> QED
  BY <1>2, <1>5 DEF Requesting

LEMMA StayingLeaves ==
  ASSUME Requesting(pending, asked), NEW retired
  PROVE  Leaves(Staying(retired), Subtract(asked, Gone(retired)), retired) /\ Gone(retired) \in Seq(Keys)
<1> DEFINE R == Keys \ retired
<1>0. \A key \in Keys : key \in R <=> key \notin retired
  OBVIOUS
<1>1. pending \in Seq(Keys) /\ asked = TotalAsked(pending)
  BY DEF Requesting
<1>2. Removed(pending, retired) = Only(pending, R)
  BY <1>1, RemovedOnly
<1> HIDE DEF R
<1>3. PICK keys \in Seq(Keys) : keys = Removed(pending, retired)
  BY <1>1, AskedSplit
<1>4. PICK gone \in Seq(Keys) : gone = Only(pending, retired)
  BY <1>1, AskedSplit
<1>5. Staying(retired) = keys /\ Gone(retired) = gone
  BY <1>3, <1>4 DEF Staying, Gone
<1>6. /\ Len(keys) = Len(pending) - Len(gone) /\ Len(gone) \in Nat /\ Len(pending) \in Nat
      /\ Subtract(asked, gone) = TotalAsked(keys)
      /\ TotalObjects(keys) <= TotalObjects(pending) /\ TotalBytes(keys) <= TotalBytes(pending)
  BY <1>1, <1>3, <1>4, AskedSplit
<1>7. Within(keys, pending)
  BY <1>1, <1>2, <1>3, OnlyWithin
<1>8. Len(keys) <= Len(pending)
  BY <1>6
<1>9. Requesting(keys, TotalAsked(keys))
  BY <1>6, <1>7, <1>8, PickedRequesting
<1>10. PICK e : Places(e, keys, pending, R)
  BY <1>1, <1>2, <1>3, OnlyPlaces
<1>11. /\ e \in [1..Len(keys) -> 1..Len(pending)] /\ \A j \in 1..Len(keys) : keys[j] = pending[e[j]]
       /\ \A i \in 1..Len(pending) : pending[i] \in R <=> \E j \in 1..Len(keys) : e[j] = i
  BY <1>10 DEF Places
<1>12. ASSUME NEW j \in 1..Len(keys)
       PROVE  \E i \in 1..Len(pending) : keys[j] = pending[i] /\ pending[i] \notin retired
  <2>1. e[j] \in 1..Len(pending) /\ keys[j] = pending[e[j]] /\ pending[e[j]] \in R
    BY <1>11
  <2>2. pending[e[j]] \in Keys
    BY <1>1, <2>1
  <2> QED
    BY <1>0, <2>1, <2>2
<1>13. ASSUME NEW i \in 1..Len(pending), pending[i] \notin retired
       PROVE  \E j \in 1..Len(keys) : keys[j] = pending[i]
  <2>1. pending[i] \in R
    BY <1>0, <1>1, <1>13
  <2>2. PICK j \in 1..Len(keys) : e[j] = i
    BY <1>11, <2>1
  <2> QED
    BY <1>11, <2>2
<1> QED
  BY <1>5, <1>6, <1>9, <1>12, <1>13 DEF Leaves

LEMMA RequestsDiffer ==
  ASSUME Requesting(pending, asked), NEW i \in 1..Len(pending)
  PROVE  /\ pending[i] \in Keys
         /\ \A j \in 1..Len(pending) : j # i => ~SharesLane(pending[i], pending[j]) /\ pending[j] # pending[i]
<1>1. pending \in Seq(Keys) /\ pending[i] \in Keys
  BY DEF Requesting
<1>2. ASSUME NEW j \in 1..Len(pending), j # i PROVE ~SharesLane(pending[i], pending[j])
  BY <1>2 DEF Requesting, Pairwise, OtherLanes
<1>3. SharesLane(pending[i], pending[i])
  BY DEF SharesLane, SameLane
<1> QED
  BY <1>1, <1>2, <1>3

LEMMA RemoveAtLess == ASSUME NEW s, NEW i PROVE RemoveAt(s, i) = Less(s, i)
  BY DEF RemoveAt, Less

\* A request that is answered leaves the others, as one that is retired does.
LEMMA AnsweredLeaves ==
  ASSUME Requesting(pending, asked), NEW i \in 1..Len(pending)
  PROVE  Leaves(Remaining(i), LessOne(i), {pending[i]})
<1>1. pending \in Seq(Keys) /\ asked = TotalAsked(pending)
  BY DEF Requesting
<1>2. PICK n \in Nat : n = Len(pending)
  BY <1>1
<1>3. PICK keys \in Seq(Keys) : keys = Less(pending, i)
  BY <1>1, LessFacts
<1>4. Remaining(i) = keys
  BY <1>3, RemoveAtLess DEF Remaining
<1>5. Gone({pending[i]}) = <<pending[i]>>
  <2>1. \A j \in 1..Len(pending) : j # i => pending[j] # pending[i]
    BY RequestsDiffer
  <2> QED
    BY <1>1, <2>1, OneKept DEF Gone
<1>6. /\ Len(keys) = n - 1 /\ Subtract(asked, <<pending[i]>>) = TotalAsked(keys)
      /\ TotalObjects(keys) <= TotalObjects(pending) /\ TotalBytes(keys) <= TotalBytes(pending)
  BY <1>1, <1>2, <1>3, AskedLess
<1>7. LessOne(i) = Subtract(asked, Gone({pending[i]}))
  BY <1>5 DEF LessOne
<1>8. Len(Staying({pending[i]})) = n - 1
  <2>1. Len(Staying({pending[i]})) = n - Len(Gone({pending[i]}))
    BY <1>1, <1>2, AskedSplit DEF Staying, Gone
  <2>2. Len(<<pending[i]>>) = 1
    OBVIOUS
  <2> QED
    BY <1>5, <2>1, <2>2
<1>9. Within(keys, pending)
  BY <1>1, <1>3, LessWithin
<1>10. Requesting(keys, TotalAsked(keys))
  <2>1. Len(keys) <= Len(pending)
    BY <1>2, <1>6
  <2> QED
    BY <1>6, <1>9, <2>1, PickedRequesting
<1>11. \A j \in 1..(n - 1) : keys[j] = pending[IF j < i THEN j ELSE j + 1]
  BY <1>1, <1>2, <1>3, LessFacts
<1>12. ASSUME NEW j \in 1..Len(keys)
       PROVE  \E k \in 1..Len(pending) : keys[j] = pending[k] /\ pending[k] \notin {pending[i]}
  <2>1. PICK k \in 1..n : k = IF j < i THEN j ELSE j + 1
    BY <1>2, <1>6
  <2>2. k # i /\ keys[j] = pending[k]
    BY <1>6, <1>11, <2>1
  <2> QED
    BY <1>2, <2>2, RequestsDiffer
<1>13. ASSUME NEW k \in 1..Len(pending), pending[k] \notin {pending[i]}
       PROVE  \E j \in 1..Len(keys) : keys[j] = pending[k]
  <2>1. k # i
    BY <1>13
  <2>2. CASE k < i
    <3>1. k \in 1..(n - 1) /\ keys[k] = pending[k]
      BY <1>2, <1>11, <2>2
    <3> QED
      BY <1>6, <3>1
  <2>3. CASE ~(k < i)
    <3>1. k - 1 \in 1..(n - 1) /\ ~(k - 1 < i) /\ (k - 1) + 1 = k
      BY <1>2, <2>1, <2>3
    <3>2. keys[k - 1] = pending[k]
      BY <1>11, <3>1
    <3> QED
      BY <1>6, <3>1, <3>2
  <2> QED
    BY <2>2, <2>3
<1> QED
  BY <1>4, <1>5, <1>6, <1>7, <1>8, <1>10, <1>12, <1>13 DEF Leaves

LEMMA AllLeaves ==
  ASSUME Requesting(pending, asked)
  PROVE  Leaves(pending, asked, {})
<1>1. pending \in Seq(Keys) /\ asked = TotalAsked(pending)
  BY DEF Requesting
<1>2. Gone({}) = <<>>
  BY <1>1, NoneKept DEF Gone
<1>3. Subtract(asked, <<>>) = asked
  <2>0. <<>> \in Seq(Keys)
    OBVIOUS
  <2>1. PICK none \in Seq(Keys) : none = <<>>
    BY <2>0
  <2>2. TotalObjects(none) = 0 /\ TotalBytes(none) = 0
    BY <2>1, AskedEmpty DEF TotalAsked
  <2>3. TotalObjects(pending) \in Nat /\ TotalBytes(pending) \in Nat
    BY <1>1, AskedWeighs
  <2> QED
    BY <1>1, <2>1, <2>2, <2>3 DEF Subtract, TotalAsked
<1>4. Len(Staying({})) = Len(pending)
  <2>1. Len(Staying({})) = Len(pending) - Len(Gone({}))
    BY <1>1, AskedSplit DEF Staying, Gone
  <2>2. Len(<<>>) = 0 /\ Len(pending) \in Nat
    BY <1>1
  <2> QED
    BY <1>2, <2>1, <2>2
<1> QED
  BY <1>2, <1>3, <1>4 DEF Leaves

LEMMA NoneRequesting ==
  Requesting(<<>>, [objects |-> 0, bytes |-> 0]) /\ Remembering(<<>>)
<1>0. <<>> \in Seq(Keys)
  OBVIOUS
<1>1. PICK none \in Seq(Keys) : none = <<>>
  BY <1>0
<1>2. Len(none) = 0 /\ Pairwise(none, OtherLanes)
  BY <1>1 DEF Pairwise
<1>3. TotalAsked(none) = [objects |-> 0, bytes |-> 0] /\ TotalObjects(none) = 0 /\ TotalBytes(none) = 0
  BY <1>1, AskedEmpty DEF TotalAsked
<1>4. MaxPending \in Nat /\ MaxPendingObjects \in Nat /\ MaxPendingBytes \in Nat
  BY LimitsAssumption
<1>5. 0 <= MaxPending /\ 0 <= MaxPendingObjects /\ 0 <= MaxPendingBytes
  BY <1>4
<1> QED
  BY <1>1, <1>2, <1>3, <1>5 DEF Requesting, Remembering

-----------------------------------------------------------------------------
(* Answers to demands.                                                     *)

LEMMA OutcomeFacts ==
  ASSUME pending \in Seq(Keys), NEW pages \in Seq(Pages), NEW retired, NEW id, NEW purpose, NEW d, NEW key,
         key = [id |-> id, gen |-> gen, purpose |-> purpose, demand |-> d],
         NEW outcome \in Outcomes(pages, retired, id, purpose, d)
  PROVE  \/ /\ outcome.type = "Resident" /\ outcome.key = key
            /\ \E i \in 1..Len(pages) : SameLane(pages[i].key, purpose, d) /\ pages[i].id = outcome.page
         \/ /\ outcome.type = "Coalesced"
            /\ \E i \in 1..Len(pending) : pending[i] \notin retired /\ outcome.with = pending[i]
         \/ /\ outcome.type = "Requested" /\ outcome.key = key
            /\ \A i \in 1..Len(pages) : ~SameLane(pages[i].key, purpose, d)
            /\ \A i \in 1..Len(pending) : pending[i] \notin retired => ~SameLane(pending[i], purpose, d)
            /\ Len(Staying(retired)) < MaxPending
            /\ Add(Subtract(asked, Gone(retired)), key).objects <= MaxPendingObjects
            /\ Add(Subtract(asked, Gone(retired)), key).bytes <= MaxPendingBytes
<1> DEFINE holding == {i \in DOMAIN pages : SameLane(pages[i].key, purpose, d)}
           waiting == {i \in DOMAIN pending : pending[i] \notin retired /\ SameLane(pending[i], purpose, d)}
           left == Add(Subtract(asked, Gone(retired)), key)
<1>1. DOMAIN pages = 1..Len(pages) /\ DOMAIN pending = 1..Len(pending)
  OBVIOUS
<1>2. \/ outcome \in {[type |-> "Resident", page |-> pages[i].id, key |-> key] : i \in holding}
      \/ outcome \in {[type |-> "Coalesced", with |-> pending[i], key |-> key] : i \in waiting}
      \/ /\ outcome = [type |-> "Requested", key |-> key] /\ holding = {} /\ waiting = {}
         /\ Len(Staying(retired)) < MaxPending
         /\ left.objects <= MaxPendingObjects /\ left.bytes <= MaxPendingBytes
  BY DEF Outcomes
<1>3. CASE outcome \in {[type |-> "Resident", page |-> pages[i].id, key |-> key] : i \in holding}
  <2>1. PICK i \in holding : outcome = [type |-> "Resident", page |-> pages[i].id, key |-> key]
    BY <1>3
  <2>2. i \in 1..Len(pages) /\ SameLane(pages[i].key, purpose, d)
    BY <1>1, <2>1
  <2>3. outcome.type = "Resident" /\ outcome.key = key /\ outcome.page = pages[i].id
    BY <2>1
  <2> QED
    BY <2>2, <2>3
<1>4. CASE outcome \in {[type |-> "Coalesced", with |-> pending[i], key |-> key] : i \in waiting}
  <2>1. PICK i \in waiting : outcome = [type |-> "Coalesced", with |-> pending[i], key |-> key]
    BY <1>4
  <2>2. outcome.type = "Coalesced" /\ outcome.with = pending[i]
    BY <2>1
  <2>3. i \in 1..Len(pending) /\ pending[i] \notin retired
    BY <1>1, <2>1
  <2> QED
    BY <2>2, <2>3
<1>5. CASE /\ outcome = [type |-> "Requested", key |-> key] /\ holding = {} /\ waiting = {}
           /\ Len(Staying(retired)) < MaxPending
           /\ left.objects <= MaxPendingObjects /\ left.bytes <= MaxPendingBytes
  <2>1. outcome.type = "Requested" /\ outcome.key = key
    BY <1>5
  <2>2. \A i \in 1..Len(pages) : ~SameLane(pages[i].key, purpose, d)
    BY <1>1, <1>5
  <2>3. \A i \in 1..Len(pending) : pending[i] \notin retired => ~SameLane(pending[i], purpose, d)
    BY <1>1, <1>5
  <2> QED
    BY <1>5, <2>1, <2>2, <2>3
<1> QED
  BY <1>2, <1>3, <1>4, <1>5

\* A demand is sent, or it is answered by what is there: the lanes stay distinct and the
\* answer stands.
LEMMA SendFacts ==
  ASSUME gen \in Generations, Requesting(pending, asked),
         NEW pages \in Seq(Pages), NEW keys, NEW counts, NEW retired,
         Leaves(keys, counts, retired), Unanswered(pages, keys),
         NEW id \in Requests, NEW purpose \in Purposes, NEW d \in Demands,
         NEW outcome \in Outcomes(pages, retired, id, purpose, d), Send(keys, counts, outcome)
  PROVE  /\ Requesting(pending', asked') /\ Unanswered(pages, pending')
         /\ AnswerStands(pages, pending', outcome) /\ answer' = outcome
<1>1. PICK key \in Keys : key = [id |-> id, gen |-> gen, purpose |-> purpose, demand |-> d]
  BY DEF Keys
<1>2. pending \in Seq(Keys) /\ keys \in Seq(Keys) /\ Pairwise(keys, OtherLanes) /\ counts = TotalAsked(keys)
  BY DEF Leaves, Requesting
<1>3. PICK n \in Nat : n = Len(keys)
  BY <1>2
<1>4. CASE /\ outcome.type = "Resident" /\ outcome.key = key
           /\ \E i \in 1..Len(pages) : SameLane(pages[i].key, purpose, d) /\ pages[i].id = outcome.page
  <2>1. pending' = keys /\ asked' = counts /\ answer' = outcome
    BY <1>4 DEF Send
  <2>2. outcome.key.purpose = purpose /\ outcome.key.demand = d
    BY <1>1, <1>4
  <2>3. AnswerStands(pages, keys, outcome)
    BY <1>4, <2>2 DEF AnswerStands
  <2> QED
    BY <2>1, <2>3 DEF Leaves
<1>5. CASE /\ outcome.type = "Coalesced"
           /\ \E i \in 1..Len(pending) : pending[i] \notin retired /\ outcome.with = pending[i]
  <2>1. pending' = keys /\ asked' = counts /\ answer' = outcome
    BY <1>5 DEF Send
  <2>2. \E j \in 1..Len(keys) : outcome.with = keys[j]
    BY <1>5 DEF Leaves
  <2>3. AnswerStands(pages, keys, outcome)
    BY <1>5, <2>2 DEF AnswerStands
  <2> QED
    BY <2>1, <2>3 DEF Leaves
<1>6. CASE /\ outcome.type = "Requested" /\ outcome.key = key
           /\ \A i \in 1..Len(pages) : ~SameLane(pages[i].key, purpose, d)
           /\ \A i \in 1..Len(pending) : pending[i] \notin retired => ~SameLane(pending[i], purpose, d)
           /\ Len(Staying(retired)) < MaxPending
           /\ Add(Subtract(asked, Gone(retired)), key).objects <= MaxPendingObjects
           /\ Add(Subtract(asked, Gone(retired)), key).bytes <= MaxPendingBytes
  <2>1. PICK next \in Seq(Keys) : next = Append(keys, key)
    BY <1>2, AppendIn
  <2>2. pending' = next /\ asked' = Add(counts, key) /\ answer' = outcome
    BY <1>6, <2>1 DEF Send
  <2>3. Add(counts, key) = TotalAsked(next)
    BY <1>2, <2>1, AskedAppend
  <2>4. TotalObjects(next) <= MaxPendingObjects /\ TotalBytes(next) <= MaxPendingBytes
    <3>1. Add(counts, key).objects <= MaxPendingObjects /\ Add(counts, key).bytes <= MaxPendingBytes
      BY <1>6 DEF Leaves
    <3> QED
      BY <2>3, <3>1 DEF TotalAsked
  <2>5. Len(next) = n + 1 /\ next[n + 1] = key /\ \A j \in 1..n : next[j] = keys[j]
    BY <1>2, <1>3, <2>1
  <2>6. Len(next) <= MaxPending
    <3>1. n < MaxPending /\ MaxPending \in Nat
      BY <1>3, <1>6, LimitsAssumption DEF Leaves
    <3> QED
      BY <2>5, <3>1
  <2>7. ASSUME NEW j \in 1..Len(keys) PROVE <<keys[j], key>> \in OtherLanes /\ <<key, keys[j]>> \in OtherLanes
    <3>1. ~SameLane(keys[j], purpose, d)
      BY <1>6 DEF Leaves
    <3>2. ~SharesLane(keys[j], key)
      BY <1>1, <3>1 DEF SharesLane
    <3>3. ~SharesLane(key, keys[j]) /\ keys[j] \in Keys
      BY <1>2, <3>2, LanesSymmetric
    <3> QED
      BY <3>2, <3>3 DEF OtherLanes
  <2>8. Pairwise(next, OtherLanes)
    BY <1>2, <2>1, <2>7, AppendPairwise
  <2>9. Requesting(next, Add(counts, key))
    BY <2>3, <2>4, <2>6, <2>8 DEF Requesting
  <2>10. ASSUME NEW i \in 1..Len(pages), NEW j \in 1..Len(next) PROVE ~SharesLane(pages[i].key, next[j])
    <3>1. CASE j = n + 1
      BY <1>1, <1>6, <2>5, <3>1 DEF SharesLane
    <3>2. CASE j \in 1..n
      BY <1>3, <2>5, <3>2 DEF Unanswered
    <3> QED
      BY <2>5, <3>1, <3>2
  <2>11. AnswerStands(pages, next, outcome)
    <3>1. n + 1 \in 1..Len(next) /\ outcome.key = next[n + 1]
      BY <1>6, <2>5
    <3> QED
      BY <1>6, <3>1 DEF AnswerStands
  <2> QED
    BY <2>2, <2>9, <2>10, <2>11 DEF Unanswered
<1> QED
  BY <1>1, <1>2, <1>4, <1>5, <1>6, OutcomeFacts

-----------------------------------------------------------------------------
(* Steps on residents.                                                     *)

LEMMA CompatibleSymmetric ==
  ASSUME NEW a, NEW b, Compatible(a, b)
  PROVE  Compatible(b, a)
  BY LanesSymmetric DEF Compatible

LEMMA SoundFacts ==
  ASSUME NEW e
  PROVE  /\ Sound(e) \subseteq Pages
         /\ \A pages \in Seq(Sound(e)) :
              pages \in Seq(Pages) /\ \A i \in 1..Len(pages) : pages[i] \in Sound(e) /\ pages[i] \in Pages
<1> DEFINE A == Sound(e)
<1>1. A \subseteq Pages
  BY DEF Sound
<1> HIDE DEF A
<1>2. \A pages \in Seq(A) :
        pages \in Seq(Pages) /\ \A i \in 1..Len(pages) : pages[i] \in A /\ pages[i] \in Pages
  BY <1>1
<1> QED
  BY <1>1, <1>2 DEF A

\* A touch changes nothing but the order.
LEMMA MovedResting ==
  ASSUME NEW e, NEW pages, NEW counts, Resting(pages, counts, e), NEW id
  PROVE  /\ Resting(Moved(pages, id), counts, e)
         /\ \A keys : Unanswered(pages, keys) => Unanswered(Moved(pages, id), keys)
         /\ \A keys, given : AnswerStands(pages, keys, given) => AnswerStands(Moved(pages, id), keys, given)
<1> DEFINE A == Sound(e)
<1>1. A \subseteq Pages /\ pages \in Seq(A)
  BY SoundFacts DEF Resting
<1> HIDE DEF A
<1>2. PICK next \in Seq(A) : next = Moved(pages, id)
  BY <1>1, MovedFacts
<1>3. /\ Len(next) = Len(pages) /\ Picked(next, pages) /\ TotalHeld(next) = TotalHeld(pages)
      /\ \A k \in 1..Len(pages) : \E i \in 1..Len(next) : next[i] = pages[k]
  BY <1>1, <1>2, MovedFacts
<1>4. Pairwise(next, Apart)
  BY <1>3, PickedPairwise DEF Resting
<1>5. Resting(next, counts, e)
  BY <1>3, <1>4 DEF Resting, A
<1>6. PICK f \in [1..Len(next) -> 1..Len(pages)] : \A i \in 1..Len(next) : next[i] = pages[f[i]]
  BY <1>3 DEF Picked
<1>7. ASSUME NEW keys, Unanswered(pages, keys) PROVE Unanswered(next, keys)
  BY <1>6, <1>7 DEF Unanswered
<1>8. ASSUME NEW keys, NEW given, AnswerStands(pages, keys, given) PROVE AnswerStands(next, keys, given)
  <2>1. ASSUME given.type = "Resident"
        PROVE  \E i \in 1..Len(next) :
                 next[i].id = given.page /\ SameLane(next[i].key, given.key.purpose, given.key.demand)
    <3>1. PICK k \in 1..Len(pages) :
            pages[k].id = given.page /\ SameLane(pages[k].key, given.key.purpose, given.key.demand)
      BY <1>8, <2>1 DEF AnswerStands
    <3>2. PICK i \in 1..Len(next) : next[i] = pages[k]
      BY <1>3
    <3> QED
      BY <3>1, <3>2
  <2> QED
    BY <1>8, <2>1 DEF AnswerStands
<1> QED
  BY <1>2, <1>5, <1>7, <1>8

LEMMA MovedForResting ==
  ASSUME NEW e, NEW pages, NEW counts, Resting(pages, counts, e), NEW outcome
  PROVE  /\ Resting(MovedFor(pages, outcome), counts, e)
         /\ \A keys : Unanswered(pages, keys) => Unanswered(MovedFor(pages, outcome), keys)
         /\ \A keys, given :
              AnswerStands(pages, keys, given) => AnswerStands(MovedFor(pages, outcome), keys, given)
  BY MovedResting DEF MovedFor

LEMMA NoneResting ==
  ASSUME NEW e
  PROVE  Resting(<<>>, NoHeld, e)
<1> DEFINE A == Sound(e)
<1>0. <<>> \in Seq(A) /\ Len(<<>>) = 0
  OBVIOUS
<1> HIDE DEF A
<1>1. PICK none \in Seq(A) : none = <<>>
  BY <1>0
<1>2. Pairwise(none, Apart)
  BY <1>0, <1>1 DEF Pairwise
<1>3. MaxPages \in Nat /\ MaxObjects \in Nat /\ MaxBytes \in Nat /\ MaxPresentation \in Nat
  BY LimitsAssumption
<1>4. WithinLimits(NoHeld) /\ 0 <= MaxPages
  BY <1>3 DEF WithinLimits, NoHeld
<1> QED
  BY <1>0, <1>1, <1>2, <1>4, HeldEmpty DEF Resting, A

LEMMA EvictResting ==
  ASSUME NEW e, NEW pages, NEW counts, Resting(pages, counts, e), NEW j \in 1..Len(pages)
  PROVE  /\ Resting(RemoveAt(pages, j), Minus(counts, pages[j]), e)
         /\ \A keys : Unanswered(pages, keys) => Unanswered(RemoveAt(pages, j), keys)
<1> DEFINE A == Sound(e)
<1>1. pages \in Seq(A) /\ pages \in Seq(Pages)
  BY SoundFacts DEF Resting
<1> HIDE DEF A
<1>2. PICK next \in Seq(A) : next = Less(pages, j)
  BY <1>1, LessFacts
<1>3. Len(next) = Len(pages) - 1 /\ Within(next, pages)
  BY <1>1, <1>2, LessFacts, LessWithin
<1>4. Pairwise(next, Apart) /\ Picked(next, pages)
  <2>1. Len(next) \in Nat /\ Len(pages) \in Nat
    BY <1>1, <1>2
  <2> QED
    BY <1>3, <2>1, WithinPicked, PickedPairwise DEF Resting
<1>5. Minus(counts, pages[j]) = TotalHeld(next) /\ WithinLimits(TotalHeld(next))
  BY <1>1, <1>2, HeldLess DEF Resting
<1>6. Len(next) <= MaxPages
  <2>1. Len(pages) \in Nat /\ Len(pages) <= MaxPages /\ MaxPages \in Nat
    BY <1>1, LimitsAssumption DEF Resting
  <2> QED
    BY <1>3, <2>1
<1>7. Resting(next, Minus(counts, pages[j]), e)
  BY <1>4, <1>5, <1>6 DEF Resting, A
<1>8. PICK f \in [1..Len(next) -> 1..Len(pages)] : \A i \in 1..Len(next) : next[i] = pages[f[i]]
  BY <1>4 DEF Picked
<1>9. ASSUME NEW keys, Unanswered(pages, keys) PROVE Unanswered(next, keys)
  BY <1>8, <1>9 DEF Unanswered
<1> QED
  BY <1>2, <1>7, <1>9, RemoveAtLess

LEMMA SurvivorFacts ==
  ASSUME Resting(resident, held, extent), NEW page, NEW n \in 0..Len(resident)
  PROVE  /\ Survivors(page, n) \in Seq(Sound(extent))
         /\ Picked(Survivors(page, n), resident)
         /\ \A j \in 1..Len(Survivors(page, n)) : ~Replaces(page, Survivors(page, n)[j])
<1> DEFINE A == Sound(extent)
           S == {old \in Range(resident) : ~Replaces(page, old)}
<1>1. resident \in Seq(A)
  BY DEF Resting
<1>2. \A old \in S : ~Replaces(page, old)
  OBVIOUS
<1> HIDE DEF A
<1>3. PICK rest \in Seq(A) : rest = SubSeq(resident, n + 1, Len(resident))
  <2>1. SubSeq(resident, n + 1, Len(resident)) \in Seq(A)
    BY <1>1, SuffixFacts
  <2> QED
    BY <2>1
<1>4. Within(rest, resident)
  BY <1>1, <1>3, SuffixWithin
<1>5. Survivors(page, n) = Only(rest, S)
  BY <1>3 DEF Survivors
<1> HIDE DEF S
<1>6. PICK left \in Seq(A) : left = Only(rest, S)
  BY OnlyShorter
<1>7. Within(left, resident)
  BY <1>4, <1>6, OnlyWithin, WithinTransitive
<1>8. Picked(left, resident)
  <2>1. Len(left) \in Nat /\ Len(resident) \in Nat
    BY <1>1
  <2> QED
    BY <1>7, <2>1, WithinPicked
<1>9. PICK e : Places(e, left, rest, S)
  BY <1>6, OnlyPlaces
<1>10. ASSUME NEW j \in 1..Len(left) PROVE left[j] \in S
  <2>1. e[j] \in 1..Len(rest) /\ left[j] = rest[e[j]] /\ rest[e[j]] \in S
    BY <1>9 DEF Places
  <2> QED
    BY <2>1
<1> QED
  BY <1>2, <1>5, <1>6, <1>8, <1>10 DEF A

\* The eviction loop ends: nothing but the new page fits.
LEMMA KeptFacts ==
  ASSUME Resting(resident, held, extent), NEW page \in Pages, WithinLimits(Charge(page))
  PROVE  \E n \in 0..Len(resident) :
           Kept(page) = Survivors(page, n) /\ Fits(page, Survivors(page, n))
<1>0. resident \in Seq(Pages)
  BY SoundFacts DEF Resting
<1>1. PICK N \in Nat : N = Len(resident)
  BY <1>0
<1> DEFINE T == {n \in 0..N : Fits(page, Survivors(page, n))}
<1>2. N \in T
  <2>1. Survivors(page, N) = <<>>
    <3>1. SubSeq(resident, N + 1, Len(resident)) = <<>>
      BY <1>0, <1>1
    <3> QED
      BY <3>1, OnlyEmpty DEF Survivors
  <2>2. Len(<<>>) < MaxPages
    BY LimitsAssumption
  <2>3. WithinLimits(Plus(TotalHeld(<<>>), page))
    <3>1. /\ Charge(page).objects \in Nat /\ Charge(page).bytes \in Nat
          /\ Charge(page).presentation \in Nat
      BY ChargeNat
    <3>2. /\ Plus(NoHeld, page).objects = Charge(page).objects
          /\ Plus(NoHeld, page).bytes = Charge(page).bytes
          /\ Plus(NoHeld, page).presentation = Charge(page).presentation
      BY <3>1 DEF Plus, NoHeld
    <3> QED
      BY <3>2, HeldEmpty DEF WithinLimits
  <2> QED
    BY <2>1, <2>2, <2>3 DEF Fits
<1>3. PICK n \in T : \A m \in T : n <= m
  <2>1. T \subseteq Nat /\ T # {}
    BY <1>2
  <2> HIDE DEF T
  <2> QED
    BY <2>1, LeastNatural
<1> DEFINE P(x) == Fits(page, Survivors(page, x)) /\ \A m \in 0..(x - 1) : ~Fits(page, Survivors(page, m))
<1>4. n \in 0..N /\ P(n)
  BY <1>3
<1> DEFINE least == CHOOSE x \in 0..N : P(x)
<1>5. Kept(page) = Survivors(page, least)
  BY <1>1 DEF Kept
<1> HIDE DEF T, P
<1>6. least \in 0..N /\ P(least)
  BY <1>4
<1> HIDE DEF least
<1> QED
  BY <1>1, <1>5, <1>6 DEF P

\* A page that is admitted joins the residents it neither replaces nor contradicts.
LEMMA ProjectedFacts ==
  ASSUME Requesting(pending, asked), Resting(resident, held, extent), Unanswered(resident, pending),
         NEW i \in 1..Len(pending), NEW page \in Answers(i), Admissible(page)
  PROVE  /\ Resting(Projected(page), TotalHeld(Projected(page)), extent)
         /\ Unanswered(Projected(page), Remaining(i))
<1> DEFINE A == Sound(extent)
<1>1. page \in Pages /\ page.key = pending[i]
  <2>1. PICK id \in PageIds, objects \in {some \in SUBSET Facts : IsFiniteSet(some)}, complete \in BOOLEAN :
          page = Page(pending[i], id, objects, complete)
    BY DEF Answers
  <2>2. pending[i] \in Keys
    BY RequestsDiffer
  <2>3. /\ page = [id |-> id, key |-> pending[i], objects |-> objects, complete |-> complete]
        /\ objects \in SUBSET Facts /\ IsFiniteSet(objects)
    BY <2>1 DEF Page
  <2> QED
    BY <2>2, <2>3 DEF Pages
<1>2. page \in A
  BY <1>1 DEF Admissible, Valid, Sound
<1>3. resident \in Seq(A) /\ Pairwise(resident, Apart) /\ A \subseteq Pages
  BY SoundFacts DEF Resting
<1>4. PICK n \in 0..Len(resident) : Kept(page) = Survivors(page, n) /\ Fits(page, Survivors(page, n))
  BY <1>1, KeptFacts DEF Admissible
<1>5. PICK kept \in Seq(A) : kept = Survivors(page, n)
  BY SurvivorFacts
<1>6. /\ Picked(kept, resident) /\ \A j \in 1..Len(kept) : ~Replaces(page, kept[j])
      /\ Len(kept) < MaxPages /\ WithinLimits(Plus(TotalHeld(kept), page))
  BY <1>4, <1>5, SurvivorFacts DEF Fits
<1>7. Pairwise(kept, Apart)
  BY <1>3, <1>6, PickedPairwise
<1>8. PICK f \in [1..Len(kept) -> 1..Len(resident)] : \A j \in 1..Len(kept) : kept[j] = resident[f[j]]
  BY <1>6 DEF Picked
<1> HIDE DEF A
<1>9. DOMAIN resident = 1..Len(resident)
  BY <1>3
<1>10. ASSUME NEW j \in 1..Len(kept) PROVE <<kept[j], page>> \in Apart /\ <<page, kept[j]>> \in Apart
  <2>1. PICK k \in 1..Len(resident) : kept[j] = resident[k]
    BY <1>8
  <2>2. kept[j].id # page.id /\ \A o \in page.objects, p \in kept[j].objects : o.id # p.id
    BY <1>6 DEF Replaces
  <2>3. \A o \in page.objects, p \in kept[j].objects : ~Contradict(o, p)
    BY <1>9, <2>1 DEF Admissible, Valid
  <2>4. ~SharesLane(kept[j].key, page.key)
    BY <1>1, <2>1 DEF Unanswered
  <2>5. Compatible(kept[j], page)
    BY <2>2, <2>3, <2>4 DEF Compatible, Contradict
  <2>6. kept[j] \in Pages
    BY <1>3
  <2> QED
    BY <1>1, <2>5, <2>6, CompatibleSymmetric DEF Apart
<1>11. PICK next \in Seq(A) : next = Append(kept, page)
  BY <1>2, AppendIn
<1>12. Projected(page) = next
  BY <1>4, <1>5, <1>11 DEF Projected
<1>13. Pairwise(next, Apart)
  BY <1>2, <1>7, <1>10, <1>11, AppendPairwise
<1>14. PICK m \in Nat : m = Len(kept)
  OBVIOUS
<1>15. Len(next) = m + 1 /\ next[m + 1] = page /\ \A j \in 1..m : next[j] = kept[j]
  BY <1>11, <1>14
<1>16. Len(next) <= MaxPages
  BY <1>6, <1>14, <1>15, LimitsAssumption
<1>17. WithinLimits(TotalHeld(next))
  <2>1. kept \in Seq(Pages)
    BY <1>3
  <2> QED
    BY <1>1, <1>6, <1>11, <2>1, HeldAppend
<1>18. Resting(next, TotalHeld(next), extent)
  BY <1>13, <1>16, <1>17 DEF Resting, A
<1>19. ASSUME NEW j \in 1..Len(next), NEW l \in 1..Len(Remaining(i))
       PROVE  ~SharesLane(next[j].key, Remaining(i)[l])
  <2>1. PICK k \in 1..Len(pending) : Remaining(i)[l] = pending[k] /\ pending[k] \notin {pending[i]}
    BY AnsweredLeaves DEF Leaves
  <2>2. CASE j = m + 1
    <3>1. k # i
      BY <2>1
    <3> QED
      BY <1>1, <1>15, <2>1, <2>2, <3>1, RequestsDiffer
  <2>3. CASE j \in 1..m
    <3>1. PICK h \in 1..Len(resident) : next[j] = resident[h]
      BY <1>8, <1>14, <1>15, <2>3
    <3> QED
      BY <2>1, <3>1 DEF Unanswered
  <2> QED
    BY <1>14, <1>15, <2>2, <2>3
<1> QED
  BY <1>12, <1>18, <1>19 DEF Unanswered

-----------------------------------------------------------------------------
(* Every step keeps the invariant.                                         *)

LEMMA NothingAnswered ==
  /\ \A pages, keys : AnswerStands(pages, keys, NoAnswer)
  /\ \A keys : Unanswered(<<>>, keys)
  /\ \A pages : Unanswered(pages, <<>>)
<1>1. Len(<<>>) = 0
  OBVIOUS
<1> QED
  BY <1>1 DEF AnswerStands, NoAnswer, Unanswered

LEMMA StepInv ==
  ASSUME gen' \in Generations, extent' \in Nat, Resting(resident', held', extent'),
         Requesting(pending', asked'), Remembering(cancelled'), Unanswered(resident', pending'),
         AnswerStands(resident', pending', answer')
  PROVE  ObjectsInv'
  BY DEF ObjectsInv

LEMMA InitInv == Init => ObjectsInv
<1> SUFFICES ASSUME Init PROVE ObjectsInv
  OBVIOUS
<1>1. /\ gen \in Generations /\ extent \in Nat /\ resident = <<>> /\ pending = <<>> /\ cancelled = <<>>
      /\ held = NoHeld /\ asked = [objects |-> 0, bytes |-> 0] /\ answer = NoAnswer
  BY SourceAssumption DEF Init
<1>2. Resting(resident, held, extent) /\ Requesting(pending, asked) /\ Remembering(cancelled)
  BY <1>1, NoneResting, NoneRequesting
<1> QED
  BY <1>1, <1>2, NothingAnswered DEF ObjectsInv

LEMMA DemandInv ==
  ASSUME ObjectsInv, NEW id \in Requests, NEW purpose \in Purposes, NEW d \in Demands, NEW retired,
         Demand(id, purpose, d, retired)
  PROVE  ObjectsInv'
<1>1. /\ gen \in Generations /\ extent \in Nat /\ Resting(resident, held, extent)
      /\ Requesting(pending, asked) /\ Remembering(cancelled) /\ Unanswered(resident, pending)
  BY DEF ObjectsInv
<1>2. PICK pages \in Seq(Pages) : pages = resident
  BY <1>1, SoundFacts DEF Resting
<1>3. PICK keys : keys = Staying(retired)
  OBVIOUS
<1>4. PICK counts : counts = Subtract(asked, Gone(retired))
  OBVIOUS
<1>5. Leaves(keys, counts, retired) /\ Gone(retired) \in Seq(Keys)
  BY <1>1, <1>3, <1>4, StayingLeaves
<1>6. Unanswered(pages, keys)
  BY <1>1, <1>2, <1>5 DEF Leaves, Unanswered
<1>7. PICK outcome \in Outcomes(pages, retired, id, purpose, d) : Send(keys, counts, outcome)
  BY <1>2, <1>3, <1>4 DEF Demand
<1>8. /\ gen' = gen /\ extent' = extent /\ resident' = resident /\ held' = held
      /\ cancelled' = RememberEach(cancelled, Gone(retired))
  BY DEF Demand, bindingVars, pageVars
<1>9. /\ Requesting(pending', asked') /\ Unanswered(pages, pending')
      /\ AnswerStands(pages, pending', outcome) /\ answer' = outcome
  BY <1>1, <1>5, <1>6, <1>7, SendFacts
<1>10. Remembering(cancelled')
  BY <1>1, <1>5, <1>8, RememberFacts DEF Remembering
<1> QED
  BY <1>1, <1>2, <1>8, <1>9, <1>10, StepInv

LEMMA RespondInv ==
  ASSUME ObjectsInv, NEW id \in Requests, NEW purpose \in Purposes, NEW d \in Demands,
         NEW i \in DOMAIN pending, NEW page \in Answers(i), Respond(i, page, id, purpose, d)
  PROVE  ObjectsInv'
<1>1. /\ gen \in Generations /\ extent \in Nat /\ Resting(resident, held, extent)
      /\ Requesting(pending, asked) /\ Remembering(cancelled) /\ Unanswered(resident, pending)
  BY DEF ObjectsInv
<1>2. i \in 1..Len(pending)
  BY <1>1 DEF Requesting
<1>3. PICK retired : retired = {pending[i]}
  OBVIOUS
<1>4. PICK keys : keys = Remaining(i)
  OBVIOUS
<1>5. PICK counts : counts = LessOne(i)
  OBVIOUS
<1>6. Leaves(keys, counts, retired)
  BY <1>1, <1>2, <1>3, <1>4, <1>5, AnsweredLeaves
<1>7. Resting(Projected(page), TotalHeld(Projected(page)), extent) /\ Unanswered(Projected(page), keys)
  BY <1>1, <1>2, <1>4, ProjectedFacts DEF Respond
<1>8. PICK pages \in Seq(Pages) : pages = Projected(page)
  BY <1>7, SoundFacts DEF Resting
<1>9. PICK outcome \in Outcomes(pages, retired, id, purpose, d) :
        Send(keys, counts, outcome) /\ resident' = MovedFor(pages, outcome)
  BY <1>3, <1>4, <1>5, <1>8 DEF Respond
<1>10. /\ gen' = gen /\ extent' = extent /\ cancelled' = cancelled
       /\ held' = TotalHeld(pages)
  BY <1>8 DEF Respond, bindingVars
<1>11. /\ Requesting(pending', asked') /\ Unanswered(pages, pending')
       /\ AnswerStands(pages, pending', outcome) /\ answer' = outcome
  BY <1>1, <1>6, <1>7, <1>8, <1>9, SendFacts
<1>12. /\ Resting(MovedFor(pages, outcome), TotalHeld(pages), extent)
       /\ Unanswered(MovedFor(pages, outcome), pending')
       /\ AnswerStands(MovedFor(pages, outcome), pending', outcome)
  BY <1>7, <1>8, <1>11, MovedForResting
<1> QED
  BY <1>1, <1>9, <1>10, <1>11, <1>12, StepInv

LEMMA ResumeInv ==
  ASSUME ObjectsInv, NEW id \in Requests, NEW purpose \in Purposes, NEW d \in Demands,
         NEW j \in DOMAIN resident, Resume(j, id, purpose, d)
  PROVE  ObjectsInv'
<1>1. /\ gen \in Generations /\ extent \in Nat /\ Resting(resident, held, extent)
      /\ Requesting(pending, asked) /\ Remembering(cancelled) /\ Unanswered(resident, pending)
  BY DEF ObjectsInv
<1>2. PICK pages \in Seq(Pages) : pages = resident
  BY <1>1, SoundFacts DEF Resting
<1>3. PICK keys : keys = pending
  OBVIOUS
<1>4. PICK counts : counts = asked
  OBVIOUS
<1>5. Leaves(keys, counts, {}) /\ Unanswered(pages, keys)
  BY <1>1, <1>2, <1>3, <1>4, AllLeaves
<1>6. PICK moved : moved = Moved(pages, pages[j].id)
  OBVIOUS
<1>7. PICK outcome \in Outcomes(pages, {}, id, purpose, d) :
        Send(keys, counts, outcome) /\ resident' = MovedFor(moved, outcome)
  BY <1>2, <1>3, <1>4, <1>6 DEF Resume
<1>8. gen' = gen /\ extent' = extent /\ cancelled' = cancelled /\ held' = held
  BY DEF Resume, bindingVars
<1>9. /\ Requesting(pending', asked') /\ Unanswered(pages, pending')
      /\ AnswerStands(pages, pending', outcome) /\ answer' = outcome
  BY <1>1, <1>5, <1>7, SendFacts
<1>10. /\ Resting(moved, held, extent) /\ Unanswered(moved, pending')
       /\ AnswerStands(moved, pending', outcome)
  BY <1>1, <1>2, <1>6, <1>9, MovedResting
<1>11. /\ Resting(MovedFor(moved, outcome), held, extent)
       /\ Unanswered(MovedFor(moved, outcome), pending')
       /\ AnswerStands(MovedFor(moved, outcome), pending', outcome)
  BY <1>10, MovedForResting
<1> QED
  BY <1>1, <1>7, <1>8, <1>9, <1>11, StepInv

LEMMA AdmitInv ==
  ASSUME ObjectsInv, NEW i \in DOMAIN pending, NEW page \in Answers(i), Admit(i, page)
  PROVE  ObjectsInv'
<1>1. /\ gen \in Generations /\ extent \in Nat /\ Resting(resident, held, extent)
      /\ Requesting(pending, asked) /\ Remembering(cancelled) /\ Unanswered(resident, pending)
  BY DEF ObjectsInv
<1>2. i \in 1..Len(pending)
  BY <1>1 DEF Requesting
<1>3. Requesting(Remaining(i), LessOne(i))
  BY <1>1, <1>2, AnsweredLeaves DEF Leaves
<1>4. Resting(Projected(page), TotalHeld(Projected(page)), extent) /\ Unanswered(Projected(page), Remaining(i))
  BY <1>1, <1>2, ProjectedFacts DEF Admit
<1>5. /\ gen' = gen /\ extent' = extent /\ cancelled' = cancelled /\ answer' = NoAnswer
      /\ resident' = Projected(page) /\ held' = TotalHeld(Projected(page))
      /\ pending' = Remaining(i) /\ asked' = LessOne(i)
  BY DEF Admit, Install, bindingVars
<1> QED
  BY <1>1, <1>3, <1>4, <1>5, NothingAnswered, StepInv

LEMMA SettleInv ==
  ASSUME ObjectsInv, NEW i \in DOMAIN pending, NEW failure, Settle(i, failure)
  PROVE  ObjectsInv'
<1>1. /\ gen \in Generations /\ extent \in Nat /\ Resting(resident, held, extent)
      /\ Requesting(pending, asked) /\ Remembering(cancelled) /\ Unanswered(resident, pending)
  BY DEF ObjectsInv
<1>2. i \in 1..Len(pending)
  BY <1>1 DEF Requesting
<1>3. Leaves(Remaining(i), LessOne(i), {pending[i]})
  BY <1>1, <1>2, AnsweredLeaves
<1>4. Unanswered(resident, Remaining(i))
  BY <1>1, <1>3 DEF Leaves, Unanswered
<1>5. /\ gen' = gen /\ extent' = extent /\ resident' = resident /\ held' = held /\ answer' = NoAnswer
      /\ pending' = Remaining(i) /\ asked' = LessOne(i)
      /\ cancelled' = cancelled \/ cancelled' = RememberEach(cancelled, <<pending[i]>>)
  BY DEF Settle, Remember, bindingVars, pageVars
<1>6. Remembering(cancelled')
  <2>1. <<pending[i]>> \in Seq(Keys) /\ cancelled \in Seq(Keys)
    BY <1>1, <1>2, RequestsDiffer DEF Remembering
  <2>2. Remembering(RememberEach(cancelled, <<pending[i]>>))
    BY <2>1, RememberFacts
  <2> QED
    BY <1>1, <1>5, <2>2
<1> QED
  BY <1>1, <1>3, <1>4, <1>5, <1>6, NothingAnswered, StepInv DEF Leaves

LEMMA PageStepInv ==
  ASSUME ObjectsInv, NEW j \in DOMAIN resident, Touch(j) \/ Evict(j)
  PROVE  ObjectsInv'
<1>1. /\ gen \in Generations /\ extent \in Nat /\ Resting(resident, held, extent)
      /\ Requesting(pending, asked) /\ Remembering(cancelled) /\ Unanswered(resident, pending)
  BY DEF ObjectsInv
<1>2. j \in 1..Len(resident)
  BY <1>1 DEF Resting
<1>3. /\ gen' = gen /\ extent' = extent /\ answer' = NoAnswer
      /\ pending' = pending /\ cancelled' = cancelled /\ asked' = asked
      /\ \/ resident' = Moved(resident, resident[j].id) /\ held' = held
         \/ resident' = RemoveAt(resident, j) /\ held' = Minus(held, resident[j])
  BY DEF Touch, Evict, bindingVars, requestVars
<1>4. Resting(resident', held', extent) /\ Unanswered(resident', pending)
  <2>1. CASE resident' = Moved(resident, resident[j].id) /\ held' = held
    BY <1>1, <2>1, MovedResting
  <2>2. CASE resident' = RemoveAt(resident, j) /\ held' = Minus(held, resident[j])
    BY <1>1, <1>2, <2>2, EvictResting
  <2> QED
    BY <1>3, <2>1, <2>2
<1> QED
  BY <1>1, <1>3, <1>4, NothingAnswered, StepInv

LEMMA BindingInv ==
  ASSUME ObjectsInv, Discard \/ Dispose \/ \E g \in Generations, e \in Extents : Rebind(g, e)
  PROVE  ObjectsInv'
<1>1. /\ gen \in Generations /\ extent \in Nat
      /\ Requesting(pending, asked) /\ Remembering(cancelled)
  BY DEF ObjectsInv
<1>2. /\ gen' \in Generations /\ extent' \in Nat /\ resident' = <<>> /\ held' = NoHeld
      /\ answer' = NoAnswer
      /\ \/ pending' = <<>> /\ cancelled' = <<>> /\ asked' = [objects |-> 0, bytes |-> 0]
         \/ pending' = pending /\ cancelled' = cancelled /\ asked' = asked
  <2>1. CASE Discard
    BY <1>1, <2>1 DEF Discard, NoPages, bindingVars, requestVars
  <2>2. CASE Dispose
    BY <1>1, <2>2 DEF Dispose, NoPages, NoRequests, bindingVars
  <2>3. CASE \E g \in Generations, e \in Extents : Rebind(g, e)
    BY <2>3, SourceAssumption DEF Rebind, NoPages, NoRequests
  <2> QED
    BY <2>1, <2>2, <2>3
<1>3. Resting(resident', held', extent')
  BY <1>2, NoneResting
<1>4. Requesting(pending', asked') /\ Remembering(cancelled')
  BY <1>1, <1>2, NoneRequesting
<1> QED
  BY <1>2, <1>3, <1>4, NothingAnswered, StepInv

LEMMA NextInv == ObjectsInv /\ [Next]_vars => ObjectsInv'
<1> SUFFICES ASSUME ObjectsInv, [Next]_vars PROVE ObjectsInv'
  OBVIOUS
<1>1. CASE UNCHANGED vars
  BY <1>1 DEF vars, ObjectsInv
<1>2. ASSUME NEW id \in Requests, NEW purpose \in Purposes, NEW d \in Demands,
             \/ \E retired \in SUBSET Range(pending) : Demand(id, purpose, d, retired)
             \/ \E i \in DOMAIN pending : \E page \in Answers(i) : Respond(i, page, id, purpose, d)
             \/ \E j \in DOMAIN resident : Resume(j, id, purpose, d)
      PROVE  ObjectsInv'
  BY <1>2, DemandInv, RespondInv, ResumeInv
<1>3. ASSUME NEW i \in DOMAIN pending,
             \/ \E page \in Answers(i) : Admit(i, page)
             \/ \E failure \in {"Cancelled", "Unavailable", "Malformed"} : Settle(i, failure)
      PROVE  ObjectsInv'
  BY <1>3, AdmitInv, SettleInv
<1>4. ASSUME NEW j \in DOMAIN resident, Touch(j) \/ Evict(j) PROVE ObjectsInv'
  BY <1>4, PageStepInv
<1>5. CASE Discard \/ Dispose \/ \E g \in Generations, e \in Extents : Rebind(g, e)
  BY <1>5, BindingInv
<1> QED
  BY <1>1, <1>2, <1>3, <1>4, <1>5 DEF Next

-----------------------------------------------------------------------------
(* Theorems.                                                               *)

\* The residents fit their limits and go together two by two, the requests fit theirs and
\* ask for lanes that no resident answers, and the answer given last stands.
THEOREM ObjectsInvariant == Spec => []ObjectsInv
<1> QED
  BY InitInv, NextInv, PTL DEF Spec

LEMMA AnswersFollow == ObjectsInv => AnswersHold
<1> SUFFICES ASSUME ObjectsInv PROVE AnswersHold
  OBVIOUS
<1>1. /\ Resting(resident, held, extent) /\ Requesting(pending, asked) /\ Remembering(cancelled)
      /\ Unanswered(resident, pending) /\ AnswerStands(resident, pending, answer)
  BY DEF ObjectsInv
<1>2. DOMAIN resident = 1..Len(resident) /\ DOMAIN pending = 1..Len(pending)
  BY <1>1 DEF Resting, Requesting
<1>3. CountersAgree
  <2>1. asked.objects = TotalObjects(pending) /\ asked.bytes = TotalBytes(pending)
    BY <1>1 DEF Requesting, TotalAsked
  <2> QED
    BY <1>1, <2>1 DEF CountersAgree, Resting, Requesting, Remembering, TotalAsked
<1>4. LanesDistinct
  <2>1. \A i, j \in 1..Len(resident) : i # j => ~SharesLane(resident[i].key, resident[j].key)
    BY <1>1 DEF Resting, Pairwise, Apart, Compatible
  <2>2. \A i, j \in 1..Len(pending) : i # j => ~SharesLane(pending[i], pending[j])
    BY <1>1 DEF Requesting, Pairwise, OtherLanes
  <2> QED
    BY <1>1, <1>2, <2>1, <2>2 DEF LanesDistinct, Unanswered
<1>5. \A i \in 1..Len(pending) : pending[i] \in Range(pending)
  BY <1>2 DEF Range
<1>6. /\ answer.type = "Resident" =>
           \E i \in DOMAIN resident :
             /\ resident[i].id = answer.page
             /\ SameLane(resident[i].key, answer.key.purpose, answer.key.demand)
      /\ answer.type = "Coalesced" => answer.with \in Range(pending)
      /\ answer.type = "Requested" => answer.key \in Range(pending)
  BY <1>1, <1>2, <1>5 DEF AnswerStands
<1> QED
  BY <1>3, <1>4, <1>6 DEF AnswersHold

\* The answer to a demand stands once all that was prepared with it is committed, no lane
\* is served twice, and the counters are the sums they stand for (object_residency.rs
\* prepare_demand_after_retirement_from, response_preparation.rs).
THEOREM AnswersHoldHolds == Spec => []AnswersHold
  BY ObjectsInvariant, AnswersFollow, PTL

LEMMA ShownFollow == ObjectsInv => ShownOnce
<1> SUFFICES ASSUME ObjectsInv PROVE ShownOnce
  OBVIOUS
<1>1. resident \in Seq(Sound(extent)) /\ Pairwise(resident, Apart)
  BY DEF ObjectsInv, Resting
<1>2. DOMAIN resident = 1..Len(resident) /\ \A i \in 1..Len(resident) : resident[i] \in Sound(extent)
  BY <1>1, SoundFacts
<1>3. \A i, j \in 1..Len(resident) : i # j => Compatible(resident[i], resident[j])
  BY <1>1 DEF Pairwise, Apart
<1>4. \A i \in 1..Len(resident) : \A o \in resident[i].objects : o.at <= extent
  BY <1>2 DEF Sound
<1> QED
  BY <1>2, <1>3, <1>4 DEF ShownOnce, Compatible

\* No object and no place is shown by two residents, whatever hosts answer (admission.rs
\* prepare_storage, object_residency.rs validate_page_proofs).
THEOREM ShownOnceHolds == Spec => []ShownOnce
  BY ObjectsInvariant, ShownFollow, PTL

LEMMA GapsFollow == ObjectsInv => GapsAreTrue
<1> SUFFICES ASSUME ObjectsInv, NEW i \in DOMAIN resident, Truthful(resident[i]), NEW gap \in Gaps
             PROVE  /\ ProvesGap(resident[i], gap) => TrueGap(gap)
                    /\ /\ resident[i].complete /\ resident[i].key.demand.cursor = None
                       /\ ContainsAnchor(resident[i].key.demand, gap.at) /\ TrueGap(gap)
                       => ProvesGap(resident[i], gap)
  BY DEF GapsAreTrue
<1>1. gen \in Generations /\ extent \in Nat /\ resident \in Seq(Sound(extent))
  BY DEF ObjectsInv, Resting
<1>2. PICK page \in Pages : page = resident[i] /\ Constructed(page)
  <2>1. i \in 1..Len(resident)
    BY <1>1
  <2>2. resident[i] \in Sound(extent) /\ resident[i] \in Pages
    BY <1>1, <2>1, SoundFacts
  <2> QED
    BY <2>2 DEF Sound
<1>3. Truthful(page)
  BY <1>2
<1>4. ProvesGap(page, gap) => TrueGap(gap)
  BY <1>1, <1>2, <1>3, ProvenGapIsTrue
<1>5. /\ page.complete /\ page.key.demand.cursor = None
      /\ ContainsAnchor(page.key.demand, gap.at) /\ TrueGap(gap)
      => ProvesGap(page, gap)
  BY <1>1, <1>2, <1>3, TrueGapIsProven
<1> QED
  BY <1>2, <1>4, <1>5

\* A gap that a resident page of a truthful host proves is a gap of the source, and a page
\* of its whole envelope proves every gap in it (object_residency.rs page_proves_gap).
THEOREM GapsAreTrueHolds == Spec => []GapsAreTrue
  BY ObjectsInvariant, GapsFollow, PTL
=============================================================================
