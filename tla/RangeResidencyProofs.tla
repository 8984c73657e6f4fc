------------------------- MODULE RangeResidencyProofs -------------------------
(***************************************************************************)
(* Bounds, identities and residents of RangeResidency, for any number of   *)
(* requests and pages, any demands and any limits.                         *)
(*                                                                         *)
(* The pages a step keeps are those of before without some of them, in     *)
(* their order (Within), so what holds of every two stays true; what they  *)
(* and the requests weigh is added up as ListTheorems says.                *)
(***************************************************************************)
EXTENDS RangeResidency, ListTheorems

-----------------------------------------------------------------------------
(* The inductive invariant.                                                *)

\* Keys of binding g up to the highest identity h.
Known(g, h) == {key \in Keys : key.gen = g /\ key.id <= h}

\* Identities grow, and no purpose waits for the same demand twice.
Ordered(keys) ==
  \A i, j \in 1..Len(keys) : i < j =>
    /\ keys[i].id < keys[j].id
    /\ ~(keys[i].purpose = keys[j].purpose /\ keys[i].demand = keys[j].demand)

Disjoint(keys, others) ==
  \A i \in 1..Len(keys), j \in 1..Len(others) : keys[i].id # others[j].id

Requesting(keys, gone, h, bytes, g) ==
  /\ keys \in Seq(Known(g, h)) /\ gone \in Seq(Known(g, h))
  /\ Ordered(keys) /\ Disjoint(keys, gone)
  /\ bytes = TotalAsked(keys) /\ bytes <= MaxPendingBytes
  /\ Len(keys) <= MaxPending /\ Len(gone) <= MaxPending

\* Pages of a source of binding g and e bytes.
Sound(g, e) ==
  {page \in PageSpace :
     /\ page.gen = g /\ page.lo <= page.hi /\ page.hi <= e /\ (page.end <=> page.hi = e)
     /\ Satisfies(page, page.demand)}

Compatible(a, b) == ~Overlaps(a, b) /\ ~Contradicts(a.atom, b.atom)

Apart(pages) == \A i, j \in 1..Len(pages) : i # j => Compatible(pages[i], pages[j])

Resting(pages, bytes, g, e) ==
  /\ pages \in Seq(Sound(g, e))
  /\ Apart(pages)
  /\ bytes = TotalRetained(pages) /\ bytes <= MaxBytes
  /\ Len(pages) <= MaxPages

ResidencyInv ==
  /\ gen \in Generations /\ extent \in Nat /\ highest \in Nat
  /\ Requesting(pending, cancelled, highest, pendingBytes, gen)
  /\ Resting(resident, residentBytes, gen, extent)

-----------------------------------------------------------------------------
(* What requests and pages weigh.                                          *)

Ask == [key \in Keys |-> key.demand.max]

LEMMA AskNat == \A key \in Keys : Ask[key] = key.demand.max /\ Ask[key] \in Nat
<1>1. \A key \in Keys : key.demand \in DemandSpace
  BY SourceAssumption DEF Keys
<1> QED
  BY <1>1 DEF Ask, DemandSpace

LEMMA AskedWeighs ==
  ASSUME NEW keys \in Seq(Keys)
  PROVE  TotalAsked(keys) = Weighs(keys, Ask) /\ TotalAsked(keys) \in Nat
<1>1. [i \in DOMAIN keys |-> keys[i].demand.max] = Weights(keys, Ask)
  <2>1. DOMAIN keys = 1..Len(keys) /\ \A i \in 1..Len(keys) : keys[i] \in Keys
    OBVIOUS
  <2>2. \A i \in 1..Len(keys) : keys[i].demand.max = Ask[keys[i]]
    BY <2>1, AskNat
  <2> QED
    BY <2>1, <2>2 DEF Weights
<1>2. TotalAsked(keys) = Weighs(keys, Ask)
  BY <1>1 DEF TotalAsked, Weighs
<1>3. Weighs(keys, Ask) \in Nat
  BY AskNat, WeighsNat
<1> QED
  BY <1>2, <1>3

LEMMA AskedSplit ==
  ASSUME NEW keys \in Seq(Keys), NEW S
  PROVE  /\ Only(keys, S) \in Seq(Keys) /\ Removed(keys, S) \in Seq(Keys)
         /\ TotalAsked(Only(keys, S)) \in Nat /\ TotalAsked(Removed(keys, S)) \in Nat
         /\ TotalAsked(Only(keys, S)) + TotalAsked(Removed(keys, S)) = TotalAsked(keys)
<1> DEFINE R == Keys \ S
<1>1. Removed(keys, S) = Only(keys, R)
  BY RemovedOnly
<1>2. /\ Weighs(Only(keys, S), Ask) \in Nat /\ Weighs(Only(keys, R), Ask) \in Nat
      /\ Weighs(Only(keys, S), Ask) + Weighs(Only(keys, R), Ask) = Weighs(keys, Ask)
  BY AskNat, WeighsSplit
<1> HIDE DEF R
<1>3. Only(keys, S) \in Seq(Keys) /\ Only(keys, R) \in Seq(Keys)
  BY OnlyShorter
<1> QED
  BY <1>1, <1>2, <1>3, AskedWeighs

LEMMA AskedAppend ==
  ASSUME NEW keys \in Seq(Keys), NEW key \in Keys
  PROVE  /\ Append(keys, key) \in Seq(Keys)
         /\ TotalAsked(Append(keys, key)) = TotalAsked(keys) + key.demand.max
<1>1. Append(keys, key) \in Seq(Keys)
  BY AppendIn
<1>2. Weighs(Append(keys, key), Ask) = Weighs(keys, Ask) + Ask[key]
  BY AskNat, WeighsAppend
<1> QED
  BY <1>1, <1>2, AskedWeighs, AskNat

LEMMA AskedLess ==
  ASSUME NEW keys \in Seq(Keys), NEW i \in 1..Len(keys)
  PROVE  TotalAsked(Less(keys, i)) + keys[i].demand.max = TotalAsked(keys)
<1>1. Less(keys, i) \in Seq(Keys)
  BY LessFacts
<1>2. Weighs(Less(keys, i), Ask) + Ask[keys[i]] = Weighs(keys, Ask)
  BY AskNat, LessWeighs
<1>3. keys[i] \in Keys
  OBVIOUS
<1> QED
  BY <1>1, <1>2, <1>3, AskedWeighs, AskNat

LEMMA AskedEmpty == TotalAsked(<<>>) = 0
<1>1. <<>> \in Seq(Keys)
  OBVIOUS
<1> QED
  BY <1>1, AskedWeighs, WeighsEmpty

\* Pages that are their range in order.
Proper == {page \in PageSpace : page.lo <= page.hi}

Weight == [page \in Proper |-> Retained(page)]

LEMMA WeightNat == \A page \in Proper : Weight[page] = Retained(page) /\ Weight[page] \in Nat
<1>1. ASSUME NEW page \in Proper PROVE Retained(page) \in Nat
  <2>1. page.lo \in Nat /\ page.hi \in Nat /\ page.lo <= page.hi
    BY SourceAssumption DEF Proper, PageSpace
  <2>2. page.atom = NoAtom \/ page.atom.copy \in Nat
    <3>1. page.atom = NoAtom \/ page.atom \in AtomSpace
      BY SourceAssumption DEF Proper, PageSpace
    <3> QED
      BY <3>1 DEF AtomSpace
  <2>3. page.hi - page.lo \in Nat
    BY <2>1
  <2> QED
    BY <2>2, <2>3 DEF Retained
<1> QED
  BY <1>1 DEF Weight

LEMMA RetainedWeighs ==
  ASSUME NEW pages \in Seq(Proper)
  PROVE  TotalRetained(pages) = Weighs(pages, Weight) /\ TotalRetained(pages) \in Nat
<1>1. [i \in DOMAIN pages |-> Retained(pages[i])] = Weights(pages, Weight)
  <2>1. DOMAIN pages = 1..Len(pages) /\ \A i \in 1..Len(pages) : pages[i] \in Proper
    OBVIOUS
  <2>2. \A i \in 1..Len(pages) : Retained(pages[i]) = Weight[pages[i]]
    BY <2>1, WeightNat
  <2> QED
    BY <2>1, <2>2 DEF Weights
<1>2. TotalRetained(pages) = Weighs(pages, Weight)
  BY <1>1 DEF TotalRetained, Weighs
<1>3. Weighs(pages, Weight) \in Nat
  BY WeightNat, WeighsNat
<1> QED
  BY <1>2, <1>3

LEMMA RetainedAppend ==
  ASSUME NEW pages \in Seq(Proper), NEW page \in Proper
  PROVE  /\ Append(pages, page) \in Seq(Proper)
         /\ TotalRetained(Append(pages, page)) = TotalRetained(pages) + Retained(page)
<1>1. Append(pages, page) \in Seq(Proper)
  BY AppendIn
<1>2. Weighs(Append(pages, page), Weight) = Weighs(pages, Weight) + Weight[page]
  BY WeightNat, WeighsAppend
<1> QED
  BY <1>1, <1>2, RetainedWeighs, WeightNat

LEMMA RetainedLess ==
  ASSUME NEW pages \in Seq(Proper), NEW i \in 1..Len(pages)
  PROVE  TotalRetained(Less(pages, i)) + Retained(pages[i]) = TotalRetained(pages)
<1>1. Less(pages, i) \in Seq(Proper)
  BY LessFacts
<1>2. Weighs(Less(pages, i), Weight) + Weight[pages[i]] = Weighs(pages, Weight)
  BY WeightNat, LessWeighs
<1>3. pages[i] \in Proper
  OBVIOUS
<1> QED
  BY <1>1, <1>2, <1>3, RetainedWeighs, WeightNat

LEMMA RetainedEmpty == TotalRetained(<<>>) = 0
<1>1. <<>> \in Seq(Proper)
  OBVIOUS
<1> QED
  BY <1>1, RetainedWeighs, WeighsEmpty

-----------------------------------------------------------------------------
(* Requests.                                                               *)

LEMMA KnownFacts ==
  ASSUME NEW g, NEW h
  PROVE  /\ Known(g, h) \subseteq Keys
         /\ \A key \in Known(g, h) : key.gen = g /\ key.id <= h /\ key.id \in Nat
         /\ \A keys \in Seq(Known(g, h)) :
              /\ keys \in Seq(Keys)
              /\ \A i \in 1..Len(keys) : keys[i] \in Known(g, h) /\ keys[i].id \in Nat /\ keys[i].id <= h
<1>1. Known(g, h) \subseteq Keys
  BY DEF Known
<1>2. \A key \in Known(g, h) : key.gen = g /\ key.id <= h /\ key.id \in Nat
  BY DEF Known, Keys, Requests
<1> DEFINE K == Known(g, h)
<1>3. K \subseteq Keys /\ \A key \in K : key.id \in Nat /\ key.id <= h
  BY <1>1, <1>2
<1> HIDE DEF K
<1>4. \A keys \in Seq(K) : keys \in Seq(Keys) /\ \A i \in 1..Len(keys) : keys[i] \in K
  BY <1>3
<1>5. \A keys \in Seq(K) : \A i \in 1..Len(keys) : keys[i].id \in Nat /\ keys[i].id <= h
  BY <1>3, <1>4
<1> QED
  BY <1>1, <1>2, <1>4, <1>5 DEF K

LEMMA KnownGrows ==
  ASSUME NEW g, NEW h \in Nat, NEW k \in Nat, h <= k
  PROVE  \A keys \in Seq(Known(g, h)) : keys \in Seq(Known(g, k))
<1>1. \A key \in Known(g, h) : key.id \in Nat
  BY KnownFacts
<1>2. Known(g, h) \subseteq Known(g, k)
  BY <1>1 DEF Known
<1> DEFINE A == Known(g, h)
           B == Known(g, k)
<1>3. A \subseteq B
  BY <1>2
<1> HIDE DEF A, B
<1>4. \A keys \in Seq(A) : keys \in Seq(B)
  BY <1>3
<1> QED
  BY <1>4 DEF A, B

LEMMA WithinOrdered ==
  ASSUME NEW keys, NEW others, Within(others, keys), Ordered(keys)
  PROVE  Ordered(others)
  BY DEF Within, Ordered

LEMMA WithinDisjoint ==
  ASSUME NEW keys, NEW others, NEW gone, Within(others, keys), Disjoint(keys, gone)
  PROVE  Disjoint(others, gone)
  BY DEF Within, Disjoint

\* What is retired and what stays have different identities.
LEMMA SplitDisjoint ==
  ASSUME NEW g, NEW h, NEW keys \in Seq(Known(g, h)), Ordered(keys), NEW S
  PROVE  Disjoint(Removed(keys, S), Only(keys, S))
<1> DEFINE R == Keys \ S
<1>0. \A i \in 1..Len(keys) : keys[i] \in Keys /\ (keys[i] \in R <=> keys[i] \notin S)
  BY KnownFacts
<1> HIDE DEF R
<1>1. keys \in Seq(Keys)
  BY KnownFacts
<1>2. Removed(keys, S) = Only(keys, R)
  BY <1>1, RemovedOnly DEF R
<1>3. PICK d : Places(d, Only(keys, R), keys, R)
  BY OnlyPlaces
<1>4. PICK e : Places(e, Only(keys, S), keys, S)
  BY OnlyPlaces
<1>5. PICK a : a = Only(keys, R)
  OBVIOUS
<1>6. PICK b : b = Only(keys, S)
  OBVIOUS
<1>7. ASSUME NEW i \in 1..Len(a), NEW j \in 1..Len(b) PROVE a[i].id # b[j].id
  <2>1. d[i] \in 1..Len(keys) /\ a[i] = keys[d[i]] /\ keys[d[i]] \in R
    BY <1>3, <1>5 DEF Places
  <2>2. e[j] \in 1..Len(keys) /\ b[j] = keys[e[j]] /\ keys[e[j]] \in S
    BY <1>4, <1>6 DEF Places
  <2>3. d[i] # e[j]
    BY <1>0, <2>1, <2>2
  <2>4. d[i] < e[j] \/ e[j] < d[i]
    BY <2>1, <2>2, <2>3
  <2>5. keys[d[i]].id \in Nat /\ keys[e[j]].id \in Nat
    BY <2>1, <2>2, KnownFacts
  <2>6. keys[d[i]].id < keys[e[j]].id \/ keys[e[j]].id < keys[d[i]].id
    BY <2>1, <2>2, <2>4 DEF Ordered
  <2> QED
    BY <2>1, <2>2, <2>5, <2>6
<1> QED
  BY <1>2, <1>5, <1>6, <1>7 DEF Disjoint

\* The request that is over has an identity of its own.
LEMMA LessDisjoint ==
  ASSUME NEW g, NEW h, NEW keys \in Seq(Known(g, h)), Ordered(keys), NEW i \in 1..Len(keys)
  PROVE  \A j \in 1..Len(Less(keys, i)) : Less(keys, i)[j].id # keys[i].id
<1>1. PICK t : t = Less(keys, i)
  OBVIOUS
<1>2. Len(t) = Len(keys) - 1 /\ \A j \in 1..(Len(keys) - 1) : t[j] = keys[IF j < i THEN j ELSE j + 1]
  BY <1>1, LessFacts
<1>3. ASSUME NEW j \in 1..Len(t) PROVE t[j].id # keys[i].id
  <2>1. PICK k \in 1..Len(keys) : k # i /\ t[j] = keys[k]
    <3>1. CASE j < i
      BY <1>2, <3>1
    <3>2. CASE ~(j < i)
      BY <1>2, <3>2
    <3> QED
      BY <3>1, <3>2
  <2>2. keys[k].id \in Nat /\ keys[i].id \in Nat
    BY KnownFacts
  <2>3. keys[k].id < keys[i].id \/ keys[i].id < keys[k].id
    BY <2>1 DEF Ordered
  <2> QED
    BY <2>1, <2>2, <2>3
<1> QED
  BY <1>1, <1>3

LEMMA ConcatDisjoint ==
  ASSUME NEW A, NEW keys, NEW gone \in Seq(A), NEW more \in Seq(A),
         Disjoint(keys, gone), Disjoint(keys, more)
  PROVE  Disjoint(keys, gone \o more)
<1>1. PICK all \in Seq(A) : all = gone \o more
  BY ConcatIn
<1>2. \A k \in 1..Len(all) : (\E j \in 1..Len(gone) : all[k] = gone[j]) \/ \E j \in 1..Len(more) : all[k] = more[j]
  <2> SUFFICES ASSUME NEW k \in 1..Len(all)
               PROVE  (\E j \in 1..Len(gone) : all[k] = gone[j]) \/ \E j \in 1..Len(more) : all[k] = more[j]
    OBVIOUS
  <2>1. CASE k <= Len(gone)
    BY <1>1, <2>1
  <2>2. CASE ~(k <= Len(gone))
    <3>1. k - Len(gone) \in 1..Len(more) /\ all[k] = more[k - Len(gone)]
      BY <1>1, <2>2
    <3> QED
      BY <3>1
  <2> QED
    BY <2>1, <2>2
<1>3. Disjoint(keys, all)
  BY <1>2 DEF Disjoint
<1> QED
  BY <1>1, <1>3

LEMMA LastDisjoint ==
  ASSUME NEW keys, NEW others, NEW all, Within(others, all), Disjoint(keys, all)
  PROVE  Disjoint(keys, others)
  BY DEF Within, Disjoint

\* What is remembered of the cancelled are cancelled keys, few enough.
LEMMA RememberFacts ==
  ASSUME NEW K, NEW keys, NEW gone \in Seq(K), NEW more \in Seq(K), 
         Disjoint(keys, gone), Disjoint(keys, more)
  PROVE  /\ RememberEach(gone, more) \in Seq(K)
         /\ Len(RememberEach(gone, more)) <= MaxPending
         /\ Disjoint(keys, RememberEach(gone, more))
<1>1. PICK all \in Seq(K) : all = gone \o more
  BY ConcatIn
<1>2. MaxPending \in Nat
  BY LimitsAssumption
<1>3. PICK n \in 0..Len(all) : n = IF Len(all) > MaxPending THEN Len(all) - MaxPending ELSE 0
  <2>1. Len(all) \in Nat
    OBVIOUS
  <2>2. (IF Len(all) > MaxPending THEN Len(all) - MaxPending ELSE 0) \in 0..Len(all)
    BY <1>2, <2>1
  <2> QED
    BY <2>2
<1>4. RememberEach(gone, more) = SubSeq(all, n + 1, Len(all))
  BY <1>1, <1>3 DEF RememberEach
<1>5. PICK last : last = SubSeq(all, n + 1, Len(all))
  OBVIOUS
<1>6. last \in Seq(K) /\ Len(last) = Len(all) - n /\ Within(last, all)
  <2>1. SubSeq(all, n + 1, Len(all)) \in Seq(K) /\ Len(SubSeq(all, n + 1, Len(all))) = Len(all) - n
    BY SuffixFacts
  <2>2. Within(SubSeq(all, n + 1, Len(all)), all)
    BY SuffixWithin
  <2> QED
    BY <1>5, <2>1, <2>2
<1>7. Len(last) <= MaxPending
  BY <1>2, <1>3, <1>6
<1>8. Disjoint(keys, all)
  BY <1>1, ConcatDisjoint
<1>9. Disjoint(keys, last)
  BY <1>6, <1>8, LastDisjoint
<1> QED
  BY <1>4, <1>5, <1>6, <1>7, <1>9

-----------------------------------------------------------------------------
(* Steps on requests.                                                      *)

LEMMA RetirementFacts ==
  ASSUME Requesting(pending, cancelled, highest, pendingBytes, gen), NEW retired
  PROVE  /\ Staying(retired) \in Seq(Known(gen, highest)) /\ Gone(retired) \in Seq(Known(gen, highest))
         /\ Ordered(Staying(retired))
         /\ Disjoint(Staying(retired), cancelled) /\ Disjoint(Staying(retired), Gone(retired))
         /\ Left(retired) = TotalAsked(Staying(retired)) /\ Left(retired) \in Nat
         /\ Left(retired) <= MaxPendingBytes
         /\ Len(Staying(retired)) <= MaxPending
<1> DEFINE K == Known(gen, highest)
           R == Keys \ retired
<1>1. pending \in Seq(K) /\ pending \in Seq(Keys)
  BY KnownFacts DEF Requesting
<1>2. Staying(retired) = Only(pending, R) /\ Gone(retired) = Only(pending, retired)
  BY <1>1, RemovedOnly DEF Staying, Gone
<1>3. Disjoint(Staying(retired), Gone(retired))
  BY SplitDisjoint DEF Staying, Gone, Requesting
<1> HIDE DEF K, R
<1>4. /\ Only(pending, R) \in Seq(K) /\ Len(Only(pending, R)) <= Len(pending)
      /\ Only(pending, retired) \in Seq(K) /\ Within(Only(pending, R), pending)
  BY <1>1, OnlyShorter, OnlyWithin
<1>5. Ordered(Only(pending, R)) /\ Disjoint(Only(pending, R), cancelled)
  BY <1>4, WithinOrdered, WithinDisjoint DEF Requesting
<1>6. Len(Only(pending, R)) <= MaxPending
  <2>1. Len(pending) \in Nat /\ Len(Only(pending, R)) \in Nat /\ Len(pending) <= MaxPending /\ MaxPending \in Nat
    BY <1>1, <1>4, LimitsAssumption DEF Requesting
  <2> QED
    BY <1>4, <2>1
<1>7. Left(retired) = TotalAsked(Staying(retired)) /\ Left(retired) \in Nat /\ Left(retired) <= MaxPendingBytes
  <2>1. PICK a \in Nat : a = TotalAsked(Only(pending, retired))
    BY <1>1, AskedSplit
  <2>2. PICK b \in Nat : b = TotalAsked(Removed(pending, retired))
    BY <1>1, AskedSplit
  <2>3. a + b = pendingBytes
    BY <1>1, <2>1, <2>2, AskedSplit DEF Requesting
  <2>4. pendingBytes <= MaxPendingBytes /\ MaxPendingBytes \in Nat
    BY LimitsAssumption DEF Requesting
  <2>5. Left(retired) = pendingBytes - a /\ TotalAsked(Staying(retired)) = b
    BY <2>1, <2>2 DEF Left, Gone, Staying
  <2> QED
    BY <2>3, <2>4, <2>5
<1> QED
  BY <1>2, <1>3, <1>4, <1>5, <1>6, <1>7 DEF K

LEMMA SendRequesting ==
  ASSUME gen \in Generations, highest \in Nat,
         Requesting(pending, cancelled, highest, pendingBytes, gen),
         NEW id \in Requests, NEW purpose \in Purposes, NEW d \in Demands, NEW retired,
         Requested(id, purpose, d, retired), Send(id, purpose, d, retired)
  PROVE  highest' \in Nat /\ Requesting(pending', cancelled', highest', pendingBytes', gen)
<1>1. PICK key : key = [id |-> id, gen |-> gen, purpose |-> purpose, demand |-> d]
  OBVIOUS
<1>2. PICK stay \in Seq(Known(gen, highest)) : stay = Staying(retired)
  BY RetirementFacts
<1>3. PICK out \in Seq(Known(gen, highest)) : out = Gone(retired)
  BY RetirementFacts
<1>4. /\ Ordered(stay) /\ Disjoint(stay, cancelled) /\ Disjoint(stay, out)
      /\ Left(retired) = TotalAsked(stay) /\ Left(retired) \in Nat
  BY <1>2, <1>3, RetirementFacts
<1>5. id \in Nat /\ highest < id /\ key \in Known(gen, id) /\ key \in Keys /\ key.demand.max = d.max
  BY <1>1 DEF Requested, Requests, Keys, Known
<1>6. cancelled \in Seq(Known(gen, highest))
  BY DEF Requesting
<1>7. stay \in Seq(Known(gen, id)) /\ out \in Seq(Known(gen, id)) /\ cancelled \in Seq(Known(gen, id))
  BY <1>5, <1>6, KnownGrows
<1>8. PICK next \in Seq(Known(gen, id)) : next = Append(stay, key)
  BY <1>5, <1>7, AppendIn
<1>9. pending' = next /\ highest' = id /\ pendingBytes' = Left(retired) + d.max
      /\ cancelled' = RememberEach(cancelled, out)
  BY <1>1, <1>2, <1>3, <1>8 DEF Send
<1>10. PICK n \in Nat : n = Len(stay)
  BY <1>2
<1>11. Len(next) = n + 1 /\ next[n + 1] = key /\ \A i \in 1..n : next[i] = stay[i]
  BY <1>8, <1>10
<1>12. \A i \in 1..n : stay[i].id \in Nat /\ stay[i].id < id
  BY <1>2, <1>5, <1>10, KnownFacts
<1>13. Ordered(next)
  <2>1. ASSUME NEW i \in 1..n PROVE ~(stay[i].purpose = purpose /\ stay[i].demand = d)
    <3>1. i \in DOMAIN stay /\ ~InFlight(stay, purpose, d)
      BY <1>2, <1>10 DEF Requested
    <3> QED
      BY <3>1 DEF InFlight
  <2> SUFFICES ASSUME NEW i \in 1..(n + 1), NEW j \in 1..(n + 1), i < j
               PROVE  /\ next[i].id < next[j].id
                      /\ ~(next[i].purpose = next[j].purpose /\ next[i].demand = next[j].demand)
    BY <1>11 DEF Ordered
  <2>2. i \in 1..n
    OBVIOUS
  <2>3. CASE j = n + 1
    BY <1>1, <1>11, <1>12, <2>1, <2>2, <2>3
  <2>4. CASE j \in 1..n
    BY <1>4, <1>10, <1>11, <2>2, <2>4 DEF Ordered
  <2> QED
    BY <2>3, <2>4
<1>14. ASSUME NEW gone \in Seq(Known(gen, highest)), Disjoint(stay, gone) PROVE Disjoint(next, gone)
  <2>1. \A j \in 1..Len(gone) : gone[j].id \in Nat /\ gone[j].id < id
    BY <1>5, KnownFacts
  <2> SUFFICES ASSUME NEW i \in 1..(n + 1), NEW j \in 1..Len(gone) PROVE next[i].id # gone[j].id
    BY <1>11 DEF Disjoint
  <2>2. CASE i = n + 1
    BY <1>1, <1>5, <1>11, <2>1, <2>2
  <2>3. CASE i \in 1..n
    BY <1>10, <1>11, <1>14, <2>3 DEF Disjoint
  <2> QED
    BY <2>2, <2>3
<1>15. Disjoint(next, cancelled) /\ Disjoint(next, out)
  BY <1>4, <1>6, <1>14
<1>16. /\ RememberEach(cancelled, out) \in Seq(Known(gen, id))
       /\ Len(RememberEach(cancelled, out)) <= MaxPending
       /\ Disjoint(next, RememberEach(cancelled, out))
  BY <1>7, <1>15, RememberFacts
<1>17. Left(retired) + d.max = TotalAsked(next) /\ Left(retired) + d.max <= MaxPendingBytes
  <2>1. stay \in Seq(Keys)
    BY <1>2, KnownFacts
  <2>2. TotalAsked(next) = TotalAsked(stay) + key.demand.max
    BY <1>5, <1>8, <2>1, AskedAppend
  <2> QED
    BY <1>4, <1>5, <2>2 DEF Requested
<1>18. Len(next) <= MaxPending
  BY <1>2, <1>10, <1>11, LimitsAssumption DEF Requested
<1> QED
  BY <1>5, <1>8, <1>9, <1>13, <1>16, <1>17, <1>18 DEF Requesting

LEMMA CoalesceRequesting ==
  ASSUME Requesting(pending, cancelled, highest, pendingBytes, gen), NEW retired
  PROVE  Requesting(Staying(retired), RememberEach(cancelled, Gone(retired)), highest, Left(retired), gen)
<1> DEFINE K == Known(gen, highest)
<1>1. /\ Staying(retired) \in Seq(K) /\ Gone(retired) \in Seq(K) /\ cancelled \in Seq(K)
      /\ Ordered(Staying(retired))
      /\ Disjoint(Staying(retired), cancelled) /\ Disjoint(Staying(retired), Gone(retired))
      /\ Left(retired) = TotalAsked(Staying(retired)) /\ Left(retired) <= MaxPendingBytes
      /\ Len(Staying(retired)) <= MaxPending
  BY RetirementFacts DEF Requesting
<1> HIDE DEF K
<1>2. /\ RememberEach(cancelled, Gone(retired)) \in Seq(K)
      /\ Len(RememberEach(cancelled, Gone(retired))) <= MaxPending
      /\ Disjoint(Staying(retired), RememberEach(cancelled, Gone(retired)))
  BY <1>1, RememberFacts
<1> QED
  BY <1>1, <1>2 DEF Requesting, K

\* RemoveAt takes one position out.
LEMMA RemoveAtLess == ASSUME NEW s, NEW i PROVE RemoveAt(s, i) = Less(s, i)
  BY DEF RemoveAt, Less

LEMMA AnsweredFacts ==
  ASSUME Requesting(pending, cancelled, highest, pendingBytes, gen), NEW i \in DOMAIN pending
  PROVE  /\ i \in 1..Len(pending) /\ pending[i] \in Known(gen, highest)
         /\ RemoveAt(pending, i) = Less(pending, i)
         /\ Less(pending, i) \in Seq(Known(gen, highest))
         /\ Ordered(Less(pending, i)) /\ Disjoint(Less(pending, i), cancelled)
         /\ pendingBytes - pending[i].demand.max = TotalAsked(Less(pending, i))
         /\ pendingBytes - pending[i].demand.max <= MaxPendingBytes
         /\ Len(Less(pending, i)) <= MaxPending
<1> DEFINE K == Known(gen, highest)
<1>1. pending \in Seq(K) /\ pending \in Seq(Keys)
  BY KnownFacts DEF Requesting
<1> HIDE DEF K
<1>2. i \in 1..Len(pending) /\ pending[i] \in K /\ pending[i] \in Keys
  BY <1>1
<1>3. Less(pending, i) \in Seq(K) /\ Len(Less(pending, i)) = Len(pending) - 1 /\ Within(Less(pending, i), pending)
  BY <1>1, <1>2, LessFacts, LessWithin
<1>4. Ordered(Less(pending, i)) /\ Disjoint(Less(pending, i), cancelled)
  BY <1>3, WithinOrdered, WithinDisjoint DEF Requesting
<1>5. Len(Less(pending, i)) <= MaxPending
  <2>1. Len(pending) \in Nat /\ Len(pending) <= MaxPending /\ MaxPending \in Nat
    BY <1>1, LimitsAssumption DEF Requesting
  <2> QED
    BY <1>3, <2>1
<1>6. /\ pendingBytes - pending[i].demand.max = TotalAsked(Less(pending, i))
      /\ pendingBytes - pending[i].demand.max <= MaxPendingBytes
  <2>1. PICK a \in Nat : a = TotalAsked(Less(pending, i))
    <3>1. Less(pending, i) \in Seq(Keys)
      BY <1>1, <1>2, LessFacts
    <3> QED
      BY <3>1, AskedWeighs
  <2>2. PICK b \in Nat : b = pending[i].demand.max
    BY <1>2, AskNat
  <2>3. a + b = pendingBytes
    BY <1>1, <1>2, <2>1, <2>2, AskedLess DEF Requesting
  <2>4. pendingBytes <= MaxPendingBytes /\ MaxPendingBytes \in Nat
    BY LimitsAssumption DEF Requesting
  <2> QED
    BY <2>1, <2>2, <2>3, <2>4
<1> QED
  BY <1>2, <1>3, <1>4, <1>5, <1>6, RemoveAtLess DEF K

LEMMA AnswerRequesting ==
  ASSUME Requesting(pending, cancelled, highest, pendingBytes, gen), NEW i \in DOMAIN pending, Answered(i)
  PROVE  Requesting(pending', cancelled, highest', pendingBytes', gen)
  BY AnsweredFacts DEF Answered, Requesting

LEMMA CancelRequesting ==
  ASSUME Requesting(pending, cancelled, highest, pendingBytes, gen), NEW i \in DOMAIN pending, Answered(i)
  PROVE  Requesting(pending', Remember(cancelled, pending[i]), highest', pendingBytes', gen)
<1> DEFINE K == Known(gen, highest)
<1>1. pending[i] \in K /\ pending' = Less(pending, i) /\ Disjoint(pending', cancelled) /\ cancelled \in Seq(K)
  BY AnsweredFacts DEF Answered, Requesting
<1>2. \A j \in 1..Len(pending') : pending'[j].id # pending[i].id
  BY <1>1, AnsweredFacts, LessDisjoint DEF Requesting
<1> HIDE DEF K
<1>3. PICK one \in Seq(K) : one = <<pending[i]>>
  <2>1. <<pending[i]>> \in Seq(K)
    BY <1>1
  <2> QED
    BY <2>1
<1>4. Disjoint(pending', one)
  BY <1>2, <1>3 DEF Disjoint
<1>5. /\ Remember(cancelled, pending[i]) \in Seq(K)
      /\ Len(Remember(cancelled, pending[i])) <= MaxPending
      /\ Disjoint(pending', Remember(cancelled, pending[i]))
  BY <1>1, <1>3, <1>4, RememberFacts DEF Remember
<1>6. Requesting(pending', cancelled, highest', pendingBytes', gen) /\ highest' = highest
  BY AnswerRequesting DEF Answered
<1> QED
  BY <1>5, <1>6 DEF Requesting, K

LEMMA NoneRequesting ==
  ASSUME NEW g, NEW h
  PROVE  Requesting(<<>>, <<>>, h, 0, g)
<1>1. <<>> \in Seq(Known(g, h)) /\ Len(<<>>) = 0
  OBVIOUS
<1>2. MaxPending \in Nat /\ MaxPendingBytes \in Nat
  BY LimitsAssumption
<1> QED
  BY <1>1, <1>2, AskedEmpty DEF Requesting, Ordered, Disjoint

LEMMA FirstRequesting ==
  ASSUME NEW g \in Generations, NEW id \in Requests, NEW purpose \in Purposes, NEW d \in Demands,
         d.max <= MaxPendingBytes
  PROVE  Requesting(<<[id |-> id, gen |-> g, purpose |-> purpose, demand |-> d]>>, <<>>, id, d.max, g)
<1>1. PICK key : key = [id |-> id, gen |-> g, purpose |-> purpose, demand |-> d]
  OBVIOUS
<1>2. id \in Nat /\ key \in Known(g, id) /\ key \in Keys /\ key.demand.max = d.max
  BY <1>1 DEF Requests, Keys, Known
<1>3. <<key>> \in Seq(Known(g, id)) /\ <<>> \in Seq(Known(g, id)) /\ Len(<<key>>) = 1 /\ Len(<<>>) = 0
  BY <1>2
<1>4. TotalAsked(<<key>>) = d.max
  <2>1. <<>> \in Seq(Keys) /\ Append(<<>>, key) = <<key>>
    OBVIOUS
  <2>2. d.max \in Nat
    BY <1>2, AskNat
  <2>3. TotalAsked(Append(<<>>, key)) = 0 + d.max
    BY <1>2, <2>1, AskedAppend, AskedEmpty
  <2> QED
    BY <2>1, <2>2, <2>3
<1>5. MaxPending \in Nat \ {0}
  BY LimitsAssumption
<1> QED
  BY <1>1, <1>3, <1>4, <1>5 DEF Requesting, Ordered, Disjoint

-----------------------------------------------------------------------------
(* Resident pages.                                                         *)

LEMMA SoundFacts ==
  ASSUME NEW g, NEW e
  PROVE  \A pages \in Seq(Sound(g, e)) :
           pages \in Seq(Proper) /\ \A i \in 1..Len(pages) : pages[i] \in Sound(g, e) /\ pages[i] \in Proper
<1> DEFINE A == Sound(g, e)
<1>1. A \subseteq Proper
  BY DEF Sound, Proper
<1> HIDE DEF A
<1>2. \A pages \in Seq(A) :
        pages \in Seq(Proper) /\ \A i \in 1..Len(pages) : pages[i] \in A /\ pages[i] \in Proper
  BY <1>1
<1> QED
  BY <1>2 DEF A

LEMMA CompatibleSymmetric ==
  ASSUME NEW a, NEW b, Compatible(a, b)
  PROVE  Compatible(b, a)
  BY DEF Compatible, Overlaps, Contradicts, Meets

LEMMA WithinApart ==
  ASSUME NEW pages, NEW others, Len(others) \in Nat, Len(pages) \in Nat,
         Within(others, pages), Apart(pages)
  PROVE  Apart(others)
<1>1. PICK e \in [1..Len(others) -> 1..Len(pages)] :
        /\ \A i \in 1..Len(others) : others[i] = pages[e[i]]
        /\ \A i, j \in 1..Len(others) : i < j => e[i] < e[j]
  BY DEF Within
<1>2. ASSUME NEW i \in 1..Len(others), NEW j \in 1..Len(others), i # j
      PROVE  Compatible(others[i], others[j])
  <2>1. i < j \/ j < i
    BY <1>2
  <2>2. e[i] \in 1..Len(pages) /\ e[j] \in 1..Len(pages) /\ e[i] # e[j]
    BY <1>1, <2>1, SMTT(30)
  <2> QED
    BY <1>1, <2>2 DEF Apart
<1> QED
  BY <1>2 DEF Apart

LEMMA AppendApart ==
  ASSUME NEW A, NEW pages \in Seq(A), NEW page \in A, Apart(pages),
         \A i \in 1..Len(pages) : Compatible(pages[i], page)
  PROVE  Apart(Append(pages, page))
<1>1. PICK n \in Nat : n = Len(pages)
  OBVIOUS
<1>2. PICK next : next = Append(pages, page)
  OBVIOUS
<1>3. Len(next) = n + 1 /\ next[n + 1] = page /\ \A i \in 1..n : next[i] = pages[i]
  BY <1>1, <1>2
<1>4. ASSUME NEW i \in 1..(n + 1), NEW j \in 1..(n + 1), i # j
      PROVE  Compatible(next[i], next[j])
  <2>1. CASE i \in 1..n /\ j \in 1..n
    BY <1>1, <1>3, <1>4, <2>1 DEF Apart
  <2>2. CASE i \in 1..n /\ j = n + 1
    BY <1>1, <1>3, <2>2
  <2>3. CASE i = n + 1 /\ j \in 1..n
    BY <1>1, <1>3, <2>3, CompatibleSymmetric
  <2> QED
    BY <1>4, <2>1, <2>2, <2>3
<1> QED
  BY <1>2, <1>3, <1>4 DEF Apart

LEMMA SurvivorFacts ==
  ASSUME Resting(resident, residentBytes, gen, extent), NEW page, NEW n \in 0..Len(resident)
  PROVE  /\ Survivors(page, n) \in Seq(Sound(gen, extent))
         /\ Apart(Survivors(page, n))
         /\ \A i \in 1..Len(Survivors(page, n)) :
              /\ ~Overlaps(Survivors(page, n)[i], page)
              /\ \E k \in (n + 1)..Len(resident) : Survivors(page, n)[i] = resident[k]
         /\ \A k \in (n + 1)..Len(resident) : ~Overlaps(resident[k], page) =>
              \E i \in 1..Len(Survivors(page, n)) : Survivors(page, n)[i] = resident[k]
<1> DEFINE A == Sound(gen, extent)
<1>1. resident \in Seq(A) /\ Apart(resident)
  BY DEF Resting
<1> HIDE DEF A
<1>2. PICK rest \in Seq(A) : rest = SubSeq(resident, n + 1, Len(resident))
  <2>1. SubSeq(resident, n + 1, Len(resident)) \in Seq(A)
    BY <1>1, SuffixFacts
  <2> QED
    BY <2>1
<1>3. PICK N \in Nat : N = Len(resident)
  BY <1>1
<1>4. Len(rest) = N - n /\ \A j \in 1..(N - n) : rest[j] = resident[n + j]
  BY <1>1, <1>2, <1>3, SuffixFacts
<1>5. Within(rest, resident)
  BY <1>1, <1>2, SuffixWithin
<1>6. PICK left \in Seq(A) : left = Only(rest, Beside(page))
  BY OnlyShorter
<1>7. Survivors(page, n) = left
  BY <1>2, <1>6 DEF Survivors
<1>8. Apart(left)
  <2>1. Within(left, resident)
    BY <1>5, <1>6, OnlyWithin, WithinTransitive
  <2>2. Len(left) \in Nat /\ Len(resident) \in Nat
    BY <1>1
  <2> QED
    BY <1>1, <2>1, <2>2, WithinApart
<1>9. PICK e : Places(e, left, rest, Beside(page))
  BY <1>6, OnlyPlaces
<1>10. ASSUME NEW i \in 1..Len(left)
       PROVE  ~Overlaps(left[i], page) /\ \E k \in (n + 1)..N : left[i] = resident[k]
  <2>1. e[i] \in 1..(N - n) /\ left[i] = rest[e[i]] /\ rest[e[i]] \in Beside(page)
    BY <1>4, <1>9 DEF Places
  <2>2. n + e[i] \in (n + 1)..N /\ left[i] = resident[n + e[i]]
    BY <1>3, <1>4, <2>1
  <2> QED
    BY <2>1, <2>2 DEF Beside
<1>11. ASSUME NEW k \in (n + 1)..N, ~Overlaps(resident[k], page)
       PROVE  \E i \in 1..Len(left) : left[i] = resident[k]
  <2>1. resident[k] \in Beside(page)
    <3>1. k \in DOMAIN resident
      BY <1>1, <1>3
    <3> QED
      BY <1>11, <3>1 DEF Beside, Range
  <2>2. PICK j \in 1..(N - n) : j = k - n
    BY <1>3
  <2>3. rest[j] = resident[k]
    BY <1>4, <2>2
  <2>4. PICK i \in 1..Len(left) : e[i] = j
    BY <1>4, <1>9, <2>1, <2>2, <2>3 DEF Places
  <2>5. left[i] = rest[j]
    BY <1>9, <2>4 DEF Places
  <2> QED
    BY <2>3, <2>5
<1> QED
  BY <1>3, <1>7, <1>8, <1>10, <1>11 DEF A

\* The eviction loop ends, with the first of the tries that fits.
LEMMA KeptFacts ==
  ASSUME Resting(resident, residentBytes, gen, extent), NEW page \in Proper, Retained(page) <= MaxBytes
  PROVE  \E n \in 0..Len(resident) :
           /\ Kept(page) = Survivors(page, n)
           /\ Fits(page, Survivors(page, n))
           /\ \A m \in 0..(n - 1) : ~Fits(page, Survivors(page, m))
<1>1. PICK N \in Nat : N = Len(resident)
  BY DEF Resting
<1> DEFINE T == {n \in 0..N : Fits(page, Survivors(page, n))}
<1>2. N \in T
  <2>1. Survivors(page, N) = <<>>
    <3>1. SubSeq(resident, N + 1, Len(resident)) = <<>>
      BY <1>1 DEF Resting
    <3> QED
      BY <3>1, OnlyEmpty DEF Survivors
  <2>2. Len(<<>>) < MaxPages /\ TotalRetained(<<>>) + Retained(page) <= MaxBytes
    <3>1. MaxPages \in Nat \ {0} /\ Retained(page) \in Nat
      BY LimitsAssumption, WeightNat
    <3> QED
      BY <3>1, RetainedEmpty
  <2> QED
    BY <2>1, <2>2 DEF Fits
<1>3. PICK n \in T : \A m \in T : n <= m
  <2>1. T \subseteq Nat /\ T # {}
    BY <1>2
  <2> HIDE DEF T
  <2> QED
    BY <2>1, LeastNatural
<1> DEFINE P(x) == Fits(page, Survivors(page, x)) /\ \A m \in 0..(x - 1) : ~Fits(page, Survivors(page, m))
<1>4. n \in 0..N /\ P(n)
  BY <1>3
<1> DEFINE least == CHOOSE x \in 0..N : P(x)
<1>5. Kept(page) = Survivors(page, least)
  BY <1>1 DEF Kept
<1> HIDE DEF T, P
<1>6. least \in 0..N /\ P(least)
  BY <1>4
<1> HIDE DEF least
<1> QED
  BY <1>1, <1>5, <1>6 DEF P

LEMMA AdmitFacts ==
  ASSUME gen \in Generations, Requesting(pending, cancelled, highest, pendingBytes, gen),
         Resting(resident, residentBytes, gen, extent),
         NEW i \in DOMAIN pending, NEW id \in PageIds, NEW lo \in Cuts, NEW hi \in Cuts,
         NEW end \in BOOLEAN, NEW atom \in Atoms \cup {NoAtom},
         NEW page, page = Page(pending[i], id, lo, hi, end, atom), Admit(i, page)
  PROVE  page \in Sound(gen, extent) /\ page \in Proper
<1>1. pending[i] \in Keys /\ pending[i].gen = gen
  BY AnsweredFacts, KnownFacts
<1>2. page \in PageSpace /\ page.gen = gen
  BY <1>1 DEF Page, PageSpace, Keys
<1>3. page.lo <= page.hi /\ Satisfies(page, page.demand)
  BY DEF Admit, Constructed, Encloses, Satisfies
<1>4. page.hi <= extent /\ (page.end <=> page.hi = extent)
  BY DEF Admit, Valid
<1> QED
  BY <1>2, <1>3, <1>4 DEF Sound, Proper

LEMMA AdmitResting ==
  ASSUME Resting(resident, residentBytes, gen, extent), NEW page \in Sound(gen, extent),
         page \in Proper, NEW i, Admit(i, page)
  PROVE  Resting(resident', residentBytes', gen, extent)
<1> DEFINE A == Sound(gen, extent)
<1>1. PICK n \in 0..Len(resident) : Kept(page) = Survivors(page, n) /\ Fits(page, Survivors(page, n))
  BY KeptFacts DEF Admit
<1>2. PICK kept \in Seq(A) : kept = Survivors(page, n)
  BY SurvivorFacts
<1>3. /\ Apart(kept) /\ Len(kept) < MaxPages /\ TotalRetained(kept) + Retained(page) <= MaxBytes
      /\ \A j \in 1..Len(kept) : ~Overlaps(kept[j], page) /\ \E k \in (n + 1)..Len(resident) : kept[j] = resident[k]
  BY <1>1, <1>2, SurvivorFacts DEF Fits
<1>4. \A j \in 1..Len(kept) : Compatible(kept[j], page)
  <2> SUFFICES ASSUME NEW j \in 1..Len(kept) PROVE Compatible(kept[j], page)
    OBVIOUS
  <2>1. PICK k \in (n + 1)..Len(resident) : kept[j] = resident[k]
    BY <1>3
  <2>2. k \in DOMAIN resident
    BY DEF Resting
  <2>3. ~Contradicts(page.atom, kept[j].atom)
    BY <2>1, <2>2 DEF Admit, Valid
  <2> QED
    BY <1>3, <2>3 DEF Compatible, Contradicts, Meets
<1>5. kept \in Seq(Proper)
  BY SoundFacts
<1>6. resident' = Append(kept, page) /\ residentBytes' = TotalRetained(kept) + Retained(page)
  BY <1>1, <1>2 DEF Admit
<1>7. TotalRetained(Append(kept, page)) = TotalRetained(kept) + Retained(page)
  BY <1>5, RetainedAppend
<1> HIDE DEF A
<1>8. Append(kept, page) \in Seq(A) /\ Len(Append(kept, page)) = Len(kept) + 1 /\ Apart(Append(kept, page))
  <2>1. page \in A
    BY DEF A
  <2> QED
    BY <1>3, <1>4, <2>1, AppendApart
<1>9. Len(kept) + 1 <= MaxPages
  BY <1>3, LimitsAssumption
<1> QED
  BY <1>3, <1>6, <1>7, <1>8, <1>9 DEF Resting, A

LEMMA EvictResting ==
  ASSUME Resting(resident, residentBytes, gen, extent), NEW i \in DOMAIN resident
  PROVE  /\ i \in 1..Len(resident) /\ resident[i] \in Sound(gen, extent)
         /\ RemoveAt(resident, i) = Less(resident, i)
         /\ Less(resident, i) \in Seq(Sound(gen, extent))
         /\ Apart(Less(resident, i)) /\ Len(Less(resident, i)) = Len(resident) - 1
         /\ residentBytes - Retained(resident[i]) = TotalRetained(Less(resident, i))
         /\ TotalRetained(Less(resident, i)) + Retained(resident[i]) = residentBytes
         /\ residentBytes - Retained(resident[i]) <= MaxBytes
<1> DEFINE A == Sound(gen, extent)
<1>1. resident \in Seq(A) /\ resident \in Seq(Proper) /\ Apart(resident)
  BY SoundFacts DEF Resting
<1> HIDE DEF A
<1>2. i \in 1..Len(resident) /\ resident[i] \in A /\ resident[i] \in Proper
  BY <1>1
<1>3. Less(resident, i) \in Seq(A) /\ Len(Less(resident, i)) = Len(resident) - 1 /\ Within(Less(resident, i), resident)
  BY <1>1, <1>2, LessFacts, LessWithin
<1>4. Apart(Less(resident, i))
  <2>1. Len(Less(resident, i)) \in Nat /\ Len(resident) \in Nat
    BY <1>1, <1>3
  <2> QED
    BY <1>1, <1>3, <2>1, WithinApart
<1>5. PICK a \in Nat : a = TotalRetained(Less(resident, i))
  <2>1. Less(resident, i) \in Seq(Proper)
    BY <1>1, <1>2, LessFacts
  <2> QED
    BY <2>1, RetainedWeighs
<1>6. PICK b \in Nat : b = Retained(resident[i])
  BY <1>2, WeightNat
<1>7. a + b = residentBytes
  BY <1>1, <1>2, <1>5, <1>6, RetainedLess DEF Resting
<1>8. residentBytes <= MaxBytes /\ MaxBytes \in Nat
  BY LimitsAssumption DEF Resting
<1>9. residentBytes - b = a /\ residentBytes - b <= MaxBytes
  BY <1>7, <1>8
<1> QED
  BY <1>2, <1>3, <1>4, <1>5, <1>6, <1>7, <1>9, RemoveAtLess DEF A

\* A page that moves stays compatible with the others.
LEMMA TouchResting ==
  ASSUME Resting(resident, residentBytes, gen, extent), NEW i \in DOMAIN resident
  PROVE  Resting(Append(Less(resident, i), resident[i]), residentBytes, gen, extent)
<1> DEFINE A == Sound(gen, extent)
<1>1. PICK others \in Seq(A) : others = Less(resident, i)
  BY EvictResting
<1>2. /\ i \in 1..Len(resident) /\ resident[i] \in A /\ Apart(others) /\ Len(others) = Len(resident) - 1
      /\ TotalRetained(others) + Retained(resident[i]) = residentBytes
  BY <1>1, EvictResting
<1>3. resident \in Seq(A) /\ Apart(resident)
  BY DEF Resting
<1>4. others \in Seq(Proper) /\ resident[i] \in Proper
  BY <1>2, <1>3, SoundFacts
<1>5. TotalRetained(Append(others, resident[i])) = residentBytes
  BY <1>2, <1>4, RetainedAppend
<1> HIDE DEF A
<1>6. \A j \in 1..(Len(resident) - 1) : others[j] = resident[IF j < i THEN j ELSE j + 1]
  BY <1>1, <1>2, <1>3, LessFacts
<1>7. \A j \in 1..Len(others) : Compatible(others[j], resident[i])
  <2> SUFFICES ASSUME NEW j \in 1..Len(others) PROVE Compatible(others[j], resident[i])
    OBVIOUS
  <2>1. PICK k \in 1..Len(resident) : k # i /\ others[j] = resident[k]
    <3>1. CASE j < i
      BY <1>2, <1>3, <1>6, <3>1
    <3>2. CASE ~(j < i)
      BY <1>2, <1>3, <1>6, <3>2
    <3> QED
      BY <3>1, <3>2
  <2> QED
    BY <1>2, <1>3, <2>1 DEF Apart
<1>8. /\ Append(others, resident[i]) \in Seq(A) /\ Apart(Append(others, resident[i]))
      /\ Len(Append(others, resident[i])) = Len(resident)
  BY <1>2, <1>3, <1>7, AppendApart
<1> QED
  BY <1>1, <1>5, <1>8 DEF Resting, A

LEMMA NoneResting == ASSUME NEW g, NEW e PROVE Resting(<<>>, 0, g, e)
<1>1. <<>> \in Seq(Sound(g, e)) /\ Len(<<>>) = 0
  OBVIOUS
<1>2. MaxBytes \in Nat /\ MaxPages \in Nat
  BY LimitsAssumption
<1> QED
  BY <1>1, <1>2, RetainedEmpty DEF Resting, Apart

-----------------------------------------------------------------------------
(* The invariant.                                                          *)

LEMMA InitInv == Init => ResidencyInv
<1> SUFFICES ASSUME Init PROVE ResidencyInv
  OBVIOUS
<1>1. gen \in Generations /\ extent \in Nat /\ highest \in Nat
  BY SourceAssumption DEF Init
<1>2. Requesting(pending, cancelled, highest, pendingBytes, gen)
  BY NoneRequesting DEF Init
<1>3. Resting(resident, residentBytes, gen, extent)
  BY NoneResting DEF Init
<1> QED
  BY <1>1, <1>2, <1>3 DEF ResidencyInv

\* The requests a step leaves and the pages it leaves are in order.
LEMMA StepInv ==
  ASSUME gen' \in Generations, extent' \in Nat, highest' \in Nat,
         Requesting(pending', cancelled', highest', pendingBytes', gen'),
         Resting(resident', residentBytes', gen', extent')
  PROVE  ResidencyInv'
  BY DEF ResidencyInv

LEMMA DemandInv ==
  ASSUME ResidencyInv, NEW id \in Requests, NEW purpose \in Purposes, NEW d \in Demands, NEW retired,
         \/ Demand(id, purpose, d) /\ retired = {}
         \/ DemandAfterRetirement(id, purpose, d, retired)
  PROVE  ResidencyInv'
<1>1. Requesting(pending, cancelled, highest, pendingBytes, gen) /\ gen \in Generations /\ highest \in Nat
  BY DEF ResidencyInv
<1>2. /\ gen' = gen /\ extent' = extent /\ resident' = resident /\ residentBytes' = residentBytes
      /\ \/ Requested(id, purpose, d, retired) /\ Send(id, purpose, d, retired)
         \/ /\ pending' = Staying(retired) /\ pendingBytes' = Left(retired) /\ highest' = highest
            /\ cancelled' = RememberEach(cancelled, Gone(retired))
  BY DEF Demand, DemandAfterRetirement, bindingVars, pageVars
<1>3. highest' \in Nat /\ Requesting(pending', cancelled', highest', pendingBytes', gen)
  <2>1. CASE Requested(id, purpose, d, retired) /\ Send(id, purpose, d, retired)
    BY <1>1, <2>1, SendRequesting
  <2>2. CASE /\ pending' = Staying(retired) /\ pendingBytes' = Left(retired) /\ highest' = highest
             /\ cancelled' = RememberEach(cancelled, Gone(retired))
    BY <1>1, <2>2, CoalesceRequesting
  <2> QED
    BY <1>2, <2>1, <2>2
<1>4. gen' \in Generations /\ extent' \in Nat /\ Resting(resident', residentBytes', gen', extent')
  BY <1>2 DEF ResidencyInv
<1> QED
  BY <1>2, <1>3, <1>4, StepInv

LEMMA AdmitInv ==
  ASSUME ResidencyInv, NEW i \in DOMAIN pending, NEW id \in PageIds, NEW lo \in Cuts, NEW hi \in Cuts,
         NEW end \in BOOLEAN, NEW atom \in Atoms \cup {NoAtom},
         Admit(i, Page(pending[i], id, lo, hi, end, atom))
  PROVE  ResidencyInv'
<1>1. PICK page : page = Page(pending[i], id, lo, hi, end, atom)
  OBVIOUS
<1>2. page \in Sound(gen, extent) /\ page \in Proper /\ Admit(i, page)
  BY <1>1, AdmitFacts DEF ResidencyInv
<1>3. Resting(resident', residentBytes', gen, extent)
  BY <1>2, AdmitResting DEF ResidencyInv
<1>4. Answered(i) /\ cancelled' = cancelled /\ gen' = gen /\ extent' = extent /\ highest' = highest
  BY <1>2 DEF Admit, Answered, bindingVars
<1>5. Requesting(pending', cancelled', highest', pendingBytes', gen)
  BY <1>4, AnswerRequesting DEF ResidencyInv
<1> QED
  BY <1>3, <1>4, <1>5 DEF ResidencyInv

LEMMA SettleInv ==
  ASSUME ResidencyInv, NEW i \in DOMAIN pending, NEW failure, Settle(i, failure)
  PROVE  ResidencyInv'
<1>1. /\ Answered(i) /\ highest' = highest /\ gen' = gen /\ extent' = extent
      /\ resident' = resident /\ residentBytes' = residentBytes
      /\ cancelled' = cancelled \/ cancelled' = Remember(cancelled, pending[i])
  BY DEF Settle, Answered, bindingVars, pageVars
<1>2. Requesting(pending', cancelled', highest', pendingBytes', gen)
  BY <1>1, AnswerRequesting, CancelRequesting DEF ResidencyInv
<1> QED
  BY <1>1, <1>2 DEF ResidencyInv

LEMMA PageStepInv ==
  ASSUME ResidencyInv, NEW i \in DOMAIN resident, Touch(i) \/ Evict(i)
  PROVE  ResidencyInv'
<1>1. /\ gen' = gen /\ extent' = extent /\ pending' = pending /\ cancelled' = cancelled
      /\ highest' = highest /\ pendingBytes' = pendingBytes
  BY DEF Touch, Evict, bindingVars, requestVars
<1>2. Resting(resident, residentBytes, gen, extent)
  BY DEF ResidencyInv
<1>3. Resting(resident', residentBytes', gen, extent)
  <2>1. CASE Touch(i)
    BY <1>2, <2>1, EvictResting, TouchResting DEF Touch
  <2>2. CASE Evict(i)
    <3>1. resident' = Less(resident, i) /\ residentBytes' = residentBytes - Retained(resident[i])
      BY <1>2, <2>2, RemoveAtLess DEF Evict
    <3>2. Len(Less(resident, i)) <= MaxPages
      <4>1. Len(resident) \in Nat /\ Len(resident) <= MaxPages /\ MaxPages \in Nat
        BY <1>2, LimitsAssumption DEF Resting
      <4>2. Len(Less(resident, i)) = Len(resident) - 1
        BY <1>2, EvictResting
      <4> QED
        BY <4>1, <4>2
    <3> QED
      BY <1>2, <3>1, <3>2, EvictResting DEF Resting
  <2> QED
    BY <2>1, <2>2
<1> QED
  BY <1>1, <1>3 DEF ResidencyInv

LEMMA BindingInv ==
  ASSUME ResidencyInv, NEW g \in Generations, NEW e \in Extents, Rebind(g, e)
  PROVE  ResidencyInv'
<1>1. gen' = g /\ e \in Nat /\ extent' = e /\ highest' \in Nat
  BY SourceAssumption DEF Rebind, ResidencyInv
<1>2. Requesting(pending', cancelled', highest', pendingBytes', gen')
  BY NoneRequesting DEF Rebind
<1>3. Resting(resident', residentBytes', gen', extent')
  BY NoneResting DEF Rebind, NoPages
<1> QED
  BY <1>1, <1>2, <1>3, StepInv

LEMMA BindingDemandInv ==
  ASSUME ResidencyInv, NEW g \in Generations, NEW e \in Extents, NEW id \in Requests,
         NEW purpose \in Purposes, NEW d \in Demands, RebindWithDemand(g, e, id, purpose, d)
  PROVE  ResidencyInv'
<1>1. gen' = g /\ e \in Nat /\ extent' = e /\ highest' = id /\ id \in Nat
  BY SourceAssumption DEF RebindWithDemand, Requests
<1>2. Requesting(pending', cancelled', highest', pendingBytes', gen')
  BY <1>1, FirstRequesting DEF RebindWithDemand
<1>3. Resting(resident', residentBytes', gen', extent')
  BY NoneResting DEF RebindWithDemand, NoPages
<1> QED
  BY <1>1, <1>2, <1>3, StepInv

LEMMA DiscardInv == ResidencyInv /\ (Discard \/ Dispose) => ResidencyInv'
<1> SUFFICES ASSUME ResidencyInv, Discard \/ Dispose PROVE ResidencyInv'
  OBVIOUS
<1>1. gen' = gen /\ extent' = extent /\ highest' = highest /\ resident' = <<>> /\ residentBytes' = 0
  BY DEF Discard, Dispose, NoPages, bindingVars, requestVars
<1>2. Requesting(pending', cancelled', highest', pendingBytes', gen)
  <2>1. CASE Discard
    BY <2>1 DEF Discard, requestVars, ResidencyInv
  <2>2. CASE Dispose
    BY <2>2, NoneRequesting DEF Dispose
  <2> QED
    BY <2>1, <2>2
<1> QED
  BY <1>1, <1>2, NoneResting DEF ResidencyInv

LEMMA NextInv == ResidencyInv /\ [Next]_vars => ResidencyInv'
<1> SUFFICES ASSUME ResidencyInv, [Next]_vars PROVE ResidencyInv'
  OBVIOUS
<1>1. CASE UNCHANGED vars
  BY <1>1 DEF vars, ResidencyInv
<1>2. ASSUME NEW id \in Requests, NEW purpose \in Purposes, NEW d \in Demands,
             \/ Demand(id, purpose, d)
             \/ \E retired \in SUBSET Range(pending) : DemandAfterRetirement(id, purpose, d, retired)
             \/ \E g \in Generations, e \in Extents : RebindWithDemand(g, e, id, purpose, d)
      PROVE  ResidencyInv'
  BY <1>2, DemandInv, BindingDemandInv
<1>3. ASSUME NEW i \in DOMAIN pending, NEW id \in PageIds, NEW lo \in Cuts, NEW hi \in Cuts,
             NEW end \in BOOLEAN, NEW atom \in Atoms \cup {NoAtom},
             Admit(i, Page(pending[i], id, lo, hi, end, atom))
      PROVE  ResidencyInv'
  BY <1>3, AdmitInv
<1>4. ASSUME NEW i \in DOMAIN pending, NEW failure, Settle(i, failure)
      PROVE  ResidencyInv'
  BY <1>4, SettleInv
<1>5. ASSUME NEW i \in DOMAIN resident, Touch(i) \/ Evict(i)
      PROVE  ResidencyInv'
  BY <1>5, PageStepInv
<1>6. ASSUME NEW g \in Generations, NEW e \in Extents, Rebind(g, e)
      PROVE  ResidencyInv'
  BY <1>6, BindingInv
<1>7. CASE Discard \/ Dispose
  BY <1>7, DiscardInv
<1> QED
  BY <1>1, <1>2, <1>3, <1>4, <1>5, <1>6, <1>7 DEF Next

\* The inductive invariant, for any limits, demands and pages (residency.rs,
\* residency/admission.rs): requests and pages are current, in order and counted.
THEOREM ResidencyInvariant == Spec => []ResidencyInv
<1>1. Init => ResidencyInv
  BY InitInv
<1>2. ResidencyInv /\ [Next]_vars => ResidencyInv'
  BY NextInv
<1> QED
  BY <1>1, <1>2, PTL DEF Spec

LEMMA CountsFollow == ResidencyInv => CountsExact
<1> SUFFICES ASSUME ResidencyInv PROVE CountsExact
  OBVIOUS
<1> DEFINE K == Known(gen, highest)
           A == Sound(gen, extent)
<1>1. pending \in Seq(K) /\ cancelled \in Seq(K) /\ Ordered(pending) /\ Disjoint(pending, cancelled)
  BY DEF ResidencyInv, Requesting
<1>2. /\ \A i \in 1..Len(pending) : pending[i].gen = gen /\ pending[i].id <= highest
      /\ \A i \in 1..Len(cancelled) : cancelled[i].gen = gen /\ cancelled[i].id <= highest
  BY <1>1, KnownFacts
<1> HIDE DEF K
<1>3. DOMAIN pending = 1..Len(pending) /\ DOMAIN cancelled = 1..Len(cancelled)
  BY <1>1
<1>4. RequestsDistinct
  BY <1>1, <1>2, <1>3 DEF RequestsDistinct, Ordered, Disjoint
<1> QED
  BY <1>4 DEF CountsExact, ResidencyInv, Requesting, Resting

\* The counters of the residency are the sums they stand for, within the limits, and a
\* request identity is in flight once and never again (residency.rs ResidencyCounts,
\* admission.rs prepare_admit_storage), for any limits.
THEOREM CountsExactHolds == Spec => []CountsExact
  BY ResidencyInvariant, CountsFollow, PTL

LEMMA CohereFollow == ResidencyInv => ResidentsCohere
<1> SUFFICES ASSUME ResidencyInv PROVE ResidentsCohere
  OBVIOUS
<1> DEFINE A == Sound(gen, extent)
<1>1. resident \in Seq(A) /\ Apart(resident)
  BY DEF ResidencyInv, Resting
<1>2. \A page \in A : /\ page.gen = gen /\ page.hi <= extent
                      /\ page.end <=> page.hi = extent
                      /\ Satisfies(page, page.demand)
  BY DEF Sound
<1> HIDE DEF A
<1>3. DOMAIN resident = 1..Len(resident) /\ \A i \in 1..Len(resident) : resident[i] \in A
  BY <1>1
<1> QED
  BY <1>1, <1>2, <1>3 DEF ResidentsCohere, Apart, Compatible

\* Resident pages are of the current source, beside each other and consistent, and
\* answer the demand they were sent for (residency.rs validate_page, rebind).
THEOREM ResidentsCohereHolds == Spec => []ResidentsCohere
  BY ResidencyInvariant, CohereFollow, PTL

-----------------------------------------------------------------------------
(* What an admission gives up.                                             *)

\* Evicting one page less keeps it in front, unless the new page replaces it.
LEMMA SurvivorsStep ==
  ASSUME Resting(resident, residentBytes, gen, extent), NEW page, NEW k \in 1..Len(resident)
  PROVE  Survivors(page, k - 1) =
           IF Overlaps(resident[k], page) THEN Survivors(page, k) ELSE <<resident[k]>> \o Survivors(page, k)
<1> DEFINE A == Sound(gen, extent)
           B == Beside(page)
<1>1. resident \in Seq(A)
  BY DEF Resting
<1>2. resident[k] \in B <=> ~Overlaps(resident[k], page)
  <2>1. k \in DOMAIN resident
    BY <1>1
  <2> QED
    BY <2>1 DEF Beside, Range
<1> HIDE DEF A, B
<1>3. PICK N \in Nat : N = Len(resident)
  BY <1>1
<1>4. resident[k] \in A
  BY <1>1
<1>5. PICK rest \in Seq(A) : rest = SubSeq(resident, k + 1, N)
  <2>1. SubSeq(resident, k + 1, N) \in Seq(A)
    BY <1>1, <1>3, SuffixFacts
  <2> QED
    BY <2>1
<1>6. PICK more \in Seq(A) : more = SubSeq(resident, (k - 1) + 1, N)
  <2>1. SubSeq(resident, (k - 1) + 1, N) \in Seq(A)
    BY <1>1, <1>3, SuffixFacts
  <2> QED
    BY <2>1
<1>7. more = <<resident[k]>> \o rest
  <2>1. Len(rest) = N - k /\ \A j \in 1..(N - k) : rest[j] = resident[k + j]
    BY <1>1, <1>3, <1>5, SuffixFacts
  <2>2. Len(more) = N - (k - 1) /\ \A j \in 1..(N - (k - 1)) : more[j] = resident[(k - 1) + j]
    BY <1>1, <1>3, <1>6, SuffixFacts
  <2>3. PICK x \in A : x = resident[k]
    BY <1>4
  <2>4. PICK both \in Seq(A) : both = <<x>> \o rest
    <3>1. PICK one \in Seq(A) : one = <<x>>
      <4>1. <<x>> \in Seq(A)
        OBVIOUS
      <4> QED
        BY <4>1
    <3>2. one \o rest \in Seq(A)
      BY ConcatIn
    <3> QED
      BY <3>1, <3>2
  <2>5. Len(both) = 1 + Len(rest) /\ both[1] = x /\ \A j \in 1..Len(rest) : both[1 + j] = rest[j]
    BY <2>4
  <2>6. \A j \in 1..(N - (k - 1)) : more[j] = both[j]
    <3> SUFFICES ASSUME NEW j \in 1..(N - (k - 1)) PROVE more[j] = both[j]
      OBVIOUS
    <3>1. CASE j = 1
      BY <1>3, <2>2, <2>3, <2>5, <3>1
    <3>2. CASE j # 1
      <4>1. j - 1 \in 1..(N - k) /\ 1 + (j - 1) = j /\ k + (j - 1) = (k - 1) + j
        BY <1>3, <3>2
      <4>2. both[j] = rest[j - 1] /\ rest[j - 1] = resident[k + (j - 1)]
        BY <2>1, <2>5, <4>1
      <4> QED
        BY <2>2, <4>1, <4>2
    <3> QED
      BY <3>1, <3>2
  <2>7. Len(more) = Len(both)
    BY <1>3, <2>1, <2>2, <2>5
  <2> QED
    BY <2>2, <2>3, <2>4, <2>6, <2>7
<1>8. Only(<<resident[k]>> \o rest, B) =
        IF resident[k] \in B THEN <<resident[k]>> \o Only(rest, B) ELSE Only(rest, B)
  BY <1>4, OnlyCons
<1>9. Survivors(page, k - 1) = Only(more, B) /\ Survivors(page, k) = Only(rest, B)
  BY <1>3, <1>5, <1>6 DEF Survivors, B
<1> QED
  BY <1>2, <1>7, <1>8, <1>9

LEMMA KeptEvicts ==
  ASSUME Resting(resident, residentBytes, gen, extent), NEW page \in Proper, Retained(page) <= MaxBytes,
         NEW k \in DOMAIN resident, resident[k] \notin Range(Kept(page)), ~Overlaps(resident[k], page)
  PROVE  /\ \A j \in 1..(k - 1) : resident[j] \notin Range(Kept(page))
         /\ (\A m \in DOMAIN resident :
               resident[m] \notin Range(Kept(page)) /\ ~Overlaps(resident[m], page) => m <= k)
            => ~Fits(page, <<resident[k]>> \o Kept(page))
<1>1. PICK N \in Nat : N = Len(resident) /\ DOMAIN resident = 1..N
  BY DEF Resting
<1>2. PICK n \in 0..N :
        /\ Kept(page) = Survivors(page, n)
        /\ \A m \in 0..(n - 1) : ~Fits(page, Survivors(page, m))
  BY <1>1, KeptFacts
<1>3. PICK kept \in Seq(Sound(gen, extent)) : kept = Kept(page)
  BY <1>1, <1>2, SurvivorFacts
<1>4. /\ \A i \in 1..Len(kept) : \E m \in (n + 1)..N : kept[i] = resident[m]
      /\ \A m \in (n + 1)..N : ~Overlaps(resident[m], page) => \E i \in 1..Len(kept) : kept[i] = resident[m]
  <2>0. n \in 0..Len(resident)
    BY <1>1
  <2>1. n \in 0..Len(resident) /\ kept = Survivors(page, n)
    BY <1>2, <1>3, <2>0
  <2>2. /\ \A i \in 1..Len(Survivors(page, n)) :
             /\ ~Overlaps(Survivors(page, n)[i], page)
             /\ \E m \in (n + 1)..Len(resident) : Survivors(page, n)[i] = resident[m]
        /\ \A m \in (n + 1)..Len(resident) : ~Overlaps(resident[m], page) =>
             \E i \in 1..Len(Survivors(page, n)) : Survivors(page, n)[i] = resident[m]
    BY <2>0, SurvivorFacts
  <2>3. /\ \A i \in 1..Len(kept) : \E m \in (n + 1)..Len(resident) : kept[i] = resident[m]
        /\ \A m \in (n + 1)..Len(resident) : ~Overlaps(resident[m], page) =>
             \E i \in 1..Len(kept) : kept[i] = resident[m]
    BY <2>1, <2>2
  <2> QED
    BY <1>1, <2>3
<1>5. DOMAIN kept = 1..Len(kept)
  BY <1>3
<1>6. k \in 1..n
  <2>1. \A m \in (n + 1)..N : ~Overlaps(resident[m], page) => resident[m] \in Range(kept)
    BY <1>4, <1>5 DEF Range
  <2>2. k \notin (n + 1)..N
    BY <1>3, <2>1
  <2> QED
    BY <1>1, <2>2
<1>7. \A j \in 1..n : resident[j] \notin Range(kept)
  <2> SUFFICES ASSUME NEW j \in 1..n, resident[j] \in Range(kept) PROVE FALSE
    OBVIOUS
  <2>1. PICK i \in 1..Len(kept) : kept[i] = resident[j]
    BY <1>5 DEF Range
  <2>2. PICK m \in (n + 1)..N : kept[i] = resident[m]
    BY <1>4
  <2>3. j \in 1..Len(resident) /\ m \in 1..Len(resident) /\ j # m
    BY <1>1
  <2>4. ~Overlaps(resident[j], resident[m])
    BY <2>3 DEF Resting, Apart, Compatible
  <2> QED
    BY <2>1, <2>2, <2>4 DEF Overlaps
<1>8. ASSUME \A m \in DOMAIN resident :
               resident[m] \notin Range(kept) /\ ~Overlaps(resident[m], page) => m <= k
      PROVE  ~Fits(page, <<resident[k]>> \o kept)
  <2> DEFINE P == {d \in Nat : k + d <= n => Survivors(page, k + d) = Survivors(page, k)}
  <2>1. 0 \in P
    BY <1>6
  <2>2. ASSUME NEW d \in Nat, d \in P PROVE d + 1 \in P
    <3> SUFFICES ASSUME k + (d + 1) <= n PROVE Survivors(page, k + (d + 1)) = Survivors(page, k)
      OBVIOUS
    <3>1. PICK m \in 1..n : m = k + (d + 1) /\ m - 1 = k + d /\ ~(m <= k) /\ k + d <= n
      BY <1>6
    <3>2. m \in DOMAIN resident /\ m \in 1..Len(resident)
      BY <1>1
    <3>3. Overlaps(resident[m], page)
      BY <1>7, <1>8, <3>1, <3>2
    <3>4. Survivors(page, m - 1) = Survivors(page, m)
      BY <3>2, <3>3, SurvivorsStep
    <3> QED
      BY <2>2, <3>1, <3>4
  <2> HIDE DEF P
  <2>3. Nat \subseteq P
    BY <2>1, <2>2, AllNaturals
  <2>4. n - k \in P /\ k + (n - k) = n
    BY <1>6, <2>3
  <2>5. Survivors(page, n) = Survivors(page, k)
    BY <1>6, <2>4 DEF P
  <2>6. Survivors(page, k - 1) = <<resident[k]>> \o kept
    <3>1. k \in 1..Len(resident)
      BY <1>1
    <3>2. Survivors(page, k - 1) = <<resident[k]>> \o Survivors(page, k)
      BY <3>1, SurvivorsStep
    <3> QED
      BY <1>2, <1>3, <2>5, <3>2
  <2>7. k - 1 \in 0..(n - 1)
    BY <1>6
  <2>8. ~Fits(page, Survivors(page, k - 1))
    BY <1>2, <2>7
  <2> QED
    BY <2>6, <2>8
<1>9. \A j \in 1..(k - 1) : resident[j] \notin Range(kept)
  BY <1>6, <1>7
<1> QED
  BY <1>3, <1>8, <1>9

\* Only an admission answers a request and leaves other pages than before.
LEMMA AdmissionIsAdmit ==
  ASSUME ResidencyInv, Next, NEW i \in DOMAIN pending, pending' = RemoveAt(pending, i),
         resident' \notin {resident, <<>>}
  PROVE  \E page \in Proper : resident' = Append(Kept(page), page) /\ Retained(page) <= MaxBytes
<1>1. pending' # pending
  <2>1. Len(Less(pending, i)) = Len(pending) - 1 /\ Len(pending) \in Nat /\ pending' = Less(pending, i)
    BY AnsweredFacts, LessFacts DEF ResidencyInv, Requesting
  <2> QED
    BY <2>1
<1>2. ASSUME NEW j \in DOMAIN pending, NEW id \in PageIds, NEW lo \in Cuts, NEW hi \in Cuts,
             NEW end \in BOOLEAN, NEW atom \in Atoms \cup {NoAtom},
             Admit(j, Page(pending[j], id, lo, hi, end, atom))
      PROVE  \E page \in Proper : resident' = Append(Kept(page), page) /\ Retained(page) <= MaxBytes
  <2>1. PICK page : page = Page(pending[j], id, lo, hi, end, atom)
    OBVIOUS
  <2>2. page \in Proper /\ Admit(j, page)
    BY <1>2, <2>1, AdmitFacts DEF ResidencyInv
  <2> QED
    BY <2>2 DEF Admit
<1>3. ASSUME NEW id \in Requests, NEW purpose \in Purposes, NEW d \in Demands,
             \/ Demand(id, purpose, d)
             \/ \E retired \in SUBSET Range(pending) : DemandAfterRetirement(id, purpose, d, retired)
             \/ \E g \in Generations, e \in Extents : RebindWithDemand(g, e, id, purpose, d)
      PROVE  resident' \in {resident, <<>>}
  BY <1>3 DEF Demand, DemandAfterRetirement, RebindWithDemand, pageVars, NoPages
<1>4. ASSUME NEW j \in DOMAIN pending, NEW failure, Settle(j, failure)
      PROVE  resident' \in {resident, <<>>}
  BY <1>4 DEF Settle, pageVars
<1>5. ASSUME NEW j \in DOMAIN resident, Touch(j) \/ Evict(j)
      PROVE  pending' = pending
  BY <1>5 DEF Touch, Evict, requestVars
<1>6. ASSUME NEW g \in Generations, NEW e \in Extents, Rebind(g, e)
      PROVE  resident' \in {resident, <<>>}
  BY <1>6 DEF Rebind, NoPages
<1>7. CASE Discard \/ Dispose
  BY <1>7 DEF Discard, Dispose, NoPages
<1> QED
  BY <1>1, <1>2, <1>3, <1>4, <1>5, <1>6, <1>7 DEF Next

\* The last of some positions of a list.
LEMMA LastPosition ==
  ASSUME NEW N \in Nat, NEW T, T \subseteq 1..N, T # {}
  PROVE  Max(T) \in T /\ \A m \in T : m <= Max(T)
<1> DEFINE R == {N - m : m \in T}
<1>1. R \subseteq Nat /\ R # {}
  <2>1. \A m \in T : m \in 1..N
    OBVIOUS
  <2>2. \A m \in T : N - m \in Nat
    BY <2>1
  <2> QED
    BY <2>2
<1>2. PICK r \in R : \A q \in R : r <= q
  <2> HIDE DEF R
  <2> QED
    BY <1>1, LeastNatural
<1>3. PICK k \in T : r = N - k
  BY <1>2
<1>4. \A m \in T : m \in 1..N /\ N - m \in R
  OBVIOUS
<1>5. \A m \in T : N - k <= N - m
  BY <1>2, <1>3, <1>4
<1>6. \A m \in T : k >= m
  BY <1>4, <1>5
<1>7. \E x \in T : \A y \in T : x >= y
  BY <1>6
<1>8. Max(T) \in T /\ \A y \in T : Max(T) >= y
  BY <1>7 DEF Max
<1> QED
  BY <1>4, <1>8

\* An admission gives up the least recent pages first, stops as soon as the new page
\* fits, and gives up none it need not (admission.rs prepare_admit_storage), for
\* any number of pages and any limits.
THEOREM EvictsOldestHolds == Spec => EvictsOldest
<1>1. ASSUME ResidencyInv, Next PROVE AdmissionGivesUp
  <2> SUFFICES ASSUME NEW i \in DOMAIN pending, pending' = RemoveAt(pending, i),
                      resident' \notin {resident, <<>>}
               PROVE  LET page == Last(resident')
                          kept == Front(resident')
                          gone(k) == resident[k] \notin Range(kept)
                          evicted == {k \in DOMAIN resident : gone(k) /\ ~Overlaps(resident[k], page)}
                      IN \A k \in evicted :
                           /\ \A j \in 1..(k - 1) : gone(j)
                           /\ k = Max(evicted) => ~Fits(page, <<resident[k]>> \o kept)
    BY DEF AdmissionGivesUp
  <2>1. PICK page \in Proper : resident' = Append(Kept(page), page) /\ Retained(page) <= MaxBytes
    BY <1>1, AdmissionIsAdmit
  <2>2. Resting(resident, residentBytes, gen, extent)
    BY <1>1 DEF ResidencyInv
  <2>3. PICK kept \in Seq(Proper) : kept = Kept(page)
    <3>1. PICK n \in 0..Len(resident) : Kept(page) = Survivors(page, n)
      BY <2>1, <2>2, KeptFacts
    <3>2. Survivors(page, n) \in Seq(Sound(gen, extent))
      BY <2>2, SurvivorFacts
    <3> QED
      BY <3>1, <3>2, SoundFacts
  <2>4. Last(resident') = page /\ Front(resident') = kept
    <3>1. PICK next : next = Append(kept, page)
      OBVIOUS
    <3>2. Len(next) = Len(kept) + 1 /\ next[Len(kept) + 1] = page
      BY <3>1
    <3>3. SubSeq(next, 1, Len(next) - 1) = kept
      BY <3>1, <3>2
    <3> QED
      BY <2>1, <2>3, <3>1, <3>2, <3>3 DEF Last, Front
  <2> DEFINE evicted == {k \in DOMAIN resident :
                           resident[k] \notin Range(kept) /\ ~Overlaps(resident[k], page)}
  <2>5. ASSUME NEW k \in evicted
        PROVE  /\ \A j \in 1..(k - 1) : resident[j] \notin Range(kept)
               /\ k = Max(evicted) => ~Fits(page, <<resident[k]>> \o kept)
    <3>1. /\ \A j \in 1..(k - 1) : resident[j] \notin Range(kept)
          /\ (\A m \in evicted : m <= k) => ~Fits(page, <<resident[k]>> \o kept)
      BY <2>1, <2>2, <2>3, KeptEvicts
    <3>2. ASSUME k = Max(evicted) PROVE \A m \in evicted : m <= k
      <4>1. PICK N \in Nat : DOMAIN resident = 1..N
        BY <2>2 DEF Resting
      <4>2. evicted \subseteq 1..N /\ evicted # {}
        BY <4>1
      <4> HIDE DEF evicted
      <4> QED
        BY <3>2, <4>2, LastPosition
    <3> QED
      BY <3>1, <3>2
  <2> QED
    BY <2>4, <2>5
<1>2. ResidencyInv /\ [Next]_vars => [AdmissionGivesUp]_vars
  BY <1>1
<1> QED
  BY <1>2, ResidencyInvariant, PTL DEF Spec, EvictsOldest
=============================================================================
