------------------------------ MODULE ListTheorems ------------------------------
(***************************************************************************)
(* Induction over the naturals and over lists, and what it proves about    *)
(* Lists.  The induction theorems of the library take the predicate as an  *)
(* operator; here it is the set of those that satisfy it, which a proof    *)
(* can name.  The well-foundedness of < on Nat is the library's.           *)
(***************************************************************************)
EXTENDS Lists, WellFoundedInduction, TLAPS

\* Every nonempty set of naturals has a least element.
LEMMA LeastNatural ==
  ASSUME NEW T, T \subseteq Nat, T # {}
  PROVE  \E n \in T : \A m \in T : n <= m
<1> DEFINE R == OpToRel(<, Nat)
<1>0. \A x, y \in Nat : x < y => <<x, y>> \in R
  BY DEF OpToRel
<1>1. IsWellFoundedOn(R, Nat)
  BY NatLessThanWellFounded
<1> HIDE DEF R
<1>2. PICK x \in T : \A y \in T : ~ (<<y, x>> \in R)
  BY <1>1, WFMin
<1>3. \A y \in T : ~(y < x)
  BY <1>0, <1>2
<1>4. \A y \in T : y \in Nat /\ x \in Nat
  OBVIOUS
<1>5. \A y \in T : x <= y
  BY <1>3, <1>4
<1> QED BY <1>5

\* Induction: a set of naturals with zero and every successor has all of them.
LEMMA AllNaturals ==
  ASSUME NEW S, 0 \in S, \A n \in Nat : n \in S => n + 1 \in S
  PROVE  Nat \subseteq S
<1> DEFINE T == Nat \ S
<1> SUFFICES ASSUME T # {} PROVE FALSE
  OBVIOUS
<1>1. PICK n \in T : \A m \in T : n <= m
  BY LeastNatural
<1>2. n \in Nat /\ n # 0 /\ n \notin S
  OBVIOUS
<1>3. n - 1 \in Nat /\ n - 1 \notin T
  BY <1>1, <1>2
<1>4. n - 1 \in S /\ (n - 1) + 1 = n
  BY <1>2, <1>3
<1> QED
  BY <1>2, <1>3, <1>4

\* The partial sums of a list of N values exist as a function.
SumsOf(f, v, N) == f = [n \in 0..N |-> IF n = 0 THEN 0 ELSE f[n - 1] + v[n]]

LEMMA SumsExist ==
  ASSUME NEW v
  PROVE  \A N \in Nat : \E f : SumsOf(f, v, N)
<1> DEFINE S == {N \in Nat : \E f : SumsOf(f, v, N)}
<1>1. 0 \in S
  <2> DEFINE f == [n \in 0..0 |-> 0]
  <2>1. f = [n \in 0..0 |-> IF n = 0 THEN 0 ELSE f[n - 1] + v[n]]
    OBVIOUS
  <2> QED
    BY <2>1 DEF SumsOf
<1>2. ASSUME NEW N \in Nat, N \in S PROVE N + 1 \in S
  <2>1. PICK f : SumsOf(f, v, N)
    BY <1>2
  <2> DEFINE g == [n \in 0..(N + 1) |-> IF n = N + 1 THEN f[N] + v[N + 1] ELSE f[n]]
  <2>2. g = [n \in 0..(N + 1) |-> IF n = 0 THEN 0 ELSE g[n - 1] + v[n]]
    <3> SUFFICES ASSUME NEW n \in 0..(N + 1)
                 PROVE  g[n] = IF n = 0 THEN 0 ELSE g[n - 1] + v[n]
      OBVIOUS
    <3>1. CASE n = 0
      BY <2>1, <3>1 DEF SumsOf
    <3>2. CASE n = N + 1
      BY <3>2
    <3>3. CASE n # 0 /\ n # N + 1
      <4>1. n \in 0..N /\ n - 1 \in 0..(N + 1) /\ n - 1 # N + 1
        BY <3>3
      <4>2. f[n] = f[n - 1] + v[n]
        BY <2>1, <3>3, <4>1 DEF SumsOf
      <4> QED
        BY <3>3, <4>1, <4>2
    <3> QED
      BY <3>1, <3>2, <3>3
  <2>3. SumsOf(g, v, N + 1)
    BY <2>2 DEF SumsOf
  <2> QED
    BY <2>3
<1> HIDE DEF S
<1>3. Nat \subseteq S
  BY <1>1, <1>2, AllNaturals
<1> QED
  BY <1>3 DEF S

\* Lists that agree up to N have the same sum up to N, however long they are.
LEMMA SumsAgree ==
  ASSUME NEW v, NEW w, NEW N \in Nat, NEW K \in Nat, N <= K,
         NEW f, SumsOf(f, v, N), NEW g, SumsOf(g, w, K), \A n \in 1..N : v[n] = w[n]
  PROVE  f[N] = g[N]
<1> DEFINE S == {n \in Nat : n <= N => f[n] = g[n]}
<1>1. 0 \in S
  BY DEF SumsOf
<1>2. ASSUME NEW n \in Nat, n \in S PROVE n + 1 \in S
  <2> SUFFICES ASSUME n + 1 <= N PROVE f[n + 1] = g[n + 1]
    OBVIOUS
  <2>1. f[n] = g[n] /\ v[n + 1] = w[n + 1] /\ n + 1 \in 0..N /\ n + 1 \in 0..K /\ n + 1 # 0 /\ (n + 1) - 1 = n
    BY <1>2
  <2>2. f[n + 1] = f[n] + v[n + 1] /\ g[n + 1] = g[n] + w[n + 1]
    BY <2>1 DEF SumsOf
  <2> QED
    BY <2>1, <2>2
<1> HIDE DEF S
<1>3. Nat \subseteq S
  BY <1>1, <1>2, AllNaturals
<1> QED
  BY <1>3 DEF S

-----------------------------------------------------------------------------
(* Lists with elements taken out.                                          *)

\* The elements kept so far, for each prefix of a list.
OnlyOf(f, s, S, N) ==
  f = [n \in 0..N |-> IF n = 0 THEN <<>>
                      ELSE IF s[n] \in S THEN Append(f[n - 1], s[n]) ELSE f[n - 1]]

LEMMA OnlyExist ==
  ASSUME NEW s, NEW S
  PROVE  \A N \in Nat : \E f : OnlyOf(f, s, S, N)
<1> DEFINE T == {N \in Nat : \E f : OnlyOf(f, s, S, N)}
<1>1. 0 \in T
  <2> DEFINE f == [n \in 0..0 |-> <<>>]
  <2>1. f = [n \in 0..0 |-> IF n = 0 THEN <<>>
                            ELSE IF s[n] \in S THEN Append(f[n - 1], s[n]) ELSE f[n - 1]]
    OBVIOUS
  <2> QED
    BY <2>1 DEF OnlyOf
<1>2. ASSUME NEW N \in Nat, N \in T PROVE N + 1 \in T
  <2>1. PICK f : OnlyOf(f, s, S, N)
    BY <1>2
  <2>2. PICK last : last = IF s[N + 1] \in S THEN Append(f[N], s[N + 1]) ELSE f[N]
    OBVIOUS
  <2> DEFINE g == [n \in 0..(N + 1) |-> IF n = N + 1 THEN last ELSE f[n]]
  <2>3. g = [n \in 0..(N + 1) |-> IF n = 0 THEN <<>>
                                  ELSE IF s[n] \in S THEN Append(g[n - 1], s[n]) ELSE g[n - 1]]
    <3> SUFFICES ASSUME NEW n \in 0..(N + 1)
                 PROVE  g[n] = IF n = 0 THEN <<>>
                               ELSE IF s[n] \in S THEN Append(g[n - 1], s[n]) ELSE g[n - 1]
      OBVIOUS
    <3>1. CASE n = 0
      BY <2>1, <3>1 DEF OnlyOf
    <3>2. CASE n = N + 1
      BY <2>2, <3>2
    <3>3. CASE n # 0 /\ n # N + 1
      <4>1. n \in 0..N /\ n - 1 \in 0..(N + 1) /\ n - 1 # N + 1
        BY <3>3
      <4>2. f[n] = IF s[n] \in S THEN Append(f[n - 1], s[n]) ELSE f[n - 1]
        BY <2>1, <3>3, <4>1 DEF OnlyOf
      <4>3. g[n] = f[n] /\ g[n - 1] = f[n - 1]
        BY <3>3, <4>1
      <4> QED
        BY <3>3, <4>2, <4>3
    <3> QED
      BY <3>1, <3>2, <3>3
  <2>4. OnlyOf(g, s, S, N + 1)
    BY <2>3 DEF OnlyOf
  <2> QED
    BY <2>4
<1> HIDE DEF T
<1>3. Nat \subseteq T
  BY <1>1, <1>2, AllNaturals
<1> QED
  BY <1>3 DEF T

\* Only is the last of them.
LEMMA OnlyIsLast ==
  ASSUME NEW s, Len(s) \in Nat, NEW S
  PROVE  \E f : OnlyOf(f, s, S, Len(s)) /\ Only(s, S) = f[Len(s)]
<1> DEFINE N == Len(s)
           kept == CHOOSE f : f = [n \in 0..N |-> IF n = 0 THEN <<>>
                     ELSE IF s[n] \in S THEN Append(f[n - 1], s[n]) ELSE f[n - 1]]
<1>1. Only(s, S) = kept[N]
  BY DEF Only
<1>2. PICK f : OnlyOf(f, s, S, N)
  BY OnlyExist
<1>3. f = [n \in 0..N |-> IF n = 0 THEN <<>>
             ELSE IF s[n] \in S THEN Append(f[n - 1], s[n]) ELSE f[n - 1]]
  BY <1>2 DEF OnlyOf
<1>4. kept = [n \in 0..N |-> IF n = 0 THEN <<>>
                ELSE IF s[n] \in S THEN Append(kept[n - 1], s[n]) ELSE kept[n - 1]]
  BY <1>3
<1> HIDE DEF kept
<1>5. OnlyOf(kept, s, S, N)
  BY <1>4 DEF OnlyOf
<1> QED
  BY <1>1, <1>5

-----------------------------------------------------------------------------
(* Induction over lists, and the steps of what is computed along them.     *)

\* A set of lists with the empty one and every longer one has all of them.
LEMMA AllLists ==
  ASSUME NEW A, NEW P, <<>> \in P,
         \A s \in Seq(A) : s \in P => \A x \in A : Append(s, x) \in P
  PROVE  Seq(A) \subseteq P
<1> DEFINE T == {n \in Nat : \A s \in Seq(A) : Len(s) = n => s \in P}
<1>1. 0 \in T
  BY \A s \in Seq(A) : Len(s) = 0 => s = <<>>
<1>2. ASSUME NEW n \in Nat, n \in T PROVE n + 1 \in T
  <2> SUFFICES ASSUME NEW s \in Seq(A), Len(s) = n + 1 PROVE s \in P
    OBVIOUS
  <2>1. PICK t : t = [i \in 1..n |-> s[i]]
    OBVIOUS
  <2>2. s[n + 1] \in A /\ t \in Seq(A) /\ Len(t) = n
    BY <2>1
  <2>3. s = Append(t, s[n + 1])
    BY <2>1, <2>2
  <2> QED
    BY <1>2, <2>2, <2>3
<1> HIDE DEF T
<1>3. Nat \subseteq T
  BY <1>1, <1>2, AllNaturals
<1> QED
  BY <1>3 DEF T

\* Lists that agree up to N keep the same elements up to N.
LEMMA OnlyAgree ==
  ASSUME NEW s, NEW t, NEW S, NEW T, NEW N \in Nat, NEW K \in Nat, N <= K,
         NEW f, OnlyOf(f, s, S, N), NEW g, OnlyOf(g, t, T, K),
         \A n \in 1..N : s[n] = t[n] /\ (s[n] \in S <=> t[n] \in T)
  PROVE  f[N] = g[N]
<1> DEFINE P == {n \in Nat : n <= N => f[n] = g[n]}
<1>1. 0 \in P
  BY DEF OnlyOf
<1>2. ASSUME NEW n \in Nat, n \in P PROVE n + 1 \in P
  <2> SUFFICES ASSUME n + 1 <= N PROVE f[n + 1] = g[n + 1]
    OBVIOUS
  <2>1. /\ f[n] = g[n] /\ n + 1 \in 0..N /\ n + 1 \in 0..K /\ n + 1 # 0 /\ (n + 1) - 1 = n
        /\ s[n + 1] = t[n + 1] /\ (s[n + 1] \in S <=> t[n + 1] \in T)
    BY <1>2
  <2>2. /\ f[n + 1] = IF s[n + 1] \in S THEN Append(f[n], s[n + 1]) ELSE f[n]
        /\ g[n + 1] = IF t[n + 1] \in T THEN Append(g[n], t[n + 1]) ELSE g[n]
    BY <2>1 DEF OnlyOf
  <2> QED
    BY <2>1, <2>2
<1> HIDE DEF P
<1>3. Nat \subseteq P
  BY <1>1, <1>2, AllNaturals
<1> QED
  BY <1>3 DEF P

LEMMA OnlyEmpty == ASSUME NEW S PROVE Only(<<>>, S) = <<>>
<1>1. Len(<<>>) = 0
  OBVIOUS
<1>2. PICK f : OnlyOf(f, <<>>, S, 0) /\ Only(<<>>, S) = f[0]
  BY <1>1, OnlyIsLast
<1> QED
  BY <1>2 DEF OnlyOf

LEMMA OnlyAppend ==
  ASSUME NEW A, NEW s \in Seq(A), NEW x \in A, NEW S
  PROVE  Only(Append(s, x), S) = IF x \in S THEN Append(Only(s, S), x) ELSE Only(s, S)
<1>1. PICK t : t = Append(s, x)
  OBVIOUS
<1>2. PICK N \in Nat : N = Len(s)
  OBVIOUS
<1>3. Len(t) = N + 1 /\ t[N + 1] = x /\ \A n \in 1..N : s[n] = t[n]
  BY <1>1, <1>2
<1>4. PICK f : OnlyOf(f, s, S, N) /\ Only(s, S) = f[N]
  BY <1>2, OnlyIsLast
<1>5. PICK g : OnlyOf(g, t, S, N + 1) /\ Only(t, S) = g[N + 1]
  <2>1. Len(t) \in Nat
    BY <1>3
  <2> QED
    BY <1>3, <2>1, OnlyIsLast
<1>6. f[N] = g[N]
  BY <1>3, <1>4, <1>5, OnlyAgree
<1>7. g[N + 1] = IF t[N + 1] \in S THEN Append(g[N], t[N + 1]) ELSE g[N]
  <2>1. N + 1 \in 0..(N + 1) /\ N + 1 # 0 /\ (N + 1) - 1 = N
    OBVIOUS
  <2> QED
    BY <1>5, <2>1 DEF OnlyOf
<1> QED
  BY <1>1, <1>3, <1>4, <1>5, <1>6, <1>7

\* Total is the last of the partial sums.
LEMMA TotalIsLast ==
  ASSUME NEW v, Len(v) \in Nat
  PROVE  \E f : SumsOf(f, v, Len(v)) /\ Total(v) = f[Len(v)]
<1> DEFINE N == Len(v)
           sum == CHOOSE f : f = [n \in 0..N |-> IF n = 0 THEN 0 ELSE f[n - 1] + v[n]]
<1>1. Total(v) = sum[N]
  BY DEF Total
<1>2. PICK f : SumsOf(f, v, N)
  BY SumsExist
<1>3. f = [n \in 0..N |-> IF n = 0 THEN 0 ELSE f[n - 1] + v[n]]
  BY <1>2 DEF SumsOf
<1>4. sum = [n \in 0..N |-> IF n = 0 THEN 0 ELSE sum[n - 1] + v[n]]
  BY <1>3
<1> HIDE DEF sum
<1>5. SumsOf(sum, v, N)
  BY <1>4 DEF SumsOf
<1> QED
  BY <1>1, <1>5

LEMMA TotalEmpty == Total(<<>>) = 0
<1>1. Len(<<>>) = 0
  OBVIOUS
<1>2. PICK f : SumsOf(f, <<>>, 0) /\ Total(<<>>) = f[0]
  BY <1>1, TotalIsLast
<1> QED
  BY <1>2 DEF SumsOf

LEMMA TotalAppend ==
  ASSUME NEW A, NEW v \in Seq(A), NEW x \in A
  PROVE  Total(Append(v, x)) = Total(v) + x
<1>1. PICK w : w = Append(v, x)
  OBVIOUS
<1>2. PICK N \in Nat : N = Len(v)
  OBVIOUS
<1>3. Len(w) = N + 1 /\ w[N + 1] = x /\ \A n \in 1..N : v[n] = w[n]
  BY <1>1, <1>2
<1>4. PICK f : SumsOf(f, v, N) /\ Total(v) = f[N]
  BY <1>2, TotalIsLast
<1>5. PICK g : SumsOf(g, w, N + 1) /\ Total(w) = g[N + 1]
  <2>1. Len(w) \in Nat
    BY <1>3
  <2> QED
    BY <1>3, <2>1, TotalIsLast
<1>6. f[N] = g[N]
  BY <1>3, <1>4, <1>5, SumsAgree
<1>7. g[N + 1] = g[N] + w[N + 1]
  <2>1. N + 1 \in 0..(N + 1) /\ N + 1 # 0 /\ (N + 1) - 1 = N
    OBVIOUS
  <2> QED
    BY <1>5, <2>1 DEF SumsOf
<1> QED
  BY <1>1, <1>3, <1>4, <1>5, <1>6, <1>7

-----------------------------------------------------------------------------
(* Lists with elements taken out.                                          *)

\* What is kept of a list are elements of the list that are in S.
LEMMA OnlyIn ==
  ASSUME NEW A, NEW s \in Seq(A), NEW S
  PROVE  Only(s, S) \in Seq(A \cap S)
<1> DEFINE B == A \cap S
           P == {t \in Seq(A) : Only(t, S) \in Seq(B)}
<1>0. \A x \in A : x \in S => x \in B
  OBVIOUS
<1> HIDE DEF B
<1>1. <<>> \in P
  <2>1. <<>> \in Seq(A) /\ <<>> \in Seq(B)
    OBVIOUS
  <2> QED
    BY <2>1, OnlyEmpty
<1>2. ASSUME NEW t \in Seq(A), t \in P, NEW x \in A PROVE Append(t, x) \in P
  <2>1. PICK o \in Seq(B) : o = Only(t, S)
    BY <1>2
  <2>2. Append(t, x) \in Seq(A) /\ (x \in S => Append(o, x) \in Seq(B))
    BY <1>0
  <2>3. Only(Append(t, x), S) = IF x \in S THEN Append(o, x) ELSE o
    BY <2>1, OnlyAppend
  <2>4. Only(Append(t, x), S) \in Seq(B)
    BY <2>2, <2>3
  <2> QED
    BY <2>2, <2>4
<1> HIDE DEF P
<1>3. Seq(A) \subseteq P
  BY <1>1, <1>2, AllLists
<1> QED
  BY <1>3 DEF P, B

\* What is left of a list are elements of the list that are not in S.
LEMMA RemovedIn ==
  ASSUME NEW A, NEW s \in Seq(A), NEW S
  PROVE  Removed(s, S) \in Seq(A \ S)
<1> DEFINE B == {s[i] : i \in 1..Len(s)} \ S
<1>1. Removed(s, S) \in Seq(A \cap B)
  BY OnlyIn DEF Removed
<1>2. A \cap B \subseteq A \ S
  OBVIOUS
<1> HIDE DEF B
<1> QED
  BY <1>1, <1>2

\* Only the elements of the list matter to what is kept.
LEMMA OnlySame ==
  ASSUME NEW A, NEW s \in Seq(A), NEW S, NEW T,
         \A i \in 1..Len(s) : s[i] \in S <=> s[i] \in T
  PROVE  Only(s, S) = Only(s, T)
<1>1. PICK N \in Nat : N = Len(s)
  OBVIOUS
<1>2. PICK f : OnlyOf(f, s, S, N) /\ Only(s, S) = f[N]
  BY <1>1, OnlyIsLast
<1>3. PICK g : OnlyOf(g, s, T, N) /\ Only(s, T) = g[N]
  BY <1>1, OnlyIsLast
<1>4. f[N] = g[N]
  BY <1>1, <1>2, <1>3, OnlyAgree
<1> QED
  BY <1>2, <1>3, <1>4

LEMMA RemovedOnly ==
  ASSUME NEW A, NEW s \in Seq(A), NEW S
  PROVE  Removed(s, S) = Only(s, A \ S)
<1> DEFINE B == {s[i] : i \in 1..Len(s)} \ S
<1>1. \A i \in 1..Len(s) : s[i] \in B <=> s[i] \in A \ S
  OBVIOUS
<1> HIDE DEF B
<1>2. Only(s, B) = Only(s, A \ S)
  BY <1>1, OnlySame
<1> QED
  BY <1>2 DEF Removed, B

LEMMA AppendIn ==
  ASSUME NEW A, NEW s \in Seq(A), NEW x \in A
  PROVE  Append(s, x) \in Seq(A)
  OBVIOUS

LEMMA ConcatIn ==
  ASSUME NEW A, NEW s \in Seq(A), NEW t \in Seq(A)
  PROVE  s \o t \in Seq(A)
  OBVIOUS

\* An element in front is kept in front or not at all.
LEMMA OnlyCons ==
  ASSUME NEW A, NEW s \in Seq(A), NEW x \in A, NEW S
  PROVE  Only(<<x>> \o s, S) = IF x \in S THEN <<x>> \o Only(s, S) ELSE Only(s, S)
<1> DEFINE P == {t \in Seq(A) :
                   Only(<<x>> \o t, S) = IF x \in S THEN <<x>> \o Only(t, S) ELSE Only(t, S)}
<1>1. <<>> \in P
  <2>1. <<x>> \o <<>> = Append(<<>>, x) /\ <<x>> \o <<>> = <<x>> /\ <<>> \in Seq(A)
    OBVIOUS
  <2>2. Only(Append(<<>>, x), S) = IF x \in S THEN Append(Only(<<>>, S), x) ELSE Only(<<>>, S)
    BY <2>1, OnlyAppend
  <2>3. Only(<<>>, S) = <<>>
    BY OnlyEmpty
  <2>4. Only(<<x>> \o <<>>, S) = IF x \in S THEN <<x>> \o Only(<<>>, S) ELSE Only(<<>>, S)
    BY <2>1, <2>2, <2>3
  <2> QED
    BY <2>1, <2>4
<1>2. ASSUME NEW t \in Seq(A), t \in P, NEW y \in A PROVE Append(t, y) \in P
  <2>1. PICK u \in Seq(A) : u = <<x>> \o t
    <3>1. PICK v \in Seq(A) : v = <<x>>
      <4>1. <<x>> \in Seq(A)
        OBVIOUS
      <4> QED
        BY <4>1
    <3>2. v \o t \in Seq(A)
      BY ConcatIn
    <3> QED
      BY <3>1, <3>2
  <2>2. <<x>> \o Append(t, y) = Append(u, y)
    BY <2>1
  <2>3. Only(Append(u, y), S) = IF y \in S THEN Append(Only(u, S), y) ELSE Only(u, S)
    BY OnlyAppend
  <2>4. Only(Append(t, y), S) = IF y \in S THEN Append(Only(t, S), y) ELSE Only(t, S)
    BY OnlyAppend
  <2>5. Only(u, S) = IF x \in S THEN <<x>> \o Only(t, S) ELSE Only(t, S)
    BY <1>2, <2>1
  <2>6. PICK o \in Seq(A) : o = Only(t, S)
    <3>1. Only(t, S) \in Seq(A \cap S)
      BY OnlyIn
    <3> QED
      BY <3>1
  <2>7. <<x>> \o Append(o, y) = Append(<<x>> \o o, y)
    OBVIOUS
  <2>8. Only(<<x>> \o Append(t, y), S) =
          IF x \in S THEN <<x>> \o Only(Append(t, y), S) ELSE Only(Append(t, y), S)
    BY <2>2, <2>3, <2>4, <2>5, <2>6, <2>7
  <2> QED
    BY <2>8
<1> HIDE DEF P
<1>3. Seq(A) \subseteq P
  BY <1>1, <1>2, AllLists
<1> QED
  BY <1>3 DEF P

\* Each element kept has its place in the list, in order, and every element of
\* the list that is in S is kept.
Places(e, t, s, S) ==
  /\ e \in [1..Len(t) -> 1..Len(s)]
  /\ \A i \in 1..Len(t) : t[i] = s[e[i]]
  /\ \A i, j \in 1..Len(t) : i < j => e[i] < e[j]
  /\ \A k \in 1..Len(s) : s[k] \in S <=> \E i \in 1..Len(t) : e[i] = k

LEMMA OnlyPlaces ==
  ASSUME NEW A, NEW s \in Seq(A), NEW S
  PROVE  \E e : Places(e, Only(s, S), s, S)
<1> DEFINE P == {t \in Seq(A) : \E e : Places(e, Only(t, S), t, S)}
<1>1. <<>> \in P
  <2>1. Only(<<>>, S) = <<>> /\ <<>> \in Seq(A)
    BY OnlyEmpty
  <2>2. Places([i \in 1..0 |-> 0], <<>>, <<>>, S)
    BY DEF Places
  <2> QED
    BY <2>1, <2>2
<1>2. ASSUME NEW t \in Seq(A), t \in P, NEW x \in A PROVE Append(t, x) \in P
  <2>1. PICK e : Places(e, Only(t, S), t, S)
    BY <1>2
  <2>2. PICK o \in Seq(A) : o = Only(t, S)
    <3>1. Only(t, S) \in Seq(A \cap S)
      BY OnlyIn
    <3> QED
      BY <3>1
  <2>3. PICK u \in Seq(A) : u = Append(t, x)
    BY AppendIn
  <2>4. PICK n \in Nat : n = Len(o)
    BY <2>2
  <2>5. PICK N \in Nat : N = Len(t)
    OBVIOUS
  <2>6. Len(u) = N + 1 /\ u[N + 1] = x /\ \A k \in 1..N : u[k] = t[k]
    BY <2>3, <2>5
  <2>7. /\ e \in [1..n -> 1..N]
        /\ \A i \in 1..n : o[i] = t[e[i]]
        /\ \A i, j \in 1..n : i < j => e[i] < e[j]
        /\ \A k \in 1..N : t[k] \in S <=> \E i \in 1..n : e[i] = k
    BY <2>1, <2>2, <2>4, <2>5 DEF Places
  <2>8. CASE x \notin S
    <3>1. Only(u, S) = o
      BY <2>2, <2>3, <2>8, OnlyAppend
    <3>2. e \in [1..n -> 1..(N + 1)] /\ \A i \in 1..n : e[i] # N + 1
      <4>1. \A k \in 1..N : k \in 1..(N + 1) /\ k # N + 1
        OBVIOUS
      <4> QED
        BY <2>7, <4>1
    <3>3. \A k \in 1..(N + 1) : u[k] \in S <=> \E i \in 1..n : e[i] = k
      <4> SUFFICES ASSUME NEW k \in 1..(N + 1) PROVE u[k] \in S <=> \E i \in 1..n : e[i] = k
        OBVIOUS
      <4>1. CASE k = N + 1
        BY <2>6, <2>8, <3>2, <4>1
      <4>2. CASE k \in 1..N
        BY <2>6, <2>7, <4>2
      <4> QED
        BY <4>1, <4>2
    <3>4. \A i \in 1..n : o[i] = u[e[i]]
      BY <2>6, <2>7
    <3>5. Places(e, o, u, S)
      BY <2>4, <2>6, <2>7, <3>2, <3>3, <3>4 DEF Places
    <3> QED
      BY <2>3, <3>1, <3>5
  <2>9. CASE x \in S
    <3> DEFINE d == [i \in 1..(n + 1) |-> IF i = n + 1 THEN N + 1 ELSE e[i]]
    <3>1. PICK v \in Seq(A) : v = Append(o, x)
      BY AppendIn
    <3>2. Only(u, S) = v
      BY <2>2, <2>3, <2>9, <3>1, OnlyAppend
    <3>3. Len(v) = n + 1 /\ v[n + 1] = x /\ \A i \in 1..n : v[i] = o[i]
      BY <2>4, <3>1
    <3>4. /\ d[n + 1] = N + 1 /\ DOMAIN d = 1..(n + 1)
          /\ \A i \in 1..n : d[i] = e[i] /\ d[i] \in 1..N
      <4>1. \A i \in 1..n : i \in 1..(n + 1) /\ i # n + 1
        BY <2>4
      <4> QED
        BY <2>7, <4>1
    <3>5. d \in [1..(n + 1) -> 1..(N + 1)]
      <4>1. \A i \in 1..(n + 1) : (IF i = n + 1 THEN N + 1 ELSE e[i]) \in 1..(N + 1)
        BY <2>7
      <4> QED
        BY <4>1
    <3> HIDE DEF d
    <3>6. \A i \in 1..(n + 1) : v[i] = u[d[i]]
      <4> SUFFICES ASSUME NEW i \in 1..(n + 1) PROVE v[i] = u[d[i]]
        OBVIOUS
      <4>1. CASE i = n + 1
        BY <2>6, <3>3, <3>4, <4>1
      <4>2. CASE i \in 1..n
        <5>1. v[i] = o[i] /\ o[i] = t[e[i]] /\ d[i] = e[i] /\ d[i] \in 1..N
          BY <2>7, <3>3, <3>4, <4>2
        <5>2. u[d[i]] = t[d[i]]
          BY <2>6, <5>1
        <5> QED
          BY <5>1, <5>2
      <4> QED
        BY <4>1, <4>2
    <3>7. \A i, j \in 1..(n + 1) : i < j => d[i] < d[j]
      <4> SUFFICES ASSUME NEW i \in 1..(n + 1), NEW j \in 1..(n + 1), i < j PROVE d[i] < d[j]
        OBVIOUS
      <4>0. i \in 1..n
        OBVIOUS
      <4>1. CASE j = n + 1
        BY <3>4, <4>0, <4>1
      <4>2. CASE j \in 1..n
        BY <2>7, <3>4, <4>0, <4>2
      <4> QED
        BY <4>1, <4>2
    <3>8. \A k \in 1..(N + 1) : u[k] \in S <=> \E i \in 1..(n + 1) : d[i] = k
      <4> SUFFICES ASSUME NEW k \in 1..(N + 1)
                   PROVE  u[k] \in S <=> \E i \in 1..(n + 1) : d[i] = k
        OBVIOUS
      <4>1. CASE k = N + 1
        <5>1. n + 1 \in 1..(n + 1)
          OBVIOUS
        <5> QED
          BY <2>6, <2>9, <3>4, <4>1, <5>1
      <4>2. CASE k \in 1..N
        <5>1. u[k] \in S <=> \E i \in 1..n : e[i] = k
          BY <2>6, <2>7, <4>2
        <5>2. (\E i \in 1..n : e[i] = k) => \E i \in 1..(n + 1) : d[i] = k
          <6>1. \A i \in 1..n : i \in 1..(n + 1)
            OBVIOUS
          <6> QED
            BY <3>4, <6>1
        <5>3. ASSUME NEW i \in 1..(n + 1), d[i] = k PROVE \E h \in 1..n : e[h] = k
          <6>1. i # n + 1
            BY <3>4, <4>2, <5>3
          <6>2. i \in 1..n
            BY <6>1
          <6> QED
            BY <3>4, <5>3, <6>2
        <5> QED
          BY <5>1, <5>2, <5>3
      <4> QED
        BY <4>1, <4>2
    <3>9. Places(d, v, u, S)
      BY <2>6, <3>3, <3>5, <3>6, <3>7, <3>8 DEF Places
    <3> QED
      BY <2>3, <3>2, <3>9
  <2> QED
    BY <2>8, <2>9
<1> HIDE DEF P
<1>3. Seq(A) \subseteq P
  BY <1>1, <1>2, AllLists
<1> QED
  BY <1>3 DEF P

-----------------------------------------------------------------------------
(* What the elements of a list weigh together.                             *)

Weights(s, f) == [i \in 1..Len(s) |-> f[s[i]]]
Weighs(s, f) == Total(Weights(s, f))

LEMMA WeighsEmpty == ASSUME NEW f PROVE Weighs(<<>>, f) = 0
<1>1. Weights(<<>>, f) = <<>>
  BY DEF Weights
<1> QED
  BY <1>1, TotalEmpty DEF Weighs

LEMMA WeighsAppend ==
  ASSUME NEW A, NEW f, NEW s \in Seq(A), NEW x \in A, \A y \in A : f[y] \in Nat
  PROVE  Weighs(Append(s, x), f) = Weighs(s, f) + f[x]
<1>1. PICK N \in Nat : N = Len(s)
  OBVIOUS
<1>2. PICK t : t = Append(s, x)
  OBVIOUS
<1>3. Len(t) = N + 1 /\ t[N + 1] = x /\ \A i \in 1..N : t[i] = s[i] /\ s[i] \in A
  BY <1>1, <1>2
<1>4. PICK v : v = Weights(s, f)
  OBVIOUS
<1>5. v \in Seq(Nat) /\ Len(v) = N /\ \A i \in 1..N : v[i] = f[s[i]]
  BY <1>1, <1>3, <1>4 DEF Weights
<1>6. Weights(t, f) = Append(v, f[x])
  <2>1. Weights(t, f) = [i \in 1..(N + 1) |-> f[t[i]]]
    BY <1>3 DEF Weights
  <2>2. Append(v, f[x]) = [i \in 1..(N + 1) |-> IF i = N + 1 THEN f[x] ELSE v[i]]
    BY <1>5
  <2>3. \A i \in 1..(N + 1) : f[t[i]] = IF i = N + 1 THEN f[x] ELSE v[i]
    BY <1>3, <1>5
  <2> QED
    BY <2>1, <2>2, <2>3
<1>7. Total(Append(v, f[x])) = Total(v) + f[x]
  BY <1>5, TotalAppend
<1> QED
  BY <1>2, <1>4, <1>6, <1>7 DEF Weighs

LEMMA WeighsNat ==
  ASSUME NEW A, NEW f, NEW s \in Seq(A), \A y \in A : f[y] \in Nat
  PROVE  Weighs(s, f) \in Nat
<1> DEFINE P == {t \in Seq(A) : Weighs(t, f) \in Nat}
<1>1. <<>> \in P
  <2>1. <<>> \in Seq(A)
    OBVIOUS
  <2> QED
    BY <2>1, WeighsEmpty
<1>2. ASSUME NEW t \in Seq(A), t \in P, NEW x \in A PROVE Append(t, x) \in P
  <2>1. Append(t, x) \in Seq(A) /\ Weighs(t, f) \in Nat /\ f[x] \in Nat
    BY <1>2
  <2>2. Weighs(Append(t, x), f) = Weighs(t, f) + f[x]
    BY WeighsAppend
  <2> QED
    BY <2>1, <2>2
<1> HIDE DEF P
<1>3. Seq(A) \subseteq P
  BY <1>1, <1>2, AllLists
<1> QED
  BY <1>3 DEF P

\* What is kept and what is left weigh together what the list weighs.
LEMMA WeighsSplit ==
  ASSUME NEW A, NEW f, NEW s \in Seq(A), NEW S, \A y \in A : f[y] \in Nat
  PROVE  /\ Weighs(Only(s, S), f) \in Nat /\ Weighs(Only(s, A \ S), f) \in Nat
         /\ Weighs(Only(s, S), f) + Weighs(Only(s, A \ S), f) = Weighs(s, f)
<1> DEFINE R == A \ S
           P == {t \in Seq(A) : Weighs(Only(t, S), f) + Weighs(Only(t, R), f) = Weighs(t, f)}
<1>0. \A x \in A : x \in R <=> x \notin S
  OBVIOUS
<1> HIDE DEF R
<1>1. ASSUME NEW t \in Seq(A), NEW T PROVE Only(t, T) \in Seq(A) /\ Weighs(Only(t, T), f) \in Nat
  <2>1. Only(t, T) \in Seq(A \cap T)
    BY OnlyIn
  <2>2. Only(t, T) \in Seq(A)
    BY <2>1
  <2> QED
    BY <2>2, WeighsNat
<1>2. <<>> \in P
  <2>1. <<>> \in Seq(A)
    OBVIOUS
  <2> QED
    BY <2>1, OnlyEmpty, WeighsEmpty
<1>3. ASSUME NEW t \in Seq(A), t \in P, NEW x \in A PROVE Append(t, x) \in P
  <2>1. PICK a \in Seq(A) : a = Only(t, S)
    BY <1>1
  <2>2. PICK b \in Seq(A) : b = Only(t, R)
    BY <1>1
  <2>3. Weighs(a, f) \in Nat /\ Weighs(b, f) \in Nat /\ Weighs(t, f) \in Nat /\ f[x] \in Nat
    BY WeighsNat
  <2>4. Weighs(a, f) + Weighs(b, f) = Weighs(t, f)
    BY <1>3, <2>1, <2>2
  <2>5. /\ Only(Append(t, x), S) = IF x \in S THEN Append(a, x) ELSE a
        /\ Only(Append(t, x), R) = IF x \in R THEN Append(b, x) ELSE b
    BY <2>1, <2>2, OnlyAppend, SMTT(30)
  <2>6. /\ Weighs(Append(a, x), f) = Weighs(a, f) + f[x]
        /\ Weighs(Append(b, x), f) = Weighs(b, f) + f[x]
        /\ Weighs(Append(t, x), f) = Weighs(t, f) + f[x]
    BY WeighsAppend
  <2>7. Weighs(Only(Append(t, x), S), f) + Weighs(Only(Append(t, x), R), f) = Weighs(Append(t, x), f)
    <3>1. CASE x \in S
      BY <1>0, <2>3, <2>4, <2>5, <2>6, <3>1
    <3>2. CASE x \notin S
      BY <1>0, <2>3, <2>4, <2>5, <2>6, <3>2
    <3> QED
      BY <3>1, <3>2
  <2>8. Append(t, x) \in Seq(A)
    OBVIOUS
  <2> QED
    BY <2>7, <2>8
<1> HIDE DEF P
<1>4. Seq(A) \subseteq P
  BY <1>2, <1>3, AllLists
<1>5. Weighs(Only(s, S), f) + Weighs(Only(s, R), f) = Weighs(s, f)
  BY <1>4 DEF P
<1> QED
  BY <1>1, <1>5 DEF R

-----------------------------------------------------------------------------
(* Lists that lie in another, and lists without one position.              *)

\* The elements of t are elements of s, in the order they have there.
Within(t, s) ==
  \E e \in [1..Len(t) -> 1..Len(s)] :
    /\ \A i \in 1..Len(t) : t[i] = s[e[i]]
    /\ \A i, j \in 1..Len(t) : i < j => e[i] < e[j]

LEMMA OnlyWithin ==
  ASSUME NEW A, NEW s \in Seq(A), NEW S
  PROVE  Within(Only(s, S), s)
<1>1. PICK e : Places(e, Only(s, S), s, S)
  BY OnlyPlaces
<1>2. PICK t : t = Only(s, S)
  OBVIOUS
<1>3. Within(t, s)
  BY <1>1, <1>2 DEF Places, Within
<1> QED
  BY <1>2, <1>3

LEMMA OnlyShorter ==
  ASSUME NEW A, NEW s \in Seq(A), NEW S
  PROVE  Only(s, S) \in Seq(A) /\ Len(Only(s, S)) <= Len(s)
<1> DEFINE P == {t \in Seq(A) : Only(t, S) \in Seq(A) /\ Len(Only(t, S)) <= Len(t)}
<1>1. <<>> \in P
  <2>1. <<>> \in Seq(A) /\ Only(<<>>, S) = <<>> /\ Len(<<>>) <= Len(<<>>)
    BY OnlyEmpty
  <2>2. Only(<<>>, S) \in Seq(A) /\ Len(Only(<<>>, S)) <= Len(<<>>)
    BY <2>1
  <2> QED
    BY <2>1, <2>2
<1>2. ASSUME NEW t \in Seq(A), t \in P, NEW x \in A PROVE Append(t, x) \in P
  <2>1. PICK o \in Seq(A) : o = Only(t, S)
    BY <1>2
  <2>2. Len(o) <= Len(t)
    BY <1>2, <2>1
  <2>3. Only(Append(t, x), S) = IF x \in S THEN Append(o, x) ELSE o
    BY <2>1, OnlyAppend
  <2>4. /\ Append(t, x) \in Seq(A) /\ Append(o, x) \in Seq(A)
        /\ Len(Append(t, x)) = Len(t) + 1 /\ Len(Append(o, x)) = Len(o) + 1
    OBVIOUS
  <2>5. Len(o) \in Nat /\ Len(t) \in Nat
    OBVIOUS
  <2>6. Only(Append(t, x), S) \in Seq(A) /\ Len(Only(Append(t, x), S)) <= Len(Append(t, x))
    <3>1. CASE x \in S
      BY <2>2, <2>3, <2>4, <2>5, <3>1
    <3>2. CASE x \notin S
      BY <2>2, <2>3, <2>4, <2>5, <3>2
    <3> QED
      BY <3>1, <3>2
  <2> QED
    BY <2>4, <2>6
<1> HIDE DEF P
<1>3. Seq(A) \subseteq P
  BY <1>1, <1>2, AllLists
<1> QED
  BY <1>3 DEF P

\* s without its position i
Less(s, i) == SubSeq(s, 1, i - 1) \o SubSeq(s, i + 1, Len(s))

LEMMA LessFacts ==
  ASSUME NEW A, NEW s \in Seq(A), NEW i \in 1..Len(s)
  PROVE  /\ Less(s, i) \in Seq(A)
         /\ Len(Less(s, i)) = Len(s) - 1
         /\ \A j \in 1..(Len(s) - 1) : Less(s, i)[j] = s[IF j < i THEN j ELSE j + 1]
<1>1. PICK N \in Nat : N = Len(s)
  OBVIOUS
<1>2. PICK a \in Seq(A) : a = SubSeq(s, 1, i - 1)
  <2>1. SubSeq(s, 1, i - 1) \in Seq(A)
    OBVIOUS
  <2> QED
    BY <2>1
<1>3. Len(a) = i - 1 /\ \A j \in 1..(i - 1) : a[j] = s[j]
  BY <1>2
<1>4. PICK b \in Seq(A) : b = SubSeq(s, i + 1, N)
  <2>1. SubSeq(s, i + 1, N) \in Seq(A)
    BY <1>1
  <2> QED
    BY <2>1
<1>5. Len(b) = N - i /\ \A j \in 1..(N - i) : b[j] = s[i + j]
  BY <1>1, <1>4
<1>6. Less(s, i) = a \o b
  BY <1>1, <1>2, <1>4 DEF Less
<1>7. a \o b \in Seq(A) /\ Len(a \o b) = N - 1
  BY <1>1, <1>3, <1>5
<1>8. ASSUME NEW j \in 1..(N - 1) PROVE (a \o b)[j] = s[IF j < i THEN j ELSE j + 1]
  <2>1. CASE j < i
    <3>1. j \in 1..Len(a) /\ (a \o b)[j] = a[j]
      BY <1>3, <2>1
    <3> QED
      BY <1>3, <2>1, <3>1
  <2>2. CASE ~(j < i)
    <3>1. j - (i - 1) \in 1..(N - i) /\ i + (j - (i - 1)) = j + 1
      BY <1>1, <2>2
    <3>2. (a \o b)[j] = b[j - (i - 1)]
      BY <1>3, <1>5, <2>2, <3>1
    <3>3. b[j - (i - 1)] = s[j + 1]
      BY <1>5, <3>1
    <3> QED
      BY <2>2, <3>2, <3>3
  <2> QED
    BY <2>1, <2>2
<1> QED
  BY <1>1, <1>6, <1>7, <1>8

LEMMA LessWithin ==
  ASSUME NEW A, NEW s \in Seq(A), NEW i \in 1..Len(s)
  PROVE  Within(Less(s, i), s)
<1>1. PICK N \in Nat : N = Len(s)
  OBVIOUS
<1>2. PICK t : t = Less(s, i)
  OBVIOUS
<1>3. Len(t) = N - 1 /\ \A j \in 1..(N - 1) : t[j] = s[IF j < i THEN j ELSE j + 1]
  BY <1>1, <1>2, LessFacts
<1> DEFINE e == [j \in 1..(N - 1) |-> IF j < i THEN j ELSE j + 1]
<1>4. e \in [1..Len(t) -> 1..N]
  BY <1>1, <1>3
<1>5. /\ \A j \in 1..Len(t) : t[j] = s[e[j]]
      /\ \A j, k \in 1..Len(t) : j < k => e[j] < e[k]
  BY <1>1, <1>3
<1> HIDE DEF e
<1> QED
  BY <1>1, <1>2, <1>4, <1>5 DEF Within

\* What leaves a list no longer weighs.
LEMMA LessWeighs ==
  ASSUME NEW A, NEW f, NEW s \in Seq(A), NEW i \in 1..Len(s), \A y \in A : f[y] \in Nat
  PROVE  Weighs(Less(s, i), f) \in Nat /\ Weighs(Less(s, i), f) + f[s[i]] = Weighs(s, f)
<1> DEFINE P == {t \in Seq(A) : \A k \in 1..Len(t) : Weighs(Less(t, k), f) + f[t[k]] = Weighs(t, f)}
<1>1. <<>> \in P
  OBVIOUS
<1>2. ASSUME NEW t \in Seq(A), t \in P, NEW x \in A PROVE Append(t, x) \in P
  <2>1. PICK N \in Nat : N = Len(t)
    OBVIOUS
  <2>2. PICK u \in Seq(A) : u = Append(t, x)
    BY AppendIn
  <2>3. Len(u) = N + 1 /\ u[N + 1] = x /\ \A k \in 1..N : u[k] = t[k] /\ t[k] \in A
    BY <2>1, <2>2
  <2>4. Weighs(u, f) = Weighs(t, f) + f[x] /\ Weighs(t, f) \in Nat /\ f[x] \in Nat
    BY <2>2, WeighsAppend, WeighsNat
  <2>5. ASSUME NEW k \in 1..(N + 1) PROVE Weighs(Less(u, k), f) + f[u[k]] = Weighs(u, f)
    <3>a. k \in 1..Len(u) /\ Len(u) - 1 = N
      BY <2>3
    <3>b. /\ Less(u, k) \in Seq(A) /\ Len(Less(u, k)) = Len(u) - 1
          /\ \A j \in 1..(Len(u) - 1) : Less(u, k)[j] = u[IF j < k THEN j ELSE j + 1]
      BY <3>a, LessFacts
    <3>0. PICK w \in Seq(A) : w = Less(u, k)
      BY <3>b
    <3>1. Len(w) = N /\ \A j \in 1..N : w[j] = u[IF j < k THEN j ELSE j + 1]
      BY <3>a, <3>b, <3>0
    <3>2. CASE k = N + 1
      <4>1. \A j \in 1..N : w[j] = t[j]
        BY <2>3, <3>1, <3>2
      <4>2. w = t
        BY <2>1, <3>1, <4>1
      <4> QED
        BY <2>3, <2>4, <3>0, <3>2, <4>2
    <3>3. CASE k \in 1..N
      <4>1. PICK v \in Seq(A) : v = Less(t, k)
        BY <2>1, <3>3, LessFacts
      <4>2. Len(v) = N - 1 /\ \A j \in 1..(N - 1) : v[j] = t[IF j < k THEN j ELSE j + 1]
        BY <2>1, <3>3, <4>1, LessFacts
      <4>3. PICK z \in Seq(A) : z = Append(v, x)
        BY AppendIn
      <4>4. Len(z) = N /\ z[N] = x /\ \A j \in 1..(N - 1) : z[j] = v[j]
        BY <4>2, <4>3
      <4>5. \A j \in 1..N : w[j] = z[j]
        <5> SUFFICES ASSUME NEW j \in 1..N PROVE w[j] = z[j]
          OBVIOUS
        <5>1. CASE j = N
          BY <2>3, <3>1, <3>3, <4>4, <5>1
        <5>2. CASE j \in 1..(N - 1)
          <6>1. (IF j < k THEN j ELSE j + 1) \in 1..N
            BY <5>2
          <6> QED
            BY <2>3, <3>1, <4>2, <4>4, <5>2, <6>1
        <5> QED
          BY <5>1, <5>2
      <4>6. w = z
        BY <3>1, <4>4, <4>5
      <4>7. Weighs(z, f) = Weighs(v, f) + f[x] /\ Weighs(v, f) \in Nat
        BY <4>3, WeighsAppend, WeighsNat
      <4>8. Weighs(v, f) + f[t[k]] = Weighs(t, f) /\ f[t[k]] \in Nat /\ u[k] = t[k]
        BY <1>2, <2>1, <2>3, <3>3, <4>1
      <4>9. Weighs(Less(u, k), f) = Weighs(v, f) + f[x]
        BY <3>0, <4>6, <4>7
      <4>a. PICK a \in Nat : a = Weighs(v, f)
        BY <4>7
      <4>b. PICK b \in Nat : b = f[x]
        BY <2>4
      <4>c. PICK c \in Nat : c = f[u[k]] /\ c = f[t[k]]
        BY <4>8
      <4>d. Weighs(t, f) = a + c /\ Weighs(u, f) = Weighs(t, f) + b /\ Weighs(Less(u, k), f) = a + b
        BY <2>4, <4>8, <4>9, <4>a, <4>b, <4>c
      <4>e. Weighs(Less(u, k), f) + c = Weighs(u, f)
        BY <4>d
      <4> QED
        BY <4>c, <4>e
    <3> QED
      BY <3>2, <3>3
  <2> QED
    BY <2>2, <2>3, <2>5
<1> HIDE DEF P
<1>3. Seq(A) \subseteq P
  BY <1>1, <1>2, AllLists
<1>4. Less(s, i) \in Seq(A)
  BY LessFacts
<1>5. Weighs(Less(s, i), f) \in Nat
  BY <1>4, WeighsNat
<1> QED
  BY <1>3, <1>5 DEF P

\* The last positions of a list.
LEMMA SuffixFacts ==
  ASSUME NEW A, NEW s \in Seq(A), NEW n \in 0..Len(s)
  PROVE  /\ SubSeq(s, n + 1, Len(s)) \in Seq(A)
         /\ Len(SubSeq(s, n + 1, Len(s))) = Len(s) - n
         /\ \A j \in 1..(Len(s) - n) : SubSeq(s, n + 1, Len(s))[j] = s[n + j]
  OBVIOUS

LEMMA SuffixWithin ==
  ASSUME NEW A, NEW s \in Seq(A), NEW n \in 0..Len(s)
  PROVE  Within(SubSeq(s, n + 1, Len(s)), s)
<1>1. PICK N \in Nat : N = Len(s)
  OBVIOUS
<1>2. PICK t : t = SubSeq(s, n + 1, Len(s))
  OBVIOUS
<1>3. Len(t) = N - n /\ \A j \in 1..(N - n) : t[j] = s[n + j]
  BY <1>1, <1>2, SuffixFacts
<1> DEFINE e == [j \in 1..(N - n) |-> n + j]
<1>4. e \in [1..Len(t) -> 1..N]
  BY <1>1, <1>3
<1>5. /\ \A j \in 1..Len(t) : t[j] = s[e[j]]
      /\ \A j, k \in 1..Len(t) : j < k => e[j] < e[k]
  BY <1>1, <1>3
<1> HIDE DEF e
<1> QED
  BY <1>1, <1>2, <1>4, <1>5 DEF Within

LEMMA WithinTransitive ==
  ASSUME NEW r, NEW t, NEW s, Within(r, t), Within(t, s)
  PROVE  Within(r, s)
<1>1. PICK d \in [1..Len(r) -> 1..Len(t)] :
        /\ \A i \in 1..Len(r) : r[i] = t[d[i]]
        /\ \A i, j \in 1..Len(r) : i < j => d[i] < d[j]
  BY DEF Within
<1>2. PICK e \in [1..Len(t) -> 1..Len(s)] :
        /\ \A i \in 1..Len(t) : t[i] = s[e[i]]
        /\ \A i, j \in 1..Len(t) : i < j => e[i] < e[j]
  BY DEF Within
<1> DEFINE f == [i \in 1..Len(r) |-> e[d[i]]]
<1>3. f \in [1..Len(r) -> 1..Len(s)]
  BY <1>1, <1>2
<1>4. /\ \A i \in 1..Len(r) : r[i] = s[f[i]]
      /\ \A i, j \in 1..Len(r) : i < j => f[i] < f[j]
  BY <1>1, <1>2
<1> HIDE DEF f
<1> QED
  BY <1>3, <1>4 DEF Within

-----------------------------------------------------------------------------
(* Lists of elements of another list, in any order.                        *)

\* The elements of t are elements of s, at positions that are all different.
Picked(t, s) ==
  \E e \in [1..Len(t) -> 1..Len(s)] :
    /\ \A i \in 1..Len(t) : t[i] = s[e[i]]
    /\ \A i, j \in 1..Len(t) : i # j => e[i] # e[j]

LEMMA WithinPicked ==
  ASSUME NEW t, NEW s, Len(t) \in Nat, Len(s) \in Nat, Within(t, s)
  PROVE  Picked(t, s)
<1>1. PICK e \in [1..Len(t) -> 1..Len(s)] :
        /\ \A i \in 1..Len(t) : t[i] = s[e[i]]
        /\ \A i, j \in 1..Len(t) : i < j => e[i] < e[j]
  BY DEF Within
<1>2. ASSUME NEW i \in 1..Len(t), NEW j \in 1..Len(t), i # j PROVE e[i] # e[j]
  <2>1. i < j \/ j < i
    BY <1>2
  <2>2. e[i] \in 1..Len(s) /\ e[j] \in 1..Len(s)
    BY <1>1
  <2>3. e[i] < e[j] \/ e[j] < e[i]
    BY <1>1, <2>1
  <2> QED
    BY <2>2, <2>3
<1> QED
  BY <1>1, <1>2 DEF Picked

\* Every two elements of s are related by R.
Pairwise(s, R) == \A i, j \in 1..Len(s) : i # j => <<s[i], s[j]>> \in R

LEMMA PickedPairwise ==
  ASSUME NEW t, NEW s, NEW R, Picked(t, s), Pairwise(s, R)
  PROVE  Pairwise(t, R)
<1>1. PICK e \in [1..Len(t) -> 1..Len(s)] :
        /\ \A i \in 1..Len(t) : t[i] = s[e[i]]
        /\ \A i, j \in 1..Len(t) : i # j => e[i] # e[j]
  BY DEF Picked
<1>2. ASSUME NEW i \in 1..Len(t), NEW j \in 1..Len(t), i # j PROVE <<t[i], t[j]>> \in R
  <2>1. e[i] \in 1..Len(s) /\ e[j] \in 1..Len(s) /\ e[i] # e[j]
    BY <1>1, <1>2
  <2>2. <<s[e[i]], s[e[j]]>> \in R
    BY <2>1 DEF Pairwise
  <2> QED
    BY <1>1, <2>2
<1> QED
  BY <1>2 DEF Pairwise

LEMMA AppendPairwise ==
  ASSUME NEW A, NEW s \in Seq(A), NEW x \in A, NEW R, Pairwise(s, R),
         \A i \in 1..Len(s) : <<s[i], x>> \in R /\ <<x, s[i]>> \in R
  PROVE  Pairwise(Append(s, x), R)
<1>1. PICK n \in Nat : n = Len(s)
  OBVIOUS
<1>2. PICK t : t = Append(s, x)
  OBVIOUS
<1>3. Len(t) = n + 1 /\ t[n + 1] = x /\ \A i \in 1..n : t[i] = s[i]
  BY <1>1, <1>2
<1>4. ASSUME NEW i \in 1..(n + 1), NEW j \in 1..(n + 1), i # j
      PROVE  <<t[i], t[j]>> \in R
  <2>1. CASE i \in 1..n /\ j \in 1..n
    BY <1>1, <1>3, <1>4, <2>1 DEF Pairwise
  <2>2. CASE i \in 1..n /\ j = n + 1
    BY <1>1, <1>3, <2>2
  <2>3. CASE i = n + 1 /\ j \in 1..n
    BY <1>1, <1>3, <2>3
  <2> QED
    BY <1>4, <2>1, <2>2, <2>3
<1> QED
  BY <1>2, <1>3, <1>4 DEF Pairwise

\* What is kept and what is left have the length of the list together.
LEMMA SplitLength ==
  ASSUME NEW A, NEW s \in Seq(A), NEW S
  PROVE  Len(Only(s, S)) + Len(Only(s, A \ S)) = Len(s)
<1> DEFINE R == A \ S
           P == {t \in Seq(A) : Len(Only(t, S)) + Len(Only(t, R)) = Len(t)}
<1>0. \A x \in A : x \in R <=> x \notin S
  OBVIOUS
<1> HIDE DEF R
<1>1. <<>> \in P
  <2>1. <<>> \in Seq(A) /\ Len(<<>>) + Len(<<>>) = Len(<<>>)
    OBVIOUS
  <2> QED
    BY <2>1, OnlyEmpty
<1>2. ASSUME NEW t \in Seq(A), t \in P, NEW x \in A PROVE Append(t, x) \in P
  <2>1. PICK a \in Seq(A) : a = Only(t, S)
    BY OnlyShorter
  <2>2. PICK b \in Seq(A) : b = Only(t, R)
    BY OnlyShorter
  <2>3. Len(a) + Len(b) = Len(t) /\ Len(a) \in Nat /\ Len(b) \in Nat /\ Len(t) \in Nat
    BY <1>2, <2>1, <2>2
  <2>4. /\ Only(Append(t, x), S) = IF x \in S THEN Append(a, x) ELSE a
        /\ Only(Append(t, x), R) = IF x \in R THEN Append(b, x) ELSE b
    BY <2>1, <2>2, OnlyAppend, SMTT(30)
  <2>5. /\ Append(t, x) \in Seq(A)
        /\ Len(Append(a, x)) = Len(a) + 1 /\ Len(Append(b, x)) = Len(b) + 1
        /\ Len(Append(t, x)) = Len(t) + 1
    OBVIOUS
  <2>6. Len(Only(Append(t, x), S)) + Len(Only(Append(t, x), R)) = Len(Append(t, x))
    <3>1. CASE x \in S
      <4>1. Only(Append(t, x), S) = Append(a, x) /\ Only(Append(t, x), R) = b
        BY <1>0, <2>4, <3>1
      <4> QED
        BY <2>3, <2>5, <4>1
    <3>2. CASE x \notin S
      <4>1. Only(Append(t, x), S) = a /\ Only(Append(t, x), R) = Append(b, x)
        BY <1>0, <2>4, <3>2
      <4> QED
        BY <2>3, <2>5, <4>1
    <3> QED
      BY <3>1, <3>2
  <2> QED
    BY <2>5, <2>6
<1> HIDE DEF P
<1>3. Seq(A) \subseteq P
  BY <1>1, <1>2, AllLists
<1> QED
  BY <1>3 DEF P, R

LEMMA WeighsConcat ==
  ASSUME NEW A, NEW f, NEW s \in Seq(A), NEW r \in Seq(A), \A y \in A : f[y] \in Nat
  PROVE  Weighs(s \o r, f) = Weighs(s, f) + Weighs(r, f)
<1> DEFINE P == {t \in Seq(A) : Weighs(s \o t, f) = Weighs(s, f) + Weighs(t, f)}
<1>0. \A t \in Seq(A) : Weighs(t, f) \in Nat
  BY WeighsNat
<1>1. <<>> \in P
  <2>1. <<>> \in Seq(A) /\ s \o <<>> = s /\ Weighs(<<>>, f) = 0
    BY WeighsEmpty
  <2>2. Weighs(s, f) + 0 = Weighs(s, f)
    BY <1>0
  <2> QED
    BY <2>1, <2>2
<1>2. ASSUME NEW t \in Seq(A), t \in P, NEW x \in A PROVE Append(t, x) \in P
  <2>1. PICK u \in Seq(A) : u = s \o t
    BY ConcatIn
  <2>2. PICK v \in Seq(A) : v = Append(t, x)
    BY AppendIn
  <2>3. s \o v = Append(u, x)
    BY <2>1, <2>2
  <2>4. Weighs(v, f) = Weighs(t, f) + f[x] /\ Weighs(Append(u, x), f) = Weighs(u, f) + f[x]
    BY <2>2, WeighsAppend
  <2>5. Weighs(u, f) = Weighs(s, f) + Weighs(t, f)
    BY <1>2, <2>1
  <2>6. PICK a \in Nat : a = Weighs(s, f)
    BY <1>0
  <2>7. PICK b \in Nat : b = Weighs(t, f)
    BY <1>0
  <2>8. PICK c \in Nat : c = f[x]
    OBVIOUS
  <2>9. (a + b) + c = a + (b + c)
    OBVIOUS
  <2> QED
    BY <2>2, <2>3, <2>4, <2>5, <2>6, <2>7, <2>8, <2>9
<1> HIDE DEF P
<1>3. Seq(A) \subseteq P
  BY <1>1, <1>2, AllLists
<1> QED
  BY <1>3 DEF P

\* A list with the elements of S moved to its end: the same elements.
LEMMA SplitPicked ==
  ASSUME NEW A, NEW s \in Seq(A), NEW S
  PROVE  /\ Removed(s, S) \o Only(s, S) \in Seq(A)
         /\ Len(Removed(s, S) \o Only(s, S)) = Len(s)
         /\ Picked(Removed(s, S) \o Only(s, S), s)
         /\ \A k \in 1..Len(s) : \E i \in 1..Len(s) : (Removed(s, S) \o Only(s, S))[i] = s[k]
<1> DEFINE R == A \ S
<1>0. \A x \in A : x \in R <=> x \notin S
  OBVIOUS
<1>1. Removed(s, S) = Only(s, R)
  BY RemovedOnly
<1>2. PICK N \in Nat : N = Len(s)
  OBVIOUS
<1>3. Len(Only(s, S)) + Len(Only(s, R)) = N
  BY <1>2, SplitLength
<1> HIDE DEF R
<1>4. PICK a \in Seq(A) : a = Only(s, R)
  BY OnlyShorter
<1>5. PICK b \in Seq(A) : b = Only(s, S)
  BY OnlyShorter
<1>6. PICK d : Places(d, a, s, R)
  BY <1>4, OnlyPlaces
<1>7. PICK e : Places(e, b, s, S)
  BY <1>5, OnlyPlaces
<1>8. PICK m \in Nat : m = Len(a)
  BY <1>4
<1>9. PICK n \in Nat : n = Len(b)
  BY <1>5
<1>10. m + n = N
  BY <1>3, <1>4, <1>5, <1>8, <1>9
<1>11. PICK u \in Seq(A) : u = a \o b
  BY ConcatIn
<1>12. /\ Len(u) = N /\ \A i \in 1..m : u[i] = a[i]
       /\ \A i \in (m + 1)..N : i - m \in 1..n /\ u[i] = b[i - m]
  BY <1>8, <1>9, <1>10, <1>11
<1>13. /\ d \in [1..m -> 1..N] /\ \A i \in 1..m : a[i] = s[d[i]] /\ s[d[i]] \in R
       /\ \A i, j \in 1..m : i # j => d[i] # d[j]
       /\ \A k \in 1..N : s[k] \in R => \E i \in 1..m : d[i] = k
  <2>1. /\ d \in [1..m -> 1..N] /\ \A i \in 1..m : a[i] = s[d[i]]
        /\ \A i, j \in 1..m : i < j => d[i] < d[j]
        /\ \A k \in 1..N : s[k] \in R <=> \E i \in 1..m : d[i] = k
    BY <1>2, <1>6, <1>8 DEF Places
  <2>2. \A i \in 1..m : d[i] \in 1..N /\ s[d[i]] \in R
    BY <2>1
  <2>3. ASSUME NEW i \in 1..m, NEW j \in 1..m, i # j PROVE d[i] # d[j]
    <3>1. i < j \/ j < i
      BY <2>3
    <3> QED
      BY <2>1, <2>2, <3>1
  <2> QED
    BY <2>1, <2>2, <2>3
<1>14. /\ e \in [1..n -> 1..N] /\ \A i \in 1..n : b[i] = s[e[i]] /\ s[e[i]] \in S
       /\ \A i, j \in 1..n : i # j => e[i] # e[j]
       /\ \A k \in 1..N : s[k] \in S => \E i \in 1..n : e[i] = k
  <2>1. /\ e \in [1..n -> 1..N] /\ \A i \in 1..n : b[i] = s[e[i]]
        /\ \A i, j \in 1..n : i < j => e[i] < e[j]
        /\ \A k \in 1..N : s[k] \in S <=> \E i \in 1..n : e[i] = k
    BY <1>2, <1>7, <1>9 DEF Places
  <2>2. \A i \in 1..n : e[i] \in 1..N /\ s[e[i]] \in S
    BY <2>1
  <2>3. ASSUME NEW i \in 1..n, NEW j \in 1..n, i # j PROVE e[i] # e[j]
    <3>1. i < j \/ j < i
      BY <2>3
    <3> QED
      BY <2>1, <2>2, <3>1
  <2> QED
    BY <2>1, <2>2, <2>3
<1>15. \A k \in 1..N : s[k] \in A /\ (s[k] \in R <=> s[k] \notin S)
  BY <1>0, <1>2
<1> DEFINE g == [i \in 1..N |-> IF i <= m THEN d[i] ELSE e[i - m]]
<1>16. \A i \in 1..N : g[i] \in 1..N /\ u[i] = s[g[i]] /\ (s[g[i]] \in R <=> i <= m)
  <2> SUFFICES ASSUME NEW i \in 1..N
               PROVE  g[i] \in 1..N /\ u[i] = s[g[i]] /\ (s[g[i]] \in R <=> i <= m)
    OBVIOUS
  <2>1. CASE i <= m
    <3>1. i \in 1..m /\ g[i] = d[i]
      BY <2>1
    <3> QED
      BY <1>12, <1>13, <2>1, <3>1
  <2>2. CASE ~(i <= m)
    <3>1. i \in (m + 1)..N /\ i - m \in 1..n /\ g[i] = e[i - m]
      BY <1>10, <2>2
    <3> QED
      BY <1>12, <1>14, <1>15, <2>2, <3>1
  <2> QED
    BY <2>1, <2>2
<1>17. ASSUME NEW i \in 1..N, NEW j \in 1..N, i # j PROVE g[i] # g[j]
  <2>1. CASE i <= m /\ j <= m
    <3>1. i \in 1..m /\ j \in 1..m /\ g[i] = d[i] /\ g[j] = d[j]
      BY <2>1
    <3> QED
      BY <1>13, <1>17, <3>1
  <2>2. CASE ~(i <= m) /\ ~(j <= m)
    <3>1. i - m \in 1..n /\ j - m \in 1..n /\ i - m # j - m /\ g[i] = e[i - m] /\ g[j] = e[j - m]
      BY <1>10, <1>17, <2>2
    <3> QED
      BY <1>14, <3>1
  <2>3. CASE i <= m /\ ~(j <= m)
    <3>1. s[g[i]] \in R /\ ~(s[g[j]] \in R)
      BY <1>16, <2>3
    <3> QED
      BY <3>1
  <2>4. CASE ~(i <= m) /\ j <= m
    <3>1. s[g[j]] \in R /\ ~(s[g[i]] \in R)
      BY <1>16, <2>4
    <3> QED
      BY <3>1
  <2> QED
    BY <2>1, <2>2, <2>3, <2>4
<1>18. g \in [1..N -> 1..N]
  BY <1>16
<1>19. ASSUME NEW k \in 1..N PROVE \E i \in 1..N : u[i] = s[k]
  <2>1. CASE s[k] \in R
    <3>1. PICK i \in 1..m : d[i] = k
      BY <1>13, <2>1
    <3>2. i \in 1..N /\ u[i] = s[k]
      BY <1>10, <1>12, <1>13, <3>1
    <3> QED
      BY <3>2
  <2>2. CASE s[k] \notin R
    <3>1. PICK i \in 1..n : e[i] = k
      BY <1>14, <1>15, <2>2
    <3>2. m + i \in (m + 1)..N /\ (m + i) - m = i
      BY <1>10
    <3>3. m + i \in 1..N /\ u[m + i] = s[k]
      BY <1>12, <1>14, <3>1, <3>2
    <3> QED
      BY <3>3
  <2> QED
    BY <2>1, <2>2
<1> HIDE DEF g
<1>20. Picked(u, s)
  <2>1. /\ g \in [1..Len(u) -> 1..Len(s)]
        /\ \A i \in 1..Len(u) : u[i] = s[g[i]]
        /\ \A i, j \in 1..Len(u) : i # j => g[i] # g[j]
    BY <1>2, <1>12, <1>16, <1>17, <1>18
  <2> QED
    BY <2>1 DEF Picked
<1>21. Removed(s, S) \o Only(s, S) = u
  BY <1>1, <1>4, <1>5, <1>11
<1>22. u \in Seq(A) /\ Len(u) = Len(s) /\ \A k \in 1..Len(s) : \E i \in 1..Len(s) : u[i] = s[k]
  BY <1>2, <1>12, <1>19
<1> QED
  BY <1>20, <1>21, <1>22

LEMMA SplitWeighs ==
  ASSUME NEW A, NEW f, NEW s \in Seq(A), NEW S, \A y \in A : f[y] \in Nat
  PROVE  Weighs(Removed(s, S) \o Only(s, S), f) = Weighs(s, f)
<1> DEFINE R == A \ S
<1>1. Removed(s, S) = Only(s, R)
  BY RemovedOnly
<1>2. Weighs(Only(s, S), f) + Weighs(Only(s, R), f) = Weighs(s, f)
  BY WeighsSplit
<1> HIDE DEF R
<1>3. PICK a \in Seq(A) : a = Only(s, R)
  BY OnlyShorter
<1>4. PICK b \in Seq(A) : b = Only(s, S)
  BY OnlyShorter
<1>5. Weighs(a \o b, f) = Weighs(a, f) + Weighs(b, f) /\ Weighs(a, f) \in Nat /\ Weighs(b, f) \in Nat
  BY WeighsConcat, WeighsNat
<1>6. Weighs(a, f) + Weighs(b, f) = Weighs(b, f) + Weighs(a, f)
  BY <1>5
<1> QED
  BY <1>1, <1>2, <1>3, <1>4, <1>5, <1>6

LEMMA NoneKept == ASSUME NEW A, NEW s \in Seq(A) PROVE Only(s, {}) = <<>>
<1> DEFINE P == {t \in Seq(A) : Only(t, {}) = <<>>}
<1>1. <<>> \in P
  <2>1. <<>> \in Seq(A)
    OBVIOUS
  <2> QED
    BY <2>1, OnlyEmpty
<1>2. ASSUME NEW t \in Seq(A), t \in P, NEW x \in A PROVE Append(t, x) \in P
  <2>1. Only(Append(t, x), {}) = IF x \in {} THEN Append(Only(t, {}), x) ELSE Only(t, {})
    BY OnlyAppend
  <2>2. Append(t, x) \in Seq(A)
    OBVIOUS
  <2> QED
    BY <1>2, <2>1, <2>2
<1> HIDE DEF P
<1>3. Seq(A) \subseteq P
  BY <1>1, <1>2, AllLists
<1> QED
  BY <1>3 DEF P

\* An element that stands at one position only is kept once.
LEMMA OneKept ==
  ASSUME NEW A, NEW s \in Seq(A), NEW i \in 1..Len(s), \A j \in 1..Len(s) : j # i => s[j] # s[i]
  PROVE  Only(s, {s[i]}) = <<s[i]>>
<1>1. PICK N \in Nat : N = Len(s)
  OBVIOUS
<1>2. PICK x \in A : x = s[i]
  OBVIOUS
<1>3. PICK t \in Seq(A) : t = Only(s, {x})
  BY OnlyShorter
<1>4. PICK e : Places(e, t, s, {x})
  BY <1>3, OnlyPlaces
<1>5. PICK n \in Nat : n = Len(t)
  BY <1>3
<1>6. /\ e \in [1..n -> 1..N] /\ \A k \in 1..n : t[k] = s[e[k]]
      /\ \A k, l \in 1..n : k < l => e[k] < e[l]
      /\ \A k \in 1..N : s[k] \in {x} <=> \E l \in 1..n : e[l] = k
  BY <1>1, <1>4, <1>5 DEF Places
<1>7. \A k \in 1..n : e[k] \in 1..N /\ e[k] = i
  BY <1>1, <1>2, <1>6
<1>8. PICK k \in 1..n : e[k] = i
  BY <1>1, <1>2, <1>6
<1>9. n = 1
  <2>1. ~(1 < n)
    BY <1>6, <1>7
  <2> QED
    BY <1>8, <2>1
<1>10. t[1] = x
  BY <1>2, <1>6, <1>7, <1>9
<1>11. t = <<x>>
  BY <1>3, <1>5, <1>9, <1>10
<1> QED
  BY <1>2, <1>3, <1>11

\* What is kept of two sets of elements, when those of the first are in front of those of
\* the second.
LEMMA OnlySplit ==
  ASSUME NEW A, NEW s \in Seq(A), NEW P, NEW Q,
         \A i, j \in 1..Len(s) : i < j => ~(s[i] \in Q /\ s[j] \in P), P \cap Q = {}
  PROVE  Only(s, P \cup Q) = Only(s, P) \o Only(s, Q)
<1> DEFINE Apart(t) == \A i, j \in 1..Len(t) : i < j => ~(t[i] \in Q /\ t[j] \in P)
           T == {t \in Seq(A) : Apart(t) => Only(t, P \cup Q) = Only(t, P) \o Only(t, Q)}
<1>1. <<>> \in T
  <2>1. <<>> \in Seq(A)
    OBVIOUS
  <2>2. <<>> \o <<>> = <<>>
    BY \A e \in Seq(A) : e \o <<>> = e, <2>1
  <2>3. \A S : Only(<<>>, S) = <<>>
    BY OnlyEmpty
  <2>4. Only(<<>>, P \cup Q) = Only(<<>>, P) \o Only(<<>>, Q)
    BY <2>2, <2>3
  <2> QED
    BY <2>1, <2>4
<1>2. ASSUME NEW t \in Seq(A), t \in T, NEW x \in A PROVE Append(t, x) \in T
  <2>0. PICK N \in Nat : N = Len(t)
    OBVIOUS
  <2>1. PICK u : u = Append(t, x) /\ N = Len(t)
    BY <2>0
  <2>2. u \in Seq(A) /\ Len(u) = N + 1 /\ u[N + 1] = x /\ \A i \in 1..N : u[i] = t[i]
    BY <2>1
  <2> SUFFICES ASSUME Apart(u) PROVE Only(u, P \cup Q) = Only(u, P) \o Only(u, Q)
    BY <2>1, <2>2
  <2>3. Apart(t)
    <3>1. \A i \in 1..N : i \in 1..(N + 1)
      OBVIOUS
    <3> QED
      BY <2>1, <2>2, <3>1
  <2>4. Only(t, P \cup Q) = Only(t, P) \o Only(t, Q)
    BY <1>2, <2>3
  <2>5. Only(t, P) \in Seq(A) /\ Only(t, Q) \in Seq(A)
    BY OnlyShorter
  <2>6. \A S : Only(u, S) = IF x \in S THEN Append(Only(t, S), x) ELSE Only(t, S)
    BY <2>1, OnlyAppend
  <2>7. PICK p, q : p = Only(t, P) /\ q = Only(t, Q)
    OBVIOUS
  <2>8. CASE x \in Q
    <3>1. x \notin P
      BY <2>8
    <3>2. Only(u, P) = p /\ Only(u, Q) = Append(q, x) /\ Only(u, P \cup Q) = Append(p \o q, x)
      BY <2>4, <2>6, <2>7, <2>8, <3>1
    <3>3. p \o Append(q, x) = Append(p \o q, x)
      BY <2>5, <2>7
    <3> QED
      BY <2>7, <3>2, <3>3
  <2>9. CASE x \notin Q /\ x \notin P
    <3>1. Only(u, P) = p /\ Only(u, Q) = q /\ Only(u, P \cup Q) = p \o q
      BY <2>4, <2>6, <2>7, <2>9
    <3> QED
      BY <3>1
  <2>10. CASE x \notin Q /\ x \in P
    <3>1. \A i \in 1..N : t[i] \notin Q
      <4>1. \A i \in 1..N : i \in 1..(N + 1) /\ N + 1 \in 1..(N + 1) /\ i < N + 1
        OBVIOUS
      <4> QED
        BY <2>1, <2>2, <2>10, <4>1
    <3>2. q = <<>>
      <4>1. Only(t, Q) = Only(t, {})
        BY <2>1, <3>1, OnlySame
      <4> QED
        BY <2>7, <4>1, NoneKept
    <3>3. p \o <<>> = p /\ Append(p, x) \o <<>> = Append(p, x)
      BY <2>5, <2>7
    <3>4. Only(u, P) = Append(p, x) /\ Only(u, Q) = q /\ Only(u, P \cup Q) = Append(p \o q, x)
      BY <2>4, <2>6, <2>7, <2>10
    <3> QED
      BY <3>2, <3>3, <3>4
  <2> QED
    BY <2>8, <2>9, <2>10
<1>3. \A t \in Seq(A) : t \in T => \A x \in A : Append(t, x) \in T
  BY <1>2
<1> QED
  <2>1. \A t : t \in T => (Apart(t) => Only(t, P \cup Q) = Only(t, P) \o Only(t, Q))
    OBVIOUS
  <2>2. Apart(s)
    OBVIOUS
  <2> HIDE DEF T
  <2>3. Seq(A) \subseteq T
    BY <1>1, <1>3, AllLists
  <2> QED
    BY <2>1, <2>2, <2>3

\* What is kept of two lists in a row.
LEMMA OnlyConcat ==
  ASSUME NEW A, NEW s \in Seq(A), NEW u \in Seq(A), NEW S
  PROVE  Only(s \o u, S) = Only(s, S) \o Only(u, S)
<1> DEFINE T == {t \in Seq(A) : Only(s \o t, S) = Only(s, S) \o Only(t, S)}
<1>0. Only(s, S) \in Seq(A)
  BY OnlyShorter
<1>1. <<>> \in T
  <2>1. <<>> \in Seq(A)
    OBVIOUS
  <2>2. s \o <<>> = s /\ Only(s, S) \o <<>> = Only(s, S)
    BY <1>0
  <2>3. Only(<<>>, S) = <<>>
    BY OnlyEmpty
  <2>4. Only(s \o <<>>, S) = Only(s, S) \o Only(<<>>, S)
    BY <2>2, <2>3
  <2> QED
    BY <2>1, <2>4
<1>2. ASSUME NEW t \in Seq(A), t \in T, NEW x \in A PROVE Append(t, x) \in T
  <2>1. PICK o, p, c : o = Only(s, S) /\ p = Only(t, S) /\ c = s \o t
    OBVIOUS
  <2>2. o \in Seq(A) /\ p \in Seq(A) /\ c \in Seq(A) /\ Append(t, x) \in Seq(A)
    BY <1>0, <2>1, OnlyShorter
  <2>3. s \o Append(t, x) = Append(c, x)
    BY <2>1
  <2>4. Only(c, S) = o \o p
    BY <1>2, <2>1
  <2>5. Only(Append(c, x), S) = IF x \in S THEN Append(o \o p, x) ELSE o \o p
    BY <2>2, <2>4, OnlyAppend
  <2>6. Only(Append(t, x), S) = IF x \in S THEN Append(p, x) ELSE p
    BY <2>1, OnlyAppend
  <2>7. o \o Append(p, x) = Append(o \o p, x)
    BY <2>2
  <2>8. Only(s \o Append(t, x), S) = Only(s, S) \o Only(Append(t, x), S)
    BY <2>1, <2>3, <2>5, <2>6, <2>7
  <2> QED
    BY <2>2, <2>8
<1>3. \A t \in Seq(A) : t \in T => \A x \in A : Append(t, x) \in T
  BY <1>2
<1>4. \A t \in T : Only(s \o t, S) = Only(s, S) \o Only(t, S)
  OBVIOUS
<1> HIDE DEF T
<1>5. Seq(A) \subseteq T
  BY <1>1, <1>3, AllLists
<1> QED
  BY <1>4, <1>5

\* All of a list is kept, or nothing.
LEMMA KeptWhole ==
  ASSUME NEW A, NEW s \in Seq(A), NEW S, \A i \in 1..Len(s) : s[i] \in S
  PROVE  Only(s, S) = s
<1> DEFINE T == {t \in Seq(A) : (\A i \in 1..Len(t) : t[i] \in S) => Only(t, S) = t}
<1>1. <<>> \in T
  <2>1. <<>> \in Seq(A)
    OBVIOUS
  <2> QED
    BY <2>1, OnlyEmpty
<1>2. ASSUME NEW t \in Seq(A), t \in T, NEW x \in A PROVE Append(t, x) \in T
  <2>0. PICK N \in Nat : N = Len(t)
    OBVIOUS
  <2>1. PICK u : u = Append(t, x)
    OBVIOUS
  <2>2. u \in Seq(A) /\ Len(u) = N + 1 /\ u[N + 1] = x /\ \A i \in 1..N : u[i] = t[i]
    BY <2>0, <2>1
  <2> SUFFICES ASSUME \A i \in 1..Len(u) : u[i] \in S PROVE Only(u, S) = u
    BY <2>1, <2>2
  <2>3. x \in S /\ \A i \in 1..N : t[i] \in S
    BY <2>2
  <2>4. Only(t, S) = t
    BY <1>2, <2>0, <2>3
  <2> QED
    BY <2>1, <2>3, <2>4, OnlyAppend
<1>3. \A t \in Seq(A) : t \in T => \A x \in A : Append(t, x) \in T
  BY <1>2
<1>4. \A t \in T : (\A i \in 1..Len(t) : t[i] \in S) => Only(t, S) = t
  OBVIOUS
<1> HIDE DEF T
<1>5. Seq(A) \subseteq T
  BY <1>1, <1>3, AllLists
<1> QED
  BY <1>4, <1>5

LEMMA KeptNothing ==
  ASSUME NEW A, NEW s \in Seq(A), NEW S, \A i \in 1..Len(s) : s[i] \notin S
  PROVE  Only(s, S) = <<>>
<1>1. Only(s, S) = Only(s, {})
  BY OnlySame
<1> QED
  BY <1>1, NoneKept

LEMMA ConcatAt ==
  ASSUME NEW A, NEW s \in Seq(A), NEW t \in Seq(A)
  PROVE  /\ s \o t \in Seq(A) /\ Len(s \o t) = Len(s) + Len(t)
         /\ \A i \in 1..Len(s) : (s \o t)[i] = s[i]
         /\ \A i \in 1..Len(t) : (s \o t)[Len(s) + i] = t[i]
  OBVIOUS

-----------------------------------------------------------------------------
(* Lists joined.                                                           *)

\* The first n lists of v, joined, for every n up to N.
ChainOf(f, v, N) == f = [n \in 0..N |-> IF n = 0 THEN <<>> ELSE f[n - 1] \o v[n]]

LEMMA ChainsExist ==
  ASSUME NEW v
  PROVE  \A N \in Nat : \E f : ChainOf(f, v, N)
<1> DEFINE S == {N \in Nat : \E f : ChainOf(f, v, N)}
<1>1. 0 \in S
  <2> DEFINE f == [n \in 0..0 |-> <<>>]
  <2>1. f = [n \in 0..0 |-> IF n = 0 THEN <<>> ELSE f[n - 1] \o v[n]]
    OBVIOUS
  <2> QED
    BY <2>1 DEF ChainOf
<1>2. ASSUME NEW N \in Nat, N \in S PROVE N + 1 \in S
  <2>1. PICK f : ChainOf(f, v, N)
    BY <1>2
  <2> DEFINE g == [n \in 0..(N + 1) |-> IF n = N + 1 THEN f[N] \o v[N + 1] ELSE f[n]]
  <2>2. g = [n \in 0..(N + 1) |-> IF n = 0 THEN <<>> ELSE g[n - 1] \o v[n]]
    <3> SUFFICES ASSUME NEW n \in 0..(N + 1)
                 PROVE  g[n] = IF n = 0 THEN <<>> ELSE g[n - 1] \o v[n]
      OBVIOUS
    <3>1. CASE n = 0
      BY <2>1, <3>1 DEF ChainOf
    <3>2. CASE n = N + 1
      <4>1. n # 0 /\ n - 1 = N /\ N # N + 1 /\ N \in 0..(N + 1)
        BY <3>2
      <4>2. g[n] = f[N] \o v[n] /\ g[n - 1] = f[N]
        BY <3>2, <4>1
      <4> QED
        BY <4>1, <4>2
    <3>3. CASE n # 0 /\ n # N + 1
      <4>1. n \in 0..N /\ n - 1 \in 0..(N + 1) /\ n - 1 # N + 1
        BY <3>3
      <4>2. f[n] = f[n - 1] \o v[n]
        BY <2>1, <3>3, <4>1 DEF ChainOf
      <4> QED
        BY <3>3, <4>1, <4>2
    <3> QED
      BY <3>1, <3>2, <3>3
  <2>3. ChainOf(g, v, N + 1)
    BY <2>2 DEF ChainOf
  <2> QED
    BY <2>3
<1> HIDE DEF S
<1>3. Nat \subseteq S
  BY <1>1, <1>2, AllNaturals
<1> QED
  BY <1>3 DEF S

LEMMA ChainsAgree ==
  ASSUME NEW v, NEW w, NEW N \in Nat, NEW K \in Nat, N <= K,
         NEW f, ChainOf(f, v, N), NEW g, ChainOf(g, w, K), \A n \in 1..N : v[n] = w[n]
  PROVE  f[N] = g[N]
<1> DEFINE S == {n \in Nat : n <= N => f[n] = g[n]}
<1>1. 0 \in S
  BY DEF ChainOf
<1>2. ASSUME NEW n \in Nat, n \in S PROVE n + 1 \in S
  <2> SUFFICES ASSUME n + 1 <= N PROVE f[n + 1] = g[n + 1]
    OBVIOUS
  <2>1. f[n] = g[n] /\ v[n + 1] = w[n + 1] /\ n + 1 \in 0..N /\ n + 1 \in 0..K /\ n + 1 # 0 /\ (n + 1) - 1 = n
    BY <1>2
  <2>2. f[n + 1] = f[n] \o v[n + 1] /\ g[n + 1] = g[n] \o w[n + 1]
    BY <2>1 DEF ChainOf
  <2> QED
    BY <2>1, <2>2
<1> HIDE DEF S
<1>3. Nat \subseteq S
  BY <1>1, <1>2, AllNaturals
<1> QED
  BY <1>3 DEF S

LEMMA ChainedIsLast ==
  ASSUME NEW v, NEW N \in Nat
  PROVE  \E f : ChainOf(f, v, N) /\ Chained(v, N) = f[N]
<1> DEFINE chain == CHOOSE f : f = [n \in 0..N |-> IF n = 0 THEN <<>> ELSE f[n - 1] \o v[n]]
<1>1. Chained(v, N) = chain[N]
  BY DEF Chained
<1>2. PICK f : ChainOf(f, v, N)
  BY ChainsExist
<1>3. f = [n \in 0..N |-> IF n = 0 THEN <<>> ELSE f[n - 1] \o v[n]]
  BY <1>2 DEF ChainOf
<1>4. chain = [n \in 0..N |-> IF n = 0 THEN <<>> ELSE chain[n - 1] \o v[n]]
  BY <1>3
<1> HIDE DEF chain
<1>5. ChainOf(chain, v, N)
  BY <1>4 DEF ChainOf
<1> QED
  BY <1>1, <1>5

LEMMA ChainedNone == ASSUME NEW v PROVE Chained(v, 0) = <<>>
<1>1. PICK f : ChainOf(f, v, 0) /\ Chained(v, 0) = f[0]
  BY ChainedIsLast
<1> QED
  BY <1>1 DEF ChainOf

LEMMA ChainedNext ==
  ASSUME NEW v, NEW N \in Nat
  PROVE  Chained(v, N + 1) = Chained(v, N) \o v[N + 1]
<1>1. PICK f : ChainOf(f, v, N) /\ Chained(v, N) = f[N]
  BY ChainedIsLast
<1>2. PICK g : ChainOf(g, v, N + 1) /\ Chained(v, N + 1) = g[N + 1]
  BY ChainedIsLast
<1>3. f[N] = g[N]
  BY <1>1, <1>2, ChainsAgree
<1>4. N + 1 \in 0..(N + 1) /\ N + 1 # 0 /\ (N + 1) - 1 = N
  OBVIOUS
<1>5. g[N + 1] = g[N] \o v[N + 1]
  BY <1>2, <1>4 DEF ChainOf
<1> QED
  BY <1>1, <1>2, <1>3, <1>5

LEMMA ChainedSame ==
  ASSUME NEW v, NEW w, NEW N \in Nat, \A n \in 1..N : v[n] = w[n]
  PROVE  Chained(v, N) = Chained(w, N)
<1>1. PICK f : ChainOf(f, v, N) /\ Chained(v, N) = f[N]
  BY ChainedIsLast
<1>2. PICK g : ChainOf(g, w, N) /\ Chained(w, N) = g[N]
  BY ChainedIsLast
<1> QED
  BY <1>1, <1>2, ChainsAgree

LEMMA ChainedIn ==
  ASSUME NEW A, NEW v, NEW N \in Nat, \A n \in 1..N : v[n] \in Seq(A)
  PROVE  Chained(v, N) \in Seq(A)
<1> DEFINE S == {n \in Nat : n <= N => Chained(v, n) \in Seq(A)}
<1>1. 0 \in S
  <2>1. Chained(v, 0) = <<>> /\ <<>> \in Seq(A)
    BY ChainedNone
  <2> QED
    BY <2>1
<1>2. ASSUME NEW n \in Nat, n \in S PROVE n + 1 \in S
  <2> SUFFICES ASSUME n + 1 <= N PROVE Chained(v, n + 1) \in Seq(A)
    OBVIOUS
  <2>1. Chained(v, n) \in Seq(A) /\ v[n + 1] \in Seq(A)
    BY <1>2
  <2> QED
    BY <2>1, ChainedNext, ConcatIn
<1> HIDE DEF S
<1>3. Nat \subseteq S
  BY <1>1, <1>2, AllNaturals
<1> QED
  BY <1>3 DEF S

\* Empty lists at the end add nothing.
LEMMA ChainedRest ==
  ASSUME NEW A, NEW v, NEW M \in Nat, NEW N \in Nat, M <= N,
         \A n \in 1..M : v[n] \in Seq(A), \A n \in (M + 1)..N : v[n] = <<>>
  PROVE  Chained(v, N) = Chained(v, M)
<1> DEFINE S == {n \in Nat : M + n <= N => Chained(v, M + n) = Chained(v, M)}
<1>0. Chained(v, M) \in Seq(A)
  BY ChainedIn
<1>1. 0 \in S
  OBVIOUS
<1>2. ASSUME NEW n \in Nat, n \in S PROVE n + 1 \in S
  <2> SUFFICES ASSUME M + (n + 1) <= N PROVE Chained(v, M + (n + 1)) = Chained(v, M)
    OBVIOUS
  <2>1. PICK k \in Nat : k = M + n
    OBVIOUS
  <2>2. M + (n + 1) = k + 1 /\ k + 1 \in (M + 1)..N /\ M + n <= N
    BY <2>1
  <2>3. Chained(v, k) = Chained(v, M) /\ v[k + 1] = <<>>
    BY <1>2, <2>1, <2>2
  <2>4. Chained(v, k + 1) = Chained(v, M) \o <<>>
    BY <2>3, ChainedNext
  <2> QED
    BY <1>0, <2>2, <2>4
<1> HIDE DEF S
<1>3. Nat \subseteq S
  BY <1>1, <1>2, AllNaturals
<1>4. N - M \in S /\ M + (N - M) = N
  BY <1>3
<1> QED
  BY <1>4 DEF S

\* The last list put behind the others.
LEMMA ChainedAppend ==
  ASSUME NEW A, NEW v \in Seq(A), NEW x
  PROVE  Chained(Append(v, x), Len(v) + 1) = Chained(v, Len(v)) \o x
<1>1. PICK n, w : n = Len(v) /\ w = Append(v, x)
  OBVIOUS
<1>2. n \in Nat /\ w[n + 1] = x /\ \A i \in 1..n : w[i] = v[i]
  BY <1>1
<1>3. Chained(w, n) = Chained(v, n)
  BY <1>2, ChainedSame
<1>4. Chained(w, n + 1) = Chained(w, n) \o x
  BY <1>2, ChainedNext
<1> QED
  BY <1>1, <1>3, <1>4

LEMMA ConcatTwice ==
  ASSUME NEW A, NEW s \in Seq(A), NEW t \in Seq(A), NEW u \in Seq(A)
  PROVE  (s \o t) \o u = s \o (t \o u)
<1>1. PICK a, b, x, y : a = s \o t /\ b = t \o u /\ x = a \o u /\ y = s \o b
  OBVIOUS
<1>2. PICK k, m, n : k = Len(s) /\ m = Len(t) /\ n = Len(u)
  OBVIOUS
<1>3. k \in Nat /\ m \in Nat /\ n \in Nat
  BY <1>2
<1>4. /\ a \in Seq(A) /\ Len(a) = k + m
      /\ \A i \in 1..k : a[i] = s[i]
      /\ \A i \in 1..m : a[k + i] = t[i]
  BY <1>1, <1>2, ConcatAt
<1>5. /\ b \in Seq(A) /\ Len(b) = m + n
      /\ \A i \in 1..m : b[i] = t[i]
      /\ \A i \in 1..n : b[m + i] = u[i]
  BY <1>1, <1>2, ConcatAt
<1>6. /\ x \in Seq(A) /\ Len(x) = (k + m) + n
      /\ \A i \in 1..(k + m) : x[i] = a[i]
      /\ \A i \in 1..n : x[(k + m) + i] = u[i]
  <2>1. /\ a \o u \in Seq(A) /\ Len(a \o u) = Len(a) + Len(u)
        /\ \A i \in 1..Len(a) : (a \o u)[i] = a[i]
        /\ \A i \in 1..Len(u) : (a \o u)[Len(a) + i] = u[i]
    <3>1. a \in Seq(A) /\ u \in Seq(A)
      BY <1>4
    <3> HIDE <1>1
    <3> QED
      BY <3>1, ConcatAt
  <2> QED
    BY <1>1, <1>2, <1>4, <2>1
<1>7. /\ y \in Seq(A) /\ Len(y) = k + (m + n)
      /\ \A i \in 1..k : y[i] = s[i]
      /\ \A i \in 1..(m + n) : y[k + i] = b[i]
  <2>1. /\ s \o b \in Seq(A) /\ Len(s \o b) = Len(s) + Len(b)
        /\ \A i \in 1..Len(s) : (s \o b)[i] = s[i]
        /\ \A i \in 1..Len(b) : (s \o b)[Len(s) + i] = b[i]
    BY <1>5, ConcatAt
  <2> QED
    BY <1>1, <1>2, <1>5, <2>1
<1>8. ASSUME NEW i \in 1..(k + m + n) PROVE x[i] = y[i]
  <2>1. CASE i <= k
    BY <1>3, <1>4, <1>6, <1>7, <2>1
  <2>2. CASE i > k /\ i <= k + m
    <3>1. PICK j \in 1..m : i = k + j
      <4>1. i - k \in 1..m /\ i = k + (i - k)
        BY <1>3, <2>2
      <4> QED
        BY <4>1
    <3>2. j \in 1..(m + n) /\ i \in 1..(k + m)
      BY <1>3, <2>2
    <3>3. x[i] = t[j]
      BY <1>4, <1>6, <3>1, <3>2
    <3>4. y[i] = t[j]
      BY <1>5, <1>7, <3>1, <3>2
    <3> QED
      BY <3>3, <3>4
  <2>3. CASE i > k + m
    <3>1. PICK j \in 1..n : i = (k + m) + j
      <4>1. i - (k + m) \in 1..n /\ i = (k + m) + (i - (k + m))
        BY <1>3, <2>3
      <4> QED
        BY <4>1
    <3>2. x[i] = u[j]
      BY <1>6, <3>1
    <3>3. m + j \in 1..(m + n) /\ i = k + (m + j)
      BY <1>3, <3>1
    <3>4. y[i] = b[m + j]
      BY <1>7, <3>3
    <3>5. b[m + j] = u[j]
      BY <1>5
    <3> QED
      BY <3>2, <3>4, <3>5
  <2> QED
    BY <1>3, <2>1, <2>2, <2>3
<1>9. Len(x) = k + m + n /\ Len(y) = k + m + n
  BY <1>3, <1>6, <1>7
<1>10. x = y
  BY <1>6, <1>7, <1>8, <1>9
<1> QED
  BY <1>1, <1>10

LEMMA ConcatNone ==
  ASSUME NEW A, NEW s \in Seq(A)
  PROVE  s \o <<>> = s /\ <<>> \o s = s
  OBVIOUS
=============================================================================
