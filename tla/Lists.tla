-------------------------------- MODULE Lists --------------------------------
(***************************************************************************)
(* Lists without some of their elements, lists of numbers added up and     *)
(* lists of lists joined, in a form a proof can use: what is kept is named *)
(* by a set, and what is computed along a list is a function of the        *)
(* position.                                                               *)
(***************************************************************************)
EXTENDS Naturals, Sequences

\* The elements of s that are in S, in their order.
Only(s, S) ==
  LET only[n \in 0..Len(s)] ==
        IF n = 0 THEN <<>>
        ELSE IF s[n] \in S THEN Append(only[n - 1], s[n]) ELSE only[n - 1]
  IN only[Len(s)]

\* The elements of s that are not in S.
Removed(s, S) == Only(s, {s[i] : i \in 1..Len(s)} \ S)

\* The sum of a list of numbers.
Total(v) ==
  LET sum[n \in 0..Len(v)] == IF n = 0 THEN 0 ELSE sum[n - 1] + v[n]
  IN sum[Len(v)]

\* The first n lists of v, joined.
Chained(v, n) ==
  LET chained[m \in 0..n] == IF m = 0 THEN <<>> ELSE chained[m - 1] \o v[m]
  IN chained[n]
=============================================================================
