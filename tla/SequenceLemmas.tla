---------------------------- MODULE SequenceLemmas ----------------------------
(***************************************************************************)
(* What the proofs about the components need to know of numbers and of the *)
(* operators on sequences the models are built from: Min and Max, Front    *)
(* and Last, RemoveAt, and Keep; of sequences in which nothing occurs      *)
(* twice; and of the sequences that list a finite set.                     *)
(*                                                                         *)
(* Induction is stated with sets: a set that holds 0 and with each i its   *)
(* successor holds all of 0..n (Climb), which follows from the             *)
(* well-foundedness of the natural numbers.                                *)
(***************************************************************************)
EXTENDS Keeping, SequencesExt, FiniteSetsExt, SequenceTheorems, FiniteSetTheorems,
        WellFoundedInduction, TLAPS

-----------------------------------------------------------------------------
\* A set of natural numbers has a least element.
LEMMA LeastNumber ==
  ASSUME NEW T, T \subseteq Nat, T # {}
  PROVE  \E n \in T : \A m \in T : n <= m
<1> DEFINE R == OpToRel(<, Nat)
<1>1. IsWellFoundedOn(R, Nat)
  BY NatLessThanWellFounded
<1>2. \A x, y \in Nat : y < x => <<y, x>> \in R
  BY DEF OpToRel
<1> HIDE DEF R
<1>3. PICK n \in T : \A m \in T : ~ (<<m, n>> \in R)
  BY <1>1, WFMin
<1>4. \A m \in T : m \in Nat /\ n \in Nat /\ ~(m < n)
  BY <1>2, <1>3
<1> QED
  BY <1>3, <1>4

\* Induction up to n.
LEMMA Climb ==
  ASSUME NEW n \in Nat, NEW P, 0 \in P,
         \A i \in 0..(n - 1) : i \in P => i + 1 \in P
  PROVE  0..n \subseteq P
<1> SUFFICES ASSUME NEW k \in 0..n, k \notin P
             PROVE  FALSE
  OBVIOUS
<1> DEFINE T == {i \in 0..n : i \notin P}
<1>1. T \subseteq Nat /\ T # {}
  OBVIOUS
<1>2. PICK i \in T : \A j \in T : i <= j
  BY <1>1, LeastNumber
<1>3. i # 0 /\ i - 1 \in 0..(n - 1) /\ i - 1 \notin T
  BY <1>2
<1> QED
  BY <1>2, <1>3

\* The first of the places where something is found.
LEMMA MinOfSet ==
  ASSUME NEW T, T \subseteq Nat, T # {}
  PROVE  Min(T) \in T /\ \A m \in T : Min(T) <= m
BY LeastNumber DEF Min

\* The last of them.
LEMMA MaxOfSet ==
  ASSUME NEW n \in Nat, NEW T, T \subseteq 0..n, T # {}
  PROVE  Max(T) \in T /\ \A m \in T : Max(T) >= m
<1> DEFINE D == {k \in 0..n : n - k \in T}
<1>1. D \subseteq Nat /\ D # {}
  <2>1. PICK m \in T : TRUE
    OBVIOUS
  <2>2. n - m \in D
    BY <2>1
  <2> QED
    BY <2>2
<1>2. PICK k \in D : \A j \in D : k <= j
  BY <1>1, LeastNumber
<1>3. \A m \in T : n - m \in D
  OBVIOUS
<1>4. n - k \in T /\ \A m \in T : n - k >= m
  BY <1>2, <1>3
<1> QED
  BY <1>4 DEF Max
-----------------------------------------------------------------------------
\* The elements before the one removed stay in place, those behind it move up.
LEMMA RemoveAtFacts ==
  ASSUME NEW S, NEW s \in Seq(S), NEW i \in 1..Len(s)
  PROVE  /\ RemoveAt(s, i) \in Seq(S)
         /\ Len(RemoveAt(s, i)) = Len(s) - 1
         /\ \A j \in 1..(Len(s) - 1) : RemoveAt(s, i)[j] = IF j < i THEN s[j] ELSE s[j + 1]
<1> DEFINE a == SubSeq(s, 1, i - 1)
           b == SubSeq(s, i + 1, Len(s))
<1>1. Len(s) \in Nat /\ i \in Int /\ i + 1 \in Int /\ i - 1 \in Int /\ 1 \in Int /\ Len(s) \in Int
  BY LenProperties
<1>2. \A j \in 1..Len(s) : s[j] \in S
  BY ElementOfSeq
<1>3. \A j \in 1..(i - 1) : s[j] \in S
  BY <1>1, <1>2
<1>4. \A j \in (i + 1)..Len(s) : s[j] \in S
  BY <1>1, <1>2
<1>5. /\ a \in Seq(S) /\ Len(a) = i - 1
      /\ \A j \in 1..(i - 1) : a[j] = s[j]
  <2>1. /\ a \in Seq(S)
        /\ Len(a) = IF 1 <= i - 1 THEN (i - 1) - 1 + 1 ELSE 0
        /\ \A j \in 1..((i - 1) - 1 + 1) : a[j] = s[1 + j - 1]
    BY <1>1, <1>3, SubSeqProperties
  <2> HIDE DEF a
  <2> QED
    BY <1>1, <2>1
<1>6. /\ b \in Seq(S) /\ Len(b) = Len(s) - i
      /\ \A j \in 1..(Len(s) - i) : b[j] = s[i + j]
  <2>1. /\ b \in Seq(S)
        /\ Len(b) = IF i + 1 <= Len(s) THEN Len(s) - (i + 1) + 1 ELSE 0
        /\ \A j \in 1..(Len(s) - (i + 1) + 1) : b[j] = s[i + 1 + j - 1]
    BY <1>1, <1>4, SubSeqProperties
  <2> HIDE DEF b
  <2>2. Len(b) = Len(s) - i
    BY <1>1, <2>1
  <2>3. ASSUME NEW j \in 1..(Len(s) - i)
        PROVE  b[j] = s[i + j]
    <3>1. j \in 1..(Len(s) - (i + 1) + 1) /\ i + 1 + j - 1 = i + j
      BY <1>1
    <3> QED
      BY <2>1, <3>1
  <2> QED
    BY <2>1, <2>2, <2>3
<1>7. RemoveAt(s, i) = a \o b
  BY DEF RemoveAt
<1> HIDE DEF a, b
<1>8. /\ a \o b \in Seq(S) /\ Len(a \o b) = Len(a) + Len(b)
      /\ \A j \in 1..(Len(a) + Len(b)) :
           (a \o b)[j] = IF j <= Len(a) THEN a[j] ELSE b[j - Len(a)]
  BY <1>5, <1>6, ConcatProperties
<1>9. Len(a) + Len(b) = Len(s) - 1
  BY <1>1, <1>5, <1>6
<1>10. ASSUME NEW j \in 1..(Len(s) - 1)
       PROVE  (a \o b)[j] = IF j < i THEN s[j] ELSE s[j + 1]
  <2>1. CASE j < i
    <3>1. j \in 1..(Len(a) + Len(b)) /\ j <= Len(a) /\ j \in 1..(i - 1)
      BY <1>1, <1>5, <1>9, <2>1
    <3> QED
      BY <1>5, <1>8, <2>1, <3>1
  <2>2. CASE ~(j < i)
    <3>1. /\ j \in 1..(Len(a) + Len(b)) /\ ~(j <= Len(a))
          /\ j - Len(a) \in 1..(Len(s) - i) /\ i + (j - Len(a)) = j + 1
      BY <1>1, <1>5, <1>9, <2>2
    <3> QED
      BY <1>6, <1>8, <2>2, <3>1
  <2> QED
    BY <2>1, <2>2
<1> QED
  BY <1>7, <1>8, <1>9, <1>10

\* A sequence that is not empty is its front and its last element.
LEMMA FrontLastFacts ==
  ASSUME NEW S, NEW s \in Seq(S), s # <<>>
  PROVE  /\ Front(s) \in Seq(S) /\ Last(s) \in S
         /\ Len(s) \in Nat \ {0} /\ Len(Front(s)) = Len(s) - 1
         /\ \A j \in 1..(Len(s) - 1) : Front(s)[j] = s[j]
         /\ Last(s) = s[Len(s)]
<1>1. Len(s) \in Nat \ {0} /\ 1 \in Int /\ Len(s) - 1 \in Int
  BY EmptySeq, LenProperties
<1>2. \A j \in 1..Len(s) : s[j] \in S
  BY ElementOfSeq
<1>3. \A j \in 1..(Len(s) - 1) : s[j] \in S
  BY <1>1, <1>2
<1>4. /\ SubSeq(s, 1, Len(s) - 1) \in Seq(S)
      /\ Len(SubSeq(s, 1, Len(s) - 1)) =
           IF 1 <= Len(s) - 1 THEN (Len(s) - 1) - 1 + 1 ELSE 0
      /\ \A j \in 1..((Len(s) - 1) - 1 + 1) : SubSeq(s, 1, Len(s) - 1)[j] = s[1 + j - 1]
  BY <1>1, <1>3, SubSeqProperties
<1>5. Front(s) = SubSeq(s, 1, Len(s) - 1) /\ Last(s) = s[Len(s)]
  BY DEF Front, Last
<1>6. Last(s) \in S
  BY <1>1, <1>2, <1>5
<1>7. ASSUME NEW j \in 1..(Len(s) - 1)
      PROVE  Front(s)[j] = s[j]
  <2>1. j \in 1..((Len(s) - 1) - 1 + 1) /\ 1 + j - 1 = j
    BY <1>1
  <2> QED
    BY <1>4, <1>5, <2>1
<1>8. Len(Front(s)) = Len(s) - 1 /\ Front(s) \in Seq(S)
  <2>1. \A n \in Nat \ {0} : (IF 1 <= n - 1 THEN (n - 1) - 1 + 1 ELSE 0) = n - 1
    OBVIOUS
  <2> QED
    BY <1>1, <1>4, <1>5, <2>1
<1> QED
  BY <1>1, <1>5, <1>6, <1>7, <1>8

LEMMA ToSetAppend ==
  ASSUME NEW S, NEW s \in Seq(S), NEW x \in S
  PROVE  ToSet(Append(s, x)) = ToSet(s) \cup {x}
<1>1. /\ Len(Append(s, x)) = Len(s) + 1 /\ Append(s, x) \in Seq(S)
      /\ \A i \in 1..Len(s) : Append(s, x)[i] = s[i]
      /\ Append(s, x)[Len(s) + 1] = x
  BY AppendProperties
<1>2. DOMAIN s = 1..Len(s) /\ DOMAIN Append(s, x) = 1..(Len(s) + 1) /\ Len(s) \in Nat
  BY <1>1, LenProperties
<1> QED
  BY <1>1, <1>2 DEF ToSet
-----------------------------------------------------------------------------
\* f is what Keep computes for the first n elements.
Upto(s, S, n, f) ==
  f = [i \in 0..n |->
         IF i = 0 THEN <<>>
         ELSE IF s[i] \in S THEN Append(f[i - 1], s[i]) ELSE f[i - 1]]

LEMMA UptoExists ==
  ASSUME NEW T, NEW s \in Seq(T), NEW S
  PROVE  \E f : Upto(s, S, Len(s), f)
<1> DEFINE P == {n \in 0..Len(s) : \E f : Upto(s, S, n, f)}
<1>0. Len(s) \in Nat
  BY LenProperties
<1>1. 0 \in P
  <2>1. Upto(s, S, 0, [i \in 0..0 |-> <<>>])
    BY DEF Upto
  <2> QED
    BY <1>0, <2>1
<1>2. ASSUME NEW n \in 0..(Len(s) - 1), n \in P
      PROVE  n + 1 \in P
  <2>1. PICK f : Upto(s, S, n, f)
    BY <1>2
  <2>a. n \in Nat /\ n + 1 \in 0..Len(s)
    BY <1>0
  <2>b. f = [i \in 0..n |->
               IF i = 0 THEN <<>>
               ELSE IF s[i] \in S THEN Append(f[i - 1], s[i]) ELSE f[i - 1]]
    BY <2>1 DEF Upto
  <2> DEFINE new == IF s[n + 1] \in S THEN Append(f[n], s[n + 1]) ELSE f[n]
             g == [i \in 0..(n + 1) |-> IF i = n + 1 THEN new ELSE f[i]]
  <2>c. \A i \in 0..n : i # n + 1 /\ i \in 0..(n + 1) /\ n # n + 1 /\ n + 1 - 1 = n
    BY <2>a
  <2>d. \A i \in 0..n : g[i] = f[i]
    BY <2>c
  <2>e. n + 1 \in 0..(n + 1) /\ n + 1 # 0 /\ n \in 0..n
    BY <2>a
  <2>2. ASSUME NEW i \in 0..(n + 1)
        PROVE  g[i] = IF i = 0 THEN <<>>
                      ELSE IF s[i] \in S THEN Append(g[i - 1], s[i]) ELSE g[i - 1]
    <3>1. CASE i = n + 1
      <4>1. g[i] = new /\ g[n] = f[n] /\ i - 1 = n /\ i # 0
        BY <2>d, <2>e, <2>a, <3>1
      <4> QED
        BY <3>1, <4>1
    <3>2. CASE i # n + 1 /\ i # 0
      <4>1. i \in 0..n /\ i - 1 \in 0..n
        BY <2>a, <3>2
      <4>2. g[i] = f[i] /\ g[i - 1] = f[i - 1]
        BY <2>d, <4>1
      <4>3. f[i] = IF i = 0 THEN <<>>
                   ELSE IF s[i] \in S THEN Append(f[i - 1], s[i]) ELSE f[i - 1]
        BY <2>b, <4>1
      <4> QED
        BY <4>2, <4>3
    <3>3. CASE i = 0
      <4>1. i \in 0..n
        BY <2>a, <3>3
      <4> QED
        BY <2>b, <2>d, <3>3, <4>1
    <3> QED
      BY <3>1, <3>2, <3>3, <2>e
  <2>3. Upto(s, S, n + 1, g)
    <3>1. g = [i \in 0..(n + 1) |-> g[i]]
      OBVIOUS
    <3> HIDE DEF g
    <3> QED
      BY <2>2, <3>1 DEF Upto
  <2> QED
    BY <2>a, <2>3
<1>3. 0..Len(s) \subseteq P
  BY <1>0, <1>1, <1>2, Climb
<1>4. Len(s) \in 0..Len(s)
  BY <1>0
<1> QED
  BY <1>3, <1>4

LEMMA KeepIsUpto ==
  ASSUME NEW T, NEW s \in Seq(T), NEW S
  PROVE  \E f : Upto(s, S, Len(s), f) /\ Keep(s, S) = f[Len(s)]
<1>1. Keep(s, S) = (CHOOSE f : Upto(s, S, Len(s), f))[Len(s)]
  BY Zenon DEF Keep, Upto
<1>2. \E f : Upto(s, S, Len(s), f)
  BY UptoExists
<1> QED
  BY <1>1, <1>2

\* r holds the elements of the first n of s that are in S, in their order: g says
\* where in s each of them is.
Picks(s, S, n, r, g) ==
  /\ g \in [1..Len(r) -> {i \in 1..n : s[i] \in S}]
  /\ \A k, l \in 1..Len(r) : k < l => g[k] < g[l]
  /\ \A i \in 1..n : s[i] \in S => \E k \in 1..Len(r) : g[k] = i
  /\ \A k \in 1..Len(r) : r[k] = s[g[k]]

\* Keep(s, S) is the subsequence of the elements of s that are in S.
LEMMA KeepFacts ==
  ASSUME NEW T, NEW s \in Seq(T), NEW S
  PROVE  Keep(s, S) \in Seq(T) /\ \E g : Picks(s, S, Len(s), Keep(s, S), g)
<1>0. Len(s) \in Nat
  BY LenProperties
<1>a. PICK f : Upto(s, S, Len(s), f) /\ Keep(s, S) = f[Len(s)]
  BY KeepIsUpto
<1>b. \A i \in 0..Len(s) : f[i] = IF i = 0 THEN <<>>
                                  ELSE IF s[i] \in S THEN Append(f[i - 1], s[i]) ELSE f[i - 1]
  BY <1>a DEF Upto
<1> DEFINE P == {n \in 0..Len(s) : f[n] \in Seq(T) /\ \E g : Picks(s, S, n, f[n], g)}
<1>1. 0 \in P
  <2>1. 0 \in 0..Len(s) /\ f[0] = <<>> /\ Len(<<>>) = 0 /\ <<>> \in Seq(T)
    BY <1>0, <1>b, EmptySeq
  <2>2. 1..0 = {}
    OBVIOUS
  <2>3. Picks(s, S, 0, <<>>, [k \in 1..0 |-> k])
    BY <2>1, <2>2 DEF Picks
  <2> QED
    BY <2>1, <2>3
<1>2. ASSUME NEW n \in 0..(Len(s) - 1), n \in P
      PROVE  n + 1 \in P
  <2>a. n \in Nat /\ n + 1 \in 0..Len(s) /\ n + 1 # 0 /\ n + 1 - 1 = n /\ n + 1 \in 1..Len(s)
    BY <1>0
  <2>b. f[n + 1] = IF s[n + 1] \in S THEN Append(f[n], s[n + 1]) ELSE f[n]
    BY <1>b, <2>a
  <2>c. f[n] \in Seq(T)
    BY <1>2
  <2>d. PICK g : Picks(s, S, n, f[n], g)
    BY <1>2
  <2> DEFINE r == f[n]
             m == Len(r)
  <2>e. m \in Nat
    BY <2>c, LenProperties
  <2>f. /\ g \in [1..m -> {i \in 1..n : s[i] \in S}]
        /\ \A k, l \in 1..m : k < l => g[k] < g[l]
        /\ \A i \in 1..n : s[i] \in S => \E k \in 1..m : g[k] = i
        /\ \A k \in 1..m : r[k] = s[g[k]]
    BY <2>d DEF Picks
  <2>1. CASE s[n + 1] \notin S
    <3>1. f[n + 1] = r
      BY <2>b, <2>1
    <3> HIDE DEF r
    <3>2. Picks(s, S, n + 1, r, g)
      <4>1. \A i \in 1..(n + 1) : s[i] \in S => i \in 1..n
        BY <2>a, <2>1
      <4>2. {i \in 1..(n + 1) : s[i] \in S} = {i \in 1..n : s[i] \in S}
        BY <2>a, <4>1
      <4> QED
        BY <2>f, <4>1, <4>2 DEF Picks
    <3> QED
      BY <2>a, <2>c, <3>1, <3>2 DEF r
  <2>2. CASE s[n + 1] \in S
    <3> DEFINE q == Append(r, s[n + 1])
               h == [k \in 1..(m + 1) |-> IF k = m + 1 THEN n + 1 ELSE g[k]]
    <3>1. f[n + 1] = q
      BY <2>b, <2>2
    <3>2. s[n + 1] \in T
      BY <2>a, ElementOfSeq
    <3>3. /\ q \in Seq(T) /\ Len(q) = m + 1
          /\ \A k \in 1..m : q[k] = r[k]
          /\ q[m + 1] = s[n + 1]
      BY <2>c, <3>2, AppendProperties
    <3> HIDE DEF q, r
    <3>4. \A k \in 1..(m + 1) : k = m + 1 \/ k \in 1..m
      BY <2>e
    <3>5. \A k \in 1..m : k # m + 1 /\ k \in 1..(m + 1) /\ h[k] = g[k] /\ g[k] \in 1..n /\ s[g[k]] \in S
      BY <2>e, <2>f
    <3>6. m + 1 \in 1..(m + 1) /\ h[m + 1] = n + 1 /\ n + 1 \in 1..(n + 1)
      BY <2>a, <2>e
    <3>7. \A k \in 1..(m + 1) : h[k] \in {i \in 1..(n + 1) : s[i] \in S}
      <4> TAKE k \in 1..(m + 1)
      <4>1. CASE k = m + 1
        BY <2>2, <3>6, <4>1
      <4>2. CASE k \in 1..m
        <5>1. h[k] = g[k] /\ g[k] \in 1..n /\ s[g[k]] \in S
          BY <3>5, <4>2
        <5>2. g[k] \in 1..(n + 1)
          BY <2>a, <5>1
        <5> QED
          BY <5>1, <5>2
      <4> QED
        BY <3>4, <4>1, <4>2
    <3>8. \A k, l \in 1..(m + 1) : k < l => h[k] < h[l]
      <4> SUFFICES ASSUME NEW k \in 1..(m + 1), NEW l \in 1..(m + 1), k < l
                   PROVE  h[k] < h[l]
        OBVIOUS
      <4>1. k \in 1..m
        BY <2>e
      <4>2. CASE l = m + 1
        <5>1. h[k] \in 1..n /\ h[l] = n + 1
          BY <3>5, <3>6, <4>1, <4>2
        <5> QED
          BY <2>a, <5>1
      <4>3. CASE l \in 1..m
        <5>1. h[k] = g[k] /\ h[l] = g[l] /\ g[k] < g[l]
          BY <2>f, <3>5, <4>1, <4>3
        <5> QED
          BY <5>1
      <4> QED
        BY <3>4, <4>2, <4>3
    <3>9. \A i \in 1..(n + 1) : s[i] \in S => \E k \in 1..(m + 1) : h[k] = i
      <4> SUFFICES ASSUME NEW i \in 1..(n + 1), s[i] \in S
                   PROVE  \E k \in 1..(m + 1) : h[k] = i
        OBVIOUS
      <4>1. CASE i = n + 1
        BY <3>6, <4>1
      <4>2. CASE i # n + 1
        <5>1. i \in 1..n
          BY <2>a, <4>2
        <5>2. PICK k \in 1..m : g[k] = i
          BY <2>f, <5>1
        <5> QED
          BY <3>5, <5>2
      <4> QED
        BY <4>1, <4>2
    <3>10. \A k \in 1..(m + 1) : q[k] = s[h[k]]
      BY <2>f, <3>3, <3>4, <3>5, <3>6
    <3>11. h \in [1..(m + 1) -> {i \in 1..(n + 1) : s[i] \in S}]
      BY <3>7
    <3> HIDE DEF h
    <3>12. Picks(s, S, n + 1, q, h)
      BY <3>3, <3>8, <3>9, <3>10, <3>11 DEF Picks
    <3> QED
      BY <2>a, <3>1, <3>3, <3>12
  <2> QED
    BY <2>1, <2>2
<1>3. 0..Len(s) \subseteq P
  BY <1>0, <1>1, <1>2, Climb
<1>4. Len(s) \in 0..Len(s)
  BY <1>0
<1> QED
  BY <1>a, <1>3, <1>4

\* Its elements are those of s that are in S.
LEMMA KeepSet ==
  ASSUME NEW T, NEW s \in Seq(T), NEW S
  PROVE  /\ Keep(s, S) \in Seq(T)
         /\ ToSet(Keep(s, S)) = ToSet(s) \cap S
<1> DEFINE r == Keep(s, S)
<1>0. Keep(s, S) \in Seq(T) /\ \E g : Picks(s, S, Len(s), r, g)
  BY KeepFacts
<1> HIDE DEF r
<1>1. PICK g : Picks(s, S, Len(s), r, g)
  BY <1>0
<1>2. /\ g \in [1..Len(r) -> {i \in 1..Len(s) : s[i] \in S}]
      /\ \A i \in 1..Len(s) : s[i] \in S => \E k \in 1..Len(r) : g[k] = i
      /\ \A k \in 1..Len(r) : r[k] = s[g[k]]
  BY <1>1 DEF Picks
<1>3. DOMAIN r = 1..Len(r) /\ DOMAIN s = 1..Len(s)
  BY <1>0, LenProperties DEF r
<1>4. ToSet(r) = {r[k] : k \in 1..Len(r)} /\ ToSet(s) = {s[i] : i \in 1..Len(s)}
  BY <1>3 DEF ToSet
<1>5. \A k \in 1..Len(r) : r[k] \in {s[i] : i \in 1..Len(s)} /\ r[k] \in S
  BY <1>2
<1>6. \A i \in 1..Len(s) : s[i] \in S => \E k \in 1..Len(r) : r[k] = s[i]
  BY <1>2
<1>7. {r[k] : k \in 1..Len(r)} = {s[i] : i \in 1..Len(s)} \cap S
  BY <1>5, <1>6
<1> QED
  BY <1>0, <1>4, <1>7 DEF r

\* What occurs once in s occurs once in what is kept of it.
LEMMA KeepOnce ==
  ASSUME NEW T, NEW s \in Seq(T), NEW S, IsInjective(s)
  PROVE  IsInjective(Keep(s, S))
<1> DEFINE r == Keep(s, S)
<1>0. r \in Seq(T) /\ \E g : Picks(s, S, Len(s), r, g)
  BY KeepFacts
<1> HIDE DEF r
<1>1. PICK g : Picks(s, S, Len(s), r, g)
  BY <1>0
<1>2. /\ g \in [1..Len(r) -> {i \in 1..Len(s) : s[i] \in S}]
      /\ \A k, l \in 1..Len(r) : k < l => g[k] < g[l]
      /\ \A k \in 1..Len(r) : r[k] = s[g[k]]
  BY <1>1 DEF Picks
<1>3. /\ Len(s) \in Nat /\ Len(r) \in Nat /\ DOMAIN r = 1..Len(r)
      /\ \A i, j \in 1..Len(s) : s[i] = s[j] => i = j
  BY <1>0, LenProperties DEF IsInjective
<1>4. ASSUME NEW i \in 1..Len(r), NEW j \in 1..Len(r), r[i] = r[j]
      PROVE  i = j
  <2>1. g[i] \in 1..Len(s) /\ g[j] \in 1..Len(s) /\ s[g[i]] = s[g[j]]
    BY <1>2, <1>4
  <2>2. g[i] = g[j]
    BY <1>3, <2>1
  <2>3. ~(i < j) /\ ~(j < i)
    BY <1>2, <1>3, <2>1, <2>2
  <2> QED
    BY <1>3, <2>3
<1> QED
  BY <1>3, <1>4 DEF r, IsInjective

\* There are n numbers from 1 to n.
LEMMA IntervalCardinality ==
  ASSUME NEW n \in Nat
  PROVE  IsFiniteSet(1..n) /\ Cardinality(1..n) = n
<1>1. IsFiniteSet(1..n) /\ Cardinality(1..n) = IF 1 > n THEN 0 ELSE n - 1 + 1
  BY FS_Interval
<1>2. \A k \in Nat : (IF 1 > k THEN 0 ELSE k - 1 + 1) = k
  OBVIOUS
<1> QED
  BY <1>1, <1>2

\* Nothing is kept that was not there.
LEMMA KeepShorter ==
  ASSUME NEW T, NEW s \in Seq(T), NEW S
  PROVE  Len(Keep(s, S)) <= Len(s) /\ Len(Keep(s, S)) \in Nat
<1> DEFINE r == Keep(s, S)
<1>0. r \in Seq(T) /\ \E g : Picks(s, S, Len(s), r, g)
  BY KeepFacts
<1> HIDE DEF r
<1>1. PICK g : Picks(s, S, Len(s), r, g)
  BY <1>0
<1>2. /\ g \in [1..Len(r) -> {i \in 1..Len(s) : s[i] \in S}]
      /\ \A k, l \in 1..Len(r) : k < l => g[k] < g[l]
  BY <1>1 DEF Picks
<1>3. Len(s) \in Nat /\ Len(r) \in Nat
  BY <1>0, LenProperties
<1> DEFINE P == {n \in 0..Len(r) : n = 0 \/ n <= g[n]}
<1>4. 0 \in P
  BY <1>3
<1>5. ASSUME NEW n \in 0..(Len(r) - 1), n \in P
      PROVE  n + 1 \in P
  <2>1. n + 1 \in 1..Len(r) /\ g[n + 1] \in 1..Len(s) /\ n \in Nat
    BY <1>2, <1>3
  <2>2. n # 0 => n \in 1..Len(r) /\ n <= g[n] /\ g[n] < g[n + 1] /\ g[n] \in 1..Len(s)
    BY <1>2, <1>3, <1>5, <2>1
  <2>3. n + 1 <= g[n + 1]
    BY <1>3, <2>1, <2>2
  <2> QED
    BY <1>3, <2>1, <2>3
<1>6. 0..Len(r) \subseteq P
  BY <1>3, <1>4, <1>5, Climb
<1>7. Len(r) = 0 \/ (Len(r) <= g[Len(r)] /\ g[Len(r)] \in 1..Len(s))
  BY <1>2, <1>3, <1>6
<1> QED
  BY <1>3, <1>7 DEF r
-----------------------------------------------------------------------------
\* A sequence in which nothing occurs twice is not longer than its set.
LEMMA OnceFits ==
  ASSUME NEW T, IsFiniteSet(T), NEW s \in Seq(T), IsInjective(s)
  PROVE  Len(s) <= Cardinality(T) /\ Cardinality(T) \in Nat
<1>1. Len(s) \in Nat /\ s \in [1..Len(s) -> T]
  BY LenProperties
<1>2. s \in Injection(1..Len(s), T)
  BY <1>1 DEF Injection
<1>3. Cardinality(1..Len(s)) <= Cardinality(T)
  BY <1>2, FS_Injection
<1>4. Cardinality(1..Len(s)) = Len(s)
  BY <1>1, IntervalCardinality
<1> QED
  BY <1>3, <1>4, FS_CardinalityType

LEMMA OnceAppend ==
  ASSUME NEW T, NEW s \in Seq(T), NEW x \in T, IsInjective(s), x \notin ToSet(s)
  PROVE  IsInjective(Append(s, x))
<1> DEFINE q == Append(s, x)
<1>1. /\ Len(q) = Len(s) + 1 /\ q \in Seq(T)
      /\ \A i \in 1..Len(s) : q[i] = s[i]
      /\ q[Len(s) + 1] = x
  BY AppendProperties
<1> HIDE DEF q
<1>2. /\ DOMAIN q = 1..(Len(s) + 1) /\ Len(s) \in Nat
      /\ \A i \in 1..Len(s) : s[i] # x
      /\ \A i, j \in 1..Len(s) : s[i] = s[j] => i = j
  BY <1>1, LenProperties DEF ToSet, IsInjective
<1>3. \A i, j \in 1..(Len(s) + 1) : q[i] = q[j] => i = j
  <2>1. \A i \in 1..(Len(s) + 1) : i = Len(s) + 1 \/ i \in 1..Len(s)
    BY <1>2
  <2> QED
    BY <1>1, <1>2, <2>1
<1>4. IsInjective(q)
  BY <1>2, <1>3 DEF IsInjective
<1> QED
  BY <1>4 DEF q

\* The first element of such a sequence is not in its tail.
LEMMA OnceTail ==
  ASSUME NEW T, NEW s \in Seq(T), s # <<>>, IsInjective(s)
  PROVE  /\ Head(s) \in T /\ Head(s) \in ToSet(s)
         /\ Tail(s) \in Seq(T) /\ IsInjective(Tail(s))
         /\ ToSet(Tail(s)) = ToSet(s) \ {Head(s)}
         /\ Len(Tail(s)) = Len(s) - 1 /\ Len(s) \in Nat \ {0}
<1> DEFINE q == Tail(s)
<1>1. /\ Head(s) \in T /\ q \in Seq(T) /\ Len(q) = Len(s) - 1
      /\ \A i \in 1..Len(q) : q[i] = s[i + 1]
  BY HeadTailProperties
<1>2. Head(s) = s[1]
  OBVIOUS
<1> HIDE DEF q
<1>3. /\ DOMAIN q = 1..(Len(s) - 1) /\ DOMAIN s = 1..Len(s) /\ Len(s) \in Nat \ {0}
      /\ \A i, j \in 1..Len(s) : s[i] = s[j] => i = j
  <2>1. /\ DOMAIN q = 1..Len(q) /\ DOMAIN s = 1..Len(s) /\ Len(s) \in Nat
    BY <1>1, LenProperties
  <2>2. Len(s) # 0
    BY EmptySeq
  <2>3. \A i, j \in 1..Len(s) : s[i] = s[j] => i = j
    BY <2>1 DEF IsInjective
  <2> QED
    BY <1>1, <2>1, <2>2, <2>3
<1>4. \A i \in 1..(Len(s) - 1) : q[i] = s[i + 1] /\ i + 1 \in 1..Len(s) /\ i + 1 # 1
  BY <1>1, <1>3
<1>5. \A i \in 1..Len(s) : i # 1 => i - 1 \in 1..(Len(s) - 1) /\ q[i - 1] = s[i]
  <2> SUFFICES ASSUME NEW i \in 1..Len(s), i # 1
               PROVE  i - 1 \in 1..(Len(s) - 1) /\ q[i - 1] = s[i]
    OBVIOUS
  <2>1. i - 1 \in 1..(Len(s) - 1) /\ (i - 1) + 1 = i
    BY <1>3
  <2> QED
    BY <1>4, <2>1
<1>6. IsInjective(q)
  <2>1. ASSUME NEW i \in 1..(Len(s) - 1), NEW j \in 1..(Len(s) - 1), q[i] = q[j]
        PROVE  i = j
    <3>1. i + 1 = j + 1
      BY <1>3, <1>4, <2>1
    <3> QED
      BY <1>3, <3>1
  <2> QED
    BY <1>3, <2>1 DEF IsInjective
<1>7. 1 \in 1..Len(s)
  BY <1>3
<1>8. ToSet(q) = {q[i] : i \in 1..(Len(s) - 1)} /\ ToSet(s) = {s[i] : i \in 1..Len(s)}
  BY <1>3 DEF ToSet
<1>9. \A i \in 1..(Len(s) - 1) : q[i] \in {s[k] : k \in 1..Len(s)} /\ q[i] # s[1]
  BY <1>3, <1>4, <1>7
<1>10. \A i \in 1..Len(s) : s[i] # s[1] => s[i] \in {q[k] : k \in 1..(Len(s) - 1)}
  BY <1>5
<1>11. ToSet(q) = ToSet(s) \ {s[1]}
  BY <1>8, <1>9, <1>10
<1>12. s[1] \in ToSet(s)
  BY <1>7, <1>8
<1> QED
  BY <1>1, <1>2, <1>3, <1>6, <1>11, <1>12 DEF q
\* An element taken out of such a sequence is gone.
LEMMA OnceRemoveAt ==
  ASSUME NEW T, NEW s \in Seq(T), IsInjective(s), NEW i \in 1..Len(s)
  PROVE  IsInjective(RemoveAt(s, i)) /\ ToSet(RemoveAt(s, i)) = ToSet(s) \ {s[i]}
<1> DEFINE r == RemoveAt(s, i)
<1>1. /\ r \in Seq(T) /\ Len(r) = Len(s) - 1 /\ Len(s) \in Nat
      /\ \A j \in 1..(Len(s) - 1) : r[j] = IF j < i THEN s[j] ELSE s[j + 1]
  BY RemoveAtFacts, LenProperties
<1> HIDE DEF r
<1>2. DOMAIN r = 1..(Len(s) - 1) /\ DOMAIN s = 1..Len(s)
  BY <1>1, LenProperties
<1>3. \A j, k \in 1..Len(s) : s[j] = s[k] => j = k
  BY <1>2 DEF IsInjective
<1>4. \A j \in 1..(Len(s) - 1) :
        \E k \in 1..Len(s) : r[j] = s[k] /\ k # i /\ k = IF j < i THEN j ELSE j + 1
  BY <1>1
<1>5. ASSUME NEW j \in 1..(Len(s) - 1), NEW k \in 1..(Len(s) - 1), r[j] = r[k]
      PROVE  j = k
  <2>1. PICK a \in 1..Len(s) : r[j] = s[a] /\ a # i /\ a = IF j < i THEN j ELSE j + 1
    BY <1>4
  <2>2. PICK b \in 1..Len(s) : r[k] = s[b] /\ b # i /\ b = IF k < i THEN k ELSE k + 1
    BY <1>4
  <2>3. a = b
    BY <1>3, <1>5, <2>1, <2>2
  <2> QED
    BY <1>1, <2>1, <2>2, <2>3
<1>6. \A k \in 1..Len(s) : k # i => \E j \in 1..(Len(s) - 1) : r[j] = s[k]
  <2> SUFFICES ASSUME NEW k \in 1..Len(s), k # i
               PROVE  \E j \in 1..(Len(s) - 1) : r[j] = s[k]
    OBVIOUS
  <2>1. CASE k < i
    <3>1. k \in 1..(Len(s) - 1)
      BY <1>1, <2>1
    <3> QED
      BY <1>1, <2>1, <3>1
  <2>2. CASE ~(k < i)
    <3>1. k - 1 \in 1..(Len(s) - 1) /\ ~(k - 1 < i) /\ (k - 1) + 1 = k
      BY <1>1, <2>2
    <3> QED
      BY <1>1, <3>1
  <2> QED
    BY <2>1, <2>2
<1>7. ToSet(r) = {r[j] : j \in 1..(Len(s) - 1)} /\ ToSet(s) = {s[k] : k \in 1..Len(s)}
  BY <1>2 DEF ToSet
<1>8. \A j \in 1..(Len(s) - 1) : r[j] \in {s[k] : k \in 1..Len(s)} /\ r[j] # s[i]
  BY <1>3, <1>4
<1>9. \A k \in 1..Len(s) : s[k] # s[i] => s[k] \in {r[j] : j \in 1..(Len(s) - 1)}
  BY <1>6
<1>10. ToSet(r) = ToSet(s) \ {s[i]}
  BY <1>7, <1>8, <1>9
<1>11. IsInjective(r)
  BY <1>2, <1>5 DEF IsInjective
<1> QED
  BY <1>10, <1>11 DEF r

\* Neither does anything occur twice in its beginning, nor in the rest.
LEMMA OncePrefix ==
  ASSUME NEW T, NEW s \in Seq(T), IsInjective(s), NEW i \in 1..Len(s)
  PROVE  /\ SubSeq(s, 1, i) \in Seq(T) /\ Len(SubSeq(s, 1, i)) = i
         /\ IsInjective(SubSeq(s, 1, i))
         /\ ToSet(SubSeq(s, 1, i)) = {s[j] : j \in 1..i}
         /\ {s[j] : j \in 1..i} = ToSet(s) \ {s[j] : j \in (i + 1)..Len(s)}
<1> DEFINE r == SubSeq(s, 1, i)
<1>1. Len(s) \in Nat /\ i \in Int /\ 1 \in Int /\ DOMAIN s = 1..Len(s)
      /\ \A j \in 1..i : j \in 1..Len(s) /\ s[j] \in T
  BY LenProperties, ElementOfSeq
<1>2. /\ r \in Seq(T) /\ Len(r) = IF 1 <= i THEN i - 1 + 1 ELSE 0
      /\ \A j \in 1..(i - 1 + 1) : r[j] = s[1 + j - 1]
  BY <1>1, SubSeqProperties
<1> HIDE DEF r
<1>3. Len(r) = i /\ \A j \in 1..i : r[j] = s[j]
  <2>1. i - 1 + 1 = i /\ 1 <= i /\ \A j \in 1..i : 1 + j - 1 = j
    BY <1>1
  <2> QED
    BY <1>2, <2>1
<1>4. DOMAIN r = 1..i
  BY <1>2, <1>3, LenProperties
<1>5. \A j, k \in 1..Len(s) : s[j] = s[k] => j = k
  BY <1>1 DEF IsInjective
<1>6. IsInjective(r)
  BY <1>1, <1>3, <1>4, <1>5 DEF IsInjective
<1>7. ToSet(r) = {s[j] : j \in 1..i}
  <2>1. ToSet(r) = {r[j] : j \in 1..i}
    BY <1>4 DEF ToSet
  <2> QED
    BY <1>3, <2>1
<1>8. \A j \in 1..Len(s) : j \in 1..i \/ j \in (i + 1)..Len(s)
  BY <1>1
<1>9. \A j \in 1..i : \A k \in (i + 1)..Len(s) : s[j] # s[k]
  <2> SUFFICES ASSUME NEW j \in 1..i, NEW k \in (i + 1)..Len(s)
               PROVE  s[j] # s[k]
    OBVIOUS
  <2>1. j \in 1..Len(s) /\ k \in 1..Len(s) /\ j # k
    BY <1>1
  <2> QED
    BY <1>5, <2>1
<1>10. ToSet(s) = {s[j] : j \in 1..Len(s)}
  BY <1>1 DEF ToSet
<1>11. {s[j] : j \in 1..i} = {s[j] : j \in 1..Len(s)} \ {s[j] : j \in (i + 1)..Len(s)}
  BY <1>1, <1>8, <1>9
<1> QED
  BY <1>2, <1>3, <1>6, <1>7, <1>10, <1>11 DEF r

\* A new element may come first.
LEMMA OncePrepend ==
  ASSUME NEW T, NEW s \in Seq(T), NEW x \in T, IsInjective(s), x \notin ToSet(s)
  PROVE  /\ <<x>> \o s \in Seq(T) /\ Len(<<x>> \o s) = Len(s) + 1
         /\ IsInjective(<<x>> \o s) /\ ToSet(<<x>> \o s) = ToSet(s) \cup {x}
<1> DEFINE q == <<x>> \o s
<1>1. <<x>> \in Seq(T) /\ Len(<<x>>) = 1 /\ <<x>>[1] = x /\ Len(s) \in Nat /\ DOMAIN s = 1..Len(s)
  BY LenProperties
<1>2. /\ q \in Seq(T) /\ Len(q) = 1 + Len(s)
      /\ \A j \in 1..(1 + Len(s)) : q[j] = IF j <= 1 THEN <<x>>[j] ELSE s[j - 1]
  BY <1>1, ConcatProperties
<1> HIDE DEF q
<1>3. DOMAIN q = 1..(Len(s) + 1) /\ q[1] = x
  BY <1>1, <1>2, LenProperties
<1>4. \A j \in 1..(Len(s) + 1) : j = 1 \/ (j - 1 \in 1..Len(s) /\ q[j] = s[j - 1])
  BY <1>1, <1>2
<1>5. \A j \in 1..Len(s) : s[j] # x /\ \E k \in 1..(Len(s) + 1) : q[k] = s[j]
  <2> TAKE j \in 1..Len(s)
  <2>1. j + 1 \in 1..(1 + Len(s)) /\ ~(j + 1 <= 1) /\ (j + 1) - 1 = j
    BY <1>1
  <2>2. q[j + 1] = s[j]
    BY <1>2, <2>1
  <2> QED
    BY <1>1, <2>1, <2>2 DEF ToSet
<1>6. \A j, k \in 1..Len(s) : s[j] = s[k] => j = k
  BY <1>1 DEF IsInjective
<1>7. ASSUME NEW j \in 1..(Len(s) + 1), NEW k \in 1..(Len(s) + 1), q[j] = q[k]
      PROVE  j = k
  <2>1. CASE j = 1 \/ k = 1
    BY <1>3, <1>4, <1>5, <1>7, <2>1
  <2>2. CASE j # 1 /\ k # 1
    <3>1. j - 1 = k - 1
      BY <1>4, <1>6, <1>7, <2>2
    <3> QED
      BY <1>1, <3>1
  <2> QED
    BY <2>1, <2>2
<1>8. ToSet(q) = {q[j] : j \in 1..(Len(s) + 1)} /\ ToSet(s) = {s[j] : j \in 1..Len(s)}
  BY <1>1, <1>3 DEF ToSet
<1>9. \A j \in 1..(Len(s) + 1) : q[j] \in {s[k] : k \in 1..Len(s)} \cup {x}
  BY <1>3, <1>4
<1>10. 1 \in 1..(Len(s) + 1)
  BY <1>1
<1>11. ToSet(q) = ToSet(s) \cup {x}
  BY <1>3, <1>5, <1>8, <1>9, <1>10
<1>12. IsInjective(q)
  BY <1>3, <1>7 DEF IsInjective
<1> QED
  BY <1>1, <1>2, <1>11, <1>12 DEF q
-----------------------------------------------------------------------------
\* How often x occurs in s.
Occurs(s, x) == Cardinality({i \in DOMAIN s : s[i] = x})

LEMMA OccursType ==
  ASSUME NEW T, NEW s \in Seq(T), NEW x
  PROVE  Occurs(s, x) \in Nat /\ IsFiniteSet({i \in DOMAIN s : s[i] = x})
<1>1. Len(s) \in Nat /\ DOMAIN s = 1..Len(s)
  BY LenProperties
<1>2. IsFiniteSet(1..Len(s))
  BY <1>1, FS_Interval
<1>3. {i \in DOMAIN s : s[i] = x} \in SUBSET (1..Len(s))
  BY <1>1
<1>4. IsFiniteSet({i \in DOMAIN s : s[i] = x})
  BY <1>2, <1>3, FS_Subset
<1> QED
  BY <1>4, FS_CardinalityType DEF Occurs

LEMMA OccursNone ==
  ASSUME NEW x
  PROVE  Occurs(<<>>, x) = 0
<1>1. {i \in DOMAIN <<>> : <<>>[i] = x} = {}
  OBVIOUS
<1> QED
  BY <1>1, FS_EmptySet DEF Occurs

LEMMA OccursNot ==
  ASSUME NEW T, NEW s \in Seq(T), NEW x, x \notin ToSet(s)
  PROVE  Occurs(s, x) = 0
<1>1. {i \in DOMAIN s : s[i] = x} = {}
  BY DEF ToSet
<1> QED
  BY <1>1, FS_EmptySet DEF Occurs

LEMMA OccursAppend ==
  ASSUME NEW T, NEW s \in Seq(T), NEW y \in T, NEW x
  PROVE  Occurs(Append(s, y), x) = Occurs(s, x) + (IF x = y THEN 1 ELSE 0)
<1> DEFINE q == Append(s, y)
           old == {i \in DOMAIN s : s[i] = x}
<1>1. /\ Len(q) = Len(s) + 1 /\ q \in Seq(T)
      /\ \A i \in 1..Len(s) : q[i] = s[i]
      /\ q[Len(s) + 1] = y
  BY AppendProperties
<1> HIDE DEF q
<1>2. /\ DOMAIN q = 1..(Len(s) + 1) /\ DOMAIN s = 1..Len(s) /\ Len(s) \in Nat
  BY <1>1, LenProperties
<1>3. IsFiniteSet(old) /\ Cardinality(old) \in Nat /\ Len(s) + 1 \notin old
  <2>1. IsFiniteSet(old)
    BY OccursType
  <2>2. old \subseteq 1..Len(s) /\ Len(s) + 1 \notin 1..Len(s)
    BY <1>2
  <2> HIDE DEF old
  <2> QED
    BY <2>1, <2>2, FS_CardinalityType
<1>4. \A i \in 1..(Len(s) + 1) : i \in 1..Len(s) \/ i = Len(s) + 1
  BY <1>2
<1>5. 1..Len(s) \subseteq 1..(Len(s) + 1) /\ Len(s) + 1 \in 1..(Len(s) + 1)
  BY <1>2
<1> DEFINE new == {i \in DOMAIN q : q[i] = x}
<1>6. new = IF x = y THEN old \cup {Len(s) + 1} ELSE old
  BY <1>1, <1>2, <1>4, <1>5
<1> HIDE DEF old, new
<1>7. Cardinality(old \cup {Len(s) + 1}) = Cardinality(old) + 1
  BY <1>3, FS_AddElement
<1>8. Cardinality(new) = Cardinality(old) + (IF x = y THEN 1 ELSE 0)
  <2>1. x = y => new = old \cup {Len(s) + 1}
    BY <1>6
  <2>2. x # y => new = old
    BY <1>6
  <2>3. Cardinality(new) = IF x = y THEN Cardinality(old) + 1 ELSE Cardinality(old)
    BY <1>7, <2>1, <2>2
  <2> QED
    BY <1>3, <2>3
<1> QED
  BY <1>8 DEF Occurs, q, old, new

\* What is kept occurs as often as before.
LEMMA OccursKeep ==
  ASSUME NEW T, NEW s \in Seq(T), NEW S, NEW x \in S
  PROVE  Occurs(Keep(s, S), x) = Occurs(s, x)
<1> DEFINE r == Keep(s, S)
<1>0. r \in Seq(T) /\ \E g : Picks(s, S, Len(s), r, g)
  BY KeepFacts
<1> HIDE DEF r
<1>1. PICK g : Picks(s, S, Len(s), r, g)
  BY <1>0
<1>2. /\ g \in [1..Len(r) -> {i \in 1..Len(s) : s[i] \in S}]
      /\ \A k, l \in 1..Len(r) : k < l => g[k] < g[l]
      /\ \A i \in 1..Len(s) : s[i] \in S => \E k \in 1..Len(r) : g[k] = i
      /\ \A k \in 1..Len(r) : r[k] = s[g[k]]
  BY <1>1 DEF Picks
<1>3. /\ Len(s) \in Nat /\ Len(r) \in Nat
      /\ DOMAIN r = 1..Len(r) /\ DOMAIN s = 1..Len(s)
  BY <1>0, LenProperties
<1> DEFINE A == {k \in DOMAIN r : r[k] = x}
           B == {i \in DOMAIN s : s[i] = x}
           h == [k \in A |-> g[k]]
<1>4. \A k \in A : k \in 1..Len(r) /\ h[k] = g[k] /\ g[k] \in 1..Len(s) /\ s[g[k]] = x
  BY <1>2, <1>3
<1>5. h \in [A -> B]
  BY <1>3, <1>4
<1>6. \A k, l \in A : h[k] = h[l] => k = l
  <2> SUFFICES ASSUME NEW k \in A, NEW l \in A, h[k] = h[l]
               PROVE  k = l
    OBVIOUS
  <2>1. k \in 1..Len(r) /\ l \in 1..Len(r) /\ g[k] = g[l] /\ g[k] \in 1..Len(s)
    BY <1>4
  <2>2. ~(k < l) /\ ~(l < k)
    BY <1>2, <1>3, <2>1
  <2> QED
    BY <1>3, <2>1, <2>2
<1>7. \A i \in B : \E k \in A : h[k] = i
  <2> TAKE i \in B
  <2>1. i \in 1..Len(s) /\ s[i] = x
    BY <1>3
  <2>2. PICK k \in 1..Len(r) : g[k] = i
    BY <1>2, <2>1
  <2>3. k \in A
    BY <1>2, <1>3, <2>1, <2>2
  <2> QED
    BY <2>2, <2>3
<1>8. IsFiniteSet(A)
  BY <1>0, OccursType
<1> HIDE DEF A, B, h
<1>9. h \in Bijection(A, B)
  BY <1>5, <1>6, <1>7 DEF Bijection, Injection, Surjection, IsInjective
<1>10. Cardinality(B) = Cardinality(A)
  BY <1>8, <1>9, FS_Bijection DEF ExistsBijection
<1> QED
  BY <1>10 DEF Occurs, r, A, B
-----------------------------------------------------------------------------
\* The sequences that list a finite set hold all of it.
LEMMA ListsOfSet ==
  ASSUME NEW S, IsFiniteSet(S), NEW f \in SetToSeqs(S)
  PROVE  /\ Cardinality(S) \in Nat /\ f \in Seq(S)
         /\ Len(f) = Cardinality(S) /\ DOMAIN f = 1..Cardinality(S)
         /\ \A x \in S : \E i \in 1..Cardinality(S) : f[i] = x
<1>1. Cardinality(S) \in Nat
  BY FS_CardinalityType
<1>2. f \in [1..Cardinality(S) -> S] /\ \A i, j \in 1..Cardinality(S) : i # j => f[i] # f[j]
  BY DEF SetToSeqs
<1>3. f \in Injection(1..Cardinality(S), S)
  BY <1>2 DEF Injection, IsInjective
<1>4. Cardinality(1..Cardinality(S)) = Cardinality(S)
  BY <1>1, IntervalCardinality
<1>5. f \in Surjection(1..Cardinality(S), S)
  BY <1>3, <1>4, FS_Injection
<1>6. \A x \in S : \E i \in 1..Cardinality(S) : f[i] = x
  BY <1>5 DEF Surjection
<1>7. f \in Seq(S) /\ Len(f) = Cardinality(S) /\ DOMAIN f = 1..Cardinality(S)
  BY <1>1, <1>2, SeqDef, LenProperties
<1> QED
  BY <1>1, <1>6, <1>7

\* One of them is SetToSeq(S).
LEMMA ListOfSet ==
  ASSUME NEW S, IsFiniteSet(S)
  PROVE  /\ Cardinality(S) \in Nat /\ SetToSeq(S) \in Seq(S)
         /\ Len(SetToSeq(S)) = Cardinality(S) /\ DOMAIN SetToSeq(S) = 1..Cardinality(S)
<1>1. Cardinality(S) \in Nat
  BY FS_CardinalityType
<1>2. IsFiniteSet(1..Cardinality(S)) /\ Cardinality(1..Cardinality(S)) = Cardinality(S)
  BY <1>1, IntervalCardinality
<1>3. ExistsBijection(1..Cardinality(S), S)
  BY <1>2, FS_SameCardinalityBij
<1>4. \E f \in [1..Cardinality(S) -> S] : IsInjective(f)
  BY <1>3 DEF ExistsBijection, Bijection, Injection
<1>5. SetToSeq(S) \in [1..Cardinality(S) -> S]
  BY <1>4 DEF SetToSeq
<1> QED
  BY <1>1, <1>5, SeqDef, LenProperties
=============================================================================
