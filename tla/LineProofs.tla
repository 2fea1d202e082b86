------------------------------ MODULE LineProofs ------------------------------
(* Lemmas about lines, for the proofs about those who keep them.           *)
EXTENDS Lines, FiniteSetTheorems, SequenceTheorems, TLAPS

(* Numbers in increasing order, up to n.                                   *)
Line(s, n) == s \in Seq(1 .. n) /\ \A i, j \in 1 .. Len(s) : i < j => s[i] < s[j]

(* A strictly increasing function from 1 .. m to 1 .. n: m is at most n.   *)
LEMMA Pigeons ==
  ASSUME NEW m \in Nat, NEW n \in Nat, NEW f \in [1 .. m -> 1 .. n],
         \A i, j \in 1 .. m : i < j => f[i] < f[j]
  PROVE  m <= n
<1>1. f \in Injection(1 .. m, 1 .. n)
  <2>1. ASSUME NEW i \in 1 .. m, NEW j \in 1 .. m, f[i] = f[j]
        PROVE  i = j
    <3>1. i < j \/ j < i \/ i = j
      OBVIOUS
    <3> QED  BY <3>1, <2>1
  <2> QED  BY <2>1 DEF Injection, IsInjective
<1>2. IsFiniteSet(1 .. n) /\ Cardinality(1 .. n) = n /\ Cardinality(1 .. m) = m
  BY FS_Interval
<1> DEFINE S == 1 .. m  T == 1 .. n
<1> HIDE DEF S, T
<1>3. f \in Injection(S, T) /\ IsFiniteSet(T)
  BY <1>1, <1>2 DEF S, T
<1>4. Cardinality(S) <= Cardinality(T)
  BY <1>3, FS_Injection
<1> QED  BY <1>2, <1>4 DEF S, T

(* What remains of a line in order is a line of at most its length.        *)
LEMMA RemainderIsLine ==
  ASSUME NEW n \in Nat, NEW s, Line(s, n), NEW q \in Seq(Nat), Remainder(q, s)
  PROVE  Line(q, n) /\ Len(q) <= Len(s) /\ Elements(q) \subseteq Elements(s)
<1>1. PICK f \in [1 .. Len(q) -> 1 .. Len(s)] :
         /\ \A i, j \in 1 .. Len(q) : i < j => f[i] < f[j]
         /\ \A i \in 1 .. Len(q) : q[i] = s[f[i]]
  BY DEF Remainder
<1>2. s \in Seq(1 .. n) /\ Len(s) \in Nat /\ Len(q) \in Nat
  BY DEF Line
<1>3. Len(q) <= Len(s)
  BY <1>1, <1>2, Pigeons
<1>4. ASSUME NEW i \in 1 .. Len(q)
      PROVE  f[i] \in 1 .. Len(s) /\ q[i] = s[f[i]] /\ q[i] \in 1 .. n
  <2>1. f[i] \in 1 .. Len(s) /\ q[i] = s[f[i]]
    BY <1>1
  <2>2. s[f[i]] \in 1 .. n
    BY <1>2, <2>1
  <2> QED  BY <2>1, <2>2
<1>5. q \in Seq(1 .. n)
  BY <1>4
<1>6. ASSUME NEW i \in 1 .. Len(q), NEW j \in 1 .. Len(q), i < j
      PROVE  q[i] < q[j]
  <2>1. f[i] < f[j]
    BY <1>1, <1>6
  <2> QED  BY <1>4, <2>1 DEF Line
<1>7. Elements(q) \subseteq Elements(s)
  BY <1>4 DEF Elements
<1> QED  BY <1>3, <1>5, <1>6, <1>7 DEF Line

-----------------------------------------------------------------------------
(* A bounded set of numbers has a greatest one.                            *)
LEMMA Greatest ==
  ASSUME NEW n \in Nat, NEW S, S \subseteq 0 .. n, S # {}
  PROVE  \E h \in S : \A t \in S : h >= t
<1> DEFINE Above(h) == {t \in S : t > h}
           F == {Above(h) : h \in S}
<1>1. IsFiniteSet(S)
  <2>1. 0 \in Int /\ n \in Int
    OBVIOUS
  <2>2. IsFiniteSet(0 .. n)
    BY <2>1, FS_Interval
  <2> QED  BY <2>2, FS_Subset
<1>2. IsWellFoundedOn(StrictSubsetOrdering(S), FiniteSubsetsOf(S))
  BY FS_StrictSubsetOrderingWellFounded
<1>3. F \subseteq FiniteSubsetsOf(S) /\ F # {}
  <2>1. \A h \in S : Above(h) \in SUBSET S
    OBVIOUS
  <2> HIDE DEF Above
  <2>2. \A h \in S : IsFiniteSet(Above(h))
    BY <1>1, <2>1, FS_Subset
  <2> QED  BY <2>1, <2>2 DEF FiniteSubsetsOf
<1>4. PICK x \in F : \A y \in F : ~ (<<y, x>> \in StrictSubsetOrdering(S))
  <2> HIDE DEF F
  <2> QED  BY <1>2, <1>3, WFMin
<1>5. PICK h \in S : x = Above(h)
  OBVIOUS
<1>6. ASSUME NEW t \in S, ~(h >= t)  PROVE FALSE
  <2>0. S \subseteq Int /\ t \in Int /\ h \in Int
    OBVIOUS
  <2>1. Above(t) \subseteq Above(h) /\ t \in Above(h) /\ t \notin Above(t)
    <3>1. t > h /\ ~(t > t)
      BY <1>6, <2>0
    <3>2. \A u \in S : u > t => u > h
      BY <2>0, <3>1
    <3> QED  BY <3>1, <3>2
  <2>2. <<Above(t), Above(h)>> \in StrictSubsetOrdering(S)
    BY <2>1 DEF StrictSubsetOrdering
  <2> QED  BY <1>4, <1>5, <2>2
<1> QED BY <1>6

(* Induction over the positions of a sequence, as a statement about sets.  *)
LEMMA UpTo ==
  ASSUME NEW n \in Nat, NEW S, 0 \in S, \A k \in 0 .. n : k \in S /\ k < n => k + 1 \in S
  PROVE  n \in S
<1> DEFINE D == S \cap (0 .. n)
<1>1. PICK h \in D : \A t \in D : h >= t
  <2>1. D \subseteq 0 .. n /\ D # {}
    OBVIOUS
  <2> HIDE DEF D
  <2> QED  BY <2>1, Greatest
<1>2. CASE h = n
  BY <1>2
<1>3. CASE h # n
  <2>1. h \in 0 .. n /\ h < n
    BY <1>3
  <2>2. h + 1 \in D
    BY <2>1
  <2> QED  BY <1>1, <2>1, <2>2
<1> QED  BY <1>2, <1>3

(* A recursive function: its value at i is g[i] of that at i - 1.          *)
Steps(n, V, g) == \A i \in 1 .. n : \A x \in V : g[i][x] \in V

Iterate(n, V, b, g, f) ==
  /\ f \in [0 .. n -> V]
  /\ \A i \in 0 .. n : f[i] = IF i = 0 THEN b ELSE g[i][f[i - 1]]

LEMMA Iterates ==
  ASSUME NEW n \in Nat, NEW V, NEW b \in V, NEW g, Steps(n, V, g)
  PROVE  \E f : Iterate(n, V, b, g, f)
<1> USE DEF Steps, Iterate
<1> DEFINE Is(k, f) == Iterate(k, V, b, g, f)
           D == {k \in 0 .. n : \E f : Is(k, f)}
<1>1. 0 \in D
  <2> DEFINE f == [i \in 0 .. 0 |-> b]
  <2>1. Is(0, f)
    OBVIOUS
  <2> HIDE DEF Is
  <2> QED  BY <2>1
<1>2. ASSUME NEW k \in 0 .. n, k \in D, k < n  PROVE k + 1 \in D
  <2>1. PICK f : Is(k, f)
    BY <1>2
  <2> DEFINE h == [i \in 0 .. k + 1 |-> IF i = k + 1 THEN g[k + 1][f[k]] ELSE f[i]]
  <2>2. g[k + 1][f[k]] \in V
    <3>1. f[k] \in V /\ k + 1 \in 1 .. n
      BY <1>2, <2>1
    <3> QED  BY <3>1
  <2>3. ASSUME NEW i \in 0 .. k + 1
        PROVE  h[i] \in V /\ h[i] = IF i = 0 THEN b ELSE g[i][h[i - 1]]
    <3>1. CASE i = k + 1
      <4>1. i # 0 /\ i - 1 = k /\ k \in 0 .. k + 1 /\ k # k + 1
        BY <3>1
      <4>2. h[i] = g[k + 1][f[k]] /\ h[k] = f[k]
        BY <3>1, <4>1
      <4> QED  BY <2>2, <3>1, <4>1, <4>2
    <3>2. CASE i # k + 1
      <4>1. i \in 0 .. k /\ (i # 0 => i - 1 \in 0 .. k /\ i - 1 # k + 1 /\ i - 1 \in 0 .. k + 1)
        BY <3>2
      <4>2. h[i] = f[i] /\ (i # 0 => h[i - 1] = f[i - 1])
        BY <3>2, <4>1
      <4> QED  BY <2>1, <4>1, <4>2
    <3> QED  BY <3>1, <3>2
  <2>4. h \in [0 .. k + 1 -> V]
    BY <2>3
  <2> HIDE DEF h
  <2>5. Is(k + 1, h)
    BY <2>3, <2>4
  <2> HIDE DEF Is
  <2> QED  BY <1>2, <2>5
<1> HIDE DEF D
<1>3. n \in D
  BY <1>1, <1>2, UpTo
<1> QED  BY <1>3 DEF D

(* The recursive function of Filter, for the first k elements of s.        *)
Filtering(s, S, k, f) ==
  f = [i \in 0 .. k |->
         IF i = 0 THEN <<>>
         ELSE IF s[i] \in S THEN Append(f[i - 1], s[i]) ELSE f[i - 1]]

LEMMA FilteringExists ==
  ASSUME NEW s, NEW S, NEW n \in Nat
  PROVE  \E f : Filtering(s, S, n, f)
<1> DEFINE D == {k \in 0 .. n : \E f : Filtering(s, S, k, f)}
<1>1. 0 \in D
  <2> DEFINE f == [i \in 0 .. 0 |-> <<>>]
  <2>1. Filtering(s, S, 0, f)
    BY DEF Filtering
  <2> QED  BY <2>1
<1>2. ASSUME NEW k \in 0 .. n, k \in D, k < n  PROVE k + 1 \in D
  <2>1. PICK f : Filtering(s, S, k, f)
    BY <1>2
  <2> DEFINE x == IF s[k + 1] \in S THEN Append(f[k], s[k + 1]) ELSE f[k]
             g == [i \in 0 .. k + 1 |-> IF i = k + 1 THEN x ELSE f[i]]
  <2>2. \A i \in 0 .. k : f[i] = IF i = 0 THEN <<>>
                                 ELSE IF s[i] \in S THEN Append(f[i - 1], s[i]) ELSE f[i - 1]
    BY <2>1 DEF Filtering
  <2>3. \A i \in 0 .. k + 1 : g[i] = IF i = k + 1 THEN x ELSE f[i]
    OBVIOUS
  <2>4. \A i \in 0 .. k + 1 : g[i] = IF i = 0 THEN <<>>
                                     ELSE IF s[i] \in S THEN Append(g[i - 1], s[i]) ELSE g[i - 1]
    <3> SUFFICES ASSUME NEW i \in 0 .. k + 1
                 PROVE  g[i] = IF i = 0 THEN <<>>
                               ELSE IF s[i] \in S THEN Append(g[i - 1], s[i]) ELSE g[i - 1]
      OBVIOUS
    <3>1. CASE i = k + 1
      <4>1. g[i] = x /\ i # 0 /\ i - 1 = k /\ k \in 0 .. k + 1 /\ k # k + 1
        BY <3>1, <2>3
      <4>2. g[i - 1] = f[k]
        BY <4>1, <2>3
      <4> QED  BY <3>1, <4>1, <4>2
    <3>2. CASE i # k + 1 /\ i # 0
      <4>1. i \in 0 .. k /\ i - 1 \in 0 .. k /\ i - 1 \in 0 .. k + 1 /\ i - 1 # k + 1
        BY <3>2
      <4>2. g[i] = f[i] /\ g[i - 1] = f[i - 1]
        BY <3>2, <4>1, <2>3
      <4> QED  BY <3>2, <4>1, <4>2, <2>2
    <3>3. CASE i = 0
      <4>1. 0 \in 0 .. k /\ 0 # k + 1
        OBVIOUS
      <4> QED  BY <3>3, <4>1, <2>2, <2>3
    <3> QED  BY <3>1, <3>2, <3>3
  <2>5. g = [i \in 0 .. k + 1 |-> g[i]]
    OBVIOUS
  <2> HIDE DEF g
  <2>6. Filtering(s, S, k + 1, g)
    BY <2>4, <2>5 DEF Filtering
  <2>7. k + 1 \in 0 .. n
    BY <1>2
  <2> QED  BY <2>6, <2>7
<1> HIDE DEF D
<1>3. n \in D
  BY <1>1, <1>2, UpTo
<1> QED  BY <1>3 DEF D

LEMMA FilterIsFiltering ==
  ASSUME NEW s, NEW S, Len(s) \in Nat
  PROVE  \E f : Filtering(s, S, Len(s), f) /\ Filter(s, S) = f[Len(s)]
<1>1. \E f : Filtering(s, S, Len(s), f)
  BY FilteringExists
<1> DEFINE f == CHOOSE f : Filtering(s, S, Len(s), f)
<1>2. Filtering(s, S, Len(s), f)
  BY <1>1
<1>3. Filter(s, S) = f[Len(s)]
  BY DEF Filter, Filtering
<1> QED  BY <1>2, <1>3

(* What Filter returns: g says where the elements come from.               *)
Picks(s, S, k, r, g) ==
  /\ g \in [1 .. Len(r) -> 1 .. k]
  /\ \A i, j \in 1 .. Len(r) : i < j => g[i] < g[j]
  /\ \A i \in 1 .. Len(r) : r[i] = s[g[i]]
  /\ \A j \in 1 .. k : s[j] \in S <=> \E i \in 1 .. Len(r) : g[i] = j

LEMMA FilterIs ==
  ASSUME NEW T, NEW s \in Seq(T), NEW S
  PROVE  Filter(s, S) \in Seq(T) /\ \E g : Picks(s, S, Len(s), Filter(s, S), g)
<1>1. Len(s) \in Nat /\ \A i \in 1 .. Len(s) : s[i] \in T
  OBVIOUS
<1>2. PICK f : Filtering(s, S, Len(s), f) /\ Filter(s, S) = f[Len(s)]
  BY <1>1, FilterIsFiltering
<1>3. \A i \in 0 .. Len(s) : f[i] = IF i = 0 THEN <<>>
                                    ELSE IF s[i] \in S THEN Append(f[i - 1], s[i]) ELSE f[i - 1]
  BY <1>2 DEF Filtering
<1> DEFINE D == {k \in 0 .. Len(s) : f[k] \in Seq(T) /\ \E g : Picks(s, S, k, f[k], g)}
<1>4. 0 \in D
  <2>1. f[0] = <<>> /\ 0 \in 0 .. Len(s)
    BY <1>1, <1>3
  <2>2. Picks(s, S, 0, <<>>, <<>>)
    BY DEF Picks
  <2>3. <<>> \in Seq(T)
    OBVIOUS
  <2>4. f[0] \in Seq(T) /\ \E g : Picks(s, S, 0, f[0], g)
    BY <2>1, <2>2, <2>3
  <2> QED  BY <2>1, <2>4
<1>5. ASSUME NEW k \in 0 .. Len(s), k \in D, k < Len(s)  PROVE k + 1 \in D
  <2>1. PICK g : Picks(s, S, k, f[k], g)
    BY <1>5
  <2>2. /\ k + 1 \in 0 .. Len(s) /\ k + 1 \in 1 .. Len(s) /\ k \in Nat
        /\ f[k] \in Seq(T) /\ Len(f[k]) \in Nat /\ s[k + 1] \in T
    BY <1>1, <1>5
  <2>3. f[k + 1] = IF s[k + 1] \in S THEN Append(f[k], s[k + 1]) ELSE f[k]
    BY <1>3, <2>2
  <2>4. CASE s[k + 1] \notin S
    <3>1. f[k + 1] = f[k]
      BY <2>3, <2>4
    <3>2. \A j \in 1 .. k + 1 : j \in 1 .. k \/ j = k + 1
      BY <2>2
    <3>3. \A i \in 1 .. Len(f[k]) : g[i] \in 1 .. k /\ g[i] \in 1 .. k + 1 /\ g[i] # k + 1
      <4>1. \A j \in 1 .. k : j \in 1 .. k + 1 /\ j # k + 1
        BY <2>2
      <4>2. \A i \in 1 .. Len(f[k]) : g[i] \in 1 .. k
        BY <2>1 DEF Picks
      <4> QED  BY <4>1, <4>2
    <3>4. g \in [1 .. Len(f[k]) -> 1 .. k + 1]
      BY <2>1, <3>3 DEF Picks
    <3>5. Picks(s, S, k + 1, f[k], g)
      BY <2>1, <2>4, <3>2, <3>3, <3>4 DEF Picks
    <3> QED  BY <2>2, <3>1, <3>5
  <2>5. CASE s[k + 1] \in S
    <3> DEFINE r == f[k]  q == Append(r, s[k + 1])  m == Len(r) + 1
               h == [i \in 1 .. m |-> IF i = m THEN k + 1 ELSE g[i]]
    <3>1. /\ q \in Seq(T) /\ Len(q) = m /\ m \in Nat
          /\ \A i \in 1 .. m : q[i] = IF i = m THEN s[k + 1] ELSE r[i]
      BY <2>2
    <3>2. \A i \in 1 .. m : /\ h[i] = IF i = m THEN k + 1 ELSE g[i]
                            /\ i # m => i \in 1 .. Len(r) /\ g[i] \in 1 .. k
      BY <2>1, <2>2 DEF Picks
    <3>3. h \in [1 .. m -> 1 .. k + 1]
      <4>1. k + 1 \in 1 .. k + 1 /\ \A j \in 1 .. k : j \in 1 .. k + 1
        BY <2>2
      <4>2. \A i \in 1 .. m : h[i] \in 1 .. k + 1
        BY <3>2, <4>1
      <4>3. h = [i \in 1 .. m |-> h[i]]
        OBVIOUS
      <4> HIDE DEF h
      <4> QED  BY <4>2, <4>3
    <3>4. \A i, j \in 1 .. m : i < j => h[i] < h[j]
      <4> SUFFICES ASSUME NEW i \in 1 .. m, NEW j \in 1 .. m, i < j  PROVE h[i] < h[j]
        OBVIOUS
      <4>1. i # m
        BY <3>1
      <4>2. h[i] = g[i] /\ g[i] \in 1 .. k /\ i \in 1 .. Len(r)
        BY <3>2, <4>1
      <4>3. CASE j = m
        BY <2>2, <3>2, <4>2, <4>3
      <4>4. CASE j # m
        BY <2>1, <3>2, <4>2, <4>4 DEF Picks
      <4> QED  BY <4>3, <4>4
    <3>5. \A i \in 1 .. m : q[i] = s[h[i]]
      BY <2>1, <3>1, <3>2 DEF Picks
    <3>6. \A j \in 1 .. k + 1 : s[j] \in S <=> \E i \in 1 .. m : h[i] = j
      <4> SUFFICES ASSUME NEW j \in 1 .. k + 1  PROVE s[j] \in S <=> \E i \in 1 .. m : h[i] = j
        OBVIOUS
      <4>1. CASE j = k + 1
        <5>1. m \in 1 .. m /\ h[m] = k + 1
          BY <3>1, <3>2
        <5> QED  BY <2>5, <4>1, <5>1
      <4>2. CASE j # k + 1
        <5>1. j \in 1 .. k
          BY <2>2, <4>2
        <5>2. s[j] \in S <=> \E i \in 1 .. Len(r) : g[i] = j
          BY <2>1, <5>1 DEF Picks
        <5>3. \A i \in 1 .. Len(r) : i \in 1 .. m /\ i # m
          BY <2>2
        <5> QED  BY <3>2, <4>2, <5>2, <5>3
      <4> QED  BY <4>1, <4>2
    <3> HIDE DEF h, q, m
    <3>7. Picks(s, S, k + 1, q, h)
      BY <3>1, <3>3, <3>4, <3>5, <3>6 DEF Picks
    <3>8. f[k + 1] = q
      BY <2>3, <2>5 DEF q
    <3> QED  BY <2>2, <3>1, <3>7, <3>8
  <2> QED  BY <2>4, <2>5
<1> HIDE DEF D
<1>6. Len(s) \in D
  BY <1>1, <1>4, <1>5, UpTo
<1> QED  BY <1>2, <1>6 DEF D
-----------------------------------------------------------------------------
(* Lines put behind one another.                                           *)

(* r is s followed by t.                                                   *)
Joined(r, s, t) ==
  /\ Len(r) \in Nat /\ Len(s) \in Nat /\ Len(t) \in Nat /\ Len(r) = Len(s) + Len(t)
  /\ \A i \in 1 .. Len(s) : i \in 1 .. Len(r) /\ r[i] = s[i]
  /\ \A i \in 1 .. Len(t) : Len(s) + i \in 1 .. Len(r) /\ r[Len(s) + i] = t[i]
  /\ \A i \in 1 .. Len(r) : i \in 1 .. Len(s) \/ \E j \in 1 .. Len(t) : i = Len(s) + j

LEMMA ConcatIs ==
  ASSUME NEW T, NEW s \in Seq(T), NEW t \in Seq(T)
  PROVE  s \o t \in Seq(T) /\ Joined(s \o t, s, t)
<1>1. /\ s \o t \in Seq(T) /\ Len(s \o t) = Len(s) + Len(t) /\ Len(s) \in Nat /\ Len(t) \in Nat
      /\ \A i \in 1 .. Len(s) + Len(t) : (s \o t)[i] = IF i <= Len(s) THEN s[i] ELSE t[i - Len(s)]
  OBVIOUS
<1>2. \A i \in 1 .. Len(s) : i \in 1 .. Len(s \o t) /\ (s \o t)[i] = s[i]
  BY <1>1
<1>3. ASSUME NEW i \in 1 .. Len(t)
      PROVE  Len(s) + i \in 1 .. Len(s \o t) /\ (s \o t)[Len(s) + i] = t[i]
  <2>1. Len(s) + i \in 1 .. Len(s) + Len(t) /\ ~(Len(s) + i <= Len(s)) /\ (Len(s) + i) - Len(s) = i
    BY <1>1
  <2> QED  BY <1>1, <2>1
<1>4. ASSUME NEW i \in 1 .. Len(s \o t)
      PROVE  i \in 1 .. Len(s) \/ \E j \in 1 .. Len(t) : i = Len(s) + j
  <2>1. CASE i <= Len(s)
    BY <1>1, <2>1
  <2>2. CASE ~(i <= Len(s))
    <3>1. i - Len(s) \in 1 .. Len(t) /\ i = Len(s) + (i - Len(s))
      BY <1>1, <2>2
    <3> QED  BY <3>1
  <2> QED  BY <2>1, <2>2
<1>5. Len(s \o t) \in Nat
  BY <1>1
<1> QED  BY <1>1, <1>2, <1>3, <1>4, <1>5 DEF Joined

LEMMA ConcatElements ==
  ASSUME NEW T, NEW s \in Seq(T), NEW t \in Seq(T)
  PROVE  Elements(s \o t) = Elements(s) \cup Elements(t)
<1>1. PICK r : r = s \o t /\ Joined(r, s, t)
  BY ConcatIs
<1>2. ASSUME NEW x \in Elements(r)  PROVE x \in Elements(s) \cup Elements(t)
  <2>1. PICK i \in 1 .. Len(r) : x = r[i]
    BY DEF Elements
  <2>2. CASE i \in 1 .. Len(s)
    BY <1>1, <2>1, <2>2 DEF Elements, Joined
  <2>3. CASE \E j \in 1 .. Len(t) : i = Len(s) + j
    BY <1>1, <2>1, <2>3 DEF Elements, Joined
  <2> QED  BY <1>1, <2>2, <2>3 DEF Joined
<1>3. \A i \in 1 .. Len(s) : s[i] \in Elements(r)
  BY <1>1 DEF Elements, Joined
<1>4. \A i \in 1 .. Len(t) : t[i] \in Elements(r)
  BY <1>1 DEF Elements, Joined
<1>5. Elements(r) = Elements(s) \cup Elements(t)
  BY <1>2, <1>3, <1>4 DEF Elements
<1> QED  BY <1>1, <1>5

LEMMA ConcatLine ==
  ASSUME NEW n \in Nat, NEW s, Line(s, n), NEW t, Line(t, n),
         \A x \in Elements(s), y \in Elements(t) : x < y
  PROVE  Line(s \o t, n)
<1>1. s \in Seq(1 .. n) /\ t \in Seq(1 .. n)
  BY DEF Line
<1>2. PICK r : r = s \o t /\ r \in Seq(1 .. n) /\ Joined(r, s, t)
  BY <1>1, ConcatIs
<1>3. ASSUME NEW i \in 1 .. Len(r), NEW j \in 1 .. Len(r), i < j  PROVE r[i] < r[j]
  <2>1. CASE j \in 1 .. Len(s)
    <3>1. i \in 1 .. Len(s)
      BY <1>2, <1>3, <2>1 DEF Joined
    <3>2. r[i] = s[i] /\ r[j] = s[j]
      BY <1>2, <2>1, <3>1 DEF Joined
    <3> QED  BY <1>3, <2>1, <3>1, <3>2 DEF Line
  <2>2. CASE i \in 1 .. Len(s) /\ \E m \in 1 .. Len(t) : j = Len(s) + m
    <3>1. PICK m \in 1 .. Len(t) : j = Len(s) + m
      BY <2>2
    <3>2. r[i] = s[i] /\ r[j] = t[m]
      BY <1>2, <2>2, <3>1 DEF Joined
    <3>3. s[i] \in Elements(s) /\ t[m] \in Elements(t)
      BY <2>2 DEF Elements
    <3> QED  BY <3>2, <3>3
  <2>3. CASE (\E k \in 1 .. Len(t) : i = Len(s) + k) /\ \E m \in 1 .. Len(t) : j = Len(s) + m
    <3>1. PICK k \in 1 .. Len(t), m \in 1 .. Len(t) : i = Len(s) + k /\ j = Len(s) + m
      BY <2>3
    <3>2. k < m
      BY <1>2, <1>3, <3>1 DEF Joined
    <3>3. r[i] = t[k] /\ r[j] = t[m]
      BY <1>2, <3>1 DEF Joined
    <3> QED  BY <3>2, <3>3 DEF Line
  <2>4. CASE (\E k \in 1 .. Len(t) : i = Len(s) + k) /\ j \in 1 .. Len(s)
    BY <2>1, <2>4
  <2> QED  BY <1>2, <2>1, <2>2, <2>3, <2>4 DEF Joined
<1> QED  BY <1>2, <1>3 DEF Line

(* The parts of a line are lines, and one is before the other.             *)
LEMMA ConcatParts ==
  ASSUME NEW n \in Nat, NEW s \in Seq(1 .. n), NEW t \in Seq(1 .. n), Line(s \o t, n)
  PROVE  /\ Line(s, n) /\ Line(t, n)
         /\ \A x \in Elements(s), y \in Elements(t) : x < y
<1>1. PICK r : r = s \o t /\ Line(r, n) /\ Joined(r, s, t)
  BY ConcatIs
<1>2. \A i, j \in 1 .. Len(r) : i < j => r[i] < r[j]
  BY <1>1 DEF Line
<1>3. ASSUME NEW i \in 1 .. Len(s), NEW j \in 1 .. Len(s), i < j  PROVE s[i] < s[j]
  <2>1. i \in 1 .. Len(r) /\ j \in 1 .. Len(r) /\ r[i] = s[i] /\ r[j] = s[j]
    BY <1>1 DEF Joined
  <2> QED  BY <1>2, <1>3, <2>1
<1>4. ASSUME NEW i \in 1 .. Len(t), NEW j \in 1 .. Len(t), i < j  PROVE t[i] < t[j]
  <2>1. /\ Len(s) + i \in 1 .. Len(r) /\ Len(s) + j \in 1 .. Len(r)
        /\ r[Len(s) + i] = t[i] /\ r[Len(s) + j] = t[j]
    BY <1>1 DEF Joined
  <2>2. Len(s) + i < Len(s) + j
    BY <1>1, <1>4 DEF Joined
  <2> QED  BY <1>2, <2>1, <2>2
<1>5. ASSUME NEW i \in 1 .. Len(s), NEW j \in 1 .. Len(t)  PROVE s[i] < t[j]
  <2>1. /\ i \in 1 .. Len(r) /\ Len(s) + j \in 1 .. Len(r)
        /\ r[i] = s[i] /\ r[Len(s) + j] = t[j]
    BY <1>1 DEF Joined
  <2>2. i < Len(s) + j
    BY <1>1 DEF Joined
  <2> QED  BY <1>2, <2>1, <2>2
<1> QED  BY <1>3, <1>4, <1>5 DEF Line, Elements

(* A sequence is its first k elements and the others.                      *)
LEMMA Split ==
  ASSUME NEW T, NEW s \in Seq(T), NEW k \in 0 .. Len(s)
  PROVE  /\ SubSeq(s, 1, k) \in Seq(T) /\ SubSeq(s, k + 1, Len(s)) \in Seq(T)
         /\ Len(SubSeq(s, 1, k)) = k /\ Len(SubSeq(s, k + 1, Len(s))) = Len(s) - k
         /\ s = SubSeq(s, 1, k) \o SubSeq(s, k + 1, Len(s))
<1>1. Len(s) \in Nat /\ k \in Nat /\ k <= Len(s)
  OBVIOUS
<1> DEFINE a == SubSeq(s, 1, k)  b == SubSeq(s, k + 1, Len(s))
<1>2. /\ a \in Seq(T) /\ Len(a) = k /\ \A i \in 1 .. k : a[i] = s[i]
      /\ b \in Seq(T) /\ Len(b) = Len(s) - k /\ \A i \in 1 .. Len(s) - k : b[i] = s[i + k]
  BY <1>1
<1> HIDE DEF a, b
<1>3. a \o b \in Seq(T) /\ Len(a \o b) = Len(s)
  BY <1>1, <1>2
<1>4. PICK r : r = a \o b /\ r \in Seq(T) /\ Joined(r, a, b)
  BY <1>2, ConcatIs
<1>5. ASSUME NEW i \in 1 .. Len(s)  PROVE r[i] = s[i]
  <2>1. CASE i <= k
    <3>1. i \in 1 .. k /\ i \in 1 .. Len(a)
      BY <1>1, <1>2, <2>1
    <3> QED  BY <1>2, <1>4, <3>1 DEF Joined
  <2>2. CASE ~(i <= k)
    <3>1. i - k \in 1 .. Len(s) - k /\ i - k \in 1 .. Len(b) /\ k + (i - k) = i /\ (i - k) + k = i
      BY <1>1, <1>2, <2>2
    <3>2. r[Len(a) + (i - k)] = b[i - k] /\ b[i - k] = s[(i - k) + k]
      BY <1>2, <1>4, <3>1 DEF Joined
    <3> QED  BY <1>2, <3>1, <3>2
  <2> QED  BY <2>1, <2>2
<1>6. r = s
  <2>1. Len(r) = Len(s)
    BY <1>3, <1>4
  <2>0. r \in Seq(T)
    BY <1>4
  <2>2. r \in [1 .. Len(r) -> T]
    BY <2>0
  <2>3. s \in [1 .. Len(s) -> T]
    OBVIOUS
  <2> QED  BY <1>5, <2>1, <2>2, <2>3
<1> QED  BY <1>2, <1>4, <1>6 DEF a, b

LEMMA NoneBefore ==
  ASSUME NEW T, NEW s \in Seq(T)
  PROVE  /\ <<>> \in Seq(T) /\ <<>> \o s = s /\ s \o <<>> = s /\ Elements(<<>>) = {} /\ Len(<<>>) = 0
         /\ Elements(s) \subseteq T /\ (s # <<>> <=> Len(s) > 0) /\ (Elements(s) = {} => s = <<>>)
<1>1. <<>> \in Seq(T) /\ <<>> \o s = s /\ s \o <<>> = s /\ Len(<<>>) = 0
  OBVIOUS
<1>2. Elements(<<>>) = {} /\ Elements(s) \subseteq T
  BY DEF Elements
<1>3. s # <<>> <=> Len(s) > 0
  OBVIOUS
<1>4. ASSUME Len(s) > 0  PROVE Elements(s) # {}
  <2>1. 1 \in 1 .. Len(s)
    BY <1>4
  <2> QED  BY <2>1 DEF Elements
<1> QED  BY <1>1, <1>2, <1>3, <1>4

(* What is left of lines put behind one another.                           *)
LEMMA RemainderSelf ==
  ASSUME NEW T, NEW s \in Seq(T)
  PROVE  Remainder(s, s) /\ Remainder(<<>>, s)
<1>1. Remainder(s, s)
  <2> DEFINE f == [i \in 1 .. Len(s) |-> i]
  <2>1. f \in [1 .. Len(s) -> 1 .. Len(s)]
    OBVIOUS
  <2> QED  BY <2>1 DEF Remainder
<1>2. Remainder(<<>>, s)
  <2>1. Len(<<>>) = 0 /\ 1 .. 0 = {}
    OBVIOUS
  <2>2. <<>> \in [1 .. 0 -> 1 .. Len(s)]
    BY <2>1
  <2> QED  BY <2>1, <2>2 DEF Remainder
<1> QED  BY <1>1, <1>2

LEMMA RemainderConcat ==
  ASSUME NEW T, NEW a \in Seq(T), NEW s \in Seq(T), NEW b \in Seq(T), NEW t \in Seq(T),
         Remainder(a, s), Remainder(b, t)
  PROVE  Remainder(a \o b, s \o t)
<1>1. PICK f \in [1 .. Len(a) -> 1 .. Len(s)] :
         /\ \A i, j \in 1 .. Len(a) : i < j => f[i] < f[j]
         /\ \A i \in 1 .. Len(a) : a[i] = s[f[i]]
  BY DEF Remainder
<1>2. PICK g \in [1 .. Len(b) -> 1 .. Len(t)] :
         /\ \A i, j \in 1 .. Len(b) : i < j => g[i] < g[j]
         /\ \A i \in 1 .. Len(b) : b[i] = t[g[i]]
  BY DEF Remainder
<1>0. PICK q, r : q = a \o b /\ r = s \o t /\ Joined(q, a, b) /\ Joined(r, s, t)
  BY ConcatIs
<1> DEFINE h == [i \in 1 .. Len(q) |-> IF i \in 1 .. Len(a) THEN f[i] ELSE Len(s) + g[i - Len(a)]]
<1>3. /\ Len(a) \in Nat /\ Len(b) \in Nat /\ Len(s) \in Nat /\ Len(t) \in Nat
      /\ Len(q) = Len(a) + Len(b) /\ Len(r) = Len(s) + Len(t)
  BY <1>0 DEF Joined
<1>4. ASSUME NEW i \in 1 .. Len(a)
      PROVE  i \in 1 .. Len(q) /\ h[i] = f[i] /\ f[i] \in 1 .. Len(s)
  <2>1. i \in 1 .. Len(q)
    BY <1>3
  <2>2. f[i] \in 1 .. Len(s)
    OBVIOUS
  <2> QED  BY <2>1, <2>2
<1>5. ASSUME NEW i \in 1 .. Len(b)
      PROVE  /\ Len(a) + i \in 1 .. Len(q) /\ h[Len(a) + i] = Len(s) + g[i] /\ g[i] \in 1 .. Len(t)
  <2>1. Len(a) + i \in 1 .. Len(q) /\ Len(a) + i \notin 1 .. Len(a) /\ (Len(a) + i) - Len(a) = i
    BY <1>3
  <2>2. h[Len(a) + i] = Len(s) + g[i]
    BY <2>1
  <2> QED  BY <1>2, <2>1, <2>2
<1>6. \A i \in 1 .. Len(q) : i \in 1 .. Len(a) \/ \E j \in 1 .. Len(b) : i = Len(a) + j
  BY <1>0 DEF Joined
<1>7. h = [i \in 1 .. Len(q) |-> h[i]]
  OBVIOUS
<1> HIDE DEF h
<1>8. h \in [1 .. Len(q) -> 1 .. Len(r)]
  <2>1. ASSUME NEW i \in 1 .. Len(q)  PROVE h[i] \in 1 .. Len(r)
    <3>1. CASE i \in 1 .. Len(a)
      BY <1>3, <1>4, <3>1
    <3>2. CASE \E j \in 1 .. Len(b) : i = Len(a) + j
      BY <1>3, <1>5, <3>2
    <3> QED  BY <1>6, <3>1, <3>2
  <2> QED  BY <1>7, <2>1
<1>9. ASSUME NEW i \in 1 .. Len(q), NEW j \in 1 .. Len(q), i < j  PROVE h[i] < h[j]
  <2>1. CASE j \in 1 .. Len(a)
    <3>1. i \in 1 .. Len(a)
      BY <1>3, <1>9, <2>1
    <3> QED  BY <1>1, <1>4, <1>9, <2>1, <3>1
  <2>2. CASE i \in 1 .. Len(a) /\ \E m \in 1 .. Len(b) : j = Len(a) + m
    <3>1. PICK m \in 1 .. Len(b) : j = Len(a) + m
      BY <2>2
    <3>2. h[i] \in 1 .. Len(s) /\ h[j] = Len(s) + g[m] /\ g[m] \in 1 .. Len(t)
      BY <1>4, <1>5, <2>2, <3>1
    <3> QED  BY <1>3, <3>2
  <2>3. CASE (\E k \in 1 .. Len(b) : i = Len(a) + k) /\ \E m \in 1 .. Len(b) : j = Len(a) + m
    <3>1. PICK k \in 1 .. Len(b), m \in 1 .. Len(b) : i = Len(a) + k /\ j = Len(a) + m
      BY <2>3
    <3>2. k < m
      BY <1>3, <1>9, <3>1
    <3>3. /\ h[i] = Len(s) + g[k] /\ h[j] = Len(s) + g[m] /\ g[k] \in 1 .. Len(t) /\ g[m] \in 1 .. Len(t)
          /\ g[k] < g[m]
      BY <1>2, <1>5, <3>1, <3>2
    <3> QED  BY <1>3, <3>3
  <2> QED  BY <1>6, <2>1, <2>2, <2>3
<1>10. ASSUME NEW i \in 1 .. Len(q)  PROVE q[i] = r[h[i]]
  <2>1. CASE i \in 1 .. Len(a)
    <3>1. q[i] = a[i] /\ h[i] = f[i] /\ f[i] \in 1 .. Len(s)
      BY <1>0, <1>4, <2>1 DEF Joined
    <3>2. r[f[i]] = s[f[i]]
      BY <1>0, <3>1 DEF Joined
    <3> QED  BY <1>1, <2>1, <3>1, <3>2
  <2>2. CASE \E j \in 1 .. Len(b) : i = Len(a) + j
    <3>1. PICK j \in 1 .. Len(b) : i = Len(a) + j
      BY <2>2
    <3>2. q[i] = b[j] /\ h[i] = Len(s) + g[j] /\ g[j] \in 1 .. Len(t)
      BY <1>0, <1>5, <3>1 DEF Joined
    <3>3. r[Len(s) + g[j]] = t[g[j]]
      BY <1>0, <3>2 DEF Joined
    <3> QED  BY <1>2, <3>2, <3>3
  <2> QED  BY <1>6, <2>1, <2>2
<1>11. Remainder(q, r)
  BY <1>8, <1>9, <1>10 DEF Remainder
<1> QED  BY <1>0, <1>11

LEMMA RemainderElements ==
  ASSUME NEW T, NEW q \in Seq(T), NEW s \in Seq(T), Remainder(q, s)
  PROVE  Elements(q) \subseteq Elements(s)
BY DEF Remainder, Elements

(* A filtered line.                                                        *)
LEMMA FilterRemains ==
  ASSUME NEW T, NEW s \in Seq(T), NEW S
  PROVE  /\ Filter(s, S) \in Seq(T) /\ Remainder(Filter(s, S), s)
         /\ Elements(Filter(s, S)) = Elements(s) \cap S
<1> DEFINE r == Filter(s, S)
<1>1. PICK g : r \in Seq(T) /\ Picks(s, S, Len(s), r, g)
  BY FilterIs
<1> HIDE DEF r
<1>2. Remainder(r, s)
  BY <1>1 DEF Picks, Remainder
<1>3. ASSUME NEW x \in Elements(r)  PROVE x \in Elements(s) \cap S
  <2>1. PICK i \in 1 .. Len(r) : x = r[i]
    BY DEF Elements
  <2>2. g[i] \in 1 .. Len(s) /\ x = s[g[i]] /\ s[g[i]] \in S
    BY <1>1, <2>1 DEF Picks
  <2> QED  BY <2>2 DEF Elements
<1>4. ASSUME NEW x \in Elements(s) \cap S  PROVE x \in Elements(r)
  <2>1. PICK j \in 1 .. Len(s) : x = s[j]
    BY DEF Elements
  <2>2. PICK i \in 1 .. Len(r) : g[i] = j
    BY <1>1, <2>1 DEF Picks
  <2>3. r[i] = x
    BY <1>1, <2>1, <2>2 DEF Picks
  <2> QED  BY <2>3 DEF Elements
<1> QED  BY <1>1, <1>2, <1>3, <1>4 DEF r

(* A line is as long as it has elements.                                   *)
LEMMA LineLength ==
  ASSUME NEW n \in Nat, NEW s, Line(s, n)
  PROVE  IsFiniteSet(Elements(s)) /\ Len(s) <= Cardinality(Elements(s))
<1>1. s \in Seq(1 .. n) /\ Len(s) \in Nat
  BY DEF Line
<1>0. 1 \in Int /\ n \in Int /\ Len(s) \in Int
  BY <1>1
<1>2. IsFiniteSet(1 .. n) /\ IsFiniteSet(1 .. Len(s)) /\ Cardinality(1 .. Len(s)) = Len(s)
  <2>1. IsFiniteSet(1 .. n)
    BY <1>0, FS_Interval
  <2>2. IsFiniteSet(1 .. Len(s)) /\ Cardinality(1 .. Len(s)) = IF 1 > Len(s) THEN 0 ELSE Len(s) - 1 + 1
    BY <1>0, FS_Interval
  <2>3. (IF 1 > Len(s) THEN 0 ELSE Len(s) - 1 + 1) = Len(s)
    BY <1>1
  <2> QED  BY <2>1, <2>2, <2>3
<1>3. Elements(s) \subseteq 1 .. n
  BY <1>1, NoneBefore
<1>4. IsFiniteSet(Elements(s))
  BY <1>2, <1>3, FS_Subset
<1> DEFINE f == [i \in 1 .. Len(s) |-> s[i]]
<1>5. f \in Injection(1 .. Len(s), Elements(s))
  <2>1. f \in [1 .. Len(s) -> Elements(s)]
    BY DEF Elements
  <2>2. ASSUME NEW i \in 1 .. Len(s), NEW j \in 1 .. Len(s), f[i] = f[j]  PROVE i = j
    <3>1. s[i] \in 1 .. n /\ s[j] \in 1 .. n /\ s[i] = s[j]
      BY <1>1, <2>2
    <3>2. ~(s[i] < s[j]) /\ ~(s[j] < s[i])
      BY <3>1
    <3>3. ~(i < j) /\ ~(j < i)
      BY <3>2 DEF Line
    <3> QED  BY <1>1, <3>3
  <2> QED  BY <2>1, <2>2 DEF Injection, IsInjective
<1> DEFINE D == 1 .. Len(s)  E == Elements(s)
<1> HIDE DEF D, E
<1>6. f \in Injection(D, E) /\ IsFiniteSet(E)
  BY <1>4, <1>5 DEF D, E
<1>7. Cardinality(D) <= Cardinality(E)
  BY <1>6, FS_Injection
<1> QED  BY <1>2, <1>4, <1>7 DEF D, E

(* The parts of s \o t.                                                    *)
LEMMA SplitConcat ==
  ASSUME NEW T, NEW s \in Seq(T), NEW t \in Seq(T)
  PROVE  /\ SubSeq(s \o t, 1, Len(s)) = s
         /\ SubSeq(s \o t, Len(s) + 1, Len(s \o t)) = t
         /\ Len(s) <= Len(s \o t)
<1>1. PICK r : r = s \o t /\ r \in Seq(T) /\ Joined(r, s, t)
  BY ConcatIs
<1>2. Len(r) \in Nat /\ Len(s) \in Nat /\ Len(t) \in Nat /\ Len(r) = Len(s) + Len(t)
  BY <1>1 DEF Joined
<1>3. Len(s) \in 0 .. Len(r)
  BY <1>2
<1>4. r \in Seq(T)
  BY <1>1
<1>5. PICK a, b : a = SubSeq(r, 1, Len(s)) /\ b = SubSeq(r, Len(s) + 1, Len(r))
  OBVIOUS
<1>6. /\ a \in Seq(T) /\ Len(a) = Len(s) /\ \A i \in 1 .. Len(s) : a[i] = r[i]
      /\ b \in Seq(T) /\ Len(b) = Len(t) /\ \A i \in 1 .. Len(t) : b[i] = r[Len(s) + i]
  <2>1. a \in Seq(T) /\ b \in Seq(T) /\ Len(a) = Len(s) /\ Len(b) = Len(r) - Len(s)
    BY <1>3, <1>4, <1>5, Split
  <2>2. Len(b) = Len(t)
    BY <1>2, <2>1
  <2>3. \A i \in 1 .. Len(s) : a[i] = r[i]
    BY <1>2, <1>3, <1>4, <1>5
  <2>4. \A i \in 1 .. Len(t) : b[i] = r[Len(s) + i]
    BY <1>2, <1>3, <1>4, <1>5
  <2> QED  BY <2>1, <2>2, <2>3, <2>4
<1>7. a = s
  <2>1. \A i \in 1 .. Len(a) : a[i] = s[i]
    BY <1>1, <1>6 DEF Joined
  <2> QED  BY <1>6, <2>1, SeqEqual
<1>8. b = t
  <2>1. \A i \in 1 .. Len(b) : b[i] = t[i]
    BY <1>1, <1>6 DEF Joined
  <2> QED  BY <1>6, <2>1, SeqEqual
<1>9. Len(s) <= Len(r)
  BY <1>2
<1> QED  BY <1>1, <1>5, <1>7, <1>8, <1>9

LEMMA RemainderOfRemainder ==
  ASSUME NEW T, NEW q \in Seq(T), NEW r \in Seq(T), NEW s \in Seq(T), Remainder(q, r), Remainder(r, s)
  PROVE  Remainder(q, s)
<1>1. PICK f \in [1 .. Len(q) -> 1 .. Len(r)] :
         /\ \A i, j \in 1 .. Len(q) : i < j => f[i] < f[j]
         /\ \A i \in 1 .. Len(q) : q[i] = r[f[i]]
  BY DEF Remainder
<1>2. PICK g \in [1 .. Len(r) -> 1 .. Len(s)] :
         /\ \A i, j \in 1 .. Len(r) : i < j => g[i] < g[j]
         /\ \A i \in 1 .. Len(r) : r[i] = s[g[i]]
  BY DEF Remainder
<1> DEFINE h == [i \in 1 .. Len(q) |-> g[f[i]]]
<1>3. \A i \in 1 .. Len(q) : f[i] \in 1 .. Len(r) /\ h[i] = g[f[i]] /\ h[i] \in 1 .. Len(s)
  BY <1>1, <1>2
<1>4. h \in [1 .. Len(q) -> 1 .. Len(s)]
  BY <1>3
<1> HIDE DEF h
<1>5. \A i, j \in 1 .. Len(q) : i < j => h[i] < h[j]
  BY <1>1, <1>2, <1>3
<1>6. \A i \in 1 .. Len(q) : q[i] = s[h[i]]
  BY <1>1, <1>2, <1>3
<1> QED  BY <1>4, <1>5, <1>6 DEF Remainder

-----------------------------------------------------------------------------
(* Lines in which nothing stands twice.                                    *)
Distinct(s) == \A i, j \in 1 .. Len(s) : s[i] = s[j] => i = j

LEMMA RemainderDistinct ==
  ASSUME NEW T, NEW s \in Seq(T), Distinct(s), NEW q \in Seq(T), Remainder(q, s)
  PROVE  Distinct(q)
<1>1. PICK f \in [1 .. Len(q) -> 1 .. Len(s)] :
         /\ \A i, j \in 1 .. Len(q) : i < j => f[i] < f[j]
         /\ \A i \in 1 .. Len(q) : q[i] = s[f[i]]
  BY DEF Remainder
<1>2. ASSUME NEW i \in 1 .. Len(q), NEW j \in 1 .. Len(q), q[i] = q[j]
      PROVE  i = j
  <2>1. f[i] \in 1 .. Len(s) /\ f[j] \in 1 .. Len(s) /\ s[f[i]] = s[f[j]]
    BY <1>1, <1>2
  <2>2. f[i] = f[j]
    BY <2>1 DEF Distinct
  <2>3. f[i] \in Nat /\ i \in Nat /\ j \in Nat
    BY <2>1
  <2>4. ~(i < j) /\ ~(j < i)
    BY <1>1, <2>2, <2>3
  <2> QED  BY <2>3, <2>4
<1> QED  BY <1>2 DEF Distinct

LEMMA FilterDistinct ==
  ASSUME NEW T, NEW s \in Seq(T), Distinct(s), NEW S
  PROVE  Distinct(Filter(s, S))
BY FilterRemains, RemainderDistinct

LEMMA ConcatDistinct ==
  ASSUME NEW T, NEW s \in Seq(T), NEW t \in Seq(T), Distinct(s), Distinct(t),
         Elements(s) \cap Elements(t) = {}
  PROVE  Distinct(s \o t)
<1>1. PICK r : r = s \o t /\ Joined(r, s, t)
  BY ConcatIs
<1>2. ASSUME NEW i \in 1 .. Len(r), NEW j \in 1 .. Len(r), r[i] = r[j]
      PROVE  i = j
  <2>1. CASE i \in 1 .. Len(s) /\ j \in 1 .. Len(s)
    BY <1>1, <1>2, <2>1 DEF Joined, Distinct
  <2>2. ASSUME NEW k \in 1 .. Len(t), NEW l \in 1 .. Len(t), i = Len(s) + k, j = Len(s) + l
        PROVE  i = j
    <3>1. t[k] = t[l]
      BY <1>1, <1>2, <2>2 DEF Joined
    <3> QED  BY <2>2, <3>1 DEF Distinct
  <2>3. ASSUME NEW k \in 1 .. Len(s), NEW l \in 1 .. Len(t), r[k] = r[Len(s) + l]
        PROVE  FALSE
    <3>1. s[k] = t[l]
      BY <1>1, <2>3 DEF Joined
    <3>2. s[k] \in Elements(s) /\ t[l] \in Elements(t)
      BY DEF Elements
    <3> QED  BY <3>1, <3>2
  <2>4. /\ i \in 1 .. Len(s) \/ \E k \in 1 .. Len(t) : i = Len(s) + k
        /\ j \in 1 .. Len(s) \/ \E l \in 1 .. Len(t) : j = Len(s) + l
    BY <1>1 DEF Joined
  <2> QED  BY <1>2, <2>1, <2>2, <2>3, <2>4
<1>3. Distinct(r)
  BY <1>2 DEF Distinct
<1> QED  BY <1>1, <1>3

(* A line of one.                                                          *)
LEMMA OneAlone ==
  ASSUME NEW T, NEW e \in T
  PROVE  <<e>> \in Seq(T) /\ Len(<<e>>) = 1 /\ Elements(<<e>>) = {e} /\ Distinct(<<e>>)
<1>1. <<e>> \in Seq(T) /\ Len(<<e>>) = 1 /\ <<e>>[1] = e /\ 1 .. 1 = {1}
  OBVIOUS
<1> QED  BY <1>1 DEF Elements, Distinct

(* Somebody joins the line.                                                *)
LEMMA AppendIs ==
  ASSUME NEW T, NEW s \in Seq(T), NEW e \in T
  PROVE  /\ Append(s, e) \in Seq(T) /\ Elements(Append(s, e)) = Elements(s) \cup {e}
         /\ (Distinct(s) /\ e \notin Elements(s) => Distinct(Append(s, e)))
<1>1. Append(s, e) = s \o <<e>> /\ <<e>> \in Seq(T)
  OBVIOUS
<1>2. Elements(<<e>>) = {e} /\ Distinct(<<e>>)
  BY OneAlone
<1>3. s \o <<e>> \in Seq(T) /\ Elements(s \o <<e>>) = Elements(s) \cup Elements(<<e>>)
  BY <1>1, ConcatIs, ConcatElements
<1>4. Distinct(s) /\ e \notin Elements(s) => Distinct(s \o <<e>>)
  BY <1>1, <1>2, ConcatDistinct
<1> QED  BY <1>1, <1>2, <1>3, <1>4

(* The head of a line leaves it, or stays its head while others leave.     *)
LEMMA TailIs ==
  ASSUME NEW T, NEW s \in Seq(T), s # <<>>
  PROVE  /\ Tail(s) \in Seq(T) /\ Head(s) \in T
         /\ Elements(s) = Elements(Tail(s)) \cup {Head(s)}
         /\ (Distinct(s) => Distinct(Tail(s)) /\ Head(s) \notin Elements(Tail(s)))
<1>1. PICK h, t : h = Head(s) /\ t = Tail(s)
  OBVIOUS
<1>2. /\ t \in Seq(T) /\ h \in T /\ h = s[1] /\ Len(s) \in Nat /\ 1 \in 1 .. Len(s)
      /\ Len(t) = Len(s) - 1 /\ \A i \in 1 .. Len(t) : t[i] = s[i + 1]
  BY <1>1
<1>3. \A i \in 1 .. Len(t) : i \in Nat /\ i + 1 \in 1 .. Len(s) /\ i + 1 # 1
  BY <1>2
<1>4. ASSUME NEW x \in Elements(s)  PROVE x \in Elements(t) \cup {h}
  <2>1. PICK i \in 1 .. Len(s) : x = s[i]
    BY DEF Elements
  <2>2. CASE i = 1
    BY <1>2, <2>1, <2>2
  <2>3. CASE i # 1
    <3>1. PICK j : j = i - 1
      OBVIOUS
    <3>2. i \in Nat /\ i >= 1 /\ i <= Len(s)
      BY <1>2
    <3>3. j \in 1 .. Len(t) /\ j + 1 = i
      BY <1>2, <2>3, <3>1, <3>2
    <3>4. t[j] = s[i]
      BY <1>2, <3>3
    <3> QED  BY <2>1, <3>3, <3>4 DEF Elements
  <2> QED  BY <2>2, <2>3
<1>5. Elements(s) = Elements(t) \cup {h}
  <2>1. h \in Elements(s)
    BY <1>2 DEF Elements
  <2>2. ASSUME NEW x \in Elements(t)  PROVE x \in Elements(s)
    <3>1. PICK i \in 1 .. Len(t) : x = t[i]
      BY DEF Elements
    <3>2. x = s[i + 1] /\ i + 1 \in 1 .. Len(s)
      BY <1>2, <1>3, <3>1
    <3> QED  BY <3>2 DEF Elements
  <2> QED  BY <1>4, <2>1, <2>2
<1>6. ASSUME Distinct(s)  PROVE Distinct(t) /\ h \notin Elements(t)
  <2>1. ASSUME NEW i \in 1 .. Len(t), NEW j \in 1 .. Len(t), t[i] = t[j]  PROVE i = j
    <3>1. s[i + 1] = s[j + 1] /\ i + 1 \in 1 .. Len(s) /\ j + 1 \in 1 .. Len(s)
      BY <1>2, <1>3, <2>1
    <3>2. i + 1 = j + 1
      BY <1>6, <3>1 DEF Distinct
    <3> QED  BY <1>3, <3>2
  <2>2. ASSUME NEW i \in 1 .. Len(t), t[i] = h  PROVE FALSE
    <3>1. s[i + 1] = s[1] /\ i + 1 \in 1 .. Len(s) /\ 1 \in 1 .. Len(s) /\ i + 1 # 1
      BY <1>2, <1>3, <2>2
    <3> QED  BY <1>6, <3>1 DEF Distinct
  <2> QED  BY <2>1, <2>2 DEF Distinct, Elements
<1> QED  BY <1>1, <1>2, <1>5, <1>6

LEMMA FilterHead ==
  ASSUME NEW T, NEW s \in Seq(T), s # <<>>, NEW S, Head(s) \in S
  PROVE  Filter(s, S) # <<>> /\ Head(Filter(s, S)) = Head(s)
<1>1. PICK r, g : r = Filter(s, S) /\ r \in Seq(T) /\ Picks(s, S, Len(s), r, g)
  BY FilterIs
<1>2. Head(s) = s[1] /\ 1 \in 1 .. Len(s) /\ Len(r) \in Nat
  BY <1>1
<1>3. PICK i \in 1 .. Len(r) : g[i] = 1
  BY <1>1, <1>2 DEF Picks
<1>4. 1 \in 1 .. Len(r) /\ g[1] \in 1 .. Len(s)
  <2>1. i \in Nat /\ 1 <= i /\ i <= Len(r)
    BY <1>2
  <2>2. 1 \in 1 .. Len(r)
    BY <1>2, <2>1
  <2>3. g \in [1 .. Len(r) -> 1 .. Len(s)]
    BY <1>1 DEF Picks
  <2> QED  BY <2>2, <2>3
<1>5. i = 1
  <2>1. ~(1 < i)
    BY <1>1, <1>3, <1>4 DEF Picks
  <2> QED  BY <1>2, <2>1
<1>6. r[1] = s[1]
  BY <1>1, <1>3, <1>4, <1>5 DEF Picks
<1>7. r # <<>> /\ Head(r) = r[1]
  BY <1>1, <1>4
<1> QED  BY <1>1, <1>2, <1>6, <1>7

(* A line where nobody stands twice has at most as many as there are.      *)
LEMMA DistinctLength ==
  ASSUME NEW T, IsFiniteSet(T), NEW s \in Seq(T), Distinct(s)
  PROVE  Len(s) <= Cardinality(T)
<1>1. Len(s) \in Nat /\ 1 \in Int /\ Len(s) \in Int
  OBVIOUS
<1> DEFINE D == 1 .. Len(s)
           f == [i \in D |-> s[i]]
<1>2. Cardinality(D) = Len(s)
  <2>1. Cardinality(D) = IF 1 > Len(s) THEN 0 ELSE Len(s) - 1 + 1
    BY <1>1, FS_Interval
  <2>2. (IF 1 > Len(s) THEN 0 ELSE Len(s) - 1 + 1) = Len(s)
    BY <1>1
  <2> QED  BY <2>1, <2>2
<1>3. f \in Injection(D, T)
  <2>1. f \in [D -> T]
    OBVIOUS
  <2>2. \A i, j \in D : f[i] = f[j] => i = j
    BY DEF Distinct
  <2> QED  BY <2>1, <2>2 DEF Injection, IsInjective
<1> HIDE DEF D, f
<1>4. Cardinality(D) <= Cardinality(T)
  BY <1>3, FS_Injection
<1> QED  BY <1>2, <1>4
=============================================================================
