---------------------------- MODULE Lists_proofs ----------------------------
(***************************************************************************)
(* What the operators on lists return, for all lists.                      *)
(***************************************************************************)
EXTENDS Lists, Integers, SequencesExt, SequenceTheorems, WellFoundedInduction, TLAPS

(* A set of natural numbers has a least element.                           *)
LEMMA LeastNumber ==
  ASSUME NEW T \in SUBSET Nat, T # {}
  PROVE  \E x \in T : \A y \in T : x <= y
<1>1. IsWellFoundedOn(OpToRel(<, Nat), Nat)
  BY NatLessThanWellFounded
<1>2. PICK x \in T : \A y \in T : ~ (<<y, x>> \in OpToRel(<, Nat))
  BY <1>1, WFMin
<1>3. \A y \in T : ~ (y < x)
  BY <1>2 DEF OpToRel
<1> QED
  BY <1>3

(* A function on 1 .. n is a sequence.                                     *)
LEMMA FunctionIsSeq ==
  ASSUME NEW S, NEW n \in Nat, NEW f, DOMAIN f = 1 .. n, f = [i \in 1 .. n |-> f[i]],
         \A i \in 1 .. n : f[i] \in S
  PROVE  f \in Seq(S) /\ Len(f) = n
<1>1. f \in [1 .. n -> S]
  OBVIOUS
<1> QED
  BY <1>1

(* Elements of a sequence.                                                 *)
LEMMA ElementFacts ==
  ASSUME NEW S, NEW s \in Seq(S)
  PROVE  /\ Len(s) \in Nat /\ DOMAIN s = 1 .. Len(s)
         /\ \A i \in 1 .. Len(s) : s[i] \in S
         /\ s = [i \in 1 .. Len(s) |-> s[i]]
OBVIOUS

(* What RemoveAt leaves of a list.                                         *)
LEMMA RemoveAtFacts ==
  ASSUME NEW S, NEW s \in Seq(S), NEW i \in 1 .. Len(s)
  PROVE  /\ RemoveAt(s, i) \in Seq(S)
         /\ Len(RemoveAt(s, i)) = Len(s) - 1
         /\ \A j \in 1 .. Len(s) - 1 :
              RemoveAt(s, i)[j] = IF j < i THEN s[j] ELSE s[j + 1]
<1> DEFINE front == SubSeq(s, 1, i - 1)
           rest == SubSeq(s, i + 1, Len(s))
<1>0. Len(s) \in Nat /\ \A j \in 1 .. Len(s) : s[j] \in S
  BY ElementFacts
<1>1. front \in Seq(S) /\ Len(front) = i - 1 /\ \A j \in 1 .. i - 1 : front[j] = s[j]
  <2>1. \A j \in 1 .. i - 1 : s[j] \in S
    BY <1>0
  <2> QED
    BY <1>0, <2>1, SubSeqProperties
<1>2. rest \in Seq(S) /\ Len(rest) = Len(s) - i /\ \A j \in 1 .. Len(s) - i : rest[j] = s[i + j]
  <2>1. \A j \in i + 1 .. Len(s) : s[j] \in S
    BY <1>0
  <2> QED
    BY <1>0, <2>1, SubSeqProperties
<1>3. /\ front \o rest \in Seq(S)
      /\ Len(front \o rest) = Len(front) + Len(rest)
      /\ \A j \in 1 .. Len(front) + Len(rest) :
           (front \o rest)[j] = IF j <= Len(front) THEN front[j] ELSE rest[j - Len(front)]
  BY <1>1, <1>2, ConcatProperties
<1> HIDE DEF front, rest
<1>4. ASSUME NEW j \in 1 .. Len(s) - 1
      PROVE  (front \o rest)[j] = IF j < i THEN s[j] ELSE s[j + 1]
  <2>1. CASE j < i
    BY <2>1, <1>0, <1>1, <1>2, <1>3
  <2>2. CASE j >= i
    <3>1. (front \o rest)[j] = rest[j - (i - 1)]
      BY <2>2, <1>0, <1>1, <1>2, <1>3
    <3>2. j - (i - 1) \in 1 .. Len(s) - i /\ i + (j - (i - 1)) = j + 1
      BY <2>2, <1>0
    <3>3. rest[j - (i - 1)] = s[i + (j - (i - 1))]
      BY <3>2, <1>2
    <3>4. ~ (j < i)
      BY <2>2, <1>0
    <3> QED
      BY <3>1, <3>2, <3>3, <3>4
  <2>3. j < i \/ j >= i
    BY <1>0
  <2> QED
    BY <2>1, <2>2, <2>3
<1>5. Len(front \o rest) = Len(s) - 1
  BY <1>0, <1>1, <1>2, <1>3
<1>6. RemoveAt(s, i) = front \o rest
  BY DEF RemoveAt, front, rest
<1> QED
  BY <1>3, <1>4, <1>5, <1>6

-----------------------------------------------------------------------------
(* Kept *)

(* u is what Kept computes up to index n.                                  *)
KeptUpTo(s, S, u, n) ==
  /\ u[0] = << >>
  /\ \A i \in 1 .. n :
       u[i] = IF s[i] \in S THEN Append(u[i - 1], s[i]) ELSE u[i - 1]

LEMMA PrefixesExist ==
  ASSUME NEW A, NEW s \in Seq(A), NEW S
  PROVE  \A n \in 0 .. Len(s) : \E u \in [0 .. n -> Seq(A)] : KeptUpTo(s, S, u, n)
<1> DEFINE Bad == {n \in 0 .. Len(s) : ~ \E u \in [0 .. n -> Seq(A)] : KeptUpTo(s, S, u, n)}
<1> SUFFICES ASSUME Bad # {}
             PROVE  FALSE
  OBVIOUS
<1>1. Len(s) \in Nat /\ DOMAIN s = 1 .. Len(s) /\ \A i \in 1 .. Len(s) : s[i] \in A
  OBVIOUS
<1>2. PICK n \in Bad : \A m \in Bad : n <= m
  <2>1. Bad \in SUBSET Nat
    BY <1>1
  <2> HIDE DEF Bad
  <2> QED
    BY <2>1, LeastNumber
<1>3. n # 0
  <2>1. ASSUME n = 0
        PROVE  FALSE
    <3> DEFINE u == [k \in 0 .. 0 |-> << >>]
    <3>1. << >> \in Seq(A)
      OBVIOUS
    <3>2. u \in [0 .. 0 -> Seq(A)] /\ u[0] = << >>
      BY <3>1
    <3>3. KeptUpTo(s, S, u, 0)
      BY <3>2 DEF KeptUpTo
    <3> QED
      BY <2>1, <3>2, <3>3
  <2> QED
    BY <2>1
<1>4. n - 1 \in 0 .. Len(s) /\ n \in 1 .. Len(s)
  BY <1>1, <1>3
<1>5. n - 1 \notin Bad
  <2>1. ~ (n <= n - 1)
    BY <1>4
  <2> HIDE DEF Bad
  <2> QED
    BY <1>2, <2>1
<1>6. PICK u \in [0 .. n - 1 -> Seq(A)] : KeptUpTo(s, S, u, n - 1)
  BY <1>4, <1>5
<1>7. PICK e : e = IF s[n] \in S THEN Append(u[n - 1], s[n]) ELSE u[n - 1]
  OBVIOUS
<1>8. e \in Seq(A)
  <2>1. u[n - 1] \in Seq(A) /\ s[n] \in A
    BY <1>1, <1>4
  <2> QED
    BY <1>7, <2>1, AppendProperties
<1> DEFINE w == [k \in 0 .. n |-> IF k = n THEN e ELSE u[k]]
<1>9. \A k \in 0 .. n - 1 : w[k] = u[k] /\ k \in 0 .. n
  BY <1>4
<1>10. w \in [0 .. n -> Seq(A)] /\ w[n] = e
  <2>1. \A k \in 0 .. n : k # n => k \in 0 .. n - 1
    BY <1>4
  <2> QED
    BY <1>4, <1>8, <2>1
<1> HIDE DEF w
<1>11. KeptUpTo(s, S, w, n)
  <2>1. w[0] = << >>
    BY <1>4, <1>6, <1>9 DEF KeptUpTo
  <2>2. ASSUME NEW i \in 1 .. n
        PROVE  w[i] = IF s[i] \in S THEN Append(w[i - 1], s[i]) ELSE w[i - 1]
    <3>1. CASE i = n
      <4>1. w[i - 1] = u[n - 1]
        BY <1>4, <1>9, <3>1
      <4> QED
        BY <1>7, <1>10, <3>1, <4>1
    <3>2. CASE i # n
      <4>1. i \in 1 .. n - 1 /\ i \in 0 .. n - 1 /\ i - 1 \in 0 .. n - 1
        BY <1>4, <3>2
      <4>2. w[i] = u[i] /\ w[i - 1] = u[i - 1]
        BY <1>9, <4>1
      <4> QED
        BY <1>6, <4>1, <4>2 DEF KeptUpTo
    <3> QED
      BY <3>1, <3>2
  <2> QED
    BY <2>1, <2>2 DEF KeptUpTo
<1>12. \E u2 \in [0 .. n -> Seq(A)] : KeptUpTo(s, S, u2, n)
  BY <1>10, <1>11
<1> QED
  BY <1>12

(* The recursion of Kept is well defined.                                  *)
LEMMA KeptPrefixes ==
  ASSUME NEW A, NEW s \in Seq(A), NEW S
  PROVE  \E u : KeptUpTo(s, S, u, Len(s)) /\ Kept(s, S) = u[Len(s)]
<1> DEFINE F == CHOOSE u : u = [n \in 0 .. Len(s) |->
                                  IF n = 0 THEN << >>
                                  ELSE IF s[n] \in S THEN Append(u[n - 1], s[n])
                                  ELSE u[n - 1]]
<1>1. Kept(s, S) = F[Len(s)]
  BY DEF Kept
<1>2. Len(s) \in Nat
  OBVIOUS
<1>3. PICK v \in [0 .. Len(s) -> Seq(A)] : KeptUpTo(s, S, v, Len(s))
  <2>1. Len(s) \in 0 .. Len(s)
    BY <1>2
  <2> QED
    BY <2>1, PrefixesExist
<1>4. v = [n \in 0 .. Len(s) |->
             IF n = 0 THEN << >>
             ELSE IF s[n] \in S THEN Append(v[n - 1], s[n])
             ELSE v[n - 1]]
  <2>1. ASSUME NEW n \in 0 .. Len(s)
        PROVE  v[n] = IF n = 0 THEN << >>
                      ELSE IF s[n] \in S THEN Append(v[n - 1], s[n])
                      ELSE v[n - 1]
    <3>1. CASE n = 0
      BY <1>3, <3>1 DEF KeptUpTo
    <3>2. CASE n # 0
      <4>1. n \in 1 .. Len(s)
        BY <1>2, <3>2
      <4> QED
        BY <1>3, <3>2, <4>1 DEF KeptUpTo
    <3> QED
      BY <3>1, <3>2
  <2>2. v = [n \in 0 .. Len(s) |-> v[n]]
    OBVIOUS
  <2> QED
    BY <2>1, <2>2, Zenon
<1>5. F = [n \in 0 .. Len(s) |->
             IF n = 0 THEN << >>
             ELSE IF s[n] \in S THEN Append(F[n - 1], s[n])
             ELSE F[n - 1]]
  BY <1>4
<1> HIDE DEF F
<1>6. KeptUpTo(s, S, F, Len(s))
  <2>1. F[0] = << >>
    <3>1. 0 \in 0 .. Len(s)
      BY <1>2
    <3> QED
      BY <1>5, <3>1
  <2>2. ASSUME NEW i \in 1 .. Len(s)
        PROVE  F[i] = IF s[i] \in S THEN Append(F[i - 1], s[i]) ELSE F[i - 1]
    <3>1. i \in 0 .. Len(s) /\ i # 0
      BY <1>2
    <3> QED
      BY <1>5, <3>1
  <2> QED
    BY <2>1, <2>2 DEF KeptUpTo
<1> QED
  BY <1>1, <1>6

(* q lists the elements of s up to index n that belong to S: g maps the    *)
(* indices of q to those of s.                                             *)
Selects(s, S, q, g, n) ==
  /\ \A k \in 1 .. Len(q) : g[k] \in 1 .. n /\ q[k] = s[g[k]] /\ s[g[k]] \in S
  /\ \A k, l \in 1 .. Len(q) : k < l => g[k] < g[l]
  /\ \A i \in 1 .. n : s[i] \in S => \E k \in 1 .. Len(q) : g[k] = i

LEMMA SelectsMore ==
  ASSUME NEW A, NEW s \in Seq(A), NEW S, NEW n \in 1 .. Len(s), NEW q \in Seq(A),
         NEW g, Selects(s, S, q, g, n - 1), s[n] \in S
  PROVE  Append(q, s[n]) \in Seq(A) /\ \E h : Selects(s, S, Append(q, s[n]), h, n)
<1>1. Len(s) \in Nat /\ n \in Nat /\ n - 1 \in Nat /\ s[n] \in A
  OBVIOUS
<1>2. PICK q2 : q2 = Append(q, s[n])
  OBVIOUS
<1>3. /\ q2 \in Seq(A) /\ Len(q) \in Nat /\ Len(q2) = Len(q) + 1 /\ q2[Len(q) + 1] = s[n]
      /\ \A k \in 1 .. Len(q) : q2[k] = q[k]
  BY <1>1, <1>2, AppendProperties
<1>4. PICK N \in Nat : N = Len(q)
  BY <1>3
<1> DEFINE h == [k \in 1 .. N + 1 |-> IF k = N + 1 THEN n ELSE g[k]]
<1>5. h[N + 1] = n /\ \A k \in 1 .. N : h[k] = g[k]
  OBVIOUS
<1> HIDE DEF h
<1>6. \A k \in 1 .. N : g[k] \in 1 .. n - 1 /\ q[k] = s[g[k]] /\ s[g[k]] \in S
  BY <1>4 DEF Selects
<1>7. \A k \in 1 .. N : g[k] \in Nat /\ g[k] < n /\ g[k] \in 1 .. n
  BY <1>1, <1>6
<1>8. ASSUME NEW k \in 1 .. N + 1
      PROVE  h[k] \in 1 .. n /\ q2[k] = s[h[k]] /\ s[h[k]] \in S
  <2>1. CASE k = N + 1
    BY <1>1, <1>3, <1>4, <1>5, <2>1
  <2>2. CASE k # N + 1
    <3>1. k \in 1 .. N
      BY <2>2
    <3> QED
      BY <1>3, <1>4, <1>5, <1>6, <1>7, <3>1
  <2> QED
    BY <2>1, <2>2
<1>9. ASSUME NEW k \in 1 .. N + 1, NEW l \in 1 .. N + 1, k < l
      PROVE  h[k] < h[l]
  <2>1. k \in 1 .. N
    BY <1>9
  <2>2. CASE l = N + 1
    BY <1>5, <1>7, <2>1, <2>2
  <2>3. CASE l # N + 1
    <3>1. l \in 1 .. N
      BY <2>3
    <3> QED
      BY <1>4, <1>5, <1>9, <2>1, <3>1 DEF Selects
  <2> QED
    BY <2>2, <2>3
<1>10. ASSUME NEW i \in 1 .. n, s[i] \in S
       PROVE  \E k \in 1 .. N + 1 : h[k] = i
  <2>1. CASE i = n
    <3>1. N + 1 \in 1 .. N + 1
      OBVIOUS
    <3> QED
      BY <1>5, <2>1, <3>1
  <2>2. CASE i # n
    <3>1. i \in 1 .. n - 1
      BY <1>1, <2>2
    <3>2. PICK k \in 1 .. N : g[k] = i
      BY <1>4, <1>10, <3>1 DEF Selects
    <3>3. k \in 1 .. N + 1 /\ h[k] = i
      BY <1>5, <3>2
    <3> QED
      BY <3>3
  <2> QED
    BY <2>1, <2>2
<1>11. Selects(s, S, q2, h, n)
  BY <1>3, <1>4, <1>8, <1>9, <1>10 DEF Selects
<1> QED
  BY <1>2, <1>3, <1>11

LEMMA SelectsSame ==
  ASSUME NEW A, NEW s \in Seq(A), NEW S, NEW n \in 1 .. Len(s), NEW q \in Seq(A),
         NEW g, Selects(s, S, q, g, n - 1), s[n] \notin S
  PROVE  Selects(s, S, q, g, n)
<1>1. Len(s) \in Nat /\ n \in Nat /\ n - 1 \in Nat
  OBVIOUS
<1>2. ASSUME NEW i \in 1 .. n, s[i] \in S
      PROVE  i \in 1 .. n - 1
  BY <1>1, <1>2
<1>3. \A k \in 1 .. Len(q) : g[k] \in 1 .. n - 1 => g[k] \in 1 .. n
  BY <1>1
<1> QED
  BY <1>2, <1>3 DEF Selects

(* What Kept returns: the elements of s in S, in their order.              *)
LEMMA KeptFacts ==
  ASSUME NEW A, NEW s \in Seq(A), NEW S
  PROVE  Kept(s, S) \in Seq(A) /\ \E g : Selects(s, S, Kept(s, S), g, Len(s))
<1>1. PICK u : KeptUpTo(s, S, u, Len(s)) /\ Kept(s, S) = u[Len(s)]
  BY KeptPrefixes
<1>2. Len(s) \in Nat
  OBVIOUS
<1> DEFINE Good(n) == u[n] \in Seq(A) /\ \E g : Selects(s, S, u[n], g, n)
           Bad == {n \in 0 .. Len(s) : ~ Good(n)}
<1>3. Good(0)
  <2>1. u[0] = << >> /\ u[0] \in Seq(A) /\ Len(u[0]) = 0
    BY <1>1 DEF KeptUpTo
  <2>2. Selects(s, S, u[0], << >>, 0)
    BY <2>1 DEF Selects
  <2> QED
    BY <2>1, <2>2
<1>4. ASSUME NEW n \in 1 .. Len(s), Good(n - 1)
      PROVE  Good(n)
  <2>1. PICK g : u[n - 1] \in Seq(A) /\ Selects(s, S, u[n - 1], g, n - 1)
    BY <1>4
  <2>2. CASE s[n] \in S
    <3>1. u[n] = Append(u[n - 1], s[n])
      BY <1>1, <2>2 DEF KeptUpTo
    <3> QED
      BY <2>1, <2>2, <3>1, SelectsMore
  <2>3. CASE s[n] \notin S
    <3>1. u[n] = u[n - 1]
      BY <1>1, <2>3 DEF KeptUpTo
    <3> QED
      BY <2>1, <2>3, <3>1, SelectsSame
  <2> QED
    BY <2>2, <2>3
<1> HIDE DEF Good
<1>5. Bad = {}
  <2> SUFFICES ASSUME Bad # {}
               PROVE  FALSE
    OBVIOUS
  <2>1. Bad \in SUBSET Nat
    BY <1>2
  <2>2. PICK n \in Bad : \A m \in Bad : n <= m
    <3> HIDE DEF Bad
    <3> QED
      BY <2>1, LeastNumber
  <2>3. n \in 1 .. Len(s) /\ n - 1 \in 0 .. Len(s) /\ ~ (n <= n - 1)
    BY <1>2, <1>3, <2>2
  <2>4. ~ Good(n - 1)
    BY <1>4, <2>2, <2>3
  <2>5. n - 1 \in Bad
    BY <2>3, <2>4
  <2> QED
    BY <2>2, <2>3, <2>5
<1>6. Good(Len(s))
  BY <1>2, <1>5
<1> QED
  BY <1>1, <1>6 DEF Good
=============================================================================
