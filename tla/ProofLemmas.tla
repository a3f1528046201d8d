---------------------------- MODULE ProofLemmas ----------------------------
(***************************************************************************)
(* Lemmas that the proofs about several components share: the least member *)
(* of a set of numbers, finite sets, sequences without repetitions as the  *)
(* lists and pools of the library are, and a ring of `size' slots seen as  *)
(* a sequence (ogs-queue.c and ogs-pool.h).                                *)
(***************************************************************************)
EXTENDS Integers, SequencesExt, FiniteSetTheorems, SequenceTheorems, WellFoundedInduction, TLAPS

\* A set of natural numbers has a least member: with it a proof may take the
\* smallest counterexample.
LEMMA LeastNumber ==
  ASSUME NEW S, S \subseteq Nat, S # {}
  PROVE  \E n \in S : \A m \in S : n <= m
<1> DEFINE R == {p \in Nat \X Nat : p[1] < p[2]}
<1>1. IsWellFoundedOn(R, Nat)
  <2>1. R = OpToRel(<, Nat)
    BY DEF OpToRel
  <2>2. QED
    BY <2>1, NatLessThanWellFounded
<1>2. PICK n \in S : \A m \in S : <<m, n>> \notin R
  BY <1>1, WFMin
<1>3. \A a, b \in Nat : a < b => <<a, b>> \in R
  OBVIOUS
<1> HIDE DEF R
<1>4. \A m \in S : ~(m < n)
  BY <1>2, <1>3
<1>5. QED
  BY <1>4

\* A function into a finite set that never takes a value twice, from a set of
\* the same size, takes every value.
LEMMA InjectionIsOnto ==
  ASSUME NEW S, NEW T, IsFiniteSet(T), Cardinality(S) = Cardinality(T),
         NEW f \in [S -> T], \A x, y \in S : f[x] = f[y] => x = y
  PROVE  \A t \in T : \E x \in S : f[x] = t
<1>1. f \in Injection(S, T)
  BY DEF Injection, IsInjective
<1>2. f \in Surjection(S, T)
  BY <1>1, FS_Injection
<1>3. QED
  BY <1>2 DEF Surjection

\* Numbers from 1 on without a gap are an interval.
LEMMA LeadingNumbers ==
  ASSUME NEW n \in Nat, NEW S \in SUBSET (1 .. n), \A i \in S : \A j \in 1 .. i : j \in S
  PROVE  Cardinality(S) \in 0 .. n /\ S = 1 .. Cardinality(S)
<1>1. \E m \in 0 .. n : S = 1 .. m
  <2>1. CASE S = 1 .. n
    BY <2>1
  <2>2. CASE S # 1 .. n
    <3>1. PICK m \in (1 .. n) \ S : \A k \in (1 .. n) \ S : m <= k
      <4> DEFINE Rest == (1 .. n) \ S
      <4>1. Rest # {}
        BY <2>2, Zenon
      <4>2. \A i \in 1 .. n : i \in Nat
        OBVIOUS
      <4>3. Rest \subseteq Nat
        BY <4>2, Zenon
      <4> HIDE DEF Rest
      <4>4. \E m \in Rest : \A k \in Rest : m <= k
        BY <4>1, <4>3, LeastNumber
      <4>5. QED
        BY <4>4 DEF Rest
    <3>2. ASSUME NEW i \in S PROVE i \in 1 .. (m - 1)
      <4>1. i \in 1 .. n /\ m \in 1 .. n
        BY <3>1
      <4>2. ~(m <= i)
        <5>1. m <= i => m \in 1 .. i
          BY <4>1
        <5>2. QED
          BY <3>1, <5>1
      <4>3. QED
        BY <4>1, <4>2
    <3>3. ASSUME NEW i \in 1 .. (m - 1) PROVE i \in S
      <4>1. i \in 1 .. n /\ ~(m <= i)
        BY <3>1
      <4>2. QED
        BY <3>1, <4>1
    <3>4. S = 1 .. (m - 1)
      BY <3>2, <3>3, Zenon
    <3>5. m - 1 \in 0 .. n
      BY <3>1
    <3>6. QED
      BY <3>4, <3>5, Zenon
  <2>3. QED
    BY <2>1, <2>2
<1>2. PICK m \in 0 .. n : S = 1 .. m
  BY <1>1
<1>3. Cardinality(1 .. m) = m
  BY FS_Interval
<1>4. QED
  BY <1>2, <1>3

\* A finite set of numbers that is not empty has a greatest member.
LEMMA GreatestNumber ==
  ASSUME NEW S, S \subseteq Nat, IsFiniteSet(S), S # {}
  PROVE  \E n \in S : \A m \in S : n >= m
<1> DEFINE Topless(T) == T # {} /\ \A n \in T : \E m \in T : ~(n >= m)
           Sizes == {Cardinality(T) : T \in {U \in SUBSET S : Topless(U)}}
<1> SUFFICES ASSUME Topless(S) PROVE FALSE
  OBVIOUS
<1>1. \A T \in SUBSET S : IsFiniteSet(T) /\ Cardinality(T) \in Nat
  BY FS_Subset, FS_CardinalityType
<1>2. Sizes \subseteq Nat /\ Cardinality(S) \in Sizes
  BY <1>1
<1>3. \E k \in Sizes : \A l \in Sizes : k <= l
  <2> HIDE DEF Sizes
  <2>1. QED
    BY <1>2, LeastNumber
<1>4. PICK T \in SUBSET S : Topless(T) /\ \A U \in SUBSET S : Topless(U) => Cardinality(T) <= Cardinality(U)
  BY <1>3
<1>5. PICK x \in T : TRUE
  BY <1>4
<1> DEFINE U == T \ {x}
<1>6. U \in SUBSET S /\ Cardinality(U) = Cardinality(T) - 1
  BY <1>1, FS_RemoveElement
<1>7. ~Topless(U)
  <2>1. Cardinality(T) \in Nat
    BY <1>1
  <2>2. ~(Cardinality(T) <= Cardinality(U))
    BY <1>6, <2>1
  <2>3. QED
    BY <1>4, <1>6, <2>2
<1>8. \A n \in T : n \in Nat
  OBVIOUS
<1>9. U # {}
  BY <1>4, <1>5, <1>8
<1>10. PICK n \in U : \A m \in U : n >= m
  BY <1>7, <1>9
<1>11. CASE n >= x
  BY <1>4, <1>10, <1>11
<1>12. CASE ~(n >= x)
  <2>1. \A m \in T : x >= m
    BY <1>8, <1>10, <1>12
  <2>2. QED
    BY <1>4, <2>1
<1>13. QED
  BY <1>11, <1>12

-----------------------------------------------------------------------------
(* Sequences with an item more or less                                     *)

\* RemoveAt of SequencesExt, element by element.
LEMMA RemovedAt ==
  ASSUME NEW S, NEW s \in Seq(S), NEW k \in 1 .. Len(s)
  PROVE  /\ RemoveAt(s, k) \in Seq(S) /\ Len(RemoveAt(s, k)) = Len(s) - 1
         /\ \A i \in 1 .. (Len(s) - 1) : RemoveAt(s, k)[i] = IF i < k THEN s[i] ELSE s[i + 1]
<1> DEFINE a == SubSeq(s, 1, k - 1)
           b == SubSeq(s, k + 1, Len(s))
<1>1. Len(s) \in Nat /\ \A i \in 1 .. Len(s) : s[i] \in S
  BY LenProperties, ElementOfSeq
<1>2. /\ a \in Seq(S) /\ Len(a) = k - 1
      /\ \A i \in 1 .. (k - 1) : a[i] = s[i]
  BY <1>1, SubSeqProperties
<1>3. /\ b \in Seq(S) /\ Len(b) = Len(s) - k
      /\ \A i \in 1 .. (Len(s) - k) : b[i] = s[k + i]
  BY <1>1, SubSeqProperties
<1>4. RemoveAt(s, k) = a \o b
  BY DEF RemoveAt
<1> HIDE DEF a, b
<1>5. /\ a \o b \in Seq(S) /\ Len(a \o b) = Len(a) + Len(b)
      /\ \A i \in 1 .. Len(a) + Len(b) : (a \o b)[i] = IF i <= Len(a) THEN a[i] ELSE b[i - Len(a)]
  BY <1>2, <1>3, ConcatProperties
<1>6. QED
  BY <1>1, <1>2, <1>3, <1>4, <1>5

\* InsertAt of SequencesExt, element by element.
LEMMA InsertedAt ==
  ASSUME NEW S, NEW s \in Seq(S), NEW k \in 1 .. (Len(s) + 1), NEW e \in S
  PROVE  /\ InsertAt(s, k, e) \in Seq(S) /\ Len(InsertAt(s, k, e)) = Len(s) + 1
         /\ InsertAt(s, k, e)[k] = e
         /\ \A i \in 1 .. Len(s) : InsertAt(s, k, e)[IF i < k THEN i ELSE i + 1] = s[i]
<1> DEFINE a == SubSeq(s, 1, k - 1)
           b == SubSeq(s, k, Len(s))
           c == a \o <<e>>
<1>1. Len(s) \in Nat /\ \A i \in 1 .. Len(s) : s[i] \in S
  BY LenProperties, ElementOfSeq
<1>2. /\ a \in Seq(S) /\ Len(a) = k - 1
      /\ \A i \in 1 .. (k - 1) : a[i] = s[i]
  BY <1>1, SubSeqProperties
<1>3. /\ b \in Seq(S) /\ Len(b) = Len(s) - k + 1
      /\ \A i \in 1 .. (Len(s) - k + 1) : b[i] = s[k + i - 1]
  BY <1>1, SubSeqProperties
<1>4. InsertAt(s, k, e) = c \o b
  BY DEF InsertAt
<1>5. <<e>> \in Seq(S) /\ Len(<<e>>) = 1 /\ <<e>>[1] = e
  OBVIOUS
<1> HIDE DEF a, b
<1>6. /\ c \in Seq(S) /\ Len(c) = k
      /\ \A i \in 1 .. (k - 1) : c[i] = s[i]
      /\ c[k] = e
  <2> DEFINE u == <<e>>
  <2> HIDE DEF u
  <2>1. /\ a \o u \in Seq(S) /\ Len(a \o u) = Len(a) + Len(u)
        /\ \A i \in 1 .. Len(a) + Len(u) : (a \o u)[i] = IF i <= Len(a) THEN a[i] ELSE u[i - Len(a)]
    BY <1>2, <1>5, ConcatProperties DEF u
  <2>2. QED
    BY <1>1, <1>2, <1>5, <2>1 DEF u
<1> HIDE DEF c
<1>7. /\ c \o b \in Seq(S) /\ Len(c \o b) = Len(c) + Len(b)
      /\ \A i \in 1 .. Len(c) + Len(b) : (c \o b)[i] = IF i <= Len(c) THEN c[i] ELSE b[i - Len(c)]
  BY <1>3, <1>6, ConcatProperties
<1>8. QED
  BY <1>1, <1>3, <1>4, <1>6, <1>7

\* Sequences without repetition.
LEMMA InjectiveTail ==
  ASSUME NEW S, NEW s \in Seq(S), IsInjective(s), s # << >>
  PROVE  /\ Tail(s) \in Seq(S) /\ IsInjective(Tail(s))
         /\ Head(s) \in S /\ Head(s) \in ToSet(s)
         /\ ToSet(Tail(s)) = ToSet(s) \ {Head(s)}
<1>1. Len(s) \in Nat \ {0} /\ DOMAIN s = 1 .. Len(s) /\ Head(s) = s[1] /\ Head(s) \in S
  BY EmptySeq, LenProperties, HeadTailProperties
<1>2. /\ Tail(s) \in Seq(S) /\ Len(Tail(s)) = Len(s) - 1
      /\ \A i \in 1 .. Len(Tail(s)) : Tail(s)[i] = s[i + 1]
  BY HeadTailProperties
<1>3. DOMAIN Tail(s) = 1 .. (Len(s) - 1)
  BY <1>2, LenProperties
<1> DEFINE t == Tail(s)
<1> HIDE DEF t
<1>4. /\ t \in Seq(S) /\ DOMAIN t = 1 .. (Len(s) - 1)
      /\ \A i \in 1 .. (Len(s) - 1) : i + 1 \in DOMAIN s /\ t[i] = s[i + 1]
  BY <1>1, <1>2, <1>3 DEF t
<1>5. IsInjective(t)
  <2>1. ASSUME NEW i \in DOMAIN t, NEW j \in DOMAIN t, t[i] = t[j] PROVE i = j
    <3>1. i + 1 = j + 1
      BY <1>4, <2>1 DEF IsInjective
    <3>2. QED
      BY <1>4, <3>1
  <2>2. QED
    BY <2>1 DEF IsInjective
<1>6. ToSet(t) \subseteq ToSet(s) \ {s[1]}
  <2>1. ASSUME NEW i \in DOMAIN t PROVE t[i] \in ToSet(s) /\ t[i] # s[1]
    <3>1. t[i] = s[i + 1] /\ i + 1 \in DOMAIN s /\ 1 \in DOMAIN s /\ i + 1 # 1
      BY <1>1, <1>4
    <3>2. QED
      BY <3>1 DEF ToSet, IsInjective
  <2>2. QED
    BY <2>1 DEF ToSet
<1>7. ToSet(s) \ {s[1]} \subseteq ToSet(t)
  <2>1. ASSUME NEW i \in DOMAIN s, s[i] # s[1] PROVE s[i] \in ToSet(t)
    <3>1. i - 1 \in DOMAIN t /\ t[i - 1] = s[i]
      BY <1>1, <1>4, <2>1
    <3>2. QED
      BY <3>1 DEF ToSet
  <2>2. QED
    BY <2>1 DEF ToSet
<1>8. 1 \in DOMAIN s
  BY <1>1
<1>9. s[1] \in ToSet(s)
  BY <1>8 DEF ToSet
<1>10. QED
  BY <1>1, <1>4, <1>5, <1>6, <1>7, <1>9 DEF t

\* A new element behind a sequence without repetitions.
LEMMA InjectiveAppend ==
  ASSUME NEW S, NEW s \in Seq(S), IsInjective(s), NEW e \in S, e \notin ToSet(s)
  PROVE  /\ Append(s, e) \in Seq(S) /\ IsInjective(Append(s, e))
         /\ ToSet(Append(s, e)) = ToSet(s) \cup {e}
<1>1. Len(s) \in Nat /\ DOMAIN s = 1 .. Len(s)
  BY LenProperties
<1> DEFINE t == Append(s, e)
<1>2. /\ t \in Seq(S) /\ Len(t) = Len(s) + 1
      /\ \A i \in 1 .. Len(s) : t[i] = s[i]
      /\ t[Len(s) + 1] = e
  BY <1>1, AppendProperties
<1> HIDE DEF t
<1>3. DOMAIN t = 1 .. (Len(s) + 1)
  BY <1>2, LenProperties
<1>4. \A i \in 1 .. Len(s) : s[i] # e
  BY <1>1 DEF ToSet
<1>5. IsInjective(t)
  BY <1>1, <1>2, <1>3, <1>4 DEF IsInjective
<1>6. ToSet(t) = ToSet(s) \cup {e}
  BY <1>1, <1>2, <1>3 DEF ToSet
<1>7. QED
  BY <1>2, <1>5, <1>6 DEF t

\* A new element anywhere in a sequence.
LEMMA InjectiveInsert ==
  ASSUME NEW S, NEW s \in Seq(S), NEW k \in 1 .. (Len(s) + 1), NEW e \in S
  PROVE  /\ InsertAt(s, k, e) \in Seq(S) /\ Len(InsertAt(s, k, e)) = Len(s) + 1
         /\ ToSet(InsertAt(s, k, e)) = ToSet(s) \cup {e}
         /\ IsInjective(s) /\ e \notin ToSet(s) => IsInjective(InsertAt(s, k, e))
         /\ k = 1 => InsertAt(s, k, e)[1] = e
         /\ k # 1 => InsertAt(s, k, e)[1] = s[1]
<1> DEFINE t == InsertAt(s, k, e)
           From(j) == IF j < k THEN j ELSE j - 1
<1>1. Len(s) \in Nat /\ DOMAIN s = 1 .. Len(s) /\ \A i \in 1 .. Len(s) : s[i] \in S
  BY LenProperties, ElementOfSeq
<1>2. /\ t \in Seq(S) /\ Len(t) = Len(s) + 1 /\ t[k] = e
      /\ \A i \in 1 .. Len(s) : t[IF i < k THEN i ELSE i + 1] = s[i]
  BY InsertedAt
<1> HIDE DEF t
<1>3. DOMAIN t = 1 .. (Len(s) + 1)
  BY <1>2, LenProperties
<1>4. \A j \in DOMAIN t : j # k => From(j) \in DOMAIN s /\ t[j] = s[From(j)]
  <2>1. TAKE j \in DOMAIN t
  <2>2. HAVE j # k
  <2>3. From(j) \in 1 .. Len(s) /\ (IF From(j) < k THEN From(j) ELSE From(j) + 1) = j
    BY <1>1, <1>3, <2>2
  <2> HIDE DEF From
  <2>4. QED
    BY <1>1, <1>2, <2>3
<1>5. \A i, j \in DOMAIN t : i # k /\ j # k /\ From(i) = From(j) => i = j
  BY <1>1, <1>3
<1>6. \A i \in DOMAIN s : \E j \in DOMAIN t : t[j] = s[i]
  <2>1. TAKE i \in DOMAIN s
  <2>2. (IF i < k THEN i ELSE i + 1) \in DOMAIN t
    BY <1>1, <1>3
  <2>3. QED
    BY <1>1, <1>2, <2>2
<1> HIDE DEF From
<1>7. ToSet(t) = ToSet(s) \cup {e}
  <2>1. ASSUME NEW j \in DOMAIN t PROVE t[j] \in ToSet(s) \cup {e}
    BY <1>2, <1>4 DEF ToSet
  <2>2. ToSet(t) \subseteq ToSet(s) \cup {e}
    BY <2>1 DEF ToSet
  <2>3. ToSet(s) \subseteq ToSet(t)
    BY <1>6 DEF ToSet
  <2>4. k \in DOMAIN t
    BY <1>3
  <2>5. e \in ToSet(t)
    BY <1>2, <2>4 DEF ToSet
  <2>6. QED
    BY <2>2, <2>3, <2>5
<1>8. IsInjective(s) /\ e \notin ToSet(s) => IsInjective(t)
  <2>1. SUFFICES ASSUME IsInjective(s), e \notin ToSet(s),
                        NEW i \in DOMAIN t, NEW j \in DOMAIN t, t[i] = t[j]
                 PROVE  i = j
    BY DEF IsInjective
  <2>2. i = k <=> j = k
    BY <1>2, <1>4, <2>1 DEF ToSet
  <2>3. CASE i # k /\ j # k
    BY <1>4, <1>5, <2>1, <2>3 DEF IsInjective
  <2>4. QED
    BY <2>2, <2>3
<1>9. k # 1 => t[1] = s[1]
  <2>1. HAVE k # 1
  <2>2. 1 \in 1 .. Len(s) /\ 1 < k
    BY <1>1, <2>1
  <2>3. QED
    BY <1>2, <2>2
<1>10. k = 1 => t[1] = e
  BY <1>2
<1>11. QED
  BY <1>2, <1>7, <1>8, <1>9, <1>10 DEF t

\* One sequence behind another that has nothing of it.
LEMMA InjectiveConcat ==
  ASSUME NEW S, NEW s \in Seq(S), NEW t \in Seq(S)
  PROVE  /\ s \o t \in Seq(S)
         /\ ToSet(s \o t) = ToSet(s) \cup ToSet(t)
         /\ IsInjective(s) /\ IsInjective(t) /\ ToSet(s) \cap ToSet(t) = {} => IsInjective(s \o t)
<1> DEFINE u == s \o t
           n == Len(s)
           m == Len(t)
<1>1. n \in Nat /\ m \in Nat /\ DOMAIN s = 1 .. n /\ DOMAIN t = 1 .. m
  BY LenProperties
<1>2. /\ u \in Seq(S) /\ Len(u) = n + m
      /\ \A i \in 1 .. n + m : u[i] = IF i <= n THEN s[i] ELSE t[i - n]
  BY ConcatProperties
<1> HIDE DEF u, n, m
<1>3. DOMAIN u = 1 .. (n + m)
  BY <1>2, LenProperties
<1>4. \A i \in DOMAIN u : \/ i \in DOMAIN s /\ u[i] = s[i]
                          \/ i - n \in DOMAIN t /\ u[i] = t[i - n]
  <2>1. TAKE i \in DOMAIN u
  <2>2. CASE i <= n
    BY <1>1, <1>2, <1>3, <2>2
  <2>3. CASE ~(i <= n)
    BY <1>1, <1>2, <1>3, <2>3
  <2>4. QED
    BY <2>2, <2>3
<1>5. \A i \in DOMAIN s : i \in DOMAIN u /\ u[i] = s[i]
  BY <1>1, <1>2, <1>3
<1>6. \A j \in DOMAIN t : n + j \in DOMAIN u /\ u[n + j] = t[j]
  BY <1>1, <1>2, <1>3
<1>7. ToSet(u) = ToSet(s) \cup ToSet(t)
  <2>1. ToSet(u) \subseteq ToSet(s) \cup ToSet(t)
    BY <1>4 DEF ToSet
  <2>2. ToSet(s) \subseteq ToSet(u)
    BY <1>5 DEF ToSet
  <2>3. ToSet(t) \subseteq ToSet(u)
    BY <1>6 DEF ToSet
  <2>4. QED
    BY <2>1, <2>2, <2>3
<1>8. IsInjective(s) /\ IsInjective(t) /\ ToSet(s) \cap ToSet(t) = {} => IsInjective(u)
  <2>1. SUFFICES ASSUME IsInjective(s), IsInjective(t), ToSet(s) \cap ToSet(t) = {},
                        NEW i \in DOMAIN u, NEW j \in DOMAIN u, u[i] = u[j]
                 PROVE  i = j
    BY DEF IsInjective
  <2>2. \A k \in DOMAIN s, l \in DOMAIN t : s[k] # t[l]
    BY <2>1 DEF ToSet
  <2>3. CASE i \in DOMAIN s /\ u[i] = s[i] /\ j \in DOMAIN s /\ u[j] = s[j]
    BY <2>1, <2>3 DEF IsInjective
  <2>4. CASE i - n \in DOMAIN t /\ u[i] = t[i - n] /\ j - n \in DOMAIN t /\ u[j] = t[j - n]
    <3>1. i - n = j - n
      BY <2>1, <2>4 DEF IsInjective
    <3>2. QED
      BY <1>1, <1>3, <3>1
  <2>5. QED
    BY <1>4, <2>1, <2>2, <2>3, <2>4
<1>9. QED
  BY <1>2, <1>7, <1>8 DEF u

\* A sequence without repetitions, with one element taken out.
LEMMA InjectiveRemove ==
  ASSUME NEW S, NEW s \in Seq(S), IsInjective(s), NEW k \in DOMAIN s
  PROVE  /\ RemoveAt(s, k) \in Seq(S) /\ IsInjective(RemoveAt(s, k))
         /\ ToSet(RemoveAt(s, k)) = ToSet(s) \ {s[k]}
<1>1. Len(s) \in Nat /\ DOMAIN s = 1 .. Len(s) /\ k \in 1 .. Len(s)
  BY LenProperties
<1> DEFINE t == RemoveAt(s, k)
           At(i) == IF i < k THEN i ELSE i + 1
<1>2. /\ t \in Seq(S) /\ Len(t) = Len(s) - 1
      /\ \A i \in 1 .. (Len(s) - 1) : t[i] = IF i < k THEN s[i] ELSE s[i + 1]
  BY <1>1, RemovedAt
<1> HIDE DEF t
<1>3. DOMAIN t = 1 .. (Len(s) - 1)
  BY <1>2, LenProperties
<1>4. \A i \in DOMAIN t : t[i] = s[At(i)] /\ At(i) \in DOMAIN s /\ At(i) # k
  BY <1>1, <1>2, <1>3
<1>5. \A i, j \in DOMAIN t : At(i) = At(j) => i = j
  BY <1>1, <1>3
<1>6. ASSUME NEW j \in DOMAIN s, j # k PROVE \E i \in DOMAIN t : At(i) = j
  <2>1. CASE j < k
    BY <1>1, <1>3, <2>1
  <2>2. CASE ~(j < k)
    <3>1. j - 1 \in DOMAIN t /\ At(j - 1) = j
      BY <1>1, <1>3, <1>6, <2>2
    <3>2. QED
      BY <3>1
  <2>3. QED
    BY <2>1, <2>2
<1> HIDE DEF At
<1>7. IsInjective(t)
  BY <1>4, <1>5 DEF IsInjective
<1>8. ToSet(t) \subseteq ToSet(s) \ {s[k]}
  BY <1>4 DEF ToSet, IsInjective
<1>9. ToSet(s) \ {s[k]} \subseteq ToSet(t)
  BY <1>4, <1>6 DEF ToSet
<1>10. QED
  BY <1>2, <1>7, <1>8, <1>9 DEF t

\* What a sequence holds is finite, and as many as it is long if it repeats
\* nothing.
LEMMA ElementsAreFinite ==
  ASSUME NEW S, NEW s \in Seq(S)
  PROVE  /\ IsFiniteSet(ToSet(s))
         /\ IsInjective(s) => Cardinality(ToSet(s)) = Len(s)
<1> DEFINE D == 1 .. Len(s)
           T == ToSet(s)
<1>1. Len(s) \in Nat /\ DOMAIN s = D /\ s \in [D -> S]
  BY LenProperties, SeqDef
<1>2. IsFiniteSet(D) /\ Cardinality(D) = Len(s)
  BY <1>1, FS_Interval
<1> HIDE DEF D
<1>3. s \in [D -> T] /\ \A t \in T : \E i \in D : s[i] = t
  BY <1>1 DEF ToSet
<1> HIDE DEF T
<1>4. s \in Surjection(D, T)
  BY <1>3 DEF Surjection
<1>5. IsFiniteSet(T) /\ (Cardinality(T) = Cardinality(D) <=> s \in Injection(D, T))
  BY <1>2, <1>4, FS_Surjection
<1>6. IsInjective(s) => s \in Injection(D, T)
  BY <1>1, <1>3 DEF IsInjective, Injection
<1>7. QED
  BY <1>2, <1>5, <1>6 DEF T

\* A finite set in some order.
LEMMA SetToSeqIs ==
  ASSUME NEW S, IsFiniteSet(S)
  PROVE  /\ SetToSeq(S) \in Seq(S) /\ IsInjective(SetToSeq(S))
         /\ ToSet(SetToSeq(S)) = S
<1> DEFINE n == Cardinality(S)
           f == SetToSeq(S)
<1>1. n \in Nat /\ Cardinality(1 .. n) = n
  BY FS_CardinalityType, FS_Interval
<1>2. \E g \in [1 .. n -> S] : IsInjective(g)
  BY FS_CardinalityType DEF ExistsBijection, Bijection, Injection
<1>3. f \in [1 .. n -> S] /\ IsInjective(f)
  BY <1>2 DEF SetToSeq
<1> HIDE DEF f
<1>4. \A t \in S : \E x \in 1 .. n : f[x] = t
  <2> DEFINE D == 1 .. n
  <2>1. f \in [D -> S] /\ \A x, y \in D : f[x] = f[y] => x = y
    BY <1>3 DEF IsInjective
  <2>2. Cardinality(D) = Cardinality(S)
    BY <1>1
  <2> HIDE DEF D, n
  <2>3. \A t \in S : \E x \in D : f[x] = t
    BY <2>1, <2>2, InjectionIsOnto
  <2>4. QED
    BY <2>3 DEF D
<1>5. ToSet(f) = S
  BY <1>3, <1>4 DEF ToSet
<1>6. f \in Seq(S)
  BY <1>1, <1>3, SeqDef
<1>7. QED
  BY <1>3, <1>5, <1>6 DEF f

-----------------------------------------------------------------------------
\* A ring d of size slots with contents in Items.
IsRing(size, Items, d) == size \in Nat \ {0} /\ d \in [0 .. size - 1 -> Items]

\* The slot of the i-th item when the first one is in slot o.
SlotFrom(size, o, i) == IF o + i - 1 >= size THEN o + i - 1 - size ELSE o + i - 1

SlotAfter(size, o) == IF o + 1 >= size THEN o + 1 - size ELSE o + 1

\* The n items from slot o on.
RingWindow(size, d, n, o) == [i \in 1 .. n |-> d[SlotFrom(size, o, i)]]

\* A window is a sequence of n items.
LEMMA WindowSeq ==
  ASSUME NEW size, NEW Items, NEW d, IsRing(size, Items, d), NEW n \in 0 .. size,
         NEW o \in 0 .. size - 1
  PROVE  /\ RingWindow(size, d, n, o) \in Seq(Items)
         /\ Len(RingWindow(size, d, n, o)) = n
         /\ \A i \in 1 .. n : /\ SlotFrom(size, o, i) \in 0 .. size - 1
                             /\ RingWindow(size, d, n, o)[i] = d[SlotFrom(size, o, i)]
<1>1. n \in Nat
  BY DEF IsRing
<1>2. \A i \in 1 .. n : SlotFrom(size, o, i) \in 0 .. size - 1
  BY DEF SlotFrom, IsRing
<1>3. RingWindow(size, d, n, o) \in [1 .. n -> Items]
  BY <1>2 DEF RingWindow, IsRing
<1>4. RingWindow(size, d, n, o) \in Seq(Items)
  BY <1>1, <1>3, SeqDef
<1>5. Len(RingWindow(size, d, n, o)) = n
  <2>1. DOMAIN RingWindow(size, d, n, o) = 1 .. n /\ DOMAIN RingWindow(size, d, n, o) = 1 .. Len(RingWindow(size, d, n, o))
    BY <1>3, <1>4, LenProperties
  <2>2. Len(RingWindow(size, d, n, o)) \in Nat
    BY <1>4, LenProperties
  <2>3. QED
    BY <1>1, <2>1, <2>2
<1>6. QED
  BY <1>2, <1>4, <1>5 DEF RingWindow

\* Writing the slot after the window appends to it.
LEMMA WindowAppend ==
  ASSUME NEW size, NEW Items, NEW d, NEW e, IsRing(size, Items, d), IsRing(size, Items, e),
         NEW n \in 0 .. size - 1, NEW m, m = n + 1, NEW o \in 0 .. size - 1,
         \A i \in 0 .. size - 1 : i # SlotFrom(size, o, m) => e[i] = d[i]
  PROVE  RingWindow(size, e, m, o) = Append(RingWindow(size, d, n, o), e[SlotFrom(size, o, m)])
<1> DEFINE p == SlotFrom(size, o, m)
           x == e[p]
           W == RingWindow(size, d, n, o)
           V == RingWindow(size, e, m, o)
<1>1. n \in 0 .. size /\ m \in 0 .. size /\ n \in Nat
  BY DEF IsRing
<1>2. \A i \in 1 .. n : e[SlotFrom(size, o, i)] = d[SlotFrom(size, o, i)]
  <2>1. \A i \in 1 .. n : SlotFrom(size, o, i) # p /\ SlotFrom(size, o, i) \in 0 .. size - 1
    BY DEF SlotFrom, IsRing
  <2>2. QED
    BY <2>1
<1>x. x \in Items
  BY DEF SlotFrom, IsRing
<1> HIDE DEF p, x
<1>3. /\ W \in Seq(Items) /\ Len(W) = n
      /\ \A i \in 1 .. n : W[i] = d[SlotFrom(size, o, i)]
  BY <1>1, WindowSeq
<1>4. /\ V \in Seq(Items) /\ Len(V) = m
      /\ \A i \in 1 .. m : V[i] = e[SlotFrom(size, o, i)]
  BY <1>1, WindowSeq
<1> HIDE DEF W, V
<1>5. /\ Append(W, x) \in Seq(Items) /\ Len(Append(W, x)) = m
      /\ \A i \in 1 .. n : Append(W, x)[i] = W[i]
      /\ Append(W, x)[m] = x
  BY <1>x, <1>3, AppendProperties
<1>6. ASSUME NEW i \in 1 .. m PROVE V[i] = Append(W, x)[i]
  <2>1. CASE i = m
    <3>1. V[m] = e[p]
      BY <1>1, <1>4 DEF p
    <3>2. QED
      BY <1>5, <2>1, <3>1 DEF x
  <2>2. CASE i \in 1 .. n
    BY <1>2, <1>3, <1>4, <1>5, <2>2
  <2>3. i = m \/ i \in 1 .. n
    BY <1>1, <1>6
  <2>4. QED
    BY <2>1, <2>2, <2>3
<1>7. V = Append(W, x)
  BY <1>4, <1>5, <1>6, SeqEqual
<1>8. QED
  BY <1>7 DEF V, W, p, x

\* Moving the start of the window by one removes its first item.
LEMMA WindowTail ==
  ASSUME NEW size, NEW Items, NEW d, IsRing(size, Items, d), NEW n \in 1 .. size,
         NEW o \in 0 .. size - 1
  PROVE  /\ RingWindow(size, d, n, o) # << >>
         /\ Head(RingWindow(size, d, n, o)) = d[o]
         /\ RingWindow(size, d, n - 1, SlotAfter(size, o)) = Tail(RingWindow(size, d, n, o))
<1> DEFINE p == SlotAfter(size, o)
           m == n - 1
           W == RingWindow(size, d, n, o)
           V == RingWindow(size, d, m, p)
<1>1. n \in 0 .. size /\ m \in 0 .. size /\ p \in 0 .. size - 1
  BY DEF SlotAfter, IsRing
<1>2. /\ W \in Seq(Items) /\ Len(W) = n
      /\ \A i \in 1 .. n : W[i] = d[SlotFrom(size, o, i)]
  BY <1>1, WindowSeq, SMTT(30)
<1>3. /\ V \in Seq(Items) /\ Len(V) = m
      /\ \A i \in 1 .. m : V[i] = d[SlotFrom(size, p, i)]
  <2> HIDE DEF m, p
  <2>1. QED
    BY <1>1, WindowSeq
<1>4. W # << >>
  BY <1>2, EmptySeq
<1>5. Head(W) = d[o]
  <2>1. Head(W) = W[1]
    BY <1>2, <1>4
  <2>2. SlotFrom(size, o, 1) = o
    BY DEF SlotFrom, IsRing
  <2>3. QED
    BY <1>2, <2>1, <2>2
<1>6. /\ Tail(W) \in Seq(Items) /\ Len(Tail(W)) = n - 1
      /\ \A i \in 1 .. n - 1 : Tail(W)[i] = W[i + 1]
  BY <1>2, <1>4, HeadTailProperties
<1>7. \A i \in 1 .. n - 1 : SlotFrom(size, SlotAfter(size, o), i) = SlotFrom(size, o, i + 1)
  BY DEF SlotFrom, SlotAfter, IsRing
<1>8. \A i \in 1 .. n - 1 : V[i] = Tail(W)[i]
  BY <1>1, <1>2, <1>3, <1>6, <1>7
<1>9. QED
  BY <1>3, <1>4, <1>5, <1>6, <1>8, SeqEqual
=============================================================================
