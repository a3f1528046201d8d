----------------------------- MODULE OgsNetProofs -----------------------------
(***************************************************************************)
(* Theorems about the addresses, sockets and nodes of ogs-sockaddr.c,      *)
(* ogs-socket.c and ogs-socknode.c, for any number of each, any resolver   *)
(* and any interfaces.                                                     *)
(***************************************************************************)
EXTENDS OgsSocknode, ProofLemmas

-----------------------------------------------------------------------------
(* Picking and sorting                                                     *)

\* The places that are picked are numbered from 1 on in their order: a rank is
\* smaller than that of a later place, so that there is a place for each rank.
LEMMA RanksArePlaces ==
  ASSUME NEW len \in Nat, NEW p \in SUBSET (1 .. len)
  PROVE  /\ IsFiniteSet(p) /\ Cardinality(p) \in 0 .. len
         /\ \A i, j \in p : Rank(p, i) = Rank(p, j) => i = j
         /\ \A n \in 1 .. Cardinality(p) : \E i \in p : Rank(p, i) = n
<1> DEFINE m == Cardinality(p)
           Upto(i) == {k \in p : k <= i}
<1>1. IsFiniteSet(p) /\ m \in Nat /\ m <= len
  <2>1. IsFiniteSet(1 .. len) /\ Cardinality(1 .. len) = len
    BY FS_Interval
  <2>2. QED
    BY <2>1, FS_Subset, FS_CardinalityType
<1>2. \A i \in p : i \in Nat
  OBVIOUS
<1>3. \A i \in p : /\ Upto(i) \in SUBSET p /\ i \in Upto(i) /\ IsFiniteSet(Upto(i))
                   /\ Cardinality(Upto(i)) \in 1 .. m
  <2>1. TAKE i \in p
  <2>2. Upto(i) \in SUBSET p /\ i \in Upto(i)
    BY <1>2
  <2>3. IsFiniteSet(Upto(i)) /\ Cardinality(Upto(i)) <= m
    BY <1>1, <2>2, FS_Subset
  <2>4. Cardinality(Upto(i)) \in Nat /\ Cardinality(Upto(i)) # 0
    BY <2>2, <2>3, FS_CardinalityType, FS_EmptySet
  <2>5. QED
    BY <1>1, <2>2, <2>3, <2>4
<1>4. \A i, j \in p : i < j => Cardinality(Upto(i)) < Cardinality(Upto(j))
  <2>1. TAKE i, j \in p
  <2>2. HAVE i < j
  <2>3. \A k \in p : k <= i => k <= j
    BY <1>2, <2>2
  <2>4. Upto(i) \in SUBSET Upto(j)
    BY <2>3
  <2>5. j \in Upto(j) /\ j \notin Upto(i)
    BY <1>2, <2>2
  <2>6. Upto(i) # Upto(j)
    BY <2>5, Zenon
  <2>7. Cardinality(Upto(i)) <= Cardinality(Upto(j)) /\ Cardinality(Upto(i)) # Cardinality(Upto(j))
    <3> DEFINE a == Upto(i)
               b == Upto(j)
    <3>1. IsFiniteSet(b) /\ a \in SUBSET b /\ a # b
      BY <1>3, <2>4, <2>6
    <3> HIDE DEF a, b
    <3>2. Cardinality(a) <= Cardinality(b) /\ (Cardinality(a) = Cardinality(b) => a = b)
      BY <3>1, FS_Subset
    <3>3. QED
      BY <3>1, <3>2 DEF a, b
  <2>8. Cardinality(Upto(i)) \in Nat /\ Cardinality(Upto(j)) \in Nat
    BY <1>1, <1>3
  <2>9. QED
    BY <2>7, <2>8
<1>5. \A i \in p : Rank(p, i) = Cardinality(Upto(i)) /\ Rank(p, i) \in 1 .. m
  BY <1>3 DEF Rank
<1>6. \A i, j \in p : Rank(p, i) = Rank(p, j) => i = j
  <2>1. TAKE i, j \in p
  <2>2. HAVE Rank(p, i) = Rank(p, j)
  <2>3. Cardinality(Upto(i)) = Cardinality(Upto(j)) /\ Cardinality(Upto(i)) \in Nat
    BY <1>1, <1>3, <1>5, <2>2
  <2>4. ~(Cardinality(Upto(i)) < Cardinality(Upto(j))) /\ ~(Cardinality(Upto(j)) < Cardinality(Upto(i)))
    BY <2>3
  <2>5. ~(i < j) /\ ~(j < i)
    BY <1>4, <2>4
  <2>6. QED
    BY <1>2, <2>5
<1>7. \A n \in 1 .. m : \E i \in p : Rank(p, i) = n
  <2>1. IsFiniteSet(1 .. m) /\ Cardinality(1 .. m) = Cardinality(p)
    BY <1>1, FS_Interval
  <2>2. \E f : f \in [p -> 1 .. m] /\ \A i \in p : f[i] = Rank(p, i)
    <3> DEFINE g == [i \in p |-> Rank(p, i)]
    <3>1. g \in [p -> 1 .. m] /\ \A i \in p : g[i] = Rank(p, i)
      BY <1>5
    <3> HIDE DEF g
    <3>2. QED
      BY <3>1
  <2>3. PICK f : f \in [p -> 1 .. m] /\ \A i \in p : f[i] = Rank(p, i)
    BY <2>2
  <2>4. \A i, j \in p : f[i] = f[j] => i = j
    BY <1>6, <2>3
  <2>5. \A t \in 1 .. m : \E i \in p : f[i] = t
    <3> DEFINE P == p
               T == 1 .. m
    <3>1. /\ IsFiniteSet(T) /\ Cardinality(P) = Cardinality(T) /\ f \in [P -> T]
          /\ \A i, j \in P : f[i] = f[j] => i = j
      BY <2>1, <2>3, <2>4
    <3> HIDE DEF P, T
    <3>2. \A t \in T : \E i \in P : f[i] = t
      BY <3>1, InjectionIsOnto
    <3>3. QED
      BY <3>2 DEF P, T
  <2>6. QED
    BY <2>3, <2>5
<1>8. QED
  BY <1>1, <1>6, <1>7

\* What is picked out of a sequence are the elements at these places.
LEMMA PickedIs ==
  ASSUME NEW S, NEW s \in Seq(S), NEW p \in SUBSET (1 .. Len(s))
  PROVE  /\ Picked(s, p) \in Seq(S) /\ Len(Picked(s, p)) = Cardinality(p)
         /\ \A x : x \in ToSet(Picked(s, p)) <=> \E i \in p : s[i] = x
         /\ IsInjective(s) => IsInjective(Picked(s, p))
<1> DEFINE m == Cardinality(p)
           Place(n) == CHOOSE i \in p : Rank(p, i) = n
           t == Picked(s, p)
<1>1. Len(s) \in Nat /\ DOMAIN s = 1 .. Len(s) /\ \A i \in 1 .. Len(s) : s[i] \in S
  BY LenProperties, ElementOfSeq
<1>2. /\ m \in Nat
      /\ \A i, j \in p : Rank(p, i) = Rank(p, j) => i = j
      /\ \A n \in 1 .. m : \E i \in p : Rank(p, i) = n
  BY <1>1, RanksArePlaces
<1>3. \A n \in 1 .. m : Place(n) \in p /\ Rank(p, Place(n)) = n
  BY <1>2
<1>4. DOMAIN t = 1 .. m /\ \A n \in 1 .. m : t[n] = s[Place(n)]
  BY DEF Picked
<1>5. \A i \in p : Rank(p, i) \in 1 .. m /\ Place(Rank(p, i)) = i
  <2>1. TAKE i \in p
  <2>2. Rank(p, i) \in 1 .. m
    <3> DEFINE u == {k \in p : k <= i}
    <3>1. u \in SUBSET p /\ i \in u /\ IsFiniteSet(p)
      BY <1>1, RanksArePlaces
    <3>2. IsFiniteSet(u) /\ Cardinality(u) <= m
      BY <3>1, FS_Subset
    <3>3. Cardinality(u) \in Nat /\ Cardinality(u) # 0
      BY <3>1, <3>2, FS_CardinalityType, FS_EmptySet
    <3>4. QED
      BY <1>2, <3>2, <3>3 DEF Rank
  <2>3. QED
    BY <1>2, <1>3, <2>2
<1> HIDE DEF t, Place
<1>6. t \in Seq(S) /\ Len(t) = m
  <2>1. \A n \in 1 .. m : s[Place(n)] \in S
    BY <1>1, <1>3
  <2>2. t = [n \in 1 .. m |-> s[Place(n)]]
    BY DEF t, Picked, Place
  <2>3. t \in [1 .. m -> S]
    BY <2>1, <2>2
  <2>4. t \in Seq(S)
    BY <1>2, <2>3, SeqDef
  <2>5. QED
    BY <1>2, <1>4, <2>4, LenProperties
<1>7. \A x : x \in ToSet(t) <=> \E i \in p : s[i] = x
  <2>1. \A x : x \in ToSet(t) <=> \E n \in 1 .. m : t[n] = x
    BY <1>4 DEF ToSet
  <2>2. QED
    BY <1>3, <1>4, <1>5, <2>1
<1>8. IsInjective(s) => IsInjective(t)
  <2>1. SUFFICES ASSUME IsInjective(s), NEW n \in 1 .. m, NEW l \in 1 .. m, t[n] = t[l] PROVE n = l
    BY <1>4 DEF IsInjective
  <2>2. Place(n) = Place(l)
    BY <1>1, <1>3, <1>4, <2>1 DEF IsInjective
  <2>3. QED
    BY <1>3, <2>2
<1>9. QED
  BY <1>6, <1>7, <1>8 DEF t

\* The loop of ogs_sortaddrinfo finds a place behind the first element.
LEMMA RunLengthIs ==
  ASSUME NEW head \in Seq(Blocks), head # << >>, NEW family
  PROVE  RunLength(head, family) \in 1 .. Len(head)
<1> DEFINE stops == {i \in 2 .. Len(head) : FamilyOf(head[i]) = family}
<1>1. Len(head) \in Nat /\ Len(head) # 0
  BY LenProperties, EmptySeq
<1>2. \A i \in stops : i \in 2 .. Len(head)
  OBVIOUS
<1>3. RunLength(head, family) = IF stops = {} THEN Len(head) ELSE Min(stops) - 1
  BY DEF RunLength
<1> HIDE DEF stops
<1>4. stops # {} => Min(stops) \in stops
  <2>1. HAVE stops # {}
  <2>2. \A i \in stops : i \in Nat
    BY <1>1, <1>2
  <2>3. \E n \in stops : \A m \in stops : n <= m
    BY <2>1, <2>2, LeastNumber
  <2>4. QED
    BY <2>3 DEF Min
<1>5. CASE stops = {}
  BY <1>1, <1>3, <1>5
<1>6. CASE stops # {}
  <2>1. Min(stops) \in 2 .. Len(head)
    BY <1>2, <1>4, <1>6
  <2>2. QED
    BY <1>1, <1>3, <1>6, <2>1
<1>7. QED
  BY <1>5, <1>6

\* An address of the family comes first if the list has one.
FirstIsOf(s, family) == (\E b \in ToSet(s) : FamilyOf(b) = family) => FamilyOf(s[1]) = family

\* One round of the sort adds one address, and keeps one of the family first.
LEMMA PlacedIs ==
  ASSUME NEW head \in Seq(Blocks), NEW b \in Blocks, NEW family
  PROVE  /\ Placed(head, b, family) \in Seq(Blocks)
         /\ Len(Placed(head, b, family)) = Len(head) + 1
         /\ ToSet(Placed(head, b, family)) = ToSet(head) \cup {b}
         /\ IsInjective(head) /\ b \notin ToSet(head) => IsInjective(Placed(head, b, family))
         /\ FirstIsOf(head, family) => FirstIsOf(Placed(head, b, family), family)
<1> DEFINE k == IF head = << >> \/ FamilyOf(b) = family THEN 1 ELSE RunLength(head, family) + 1
           t == InsertAt(head, k, b)
<1>1. Len(head) \in Nat
  BY LenProperties
<1>2. k \in 1 .. (Len(head) + 1) /\ (head # << >> /\ FamilyOf(b) # family => k # 1)
  <2>1. CASE head = << >> \/ FamilyOf(b) = family
    BY <1>1, <2>1
  <2>2. CASE ~(head = << >> \/ FamilyOf(b) = family)
    <3>1. RunLength(head, family) \in 1 .. Len(head)
      BY <2>2, RunLengthIs
    <3>2. QED
      BY <1>1, <2>2, <3>1
  <2>3. QED
    BY <2>1, <2>2
<1>3. Placed(head, b, family) = t
  BY DEF Placed
<1>4. head = << >> \/ FamilyOf(b) = family => k = 1
  OBVIOUS
<1> HIDE DEF k
<1>5. /\ t \in Seq(Blocks) /\ Len(t) = Len(head) + 1
      /\ ToSet(t) = ToSet(head) \cup {b}
      /\ IsInjective(head) /\ b \notin ToSet(head) => IsInjective(t)
      /\ k = 1 => t[1] = b
      /\ k # 1 => t[1] = head[1]
  BY <1>2, InjectiveInsert
<1> HIDE DEF t
<1>6. FirstIsOf(head, family) => FirstIsOf(t, family)
  <2>1. SUFFICES ASSUME FirstIsOf(head, family), NEW x \in ToSet(t), FamilyOf(x) = family
                 PROVE  FamilyOf(t[1]) = family
    BY DEF FirstIsOf
  <2>2. CASE FamilyOf(b) = family
    BY <1>4, <1>5, <2>2
  <2>3. CASE FamilyOf(b) # family
    <3>1. x \in ToSet(head)
      BY <1>5, <2>1, <2>3
    <3>2. head # << >>
      <4>1. head = << >> => ToSet(head) = {}
        BY DEF ToSet
      <4>2. QED
        BY <3>1, <4>1
    <3>3. QED
      BY <1>2, <1>5, <2>1, <2>3, <3>1, <3>2 DEF FirstIsOf
  <2>4. QED
    BY <2>2, <2>3
<1>7. QED
  BY <1>3, <1>5, <1>6

\* The heads of the sorted list, round by round.
Heads(s, family) ==
  CHOOSE head : head = [n \in 0 .. Len(s) |->
                          IF n = 0 THEN << >> ELSE Placed(head[n - 1], s[n], family)]

\* The definition of the sort, by the name `Heads'.
LEMMA SortedIsLastHead ==
  ASSUME NEW s, NEW family
  PROVE  SortedBy(s, family) = Heads(s, family)[Len(s)]
BY DEF SortedBy, Heads

\* The heads are what the rounds of the loop make of one another: a function
\* with that recursion exists for every number of rounds.
LEMMA HeadsAreRounds ==
  ASSUME NEW s \in Seq(Blocks), NEW family
  PROVE  /\ Heads(s, family)[0] = << >>
         /\ \A n \in 1 .. Len(s) :
              Heads(s, family)[n] = Placed(Heads(s, family)[n - 1], s[n], family)
<1> DEFINE len == Len(s)
           Rounds(m, g) == g = [n \in 0 .. m |-> IF n = 0 THEN << >> ELSE Placed(g[n - 1], s[n], family)]
           Bad == {m \in 0 .. len : \A g : ~Rounds(m, g)}
<1>1. len \in Nat
  BY LenProperties
<1>2. Bad = {}
  <2>1. SUFFICES ASSUME Bad # {} PROVE FALSE
    OBVIOUS
  <2>2. \A m \in Bad : m \in Nat
    BY <1>1
  <2>3. PICK m \in Bad : \A k \in Bad : m <= k
    <3> HIDE DEF Bad
    <3>1. QED
      BY <2>1, <2>2, LeastNumber
  <2>4. m \in 0 .. len /\ \A g : ~Rounds(m, g)
    OBVIOUS
  <2>5. CASE m = 0
    <3> DEFINE g == [n \in 0 .. 0 |-> << >>]
    <3>1. Rounds(0, g)
      OBVIOUS
    <3>2. QED
      BY <2>4, <2>5, <3>1
  <2>6. CASE m # 0
    <3>1. m - 1 \in 0 .. len /\ ~(m <= m - 1)
      BY <1>1, <2>4, <2>6
    <3>2. m - 1 \notin Bad
      BY <2>3, <3>1
    <3>3. PICK g : Rounds(m - 1, g)
      BY <3>1, <3>2
    <3> DEFINE h == [n \in 0 .. m |-> IF n = m THEN Placed(g[m - 1], s[m], family) ELSE g[n]]
    <3>4. \A n \in 0 .. m : n # 0 => n - 1 \in 0 .. (m - 1) /\ n - 1 \in 0 .. m /\ n - 1 # m
      BY <1>1, <2>4
    <3>5. \A n \in 0 .. m : h[n] = IF n = 0 THEN << >> ELSE Placed(h[n - 1], s[n], family)
      <4>1. TAKE n \in 0 .. m
      <4>2. CASE n = m
        BY <1>1, <2>4, <2>6, <3>4, <4>2
      <4>3. CASE n # m
        <5>1. n \in 0 .. (m - 1)
          BY <1>1, <2>4, <4>3
        <5>2. g[n] = IF n = 0 THEN << >> ELSE Placed(g[n - 1], s[n], family)
          BY <3>3, <5>1
        <5>3. n # 0 => h[n - 1] = g[n - 1]
          BY <3>4
        <5>4. h[n] = g[n]
          BY <4>3
        <5>5. QED
          BY <5>2, <5>3, <5>4
      <4>4. QED
        BY <4>2, <4>3
    <3>6. Rounds(m, h)
      <4>1. h = [n \in 0 .. m |-> h[n]]
        OBVIOUS
      <4> HIDE DEF h
      <4>2. QED
        BY <3>5, <4>1
    <3>7. QED
      BY <2>4, <3>6
  <2>7. QED
    BY <2>5, <2>6
<1>3. \E g : Rounds(len, g)
  BY <1>1, <1>2
<1>4. Rounds(len, Heads(s, family))
  BY <1>3 DEF Heads
<1>5. QED
  BY <1>1, <1>4

\* ogs_sortaddrinfo makes a list of the same elements with one of the family
\* in front, if there is one.
LEMMA SortedIs ==
  ASSUME NEW s \in Seq(Blocks), NEW family
  PROVE  /\ SortedBy(s, family) \in Seq(Blocks) /\ Len(SortedBy(s, family)) = Len(s)
         /\ ToSet(SortedBy(s, family)) = ToSet(s)
         /\ IsInjective(s) => IsInjective(SortedBy(s, family))
         /\ FirstIsOf(SortedBy(s, family), family)
<1> DEFINE len == Len(s)
           head(n) == Heads(s, family)[n]
           Firsts(n) == {s[i] : i \in 1 .. n}
           Good(n) == /\ head(n) \in Seq(Blocks) /\ Len(head(n)) = n
                      /\ ToSet(head(n)) = Firsts(n)
                      /\ IsInjective(s) => IsInjective(head(n))
                      /\ FirstIsOf(head(n), family)
           Bad == {n \in 0 .. len : ~Good(n)}
<1>1. len \in Nat /\ DOMAIN s = 1 .. len /\ \A i \in 1 .. len : s[i] \in Blocks
  BY LenProperties, ElementOfSeq
<1>2. head(0) = << >> /\ \A n \in 1 .. len : head(n) = Placed(head(n - 1), s[n], family)
  BY HeadsAreRounds
<1>3. Good(0)
  <2>1. ToSet(<< >>) = {} /\ Firsts(0) = {}
    BY DEF ToSet
  <2>2. IsInjective(<< >>)
    BY DEF IsInjective
  <2>3. << >> \in Seq(Blocks) /\ Len(<< >>) = 0
    OBVIOUS
  <2>4. FirstIsOf(<< >>, family)
    BY <2>1 DEF FirstIsOf
  <2>5. QED
    BY <1>2, <2>1, <2>2, <2>3, <2>4
<1>4. ASSUME NEW n \in 1 .. len, Good(n - 1) PROVE Good(n)
  <2> DEFINE h == head(n - 1)
  <2>1. n \in Nat /\ n - 1 \in Nat /\ s[n] \in Blocks
    BY <1>1
  <2>2. head(n) = Placed(h, s[n], family)
    BY <1>2
  <2>3. /\ h \in Seq(Blocks) /\ Len(h) = n - 1 /\ ToSet(h) = Firsts(n - 1)
        /\ IsInjective(s) => IsInjective(h)
        /\ FirstIsOf(h, family)
    BY <1>4
  <2>4. Firsts(n) = Firsts(n - 1) \cup {s[n]}
    <3>1. \A i \in 1 .. n : i = n \/ i \in 1 .. (n - 1)
      BY <2>1
    <3>2. \A i \in 1 .. (n - 1) : i \in 1 .. n
      BY <2>1
    <3>3. n \in 1 .. n
      BY <2>1
    <3>4. QED
      BY <3>1, <3>2, <3>3
  <2>5. IsInjective(s) => s[n] \notin Firsts(n - 1)
    <3>1. \A i \in 1 .. (n - 1) : i \in DOMAIN s /\ i # n
      BY <1>1, <2>1
    <3>2. QED
      BY <1>1, <3>1 DEF IsInjective
  <2> HIDE DEF h, head, Firsts
  <2>6. /\ Placed(h, s[n], family) \in Seq(Blocks)
        /\ Len(Placed(h, s[n], family)) = Len(h) + 1
        /\ ToSet(Placed(h, s[n], family)) = ToSet(h) \cup {s[n]}
        /\ IsInjective(h) /\ s[n] \notin ToSet(h) => IsInjective(Placed(h, s[n], family))
        /\ FirstIsOf(h, family) => FirstIsOf(Placed(h, s[n], family), family)
    BY <2>1, <2>3, PlacedIs
  <2>7. QED
    BY <2>1, <2>2, <2>3, <2>4, <2>5, <2>6
<1>5. Bad = {}
  <2>1. SUFFICES ASSUME Bad # {} PROVE FALSE
    OBVIOUS
  <2> HIDE DEF Good
  <2>2. \A n \in Bad : n \in Nat
    BY <1>1
  <2>3. PICK n \in Bad : \A k \in Bad : n <= k
    <3> HIDE DEF Bad
    <3>1. QED
      BY <2>1, <2>2, LeastNumber
  <2>4. n \in 0 .. len /\ ~Good(n)
    OBVIOUS
  <2>5. n # 0
    BY <1>3, <2>4
  <2>6. n \in 1 .. len /\ n - 1 \in 0 .. len /\ ~(n <= n - 1)
    BY <1>1, <2>4, <2>5
  <2>7. Good(n - 1)
    BY <2>3, <2>6
  <2>8. QED
    BY <1>4, <2>4, <2>6, <2>7
<1>6. Good(len)
  <2> HIDE DEF Good, len
  <2>1. len \in 0 .. len
    BY <1>1
  <2>2. QED
    BY <1>5, <2>1
<1>7. Firsts(len) = ToSet(s)
  BY <1>1 DEF ToSet
<1>8. SortedBy(s, family) = head(len)
  BY SortedIsLastHead
<1>9. QED
  BY <1>6, <1>7, <1>8

-----------------------------------------------------------------------------
(* The invariant                                                           *)

AddrTypes == /\ record \in [Blocks -> Addresses \cup {NoAddr}]
             /\ sa \in [Holders -> Seq(Blocks)]
             /\ aborted \in BOOLEAN

SockTypes == /\ sock \in [Socks -> Fds \cup {InvalidSocket, NoSock}]
             /\ kernel \in [OpenFds -> BOOLEAN] /\ OpenFds \subseteq Fds
             /\ caller \in SUBSET Socks

NodeTypes == /\ node \in [Nodes -> NodeRecords \cup {NoNode}]
             /\ list \in SUBSET UsedNodes
             /\ watch \in SUBSET (Fds \X Directions)
             /\ backend \in Backends

\* The lists L of the owners O have the blocks `used' among them, each once.
OwnedOnce(used, O, L) ==
  /\ \A o \in O : L[o] \in Seq(Blocks) /\ IsInjective(L[o])
  /\ \A o, q \in O : o # q => ToSet(L[o]) \cap ToSet(L[q]) = {}
  /\ \A b \in Blocks : b \in used <=> \E o \in O : b \in ToSet(L[o])

UsedBlocks == Blocks \ FreeBlocks
Lists == [o \in Owners |-> ListOf(o)]

AddressesOwned == OwnedOnce(UsedBlocks, Owners, Lists)

\* The records that somebody holds have the open descriptors among them, each
\* once; each is held once; and the pollset has the polls of the nodes.
Held == caller \cup NodeSocks
OpenNodes == {n \in UsedNodes : node[n].sock # NoSock}

DescriptorsOwned ==
  /\ \A n \in OpenNodes : node[n].sock \notin caller
  /\ \A n, m \in OpenNodes : node[n].sock = node[m].sock => n = m
  /\ \A k \in Held : sock[k] \in OpenFds
  /\ \A k, m \in Held : sock[k] = sock[m] => k = m
  /\ \A fd \in OpenFds : \E k \in Held : sock[k] = fd
  /\ \A fd \in Fds, when \in Directions : <<fd, when>> \in watch <=>
                     \E n \in OpenNodes : fd = sock[node[n].sock] /\ when \in node[n].poll

AddrGood == AddrTypes /\ AddressesOwned
SockGood == SockTypes /\ NodeTypes /\ DescriptorsOwned

NetInv == AddrGood /\ SockGood

-----------------------------------------------------------------------------
(* Lists that change hands                                                 *)

\* A sequence over a set holds members of it only.
LEMMA SequencesHold ==
  ASSUME NEW S, NEW s \in Seq(S)
  PROVE  ToSet(s) \subseteq S
BY ElementOfSeq, LenProperties DEF ToSet

\* One owner's list becomes s, of its own blocks and unused ones.
LEMMA OneListChanges ==
  ASSUME NEW used, NEW O, NEW L, OwnedOnce(used, O, L),
         NEW next, NEW M, NEW o \in O, NEW s \in Seq(Blocks),
         IsInjective(s), \A b \in ToSet(s) : b \in ToSet(L[o]) \/ b \notin used,
         M[o] = s, \A q \in O : q # o => M[q] = L[q],
         \A b \in Blocks : b \in next <=> (b \in used /\ b \notin ToSet(L[o])) \/ b \in ToSet(s)
  PROVE  OwnedOnce(next, O, M)
<1>1. \A q \in O : ToSet(L[q]) \subseteq Blocks
  BY SequencesHold DEF OwnedOnce
<1>2. \A q \in O : M[q] \in Seq(Blocks) /\ IsInjective(M[q])
  BY DEF OwnedOnce
<1>3. \A q, r \in O : q # r => ToSet(M[q]) \cap ToSet(M[r]) = {}
  <2>1. \A q \in O : q # o => ToSet(s) \cap ToSet(L[q]) = {}
    BY <1>1 DEF OwnedOnce
  <2>2. QED
    BY <2>1 DEF OwnedOnce
<1>4. \A b \in Blocks : b \in next <=> \E q \in O : b \in ToSet(M[q])
  BY DEF OwnedOnce
<1>5. QED
  BY <1>2, <1>3, <1>4 DEF OwnedOnce

\* A new owner takes over s, of the blocks of another owner, who has nothing
\* left.
LEMMA ListIsHandedOver ==
  ASSUME NEW used, NEW O, NEW L, OwnedOnce(used, O, L),
         NEW next, NEW M, NEW o \in O, NEW n, n \notin O, NEW s \in Seq(Blocks),
         IsInjective(s), ToSet(s) \subseteq ToSet(L[o]),
         M[o] = << >>, M[n] = s, \A q \in O : q # o => M[q] = L[q],
         \A b \in Blocks : b \in next <=> (b \in used /\ b \notin ToSet(L[o])) \/ b \in ToSet(s)
  PROVE  OwnedOnce(next, O \cup {n}, M)
<1>1. ToSet(<< >>) = {} /\ IsInjective(<< >>) /\ << >> \in Seq(Blocks)
  BY DEF ToSet, IsInjective
<1>2. \A q \in O \cup {n} : M[q] \in Seq(Blocks) /\ IsInjective(M[q])
  BY <1>1 DEF OwnedOnce
<1>3. \A q, r \in O \cup {n} : q # r => ToSet(M[q]) \cap ToSet(M[r]) = {}
  <2>1. \A q \in O : q # o => ToSet(s) \cap ToSet(L[q]) = {}
    BY DEF OwnedOnce
  <2>2. \A q, r \in O : q # r => ToSet(M[q]) \cap ToSet(M[r]) = {}
    <3>1. \A q, r \in O : q # r => ToSet(L[q]) \cap ToSet(L[r]) = {}
      BY DEF OwnedOnce
    <3>2. QED
      BY <1>1, <3>1
  <2>3. \A q \in O : ToSet(M[q]) \cap ToSet(M[n]) = {}
    BY <1>1, <2>1
  <2>4. QED
    BY <2>2, <2>3
<1>4. \A b \in Blocks : b \in next <=> \E q \in O \cup {n} : b \in ToSet(M[q])
  BY <1>1 DEF OwnedOnce
<1>5. QED
  BY <1>2, <1>3, <1>4 DEF OwnedOnce

\* Owners go, and their blocks with them.
LEMMA OwnersGo ==
  ASSUME NEW used, NEW O, NEW L, OwnedOnce(used, O, L),
         NEW next, NEW M, NEW N \in SUBSET O,
         \A q \in O \ N : M[q] = L[q],
         \A b \in Blocks : b \in next <=> b \in used /\ \A q \in N : b \notin ToSet(L[q])
  PROVE  OwnedOnce(next, O \ N, M)
<1>1. \A b \in Blocks : b \in next <=> \E q \in O \ N : b \in ToSet(M[q])
  <2>1. ASSUME NEW b \in Blocks, NEW q \in O \ N, b \in ToSet(M[q]) PROVE b \in next
    BY <2>1 DEF OwnedOnce
  <2>2. ASSUME NEW b \in Blocks, b \in next PROVE \E q \in O \ N : b \in ToSet(M[q])
    BY <2>2 DEF OwnedOnce
  <2>3. QED
    BY <2>1, <2>2
<1>2. QED
  BY <1>1 DEF OwnedOnce

\* Owners come with an unused block each.
LEMMA OwnersCome ==
  ASSUME NEW used, NEW O, NEW L, OwnedOnce(used, O, L),
         NEW next, NEW M, NEW N, N \cap O = {},
         NEW f \in [N -> Blocks], \A n \in N : f[n] \notin used, \A n, m \in N : f[n] = f[m] => n = m,
         \A q \in O : M[q] = L[q], \A n \in N : M[n] = <<f[n]>>,
         \A b \in Blocks : b \in next <=> b \in used \/ \E n \in N : b = f[n]
  PROVE  OwnedOnce(next, O \cup N, M)
<1>1. \A n \in N : M[n] \in Seq(Blocks) /\ IsInjective(M[n]) /\ ToSet(M[n]) = {f[n]}
  <2>1. \A b \in Blocks : <<b>> \in Seq(Blocks) /\ IsInjective(<<b>>) /\ ToSet(<<b>>) = {b}
    BY DEF IsInjective, ToSet
  <2>2. \A n \in N : f[n] \in Blocks
    OBVIOUS
  <2>3. QED
    BY <2>1, <2>2
<1>2. \A q \in O : ToSet(M[q]) \subseteq Blocks
  BY SequencesHold DEF OwnedOnce
<1>3. \A q \in O \cup N : M[q] \in Seq(Blocks) /\ IsInjective(M[q])
  BY <1>1 DEF OwnedOnce
<1>4. \A q, r \in O \cup N : q # r => ToSet(M[q]) \cap ToSet(M[r]) = {}
  <2>1. \A q \in O, n \in N : f[n] \notin ToSet(M[q])
    BY DEF OwnedOnce
  <2>2. \A q, r \in O : q # r => ToSet(M[q]) \cap ToSet(M[r]) = {}
    BY DEF OwnedOnce
  <2>3. \A q \in O, n \in N : ToSet(M[q]) \cap ToSet(M[n]) = {}
    BY <1>1, <2>1
  <2>4. \A n, m \in N : n # m => ToSet(M[n]) \cap ToSet(M[m]) = {}
    BY <1>1
  <2>5. QED
    BY <2>2, <2>3, <2>4
<1>5. \A b \in Blocks : b \in next <=> \E q \in O \cup N : b \in ToSet(M[q])
  <2>1. ASSUME NEW b \in Blocks, NEW q \in O PROVE b \in ToSet(M[q]) <=> b \in ToSet(L[q])
    OBVIOUS
  <2>2. ASSUME NEW b \in Blocks, NEW n \in N PROVE b \in ToSet(M[n]) <=> b = f[n]
    BY <1>1
  <2>3. \A b \in Blocks : b \in used <=> \E q \in O : b \in ToSet(L[q])
    BY DEF OwnedOnce
  <2>4. QED
    BY <2>1, <2>2, <2>3
<1>6. QED
  BY <1>3, <1>4, <1>5 DEF OwnedOnce

-----------------------------------------------------------------------------
(* Blocks                                                                  *)

\* The blocks ogs_calloc gives are new ones, and the list of them is as long
\* as what is filled in.
LEMMA NewBlocksAre ==
  ASSUME NEW n \in Nat, NEW s \in NewBlocks(n)
  PROVE  /\ s \in Seq(Blocks) /\ IsInjective(s) /\ Len(s) = n /\ DOMAIN s = 1 .. n
         /\ ToSet(s) \subseteq FreeBlocks
<1>1. s \in [1 .. n -> FreeBlocks] /\ IsInjective(s) /\ FreeBlocks \subseteq Blocks
  BY DEF NewBlocks, FreeBlocks
<1>2. s \in Seq(Blocks)
  BY <1>1, SeqDef
<1>3. DOMAIN s = 1 .. Len(s) /\ Len(s) \in Nat
  BY <1>2, LenProperties
<1>4. Len(s) = n
  BY <1>1, <1>3
<1>5. ToSet(s) \subseteq FreeBlocks
  BY <1>1 DEF ToSet
<1>6. QED
  BY <1>1, <1>2, <1>4, <1>5

\* Filling blocks in keeps the records typed and uses these blocks.
LEMMA FilledIs ==
  ASSUME AddrTypes, NEW s, NEW vals, ToSet(s) \subseteq Blocks,
         \A i \in DOMAIN s : vals[i] \in Addresses,
         record' = Filled(s, vals)
  PROVE  /\ record' \in [Blocks -> Addresses \cup {NoAddr}]
         /\ \A b \in Blocks : record'[b] # NoAddr <=> record[b] # NoAddr \/ b \in ToSet(s)
<1>1. \A b \in Blocks : b \in ToSet(s) <=> \E i \in DOMAIN s : s[i] = b
  BY DEF ToSet
<1>2. ASSUME NEW b \in Blocks
      PROVE  /\ record'[b] \in Addresses \cup {NoAddr}
             /\ record'[b] # NoAddr <=> record[b] # NoAddr \/ b \in ToSet(s)
  <2>1. CASE \E i \in DOMAIN s : s[i] = b
    <3>1. record'[b] = vals[CHOOSE i \in DOMAIN s : s[i] = b]
      BY <2>1 DEF Filled
    <3>2. record'[b] \in Addresses
      BY <2>1, <3>1
    <3>3. QED
      BY <1>1, <2>1, <3>2, SockaddrAssumption
  <2>2. CASE ~\E i \in DOMAIN s : s[i] = b
    BY <1>1, <2>2 DEF Filled, AddrTypes
  <2>3. QED
    BY <2>1, <2>2
<1>3. record' = [b \in Blocks |-> record'[b]]
  BY DEF Filled
<1>4. QED
  BY <1>2, <1>3

\* Freeing blocks keeps the records typed, and these are unused then.
LEMMA ReleasedIs ==
  ASSUME AddrTypes, NEW B, record' = Released(B)
  PROVE  /\ record' \in [Blocks -> Addresses \cup {NoAddr}]
         /\ \A b \in Blocks : record'[b] # NoAddr <=> record[b] # NoAddr /\ b \notin B
BY DEF Released, AddrTypes

\* The owners' lists, for holders and for nodes.
LEMMA ListsAre ==
  /\ \A h \in Holders : h \in Owners /\ Lists[h] = sa[h]
  /\ \A n \in UsedNodes : n \in Owners /\ n \notin Holders /\ Lists[n] = node[n].addr
  /\ \A o \in Owners : o \in Holders \/ o \in UsedNodes
  /\ \A b \in Blocks : b \in UsedBlocks <=> record[b] # NoAddr
BY SocknodeAssumption DEF Owners, Lists, ListOf, UsedNodes, UsedBlocks, FreeBlocks

\* The same after a step.
LEMMA NextListsAre ==
  /\ \A h \in Holders : h \in Owners' /\ Lists'[h] = sa'[h]
  /\ \A n \in UsedNodes' : n \in Owners' /\ n \notin Holders /\ Lists'[n] = node'[n].addr
  /\ \A o \in Owners' : o \in Holders \/ o \in UsedNodes'
  /\ \A b \in Blocks : b \in UsedBlocks' <=> record'[b] # NoAddr
BY SocknodeAssumption DEF Owners, Lists, ListOf, UsedNodes, UsedBlocks, FreeBlocks

\* A holder's list becomes s.
LEMMA HolderChanges ==
  ASSUME AddrTypes, AddressesOwned, NEW h \in Holders, NEW s \in Seq(Blocks), IsInjective(s),
         \A b \in ToSet(s) : b \in ToSet(sa[h]) \/ record[b] = NoAddr,
         sa' = [sa EXCEPT ![h] = s], UNCHANGED node,
         \A b \in Blocks : record'[b] # NoAddr
                             <=> (record[b] # NoAddr /\ b \notin ToSet(sa[h])) \/ b \in ToSet(s)
  PROVE  sa' \in [Holders -> Seq(Blocks)] /\ AddressesOwned'
<1>1. sa' \in [Holders -> Seq(Blocks)] /\ sa'[h] = s /\ \A g \in Holders : g # h => sa'[g] = sa[g]
  BY DEF AddrTypes
<1>2. Owners' = Owners
  BY DEF Owners, UsedNodes
<1>3. /\ h \in Owners /\ Lists[h] = sa[h]
      /\ \A b \in Blocks : b \in UsedBlocks <=> record[b] # NoAddr
  BY ListsAre
<1>4. Lists'[h] = s /\ \A q \in Owners : q # h => Lists'[q] = Lists[q]
  <2>1. UsedNodes' = UsedNodes
    BY DEF UsedNodes
  <2>2. QED
    BY <1>1, <1>2, <2>1, ListsAre, NextListsAre
<1>5. \A b \in ToSet(s) : b \in ToSet(Lists[h]) \/ b \notin UsedBlocks
  BY <1>3, SequencesHold DEF UsedBlocks, FreeBlocks
<1>6. \A b \in Blocks : b \in UsedBlocks' <=> (b \in UsedBlocks /\ b \notin ToSet(Lists[h])) \/ b \in ToSet(s)
  BY <1>3, NextListsAre
<1>7. OwnedOnce(UsedBlocks, Owners, Lists)
  BY DEF AddressesOwned
<1>8. OwnedOnce(UsedBlocks', Owners, Lists')
  BY <1>3, <1>4, <1>5, <1>6, <1>7, OneListChanges
<1>9. QED
  BY <1>1, <1>2, <1>8 DEF AddressesOwned, OwnedOnce

-----------------------------------------------------------------------------
(* The calls for addresses                                                 *)

\* The resolver answers with addresses.
LEMMA AnswersAre ==
  ASSUME NEW family, NEW found \in Answers(family)
  PROVE  Len(found) \in Nat /\ \A i \in 1 .. Len(found) : found[i] \in Addresses
<1> DEFINE A == {a \in Known : family \in {"unspec", a.family}}
<1>1. found \in UNION {[1 .. m -> A] : m \in 0 .. MaxFound}
  BY DEF Answers, BoundedSeq, SeqOf
<1>2. PICK m \in 0 .. MaxFound : found \in [1 .. m -> A]
  BY <1>1
<1>3. m \in Nat /\ A \subseteq Addresses
  BY SockaddrAssumption
<1> HIDE DEF A
<1>4. found \in Seq(A)
  BY <1>2, <1>3, SeqDef
<1>5. Len(found) \in Nat /\ \A i \in 1 .. Len(found) : found[i] \in A
  BY <1>4, LenProperties, ElementOfSeq
<1>6. QED
  BY <1>3, <1>5

\* ogs_addaddrinfo: the new blocks go behind the list.
LEMMA AddKeeps ==
  ASSUME AddrGood, NEW h \in Holders, NEW family, AddAddrInfo(h, family), UNCHANGED node
  PROVE  AddrGood'
<1>1. PICK found \in Answers(family) :
        \E s \in NewBlocks(Len(found)) : /\ record' = Filled(s, found)
                                         /\ sa' = [sa EXCEPT ![h] = sa[h] \o s]
  BY DEF AddAddrInfo
<1>2. PICK s \in NewBlocks(Len(found)) : record' = Filled(s, found) /\ sa' = [sa EXCEPT ![h] = sa[h] \o s]
  BY <1>1
<1>3. Len(found) \in Nat /\ \A i \in 1 .. Len(found) : found[i] \in Addresses
  BY AnswersAre
<1>4. /\ s \in Seq(Blocks) /\ IsInjective(s) /\ DOMAIN s = 1 .. Len(found)
      /\ ToSet(s) \subseteq FreeBlocks
  BY <1>3, NewBlocksAre
<1>5. FreeBlocks \subseteq Blocks /\ \A b \in FreeBlocks : record[b] = NoAddr
  BY DEF FreeBlocks
<1>6. /\ record' \in [Blocks -> Addresses \cup {NoAddr}]
      /\ \A b \in Blocks : record'[b] # NoAddr <=> record[b] # NoAddr \/ b \in ToSet(s)
  BY <1>2, <1>3, <1>4, <1>5, FilledIs DEF AddrGood
<1>7. /\ sa[h] \in Seq(Blocks) /\ IsInjective(sa[h])
      /\ \A b \in ToSet(sa[h]) : b \in Blocks /\ record[b] # NoAddr
  <2>1. sa[h] \in Seq(Blocks) /\ ToSet(sa[h]) \subseteq Blocks
    BY SequencesHold DEF AddrGood, AddrTypes
  <2>2. QED
    BY <2>1, ListsAre DEF AddrGood, AddressesOwned, OwnedOnce
<1> DEFINE t == sa[h] \o s
<1>8. ToSet(sa[h]) \cap ToSet(s) = {}
  BY <1>4, <1>5, <1>7
<1>9. t \in Seq(Blocks) /\ ToSet(t) = ToSet(sa[h]) \cup ToSet(s) /\ IsInjective(t)
  BY <1>4, <1>7, <1>8, InjectiveConcat
<1>10. sa' = [sa EXCEPT ![h] = t]
  BY <1>2
<1> HIDE DEF t
<1>11. \A b \in ToSet(t) : b \in ToSet(sa[h]) \/ record[b] = NoAddr
  BY <1>4, <1>5, <1>9
<1>12. \A b \in Blocks : record'[b] # NoAddr
                           <=> (record[b] # NoAddr /\ b \notin ToSet(sa[h])) \/ b \in ToSet(t)
  BY <1>6, <1>7, <1>9
<1>13. sa' \in [Holders -> Seq(Blocks)] /\ AddressesOwned'
  BY <1>9, <1>10, <1>11, <1>12, HolderChanges DEF AddrGood
<1>14. aborted' \in BOOLEAN
  BY DEF AddAddrInfo, AddrGood, AddrTypes
<1>15. QED
  BY <1>6, <1>13, <1>14 DEF AddrGood, AddrTypes

\* A holder that has nothing gets new blocks for the addresses vals.
LEMMA NewListKeeps ==
  ASSUME AddrGood, NEW h \in Holders, sa[h] = << >>, NEW n \in Nat, NEW s \in NewBlocks(n), NEW vals,
         \A i \in 1 .. n : vals[i] \in Addresses, record' = Filled(s, vals),
         sa' = [sa EXCEPT ![h] = s], UNCHANGED <<node, aborted>>
  PROVE  AddrGood'
<1>1. /\ s \in Seq(Blocks) /\ IsInjective(s) /\ DOMAIN s = 1 .. n
      /\ ToSet(s) \subseteq FreeBlocks
  BY NewBlocksAre
<1>2. FreeBlocks \subseteq Blocks /\ \A b \in FreeBlocks : record[b] = NoAddr
  BY DEF FreeBlocks
<1>3. /\ record' \in [Blocks -> Addresses \cup {NoAddr}]
      /\ \A b \in Blocks : record'[b] # NoAddr <=> record[b] # NoAddr \/ b \in ToSet(s)
  BY <1>1, <1>2, FilledIs DEF AddrGood
<1>4. ToSet(sa[h]) = {}
  BY DEF ToSet
<1>5. sa' \in [Holders -> Seq(Blocks)] /\ AddressesOwned'
  BY <1>1, <1>2, <1>3, <1>4, HolderChanges DEF AddrGood
<1>6. QED
  BY <1>3, <1>5 DEF AddrGood, AddrTypes

\* ogs_copyaddrinfo: every copy is in a block of its own.
LEMMA CopyKeeps ==
  ASSUME AddrGood, NEW h \in Holders, NEW g \in Holders, CopyAddrInfo(h, g), UNCHANGED node
  PROVE  AddrGood'
<1>1. PICK s \in NewBlocks(Len(sa[g])) :
        /\ record' = Filled(s, [i \in DOMAIN s |-> record[sa[g][i]]])
        /\ sa' = [sa EXCEPT ![h] = s]
  BY DEF CopyAddrInfo
<1>2. sa[g] \in Seq(Blocks) /\ Len(sa[g]) \in Nat
  BY LenProperties DEF AddrGood, AddrTypes
<1>3. DOMAIN s = 1 .. Len(sa[g])
  BY <1>2, NewBlocksAre
<1> DEFINE vals == [i \in DOMAIN s |-> record[sa[g][i]]]
<1>4. \A i \in 1 .. Len(sa[g]) : vals[i] \in Addresses
  <2>1. TAKE i \in 1 .. Len(sa[g])
  <2>2. sa[g][i] \in Blocks /\ sa[g][i] \in ToSet(sa[g])
    BY <1>2, ElementOfSeq, LenProperties DEF ToSet
  <2>3. record[sa[g][i]] # NoAddr
    BY <2>2, ListsAre DEF AddrGood, AddressesOwned, OwnedOnce
  <2>4. QED
    BY <1>3, <2>2, <2>3 DEF AddrGood, AddrTypes
<1>5. record' = Filled(s, vals)
  BY <1>1
<1>6. sa[h] = << >> /\ UNCHANGED aborted
  BY DEF CopyAddrInfo
<1> HIDE DEF vals
<1>7. QED
  BY <1>1, <1>2, <1>4, <1>5, <1>6, NewListKeeps

\* The interfaces give addresses the records can hold.
LEMMA InterfaceAddress ==
  ASSUME NEW i \in DOMAIN Ifaces, Ifaces[i].family \in Families
  PROVE  AddressOf(Ifaces[i]) \in Addresses
BY DEF AddressOf, Addresses

\* The interfaces are a sequence.
LEMMA IfacesAre == DOMAIN Ifaces = 1 .. Len(Ifaces) /\ Len(Ifaces) \in Nat
BY SockaddrAssumption, LenProperties

\* ogs_link_local_addr_by_dev: one new block.
LEMMA LinkLocalKeeps ==
  ASSUME AddrGood, NEW h \in Holders, NEW dev, LinkLocalByDev(h, dev), UNCHANGED node
  PROVE  AddrGood'
<1> DEFINE found == {i \in DOMAIN Ifaces : Ifaces[i].dev = dev /\ LinkLocal(Ifaces[i])}
           vals == <<AddressOf(Ifaces[Min(found)])>>
<1>1. sa[h] = << >> /\ found # {} /\ UNCHANGED aborted
  BY DEF LinkLocalByDev
<1>2. PICK s \in NewBlocks(1) : record' = Filled(s, vals) /\ sa' = [sa EXCEPT ![h] = s]
  BY DEF LinkLocalByDev
<1>3. \A i \in found : i \in DOMAIN Ifaces /\ i \in Nat /\ Ifaces[i].family \in Families
  BY IfacesAre DEF LinkLocal, Families
<1>4. Min(found) \in found
  <2> HIDE DEF found
  <2>1. \E n \in found : \A m \in found : n <= m
    BY <1>1, <1>3, LeastNumber
  <2>2. QED
    BY <2>1 DEF Min
<1>5. AddressOf(Ifaces[Min(found)]) \in Addresses
  BY <1>3, <1>4, InterfaceAddress
<1>6. \A i \in 1 .. 1 : vals[i] \in Addresses
  <2>1. \A i \in 1 .. 1 : i = 1
    OBVIOUS
  <2>2. vals[1] = AddressOf(Ifaces[Min(found)])
    OBVIOUS
  <2> HIDE DEF vals, found
  <2>3. QED
    BY <1>5, <2>1, <2>2
<1> HIDE DEF vals, found
<1>7. 1 \in Nat
  OBVIOUS
<1>8. QED
  BY <1>1, <1>2, <1>6, <1>7, NewListKeeps

\* A holder keeps some of its blocks in a new order.
LEMMA KeepKeeps ==
  ASSUME AddrGood, NEW h \in Holders, NEW s \in Seq(Blocks), IsInjective(s),
         ToSet(s) \subseteq ToSet(sa[h]), Keep(h, s), UNCHANGED node
  PROVE  AddrGood'
<1> DEFINE B == ToSet(sa[h]) \ ToSet(s)
<1>1. sa' = [sa EXCEPT ![h] = s] /\ record' = Released(B) /\ UNCHANGED aborted
  BY DEF Keep
<1>2. /\ record' \in [Blocks -> Addresses \cup {NoAddr}]
      /\ \A b \in Blocks : record'[b] # NoAddr <=> record[b] # NoAddr /\ b \notin B
  <2> HIDE DEF B
  <2>1. QED
    BY <1>1, ReleasedIs DEF AddrGood
<1>3. \A b \in ToSet(sa[h]) : b \in Blocks /\ record[b] # NoAddr
  <2>1. ToSet(sa[h]) \subseteq Blocks
    BY SequencesHold DEF AddrGood, AddrTypes
  <2>2. QED
    BY <2>1, ListsAre DEF AddrGood, AddressesOwned, OwnedOnce
<1>4. \A b \in Blocks : record'[b] # NoAddr
                          <=> (record[b] # NoAddr /\ b \notin ToSet(sa[h])) \/ b \in ToSet(s)
  BY <1>2, <1>3
<1>5. sa' \in [Holders -> Seq(Blocks)] /\ AddressesOwned'
  BY <1>1, <1>4, HolderChanges DEF AddrGood
<1>6. QED
  BY <1>1, <1>2, <1>5 DEF AddrGood, AddrTypes

\* ogs_filteraddrinfo keeps elements of the list, each once.
LEMMA FilteredIs ==
  ASSUME NEW s \in Seq(Blocks), NEW family
  PROVE  /\ Filtered(s, family) \in Seq(Blocks)
         /\ ToSet(Filtered(s, family)) \subseteq ToSet(s)
         /\ IsInjective(s) => IsInjective(Filtered(s, family))
<1> DEFINE p == {i \in DOMAIN s : FamilyOf(s[i]) = family}
           t == Picked(s, p)
<1>1. DOMAIN s = 1 .. Len(s)
  BY LenProperties
<1>2. p \in SUBSET (1 .. Len(s)) /\ \A i \in p : s[i] \in ToSet(s)
  BY <1>1 DEF ToSet
<1>3. Filtered(s, family) = t
  BY DEF Filtered
<1> HIDE DEF p
<1>4. /\ t \in Seq(Blocks)
      /\ \A x : x \in ToSet(t) <=> \E i \in p : s[i] = x
      /\ IsInjective(s) => IsInjective(t)
  BY <1>2, PickedIs
<1>5. QED
  BY <1>2, <1>3, <1>4

\* ogs_filter_ip_version keeps elements of the list, each once.
LEMMA IpVersionIs ==
  ASSUME NEW s \in Seq(Blocks), IsInjective(s), NEW no_ipv4, NEW no_ipv6, NEW prefer_ipv4
  PROVE  /\ IpVersion(s, no_ipv4, no_ipv6, prefer_ipv4) \in Seq(Blocks)
         /\ IsInjective(IpVersion(s, no_ipv4, no_ipv6, prefer_ipv4))
         /\ ToSet(IpVersion(s, no_ipv4, no_ipv6, prefer_ipv4)) \subseteq ToSet(s)
<1> DEFINE v6 == IF no_ipv4 THEN Filtered(s, "inet6") ELSE s
           kept == IF no_ipv6 THEN Filtered(v6, "inet") ELSE v6
           family == IF prefer_ipv4 THEN "inet" ELSE "inet6"
<1>1. IpVersion(s, no_ipv4, no_ipv6, prefer_ipv4) = SortedBy(kept, family)
  BY DEF IpVersion
<1>2. v6 \in Seq(Blocks) /\ IsInjective(v6) /\ ToSet(v6) \subseteq ToSet(s)
  BY FilteredIs
<1> HIDE DEF v6
<1>3. kept \in Seq(Blocks) /\ IsInjective(kept) /\ ToSet(kept) \subseteq ToSet(v6)
  BY <1>2, FilteredIs
<1> HIDE DEF kept, family
<1>4. /\ SortedBy(kept, family) \in Seq(Blocks) /\ IsInjective(SortedBy(kept, family))
      /\ ToSet(SortedBy(kept, family)) = ToSet(kept)
  BY <1>3, SortedIs
<1>5. QED
  BY <1>1, <1>2, <1>3, <1>4

\* Filling in the scope leaves an address one.
LEMMA WithScopeIs ==
  ASSUME NEW a \in Addresses
  PROVE  WithScope(a) \in Addresses
<1> DEFINE places == LinkLocalsWith(a.ip)
<1>1. CASE ~IsLinkLocal(a) \/ a.scope # 0
  BY <1>1 DEF WithScope
<1>2. CASE ~(~IsLinkLocal(a) \/ a.scope # 0)
  <2>1. places # {}
    BY <1>2 DEF IsLinkLocal
  <2>2. \A i \in places : i \in DOMAIN Ifaces /\ i \in Nat
    BY IfacesAre DEF LinkLocalsWith
  <2>3. IsFiniteSet(places)
    <3>1. IsFiniteSet(1 .. Len(Ifaces)) /\ places \subseteq 1 .. Len(Ifaces)
      BY FS_Interval, IfacesAre DEF LinkLocalsWith
    <3>2. QED
      BY <3>1, FS_Subset
  <2>4. WithScope(a) = [a EXCEPT !.scope = Ifaces[Max(places)].scope]
    BY <1>2 DEF WithScope
  <2> HIDE DEF places
  <2>5. Max(places) \in places
    <3>1. \E n \in places : \A m \in places : n >= m
      BY <2>1, <2>2, <2>3, GreatestNumber
    <3>2. QED
      BY <3>1 DEF Max
  <2>6. Max(places) \in DOMAIN Ifaces
    BY <2>2, <2>5
  <2>7. QED
    BY <2>4, <2>6 DEF Addresses
<1>3. QED
  BY <1>1, <1>2

\* ogs_socknode_fill_scope_id_in_local changes only what is in the blocks.
LEMMA FillScopeKeeps ==
  ASSUME AddrGood, NEW h \in Holders, FillScopeId(h), UNCHANGED node
  PROVE  AddrGood'
<1>1. UNCHANGED <<sa, aborted>>
  BY DEF FillScopeId
<1>2. ASSUME NEW b \in Blocks
      PROVE  /\ record'[b] \in Addresses \cup {NoAddr}
             /\ record'[b] # NoAddr <=> record[b] # NoAddr
  <2>1. CASE b \in ToSet(sa[h])
    <3>1. record[b] # NoAddr
      BY <2>1, ListsAre DEF AddrGood, AddressesOwned, OwnedOnce
    <3>2. WithScope(record[b]) \in Addresses
      BY <3>1, WithScopeIs DEF AddrGood, AddrTypes
    <3>3. record'[b] = WithScope(record[b])
      BY <2>1 DEF FillScopeId
    <3>4. QED
      BY <3>1, <3>2, <3>3, SockaddrAssumption
  <2>2. CASE b \notin ToSet(sa[h])
    BY <2>2 DEF FillScopeId, AddrGood, AddrTypes
  <2>3. QED
    BY <2>1, <2>2
<1>3. record' \in [Blocks -> Addresses \cup {NoAddr}]
  <2>1. record' = [b \in Blocks |-> record'[b]]
    BY DEF FillScopeId
  <2>2. QED
    BY <1>2, <2>1
<1>4. UsedBlocks' = UsedBlocks
  BY <1>2, ListsAre, NextListsAre DEF UsedBlocks
<1>5. Owners' = Owners /\ Lists' = Lists
  BY <1>1 DEF Owners, UsedNodes, Lists, ListOf
<1>6. QED
  BY <1>1, <1>3, <1>4, <1>5 DEF AddrGood, AddrTypes, AddressesOwned

\* All calls for addresses.
LEMMA AddrCallKeeps ==
  ASSUME AddrGood, AddrCall, UNCHANGED node
  PROVE  AddrGood'
<1>1. ASSUME NEW h \in Holders, NEW f, GetAddrInfo(h, f) \/ AddAddrInfo(h, f) PROVE AddrGood'
  BY <1>1, AddKeeps DEF GetAddrInfo
<1> DEFINE OwnList(h) == sa[h] \in Seq(Blocks) /\ IsInjective(sa[h])
<1>2. \A h \in Holders : OwnList(h)
  BY ListsAre DEF AddrGood, AddrTypes, AddressesOwned, OwnedOnce
<1>3. ASSUME NEW h \in Holders, NEW f, FilterAddrInfo(h, f) PROVE AddrGood'
  BY <1>2, <1>3, FilteredIs, KeepKeeps DEF FilterAddrInfo
<1>4. ASSUME NEW h \in Holders, NEW f, SortAddrInfo(h, f) PROVE AddrGood'
  BY <1>2, <1>4, SortedIs, KeepKeeps DEF SortAddrInfo
<1>5. ASSUME NEW h \in Holders, FilterIpVersion(h) PROVE AddrGood'
  BY <1>2, <1>5, IpVersionIs, KeepKeeps DEF FilterIpVersion
<1>6. ASSUME NEW h \in Holders, FreeAddrInfo(h) PROVE AddrGood'
  <2>1. ToSet(<< >>) = {} /\ IsInjective(<< >>) /\ << >> \in Seq(Blocks)
    BY DEF ToSet, IsInjective
  <2>2. Keep(h, << >>)
    BY <1>6, <2>1 DEF Keep, FreeAddrInfo
  <2>3. QED
    BY <2>1, <2>2, KeepKeeps
<1>7. ASSUME NEW b1 \in Blocks, NEW b2 \in Blocks, Compare(b1, b2) PROVE AddrGood'
  <2>1. UNCHANGED <<record, sa>> /\ aborted' \in BOOLEAN
    BY <1>7 DEF Compare
  <2>2. UsedBlocks' = UsedBlocks /\ Owners' = Owners /\ Lists' = Lists
    BY <2>1 DEF UsedBlocks, FreeBlocks, Owners, UsedNodes, Lists, ListOf
  <2>3. QED
    BY <2>1, <2>2 DEF AddrGood, AddrTypes, AddressesOwned
<1>8. QED
  BY <1>1, <1>3, <1>4, <1>5, <1>6, <1>7, FillScopeKeeps, LinkLocalKeeps, CopyKeeps DEF AddrCall

-----------------------------------------------------------------------------
(* The lists of nodes                                                      *)

\* The fields of the nodes in use.
LEMMA NodeFields ==
  ASSUME NodeTypes
  PROVE  /\ \A n \in UsedNodes : /\ n \in Nodes /\ node[n] \in NodeRecords
                                 /\ node[n].addr \in Seq(Blocks)
                                 /\ node[n].sock \in Socks \cup {NoSock}
                                 /\ node[n].handler \subseteq Directions
                                 /\ node[n].poll \subseteq Directions
         /\ \A n \in OpenNodes : n \in UsedNodes /\ node[n].sock \in Socks
BY DEF NodeTypes, UsedNodes, OpenNodes, NodeRecords

\* What ogs_socknode_new puts into a node.
LEMMA NewNodeIs ==
  ASSUME NEW s \in Seq(Blocks)
  PROVE  /\ NewNode(s) \in NodeRecords /\ NewNode(s) # NoNode
         /\ NewNode(s).addr = s /\ NewNode(s).sock = NoSock /\ NewNode(s).poll = {}
BY SocknodeAssumption DEF NewNode, NodeRecords

\* A node takes over blocks of a holder, who has nothing left.
LEMMA HandoverKeeps ==
  ASSUME AddrGood, NodeTypes, NEW h \in Holders, NEW n \in Nodes \ UsedNodes, NEW s \in Seq(Blocks),
         IsInjective(s), ToSet(s) \subseteq ToSet(sa[h]),
         node' = [node EXCEPT ![n] = NewNode(s)], sa' = [sa EXCEPT ![h] = << >>],
         record' \in [Blocks -> Addresses \cup {NoAddr}], UNCHANGED aborted,
         \A b \in Blocks : record'[b] # NoAddr
                             <=> (record[b] # NoAddr /\ b \notin ToSet(sa[h])) \/ b \in ToSet(s)
  PROVE  AddrGood'
<1>1. NewNode(s) # NoNode /\ NewNode(s).addr = s
  BY NewNodeIs
<1>2. UsedNodes' = UsedNodes \cup {n} /\ node'[n] = NewNode(s) /\ \A m \in UsedNodes : node'[m] = node[m]
  BY <1>1 DEF UsedNodes, NodeTypes
<1>3. n \notin Owners /\ Owners' = Owners \cup {n}
  BY <1>2, SocknodeAssumption DEF Owners
<1>4. sa'[h] = << >> /\ \A g \in Holders : g # h => sa'[g] = sa[g]
  BY DEF AddrGood, AddrTypes
<1>5. h \in Owners /\ Lists[h] = sa[h] /\ Lists'[h] = << >>
  BY <1>4, ListsAre, NextListsAre
<1>6. Lists'[n] = s
  BY <1>1, <1>2, NextListsAre
<1>7. \A q \in Owners : q # h => Lists'[q] = Lists[q]
  BY <1>2, <1>3, <1>4, ListsAre, NextListsAre
<1>8. \A b \in Blocks : b \in UsedBlocks' <=> (b \in UsedBlocks /\ b \notin ToSet(Lists[h])) \/ b \in ToSet(s)
  BY <1>5, ListsAre, NextListsAre
<1>9. OwnedOnce(UsedBlocks, Owners, Lists)
  BY DEF AddrGood, AddressesOwned
<1>10. OwnedOnce(UsedBlocks', Owners \cup {n}, Lists')
  <2> DEFINE O == Owners
             L == Lists
             M == Lists'
             used == UsedBlocks
             next == UsedBlocks'
  <2>1. OwnedOnce(used, O, L) /\ h \in O /\ n \notin O
    BY <1>3, <1>5, <1>9
  <2>2. M[h] = << >> /\ M[n] = s /\ \A q \in O : q # h => M[q] = L[q]
    BY <1>5, <1>6, <1>7
  <2>3. /\ ToSet(s) \subseteq ToSet(L[h])
        /\ \A b \in Blocks : b \in next <=> (b \in used /\ b \notin ToSet(L[h])) \/ b \in ToSet(s)
    BY <1>5, <1>8
  <2> HIDE DEF O, L, M, used, next
  <2>4. OwnedOnce(next, O \cup {n}, M)
    BY <2>1, <2>2, <2>3, ListIsHandedOver
  <2>5. QED
    BY <2>4 DEF O, M, next
<1>11. << >> \in Seq(Blocks)
  OBVIOUS
<1>12. sa' \in [Holders -> Seq(Blocks)]
  BY <1>11 DEF AddrGood, AddrTypes
<1>13. QED
  BY <1>3, <1>10, <1>12 DEF AddrGood, AddrTypes, AddressesOwned, OwnedOnce

\* ogs_socknode_new hands a list over.
LEMMA SocknodeNewKeepsLists ==
  ASSUME AddrGood, NodeTypes, NEW h \in Holders, SocknodeNew(h)
  PROVE  AddrGood'
<1>1. PICK n \in Nodes \ UsedNodes : node' = [node EXCEPT ![n] = NewNode(sa[h])]
  BY DEF SocknodeNew
<1>2. sa[h] \in Seq(Blocks) /\ IsInjective(sa[h]) /\ \A b \in ToSet(sa[h]) : record[b] # NoAddr
  <2>1. ToSet(sa[h]) \subseteq Blocks
    BY SequencesHold DEF AddrGood, AddrTypes
  <2>2. QED
    BY <2>1, ListsAre DEF AddrGood, AddrTypes, AddressesOwned, OwnedOnce
<1>3. sa' = [sa EXCEPT ![h] = << >>] /\ UNCHANGED <<record, aborted>>
  BY DEF SocknodeNew
<1>4. record' \in [Blocks -> Addresses \cup {NoAddr}]
  BY <1>3 DEF AddrGood, AddrTypes
<1>5. QED
  BY <1>1, <1>2, <1>3, <1>4, HandoverKeeps

\* ogs_socknode_add hands over what its filter leaves, or nothing.
LEMMA SocknodeAddKeepsLists ==
  ASSUME AddrGood, NodeTypes, NEW h \in Holders, NEW family, SocknodeAdd(h, family)
  PROVE  AddrGood'
<1> DEFINE kept == IF family = "unspec" THEN sa[h] ELSE Filtered(sa[h], family)
           B == ToSet(sa[h]) \ ToSet(kept)
<1>1. /\ record' = Released(B) /\ sa' = [sa EXCEPT ![h] = << >>] /\ UNCHANGED aborted
      /\ \/ kept = << >> /\ UNCHANGED node
         \/ \E n \in Nodes \ UsedNodes : node' = [node EXCEPT ![n] = NewNode(kept)]
  BY DEF SocknodeAdd
<1>2. sa[h] \in Seq(Blocks) /\ IsInjective(sa[h]) /\ \A b \in ToSet(sa[h]) : b \in Blocks /\ record[b] # NoAddr
  <2>1. ToSet(sa[h]) \subseteq Blocks
    BY SequencesHold DEF AddrGood, AddrTypes
  <2>2. QED
    BY <2>1, ListsAre DEF AddrGood, AddrTypes, AddressesOwned, OwnedOnce
<1>3. kept \in Seq(Blocks) /\ IsInjective(kept) /\ ToSet(kept) \subseteq ToSet(sa[h])
  BY <1>2, FilteredIs
<1> HIDE DEF kept
<1>4. CASE kept = << >> /\ UNCHANGED node
  BY <1>1, <1>3, <1>4, KeepKeeps DEF Keep
<1>5. CASE \E n \in Nodes \ UsedNodes : node' = [node EXCEPT ![n] = NewNode(kept)]
  <2>1. PICK n \in Nodes \ UsedNodes : node' = [node EXCEPT ![n] = NewNode(kept)]
    BY <1>5
  <2>2. /\ record' \in [Blocks -> Addresses \cup {NoAddr}]
        /\ \A b \in Blocks : record'[b] # NoAddr <=> record[b] # NoAddr /\ b \notin B
    <3> HIDE DEF B
    <3>1. QED
      BY <1>1, ReleasedIs DEF AddrGood
  <2>3. \A b \in Blocks : record'[b] # NoAddr
                            <=> (record[b] # NoAddr /\ b \notin ToSet(sa[h])) \/ b \in ToSet(kept)
    BY <1>2, <1>3, <2>2
  <2>4. QED
    BY <1>1, <1>3, <2>1, <2>2, <2>3, HandoverKeeps
<1>6. QED
  BY <1>1, <1>4, <1>5

\* The nodes N are freed, with their lists.
NodesGo(N) == /\ record' = Released(UNION {ToSet(node[n].addr) : n \in N})
              /\ node' = [n \in Nodes |-> IF n \in N THEN NoNode ELSE node[n]]
              /\ UNCHANGED <<sa, aborted>>

\* Freed nodes take their blocks with them, and only these.
LEMMA NodesGoKeepsLists ==
  ASSUME AddrGood, NodeTypes, NEW N \in SUBSET UsedNodes, NodesGo(N)
  PROVE  AddrGood'
<1> DEFINE B == UNION {ToSet(node[n].addr) : n \in N}
<1>1. /\ record' \in [Blocks -> Addresses \cup {NoAddr}]
      /\ \A b \in Blocks : record'[b] # NoAddr <=> record[b] # NoAddr /\ b \notin B
  <2>1. record' = Released(B)
    BY DEF NodesGo
  <2> HIDE DEF B
  <2>2. QED
    BY <2>1, ReleasedIs DEF AddrGood
<1>2. UsedNodes' = UsedNodes \ N /\ \A n \in UsedNodes \ N : node'[n] = node[n]
  BY DEF NodesGo, UsedNodes, NodeTypes
<1>3. sa' = sa /\ aborted' = aborted
  BY DEF NodesGo
<1>4. N \subseteq Owners /\ Owners' = Owners \ N
  BY <1>2, ListsAre DEF Owners
<1>5. \A q \in Owners \ N : Lists'[q] = Lists[q]
  BY <1>2, <1>3, <1>4, ListsAre, NextListsAre
<1>6. \A b \in Blocks : b \in B <=> \E n \in N : b \in ToSet(Lists[n])
  BY ListsAre
<1>7. \A b \in Blocks : b \in UsedBlocks' <=> b \in UsedBlocks /\ \A n \in N : b \notin ToSet(Lists[n])
  BY <1>1, <1>6, ListsAre, NextListsAre
<1>8. OwnedOnce(UsedBlocks, Owners, Lists)
  BY DEF AddrGood, AddressesOwned
<1>9. OwnedOnce(UsedBlocks', Owners \ N, Lists')
  BY <1>4, <1>5, <1>7, <1>8, OwnersGo
<1>10. QED
  BY <1>1, <1>3, <1>4, <1>9 DEF AddrGood, AddrTypes, AddressesOwned

\* The nodes change, but not their lists.
LEMMA SameLists ==
  ASSUME AddrGood, NodeTypes, UsedNodes' = UsedNodes, \A n \in UsedNodes : node'[n].addr = node[n].addr,
         UNCHANGED <<record, sa>>, aborted' \in BOOLEAN
  PROVE  AddrGood'
<1>1. UsedBlocks' = UsedBlocks /\ Owners' = Owners
  BY DEF UsedBlocks, FreeBlocks, Owners
<1>2. \A o \in Owners : Lists'[o] = Lists[o]
  BY <1>1, ListsAre, NextListsAre
<1>3. Lists' = Lists
  BY <1>1, <1>2 DEF Lists
<1>4. QED
  BY <1>1, <1>3 DEF AddrGood, AddrTypes, AddressesOwned

\* New nodes M come with a new block f[m] each.
LEMMA NodesComeKeepsLists ==
  ASSUME AddrGood, NodeTypes, NEW M \in SUBSET (Nodes \ UsedNodes), NEW f \in [M -> FreeBlocks],
         \A m, n \in M : f[m] = f[n] => m = n,
         \A m \in M : node'[m] = NewNode(<<f[m]>>), \A n \in Nodes \ M : node'[n] = node[n],
         record' \in [Blocks -> Addresses \cup {NoAddr}], UNCHANGED <<sa, aborted>>,
         \A b \in Blocks : record'[b] # NoAddr <=> record[b] # NoAddr \/ \E m \in M : b = f[m]
  PROVE  AddrGood'
<1>1. \A m \in M : f[m] \in Blocks /\ f[m] \notin UsedBlocks
  BY DEF FreeBlocks, UsedBlocks
<1>2. f \in [M -> Blocks]
  BY <1>1
<1>3. \A m \in M : /\ NewNode(<<f[m]>>) # NoNode
                   /\ NewNode(<<f[m]>>).addr = <<f[m]>>
  <2>1. \A b \in Blocks : <<b>> \in Seq(Blocks)
    OBVIOUS
  <2>2. QED
    BY <1>1, <2>1, NewNodeIs
<1>4. UsedNodes' = UsedNodes \cup M /\ \A n \in UsedNodes : node'[n] = node[n]
  <2>1. \A m \in M : m \in Nodes /\ m \notin UsedNodes /\ node'[m] # NoNode
    BY <1>3
  <2>2. \A n \in Nodes : n \in UsedNodes' <=> n \in UsedNodes \/ n \in M
    BY <2>1 DEF UsedNodes
  <2>3. UsedNodes' \subseteq Nodes /\ UsedNodes \subseteq Nodes
    BY DEF UsedNodes
  <2>4. QED
    BY <2>1, <2>2, <2>3
<1>5. M \cap Owners = {} /\ Owners' = Owners \cup M
  BY <1>4, SocknodeAssumption DEF Owners
<1>6. \A q \in Owners : Lists'[q] = Lists[q]
  BY <1>4, <1>5, ListsAre, NextListsAre
<1>7. \A m \in M : Lists'[m] = <<f[m]>>
  <2>1. \A m \in M : m \in UsedNodes'
    BY <1>4
  <2>2. QED
    BY <1>3, <2>1, NextListsAre
<1>8. \A b \in Blocks : b \in UsedBlocks' <=> b \in UsedBlocks \/ \E m \in M : b = f[m]
  BY ListsAre, NextListsAre
<1>9. OwnedOnce(UsedBlocks, Owners, Lists)
  BY DEF AddrGood, AddressesOwned
<1>10. OwnedOnce(UsedBlocks', Owners \cup M, Lists')
  <2> DEFINE O == Owners
             L == Lists
             K == Lists'
             used == UsedBlocks
             next == UsedBlocks'
  <2>1. OwnedOnce(used, O, L) /\ M \cap O = {}
    BY <1>5, <1>9
  <2>2. /\ \A m \in M : f[m] \notin used
        /\ \A q \in O : K[q] = L[q]
        /\ \A m \in M : K[m] = <<f[m]>>
        /\ \A b \in Blocks : b \in next <=> b \in used \/ \E m \in M : b = f[m]
    BY <1>1, <1>6, <1>7, <1>8
  <2> HIDE DEF O, L, K, used, next
  <2>3. OwnedOnce(next, O \cup M, K)
    BY <1>2, <2>1, <2>2, OwnersCome
  <2>4. QED
    BY <2>3 DEF O, K, next
<1>11. QED
  BY <1>5, <1>10 DEF AddrGood, AddrTypes, AddressesOwned, OwnedOnce

\* What ogs_socknode_probe makes: nodes M, with a new block f[m] each.
LEMMA ProbeMakes ==
  ASSUME AddrTypes, NEW dev, NEW families \in SUBSET Families, Probe(dev, families)
  PROVE  \E M \in SUBSET (Nodes \ UsedNodes) : \E f \in [M -> FreeBlocks] :
           /\ \A m, n \in M : f[m] = f[n] => m = n
           /\ node' \in [Nodes -> {node'[n] : n \in Nodes}]
           /\ \A m \in M : node'[m] = NewNode(<<f[m]>>)
           /\ \A n \in Nodes \ M : node'[n] = node[n]
           /\ record' \in [Blocks -> Addresses \cup {NoAddr}]
           /\ \A b \in Blocks : record'[b] # NoAddr <=> record[b] # NoAddr \/ \E m \in M : b = f[m]
           /\ list' = list \cup M
           /\ UNCHANGED <<sa, aborted, sockvars, watch, backend>>
<1> DEFINE p == {i \in DOMAIN Ifaces : Usable(Ifaces[i], dev, families)}
           found == Picked(Ifaces, p)
           A == ToSet(Ifaces)
<1>1. Ifaces \in Seq(A) /\ p \in SUBSET (1 .. Len(Ifaces))
  BY IfacesAre, SockaddrAssumption
<1>2. \A i \in p : AddressOf(Ifaces[i]) \in Addresses
  BY InterfaceAddress DEF Usable
<1>3. /\ found \in Seq(A) /\ Len(found) \in Nat /\ DOMAIN found = 1 .. Len(found)
      /\ \A j \in DOMAIN found : AddressOf(found[j]) \in Addresses
  <2> DEFINE t == found
  <2> HIDE DEF p, A
  <2>1. t \in Seq(A) /\ \A x : x \in ToSet(t) <=> \E i \in p : Ifaces[i] = x
    BY <1>1, PickedIs
  <2> HIDE DEF t
  <2>2. Len(t) \in Nat /\ DOMAIN t = 1 .. Len(t)
    BY <2>1, LenProperties
  <2>3. \A j \in DOMAIN t : AddressOf(t[j]) \in Addresses
    BY <1>2, <2>1 DEF ToSet
  <2>4. QED
    BY <2>1, <2>2, <2>3 DEF t
<1> DEFINE len == Len(found)
           Named == {n \in [DOMAIN found -> Nodes \ UsedNodes] : IsInjective(n)}
           vals(s) == [i \in DOMAIN s |-> AddressOf(found[i])]
           NextNode(s, n) == [x \in Nodes |-> IF \E i \in DOMAIN n : n[i] = x
                                              THEN NewNode(<<s[CHOOSE i \in DOMAIN n : n[i] = x]>>)
                                              ELSE node[x]]
<1>4. \E s \in NewBlocks(len) : \E n \in Named :
        /\ record' = Filled(s, vals(s)) /\ node' = NextNode(s, n)
        /\ list' = list \cup Range(n)
        /\ UNCHANGED <<sa, aborted, sockvars, watch, backend>>
  BY DEF Probe
<1>5. PICK s \in NewBlocks(len) : \E n \in Named :
        /\ record' = Filled(s, vals(s)) /\ node' = NextNode(s, n)
        /\ list' = list \cup Range(n)
        /\ UNCHANGED <<sa, aborted, sockvars, watch, backend>>
  BY <1>4
<1>6. PICK n \in Named :
        /\ record' = Filled(s, vals(s)) /\ node' = NextNode(s, n)
        /\ list' = list \cup Range(n)
        /\ UNCHANGED <<sa, aborted, sockvars, watch, backend>>
  BY <1>5
<1> HIDE DEF found
<1>7. /\ IsInjective(s) /\ DOMAIN s = 1 .. len /\ ToSet(s) \subseteq FreeBlocks
      /\ DOMAIN n = DOMAIN s /\ \A i \in DOMAIN n : n[i] \in Nodes \ UsedNodes
      /\ \A i, j \in DOMAIN n : n[i] = n[j] => i = j
  <2>1. IsInjective(s) /\ DOMAIN s = 1 .. len /\ ToSet(s) \subseteq FreeBlocks
    BY <1>3, NewBlocksAre
  <2>2. QED
    BY <1>3, <2>1 DEF IsInjective
<1> DEFINE M == Range(n)
           At(x) == CHOOSE i \in DOMAIN n : n[i] = x
           f == [x \in M |-> s[At(x)]]
<1>8. \A x : x \in M <=> \E i \in DOMAIN n : n[i] = x
  BY DEF Range
<1>9. \A x \in M : At(x) \in DOMAIN n /\ n[At(x)] = x
  BY <1>8
<1>10. \A i \in DOMAIN n : n[i] \in M /\ At(n[i]) = i
  BY <1>7, <1>8, <1>9
<1>11. \A b \in FreeBlocks : b \in Blocks
  BY DEF FreeBlocks
<1>12. /\ record' \in [Blocks -> Addresses \cup {NoAddr}]
       /\ \A b \in Blocks : record'[b] # NoAddr <=> record[b] # NoAddr \/ b \in ToSet(s)
  <2> DEFINE v == vals(s)
  <2>1. record' = Filled(s, v) /\ ToSet(s) \subseteq Blocks
    BY <1>6, <1>7, <1>11
  <2>2. \A i \in DOMAIN s : v[i] \in Addresses
    BY <1>3, <1>7
  <2> HIDE DEF v
  <2>3. QED
    BY <2>1, <2>2, FilledIs
<1> HIDE DEF At
<1>13. f \in [M -> FreeBlocks]
  BY <1>7, <1>9 DEF ToSet
<1>14. \A x, y \in M : f[x] = f[y] => x = y
  BY <1>7, <1>9 DEF IsInjective
<1>15. \A b : b \in ToSet(s) <=> \E x \in M : b = f[x]
  <2>1. \A b : b \in ToSet(s) <=> \E i \in DOMAIN s : s[i] = b
    BY DEF ToSet
  <2>2. \A i \in DOMAIN s : f[n[i]] = s[i]
    BY <1>7, <1>10
  <2>3. QED
    BY <1>7, <1>9, <1>10, <2>1, <2>2
<1>16. \A x \in M : node'[x] = NewNode(<<f[x]>>)
  BY <1>6, <1>7, <1>8 DEF At
<1>17. \A x \in Nodes \ M : node'[x] = node[x]
  BY <1>6, <1>8
<1>18. node' \in [Nodes -> {node'[x] : x \in Nodes}]
  BY <1>6
<1>19. M \in SUBSET (Nodes \ UsedNodes)
  BY <1>7, <1>8
<1> HIDE DEF f, M
<1>20. list' = list \cup M /\ UNCHANGED <<sa, aborted, sockvars, watch, backend>>
  BY <1>6 DEF M
<1>21. \A b \in Blocks : record'[b] # NoAddr <=> record[b] # NoAddr \/ \E m \in M : b = f[m]
  BY <1>12, <1>15
<1>22. record' \in [Blocks -> Addresses \cup {NoAddr}]
  BY <1>12
<1>23. QED
  BY <1>13, <1>14, <1>16, <1>17, <1>18, <1>19, <1>20, <1>21, <1>22, Zenon

-----------------------------------------------------------------------------
(* Records and descriptors                                                 *)

\* Who holds a record.
LEMMA HeldAre ==
  /\ \A k : k \in Held <=> k \in caller \/ \E n \in OpenNodes : node[n].sock = k
  /\ \A n \in OpenNodes : node[n].sock \in NodeSocks /\ node[n].sock \in Held
  /\ \A k \in NodeSocks : \E n \in OpenNodes : node[n].sock = k
BY DEF Held, NodeSocks, OpenNodes

\* The same after a step.
LEMMA NextHeldAre ==
  /\ \A k : k \in Held' <=> k \in caller' \/ \E n \in OpenNodes' : node'[n].sock = k
  /\ \A n \in OpenNodes' : node'[n].sock \in NodeSocks' /\ node'[n].sock \in Held'
  /\ \A k \in NodeSocks' : \E n \in OpenNodes' : node'[n].sock = k
BY DEF Held, NodeSocks, OpenNodes

\* A record that is held is in use: its descriptor is open.
LEMMA HeldAreUsed ==
  ASSUME SockGood
  PROVE  /\ Held \subseteq Socks
         /\ \A k \in Held : sock[k] \in OpenFds /\ sock[k] \in Fds /\ k \notin FreeSocks
         /\ OpenFds \subseteq Fds /\ NoSock \notin Fds /\ InvalidSocket \notin Fds /\ NoSock # InvalidSocket
         /\ NoSock \notin Socks
<1>1. /\ NoSock \notin Fds /\ InvalidSocket \notin Fds /\ NoSock # InvalidSocket /\ NoSock \notin Socks
  <2>1. InvalidSocket \notin Nat
    BY DEF InvalidSocket
  <2>2. QED
    BY <2>1, SocketAssumption
<1>2. Held \subseteq Socks
  BY HeldAre, NodeFields DEF SockGood, SockTypes
<1>3. \A k \in Held : sock[k] \in OpenFds /\ sock[k] \in Fds
  BY DEF SockGood, SockTypes, DescriptorsOwned
<1>4. \A k \in Held : k \notin FreeSocks
  BY <1>1, <1>2, <1>3 DEF FreeSocks, UsedSocks
<1>5. QED
  BY <1>1, <1>2, <1>3, <1>4 DEF SockGood, SockTypes

\* A step that touches neither sockets nor nodes.
LEMMA NothingMoves ==
  ASSUME SockGood, UNCHANGED <<sockvars, nodevars>>
  PROVE  SockGood'
BY DEF SockGood, SockTypes, NodeTypes, DescriptorsOwned, sockvars, nodevars, OpenFds, UsedNodes,
       Held, OpenNodes, NodeSocks

\* The nodes stay as they are: what is left to show.
LEMMA NodesStay ==
  ASSUME SockGood, UNCHANGED nodevars
  PROVE  NodeTypes' /\ OpenNodes' = OpenNodes /\ node' = node /\ watch' = watch
BY DEF SockGood, NodeTypes, nodevars, UsedNodes, OpenNodes

\* The kernel's table after an open and after a close.
LEMMA OpenedIs ==
  ASSUME SockTypes, NEW fd \in FreeFds, NEW listens \in BOOLEAN, kernel' = Opened(fd, listens)
  PROVE  OpenFds' = OpenFds \cup {fd} /\ OpenFds' \subseteq Fds /\ kernel' \in [OpenFds' -> BOOLEAN]
BY DEF Opened, OpenFds, FreeFds, SockTypes

\* The same for descriptors that are closed.
LEMMA ClosedIs ==
  ASSUME SockTypes, NEW fds, kernel' = Closed(fds)
  PROVE  OpenFds' = OpenFds \ fds /\ OpenFds' \subseteq Fds /\ kernel' \in [OpenFds' -> BOOLEAN]
BY DEF Closed, OpenFds, SockTypes

\* The program gets a record k with the new descriptor fd.
LEMMA CallerGets ==
  ASSUME SockGood, NEW k \in FreeSocks, NEW fd \in FreeFds, sock' = [sock EXCEPT ![k] = fd],
         kernel' = Opened(fd, FALSE), caller' = caller \cup {k}, UNCHANGED nodevars
  PROVE  SockGood'
<1>1. k \in Socks /\ fd \in Fds /\ fd \notin OpenFds
  BY DEF FreeSocks, FreeFds
<1>2. OpenFds' = OpenFds \cup {fd} /\ OpenFds' \subseteq Fds /\ kernel' \in [OpenFds' -> BOOLEAN]
  BY OpenedIs DEF SockGood
<1>3. NodeTypes' /\ OpenNodes' = OpenNodes /\ node' = node /\ watch' = watch
  BY NodesStay
<1>4. k \notin Held /\ \A m \in Held : m \in Socks /\ m # k /\ sock[m] \in OpenFds
  BY HeldAreUsed
<1>5. \A m : m \in Held' <=> m \in Held \/ m = k
  BY <1>3, HeldAre, NextHeldAre
<1>6. sock'[k] = fd /\ \A m \in Held : sock'[m] = sock[m]
  BY <1>1, <1>4 DEF SockGood, SockTypes
<1>7. SockTypes'
  BY <1>1, <1>2 DEF SockGood, SockTypes
<1>8. \A n \in OpenNodes' : node'[n].sock \notin caller'
  BY <1>3, <1>4, HeldAre DEF SockGood, DescriptorsOwned
<1>9. \A m \in Held' : sock'[m] \in OpenFds'
  BY <1>2, <1>4, <1>5, <1>6
<1>10. \A m, l \in Held' : sock'[m] = sock'[l] => m = l
  BY <1>1, <1>4, <1>5, <1>6 DEF SockGood, DescriptorsOwned
<1>11. \A d \in OpenFds' : \E m \in Held' : sock'[m] = d
  BY <1>2, <1>5, <1>6 DEF SockGood, DescriptorsOwned
<1>12. \A n \in OpenNodes : sock'[node[n].sock] = sock[node[n].sock]
  BY <1>6, HeldAre
<1>13. QED
  BY <1>3, <1>7, <1>8, <1>9, <1>10, <1>11, <1>12 DEF SockGood, DescriptorsOwned

\* Unused records are lost, or kept free.
LEMMA RecordsAreLost ==
  ASSUME SockGood, NEW lost \in SUBSET FreeSocks, sock' = RecordsWith(lost),
         UNCHANGED <<kernel, caller, nodevars>>
  PROVE  SockGood'
<1>1. NodeTypes' /\ OpenNodes' = OpenNodes /\ node' = node /\ watch' = watch
  BY NodesStay DEF nodevars
<1>2. Held' = Held /\ OpenFds' = OpenFds
  BY <1>1 DEF Held, NodeSocks, OpenFds, UsedNodes
<1>3. \A m \in Held : sock'[m] = sock[m]
  BY HeldAreUsed DEF RecordsWith
<1>4. SockTypes'
  BY <1>2 DEF SockGood, SockTypes, RecordsWith
<1>5. \A n \in OpenNodes : sock'[node[n].sock] = sock[node[n].sock]
  BY <1>3, HeldAre
<1>6. QED
  BY <1>1, <1>2, <1>3, <1>4, <1>5 DEF SockGood, DescriptorsOwned

\* ogs_sock_destroy: the record and its descriptor go together.
LEMMA SockDestroyKeeps ==
  ASSUME SockGood, NEW k, SockDestroy(k), UNCHANGED nodevars
  PROVE  SockGood'
<1>1. k \in caller /\ k \in Held /\ k \in Socks /\ caller' = caller \ {k}
  BY HeldAre, HeldAreUsed DEF SockDestroy
<1>2. sock' = [sock EXCEPT ![k] = NoSock] /\ kernel' = Closed({sock[k]})
  BY DEF SockDestroy, Destroyed
<1>3. OpenFds' = OpenFds \ {sock[k]} /\ OpenFds' \subseteq Fds /\ kernel' \in [OpenFds' -> BOOLEAN]
  BY <1>2, ClosedIs DEF SockGood
<1>4. NodeTypes' /\ OpenNodes' = OpenNodes /\ node' = node /\ watch' = watch
  BY NodesStay
<1>5. \A n \in OpenNodes : node[n].sock \notin caller
  BY DEF SockGood, DescriptorsOwned
<1>6. \A m : m \in Held' <=> m \in Held /\ m # k
  BY <1>1, <1>4, <1>5, HeldAre, NextHeldAre
<1>7. \A m \in Held' : m \in Held /\ m # k /\ sock'[m] = sock[m] /\ sock[m] # sock[k]
  BY <1>1, <1>2, <1>6, HeldAreUsed DEF SockGood, SockTypes, DescriptorsOwned
<1>8. SockTypes'
  BY <1>1, <1>2, <1>3 DEF SockGood, SockTypes
<1>9. \A m \in Held' : sock'[m] \in OpenFds'
  BY <1>3, <1>7 DEF SockGood, DescriptorsOwned
<1>10. \A m, l \in Held' : sock'[m] = sock'[l] => m = l
  BY <1>7 DEF SockGood, DescriptorsOwned
<1>11. \A d \in OpenFds' : \E m \in Held' : sock'[m] = d
  BY <1>1, <1>3, <1>6, <1>7 DEF SockGood, DescriptorsOwned
<1>12. \A n \in OpenNodes : sock'[node[n].sock] = sock[node[n].sock]
  BY <1>4, <1>7, NextHeldAre
<1>13. QED
  BY <1>1, <1>4, <1>5, <1>8, <1>9, <1>10, <1>11, <1>12 DEF SockGood, DescriptorsOwned

\* ogs_sock_listen opens and closes nothing.
LEMMA SockListenKeeps ==
  ASSUME SockGood, NEW k, SockListen(k), UNCHANGED nodevars
  PROVE  SockGood'
<1>1. OpenFds' = OpenFds /\ kernel' \in [OpenFds' -> BOOLEAN] /\ UNCHANGED <<sock, caller>>
  BY DEF SockListen, OpenFds, SockGood, SockTypes
<1>2. NodeTypes' /\ OpenNodes' = OpenNodes /\ node' = node /\ watch' = watch
  BY NodesStay
<1>3. Held' = Held
  BY <1>1, <1>2 DEF Held, NodeSocks, UsedNodes
<1>4. QED
  BY <1>1, <1>2, <1>3 DEF SockGood, SockTypes, DescriptorsOwned

\* All calls for sockets.
LEMMA SockCallKeeps ==
  ASSUME SockGood, UNCHANGED nodevars
  PROVE  /\ SockCall => SockGood'
         /\ \A k : SockAccept(k) => SockGood'
<1>1. ASSUME NEW k, SockAccept(k) PROVE SockGood'
  BY <1>1, CallerGets DEF SockAccept
<1>2. ASSUME SockSocket PROVE SockGood'
  <2>1. PICK k \in FreeSocks :
          \/ \E fd \in FreeFds : /\ sock' = [sock EXCEPT ![k] = fd]
                                 /\ kernel' = Opened(fd, FALSE)
                                 /\ caller' = caller \cup {k}
          \/ sock' = [sock EXCEPT ![k] = InvalidSocket] /\ UNCHANGED <<kernel, caller>>
    BY <1>2 DEF SockSocket
  <2>2. CASE sock' = [sock EXCEPT ![k] = InvalidSocket] /\ UNCHANGED <<kernel, caller>>
    <3>1. sock' = RecordsWith({k})
      BY <2>2 DEF RecordsWith, SockGood, SockTypes, FreeSocks
    <3>2. QED
      BY <2>2, <3>1, RecordsAreLost
  <2>3. QED
    BY <2>1, <2>2, CallerGets
<1>3. QED
  BY <1>1, <1>2, SockListenKeeps, SockDestroyKeeps DEF SockCall

-----------------------------------------------------------------------------
(* The sockets of nodes                                                    *)

\* ogs_socknode_set_poll registers nothing yet.
LEMMA SetPollKeeps ==
  ASSUME AddrGood, SockGood, NEW n \in UsedNodes, NEW when \in Directions, SetPoll(n, when)
  PROVE  AddrGood' /\ SockGood'
<1> DEFINE r == [node[n] EXCEPT !.handler = @ \cup {when}]
<1>1. n \in Nodes /\ node[n] \in NodeRecords /\ NodeTypes
  BY NodeFields DEF SockGood
<1>2. UNCHANGED <<addrvars, sockvars, list, watch, backend>> /\ node' = [node EXCEPT ![n] = r]
  BY DEF SetPoll
<1>3. r \in NodeRecords /\ r # NoNode
  BY <1>1, SocknodeAssumption DEF NodeRecords
<1>4. r.addr = node[n].addr /\ r.sock = node[n].sock /\ r.poll = node[n].poll
  BY <1>1 DEF NodeRecords
<1> HIDE DEF r
<1>5. node' \in [Nodes -> NodeRecords \cup {NoNode}] /\ UsedNodes' = UsedNodes
  BY <1>1, <1>2, <1>3 DEF NodeTypes, UsedNodes
<1>6. \A m \in UsedNodes : /\ node'[m].addr = node[m].addr /\ node'[m].sock = node[m].sock
                           /\ node'[m].poll = node[m].poll
  BY <1>1, <1>2, <1>4 DEF NodeTypes, UsedNodes
<1>7. AddrGood'
  BY <1>1, <1>2, <1>5, <1>6, SameLists DEF addrvars, AddrGood, AddrTypes
<1>8. OpenNodes' = OpenNodes /\ Held' = Held /\ OpenFds' = OpenFds
  <2>1. OpenNodes' = OpenNodes
    BY <1>5, <1>6 DEF OpenNodes
  <2>2. NodeSocks' = NodeSocks
    BY <1>5, <1>6 DEF NodeSocks
  <2>3. QED
    BY <1>2, <2>1, <2>2 DEF Held, OpenFds, sockvars
<1>9. \A m \in OpenNodes : node'[m].sock = node[m].sock /\ node'[m].poll = node[m].poll
  BY <1>6 DEF OpenNodes
<1>10. SockTypes' /\ NodeTypes'
  BY <1>2, <1>5, <1>8 DEF SockGood, SockTypes, NodeTypes, sockvars
<1>11. DescriptorsOwned'
  BY <1>2, <1>8, <1>9 DEF SockGood, DescriptorsOwned, sockvars
<1>12. QED
  BY <1>7, <1>10, <1>11 DEF SockGood

\* Nodes M come without a socket.
LEMMA NodesComeKeepsSockets ==
  ASSUME SockGood, NEW M \in SUBSET (Nodes \ UsedNodes),
         \A m \in M : node'[m] \in NodeRecords /\ node'[m].sock = NoSock,
         node' = [n \in Nodes |-> node'[n]], \A n \in Nodes \ M : node'[n] = node[n],
         list' \subseteq list \cup M, UNCHANGED <<sockvars, watch, backend>>
  PROVE  SockGood'
<1>1. \A m \in M : node'[m] # NoNode
  BY SocknodeAssumption
<1>2. \A n \in Nodes : n \in UsedNodes' <=> n \in UsedNodes \/ n \in M
  BY <1>1 DEF UsedNodes
<1>3. OpenNodes' = OpenNodes /\ \A n \in OpenNodes : node'[n] = node[n]
  <2>1. \A n \in Nodes : n \in OpenNodes' <=> n \in OpenNodes
    BY <1>2 DEF OpenNodes
  <2>2. OpenNodes \subseteq Nodes /\ OpenNodes' \subseteq Nodes
    BY DEF OpenNodes, UsedNodes
  <2>3. \A n \in OpenNodes : n \notin M
    BY DEF OpenNodes
  <2>4. QED
    BY <2>1, <2>2, <2>3
<1>4. Held' = Held
  BY <1>3, HeldAre, NextHeldAre DEF sockvars, Held
<1>5. NodeTypes'
  <2>1. \A n \in Nodes : node'[n] \in NodeRecords \cup {NoNode}
    BY DEF SockGood, NodeTypes
  <2>2. list' \subseteq UsedNodes'
    <3>1. list \subseteq Nodes /\ list \subseteq UsedNodes
      BY DEF SockGood, NodeTypes, UsedNodes
    <3>2. QED
      BY <1>2, <3>1
  <2>3. QED
    BY <2>1, <2>2 DEF SockGood, NodeTypes
<1>6. SockTypes' /\ OpenFds' = OpenFds
  BY DEF SockGood, SockTypes, OpenFds, sockvars
<1>7. DescriptorsOwned'
  BY <1>3, <1>4, <1>6 DEF SockGood, DescriptorsOwned, sockvars
<1>8. QED
  BY <1>5, <1>6, <1>7 DEF SockGood

\* The nodes N go, and with them their sockets and their polls.
SocketsGo(N) ==
  LET socks == {node[n].sock : n \in N} \ {NoSock}
  IN  /\ sock' = [k \in Socks |-> IF k \in socks THEN NoSock ELSE sock[k]]
      /\ kernel' = Closed({sock[k] : k \in socks})
      /\ watch' = watch \ UNION {watch \ WatchWithout(n) : n \in N}
      /\ list' = list \ N
      /\ UNCHANGED <<caller, backend>>

\* Freed nodes take their sockets and registrations with them: no other node
\* has the same record or the same descriptor.
LEMMA NodesGoKeepsSockets ==
  ASSUME SockGood, NEW N \in SUBSET UsedNodes,
         node' = [n \in Nodes |-> IF n \in N THEN NoNode ELSE node[n]], SocketsGo(N)
  PROVE  SockGood'
<1> DEFINE socks == {node[n].sock : n \in N} \ {NoSock}
           fds == {sock[k] : k \in socks}
<1>1. /\ sock' = [k \in Socks |-> IF k \in socks THEN NoSock ELSE sock[k]]
      /\ kernel' = Closed(fds) /\ list' = list \ N /\ UNCHANGED <<caller, backend>>
  BY DEF SocketsGo
<1>2. \A k : k \in socks <=> \E n \in OpenNodes : n \in N /\ node[n].sock = k
  BY DEF OpenNodes
<1>3. \A fd : fd \in fds <=> \E k \in socks : sock[k] = fd
  BY Zenon
<1>4. \A fd \in Fds, when \in Directions :
        <<fd, when>> \in watch' <=> /\ <<fd, when>> \in watch
                                    /\ \A n \in OpenNodes : n \in N => ~(fd = sock[node[n].sock] /\ when \in node[n].poll)
  <2>1. TAKE fd \in Fds, when \in Directions
  <2>2. watch' = watch \ UNION {watch \ WatchWithout(n) : n \in N}
    BY DEF SocketsGo
  <2>3. \A n \in N : <<fd, when>> \in watch \ WatchWithout(n)
                       <=> /\ <<fd, when>> \in watch
                           /\ n \in OpenNodes /\ fd = sock[node[n].sock] /\ when \in node[n].poll
    BY DEF WatchWithout, OpenNodes
  <2>4. QED
    BY <2>2, <2>3
<1>5. watch' \subseteq watch
  BY DEF SocketsGo
<1> HIDE DEF socks, fds
<1>6. OpenFds' = OpenFds \ fds /\ OpenFds' \subseteq Fds /\ kernel' \in [OpenFds' -> BOOLEAN]
  BY <1>1, ClosedIs DEF SockGood
<1>7. UsedNodes' = UsedNodes \ N /\ \A n \in UsedNodes \ N : node'[n] = node[n]
  BY DEF UsedNodes, SockGood, NodeTypes
<1>8. OpenNodes' = OpenNodes \ N /\ \A n \in OpenNodes' : node'[n] = node[n]
  BY <1>7 DEF OpenNodes
<1>9. \A m : m \in Held' <=> m \in Held /\ m \notin socks
  <2>1. \A n \in OpenNodes : node[n].sock \notin caller
    BY DEF SockGood, DescriptorsOwned
  <2>2. \A n, m \in OpenNodes : node[n].sock = node[m].sock => n = m
    BY DEF SockGood, DescriptorsOwned
  <2>3. \A k : (\E n \in OpenNodes' : node'[n].sock = k) <=> (\E n \in OpenNodes : node[n].sock = k) /\ k \notin socks
    BY <1>2, <1>8, <2>2
  <2>4. \A k \in caller : k \notin socks
    BY <1>2, <2>1
  <2>5. QED
    BY <1>1, <2>3, <2>4, HeldAre, NextHeldAre
<1>10. \A m \in Held' : m \in Held /\ m \notin socks /\ sock'[m] = sock[m] /\ sock[m] \notin fds
  <2>1. socks \subseteq Held
    BY <1>2, HeldAre
  <2>2. \A m \in Held \ socks : sock[m] \notin fds
    BY <1>3, <2>1 DEF SockGood, DescriptorsOwned
  <2>3. \A m \in Held \ socks : sock'[m] = sock[m]
    BY <1>1, HeldAreUsed
  <2>4. QED
    BY <1>9, <2>2, <2>3
<1>11. SockTypes'
  BY <1>1, <1>6 DEF SockGood, SockTypes
<1>12. NodeTypes'
  BY <1>1, <1>5, <1>7 DEF SockGood, NodeTypes
<1>13. \A m \in Held' : sock'[m] \in OpenFds'
  BY <1>6, <1>10 DEF SockGood, DescriptorsOwned
<1>14. \A m, l \in Held' : sock'[m] = sock'[l] => m = l
  BY <1>10 DEF SockGood, DescriptorsOwned
<1>15. \A d \in OpenFds' : \E m \in Held' : sock'[m] = d
  BY <1>3, <1>6, <1>9, <1>10 DEF SockGood, DescriptorsOwned
<1>16. \A fd \in Fds, when \in Directions :
         <<fd, when>> \in watch' <=> \E n \in OpenNodes' : fd = sock'[node'[n].sock] /\ when \in node'[n].poll
  <2>1. TAKE fd \in Fds, when \in Directions
  <2>2. <<fd, when>> \in watch <=> \E n \in OpenNodes : fd = sock[node[n].sock] /\ when \in node[n].poll
    BY DEF SockGood, DescriptorsOwned
  <2>3. \A n \in OpenNodes' : sock'[node'[n].sock] = sock[node[n].sock] /\ node'[n].poll = node[n].poll
    BY <1>8, <1>10, NextHeldAre
  <2>4. \A n, m \in OpenNodes : sock[node[n].sock] = sock[node[m].sock] => n = m
    BY HeldAre DEF SockGood, DescriptorsOwned
  <2>5. ASSUME <<fd, when>> \in watch'
        PROVE  \E n \in OpenNodes' : fd = sock'[node'[n].sock] /\ when \in node'[n].poll
    <3>1. PICK n \in OpenNodes : fd = sock[node[n].sock] /\ when \in node[n].poll
      BY <1>5, <2>2, <2>5
    <3>2. n \in OpenNodes'
      BY <1>4, <1>8, <2>5, <3>1
    <3>3. QED
      BY <2>3, <3>1, <3>2
  <2>6. ASSUME NEW n \in OpenNodes', fd = sock'[node'[n].sock], when \in node'[n].poll
        PROVE  <<fd, when>> \in watch'
    <3>1. n \in OpenNodes /\ n \notin N /\ fd = sock[node[n].sock] /\ when \in node[n].poll
      BY <1>8, <2>3, <2>6
    <3>2. <<fd, when>> \in watch
      BY <2>2, <3>1
    <3>3. \A m \in OpenNodes : m \in N => fd # sock[node[m].sock]
      BY <2>4, <3>1
    <3>4. QED
      BY <1>4, <3>2, <3>3
  <2>7. QED
    BY <2>5, <2>6
<1>17. \A n \in OpenNodes' : node'[n].sock \notin caller'
  BY <1>1, <1>8 DEF SockGood, DescriptorsOwned
<1>18. \A n, m \in OpenNodes' : node'[n].sock = node'[m].sock => n = m
  BY <1>8 DEF SockGood, DescriptorsOwned
<1>19. DescriptorsOwned'
  BY <1>13, <1>14, <1>15, <1>16, <1>17, <1>18 DEF DescriptorsOwned
<1>20. QED
  BY <1>11, <1>12, <1>19 DEF SockGood

\* A node gets a socket, and the polls of its handlers.
LEMMA OpensKeeps ==
  ASSUME AddrGood, SockGood, NEW n \in UsedNodes, node[n].sock = NoSock, NEW failed,
         NEW listens \in BOOLEAN, Opens(n, failed, listens)
  PROVE  AddrGood' /\ SockGood'
<1>1. PICK lost \in Losses(failed), fd \in FreeFds :
        \E k \in FreeSocks \ lost :
          /\ sock' = [RecordsWith(lost) EXCEPT ![k] = fd]
          /\ kernel' = Opened(fd, listens)
          /\ aborted' = InstallFails(n)
          /\ Installed(n, k, fd)
          /\ UNCHANGED caller
  BY DEF Opens
<1>2. PICK k \in FreeSocks \ lost :
          /\ sock' = [RecordsWith(lost) EXCEPT ![k] = fd]
          /\ kernel' = Opened(fd, listens)
          /\ aborted' = InstallFails(n)
          /\ Installed(n, k, fd)
          /\ UNCHANGED caller
  BY <1>1
<1> DEFINE r == [node[n] EXCEPT !.sock = k, !.poll = node[n].handler]
<1>3. /\ n \in Nodes /\ node[n] \in NodeRecords /\ NodeTypes
      /\ k \in Socks /\ fd \in Fds /\ fd \notin OpenFds /\ lost \in SUBSET FreeSocks
      /\ k # NoSock
  BY NodeFields, SocketAssumption DEF SockGood, FreeSocks, FreeFds, Losses
<1>4. /\ node' = [node EXCEPT ![n] = r] /\ watch' = watch \cup ({fd} \X node[n].handler)
      /\ UNCHANGED <<record, sa, list, backend>>
  BY <1>2 DEF Installed
<1>5. r \in NodeRecords /\ r # NoNode
  BY <1>3, SocknodeAssumption DEF NodeRecords
<1>6. r.addr = node[n].addr /\ r.sock = k /\ r.poll = node[n].handler /\ node[n].handler \subseteq Directions
  BY <1>3 DEF NodeRecords
<1> HIDE DEF r
<1>7. node' \in [Nodes -> NodeRecords \cup {NoNode}] /\ UsedNodes' = UsedNodes
  BY <1>3, <1>4, <1>5 DEF NodeTypes, UsedNodes
<1>8. node'[n] = r /\ \A m \in UsedNodes : m # n => node'[m] = node[m]
  BY <1>3, <1>4 DEF NodeTypes, UsedNodes
<1>9. AddrGood'
  <2>1. aborted' \in BOOLEAN
    BY <1>2 DEF InstallFails
  <2>2. \A m \in UsedNodes : node'[m].addr = node[m].addr
    BY <1>6, <1>8
  <2>3. QED
    BY <1>3, <1>4, <1>7, <2>1, <2>2, SameLists
<1>10. OpenNodes' = OpenNodes \cup {n} /\ n \notin OpenNodes /\ \A m \in OpenNodes : node'[m] = node[m]
  <2>1. n \notin OpenNodes
    BY DEF OpenNodes
  <2>2. \A m \in UsedNodes : m \in OpenNodes' <=> m \in OpenNodes \/ m = n
    BY <1>3, <1>6, <1>7, <1>8 DEF OpenNodes
  <2>3. OpenNodes \subseteq UsedNodes /\ OpenNodes' \subseteq UsedNodes
    BY <1>7 DEF OpenNodes
  <2>4. QED
    BY <1>8, <2>1, <2>2, <2>3
<1>11. node'[n].sock = k /\ node'[n].poll = node[n].handler
  BY <1>6, <1>8
<1>12. OpenFds' = OpenFds \cup {fd} /\ OpenFds' \subseteq Fds /\ kernel' \in [OpenFds' -> BOOLEAN]
  BY <1>2, OpenedIs DEF SockGood
<1>13. k \notin Held /\ \A m \in Held : m \in Socks /\ m # k /\ m \notin lost /\ sock[m] \in OpenFds
  BY <1>3, HeldAreUsed
<1>14. \A m : m \in Held' <=> m \in Held \/ m = k
  <2>1. caller' = caller
    BY <1>2
  <2>2. \A m : (\E o \in OpenNodes' : node'[o].sock = m) <=> (\E o \in OpenNodes : node[o].sock = m) \/ m = k
    BY <1>10, <1>11
  <2>3. QED
    BY <2>1, <2>2, HeldAre, NextHeldAre
<1>15. sock'[k] = fd /\ \A m \in Held : sock'[m] = sock[m]
  BY <1>2, <1>3, <1>13 DEF RecordsWith
<1>16. SockTypes'
  <2>1. sock' \in [Socks -> Fds \cup {InvalidSocket, NoSock}]
    BY <1>2, <1>3 DEF RecordsWith, SockGood, SockTypes
  <2>2. QED
    BY <1>2, <1>12, <2>1 DEF SockGood, SockTypes
<1>17. NodeTypes'
  <2>1. watch' \subseteq Fds \X Directions
    BY <1>3, <1>4, <1>6 DEF NodeTypes
  <2>2. QED
    BY <1>3, <1>4, <1>7, <2>1 DEF NodeTypes
<1>18. \A m \in OpenNodes' : node'[m].sock \notin caller'
  <2>1. \A m \in OpenNodes : node'[m].sock \notin caller
    BY <1>10 DEF SockGood, DescriptorsOwned
  <2>2. k \notin caller
    BY <1>13, HeldAre
  <2>3. QED
    BY <1>2, <1>10, <1>11, <2>1, <2>2
<1>19. \A m, o \in OpenNodes' : node'[m].sock = node'[o].sock => m = o
  <2>1. \A m \in OpenNodes : node'[m].sock # k
    BY <1>10, <1>13, HeldAre
  <2>2. \A m, o \in OpenNodes : node'[m].sock = node'[o].sock => m = o
    BY <1>10 DEF SockGood, DescriptorsOwned
  <2>3. QED
    BY <1>10, <1>11, <2>1, <2>2
<1>20. \A m \in Held' : sock'[m] \in OpenFds'
  BY <1>12, <1>13, <1>14, <1>15
<1>21. \A m, l \in Held' : sock'[m] = sock'[l] => m = l
  BY <1>3, <1>13, <1>14, <1>15 DEF SockGood, DescriptorsOwned
<1>22. \A d \in OpenFds' : \E m \in Held' : sock'[m] = d
  BY <1>12, <1>14, <1>15 DEF SockGood, DescriptorsOwned
<1>23. \A d \in Fds, when \in Directions :
         <<d, when>> \in watch' <=> \E m \in OpenNodes' : d = sock'[node'[m].sock] /\ when \in node'[m].poll
  <2>1. TAKE d \in Fds, when \in Directions
  <2>2. <<d, when>> \in watch <=> \E m \in OpenNodes : d = sock[node[m].sock] /\ when \in node[m].poll
    BY DEF SockGood, DescriptorsOwned
  <2>3. \A m \in OpenNodes : sock'[node'[m].sock] = sock[node[m].sock] /\ node'[m].poll = node[m].poll
    BY <1>10, <1>15, HeldAre
  <2>4. <<d, when>> \in watch' <=> <<d, when>> \in watch \/ (d = fd /\ when \in node[n].handler)
    BY <1>4
  <2>5. sock'[node'[n].sock] = fd
    BY <1>11, <1>15
  <2>6. QED
    BY <1>10, <1>11, <2>2, <2>3, <2>4, <2>5
<1>24. DescriptorsOwned'
  BY <1>18, <1>19, <1>20, <1>21, <1>22, <1>23 DEF DescriptorsOwned
<1>25. QED
  BY <1>9, <1>16, <1>17, <1>24 DEF SockGood

-----------------------------------------------------------------------------
(* The calls of socknodes                                                  *)

\* Nothing changes but whether the process lives.
LEMMA ListsStay ==
  ASSUME AddrGood, UNCHANGED <<record, sa, node>>, aborted' \in BOOLEAN
  PROVE  AddrGood'
<1>1. UsedBlocks' = UsedBlocks /\ Owners' = Owners /\ Lists' = Lists
  BY DEF UsedBlocks, FreeBlocks, Owners, UsedNodes, Lists, ListOf
<1>2. QED
  BY <1>1 DEF AddrGood, AddrTypes, AddressesOwned

\* Where no address works, only records are lost.
LEMMA OpensNothingKeeps ==
  ASSUME NetInv, NEW n, NEW failed, OpensNothing(n, failed)
  PROVE  NetInv'
<1>1. PICK lost \in Losses(failed) : sock' = RecordsWith(lost)
  BY DEF OpensNothing
<1>2. UNCHANGED <<kernel, caller, addrvars, nodevars>>
  BY DEF OpensNothing
<1>3. SockGood'
  BY <1>1, <1>2, RecordsAreLost DEF Losses, NetInv
<1>4. AddrGood'
  BY <1>2, ListsStay DEF NetInv, AddrGood, AddrTypes, addrvars, nodevars
<1>5. QED
  BY <1>3, <1>4 DEF NetInv

\* ogs_tcp_server and ogs_tcp_client.
LEMMA TcpOpenKeeps ==
  ASSUME NetInv, NEW n \in UsedNodes, NEW listens \in BOOLEAN, TcpOpen(n, listens)
  PROVE  NetInv'
<1>1. node[n].sock = NoSock
  BY DEF TcpOpen
<1>2. CASE \E i \in DOMAIN node[n].addr : \E failed \in SUBSET (1 .. i - 1) : Opens(n, failed, listens)
  BY <1>1, <1>2, OpensKeeps DEF NetInv
<1>3. CASE \E failed \in SUBSET DOMAIN node[n].addr : OpensNothing(n, failed)
  BY <1>3, OpensNothingKeeps
<1>4. CASE aborted' = TRUE /\ UNCHANGED <<record, sa, sockvars, nodevars>>
  BY <1>4, ListsStay, NothingMoves DEF NetInv, nodevars
<1>5. QED
  BY <1>2, <1>3, <1>4 DEF TcpOpen

\* ogs_udp_server and ogs_udp_client.
LEMMA UdpOpenKeeps ==
  ASSUME NetInv, NEW n \in UsedNodes, NEW listens \in BOOLEAN, UdpOpen(n, listens)
  PROVE  NetInv'
<1>1. node[n].sock = NoSock
  BY DEF UdpOpen
<1>2. CASE \E i \in DOMAIN node[n].addr : Opens(n, {}, listens)
  BY <1>1, <1>2, OpensKeeps DEF NetInv
<1>3. CASE OpensNothing(n, {})
  BY <1>3, OpensNothingKeeps
<1>4. CASE aborted' = TRUE /\ UNCHANGED <<record, sa, sockvars, nodevars>>
  BY <1>4, ListsStay, NothingMoves DEF NetInv, nodevars
<1>5. QED
  BY <1>2, <1>3, <1>4 DEF UdpOpen

\* ogs_socknode_free is the removal of one node, ogs_socknode_remove_all of
\* those on the list.
LEMMA FreeNodeIs ==
  ASSUME NetInv, NEW n \in UsedNodes, FreeNode(n), list' = list \ {n}
  PROVE  NodesGo({n}) /\ SocketsGo({n})
<1>1. SockTypes /\ NodeTypes /\ node[n].sock \in Socks \cup {NoSock}
  BY NodeFields DEF NetInv, SockGood
<1>2. record' = Released(UNION {ToSet(node[m].addr) : m \in {n}})
  <2>1. UNION {ToSet(node[m].addr) : m \in {n}} = ToSet(node[n].addr)
    OBVIOUS
  <2>2. QED
    BY <2>1 DEF FreeNode
<1>3. node' = [m \in Nodes |-> IF m \in {n} THEN NoNode ELSE node[m]]
  BY <1>1 DEF FreeNode, NodeTypes
<1>4. watch' = watch \ UNION {watch \ WatchWithout(m) : m \in {n}}
  <2>1. UNION {watch \ WatchWithout(m) : m \in {n}} = watch \ WatchWithout(n)
    OBVIOUS
  <2>2. WatchWithout(n) \subseteq watch
    BY DEF WatchWithout
  <2>3. QED
    BY <2>1, <2>2 DEF FreeNode
<1> DEFINE socks == {node[m].sock : m \in {n}} \ {NoSock}
<1>5. /\ sock' = [k \in Socks |-> IF k \in socks THEN NoSock ELSE sock[k]]
      /\ kernel' = Closed({sock[k] : k \in socks})
  <2>1. CASE node[n].sock = NoSock
    <3>1. socks = {} /\ {sock[k] : k \in socks} = {}
      BY <2>1
    <3>2. sock' = sock /\ kernel' = kernel
      BY <2>1 DEF FreeNode
    <3>3. Closed({}) = kernel
      BY <1>1 DEF Closed, SockTypes
    <3> HIDE DEF socks
    <3>4. QED
      BY <1>1, <3>1, <3>2, <3>3 DEF SockTypes
  <2>2. CASE node[n].sock # NoSock
    <3>1. socks = {node[n].sock} /\ {sock[k] : k \in socks} = {sock[node[n].sock]}
      BY <2>2
    <3>2. sock' = [sock EXCEPT ![node[n].sock] = NoSock] /\ kernel' = Closed({sock[node[n].sock]})
      BY <2>2 DEF FreeNode, Destroyed
    <3> HIDE DEF socks
    <3>3. QED
      BY <1>1, <3>1, <3>2 DEF SockTypes
  <2>3. QED
    BY <2>1, <2>2
<1>6. UNCHANGED <<sa, aborted, caller, backend>>
  BY DEF FreeNode
<1>7. QED
  BY <1>2, <1>3, <1>4, <1>5, <1>6 DEF NodesGo, SocketsGo

\* Both halves of the invariant when nodes go.
LEMMA NodesGoKeep ==
  ASSUME NetInv, NEW N \in SUBSET UsedNodes, NodesGo(N), SocketsGo(N)
  PROVE  NetInv'
BY NodesGoKeepsLists, NodesGoKeepsSockets DEF NetInv, SockGood, NodesGo

\* A new node has no socket yet.
LEMMA NodeComesKeeps ==
  ASSUME NetInv, NEW n \in Nodes \ UsedNodes, NEW s \in Seq(Blocks),
         node' = [node EXCEPT ![n] = NewNode(s)], list' \subseteq list \cup {n},
         UNCHANGED <<sockvars, watch, backend>>
  PROVE  SockGood'
<1> DEFINE M == {n}
<1>1. NodeTypes /\ SockGood
  BY DEF NetInv, SockGood
<1>2. NewNode(s) \in NodeRecords /\ NewNode(s).sock = NoSock
  BY NewNodeIs
<1>3. node'[n] = NewNode(s) /\ \A m \in Nodes \ M : node'[m] = node[m]
  BY <1>1 DEF NodeTypes
<1>4. node' = [m \in Nodes |-> node'[m]]
  BY <1>1 DEF NodeTypes
<1>5. M \in SUBSET (Nodes \ UsedNodes) /\ list' \subseteq list \cup M
  OBVIOUS
<1>6. \A m \in M : node'[m] \in NodeRecords /\ node'[m].sock = NoSock
  BY <1>2, <1>3
<1> HIDE DEF M
<1>7. QED
  BY <1>1, <1>3, <1>4, <1>5, <1>6, NodesComeKeepsSockets

\* ogs_socknode_new, for both halves of the invariant.
LEMMA SocknodeNewKeeps ==
  ASSUME NetInv, NEW h \in Holders, SocknodeNew(h)
  PROVE  NetInv'
<1>1. AddrGood'
  BY SocknodeNewKeepsLists DEF NetInv, SockGood
<1>2. PICK n \in Nodes \ UsedNodes : node' = [node EXCEPT ![n] = NewNode(sa[h])]
  BY DEF SocknodeNew
<1>3. UNCHANGED <<sockvars, list, watch, backend>>
  BY DEF SocknodeNew
<1>4. sa[h] \in Seq(Blocks)
  BY DEF NetInv, AddrGood, AddrTypes
<1>5. SockGood'
  BY <1>2, <1>3, <1>4, NodeComesKeeps
<1>6. QED
  BY <1>1, <1>5 DEF NetInv

\* ogs_socknode_add, for both halves of the invariant.
LEMMA SocknodeAddKeeps ==
  ASSUME NetInv, NEW h \in Holders, NEW family, SocknodeAdd(h, family)
  PROVE  NetInv'
<1> DEFINE kept == IF family = "unspec" THEN sa[h] ELSE Filtered(sa[h], family)
<1>1. AddrGood'
  BY SocknodeAddKeepsLists DEF NetInv, SockGood
<1>2. /\ UNCHANGED <<sockvars, watch, backend>>
      /\ \/ UNCHANGED <<node, list>>
         \/ \E n \in Nodes \ UsedNodes : node' = [node EXCEPT ![n] = NewNode(kept)] /\ list' = list \cup {n}
  BY DEF SocknodeAdd
<1>3. kept \in Seq(Blocks)
  BY FilteredIs DEF NetInv, AddrGood, AddrTypes
<1> HIDE DEF kept
<1>4. SockGood'
  <2>1. CASE UNCHANGED <<node, list>>
    BY <1>2, <2>1, NothingMoves DEF NetInv, nodevars
  <2>2. CASE \E n \in Nodes \ UsedNodes : node' = [node EXCEPT ![n] = NewNode(kept)] /\ list' = list \cup {n}
    <3>1. PICK n \in Nodes \ UsedNodes : node' = [node EXCEPT ![n] = NewNode(kept)] /\ list' = list \cup {n}
      BY <2>2
    <3>2. list' \subseteq list \cup {n} /\ UNCHANGED <<sockvars, watch, backend>>
      BY <1>2, <3>1
    <3>3. QED
      BY <1>3, <3>1, <3>2, NodeComesKeeps
  <2>3. QED
    BY <1>2, <2>1, <2>2
<1>5. QED
  BY <1>1, <1>4 DEF NetInv

\* ogs_socknode_probe, for both halves of the invariant.
LEMMA ProbeKeeps ==
  ASSUME NetInv, NEW dev, NEW families \in SUBSET Families, Probe(dev, families)
  PROVE  NetInv'
<1> DEFINE Made(M, f) ==
             /\ \A m, n \in M : f[m] = f[n] => m = n
             /\ node' \in [Nodes -> {node'[n] : n \in Nodes}]
             /\ \A m \in M : node'[m] = NewNode(<<f[m]>>)
             /\ \A n \in Nodes \ M : node'[n] = node[n]
             /\ record' \in [Blocks -> Addresses \cup {NoAddr}]
             /\ \A b \in Blocks : record'[b] # NoAddr <=> record[b] # NoAddr \/ \E m \in M : b = f[m]
             /\ list' = list \cup M
             /\ UNCHANGED <<sa, aborted, sockvars, watch, backend>>
<1>1. AddrTypes /\ AddrGood /\ NodeTypes /\ SockGood
  BY DEF NetInv, AddrGood, SockGood
<1>2. \E M \in SUBSET (Nodes \ UsedNodes) : \E f \in [M -> FreeBlocks] : Made(M, f)
  BY <1>1, ProbeMakes, Zenon
<1>3. PICK M \in SUBSET (Nodes \ UsedNodes) : \E f \in [M -> FreeBlocks] : Made(M, f)
  BY <1>2, Zenon
<1>4. PICK f \in [M -> FreeBlocks] : Made(M, f)
  BY <1>3, Zenon
<1>5. AddrGood'
  BY <1>1, <1>4, NodesComeKeepsLists
<1>6. SockGood'
  <2>1. \A m \in M : f[m] \in Blocks
    BY DEF FreeBlocks
  <2>2. \A b \in Blocks : <<b>> \in Seq(Blocks)
    OBVIOUS
  <2>3. \A b \in Blocks : NewNode(<<b>>) \in NodeRecords /\ NewNode(<<b>>).sock = NoSock
    BY <2>2, NewNodeIs
  <2>4. \A m \in M : node'[m] \in NodeRecords /\ node'[m].sock = NoSock
    <3>1. \A m \in M : node'[m] = NewNode(<<f[m]>>)
      BY <1>4
    <3>2. QED
      BY <2>1, <2>3, <3>1
  <2>5. node' = [n \in Nodes |-> node'[n]]
    BY <1>4
  <2>6. \A n \in Nodes \ M : node'[n] = node[n]
    BY <1>4
  <2>7. list' \subseteq list \cup M /\ UNCHANGED <<sockvars, watch, backend>>
    BY <1>4
  <2> HIDE DEF Made
  <2>8. QED
    BY <1>1, <2>4, <2>5, <2>6, <2>7, NodesComeKeepsSockets
<1>7. QED
  BY <1>5, <1>6 DEF NetInv

\* ogs_socknode_remove_all.
LEMMA RemoveAllKeeps ==
  ASSUME NetInv, RemoveAll
  PROVE  NetInv'
<1>1. list \in SUBSET UsedNodes
  BY DEF NetInv, SockGood, NodeTypes
<1>2. NodesGo(list)
  BY DEF RemoveAll, NodesGo
<1>3. SocketsGo(list)
  <2>1. list' = list \ list
    BY DEF RemoveAll
  <2>2. QED
    BY <2>1 DEF RemoveAll, SocketsGo
<1>4. QED
  BY <1>1, <1>2, <1>3, NodesGoKeep

\* All calls for nodes.
LEMMA NodeCallKeeps ==
  ASSUME NetInv, NodeCall
  PROVE  NetInv'
<1>1. ASSUME NEW n \in UsedNodes, SocknodeFree(n) \/ SocknodeRemove(n) PROVE NetInv'
  <2>1. FreeNode(n) /\ list' = list \ {n}
    BY <1>1 DEF SocknodeFree, SocknodeRemove
  <2>2. NodesGo({n}) /\ SocketsGo({n})
    BY <2>1, FreeNodeIs
  <2>3. {n} \in SUBSET UsedNodes
    OBVIOUS
  <2>4. QED
    BY <2>2, <2>3, NodesGoKeep
<1>2. ASSUME NEW n \in UsedNodes, NEW when \in Directions, SetPoll(n, when) PROVE NetInv'
  BY <1>2, SetPollKeeps DEF NetInv
<1>3. ASSUME NEW n \in UsedNodes, TcpServer(n) \/ TcpClient(n) PROVE NetInv'
  BY <1>3, TcpOpenKeeps DEF TcpServer, TcpClient
<1>4. ASSUME NEW n \in UsedNodes, UdpServer(n) \/ UdpClient(n) PROVE NetInv'
  BY <1>4, UdpOpenKeeps DEF UdpServer, UdpClient
<1>5. ASSUME NEW n \in UsedNodes, NodeAccept(n) PROVE NetInv'
  <2>1. SockAccept(node[n].sock) /\ UNCHANGED <<addrvars, nodevars>>
    BY <1>5 DEF NodeAccept
  <2>2. SockGood'
    BY <2>1, SockCallKeeps DEF NetInv
  <2>3. AddrGood'
    BY <2>1, ListsStay DEF NetInv, AddrGood, AddrTypes, addrvars, nodevars
  <2>4. QED
    BY <2>2, <2>3 DEF NetInv
<1>6. QED
  BY <1>1, <1>2, <1>3, <1>4, <1>5, SocknodeNewKeeps, SocknodeAddKeeps, ProbeKeeps, RemoveAllKeeps DEF NodeCall

\* Nothing is allocated, open or registered at the start.
LEMMA NetInvInit == NetInit => NetInv
<1> SUFFICES ASSUME NetInit PROVE NetInv
  OBVIOUS
<1> USE DEF NetInit, AddrInit, SockInit, NodeInit
<1>1. AddrTypes
  <2>1. << >> \in Seq(Blocks)
    OBVIOUS
  <2>2. QED
    BY <2>1 DEF AddrTypes
<1>2. UsedNodes = {} /\ OpenNodes = {} /\ OpenFds = {} /\ NodeSocks = {} /\ Held = {}
  <2>1. UsedNodes = {}
    BY DEF UsedNodes
  <2>2. OpenFds = {}
    BY DEF OpenFds
  <2>3. QED
    BY <2>1, <2>2 DEF OpenNodes, NodeSocks, Held
<1>3. SockTypes
  <2>1. kernel \in [OpenFds -> BOOLEAN]
    <3>1. << >> \in [{} -> BOOLEAN]
      OBVIOUS
    <3>2. QED
      BY <1>2, <3>1
  <2>2. QED
    BY <1>2, <2>1 DEF SockTypes
<1>4. NodeTypes
  BY DEF NodeTypes
<1>5. DescriptorsOwned
  BY <1>2 DEF DescriptorsOwned
<1>6. AddressesOwned
  <2>1. \A o \in Owners : Lists[o] = << >>
    BY <1>2, ListsAre
  <2>2. ToSet(<< >>) = {} /\ IsInjective(<< >>) /\ << >> \in Seq(Blocks)
    BY DEF ToSet, IsInjective
  <2>3. UsedBlocks = {}
    BY DEF UsedBlocks, FreeBlocks
  <2>4. QED
    BY <2>1, <2>2, <2>3 DEF AddressesOwned, OwnedOnce
<1>7. QED
  BY <1>1, <1>3, <1>4, <1>5, <1>6 DEF NetInv, AddrGood, SockGood

\* Every step keeps the invariant.
LEMMA NetInvNext == NetInv /\ [NetNext]_netvars => NetInv'
<1> SUFFICES ASSUME NetInv, [NetNext]_netvars PROVE NetInv'
  OBVIOUS
<1>1. CASE UNCHANGED netvars
  <2>1. UNCHANGED <<addrvars, sockvars, nodevars>>
    BY <1>1 DEF netvars
  <2>2. AddrGood'
    BY <2>1, ListsStay DEF NetInv, AddrGood, AddrTypes, addrvars, nodevars
  <2>3. SockGood'
    BY <2>1, NothingMoves DEF NetInv
  <2>4. QED
    BY <2>2, <2>3 DEF NetInv
<1>2. CASE AddrCall /\ UNCHANGED <<sockvars, nodevars>>
  BY <1>2, AddrCallKeeps, NothingMoves DEF NetInv, nodevars
<1>3. CASE SockCall /\ UNCHANGED <<addrvars, nodevars>>
  <2>1. SockGood'
    BY <1>3, SockCallKeeps DEF NetInv
  <2>2. AddrGood'
    BY <1>3, ListsStay DEF NetInv, AddrGood, AddrTypes, addrvars, nodevars
  <2>3. QED
    BY <2>1, <2>2 DEF NetInv
<1>4. CASE NodeCall
  BY <1>4, NodeCallKeeps
<1>5. QED
  BY <1>1, <1>2, <1>3, <1>4 DEF NetNext

\* The invariant holds always.
LEMMA NetInvAlways == NetSpec => []NetInv
BY NetInvInit, NetInvNext, PTL DEF NetSpec

-----------------------------------------------------------------------------
(* The theorems                                                            *)

\* ogs_sortaddrinfo loses and doubles no address, and one of the preferred
\* family comes first if there is one, for lists of any length.
THEOREM SortKeepsPreference == NetSpec => []SortPrefersFamily
<1>1. AddrTypes => SortPrefersFamily
  <2>1. SUFFICES ASSUME AddrTypes, NEW h \in Holders, NEW f \in Families
                 PROVE  /\ ToSet(SortedBy(sa[h], f)) = ToSet(sa[h])
                        /\ Len(SortedBy(sa[h], f)) = Len(sa[h])
                        /\ (\E b \in ToSet(SortedBy(sa[h], f)) : FamilyOf(b) = f)
                              => FamilyOf(SortedBy(sa[h], f)[1]) = f
    BY DEF SortPrefersFamily
  <2>2. sa[h] \in Seq(Blocks)
    BY <2>1 DEF AddrTypes
  <2>3. QED
    BY <2>2, SortedIs DEF FirstIsOf
<1>2. NetInv => AddrTypes
  BY DEF NetInv, AddrGood
<1>3. QED
  BY <1>1, <1>2, NetInvAlways, PTL

\* A block in use is linked once, an unused one nowhere.
LEMMA OwnedIsLinkedOnce == AddressesOwned => AddressesHaveOneOwner
<1>1. SUFFICES ASSUME AddressesOwned, NEW b \in Blocks
               PROVE  Cardinality(Links(b)) = IF record[b] = NoAddr THEN 0 ELSE 1
  BY DEF AddressesHaveOneOwner
<1>2. \A o \in Owners : Lists[o] = ListOf(o)
  BY DEF Lists
<1>3. \A o, i : <<o, i>> \in Links(b) <=> o \in Owners /\ i \in DOMAIN ListOf(o) /\ ListOf(o)[i] = b
  BY DEF Links
<1>4. \A l \in Links(b) : l = <<l[1], l[2]>>
  BY DEF Links
<1>5. \A o \in Owners : b \in ToSet(ListOf(o)) <=> \E i \in DOMAIN ListOf(o) : ListOf(o)[i] = b
  BY DEF ToSet
<1>6. CASE record[b] = NoAddr
  <2>1. \A o \in Owners : b \notin ToSet(ListOf(o))
    BY <1>1, <1>2, <1>6, ListsAre DEF AddressesOwned, OwnedOnce
  <2>2. Links(b) = {}
    BY <1>3, <1>4, <1>5, <2>1
  <2>3. QED
    BY <1>6, <2>2, FS_EmptySet
<1>7. CASE record[b] # NoAddr
  <2>1. PICK o \in Owners : b \in ToSet(ListOf(o))
    BY <1>1, <1>2, <1>7, ListsAre DEF AddressesOwned, OwnedOnce
  <2>2. PICK i \in DOMAIN ListOf(o) : ListOf(o)[i] = b
    BY <1>5, <2>1
  <2>3. \A q \in Owners : b \in ToSet(ListOf(q)) => q = o
    BY <1>1, <1>2, <2>1 DEF AddressesOwned, OwnedOnce
  <2>4. \A j \in DOMAIN ListOf(o) : ListOf(o)[j] = b => j = i
    BY <1>1, <1>2, <2>2 DEF AddressesOwned, OwnedOnce, IsInjective
  <2>5. \A q, j : <<q, j>> \in Links(b) => q = o /\ j = i
    BY <1>3, <1>5, <2>3, <2>4
  <2>6. <<o, i>> \in Links(b)
    BY <1>3, <2>2
  <2>7. \A l \in Links(b) : l = <<o, i>>
    BY <1>4, <2>5
  <2>8. Links(b) = {<<o, i>>}
    BY <2>6, <2>7
  <2>9. QED
    BY <1>7, <2>8, FS_Singleton
<1>8. QED
  BY <1>6, <1>7

\* The held records, the open descriptors and the registrations belong
\* together.
LEMMA OwnedDescriptors == SockGood => DescriptorsHaveOneOwner
<1>1. SUFFICES ASSUME SockGood PROVE DescriptorsHaveOneOwner
  OBVIOUS
<1>2. caller \cap NodeSocks = {}
  BY <1>1, HeldAre DEF SockGood, DescriptorsOwned
<1>3. OpenFds = {sock[k] : k \in Held}
  BY <1>1 DEF SockGood, DescriptorsOwned
<1>4. \A k, m \in Held : sock[k] = sock[m] => k = m
  BY <1>1 DEF SockGood, DescriptorsOwned
<1> DEFINE P == UNION {{sock[node[n].sock]} \X node[n].poll : n \in OpenNodes}
<1>5. watch = P
  <2>1. watch \subseteq Fds \X Directions
    BY <1>1 DEF SockGood, NodeTypes
  <2>2. P \subseteq Fds \X Directions
    <3>1. \A n \in OpenNodes : sock[node[n].sock] \in Fds /\ node[n].poll \subseteq Directions
      BY <1>1, HeldAre, HeldAreUsed, NodeFields DEF SockGood
    <3>2. QED
      BY <3>1
  <2>3. \A fd, when : <<fd, when>> \in P
                        <=> \E n \in OpenNodes : fd = sock[node[n].sock] /\ when \in node[n].poll
    OBVIOUS
  <2> HIDE DEF P
  <2>4. \A fd \in Fds, when \in Directions : <<fd, when>> \in watch <=> <<fd, when>> \in P
    BY <1>1, <2>3 DEF SockGood, DescriptorsOwned
  <2>5. QED
    BY <2>1, <2>2, <2>4
<1>6. QED
  BY <1>2, <1>3, <1>4, <1>5 DEF DescriptorsHaveOneOwner, Held, OpenNodes

\* Through every call and every failure each allocated address is on one list
\* of one owner, each open descriptor has one record that somebody holds, and
\* the pollset has the polls of the nodes and no others: nothing leaks but the
\* records of failed socket() calls, and nothing is freed twice.
THEOREM OwnersAreSound == NetSpec => []EverythingHasOneOwner
<1>1. NetInv => EverythingHasOneOwner
  BY OwnedIsLinkedOnce, OwnedDescriptors DEF NetInv, AddrGood, EverythingHasOneOwner
<1>2. QED
  BY <1>1, NetInvAlways, PTL
=============================================================================
