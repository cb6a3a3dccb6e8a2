-------------------------- MODULE HttpRegistryProofs --------------------------
(*****************************************************************************)
(* Proofs about HttpRegistry: the types, the cap of the registry, that a     *)
(* session is released exactly once it has left, and that no request reaps   *)
(* the session it serves.                                                    *)
(*****************************************************************************)
EXTENDS HttpRegistry, SequenceTheorems, FiniteSetTheorems, TLAPS

-------------------------------------------------------------------------------
(*****************************************************************************)
(* Lists.                                                                    *)
(*****************************************************************************)
NoDuplicates(q) == \A i, j \in DOMAIN q : q[i] = q[j] => i = j

\* R orders S strictly and totally.
Orders(R, S) ==
  /\ \A s \in S : <<s, s>> \notin R
  /\ \A s, t \in S : s = t \/ <<s, t>> \in R \/ <<t, s>> \in R
  /\ \A s, t, u \in S : <<s, t>> \in R /\ <<t, u>> \in R => <<s, u>> \in R

Below(S, R, s) == {t \in S : <<t, s>> \in R}

\* The ranks of a finite ordered set are the numbers below its size.
LEMMA Ranks ==
  ASSUME NEW S, IsFiniteSet(S), NEW R, Orders(R, S)
  PROVE  /\ Cardinality(S) \in Nat
         /\ \A s \in S : Rank(S, R, s) \in 0..(Cardinality(S) - 1)
         /\ \A s, t \in S : Rank(S, R, s) = Rank(S, R, t) => s = t
         /\ \A k \in 0..(Cardinality(S) - 1) : \E s \in S : Rank(S, R, s) = k
<1> DEFINE N == 0..(Cardinality(S) - 1)
<1> DEFINE f == [s \in S |-> Rank(S, R, s)]
<1>1. Cardinality(S) \in Nat
  BY FS_CardinalityType
<1>2. ASSUME NEW s \in S
      PROVE  /\ Rank(S, R, s) = Cardinality(Below(S, R, s))
             /\ Below(S, R, s) \in SUBSET S
             /\ IsFiniteSet(Below(S, R, s)) /\ Cardinality(Below(S, R, s)) \in Nat
  <2>1. Below(S, R, s) \in SUBSET S
    BY DEF Below
  <2> QED BY <2>1, FS_Subset, FS_CardinalityType DEF Rank, Below
<1>3. ASSUME NEW s \in S PROVE Rank(S, R, s) \in N
  <2>1. Below(S, R, s) \in SUBSET (S \ {s})
    BY DEF Orders, Below
  <2>2. IsFiniteSet(S \ {s}) /\ Cardinality(S \ {s}) = Cardinality(S) - 1
    BY FS_RemoveElement
  <2>3. Cardinality(Below(S, R, s)) <= Cardinality(S \ {s})
    BY <2>1, <2>2, FS_Subset
  <2> QED BY <1>1, <1>2, <2>2, <2>3
<1>4. ASSUME NEW s \in S, NEW t \in S, <<s, t>> \in R
      PROVE  Rank(S, R, s) < Rank(S, R, t)
  <2> DEFINE L == Below(S, R, s) \cup {s}
  <2>1. L \in SUBSET Below(S, R, t) /\ s \notin Below(S, R, s)
    BY <1>4 DEF Orders, Below
  <2>2. Cardinality(L) = Cardinality(Below(S, R, s)) + 1
    BY <1>2, <2>1, FS_AddElement
  <2> HIDE DEF L
  <2>3. Cardinality(L) <= Cardinality(Below(S, R, t))
    BY <1>2, <2>1, FS_Subset
  <2> QED BY <1>2, <2>2, <2>3
<1>5. ASSUME NEW s \in S, NEW t \in S, Rank(S, R, s) = Rank(S, R, t) PROVE s = t
  <2>1. Rank(S, R, s) \in Int /\ Rank(S, R, t) \in Int
    BY <1>1, <1>3
  <2>2. ~ (Rank(S, R, s) < Rank(S, R, t)) /\ ~ (Rank(S, R, t) < Rank(S, R, s))
    BY <1>5, <2>1
  <2> QED BY <1>4, <2>2 DEF Orders
<1>6. IsFiniteSet(N) /\ Cardinality(N) = Cardinality(S)
  BY <1>1, FS_Interval
<1>7. f \in Surjection(S, N)
  <2>1. f \in [S -> N]
    BY <1>3
  <2>2. f \in Injection(S, N)
    BY <1>5, <2>1 DEF Injection, IsInjective
  <2> QED BY <1>6, <2>2, FS_Injection
<1>8. \A k \in N : \E s \in S : f[s] = k
  BY <1>7 DEF Surjection
<1> QED BY <1>1, <1>3, <1>5, <1>8

\* A finite ordered set is listed without omission or repetition.
LEMMA ListedIs ==
  ASSUME NEW S, IsFiniteSet(S), NEW R, Orders(R, S)
  PROVE  /\ Listed(S, R) \in Seq(S)
         /\ Len(Listed(S, R)) = Cardinality(S)
         /\ Elements(Listed(S, R)) = S
         /\ NoDuplicates(Listed(S, R))
<1> DEFINE n == Cardinality(S)
<1> DEFINE e(i) == CHOOSE s \in S : Rank(S, R, s) = i - 1
<1> DEFINE q == [i \in 1..n |-> e(i)]
<1>1. /\ n \in Nat
      /\ \A s \in S : Rank(S, R, s) \in 0..(n - 1)
      /\ \A s, t \in S : Rank(S, R, s) = Rank(S, R, t) => s = t
      /\ \A k \in 0..(n - 1) : \E s \in S : Rank(S, R, s) = k
  BY Ranks
<1>2. \A i \in 1..n : e(i) \in S /\ Rank(S, R, e(i)) = i - 1
  <2> SUFFICES ASSUME NEW i \in 1..n PROVE e(i) \in S /\ Rank(S, R, e(i)) = i - 1
    OBVIOUS
  <2>1. i - 1 \in 0..(n - 1)
    BY <1>1
  <2>2. \E s \in S : Rank(S, R, s) = i - 1
    BY <1>1, <2>1
  <2> QED BY <2>2
<1>3. Listed(S, R) = q
  BY DEF Listed
<1> HIDE DEF e
<1>4. q \in Seq(S) /\ Len(q) = n /\ DOMAIN q = 1..n
  BY <1>1, <1>2
<1>5. NoDuplicates(q)
  BY <1>1, <1>2, <1>4 DEF NoDuplicates
<1>6. \A s \in S : \E i \in 1..n : q[i] = s
  <2> SUFFICES ASSUME NEW s \in S PROVE \E i \in 1..n : q[i] = s
    OBVIOUS
  <2>1. Rank(S, R, s) + 1 \in 1..n
    BY <1>1
  <2> DEFINE i == Rank(S, R, s) + 1
  <2>2. Rank(S, R, e(i)) = Rank(S, R, s) /\ e(i) \in S
    BY <1>1, <1>2, <2>1
  <2>3. e(i) = s
    BY <1>1, <2>2
  <2> QED BY <2>1, <2>3
<1>7. Elements(q) = S
  BY <1>2, <1>4, <1>6 DEF Elements
<1> QED BY <1>3, <1>4, <1>5, <1>7

LEMMA OrdersPart ==
  ASSUME NEW S, NEW R, Orders(R, S), NEW T \in SUBSET S
  PROVE  Orders(R, T)
BY DEF Orders

LEMMA InElements ==
  ASSUME NEW q \in Seq(Sids)
  PROVE  \A s : s \in Elements(q) <=> \E i \in 1..Len(q) : q[i] = s
<1>1. DOMAIN q = 1..Len(q)
  OBVIOUS
<1> QED BY <1>1 DEF Elements

LEMMA ElementsOfNone ==
  ASSUME NEW q, q = <<>>
  PROVE  q \in Seq(Sids) /\ Elements(q) = {}
<1>1. q \in Seq(Sids) /\ Len(q) = 0
  BY EmptySeq
<1>2. 1..Len(q) = {}
  BY <1>1
<1> QED BY <1>1, <1>2, InElements

\* A list of sessions has finitely many; a part of a list is a list of fewer.
LEMMA ElementsIs ==
  ASSUME NEW q \in Seq(Sids)
  PROVE  /\ Elements(q) \in SUBSET Sids
         /\ IsFiniteSet(Elements(q)) /\ Cardinality(Elements(q)) \in Nat
         /\ Cardinality(Elements(q)) <= Len(q)
<1> DEFINE f == [i \in 1..Len(q) |-> q[i]]
<1>1. Len(q) \in Nat /\ DOMAIN q = 1..Len(q) /\ \A i \in 1..Len(q) : q[i] \in Sids
  OBVIOUS
<1>2. f \in Surjection(1..Len(q), Elements(q))
  BY <1>1 DEF Elements, Surjection
<1>3. IsFiniteSet(1..Len(q)) /\ Cardinality(1..Len(q)) = Len(q)
  <2>1. IsFiniteSet(1..Len(q)) /\ Cardinality(1..Len(q)) = IF 1 > Len(q) THEN 0 ELSE Len(q) - 1 + 1
    BY <1>1, FS_Interval
  <2> QED BY <1>1, <2>1
<1>4. IsFiniteSet(Elements(q)) /\ Cardinality(Elements(q)) <= Len(q)
  BY <1>2, <1>3, FS_Surjection
<1> QED BY <1>1, <1>4, FS_CardinalityType DEF Elements

LEMMA ElementsOfPart ==
  ASSUME NEW q \in Seq(Sids), NEW a \in Nat \ {0}, NEW b \in 0..Len(q)
  PROVE  /\ SubSeq(q, a, b) \in Seq(Sids)
         /\ Len(SubSeq(q, a, b)) = IF a <= b THEN b - a + 1 ELSE 0
         /\ Elements(SubSeq(q, a, b)) = {q[i] : i \in a..b}
<1>1. \A i \in a..b : i \in 1..Len(q) /\ q[i] \in Sids
  OBVIOUS
<1>2. /\ SubSeq(q, a, b) \in Seq(Sids)
      /\ Len(SubSeq(q, a, b)) = IF a <= b THEN b - a + 1 ELSE 0
      /\ \A i \in 1 .. b - a + 1 : SubSeq(q, a, b)[i] = q[a + i - 1]
  BY <1>1, SubSeqProperties
<1> DEFINE p == SubSeq(q, a, b)
<1>3. \A i \in 1..Len(p) : a + i - 1 \in a..b /\ p[i] = q[a + i - 1]
  BY <1>2
<1>4. \A j \in a..b : j - a + 1 \in 1..Len(p) /\ p[j - a + 1] = q[j]
  BY <1>2
<1>5. \A s : s \in Elements(p) <=> \E i \in 1..Len(p) : p[i] = s
  BY <1>2, InElements
<1> HIDE DEF p
<1>6. \A s : s \in Elements(p) <=> \E j \in a..b : q[j] = s
  BY <1>3, <1>4, <1>5
<1>7. Elements(p) = {q[i] : i \in a..b}
  BY <1>6
<1> QED BY <1>2, <1>7 DEF p

\* A list and its two parts.
LEMMA ElementsSplit ==
  ASSUME NEW q \in Seq(Sids), NEW n \in 0..Len(q)
  PROVE  Elements(q) = Elements(SubSeq(q, 1, n)) \cup Elements(SubSeq(q, n + 1, Len(q)))
<1>1. Elements(q) = {q[i] : i \in 1..Len(q)}
  BY DEF Elements
<1>2. Elements(SubSeq(q, 1, n)) = {q[i] : i \in 1..n}
  BY ElementsOfPart
<1>3. Elements(SubSeq(q, n + 1, Len(q))) = {q[i] : i \in (n + 1)..Len(q)}
  BY ElementsOfPart
<1>4. 1..Len(q) = (1..n) \cup ((n + 1)..Len(q))
  OBVIOUS
<1> QED BY <1>1, <1>2, <1>3, <1>4

LEMMA ElementsOfConcat ==
  ASSUME NEW p \in Seq(Sids), NEW q \in Seq(Sids)
  PROVE  p \o q \in Seq(Sids) /\ Elements(p \o q) = Elements(p) \cup Elements(q)
<1>1. /\ p \o q \in Seq(Sids)
      /\ Len(p \o q) = Len(p) + Len(q)
      /\ \A i \in 1 .. Len(p) + Len(q) :
           (p \o q)[i] = IF i <= Len(p) THEN p[i] ELSE q[i - Len(p)]
  BY ConcatProperties
<1> DEFINE c == p \o q
<1>2. \A i \in 1..Len(p) : i \in 1..Len(c) /\ c[i] = p[i]
  BY <1>1
<1>3. \A i \in 1..Len(q) : i + Len(p) \in 1..Len(c) /\ c[i + Len(p)] = q[i]
  BY <1>1
<1>4. \A i \in 1..Len(c) :
        \/ i \in 1..Len(p) /\ c[i] = p[i]
        \/ i - Len(p) \in 1..Len(q) /\ c[i] = q[i - Len(p)]
  BY <1>1
<1>5. \A s : s \in Elements(c) <=> \E i \in 1..Len(c) : c[i] = s
  BY <1>1, InElements
<1>6. /\ \A s : s \in Elements(p) <=> \E i \in 1..Len(p) : p[i] = s
      /\ \A s : s \in Elements(q) <=> \E i \in 1..Len(q) : q[i] = s
  BY InElements
<1> HIDE DEF c
<1>7. \A s : s \in Elements(c) <=> s \in Elements(p) \/ s \in Elements(q)
  BY <1>2, <1>3, <1>4, <1>5, <1>6
<1>8. Elements(c) = Elements(p) \cup Elements(q)
  BY <1>7
<1> QED BY <1>1, <1>8 DEF c

\* The keys of a Map are in order, and in order of their last use too.
LEMMA MapOrders ==
  ASSUME NEW m \in Seq(Sids), NoDuplicates(m)
  PROVE  Orders(MapOrder(m), Elements(m))
<1> DEFINE D == 1..Len(m)
<1>1. DOMAIN m = D /\ D \subseteq Int
  OBVIOUS
<1>2. ASSUME NEW i \in D, NEW j \in D
      PROVE  <<m[i], m[j]>> \in MapOrder(m) <=> i < j
  <2>1. m[i] \in Elements(m) /\ m[j] \in Elements(m)
    BY <1>1 DEF Elements
  <2>2. <<m[i], m[j]>> \in MapOrder(m) <=>
          \E k, l \in D : k < l /\ m[k] = m[i] /\ m[l] = m[j]
    BY <1>1, <2>1 DEF MapOrder
  <2>3. \A k, l \in D : m[k] = m[l] => k = l
    BY <1>1 DEF NoDuplicates
  <2> QED BY <2>2, <2>3
<1>3. \A s \in Elements(m) : \E i \in D : s = m[i]
  BY <1>1 DEF Elements
<1> HIDE DEF D
<1>4. ASSUME NEW s \in Elements(m) PROVE <<s, s>> \notin MapOrder(m)
  <2>1. PICK i \in D : s = m[i]
    BY <1>3
  <2> QED BY <1>1, <1>2, <2>1
<1>5. ASSUME NEW s \in Elements(m), NEW t \in Elements(m)
      PROVE  s = t \/ <<s, t>> \in MapOrder(m) \/ <<t, s>> \in MapOrder(m)
  <2>1. PICK i \in D, j \in D : s = m[i] /\ t = m[j]
    BY <1>3
  <2>2. i = j \/ i < j \/ j < i
    BY <1>1
  <2> QED BY <1>2, <2>1, <2>2
<1>6. ASSUME NEW s \in Elements(m), NEW t \in Elements(m), NEW u \in Elements(m),
             <<s, t>> \in MapOrder(m), <<t, u>> \in MapOrder(m)
      PROVE  <<s, u>> \in MapOrder(m)
  <2>1. PICK i \in D, j \in D, k \in D : s = m[i] /\ t = m[j] /\ u = m[k]
    BY <1>3
  <2>2. i < j /\ j < k
    BY <1>2, <1>6, <2>1
  <2>3. i < k
    BY <1>1, <2>2
  <2> QED BY <1>2, <2>1, <2>3
<1> QED BY <1>4, <1>5, <1>6 DEF Orders

LEMMA SeenOrders ==
  ASSUME NEW m \in Seq(Sids), NoDuplicates(m), NEW ls \in [Sids -> Nat]
  PROVE  Orders(SeenOrder(m, ls), Elements(m))
<1> DEFINE M == MapOrder(m)
<1>1. Orders(M, Elements(m))
  BY MapOrders
<1>2. \A s \in Elements(m) : ls[s] \in Int
  <2>1. Elements(m) \subseteq Sids
    BY ElementsIs
  <2> QED BY <2>1
<1>3. ASSUME NEW s \in Elements(m), NEW t \in Elements(m)
      PROVE  <<s, t>> \in SeenOrder(m, ls) <=>
               ls[s] < ls[t] \/ (ls[s] = ls[t] /\ <<s, t>> \in M)
  BY DEF SeenOrder
<1> HIDE DEF M
<1>4. ASSUME NEW s \in Elements(m) PROVE <<s, s>> \notin SeenOrder(m, ls)
  <2>1. ~ (ls[s] < ls[s]) /\ <<s, s>> \notin M
    BY <1>1, <1>2 DEF Orders
  <2> QED BY <1>3, <2>1
<1>5. ASSUME NEW s \in Elements(m), NEW t \in Elements(m)
      PROVE  s = t \/ <<s, t>> \in SeenOrder(m, ls) \/ <<t, s>> \in SeenOrder(m, ls)
  <2>1. ls[s] < ls[t] \/ ls[t] < ls[s] \/ ls[s] = ls[t]
    BY <1>2
  <2>2. s = t \/ <<s, t>> \in M \/ <<t, s>> \in M
    BY <1>1 DEF Orders
  <2> QED BY <1>3, <2>1, <2>2
<1>6. ASSUME NEW s \in Elements(m), NEW t \in Elements(m), NEW u \in Elements(m),
             <<s, t>> \in SeenOrder(m, ls), <<t, u>> \in SeenOrder(m, ls)
      PROVE  <<s, u>> \in SeenOrder(m, ls)
  <2>1. /\ ls[s] < ls[t] \/ (ls[s] = ls[t] /\ <<s, t>> \in M)
        /\ ls[t] < ls[u] \/ (ls[t] = ls[u] /\ <<t, u>> \in M)
    BY <1>3, <1>6
  <2>2. ls[s] < ls[u] \/ (ls[s] = ls[t] /\ ls[t] = ls[u] /\ <<s, t>> \in M /\ <<t, u>> \in M)
    BY <1>2, <2>1
  <2>3. <<s, t>> \in M /\ <<t, u>> \in M => <<s, u>> \in M
    BY <1>1 DEF Orders
  <2> QED BY <1>3, <2>2, <2>3
<1> QED BY <1>4, <1>5, <1>6 DEF Orders

\* Deleting from the Map deletes just that.
LEMMA WithoutIs ==
  ASSUME NEW m \in Seq(Sids), NoDuplicates(m), NEW S
  PROVE  /\ Without(m, S) \in Seq(Sids)
         /\ Elements(Without(m, S)) = Elements(m) \ S
         /\ NoDuplicates(Without(m, S))
<1> DEFINE T == Elements(m) \ S
<1>1. T \in SUBSET Elements(m) /\ T \in SUBSET Sids
  BY ElementsIs
<1>2. IsFiniteSet(T)
  BY <1>1, ElementsIs, FS_Subset
<1>3. Orders(MapOrder(m), T)
  BY <1>1, MapOrders, OrdersPart
<1> HIDE DEF T
<1>4. /\ Listed(T, MapOrder(m)) \in Seq(T)
      /\ Elements(Listed(T, MapOrder(m))) = T
      /\ NoDuplicates(Listed(T, MapOrder(m)))
  BY <1>2, <1>3, ListedIs
<1>5. Listed(T, MapOrder(m)) \in Seq(Sids)
  BY <1>1, <1>4, SeqMonotonic
<1>6. Without(m, S) = Listed(T, MapOrder(m))
  BY DEF Without, T
<1> QED BY <1>4, <1>5, <1>6 DEF T

\* A reaping lists registered sessions, never the one it keeps, and enough of
\* them for the registry to meet its cap.
LEMMA ExpiredIs ==
  ASSUME now \in Nat, NEW m \in Seq(Sids), NoDuplicates(m), NEW ls \in [Sids -> Nat],
         NEW keep \in Sids \cup {None}
  PROVE  /\ Expired(m, ls, keep) \in Seq(Sids)
         /\ Elements(Expired(m, ls, keep)) \subseteq Elements(m) \ {keep}
         /\ WithinCap(Elements(m) \ Elements(Expired(m, ls, keep)))
<1> DEFINE I == {s \in Elements(m) \ {keep} : IsIdle(s, ls)}
<1> DEFINE V == Surviving(m, ls, keep)
<1> DEFINE over == Over(m, ls, keep)
<1> DEFINE idle == Listed(I, MapOrder(m))
<1> DEFINE old == Listed(V, SeenOrder(m, ls))
<1> DEFINE cut == SubSeq(old, 1, over)
<1>1. /\ I \in SUBSET Elements(m) /\ V \in SUBSET Elements(m)
      /\ I \cup V = Elements(m) \ {keep} /\ Elements(m) \in SUBSET Sids
      /\ keep \notin I /\ keep \notin V
  BY ElementsIs DEF Surviving
<1>2. IsFiniteSet(I) /\ IsFiniteSet(V) /\ Cardinality(V) \in Nat
  BY <1>1, ElementsIs, FS_Subset, FS_CardinalityType
<1>3. Orders(MapOrder(m), I) /\ Orders(SeenOrder(m, ls), V)
  BY <1>1, MapOrders, SeenOrders, OrdersPart
<1>4. Expired(m, ls, keep) = idle \o cut
  BY DEF Expired
<1>5. /\ over \in Int /\ over <= Cardinality(V) /\ MaxSessions \in Nat
      /\ MaxSessions > 0 => over = Cardinality(V) + (IF keep = None THEN 0 ELSE 1) - MaxSessions
  BY <1>2, RegistryAssumption DEF Over
<1> HIDE DEF I, V, over
<1>6. idle \in Seq(Sids) /\ Elements(idle) = I
  <2>1. idle \in Seq(I) /\ Elements(idle) = I
    BY <1>2, <1>3, ListedIs
  <2> QED BY <1>1, <2>1, SeqMonotonic
<1>7. old \in Seq(Sids) /\ Elements(old) = V /\ Len(old) = Cardinality(V)
  <2>1. old \in Seq(V) /\ Elements(old) = V /\ Len(old) = Cardinality(V)
    BY <1>2, <1>3, ListedIs
  <2> QED BY <1>1, <2>1, SeqMonotonic
<1> HIDE DEF idle, old
<1>8. /\ cut \in Seq(Sids) /\ Elements(cut) \subseteq V
      /\ Cardinality(V \ Elements(cut)) \in Nat /\ IsFiniteSet(V \ Elements(cut))
      /\ MaxSessions > 0 =>
           Cardinality(V \ Elements(cut)) + (IF keep = None THEN 0 ELSE 1) <= MaxSessions
  <2>1. CASE over <= 0
    <3>1. cut = <<>>
      BY <1>5, <2>1, SubSeqEmpty
    <3>2. cut \in Seq(Sids) /\ Elements(cut) = {}
      BY <3>1, ElementsOfNone
    <3> HIDE DEF cut
    <3> QED BY <1>2, <1>5, <2>1, <3>2, RegistryAssumption
  <2>2. CASE over > 0
    <3>1. over \in 0..Len(old)
      BY <1>5, <1>7, <2>2
    <3> DEFINE rest == SubSeq(old, over + 1, Len(old))
    <3>2. cut \in Seq(Sids) /\ V = Elements(cut) \cup Elements(rest)
      BY <1>7, <3>1, ElementsSplit, ElementsOfPart
    <3>3. rest \in Seq(Sids) /\ Len(rest) = Len(old) - over
      BY <1>5, <1>7, <2>2, <3>1, ElementsOfPart
    <3>4. Cardinality(Elements(rest)) <= Len(old) - over /\ IsFiniteSet(Elements(rest))
      BY <3>3, ElementsIs
    <3> HIDE DEF cut, rest
    <3>5. (V \ Elements(cut)) \in SUBSET Elements(rest)
      BY <3>2
    <3>6. /\ Cardinality(V \ Elements(cut)) <= Cardinality(Elements(rest))
          /\ IsFiniteSet(V \ Elements(cut))
      BY <3>4, <3>5, FS_Subset
    <3>7. Cardinality(V \ Elements(cut)) \in Nat /\ Cardinality(Elements(rest)) \in Nat
      BY <3>4, <3>6, FS_CardinalityType
    <3> QED BY <1>2, <1>5, <1>7, <3>2, <3>4, <3>6, <3>7, RegistryAssumption
  <2> QED BY <1>5, <2>1, <2>2
<1> HIDE DEF cut
<1>9. idle \o cut \in Seq(Sids) /\ Elements(idle \o cut) = I \cup Elements(cut)
  BY <1>6, <1>8, ElementsOfConcat
<1> DEFINE left == Elements(m) \ Elements(idle \o cut)
<1> DEFINE young == V \ Elements(cut)
<1>10. left \subseteq young \cup {keep}
  BY <1>1, <1>9
<1>11. keep = None => left \subseteq young
  BY <1>1, <1>10, NoSidAssumption
<1> HIDE DEF left, young
<1>12. IsFiniteSet(young) /\ Cardinality(young) \in Nat
  BY <1>8 DEF young
<1>13. ASSUME MaxSessions > 0 PROVE Cardinality(left) <= MaxSessions
  <2>3. Cardinality(young) + (IF keep = None THEN 0 ELSE 1) <= MaxSessions
    BY <1>8, <1>13 DEF young
  <2>1. CASE keep = None
    BY <1>11, <1>12, <2>1, <2>3, FS_Subset, FS_CardinalityType, RegistryAssumption
  <2>2. CASE keep # None
    <3>1. /\ IsFiniteSet(young \cup {keep})
          /\ Cardinality(young \cup {keep}) <= Cardinality(young) + 1
          /\ Cardinality(young \cup {keep}) \in Nat
      <4>1. /\ IsFiniteSet(young \cup {keep})
            /\ Cardinality(young \cup {keep}) =
                 IF keep \in young THEN Cardinality(young) ELSE Cardinality(young) + 1
        BY <1>12, FS_AddElement
      <4> QED BY <1>12, <4>1
    <3>2. Cardinality(left) <= Cardinality(young \cup {keep})
      BY <1>10, <3>1, FS_Subset
    <3>3. IsFiniteSet(left) /\ Cardinality(left) \in Nat
      BY <1>10, <3>1, FS_Subset, FS_CardinalityType
    <3> QED BY <1>12, <2>2, <2>3, <3>1, <3>2, <3>3, RegistryAssumption
  <2> QED BY <2>1, <2>2
<1> QED BY <1>1, <1>4, <1>8, <1>9, <1>13 DEF left, WithinCap

\* A reaping of a registry within its cap lists idle sessions only, provided the
\* session it keeps is registered.
LEMMA WithinCapIdle ==
  ASSUME now \in Nat, NEW m \in Seq(Sids), NoDuplicates(m), NEW ls \in [Sids -> Nat],
         NEW keep \in Sids \cup {None}, keep = None \/ keep \in Elements(m),
         WithinCap(Elements(m)),
         NEW x \in Elements(Expired(m, ls, keep))
  PROVE  IsIdle(x, ls) /\ x # keep
<1> DEFINE I == {s \in Elements(m) \ {keep} : IsIdle(s, ls)}
<1> DEFINE V == Surviving(m, ls, keep)
<1> DEFINE over == Over(m, ls, keep)
<1> DEFINE idle == Listed(I, MapOrder(m))
<1> DEFINE old == Listed(V, SeenOrder(m, ls))
<1> DEFINE cut == SubSeq(old, 1, over)
<1>1. /\ IsFiniteSet(Elements(m)) /\ Cardinality(Elements(m)) \in Nat
      /\ I \in SUBSET Elements(m) /\ V \in SUBSET (Elements(m) \ {keep})
      /\ Elements(m) \in SUBSET Sids
  BY ElementsIs DEF Surviving
<1>2. IsFiniteSet(I) /\ IsFiniteSet(V) /\ Cardinality(V) \in Nat
  BY <1>1, FS_Subset, FS_CardinalityType
<1>3. /\ over \in Int /\ (MaxSessions = 0 => over = 0)
      /\ MaxSessions # 0 => over = Cardinality(V) + (IF keep = None THEN 0 ELSE 1) - MaxSessions
  BY <1>2, RegistryAssumption DEF Over
<1>4. Expired(m, ls, keep) = idle \o cut
  BY DEF Expired
<1>5. idle \in Seq(Sids) /\ Elements(idle) = I
  <2>1. Orders(MapOrder(m), I)
    BY <1>1, MapOrders, OrdersPart
  <2>2. idle \in Seq(I) /\ Elements(idle) = I
    BY <1>2, <2>1, ListedIs
  <2> QED BY <1>1, <2>2, SeqMonotonic
<1>6. old \in Seq(Sids)
  <2>1. Orders(SeenOrder(m, ls), V)
    BY <1>1, SeenOrders, OrdersPart
  <2>2. old \in Seq(V)
    BY <1>2, <2>1, ListedIs
  <2> QED BY <1>1, <2>2, SeqMonotonic
<1>7. \A s : s \in I => IsIdle(s, ls) /\ s # keep
  OBVIOUS
<1> HIDE DEF I, V, over, idle, old
<1>8. over <= 0
  <2> SUFFICES ASSUME MaxSessions # 0 PROVE over <= 0
    BY <1>3
  <2>3. Cardinality(Elements(m)) <= MaxSessions
    BY RegistryAssumption DEF WithinCap
  <2>1. CASE keep = None
    <3>1. Cardinality(V) <= Cardinality(Elements(m))
      BY <1>1, FS_Subset
    <3> QED BY <1>1, <1>2, <1>3, <2>1, <2>3, <3>1, RegistryAssumption
  <2>2. CASE keep # None
    <3>1. keep \in Elements(m) /\ keep \notin V
      BY <1>1, <2>2
    <3>2. V \cup {keep} \in SUBSET Elements(m)
      BY <1>1, <3>1
    <3>3. Cardinality(V \cup {keep}) = Cardinality(V) + 1
      BY <1>2, <3>1, FS_AddElement
    <3>4. Cardinality(V \cup {keep}) <= Cardinality(Elements(m))
      BY <1>1, <3>2, FS_Subset
    <3> QED BY <1>1, <1>2, <1>3, <2>2, <2>3, <3>3, <3>4, RegistryAssumption
  <2> QED BY <2>1, <2>2
<1>9. cut = <<>>
  BY <1>3, <1>6, <1>8, SubSeqEmpty
<1>10. cut \in Seq(Sids) /\ Elements(cut) = {}
  BY <1>9, ElementsOfNone
<1> HIDE DEF cut
<1>11. Elements(idle \o cut) = Elements(idle) \cup Elements(cut)
  BY <1>5, <1>10, ElementsOfConcat
<1>12. Elements(Expired(m, ls, keep)) = I
  BY <1>4, <1>5, <1>10, <1>11
<1> QED BY <1>7, <1>12

-------------------------------------------------------------------------------
(*****************************************************************************)
(* The inductive invariant: what a request holds at each of its awaits, and  *)
(* that what it has dropped or closed is not registered again.               *)
(*****************************************************************************)
RequestsInv ==
  \A r \in Requests :
    /\ req[r].pc # "reaping" => req[r].todo = <<>> /\ req[r].dropping = None
    /\ req[r].pc \in {"none", "probing"} => req[r].sid = None
    /\ req[r].dropping \notin Registered
    /\ req[r].pc = "closing" => req[r].sid \notin Registered
    /\ req[r].sid \notin Elements(req[r].todo)

RInv == TypeOK /\ NoDuplicates(registry) /\ RequestsInv

\* The list split where a drop suspends the loop.
LEMMA ElementsAround ==
  ASSUME NEW q \in Seq(Sids), NEW n \in 0..Len(q), n < Len(q)
  PROVE  /\ q[n + 1] \in Sids
         /\ SubSeq(q, n + 2, Len(q)) \in Seq(Sids)
         /\ Elements(q) = Elements(SubSeq(q, 1, n)) \cup {q[n + 1]}
                            \cup Elements(SubSeq(q, n + 2, Len(q)))
<1>1. Elements(q) = {q[i] : i \in 1..Len(q)} /\ q[n + 1] \in Sids /\ n + 2 \in Nat \ {0}
  BY DEF Elements
<1>2. Elements(SubSeq(q, 1, n)) = {q[i] : i \in 1..n}
  BY ElementsOfPart
<1>3. /\ SubSeq(q, n + 2, Len(q)) \in Seq(Sids)
      /\ Elements(SubSeq(q, n + 2, Len(q))) = {q[i] : i \in (n + 2)..Len(q)}
  BY <1>1, ElementsOfPart
<1>4. 1..Len(q) = (1..n) \cup {n + 1} \cup ((n + 2)..Len(q))
  OBVIOUS
<1> QED BY <1>1, <1>2, <1>3, <1>4

\* The record of a request that waits, or has left.
Awaiting(pc, s, new, d, q) ==
  [pc |-> pc, sid |-> s, isNew |-> new, dropping |-> d, todo |-> q]

LEMMA WaitIs ==
  ASSUME req \in [Requests -> RequestRecords], NEW r \in Requests, NEW pc, NEW s,
         NEW new, NEW d, NEW q, Wait(r, pc, s, new, d, q),
         Awaiting(pc, s, new, d, q) \in RequestRecords
  PROVE  /\ req' \in [Requests -> RequestRecords]
         /\ \A t \in Requests \ {r} : req'[t] = req[t]
         /\ req'[r].pc = pc /\ req'[r].sid = s
         /\ req'[r].dropping = d /\ req'[r].todo = q
<1> DEFINE x == Awaiting(pc, s, new, d, q)
<1>1. x \in RequestRecords
  OBVIOUS
<1>2. x.pc = pc /\ x.sid = s /\ x.dropping = d /\ x.todo = q
  BY DEF Awaiting
<1>3. req' = [req EXCEPT ![r] = x]
  BY DEF Wait, Awaiting
<1> HIDE DEF x
<1>4. req' \in [Requests -> RequestRecords] /\ req'[r] = x
      /\ \A t \in Requests \ {r} : req'[t] = req[t]
  BY <1>1, <1>3
<1> QED BY <1>2, <1>4

LEMMA LeaveIs ==
  ASSUME req \in [Requests -> RequestRecords], NEW r \in Requests, Leave(r)
  PROVE  /\ req' \in [Requests -> RequestRecords]
         /\ \A t \in Requests \ {r} : req'[t] = req[t]
         /\ req'[r].pc = "none" /\ req'[r].sid = None
         /\ req'[r].dropping = None /\ req'[r].todo = <<>>
<1>1. Wait(r, "none", None, FALSE, None, <<>>)
  BY DEF Leave, Wait, NoRequest
<1>2. <<>> \in Seq(Sids)
  BY EmptySeq
<1>3. Awaiting("none", None, FALSE, None, <<>>) \in RequestRecords
  BY <1>2 DEF PCs, Awaiting, RequestRecords
<1> QED BY <1>1, <1>2, <1>3, WaitIs, Zenon

LEMMA ReapedIs ==
  ASSUME req \in [Requests -> RequestRecords], NEW r \in Requests,
         NEW s \in Sids \cup {None}, NEW new \in BOOLEAN, Reaped(r, s, new)
  PROVE  /\ req' \in [Requests -> RequestRecords]
         /\ \A t \in Requests \ {r} : req'[t] = req[t]
         /\ req'[r].pc \in {"none", "reading"}
         /\ req'[r].sid \in {s, None} /\ (req'[r].pc = "none" => req'[r].sid = None)
         /\ req'[r].dropping = None /\ req'[r].todo = <<>>
<1>1. CASE new
  <2>1. Leave(r)
    BY <1>1 DEF Reaped
  <2> QED BY <2>1, LeaveIs
<1>2. CASE ~ new
  <2>1. Wait(r, "reading", s, FALSE, None, <<>>) /\ <<>> \in Seq(Sids)
    BY <1>2, EmptySeq DEF Reaped
  <2>2. Awaiting("reading", s, FALSE, None, <<>>) \in RequestRecords
    BY <2>1 DEF PCs, Awaiting, RequestRecords
  <2>3. /\ req' \in [Requests -> RequestRecords]
        /\ \A t \in Requests \ {r} : req'[t] = req[t]
        /\ req'[r].pc = "reading" /\ req'[r].sid = s
        /\ req'[r].dropping = None /\ req'[r].todo = <<>>
    BY <2>1, <2>2, WaitIs, Zenon
  <2> QED BY <2>3
<1> QED BY <1>1, <1>2

\* What a turn of the loop of reapSessions does: what it takes out of the
\* registry was on its list, what stays on the list is still to be dropped, and
\* what it takes out is released or is the session it waits for.
LoopDid(r, s, q, o) ==
  /\ registry' \in Seq(Sids) /\ NoDuplicates(registry')
  /\ open' \in SUBSET Sids
  /\ req' \in [Requests -> RequestRecords]
  /\ \A t \in Requests \ {r} : req'[t] = req[t]
  /\ req'[r].pc \in {"none", "reading", "reaping"}
  /\ req'[r].pc # "reaping" => req'[r].todo = <<>> /\ req'[r].dropping = None
  /\ req'[r].sid \in {s, None} /\ (req'[r].pc = "none" => req'[r].sid = None)
  /\ req'[r].dropping \notin Elements(registry')
  /\ Elements(registry') \subseteq Registered
  /\ Registered \ Elements(registry') \subseteq Elements(q)
  /\ Elements(req'[r].todo) \subseteq Elements(q)
  /\ Elements(q) \cap Elements(registry') \subseteq Elements(req'[r].todo)
  /\ Elements(registry') \subseteq open'
  /\ open' \ Elements(registry') \subseteq (o \ Registered) \cup {req'[r].dropping}

LEMMA DropAllDoes ==
  ASSUME RInv, NEW r \in Requests, NEW s \in Sids \cup {None}, NEW q \in Seq(Sids),
         NEW o \in SUBSET Sids, Registered \subseteq o,
         \E new \in BOOLEAN : DropAll(r, s, new, q, registry, o)
  PROVE  LoopDid(r, s, q, o)
<1> PICK new \in BOOLEAN : DropAll(r, s, new, q, registry, o)
  OBVIOUS
<1> USE DEF LoopDid
<1>1. /\ registry \in Seq(Sids) /\ NoDuplicates(registry)
      /\ req \in [Requests -> RequestRecords] /\ Registered = Elements(registry)
  BY DEF RInv, TypeOK, Registered
<1>2. Registered \in SUBSET Sids
  BY <1>1, ElementsIs
<1>3. PICK n \in 0..Len(q) :
        LET done == Elements(SubSeq(q, 1, n)) \cap Elements(registry) IN
        \/ /\ n = Len(q)
           /\ registry' = Without(registry, done)
           /\ open' = o \ done
           /\ Reaped(r, s, new)
        \/ /\ n < Len(q)
           /\ q[n + 1] \in Elements(registry)
           /\ registry' = Without(registry, done \cup {q[n + 1]})
           /\ open' = o \ done
           /\ Wait(r, "reaping", s, new, q[n + 1], SubSeq(q, n + 2, Len(q)))
  BY DEF DropAll
<1> DEFINE done == Elements(SubSeq(q, 1, n)) \cap Elements(registry)
<1>4. CASE /\ n = Len(q)
           /\ registry' = Without(registry, done)
           /\ open' = o \ done
           /\ Reaped(r, s, new)
  <2>1. Elements(SubSeq(q, 1, n)) = Elements(q)
    BY <1>4, SubSeqFull
  <2>2. /\ registry' \in Seq(Sids) /\ NoDuplicates(registry')
        /\ Elements(registry') = Registered \ done
    BY <1>1, <1>4, WithoutIs
  <2>3. /\ req' \in [Requests -> RequestRecords]
        /\ \A t \in Requests \ {r} : req'[t] = req[t]
        /\ req'[r].pc \in {"none", "reading"}
        /\ req'[r].sid \in {s, None} /\ (req'[r].pc = "none" => req'[r].sid = None)
        /\ req'[r].dropping = None /\ req'[r].todo = <<>>
    BY <1>1, <1>4, ReapedIs
  <2>4. Elements(req'[r].todo) = {}
    BY <2>3, ElementsOfNone
  <2>5. req'[r].dropping \notin Elements(registry')
    BY <1>2, <2>2, <2>3, NoSidAssumption
  <2>6. done = Elements(q) \cap Registered /\ open' = o \ done
    BY <1>1, <1>4, <2>1
  <2> HIDE DEF done
  <2> QED BY <2>2, <2>3, <2>4, <2>5, <2>6
<1>5. CASE /\ n < Len(q)
           /\ q[n + 1] \in Elements(registry)
           /\ registry' = Without(registry, done \cup {q[n + 1]})
           /\ open' = o \ done
           /\ Wait(r, "reaping", s, new, q[n + 1], SubSeq(q, n + 2, Len(q)))
  <2> DEFINE d == q[n + 1]
  <2> DEFINE rest == SubSeq(q, n + 2, Len(q))
  <2>1. /\ d \in Sids /\ rest \in Seq(Sids)
        /\ Elements(q) = Elements(SubSeq(q, 1, n)) \cup {d} \cup Elements(rest)
    BY <1>5, ElementsAround
  <2>2. /\ registry' \in Seq(Sids) /\ NoDuplicates(registry')
        /\ Elements(registry') = Registered \ (done \cup {d})
    BY <1>1, <1>5, WithoutIs
  <2>3. Wait(r, "reaping", s, new, d, rest) /\ open' = o \ done /\ d \in Registered
    BY <1>1, <1>5, <2>1
  <2>4. done = Elements(SubSeq(q, 1, n)) \cap Registered
    BY <1>1
  <2> HIDE DEF d, rest, done
  <2>5. /\ req' \in [Requests -> RequestRecords]
        /\ \A t \in Requests \ {r} : req'[t] = req[t]
        /\ req'[r].pc = "reaping" /\ req'[r].sid = s
        /\ req'[r].dropping = d /\ req'[r].todo = rest
    <3>1. Awaiting("reaping", s, new, d, rest) \in RequestRecords
      BY <2>1 DEF PCs, Awaiting, RequestRecords
    <3>2. req \in [Requests -> RequestRecords]
      BY <1>1
    <3>3. Wait(r, "reaping", s, new, d, rest)
      BY <2>3, Zenon
    <3> QED BY <3>1, <3>2, <3>3, WaitIs, Zenon
  <2> QED BY <2>1, <2>2, <2>3, <2>4, <2>5
<1> QED BY <1>3, <1>4, <1>5

IInv == RInv /\ RegistryBounded /\ ReleasedExactly

\* The turns in which the loop of reapSessions runs: over q, keeping s, with the
\* sessions of o open.  The list is a new one, or the rest of the one before.
Loop(r, s, q, o) ==
  /\ s \in Sids \cup {None} /\ q \in Seq(Sids) /\ s \notin Elements(q)
  /\ o \subseteq open /\ Registered \subseteq o /\ req[r].dropping \notin o
  /\ \E new \in BOOLEAN : DropAll(r, s, new, q, registry, o)
  /\ req[r].pc # "closing" /\ req[r].sid \in {s, None}
  /\ \/ WithinCap(Registered \ Elements(q)) /\ req[r].todo = <<>>
     \/ req[r].todo = q /\ req[r].pc = "reaping"
  /\ lastSeen' \in [Sids -> Nat] /\ now' = now

LEMMA NoneIsNot ==
  ASSUME NEW q \in Seq(Sids)
  PROVE  None \notin Elements(q)
BY ElementsIs, NoSidAssumption

LEMMA NewList ==
  ASSUME IInv, NEW r \in Requests, NEW s \in Sids \cup {None}, NEW new \in BOOLEAN,
         NEW ls \in [Sids -> Nat], lastSeen' = ls, now' = now,
         req[r].pc \notin {"closing", "reaping"}, req[r].sid \in {s, None},
         Reap(r, s, new, registry, ls, open)
  PROVE  Loop(r, s, Expired(registry, ls, s), open)
<1> DEFINE q == Expired(registry, ls, s)
<1>1. /\ registry \in Seq(Sids) /\ NoDuplicates(registry) /\ now \in Nat
      /\ open \in SUBSET Sids /\ Registered \subseteq open
      /\ req[r].todo = <<>> /\ req[r].dropping = None
  BY DEF IInv, RInv, TypeOK, RequestsInv, ReleasedExactly
<1>2. /\ q \in Seq(Sids) /\ Elements(q) \subseteq Elements(registry) \ {s}
      /\ WithinCap(Elements(registry) \ Elements(q))
  BY <1>1, ExpiredIs
<1>3. DropAll(r, s, new, q, registry, open)
  BY DEF Reap
<1> HIDE DEF q
<1>4. s \notin Elements(q) /\ None \notin open
  BY <1>1, <1>2, NoSidAssumption
<1> QED BY <1>1, <1>2, <1>3, <1>4 DEF Loop, Registered, q

\* Every turn of a request that reaps is one of the loop.
Reaping(r) ==
  \/ \E s \in Sids : Touch(r, s)
  \/ Reject(r) /\ Reap(r, None, TRUE, registry, lastSeen, open)
  \/ Initialized(r)
  \/ DropDone(r)

LEMMA ReapingLoops ==
  ASSUME IInv, NEW r \in Requests, Reaping(r)
  PROVE  \E s, q, o : Loop(r, s, q, o)
<1>1. /\ registry \in Seq(Sids) /\ NoDuplicates(registry) /\ now \in Nat
      /\ lastSeen \in [Sids -> Nat]
      /\ open \in SUBSET Sids /\ Registered \subseteq open
      /\ req[r] \in RequestRecords
  BY DEF IInv, RInv, TypeOK, ReleasedExactly
<1>2. req[r].pc \in {"none", "probing"} => req[r].sid = None
  BY DEF IInv, RInv, RequestsInv
<1>3. CASE \E s \in Sids : Touch(r, s)
  <2>1. PICK s \in Sids : Touch(r, s)
    BY <1>3
  <2>2. /\ lastSeen' \in [Sids -> Nat] /\ now' = now /\ req[r].pc = "none"
        /\ Reap(r, s, FALSE, registry, lastSeen', open)
    BY <1>1, <2>1 DEF Touch
  <2> DEFINE ls == lastSeen'
  <2>3. /\ ls \in [Sids -> Nat] /\ lastSeen' = ls /\ now' = now
        /\ req[r].pc \notin {"closing", "reaping"} /\ req[r].sid \in {s, None}
    BY <1>2, <2>2
  <2>4. Reap(r, s, FALSE, registry, ls, open)
    BY <2>2
  <2> HIDE DEF ls
  <2>5. Loop(r, s, Expired(registry, ls, s), open)
    BY <2>3, <2>4, NewList, Zenon
  <2> QED BY <2>5
<1>4. CASE Reject(r) /\ Reap(r, None, TRUE, registry, lastSeen, open)
  <2>1. /\ lastSeen' = lastSeen /\ now' = now
        /\ req[r].pc \notin {"closing", "reaping"} /\ req[r].sid \in {None, None}
    BY <1>2, <1>4 DEF Reject
  <2>2. Loop(r, None, Expired(registry, lastSeen, None), open)
    BY <1>1, <1>4, <2>1, NewList, Zenon
  <2> QED BY <2>2
<1>5. CASE Initialized(r)
  <2>1. /\ lastSeen' = lastSeen /\ now' = now
        /\ req[r].pc \notin {"closing", "reaping"} /\ req[r].sid \in {req[r].sid, None}
        /\ Reap(r, req[r].sid, TRUE, registry, lastSeen, open)
    BY <1>5 DEF Initialized
  <2>2. req[r].sid \in Sids \cup {None}
    BY <1>1 DEF RequestRecords
  <2>3. Loop(r, req[r].sid, Expired(registry, lastSeen, req[r].sid), open)
    BY <1>1, <2>1, <2>2, NewList, Zenon
  <2> QED BY <2>3
<1>6. CASE DropDone(r)
  <2>1. /\ req[r].pc = "reaping" /\ lastSeen' = lastSeen /\ now' = now
        /\ DropAll(r, req[r].sid, req[r].isNew, req[r].todo, registry,
                   open \ {req[r].dropping})
    BY <1>6 DEF DropDone
  <2>2. /\ req[r].sid \in Sids \cup {None} /\ req[r].isNew \in BOOLEAN
        /\ req[r].todo \in Seq(Sids)
    BY <1>1 DEF RequestRecords
  <2>3. req[r].sid \notin Elements(req[r].todo) /\ req[r].dropping \notin Registered
    BY DEF IInv, RInv, RequestsInv
  <2>4. Loop(r, req[r].sid, req[r].todo, open \ {req[r].dropping})
    BY <1>1, <2>1, <2>2, <2>3 DEF Loop
  <2> QED BY <2>4
<1> QED BY <1>3, <1>4, <1>5, <1>6 DEF Reaping

LEMMA LoopDoes ==
  ASSUME IInv, NEW r \in Requests, NEW s, NEW q, NEW o, Loop(r, s, q, o)
  PROVE  LoopDid(r, s, q, o)
<1>1. /\ s \in Sids \cup {None} /\ q \in Seq(Sids) /\ o \in SUBSET Sids
      /\ Registered \subseteq o /\ RInv
      /\ \E new \in BOOLEAN : DropAll(r, s, new, q, registry, o)
  BY DEF Loop, IInv, RInv, TypeOK
<1> QED BY <1>1, DropAllDoes, Zenon

\* The primed names of the parts of the state.
LEMMA Primed ==
  /\ Registered' = Elements(registry')
  /\ Doomed' = UNION {Elements(req'[r].todo) : r \in Requests}
  /\ Initializing' = {r \in Requests : req'[r].pc = "initializing"}
BY DEF Registered, Doomed, Initializing, Elements

\* Fewer sessions that nobody is about to drop, and no fewer initializes.
LEMMA BoundedStays ==
  ASSUME IInv, NEW r \in Requests, req' \in [Requests -> RequestRecords],
         (Registered \ Doomed)' \subseteq Registered \ Doomed,
         \A t \in Requests : req[t].pc = "initializing" => req'[t].pc = "initializing"
  PROVE  RegistryBounded'
<1> SUFFICES ASSUME MaxSessions > 0 PROVE RegistryBounded'
  BY DEF RegistryBounded
<1>1. IsFiniteSet(Registered)
  <2>1. registry \in Seq(Sids)
    BY DEF IInv, RInv, TypeOK
  <2> QED BY <2>1, ElementsIs DEF Registered
<1>2. IsFiniteSet(Initializing) /\ IsFiniteSet(Initializing')
  BY RegistryAssumption, FS_Subset, Primed DEF Initializing
<1>3. Initializing \subseteq Initializing'
  BY Primed DEF Initializing
<1>4. Cardinality(Initializing) <= Cardinality(Initializing')
  BY <1>2, <1>3, FS_Subset
<1> DEFINE U == Registered \ Doomed
<1>5. IsFiniteSet(U) /\ U' \subseteq U
  BY <1>1, FS_Subset
<1> HIDE DEF U
<1>6. /\ Cardinality(U') <= Cardinality(U) /\ IsFiniteSet(U')
      /\ Cardinality(U) \in Nat /\ Cardinality(U') \in Nat
  BY <1>5, FS_Subset, FS_CardinalityType
<1>7. Cardinality(Initializing) \in Nat /\ Cardinality(Initializing') \in Nat
  BY <1>2, FS_CardinalityType
<1>8. Cardinality(U) <= MaxSessions + Cardinality(Initializing)
  BY DEF IInv, RegistryBounded, U
<1>9. Cardinality(U') <= MaxSessions + Cardinality(Initializing')
  BY <1>4, <1>6, <1>7, <1>8, RegistryAssumption
<1> QED BY <1>9 DEF RegistryBounded, U

LEMMA LoopKeepsRInv ==
  ASSUME IInv, NEW r \in Requests, NEW s, NEW q, NEW o, Loop(r, s, q, o)
  PROVE  RInv'
<1>1. LoopDid(r, s, q, o)
  BY LoopDoes
<1>2. /\ registry' \in Seq(Sids) /\ NoDuplicates(registry')
      /\ open' \in SUBSET Sids
      /\ req' \in [Requests -> RequestRecords]
      /\ \A t \in Requests \ {r} : req'[t] = req[t]
      /\ req'[r].pc \in {"none", "reading", "reaping"}
      /\ req'[r].pc # "reaping" => req'[r].todo = <<>> /\ req'[r].dropping = None
      /\ req'[r].sid \in {s, None} /\ (req'[r].pc = "none" => req'[r].sid = None)
      /\ req'[r].dropping \notin Elements(registry')
      /\ Elements(registry') \subseteq Registered
      /\ Elements(req'[r].todo) \subseteq Elements(q)
  BY <1>1 DEF LoopDid
<1>3. TypeOK'
  BY <1>2 DEF Loop, IInv, RInv, TypeOK
<1>4. RequestsInv'
  <2> SUFFICES ASSUME NEW t \in Requests
               PROVE  /\ req'[t].pc # "reaping" => req'[t].todo = <<>> /\ req'[t].dropping = None
                      /\ req'[t].pc \in {"none", "probing"} => req'[t].sid = None
                      /\ req'[t].dropping \notin Registered'
                      /\ req'[t].pc = "closing" => req'[t].sid \notin Registered'
                      /\ req'[t].sid \notin Elements(req'[t].todo)
    BY DEF RequestsInv, Elements
  <2>1. CASE t = r
    <3>1. s \notin Elements(q) /\ None \notin Elements(q)
      BY NoneIsNot DEF Loop
    <3> QED BY <1>2, <2>1, <3>1, Primed
  <2>2. CASE t # r
    BY <1>2, <2>2, Primed DEF IInv, RInv, RequestsInv
  <2> QED BY <2>1, <2>2
<1> QED BY <1>2, <1>3, <1>4 DEF RInv, NoDuplicates

LEMMA LoopKeepsBound ==
  ASSUME IInv, NEW r \in Requests, NEW s, NEW q, NEW o, Loop(r, s, q, o)
  PROVE  RegistryBounded'
<1>1. /\ req' \in [Requests -> RequestRecords]
      /\ \A t \in Requests \ {r} : req'[t] = req[t]
      /\ Elements(registry') \subseteq Registered
      /\ Elements(q) \cap Elements(registry') \subseteq Elements(req'[r].todo)
  BY LoopDoes DEF LoopDid
<1>2. Registered' \cap Elements(q) \subseteq Doomed'
  BY <1>1, Primed
<1>3. CASE WithinCap(Registered \ Elements(q))
  <2> SUFFICES ASSUME MaxSessions > 0 PROVE RegistryBounded'
    BY DEF RegistryBounded
  <2> DEFINE U == (Registered \ Doomed)'
  <2> DEFINE V == Registered \ Elements(q)
  <2>1. IsFiniteSet(V) /\ Cardinality(V) <= MaxSessions
    <3>1. registry \in Seq(Sids)
      BY DEF IInv, RInv, TypeOK
    <3>2. IsFiniteSet(Registered)
      BY <3>1, ElementsIs DEF Registered
    <3> QED BY <1>3, <3>2, FS_Subset DEF WithinCap
  <2>2. U \subseteq V
    BY <1>1, <1>2, Primed
  <2>3. IsFiniteSet(Initializing')
    BY RegistryAssumption, FS_Subset, Primed
  <2> HIDE DEF V
  <2>4. U \in SUBSET V
    BY <2>2
  <2>5. /\ Cardinality(U) <= Cardinality(V) /\ IsFiniteSet(U)
        /\ Cardinality(U) \in Nat /\ Cardinality(V) \in Nat
        /\ Cardinality(Initializing') \in Nat
    <3> HIDE DEF U
    <3> QED BY <2>1, <2>3, <2>4, FS_Subset, FS_CardinalityType
  <2>6. Cardinality(U) <= MaxSessions + Cardinality(Initializing')
    <3> HIDE DEF U
    <3> QED BY <2>1, <2>5, RegistryAssumption
  <2> QED BY <2>6 DEF RegistryBounded
<1>4. CASE req[r].todo = q /\ req[r].pc = "reaping"
  <2>1. \A t \in Requests : req[t].pc = "initializing" => req'[t].pc = "initializing"
    BY <1>1, <1>4
  <2>2. Registered' \cap Doomed \subseteq Doomed'
    <3> SUFFICES ASSUME NEW x \in Registered', NEW t \in Requests, x \in Elements(req[t].todo)
                 PROVE  x \in Doomed'
      BY DEF Doomed
    <3>1. CASE t = r
      BY <1>2, <1>4, <3>1
    <3>2. CASE t # r
      BY <1>1, <3>2, Primed
    <3> QED BY <3>1, <3>2
  <2>3. (Registered \ Doomed)' \subseteq Registered \ Doomed
    BY <1>1, <2>2, Primed
  <2> QED BY <1>1, <2>1, <2>3, BoundedStays
<1> QED BY <1>3, <1>4 DEF Loop

LEMMA LoopReleases ==
  ASSUME IInv, NEW r \in Requests, NEW s, NEW q, NEW o, Loop(r, s, q, o)
  PROVE  ReleasedExactly'
<1>1. /\ \A t \in Requests \ {r} : req'[t] = req[t]
      /\ open' \in SUBSET Sids /\ Elements(registry') \subseteq open'
      /\ open' \ Elements(registry') \subseteq (o \ Registered) \cup {req'[r].dropping}
  BY LoopDoes DEF LoopDid
<1>2. Registered' \subseteq open'
  BY <1>1, Primed
<1>3. ASSUME NEW x \in (open \ Registered)'
      PROVE  \E t \in Requests :
               req'[t].dropping = x \/ (req'[t].pc = "closing" /\ req'[t].sid = x)
  <2>1. x \in (o \ Registered) \cup {req'[r].dropping}
    BY <1>1, Primed
  <2>2. CASE x = req'[r].dropping
    BY <2>2
  <2>3. CASE x \in o \ Registered
    <3>1. x \in open \ Registered /\ x # req[r].dropping /\ req[r].pc # "closing"
      BY <2>3 DEF Loop
    <3>2. PICK t \in Requests : req[t].dropping = x \/ (req[t].pc = "closing" /\ req[t].sid = x)
      BY <3>1 DEF IInv, ReleasedExactly
    <3>3. t # r
      BY <3>1, <3>2
    <3> QED BY <1>1, <3>2, <3>3
  <2> QED BY <2>1, <2>2, <2>3
<1> QED BY <1>2, <1>3 DEF ReleasedExactly

\* The turns that only move a request on, and the clock.
Moving(r) ==
  \/ Build(r)
  \/ Reject(r) /\ Leave(r) /\ UNCHANGED <<registry, open>>
  \/ Handle(r)
  \/ Answer(r)

LEMMA MovingDoes ==
  ASSUME IInv, NEW r \in Requests, Moving(r)
  PROVE  /\ UNCHANGED <<registry, lastSeen, open, now>>
         /\ req' \in [Requests -> RequestRecords]
         /\ \A t \in Requests \ {r} : req'[t] = req[t]
         /\ req[r].pc \notin {"reaping", "initializing", "closing"}
         /\ req'[r].pc \notin {"reaping", "closing"}
         /\ req'[r].pc \in {"none", "probing"} => req'[r].sid = None
         /\ req'[r].sid \in Sids \cup {None}
         /\ req'[r].sid \in {req[r].sid, None}
         /\ req'[r].dropping = None /\ req'[r].todo = <<>>
<1>1. req \in [Requests -> RequestRecords] /\ req[r] \in RequestRecords /\ <<>> \in Seq(Sids)
  BY EmptySeq DEF IInv, RInv, TypeOK
<1>2. req[r].sid \in Sids \cup {None}
  BY <1>1 DEF RequestRecords
<1>3. CASE Build(r)
  <2>1. Awaiting("probing", None, TRUE, None, <<>>) \in RequestRecords
    BY <1>1 DEF Awaiting, RequestRecords, PCs
  <2>2. Wait(r, "probing", None, TRUE, None, <<>>)
    BY <1>3 DEF Build
  <2>3. /\ req' \in [Requests -> RequestRecords]
        /\ \A t \in Requests \ {r} : req'[t] = req[t]
        /\ req'[r].pc = "probing" /\ req'[r].sid = None
        /\ req'[r].dropping = None /\ req'[r].todo = <<>>
    BY <1>1, <2>1, <2>2, WaitIs, Zenon
  <2> QED BY <1>3, <2>3 DEF Build
<1>4. CASE Reject(r) /\ Leave(r) /\ UNCHANGED <<registry, open>>
  BY <1>1, <1>4, LeaveIs DEF Reject
<1>5. CASE Handle(r)
  <2>1. Awaiting("handling", req[r].sid, FALSE, None, <<>>) \in RequestRecords
    BY <1>1, <1>2 DEF Awaiting, RequestRecords, PCs
  <2>2. Wait(r, "handling", req[r].sid, FALSE, None, <<>>)
    BY <1>5 DEF Handle
  <2>3. /\ req' \in [Requests -> RequestRecords]
        /\ \A t \in Requests \ {r} : req'[t] = req[t]
        /\ req'[r].pc = "handling" /\ req'[r].sid = req[r].sid
        /\ req'[r].dropping = None /\ req'[r].todo = <<>>
    BY <1>1, <2>1, <2>2, WaitIs, Zenon
  <2> QED BY <1>2, <1>5, <2>3 DEF Handle
<1>6. CASE Answer(r)
  BY <1>1, <1>6, LeaveIs DEF Answer
<1> QED BY <1>3, <1>4, <1>5, <1>6 DEF Moving

\* A request that lists nothing and drops nothing leaves everyone's lists alone.
LEMMA DoomedSame ==
  ASSUME IInv, NEW r \in Requests, \A t \in Requests \ {r} : req'[t] = req[t],
         req[r].pc # "reaping", req'[r].todo = <<>>
  PROVE  Doomed' = Doomed
<1>1. req[r].todo = req'[r].todo
  BY DEF IInv, RInv, RequestsInv
<1>2. \A t \in Requests : Elements(req'[t].todo) = Elements(req[t].todo)
  BY <1>1
<1> QED BY <1>2, Primed DEF Doomed

LEMMA MovingKeeps ==
  ASSUME IInv, NEW r \in Requests, Moving(r)
  PROVE  IInv'
<1>1. /\ UNCHANGED <<registry, lastSeen, open, now>>
      /\ req' \in [Requests -> RequestRecords]
      /\ \A t \in Requests \ {r} : req'[t] = req[t]
      /\ req[r].pc \notin {"reaping", "initializing", "closing"}
      /\ req'[r].pc \notin {"reaping", "closing"}
      /\ req'[r].pc \in {"none", "probing"} => req'[r].sid = None
      /\ req'[r].dropping = None /\ req'[r].todo = <<>>
  BY MovingDoes
<1>2. Registered' = Registered
  BY <1>1 DEF Registered
<1>3. TypeOK' /\ NoDuplicates(registry)'
  BY <1>1 DEF IInv, RInv, TypeOK, NoDuplicates
<1>4. None \notin Registered /\ Elements(req'[r].todo) = {}
  BY <1>1, NoneIsNot, ElementsOfNone DEF IInv, RInv, TypeOK, Registered
<1>5. RequestsInv'
  <2> SUFFICES ASSUME NEW t \in Requests
               PROVE  /\ req'[t].pc # "reaping" => req'[t].todo = <<>> /\ req'[t].dropping = None
                      /\ req'[t].pc \in {"none", "probing"} => req'[t].sid = None
                      /\ req'[t].dropping \notin Registered'
                      /\ req'[t].pc = "closing" => req'[t].sid \notin Registered'
                      /\ req'[t].sid \notin Elements(req'[t].todo)
    BY DEF RequestsInv, Elements
  <2>1. CASE t = r
    BY <1>1, <1>2, <1>4, <2>1
  <2>2. CASE t # r
    BY <1>1, <1>2, <2>2 DEF IInv, RInv, RequestsInv
  <2> QED BY <2>1, <2>2
<1>6. RegistryBounded'
  <2>1. (Registered \ Doomed)' \subseteq Registered \ Doomed
    BY <1>1, <1>2, DoomedSame
  <2>2. \A t \in Requests : req[t].pc = "initializing" => req'[t].pc = "initializing"
    BY <1>1
  <2> QED BY <1>1, <2>1, <2>2, BoundedStays
<1>7. ReleasedExactly'
  <2> SUFFICES ASSUME NEW x \in open \ Registered
               PROVE  \E t \in Requests :
                        req'[t].dropping = x \/ (req'[t].pc = "closing" /\ req'[t].sid = x)
    BY <1>1, <1>2 DEF IInv, ReleasedExactly
  <2>1. PICK t \in Requests : req[t].dropping = x \/ (req[t].pc = "closing" /\ req[t].sid = x)
    BY DEF IInv, ReleasedExactly
  <2>2. req[r].dropping = None /\ x # None
    BY <1>1, NoSidAssumption DEF IInv, RInv, RequestsInv, TypeOK
  <2>3. t # r
    BY <1>1, <2>1, <2>2
  <2> QED BY <1>1, <2>1, <2>3
<1> QED BY <1>3, <1>5, <1>6, <1>7 DEF IInv, RInv

LEMMA RegisterKeeps ==
  ASSUME IInv, NEW r \in Requests, NEW s \in Sids, Register(r, s)
  PROVE  IInv' /\ Registered \subseteq Registered' /\ Doomed' = Doomed
<1>1. /\ registry \in Seq(Sids) /\ NoDuplicates(registry) /\ req \in [Requests -> RequestRecords]
      /\ lastSeen \in [Sids -> Nat] /\ open \in SUBSET Sids /\ now \in Nat
      /\ Registered \subseteq open
  BY DEF IInv, RInv, TypeOK, ReleasedExactly
<1>2. /\ req[r].pc = "probing" /\ registry' = Append(registry, s)
      /\ lastSeen' = [lastSeen EXCEPT ![s] = now] /\ open' = open \cup {s} /\ now' = now
      /\ s \notin Registered /\ s \notin open
      /\ \A t \in Requests : s # req[t].sid /\ s # req[t].dropping /\ s \notin Elements(req[t].todo)
  BY DEF Register, Fresh
<1>3. /\ req' \in [Requests -> RequestRecords]
      /\ \A t \in Requests \ {r} : req'[t] = req[t]
      /\ req'[r].pc = "initializing" /\ req'[r].sid = s
      /\ req'[r].dropping = None /\ req'[r].todo = <<>>
  <2>1. Awaiting("initializing", s, TRUE, None, <<>>) \in RequestRecords
    BY EmptySeq DEF Awaiting, RequestRecords, PCs
  <2>2. Wait(r, "initializing", s, TRUE, None, <<>>)
    BY DEF Register
  <2>3. req \in [Requests -> RequestRecords]
    BY <1>1
  <2> QED BY <2>1, <2>2, <2>3, WaitIs, Zenon
<1>4. /\ registry' \in Seq(Sids) /\ Len(registry') = Len(registry) + 1
      /\ \A i \in 1..Len(registry) : registry'[i] = registry[i]
      /\ registry'[Len(registry) + 1] = s /\ Len(registry) \in Nat
      /\ DOMAIN registry = 1..Len(registry) /\ DOMAIN registry' = 1..Len(registry')
  BY <1>1, <1>2, AppendProperties
<1>5. Registered' = Registered \cup {s}
  <2>1. \A x : x \in Elements(registry') <=> \E i \in 1..Len(registry') : registry'[i] = x
    BY <1>4, InElements
  <2>2. \A x : x \in Elements(registry) <=> \E i \in 1..Len(registry) : registry[i] = x
    BY <1>1, InElements
  <2>3. \A i \in 1..Len(registry') : i \in 1..Len(registry) \/ i = Len(registry) + 1
    BY <1>4
  <2>4. /\ \A i \in 1..Len(registry) : i \in 1..Len(registry')
        /\ Len(registry) + 1 \in 1..Len(registry')
    BY <1>4
  <2>5. \A x : x \in Elements(registry') <=> x \in Elements(registry) \/ x = s
    BY <1>4, <2>1, <2>2, <2>3, <2>4
  <2> QED BY <2>5, Primed DEF Registered
<1>6. NoDuplicates(registry')
  <2>1. \A i \in 1..Len(registry) : registry[i] \in Registered
    BY <1>1, InElements DEF Registered
  <2>2. \A i \in 1..Len(registry') : i \in 1..Len(registry) \/ i = Len(registry) + 1
    BY <1>4
  <2> QED BY <1>1, <1>2, <1>4, <2>1, <2>2 DEF NoDuplicates
<1>7. TypeOK'
  BY <1>1, <1>2, <1>3, <1>4 DEF TypeOK
<1>8. None \notin Registered' /\ Elements(req'[r].todo) = {}
  BY <1>3, <1>4, NoneIsNot, ElementsOfNone, Primed
<1>9. RequestsInv'
  <2> SUFFICES ASSUME NEW t \in Requests
               PROVE  /\ req'[t].pc # "reaping" => req'[t].todo = <<>> /\ req'[t].dropping = None
                      /\ req'[t].pc \in {"none", "probing"} => req'[t].sid = None
                      /\ req'[t].dropping \notin Registered'
                      /\ req'[t].pc = "closing" => req'[t].sid \notin Registered'
                      /\ req'[t].sid \notin Elements(req'[t].todo)
    BY DEF RequestsInv, Elements
  <2>1. CASE t = r
    BY <1>3, <1>8, <2>1
  <2>2. CASE t # r
    BY <1>2, <1>3, <1>5, <2>2 DEF IInv, RInv, RequestsInv
  <2> QED BY <2>1, <2>2
<1>10. RegistryBounded'
  <2> SUFFICES ASSUME MaxSessions > 0 PROVE RegistryBounded'
    BY DEF RegistryBounded
  <2> DEFINE U == Registered \ Doomed
  <2>1. Doomed' = Doomed
    BY <1>2, <1>3, DoomedSame
  <2>2. U' = U \cup {s} /\ s \notin U
    <3>1. s \notin Doomed
      BY <1>2 DEF Doomed
    <3> QED BY <1>2, <1>5, <2>1, <3>1
  <2>3. Initializing' = Initializing \cup {r} /\ r \notin Initializing
    BY <1>2, <1>3, Primed DEF Initializing
  <2>4. IsFiniteSet(U)
    BY <1>1, ElementsIs, FS_Subset DEF Registered
  <2>5. IsFiniteSet(Initializing)
    BY RegistryAssumption, FS_Subset DEF Initializing
  <2>6. Cardinality(U) <= MaxSessions + Cardinality(Initializing)
    BY DEF IInv, RegistryBounded
  <2> HIDE DEF U
  <2>7. Cardinality(U') = Cardinality(U) + 1 /\ Cardinality(U) \in Nat
    BY <2>2, <2>4, FS_AddElement, FS_CardinalityType
  <2>8. Cardinality(Initializing') = Cardinality(Initializing) + 1 /\ Cardinality(Initializing) \in Nat
    BY <2>3, <2>5, FS_AddElement, FS_CardinalityType
  <2>9. Cardinality(U') <= MaxSessions + Cardinality(Initializing')
    BY <2>6, <2>7, <2>8, RegistryAssumption
  <2> QED BY <2>9 DEF RegistryBounded, U
<1>11. ReleasedExactly'
  <2> SUFFICES ASSUME NEW x \in open \ Registered
               PROVE  \E t \in Requests :
                        req'[t].dropping = x \/ (req'[t].pc = "closing" /\ req'[t].sid = x)
    BY <1>1, <1>2, <1>5 DEF ReleasedExactly
  <2>1. PICK t \in Requests : req[t].dropping = x \/ (req[t].pc = "closing" /\ req[t].sid = x)
    BY DEF IInv, ReleasedExactly
  <2>2. req[r].dropping = None /\ x # None
    BY <1>1, <1>2, NoSidAssumption DEF IInv, RInv, RequestsInv
  <2>3. t # r
    BY <1>2, <2>1, <2>2
  <2> QED BY <1>3, <2>1, <2>3
<1>12. Doomed' = Doomed
  BY <1>2, <1>3, DoomedSame
<1> QED BY <1>5, <1>6, <1>7, <1>9, <1>10, <1>11, <1>12 DEF IInv, RInv, NoDuplicates

LEMMA CloseKeeps ==
  ASSUME IInv, NEW r \in Requests, Close(r)
  PROVE  /\ IInv'
         /\ req'[r].pc = "closing" /\ \A t \in Requests \ {r} : req'[t] = req[t]
         /\ Doomed' = Doomed /\ Registered' \subseteq Registered
<1>1. /\ registry \in Seq(Sids) /\ NoDuplicates(registry) /\ req \in [Requests -> RequestRecords]
      /\ req[r] \in RequestRecords /\ Registered \subseteq open /\ open \in SUBSET Sids
  BY DEF IInv, RInv, TypeOK, ReleasedExactly
<1>2. /\ req[r].pc = "reading" /\ registry' = Without(registry, {req[r].sid})
      /\ UNCHANGED <<lastSeen, open, now>>
  BY DEF Close
<1>3. /\ req' \in [Requests -> RequestRecords]
      /\ \A t \in Requests \ {r} : req'[t] = req[t]
      /\ req'[r].pc = "closing" /\ req'[r].sid = req[r].sid
      /\ req'[r].dropping = None /\ req'[r].todo = <<>>
  <2>1. Awaiting("closing", req[r].sid, FALSE, None, <<>>) \in RequestRecords
    BY <1>1, EmptySeq DEF Awaiting, RequestRecords, PCs
  <2>2. Wait(r, "closing", req[r].sid, FALSE, None, <<>>)
    BY DEF Close
  <2>3. req \in [Requests -> RequestRecords]
    BY <1>1
  <2> QED BY <2>1, <2>2, <2>3, WaitIs, Zenon
<1>4. /\ registry' \in Seq(Sids) /\ NoDuplicates(registry')
      /\ Registered' = Registered \ {req[r].sid}
  BY <1>1, <1>2, WithoutIs, Primed DEF Registered
<1>5. None \notin Registered' /\ Elements(req'[r].todo) = {}
  BY <1>3, <1>4, NoneIsNot, ElementsOfNone, Primed
<1>6. Doomed' = Doomed
  BY <1>2, <1>3, DoomedSame
<1>7. TypeOK'
  BY <1>2, <1>3, <1>4 DEF IInv, RInv, TypeOK
<1>8. RequestsInv'
  <2> SUFFICES ASSUME NEW t \in Requests
               PROVE  /\ req'[t].pc # "reaping" => req'[t].todo = <<>> /\ req'[t].dropping = None
                      /\ req'[t].pc \in {"none", "probing"} => req'[t].sid = None
                      /\ req'[t].dropping \notin Registered'
                      /\ req'[t].pc = "closing" => req'[t].sid \notin Registered'
                      /\ req'[t].sid \notin Elements(req'[t].todo)
    BY DEF RequestsInv, Elements
  <2>1. CASE t = r
    BY <1>3, <1>4, <1>5, <2>1
  <2>2. CASE t # r
    BY <1>3, <1>4, <2>2 DEF IInv, RInv, RequestsInv
  <2> QED BY <2>1, <2>2
<1>9. RegistryBounded'
  <2>1. (Registered \ Doomed)' \subseteq Registered \ Doomed
    BY <1>4, <1>6
  <2>2. \A t \in Requests : req[t].pc = "initializing" => req'[t].pc = "initializing"
    BY <1>2, <1>3
  <2> QED BY <1>3, <2>1, <2>2, BoundedStays
<1>10. ReleasedExactly'
  <2> SUFFICES ASSUME NEW x \in open \ Registered'
               PROVE  \E t \in Requests :
                        req'[t].dropping = x \/ (req'[t].pc = "closing" /\ req'[t].sid = x)
    BY <1>1, <1>2, <1>4 DEF ReleasedExactly
  <2>1. CASE x = req[r].sid
    BY <1>3, <2>1
  <2>2. CASE x # req[r].sid
    <3>1. PICK t \in Requests : req[t].dropping = x \/ (req[t].pc = "closing" /\ req[t].sid = x)
      BY <1>4, <2>2 DEF IInv, ReleasedExactly
    <3>2. req[r].dropping = None /\ x # None
      BY <1>1, <1>2, NoSidAssumption DEF IInv, RInv, RequestsInv
    <3>3. t # r
      BY <1>2, <3>1, <3>2
    <3> QED BY <1>3, <3>1, <3>3
  <2> QED BY <2>1, <2>2
<1> QED BY <1>3, <1>4, <1>6, <1>7, <1>8, <1>9, <1>10 DEF IInv, RInv, NoDuplicates

LEMMA ClosedKeeps ==
  ASSUME IInv, NEW r \in Requests, Closed(r)
  PROVE  IInv' /\ Doomed' = Doomed /\ registry' = registry
<1>1. /\ req[r].pc = "closing" /\ open' = open \ {req[r].sid}
      /\ UNCHANGED <<registry, lastSeen, now>> /\ Registered' = Registered
  BY DEF Closed, Registered
<1>2. req \in [Requests -> RequestRecords] /\ Leave(r)
  BY DEF IInv, RInv, TypeOK, Closed
<1>3. /\ req' \in [Requests -> RequestRecords]
      /\ \A t \in Requests \ {r} : req'[t] = req[t]
      /\ req'[r].pc = "none" /\ req'[r].sid = None
      /\ req'[r].dropping = None /\ req'[r].todo = <<>>
  BY <1>2, LeaveIs
<1>4. None \notin Registered /\ Elements(req'[r].todo) = {}
  BY <1>3, NoneIsNot, ElementsOfNone DEF IInv, RInv, TypeOK, Registered
<1>5. Doomed' = Doomed
  BY <1>1, <1>3, DoomedSame
<1>6. TypeOK' /\ NoDuplicates(registry)'
  BY <1>1, <1>3 DEF IInv, RInv, TypeOK, NoDuplicates
<1>7. RequestsInv'
  <2> SUFFICES ASSUME NEW t \in Requests
               PROVE  /\ req'[t].pc # "reaping" => req'[t].todo = <<>> /\ req'[t].dropping = None
                      /\ req'[t].pc \in {"none", "probing"} => req'[t].sid = None
                      /\ req'[t].dropping \notin Registered'
                      /\ req'[t].pc = "closing" => req'[t].sid \notin Registered'
                      /\ req'[t].sid \notin Elements(req'[t].todo)
    BY DEF RequestsInv, Elements
  <2>1. CASE t = r
    BY <1>1, <1>3, <1>4, <2>1
  <2>2. CASE t # r
    BY <1>1, <1>3, <2>2 DEF IInv, RInv, RequestsInv
  <2> QED BY <2>1, <2>2
<1>8. RegistryBounded'
  <2>1. (Registered \ Doomed)' \subseteq Registered \ Doomed
    BY <1>1, <1>5
  <2>2. \A t \in Requests : req[t].pc = "initializing" => req'[t].pc = "initializing"
    BY <1>1, <1>3
  <2> QED BY <1>3, <2>1, <2>2, BoundedStays
<1>9. ReleasedExactly'
  <2>1. Registered \subseteq open'
    BY <1>1 DEF IInv, RInv, RequestsInv, ReleasedExactly
  <2> SUFFICES ASSUME NEW x \in open \ Registered, x # req[r].sid
               PROVE  \E t \in Requests :
                        req'[t].dropping = x \/ (req'[t].pc = "closing" /\ req'[t].sid = x)
    BY <1>1, <2>1 DEF ReleasedExactly
  <2>2. PICK t \in Requests : req[t].dropping = x \/ (req[t].pc = "closing" /\ req[t].sid = x)
    BY DEF IInv, ReleasedExactly
  <2>3. req[r].dropping = None /\ x # None
    BY <1>1, NoSidAssumption DEF IInv, RInv, RequestsInv, TypeOK
  <2>4. t # r
    BY <2>2, <2>3
  <2> QED BY <1>3, <2>2, <2>4
<1> QED BY <1>1, <1>5, <1>6, <1>7, <1>8, <1>9 DEF IInv, RInv

LEMMA TickKeeps ==
  ASSUME IInv, Tick \/ UNCHANGED vars
  PROVE  IInv'
<1>1. UNCHANGED <<registry, lastSeen, open, req>> /\ now' \in Nat
  BY DEF IInv, RInv, TypeOK, Tick, vars
<1>2. /\ Registered' = Registered /\ Doomed' = Doomed /\ Initializing' = Initializing
  BY <1>1 DEF Registered, Doomed, Initializing
<1> QED BY <1>1, <1>2
    DEF IInv, RInv, TypeOK, NoDuplicates, RequestsInv, RegistryBounded, ReleasedExactly

\* The turns by kind.
LEMMA TurnOf ==
  ASSUME Next
  PROVE  \/ Tick
         \/ \E r \in Requests :
              \/ Reaping(r)
              \/ Moving(r)
              \/ \E s \in Sids : Register(r, s)
              \/ Close(r)
              \/ Closed(r)
<1>1. ASSUME NEW r \in Requests, Reject(r) PROVE Reaping(r) \/ Moving(r)
  BY <1>1 DEF Reject, Reaping, Moving
<1> QED BY <1>1 DEF Next, Arrive, Resume, Reaping, Moving

LEMMA IInductive == IInv /\ [Next]_vars => IInv'
<1> SUFFICES ASSUME IInv, [Next]_vars PROVE IInv'
  OBVIOUS
<1>1. ASSUME NEW r \in Requests, Reaping(r) PROVE IInv'
  <2>1. PICK s, q, o : Loop(r, s, q, o)
    BY <1>1, ReapingLoops
  <2> QED BY <2>1, LoopKeepsRInv, LoopKeepsBound, LoopReleases DEF IInv
<1>2. CASE Next
  BY <1>1, <1>2, TurnOf, TickKeeps, MovingKeeps, RegisterKeeps, CloseKeeps, ClosedKeeps
<1>3. CASE UNCHANGED vars
  BY <1>3, TickKeeps
<1> QED BY <1>2, <1>3

LEMMA IInit == Init => IInv
<1> SUFFICES ASSUME Init PROVE IInv
  OBVIOUS
<1>1. registry = <<>> /\ registry \in Seq(Sids) /\ Registered = {}
  BY ElementsOfNone DEF Init, Registered
<1>2. \A r \in Requests : /\ req[r].pc = "none" /\ req[r].sid = None
                          /\ req[r].dropping = None /\ req[r].todo = <<>>
  BY DEF Init, NoRequest
<1>3. NoRequest \in RequestRecords
  BY EmptySeq DEF NoRequest, RequestRecords, PCs
<1>4. TypeOK
  BY <1>1, <1>3 DEF Init, TypeOK
<1>5. NoDuplicates(registry)
  <2>1. DOMAIN registry = {}
    BY <1>1, EmptySeq
  <2> QED BY <2>1 DEF NoDuplicates
<1>6. RequestsInv
  <2>1. \A r \in Requests : Elements(req[r].todo) = {}
    BY <1>2, ElementsOfNone
  <2> QED BY <1>1, <1>2, <2>1 DEF RequestsInv
<1>7. RegistryBounded
  <2>1. Registered \ Doomed = {}
    BY <1>1
  <2>2. Cardinality(Registered \ Doomed) = 0
    BY <2>1, FS_EmptySet
  <2>3. IsFiniteSet(Initializing)
    BY RegistryAssumption, FS_Subset DEF Initializing
  <2>4. Cardinality(Initializing) \in Nat
    BY <2>3, FS_CardinalityType
  <2> QED BY <2>2, <2>4, RegistryAssumption DEF RegistryBounded
<1>8. ReleasedExactly
  BY <1>1 DEF Init, ReleasedExactly
<1> QED BY <1>4, <1>5, <1>6, <1>7, <1>8 DEF IInv, RInv

\* The invariant on which the other results rest: at every await a request holds
\* what the code leaves it, and what it drops or closes stays unregistered until
\* the request is over.
THEOREM RegistryInvariance == Spec => []IInv
BY IInit, IInductive, PTL DEF Spec

\* The types, for every number of requests, sessions and every cap.
THEOREM RegistryTypes == Spec => []TypeOK
<1>1. IInv => TypeOK
  BY DEF IInv, RInv
<1> QED BY <1>1, RegistryInvariance, PTL

\* The registry keeps its cap however many requests register, touch and reap at
\* once, apart from what is about to be dropped and what is being initialized.
THEOREM CapKept == Spec => []RegistryBounded
<1>1. IInv => RegistryBounded
  BY DEF IInv
<1> QED BY <1>1, RegistryInvariance, PTL

\* What is registered has not been released, and what has left the registry is
\* released or has a request at it: no order of a drop and an onclose of the
\* same session leaks its manager or releases it while clients can reach it.
THEOREM ReleaseCorrect == Spec => []ReleasedExactly
<1>1. IInv => ReleasedExactly
  BY DEF IInv
<1> QED BY <1>1, RegistryInvariance, PTL

\* No turn of a request takes the session it serves out of the registry, except
\* the DELETE that asks for it.
THEOREM ServedStays == Spec => KeptStays
<1>1. ASSUME IInv, [Next]_vars, NEW r \in Requests,
             req'[r] # req[r], req'[r].pc # "closing"
      PROVE  (Registered \ Registered') \cap {req[r].sid, req'[r].sid} = {}
  <2>1. req \in [Requests -> RequestRecords] /\ None \notin Registered
    BY <1>1, NoneIsNot DEF IInv, RInv, TypeOK, Registered
  <2>2. CASE UNCHANGED vars \/ Tick
    BY <1>1, <2>2 DEF vars, Tick
  <2>3. ASSUME NEW t \in Requests, Reaping(t)
        PROVE  (Registered \ Registered') \cap {req[r].sid, req'[r].sid} = {}
    <3>1. PICK s, q, o : Loop(t, s, q, o)
      BY <1>1, <2>3, ReapingLoops
    <3>2. /\ \A u \in Requests \ {t} : req'[u] = req[u]
          /\ req'[t].sid \in {s, None}
          /\ Registered \ Elements(registry') \subseteq Elements(q)
      BY <1>1, <3>1, LoopDoes DEF LoopDid
    <3>3. t = r
      BY <1>1, <3>2
    <3>4. s \notin Elements(q) /\ req[r].sid \in {s, None}
      BY <3>1, <3>3 DEF Loop
    <3> QED BY <2>1, <3>2, <3>3, <3>4, Primed
  <2>4. ASSUME NEW t \in Requests, Moving(t) \/ (\E s \in Sids : Register(t, s)) \/ Closed(t)
        PROVE  (Registered \ Registered') \cap {req[r].sid, req'[r].sid} = {}
    <3>1. Registered \subseteq Registered'
      <4>1. CASE Moving(t) \/ Closed(t)
        BY <1>1, <4>1, MovingDoes, ClosedKeeps DEF Registered
      <4>2. CASE \E s \in Sids : Register(t, s)
        BY <1>1, <4>2, RegisterKeeps
      <4> QED BY <2>4, <4>1, <4>2
    <3> QED BY <3>1
  <2>5. ASSUME NEW t \in Requests, Close(t)
        PROVE  (Registered \ Registered') \cap {req[r].sid, req'[r].sid} = {}
    <3>1. req'[t].pc = "closing" /\ \A u \in Requests \ {t} : req'[u] = req[u]
      BY <1>1, <2>5, CloseKeeps
    <3> QED BY <1>1, <3>1
  <2> QED BY <1>1, <2>2, <2>3, <2>4, <2>5, TurnOf
<1>2. IInv /\ [Next]_vars =>
        \A r \in Requests :
          req'[r] # req[r] /\ req'[r].pc # "closing" =>
            (Registered \ Registered') \cap {req[r].sid, req'[r].sid} = {}
  BY <1>1
<1> QED BY <1>2, RegistryInvariance, PTL DEF Spec, KeptStays

\* Until it has left the registry, a session that was selected stays on the list
\* of a request: no turn forgets it (the safety part of DoomedLeaves).
DoomedUntilGone == [][\A s \in Doomed : s \in Doomed' \/ s \notin Registered']_vars

THEOREM DoomedNotForgotten == Spec => DoomedUntilGone
<1>1. ASSUME IInv, [Next]_vars, NEW s \in Doomed
      PROVE  s \in Doomed' \/ s \notin Registered'
  <2>1. CASE UNCHANGED vars \/ Tick
    <3>1. Doomed' = Doomed
      BY <2>1 DEF vars, Tick, Doomed
    <3> QED BY <3>1
  <2>2. ASSUME NEW t \in Requests, Reaping(t) PROVE s \in Doomed' \/ s \notin Registered'
    <3>1. PICK k, q, o : Loop(t, k, q, o)
      BY <1>1, <2>2, ReapingLoops
    <3>2. /\ \A u \in Requests \ {t} : req'[u] = req[u]
          /\ Elements(q) \cap Elements(registry') \subseteq Elements(req'[t].todo)
      BY <1>1, <3>1, LoopDoes DEF LoopDid
    <3>3. PICK u \in Requests : s \in Elements(req[u].todo)
      BY DEF Doomed
    <3>4. CASE u = t
      <4>1. Elements(req[t].todo) \subseteq Elements(q)
        BY <3>1, ElementsOfNone DEF Loop
      <4> QED BY <3>2, <3>3, <3>4, <4>1, Primed
    <3>5. CASE u # t
      BY <3>2, <3>3, <3>5, Primed
    <3> QED BY <3>4, <3>5
  <2>3. ASSUME NEW t \in Requests,
               Moving(t) \/ (\E x \in Sids : Register(t, x)) \/ Close(t) \/ Closed(t)
        PROVE  s \in Doomed'
    <3>1. Doomed' = Doomed
      <4>1. CASE Moving(t)
        BY <1>1, <4>1, MovingDoes, DoomedSame
      <4>2. CASE \E x \in Sids : Register(t, x)
        BY <1>1, <4>2, RegisterKeeps
      <4>3. CASE Close(t) \/ Closed(t)
        BY <1>1, <4>3, CloseKeeps, ClosedKeeps
      <4> QED BY <2>3, <4>1, <4>2, <4>3
    <3> QED BY <3>1
  <2> QED BY <1>1, <2>1, <2>2, <2>3, TurnOf
<1>2. IInv /\ [Next]_vars => \A s \in Doomed : s \in Doomed' \/ s \notin Registered'
  BY <1>1
<1> QED BY <1>2, RegistryInvariance, PTL DEF Spec, DoomedUntilGone

\* What a reaping takes out of a registry within its cap, by the turn it takes.
LEMMA ReapingReason ==
  ASSUME IInv, NEW r \in Requests, Reaping(r), WithinCap(Registered),
         NEW x \in Registered \ Registered'
  PROVE  \/ IsIdle(x, lastSeen) \/ x \in Doomed
         \/ \E t \in Initializing : req[t].sid \notin Registered
<1>1. /\ registry \in Seq(Sids) /\ NoDuplicates(registry) /\ now \in Nat
      /\ lastSeen \in [Sids -> Nat] /\ Registered = Elements(registry)
      /\ open \in SUBSET Sids /\ Registered \subseteq open
      /\ req[r] \in RequestRecords /\ req[r].sid \in Sids \cup {None}
  BY DEF IInv, RInv, TypeOK, ReleasedExactly, Registered, RequestRecords
<1>2. req[r].pc \in {"none", "probing"} => req[r].sid = None
  BY DEF IInv, RInv, RequestsInv
<1>3. ASSUME NEW s \in Sids \cup {None}, NEW q, NEW o, Loop(r, s, q, o)
      PROVE  x \in Elements(q)
  BY <1>3, LoopDoes, Primed DEF LoopDid
<1>4. CASE \E s \in Sids : Touch(r, s)
  <2>1. PICK s \in Sids : Touch(r, s)
    BY <1>4
  <2> DEFINE ls == lastSeen'
  <2>2. /\ ls \in [Sids -> Nat] /\ lastSeen' = ls /\ now' = now
        /\ req[r].pc \notin {"closing", "reaping"} /\ req[r].sid \in {s, None}
        /\ Reap(r, s, FALSE, registry, ls, open)
        /\ s \in Registered /\ \A y \in Sids \ {s} : ls[y] = lastSeen[y]
    BY <1>1, <1>2, <2>1 DEF Touch
  <2> HIDE DEF ls
  <2>3. Loop(r, s, Expired(registry, ls, s), open)
    BY <2>2, NewList, Zenon
  <2>4. x \in Elements(Expired(registry, ls, s))
    BY <1>3, <2>3
  <2>5. IsIdle(x, ls) /\ x # s /\ x \in Sids
    BY <1>1, <2>2, <2>4, WithinCapIdle, ElementsIs
  <2> QED BY <2>2, <2>5 DEF IsIdle
<1>5. CASE Reject(r) /\ Reap(r, None, TRUE, registry, lastSeen, open)
  <2>1. /\ lastSeen' = lastSeen /\ now' = now
        /\ req[r].pc \notin {"closing", "reaping"} /\ req[r].sid \in {None, None}
    BY <1>2, <1>5 DEF Reject
  <2>2. Loop(r, None, Expired(registry, lastSeen, None), open)
    BY <1>1, <1>5, <2>1, NewList, Zenon
  <2>3. x \in Elements(Expired(registry, lastSeen, None))
    BY <1>3, <2>2
  <2> QED BY <1>1, <2>3, WithinCapIdle
<1>6. CASE Initialized(r)
  <2> DEFINE s == req[r].sid
  <2>1. /\ lastSeen' = lastSeen /\ now' = now /\ r \in Initializing
        /\ req[r].pc \notin {"closing", "reaping"} /\ req[r].sid \in {s, None}
        /\ Reap(r, s, TRUE, registry, lastSeen, open) /\ s \in Sids \cup {None}
    BY <1>1, <1>6 DEF Initialized, Initializing
  <2> HIDE DEF s
  <2>2. Loop(r, s, Expired(registry, lastSeen, s), open)
    BY <1>1, <2>1, NewList, Zenon
  <2>3. x \in Elements(Expired(registry, lastSeen, s))
    BY <1>3, <2>1, <2>2
  <2>4. CASE s \in Registered
    BY <1>1, <2>1, <2>3, <2>4, WithinCapIdle
  <2>5. CASE s \notin Registered
    BY <2>1, <2>5 DEF s
  <2> QED BY <2>4, <2>5
<1>7. CASE DropDone(r)
  <2> DEFINE q == req[r].todo
  <2>1. /\ req[r].pc = "reaping" /\ lastSeen' = lastSeen /\ now' = now
        /\ DropAll(r, req[r].sid, req[r].isNew, q, registry, open \ {req[r].dropping})
    BY <1>7 DEF DropDone
  <2>2. req[r].isNew \in BOOLEAN /\ q \in Seq(Sids)
    BY <1>1 DEF RequestRecords
  <2>3. req[r].sid \notin Elements(q) /\ req[r].dropping \notin Registered
    BY DEF IInv, RInv, RequestsInv
  <2>4. Loop(r, req[r].sid, q, open \ {req[r].dropping})
    BY <1>1, <2>1, <2>2, <2>3 DEF Loop
  <2>5. x \in Elements(q)
    BY <1>1, <1>3, <2>4
  <2> QED BY <2>5 DEF Doomed
<1> QED BY <1>4, <1>5, <1>6, <1>7 DEF Reaping

\* While the registry is within its cap, no session that is in use leaves it
\* unless its client closes it or it was selected before, with one exception:
\* the slot of a new session that is no longer there.
THEOREM WithinCapKept == Spec => DroppedWithReason
<1> DEFINE Reason(x) ==
      \/ IsIdle(x, lastSeen) \/ x \in Doomed
      \/ \E r \in Requests : req'[r].pc = "closing" /\ req'[r].sid = x
      \/ \E r \in Initializing : req[r].sid \notin Registered
<1>1. ASSUME IInv, [Next]_vars, WithinCap(Registered),
             NEW x \in Registered \ Registered'
      PROVE  Reason(x)
  <2>1. CASE UNCHANGED vars \/ Tick
    BY <1>1, <2>1 DEF vars, Tick, Registered
  <2>2. ASSUME NEW t \in Requests, Reaping(t) PROVE Reason(x)
    BY <1>1, <2>2, ReapingReason
  <2>3. ASSUME NEW t \in Requests, Moving(t) \/ (\E s \in Sids : Register(t, s)) \/ Closed(t)
        PROVE  Registered \subseteq Registered'
    <3>1. CASE Moving(t) \/ Closed(t)
      BY <1>1, <3>1, MovingDoes, ClosedKeeps DEF Registered
    <3>2. CASE \E s \in Sids : Register(t, s)
      BY <1>1, <3>2, RegisterKeeps
    <3> QED BY <2>3, <3>1, <3>2
  <2>4. ASSUME NEW t \in Requests, Close(t) PROVE Reason(x)
    <3>1. /\ registry \in Seq(Sids) /\ NoDuplicates(registry)
          /\ req \in [Requests -> RequestRecords]
      BY <1>1 DEF IInv, RInv, TypeOK
    <3>2. /\ registry' = Without(registry, {req[t].sid})
          /\ req'[t].pc = "closing" /\ req'[t].sid = req[t].sid
      BY <2>4, <3>1 DEF Close, Wait
    <3>3. Registered' = Registered \ {req[t].sid}
      BY <3>1, <3>2, WithoutIs, Primed DEF Registered
    <3> QED BY <1>1, <3>2, <3>3
  <2> QED BY <1>1, <2>1, <2>2, <2>3, <2>4, TurnOf
<1>2. IInv /\ [Next]_vars =>
        (WithinCap(Registered) =>
           \A s \in Registered \ Registered' :
             \/ IsIdle(s, lastSeen) \/ s \in Doomed
             \/ \E r \in Requests : req'[r].pc = "closing" /\ req'[r].sid = s
             \/ \E r \in Initializing : req[r].sid \notin Registered)
  BY <1>1
<1> QED BY <1>2, RegistryInvariance, PTL DEF Spec, DroppedWithReason
===============================================================================
