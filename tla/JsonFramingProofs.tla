-------------------------- MODULE JsonFramingProofs --------------------------
(***************************************************************************)
(* Theorems about JsonFraming.tla: whatever pieces the characters of plain *)
(* objects arrive in, counting braces and trimming blanks finds them.      *)
(***************************************************************************)
EXTENDS JsonFraming, SequenceTheorems, FiniteSetTheorems, WellFoundedInduction, TLAPS

-----------------------------------------------------------------------------
(* Numbers, and functions defined by recursion.                            *)

\* Of any numbers one is the least.
LEMMA LeastNumber ==
  ASSUME NEW T \in SUBSET Nat, T # {}
  PROVE  \E x \in T : \A y \in T : x <= y
<1> DEFINE R == {ss \in Nat \X Nat : ss[1] < ss[2]}
<1>1. IsWellFoundedOn(R, Nat)
  BY NatLessThanWellFounded DEF OpToRel
<1>2. PICK x \in T : \A y \in T : <<y, x>> \notin R
  <2> HIDE DEF R
  <2>1. QED
    BY <1>1, WFMin
<1>3. \A y \in T : x <= y
  <2> SUFFICES ASSUME NEW y \in T PROVE x <= y
    OBVIOUS
  <2>1. <<y, x>> \in Nat \X Nat /\ <<y, x>>[1] = y /\ <<y, x>>[2] = x
    OBVIOUS
  <2>2. ~(y < x)
    BY <1>2, <2>1
  <2>3. QED
    BY <2>2
<1>4. QED
  BY <1>3

\* A set with the successors of its members, and with 0, has all numbers.
LEMMA AllNumbers ==
  ASSUME NEW T, 0 \in T, \A n \in Nat : n \in T => n + 1 \in T
  PROVE  Nat \subseteq T
<1> DEFINE Bad == Nat \ T
<1>1. SUFFICES ASSUME Bad # {} PROVE FALSE
  OBVIOUS
<1>2. PICK x \in Bad : \A y \in Bad : x <= y
  <2>1. Bad \in SUBSET Nat
    OBVIOUS
  <2> HIDE DEF Bad
  <2>2. QED
    BY <1>1, <2>1, LeastNumber
<1>3. x \in Nat /\ x # 0 /\ x - 1 \in Nat
  OBVIOUS
<1>4. x - 1 \in T
  BY <1>2, <1>3
<1>5. (x - 1) + 1 \in T
  BY <1>3, <1>4
<1>6. QED
  BY <1>2, <1>3, <1>5

\* A loop that gets nearer to its end with every pass has a result.
Loops(g, R, next, stops) ==
  \A r \in R : g[r] = IF r \in stops THEN r ELSE g[next[r]]

LEMMA LoopEnds ==
  ASSUME NEW R, NEW m \in [R -> Nat], NEW next \in [R -> R], NEW stops,
         \A r \in R \ stops : m[next[r]] < m[r]
  PROVE  \E g \in [R -> R] : Loops(g, R, next, stops)
<1> DEFINE Upto(g, n) ==
             /\ g \in [R -> R]
             /\ \A r \in R : m[r] < n => g[r] = IF r \in stops THEN r ELSE g[next[r]]
           T == {n \in Nat : \E g : Upto(g, n)}
<1>1. \A n \in Nat : \E g : Upto(g, n)
  <2>1. 0 \in T
    <3> DEFINE g == [r \in R |-> r]
    <3>1. \A r \in R : ~(m[r] < 0)
      OBVIOUS
    <3>2. Upto(g, 0)
      BY <3>1
    <3>3. QED
      BY <3>2
  <2>2. ASSUME NEW n \in Nat, n \in T PROVE n + 1 \in T
    <3>1. PICK g : Upto(g, n)
      BY <2>2
    <3> DEFINE h == [r \in R |-> IF m[r] < n THEN g[r]
                                 ELSE IF r \in stops THEN r ELSE g[next[r]]]
    <3>2. h \in [R -> R]
      BY <3>1
    <3>3. ASSUME NEW r \in R, m[r] < n + 1
          PROVE  h[r] = IF r \in stops THEN r ELSE h[next[r]]
      <4>1. CASE r \in stops
        BY <3>1, <4>1
      <4>2. CASE r \notin stops
        <5>1. next[r] \in R /\ m[next[r]] < m[r] /\ m[next[r]] \in Nat /\ m[r] \in Nat
          BY <4>2
        <5>2. m[next[r]] < n
          BY <3>3, <5>1
        <5>3. h[next[r]] = g[next[r]]
          BY <5>1, <5>2
        <5>4. h[r] = g[next[r]]
          BY <3>1, <4>2
        <5>5. QED
          BY <4>2, <5>3, <5>4
      <4>3. QED
        BY <4>1, <4>2
    <3>4. Upto(h, n + 1)
      BY <3>2, <3>3
    <3> HIDE DEF h, Upto
    <3>5. QED
      BY <3>4
  <2>3. Nat \subseteq T
    <3> HIDE DEF T
    <3>1. QED
      BY <2>1, <2>2, AllNumbers
  <2> HIDE DEF Upto
  <2>4. QED
    BY <2>3, Zenon
<1>2. ASSUME NEW n \in Nat, NEW k \in Nat, NEW g, NEW h, Upto(g, n), Upto(h, k),
             NEW x \in R, m[x] < n, m[x] < k
      PROVE  g[x] = h[x]
  <2> DEFINE Bad == {i \in Nat : \E r \in R : m[r] = i /\ i < n /\ i < k /\ g[r] # h[r]}
  <2>1. SUFFICES ASSUME Bad # {} PROVE FALSE
    BY <1>2
  <2>2. PICK i \in Bad : \A j \in Bad : i <= j
    <3>1. Bad \in SUBSET Nat
      OBVIOUS
    <3> HIDE DEF Bad
    <3>2. QED
      BY <2>1, <3>1, LeastNumber
  <2>3. PICK r \in R : m[r] = i /\ i < n /\ i < k /\ g[r] # h[r]
    BY <2>2
  <2>4. r \notin stops
    BY <1>2, <2>3
  <2>5. next[r] \in R /\ m[next[r]] < i /\ m[next[r]] \in Nat
    BY <2>3, <2>4
  <2>6. g[next[r]] # h[next[r]]
    BY <1>2, <2>3, <2>4
  <2>7. m[next[r]] \in Bad
    BY <2>3, <2>5, <2>6
  <2>8. QED
    BY <2>2, <2>5, <2>7
<1> DEFINE G == [n \in Nat |-> CHOOSE g : Upto(g, n)]
           h == [r \in R |-> G[m[r] + 1][r]]
<1>3. \A n \in Nat : Upto(G[n], n)
  BY <1>1
<1> HIDE DEF G
<1>4. ASSUME NEW r \in R PROVE h[r] = IF r \in stops THEN r ELSE h[next[r]]
  <2> DEFINE n == m[r] + 1
  <2>1. n \in Nat /\ m[r] < n
    OBVIOUS
  <2>2. G[n][r] = IF r \in stops THEN r ELSE G[n][next[r]]
    BY <1>3, <2>1
  <2>3. CASE r \in stops
    BY <2>2, <2>3
  <2>4. CASE r \notin stops
    <3> DEFINE k == m[next[r]] + 1
    <3>1. next[r] \in R /\ m[next[r]] \in Nat /\ m[next[r]] < n /\ k \in Nat
          /\ m[next[r]] < k
      BY <2>1, <2>4
    <3>2. Upto(G[n], n) /\ Upto(G[k], k)
      BY <1>3, <2>1, <3>1
    <3> HIDE DEF n, k, Upto
    <3>3. G[n][next[r]] = G[k][next[r]]
      BY <1>2, <2>1, <3>1, <3>2
    <3>4. h[next[r]] = G[k][next[r]] /\ h[r] = G[n][r]
      BY <3>1 DEF n, k
    <3>5. QED
      BY <2>2, <2>4, <3>3, <3>4
  <2>5. QED
    BY <2>3, <2>4
<1>5. h \in [R -> R]
  BY <1>3
<1> HIDE DEF h
<1>6. QED
  BY <1>4, <1>5 DEF Loops
-----------------------------------------------------------------------------
(* Counting positions.                                                     *)

\* One position more.
LEMMA CountNext ==
  ASSUME NEW S
  PROVE  /\ Count(S, 0) = 0
         /\ \A i \in Nat : /\ Count(S, i) \in Nat
                           /\ Count(S, i + 1) = Count(S, i) + (IF i + 1 \in S THEN 1 ELSE 0)
<1>1. S \cap (1 .. 0) = {}
  OBVIOUS
<1>2. Count(S, 0) = 0
  BY <1>1, FS_EmptySet DEF Count
<1>3. ASSUME NEW i \in Nat
      PROVE  /\ IsFiniteSet(S \cap (1 .. i)) /\ Count(S, i) \in Nat
             /\ Count(S, i + 1) = Count(S, i) + (IF i + 1 \in S THEN 1 ELSE 0)
  <2> DEFINE U == S \cap (1 .. i)
             V == S \cap (1 .. i + 1)
  <2>1. IsFiniteSet(1 .. i)
    BY FS_Interval
  <2>2. IsFiniteSet(U) /\ Cardinality(U) \in Nat
    BY <2>1, FS_Subset, FS_CardinalityType
  <2>3. V = IF i + 1 \in S THEN U \cup {i + 1} ELSE U
    OBVIOUS
  <2>4. i + 1 \notin U
    OBVIOUS
  <2> HIDE DEF U, V
  <2>5. Cardinality(U \cup {i + 1}) = Cardinality(U) + 1
    BY <2>2, <2>4, FS_AddElement
  <2>6. Cardinality(V) = Cardinality(U) + (IF i + 1 \in S THEN 1 ELSE 0)
    BY <2>2, <2>3, <2>5
  <2>7. QED
    BY <2>2, <2>6 DEF Count, U, V
<1>4. QED
  BY <1>2, <1>3

LEMMA CountType ==
  ASSUME NEW S
  PROVE  Count(S, 0) = 0 /\ \A i \in Nat : Count(S, i) \in Nat
  BY CountNext

LEMMA CountStep ==
  ASSUME NEW S, NEW i \in Nat
  PROVE  /\ Count(S, i) \in Nat
         /\ i + 1 \in S => Count(S, i + 1) = Count(S, i) + 1
         /\ i + 1 \notin S => Count(S, i + 1) = Count(S, i)
<1>1. Count(S, i) \in Nat
  BY CountType
<1>2. Count(S, i + 1) = Count(S, i) + (IF i + 1 \in S THEN 1 ELSE 0)
  BY CountNext
<1>3. QED
  BY <1>1, <1>2

\* Sets with the same positions up to i.
LEMMA CountSame ==
  ASSUME NEW S, NEW T, NEW i \in Nat, \A j \in 1 .. i : j \in S <=> j \in T
  PROVE  Count(S, i) = Count(T, i)
<1>1. S \cap (1 .. i) = T \cap (1 .. i)
  OBVIOUS
<1>2. QED
  BY <1>1 DEF Count

\* The positions behind a, counted from there.
LEMMA CountShift ==
  ASSUME NEW S, NEW T, NEW a \in Nat, NEW n \in Nat,
         {j \in 1 .. n : a + j \in S} = T \cap (1 .. n)
  PROVE  \A j \in 0 .. n : Count(S, a + j) = Count(S, a) + Count(T, j)
<1> DEFINE N == {j \in Nat : j <= n => Count(S, a + j) = Count(S, a) + Count(T, j)}
<1>1. 0 \in N
  <2>1. a + 0 = a
    OBVIOUS
  <2>2. Count(S, a) \in Nat /\ Count(T, 0) = 0
    BY CountType
  <2>3. Count(S, a + 0) = Count(S, a)
    BY <2>1
  <2>4. Count(S, a) = Count(S, a) + Count(T, 0)
    BY <2>2
  <2>5. QED
    BY <2>3, <2>4
<1>2. ASSUME NEW j \in Nat, j \in N PROVE j + 1 \in N
  <2> SUFFICES ASSUME j + 1 <= n PROVE Count(S, a + (j + 1)) = Count(S, a) + Count(T, j + 1)
    OBVIOUS
  <2>1. j + 1 \in 1 .. n /\ a + (j + 1) = (a + j) + 1 /\ a + j \in Nat /\ j <= n
    OBVIOUS
  <2>2. Count(S, a + j) = Count(S, a) + Count(T, j)
    BY <1>2, <2>1
  <2>3. a + (j + 1) \in S <=> j + 1 \in T
    BY <2>1
  <2>4. /\ Count(S, (a + j) + 1) = Count(S, a + j) + (IF (a + j) + 1 \in S THEN 1 ELSE 0)
        /\ Count(T, j + 1) = Count(T, j) + (IF j + 1 \in T THEN 1 ELSE 0)
        /\ Count(S, a) \in Nat /\ Count(T, j) \in Nat
    BY <2>1, CountNext
  <2>5. Count(S, a + (j + 1)) = Count(S, a + j) + (IF j + 1 \in T THEN 1 ELSE 0)
    BY <2>1, <2>3, <2>4
  <2>6. QED
    BY <2>2, <2>4, <2>5
<1>3. Nat \subseteq N
  <2> HIDE DEF N
  <2>1. QED
    BY <1>1, <1>2, AllNumbers
<1>4. QED
  BY <1>3

\* More positions are not fewer, and a position of the set counts.
LEMMA CountGrows ==
  ASSUME NEW S, NEW i \in Nat, NEW j \in Nat, i <= j
  PROVE  /\ Count(S, i) <= Count(S, j)
         /\ (\E x \in S : x \in Int /\ i < x /\ x <= j) => Count(S, i) < Count(S, j)
<1> DEFINE U == S \cap (1 .. i)
           V == S \cap (1 .. j)
<1>1. IsFiniteSet(1 .. j)
  BY FS_Interval
<1>2. IsFiniteSet(V)
  BY <1>1, FS_Subset
<1>3. U \in SUBSET V
  OBVIOUS
<1>4. /\ Cardinality(U) <= Cardinality(V) /\ Cardinality(U) \in Nat /\ Cardinality(V) \in Nat
      /\ Cardinality(U) = Cardinality(V) => U = V
  <2> HIDE DEF U, V
  <2>1. QED
    BY <1>2, <1>3, FS_Subset, FS_CardinalityType
<1>5. (\E x \in S : x \in Int /\ i < x /\ x <= j) => U # V
  OBVIOUS
<1>6. QED
  BY <1>4, <1>5 DEF Count

\* The positions of a set are numbered from 1 on, and no two the same.
LEMMA CountNumbers ==
  ASSUME NEW n \in Nat, NEW K \in SUBSET (1 .. n)
  PROVE  /\ Cardinality(K) = Count(K, n)
         /\ \A i \in K : Count(K, i) \in 1 .. Count(K, n)
         /\ \A i \in K, j \in K : Count(K, i) = Count(K, j) => i = j
         /\ \A k \in 1 .. Count(K, n) : \E i \in K : Count(K, i) = k
<1>1. Cardinality(K) = Count(K, n)
  <2>1. K \cap (1 .. n) = K
    OBVIOUS
  <2>2. QED
    BY <2>1 DEF Count
<1>2. \A i \in K : Count(K, i) \in 1 .. Count(K, n)
  <2> SUFFICES ASSUME NEW i \in K PROVE Count(K, i) \in 1 .. Count(K, n)
    OBVIOUS
  <2>1. i \in Nat /\ 0 < i /\ i <= n
    OBVIOUS
  <2>2. Count(K, 0) < Count(K, i)
    BY <2>1, CountGrows
  <2>3. Count(K, i) <= Count(K, n)
    BY <2>1, CountGrows
  <2>4. Count(K, 0) = 0 /\ Count(K, i) \in Nat /\ Count(K, n) \in Nat
    BY <2>1, CountType
  <2>5. QED
    BY <2>2, <2>3, <2>4
<1>3. \A i \in K, j \in K : i < j => Count(K, i) < Count(K, j)
  <2> SUFFICES ASSUME NEW i \in K, NEW j \in K, i < j PROVE Count(K, i) < Count(K, j)
    OBVIOUS
  <2>1. i \in Nat /\ j \in Nat /\ i <= j /\ j \in Int
    OBVIOUS
  <2>2. QED
    BY <2>1, CountGrows
<1>4. \A i \in K, j \in K : Count(K, i) = Count(K, j) => i = j
  <2> SUFFICES ASSUME NEW i \in K, NEW j \in K, Count(K, i) = Count(K, j) PROVE i = j
    OBVIOUS
  <2>1. ~(i < j) /\ ~(j < i)
    <3>1. i \in Nat /\ Count(K, i) \in Nat
      BY CountType
    <3>2. ~(Count(K, i) < Count(K, j)) /\ ~(Count(K, j) < Count(K, i))
      BY <3>1
    <3>3. QED
      BY <1>3, <3>2
  <2>2. QED
    BY <2>1
<1>5. ASSUME NEW k \in 1 .. Count(K, n) PROVE \E i \in K : Count(K, i) = k
  <2> DEFINE T == {i \in Nat : k <= Count(K, i)}
  <2>1. n \in T
    OBVIOUS
  <2>2. PICK i \in T : \A j \in T : i <= j
    <3>1. T \in SUBSET Nat /\ T # {}
      BY <2>1
    <3> HIDE DEF T
    <3>2. QED
      BY <3>1, LeastNumber
  <2>3. i # 0
    BY CountNext
  <2>4. i - 1 \in Nat /\ i - 1 \notin T /\ (i - 1) + 1 = i
    BY <2>2, <2>3
  <2>5. /\ Count(K, i - 1) \in Nat /\ Count(K, i) \in Nat /\ Count(K, i - 1) < k
        /\ Count(K, i) = Count(K, i - 1) + (IF i \in K THEN 1 ELSE 0)
    <3>1. Count(K, i - 1) \in Nat /\ Count(K, i) \in Nat
      BY <2>4, CountNext
    <3>2. ~(k <= Count(K, i - 1))
      BY <2>4
    <3>3. Count(K, (i - 1) + 1) = Count(K, i - 1) + (IF (i - 1) + 1 \in K THEN 1 ELSE 0)
      BY <2>4, CountNext
    <3>4. k \in Nat
      BY CountNext
    <3>5. QED
      BY <2>4, <3>1, <3>2, <3>3, <3>4
  <2>6. i \in K /\ Count(K, i) = k
    BY <2>2, <2>5
  <2>7. QED
    BY <2>6
<1>6. QED
  BY <1>1, <1>2, <1>4, <1>5

\* S has the positions in K, up to n, whose numbers in K are in T.
Numbered(n, K, S, T) ==
  /\ S \subseteq K
  /\ \A i \in 1 .. n : i \in K => (i \in S <=> Count(K, i) \in T)

\* Such positions are counted by their numbers.
LEMMA CountAmong ==
  ASSUME NEW n \in Nat, NEW K, NEW S, NEW T, Numbered(n, K, S, T)
  PROVE  \A i \in 0 .. n : Count(S, i) = Count(T, Count(K, i))
<1> DEFINE N == {i \in Nat : i <= n => Count(S, i) = Count(T, Count(K, i))}
<1>1. 0 \in N
  BY CountNext
<1>2. ASSUME NEW i \in Nat, i \in N PROVE i + 1 \in N
  <2> SUFFICES ASSUME i + 1 <= n PROVE Count(S, i + 1) = Count(T, Count(K, i + 1))
    OBVIOUS
  <2>1. i + 1 \in 1 .. n /\ Count(S, i) = Count(T, Count(K, i))
    BY <1>2
  <2>2. /\ Count(K, i) \in Nat
        /\ Count(K, i + 1) = Count(K, i) + (IF i + 1 \in K THEN 1 ELSE 0)
        /\ Count(S, i + 1) = Count(S, i) + (IF i + 1 \in S THEN 1 ELSE 0)
        /\ Count(S, i) \in Nat
    BY CountNext
  <2>3. CASE i + 1 \in K
    <3> DEFINE k == Count(K, i)
    <3>1. k \in Nat /\ Count(K, i + 1) = k + 1 /\ (i + 1 \in S <=> k + 1 \in T)
      BY <2>1, <2>2, <2>3 DEF Numbered
    <3> HIDE DEF k
    <3>2. Count(T, k + 1) = Count(T, k) + (IF k + 1 \in T THEN 1 ELSE 0)
      BY <3>1, CountNext
    <3>3. QED
      BY <2>1, <2>2, <3>1, <3>2 DEF k
  <2>4. CASE i + 1 \notin K
    <3>1. i + 1 \notin S
      BY <2>4 DEF Numbered
    <3>2. Count(K, i + 1) = Count(K, i) /\ Count(S, i + 1) = Count(S, i)
      BY <2>2, <2>4, <3>1
    <3>3. QED
      BY <2>1, <3>2
  <2>5. QED
    BY <2>3, <2>4
<1>3. Nat \subseteq N
  <2> HIDE DEF N
  <2>1. QED
    BY <1>1, <1>2, AllNumbers
<1>4. QED
  BY <1>3

-----------------------------------------------------------------------------
(* The characters that are not blanks.                                     *)

Text(s) == {i \in DOMAIN s : s[i] # "blank"}

Squeeze(s) ==
  [k \in 1 .. Cardinality(Text(s)) |-> s[CHOOSE i \in Text(s) : Count(Text(s), i) = k]]

\* Where the characters of s are in Squeeze(s).
LEMMA SqueezeAt ==
  ASSUME NEW s \in Seq(Char)
  PROVE  /\ Squeeze(s) \in Seq(Char) /\ Len(Squeeze(s)) = Count(Text(s), Len(s))
         /\ \A k \in 1 .. Len(Squeeze(s)) : \E i \in Text(s) : Count(Text(s), i) = k
         /\ \A i \in Text(s) : /\ Count(Text(s), i) \in 1 .. Len(Squeeze(s))
                               /\ Squeeze(s)[Count(Text(s), i)] = s[i]
<1> DEFINE n == Len(s)
           K == Text(s)
           at(k) == CHOOSE i \in K : Count(K, i) = k
           L == Cardinality(K)
<1>1. n \in Nat /\ K \in SUBSET (1 .. n) /\ \A i \in K : s[i] \in Char
  <2>1. n \in Nat /\ DOMAIN s = 1 .. n /\ \A i \in 1 .. n : s[i] \in Char
    OBVIOUS
  <2> HIDE DEF n
  <2>2. QED
    BY <2>1 DEF Text
<1>2. Squeeze(s) = [k \in 1 .. L |-> s[at(k)]]
  BY DEF Squeeze
<1> HIDE DEF K, n, L
<1>3. /\ L = Count(K, n)
      /\ \A i \in K : Count(K, i) \in 1 .. L
      /\ \A i \in K, j \in K : Count(K, i) = Count(K, j) => i = j
      /\ \A k \in 1 .. L : \E i \in K : Count(K, i) = k
  <2>1. L = Count(K, n)
    BY <1>1, CountNumbers DEF L
  <2>2. QED
    BY <1>1, <2>1, CountNumbers, Zenon
<1>4. L \in Nat
  BY <1>1, <1>3, CountType
<1>5. \A k \in 1 .. L : at(k) \in K /\ Count(K, at(k)) = k
  BY <1>3
<1>6. \A i \in K : at(Count(K, i)) = i
  BY <1>3, <1>5
<1> HIDE DEF at
<1>7. \A k \in 1 .. L : s[at(k)] \in Char
  BY <1>1, <1>5
<1>8. Squeeze(s) \in Seq(Char) /\ Len(Squeeze(s)) = L
  BY <1>2, <1>4, <1>7
<1>9. \A i \in K : Squeeze(s)[Count(K, i)] = s[i]
  BY <1>2, <1>3, <1>6
<1>10. QED
  BY <1>3, <1>8, <1>9 DEF K, n

\* A sequence with those characters at those places is Squeeze(s).
LEMMA SqueezeIs ==
  ASSUME NEW s \in Seq(Char), NEW t \in Seq(Char), Len(t) = Count(Text(s), Len(s)),
         \A i \in Text(s) : t[Count(Text(s), i)] = s[i]
  PROVE  t = Squeeze(s)
<1>1. /\ Squeeze(s) \in Seq(Char) /\ Len(Squeeze(s)) = Len(t)
      /\ \A k \in 1 .. Len(t) : \E i \in Text(s) : Count(Text(s), i) = k
      /\ \A i \in Text(s) : Squeeze(s)[Count(Text(s), i)] = s[i]
  BY SqueezeAt
<1>2. \A k \in 1 .. Len(t) : t[k] = Squeeze(s)[k]
  BY <1>1
<1>3. QED
  BY <1>1, <1>2, SeqEqual

\* The characters of a concatenation.
LEMMA Joined ==
  ASSUME NEW s \in Seq(Char), NEW t \in Seq(Char)
  PROVE  /\ s \o t \in Seq(Char) /\ Len(s \o t) = Len(s) + Len(t)
         /\ Len(s) \in Nat /\ Len(t) \in Nat
         /\ \A i \in 1 .. Len(s) : (s \o t)[i] = s[i]
         /\ \A j \in 1 .. Len(t) : (s \o t)[Len(s) + j] = t[j]
  OBVIOUS

\* The text of a concatenation, and its numbers.
LEMMA TextJoin ==
  ASSUME NEW s \in Seq(Char), NEW t \in Seq(Char)
  PROVE  /\ \A i \in 1 .. Len(s) : i \in Text(s \o t) <=> i \in Text(s)
         /\ \A j \in 1 .. Len(t) : Len(s) + j \in Text(s \o t) <=> j \in Text(t)
         /\ \A i \in 0 .. Len(s) : Count(Text(s \o t), i) = Count(Text(s), i)
         /\ \A j \in 0 .. Len(t) : Count(Text(s \o t), Len(s) + j)
                                     = Count(Text(s), Len(s)) + Count(Text(t), j)
<1> DEFINE u == s \o t
           n == Len(s)
           l == Len(t)
<1>1. /\ n \in Nat /\ l \in Nat /\ Len(u) = n + l /\ u \in Seq(Char)
      /\ \A i \in 1 .. n : u[i] = s[i]
      /\ \A j \in 1 .. l : u[n + j] = t[j]
  OBVIOUS
<1>2. DOMAIN s = 1 .. n /\ DOMAIN t = 1 .. l /\ DOMAIN u = 1 .. n + l
  BY <1>1
<1> HIDE DEF u, n, l
<1>3. \A i \in 1 .. n : i \in Text(u) <=> i \in Text(s)
  <2>1. \A i \in 1 .. n : i \in 1 .. n + l
    BY <1>1
  <2>2. QED
    BY <1>1, <1>2, <2>1 DEF Text
<1>4. \A j \in 1 .. l : n + j \in Text(u) <=> j \in Text(t)
  <2>1. \A j \in 1 .. l : n + j \in 1 .. n + l
    BY <1>1
  <2>2. QED
    BY <1>1, <1>2, <2>1 DEF Text
<1>5. \A i \in 0 .. n : Count(Text(u), i) = Count(Text(s), i)
  <2> SUFFICES ASSUME NEW i \in 0 .. n PROVE Count(Text(u), i) = Count(Text(s), i)
    OBVIOUS
  <2>1. i \in Nat /\ \A j \in 1 .. i : j \in 1 .. n
    BY <1>1
  <2>2. \A j \in 1 .. i : j \in Text(u) <=> j \in Text(s)
    BY <1>3, <2>1
  <2>3. QED
    BY <2>1, <2>2, CountSame
<1>6. \A j \in 0 .. l : Count(Text(u), n + j) = Count(Text(u), n) + Count(Text(t), j)
  <2> DEFINE U == Text(u)
             T == Text(t)
  <2>1. {j \in 1 .. l : n + j \in U} = T \cap (1 .. l)
    BY <1>4
  <2> HIDE DEF U, T
  <2>2. n \in Nat /\ l \in Nat
    BY <1>1
  <2>3. \A j \in 0 .. l : Count(U, n + j) = Count(U, n) + Count(T, j)
    BY <2>1, <2>2, CountShift
  <2>4. QED
    BY <2>3 DEF U, T
<1>7. n \in 0 .. n
  BY <1>1
<1>8. Count(Text(u), n) = Count(Text(s), n)
  BY <1>5, <1>7
<1>9. QED
  BY <1>3, <1>4, <1>5, <1>6, <1>8 DEF u, n, l

LEMMA SqueezeJoin ==
  ASSUME NEW s \in Seq(Char), NEW t \in Seq(Char)
  PROVE  Squeeze(s \o t) = Squeeze(s) \o Squeeze(t)
<1> DEFINE u == s \o t
           p == Squeeze(s)
           q == Squeeze(t)
           n == Len(s)
           l == Len(t)
           x == Count(Text(s), n)
           y == Count(Text(t), l)
<1>1. /\ n \in Nat /\ l \in Nat /\ Len(u) = n + l /\ u \in Seq(Char)
      /\ \A i \in 1 .. n : u[i] = s[i]
      /\ \A j \in 1 .. l : u[n + j] = t[j]
      /\ DOMAIN u = 1 .. n + l
  OBVIOUS
<1>2. x \in Nat /\ y \in Nat
  BY <1>1, CountType
<1>3. p \in Seq(Char) /\ Len(p) = x /\ q \in Seq(Char) /\ Len(q) = y
  BY SqueezeAt
<1>4. \A i \in Text(s) : Count(Text(s), i) \in 1 .. x /\ p[Count(Text(s), i)] = s[i]
  BY <1>3, SqueezeAt
<1>5. \A j \in Text(t) : Count(Text(t), j) \in 1 .. y /\ q[Count(Text(t), j)] = t[j]
  BY <1>3, SqueezeAt
<1>6. Text(u) \subseteq 1 .. n + l
  BY <1>1 DEF Text
<1>7. /\ \A i \in 1 .. n : i \in Text(u) <=> i \in Text(s)
      /\ \A j \in 1 .. l : n + j \in Text(u) <=> j \in Text(t)
      /\ \A i \in 0 .. n : Count(Text(u), i) = Count(Text(s), i)
      /\ \A j \in 0 .. l : Count(Text(u), n + j) = x + Count(Text(t), j)
  BY TextJoin
<1> HIDE DEF u, p, q, n, l, x, y
<1>8. /\ p \o q \in Seq(Char) /\ Len(p \o q) = x + y
      /\ \A i \in 1 .. x : (p \o q)[i] = p[i]
      /\ \A j \in 1 .. y : (p \o q)[x + j] = q[j]
  BY <1>3, Joined
<1>9. Count(Text(u), n + l) = x + y
  <2>1. l \in 0 .. l /\ y = Count(Text(t), l)
    BY <1>1 DEF y
  <2>2. QED
    BY <1>7, <2>1
<1>10. ASSUME NEW i \in Text(u) PROVE (p \o q)[Count(Text(u), i)] = u[i]
  <2>1. i \in 1 .. n + l
    BY <1>6
  <2>2. CASE i <= n
    <3>1. i \in 1 .. n /\ i \in 0 .. n
      BY <1>1, <2>1, <2>2
    <3>2. i \in Text(s) /\ Count(Text(u), i) = Count(Text(s), i) /\ u[i] = s[i]
      BY <1>1, <1>7, <3>1
    <3>3. QED
      BY <1>4, <1>8, <3>2
  <2>3. CASE n < i
    <3> DEFINE j == i - n
    <3>1. j \in 1 .. l /\ j \in 0 .. l /\ i = n + j
      BY <1>1, <2>1, <2>3
    <3> HIDE DEF j
    <3>2. j \in Text(t) /\ Count(Text(u), i) = x + Count(Text(t), j) /\ u[i] = t[j]
      BY <1>1, <1>7, <3>1
    <3>3. QED
      BY <1>5, <1>8, <3>2
  <2>4. i <= n \/ n < i
    BY <1>1, <2>1
  <2>5. QED
    BY <2>2, <2>3, <2>4
<1>11. p \o q = Squeeze(u)
  <2> DEFINE w == p \o q
  <2>1. /\ w \in Seq(Char) /\ Len(w) = Count(Text(u), Len(u)) /\ u \in Seq(Char)
        /\ \A i \in Text(u) : w[Count(Text(u), i)] = u[i]
    BY <1>1, <1>8, <1>9, <1>10
  <2> HIDE DEF w
  <2>2. w = Squeeze(u)
    BY <2>1, SqueezeIs
  <2>3. QED
    BY <2>2 DEF w
<1>12. QED
  BY <1>11 DEF u, p, q

\* Nothing is left of blanks, and something of everything else.
LEMMA SqueezeBlank ==
  ASSUME NEW s \in Seq(Char)
  PROVE  Squeeze(s) = <<>> <=> Text(s) = {}
<1>1. /\ \A k \in 1 .. Len(Squeeze(s)) : \E i \in Text(s) : Count(Text(s), i) = k
      /\ \A i \in Text(s) : Count(Text(s), i) \in 1 .. Len(Squeeze(s))
      /\ Squeeze(s) \in Seq(Char)
  BY SqueezeAt
<1>2. Squeeze(s) = <<>> <=> Len(Squeeze(s)) = 0
  BY <1>1
<1>3. Len(Squeeze(s)) = 0 <=> 1 .. Len(Squeeze(s)) = {}
  BY <1>1
<1>4. QED
  BY <1>1, <1>2, <1>3

\* The first of some characters, and what they leave.
LEMMA Cut ==
  ASSUME NEW s \in Seq(Char), NEW n \in 0 .. Len(s)
  PROVE  /\ SubSeq(s, 1, n) \in Seq(Char) /\ Len(SubSeq(s, 1, n)) = n
         /\ \A i \in 1 .. n : SubSeq(s, 1, n)[i] = s[i]
         /\ SubSeq(s, n + 1, Len(s)) \in Seq(Char)
         /\ Len(SubSeq(s, n + 1, Len(s))) = Len(s) - n
         /\ \A i \in 1 .. Len(s) - n : SubSeq(s, n + 1, Len(s))[i] = s[n + i]
         /\ SubSeq(s, 1, n) \o SubSeq(s, n + 1, Len(s)) = s
<1> DEFINE L == Len(s)
           p == SubSeq(s, 1, n)
           q == SubSeq(s, n + 1, L)
<1>1. L \in Nat /\ n \in Nat /\ n <= L /\ \A i \in 1 .. L : s[i] \in Char
  OBVIOUS
<1> HIDE DEF L
<1>2. p \in Seq(Char) /\ Len(p) = n /\ \A i \in 1 .. n : p[i] = s[i]
  OBVIOUS
<1>3. q \in Seq(Char) /\ Len(q) = L - n /\ \A i \in 1 .. L - n : q[i] = s[n + i]
  <2>1. \A i \in n + 1 .. L : s[i] \in Char
    BY <1>1
  <2>2. /\ q \in Seq(Char) /\ Len(q) = IF n + 1 <= L THEN L - (n + 1) + 1 ELSE 0
        /\ \A i \in 1 .. L - (n + 1) + 1 : q[i] = s[n + 1 + i - 1]
    BY <1>1, <2>1, SubSeqProperties
  <2> HIDE DEF q
  <2>3. Len(q) = L - n /\ L - (n + 1) + 1 = L - n
    BY <1>1, <2>2
  <2>4. \A i \in 1 .. L - n : n + 1 + i - 1 = n + i
    BY <1>1
  <2>5. QED
    BY <2>2, <2>3, <2>4
<1> HIDE DEF p, q
<1>4. p \o q = s
  <2>1. p \o q \in Seq(Char) /\ Len(p \o q) = L
    <3>1. n + (L - n) = L
      BY <1>1
    <3>2. p \o q \in Seq(Char) /\ Len(p \o q) = n + (L - n)
      BY <1>2, <1>3, Joined
    <3>3. QED
      BY <3>1, <3>2
  <2>2. ASSUME NEW i \in 1 .. L PROVE (p \o q)[i] = s[i]
    <3>1. CASE i <= n
      <4>1. i \in 1 .. n
        BY <1>1, <3>1
      <4>2. QED
        BY <1>2, <1>3, <4>1
    <3>2. CASE n < i
      <4>1. i - n \in 1 .. L - n /\ n + (i - n) = i
        BY <1>1, <3>2
      <4>2. (p \o q)[n + (i - n)] = q[i - n]
        BY <1>2, <1>3, <4>1, Joined
      <4>3. q[i - n] = s[n + (i - n)]
        BY <1>3, <4>1
      <4>4. QED
        BY <4>1, <4>2, <4>3
    <3>3. i <= n \/ n < i
      BY <1>1
    <3>4. QED
      BY <3>1, <3>2, <3>3
  <2>3. QED
    BY <2>1, <2>2, SeqEqual DEF L
<1>5. QED
  BY <1>2, <1>3, <1>4 DEF L, p, q

-----------------------------------------------------------------------------
(* Quotes and braces.                                                      *)

Quotes(s) == {j \in DOMAIN s : s[j] = "quote"}

QuoteCount(s) == Count(Quotes(s), Len(s))

Braces(s, c) == {j \in DOMAIN s : s[j] = c} \ InString(s)

\* The depth where every quote toggles inString, which is the count of the code.
Level(s, i) == Count(Braces(s, "open"), i) - Count(Braces(s, "close"), i)

\* Positions where two sequences have the same strings and braces.
LEMMA Alike ==
  ASSUME NEW s \in Seq(Char), NEW t \in Seq(Char), NEW i \in 1 .. Len(s), NEW k \in 1 .. Len(t),
         s[i] = t[k], Count(Quotes(s), i) = Count(Quotes(t), k)
  PROVE  /\ i \in Quotes(s) <=> k \in Quotes(t)
         /\ i \in InString(s) <=> k \in InString(t)
         /\ i \in Braces(s, "open") <=> k \in Braces(t, "open")
         /\ i \in Braces(s, "close") <=> k \in Braces(t, "close")
<1>1. i \in DOMAIN s /\ k \in DOMAIN t
  OBVIOUS
<1>2. i \in Quotes(s) <=> k \in Quotes(t)
  BY <1>1 DEF Quotes
<1>3. i \in InString(s) <=> k \in InString(t)
  BY <1>1, Zenon DEF InString, Quotes
<1>4. ASSUME NEW c PROVE i \in Braces(s, c) <=> k \in Braces(t, c)
  BY <1>1, <1>3 DEF Braces
<1>5. QED
  BY <1>2, <1>3, <1>4, Zenon

\* Up to a place the strings and the braces depend on the characters up to there.
LEMMA LevelPrefix ==
  ASSUME NEW s \in Seq(Char), NEW t \in Seq(Char), NEW n \in Nat, n <= Len(s), n <= Len(t),
         \A i \in 1 .. n : s[i] = t[i]
  PROVE  /\ \A i \in 0 .. n : Count(Quotes(s), i) = Count(Quotes(t), i)
         /\ \A i \in 0 .. n : Level(s, i) = Level(t, i)
         /\ \A i \in 1 .. n : i \in InString(s) <=> i \in InString(t)
<1>1. \A i \in 1 .. n : i \in 1 .. Len(s) /\ i \in 1 .. Len(t)
  OBVIOUS
<1>2. \A i \in 1 .. n : i \in Quotes(s) <=> i \in Quotes(t)
  <2>1. DOMAIN s = 1 .. Len(s) /\ DOMAIN t = 1 .. Len(t)
    OBVIOUS
  <2>2. QED
    BY <1>1, <2>1 DEF Quotes
<1>3. \A i \in 0 .. n : i \in Nat /\ \A j \in 1 .. i : j \in 1 .. n
  OBVIOUS
<1>4. \A i \in 0 .. n : Count(Quotes(s), i) = Count(Quotes(t), i)
  <2> SUFFICES ASSUME NEW i \in 0 .. n PROVE Count(Quotes(s), i) = Count(Quotes(t), i)
    OBVIOUS
  <2>1. \A j \in 1 .. i : j \in Quotes(s) <=> j \in Quotes(t)
    BY <1>2, <1>3
  <2>2. QED
    BY <1>3, <2>1, CountSame
<1>5. \A i \in 1 .. n : /\ i \in InString(s) <=> i \in InString(t)
                        /\ i \in Braces(s, "open") <=> i \in Braces(t, "open")
                        /\ i \in Braces(s, "close") <=> i \in Braces(t, "close")
  <2> SUFFICES ASSUME NEW i \in 1 .. n
               PROVE  /\ i \in InString(s) <=> i \in InString(t)
                      /\ i \in Braces(s, "open") <=> i \in Braces(t, "open")
                      /\ i \in Braces(s, "close") <=> i \in Braces(t, "close")
    OBVIOUS
  <2>1. /\ i \in 1 .. Len(s) /\ i \in 1 .. Len(t) /\ s[i] = t[i]
        /\ Count(Quotes(s), i) = Count(Quotes(t), i)
    BY <1>1, <1>4
  <2>2. QED
    BY <2>1, Alike
<1>6. \A i \in 0 .. n : Level(s, i) = Level(t, i)
  <2> SUFFICES ASSUME NEW i \in 0 .. n PROVE Level(s, i) = Level(t, i)
    OBVIOUS
  <2>1. ASSUME NEW c \in {"open", "close"} PROVE Count(Braces(s, c), i) = Count(Braces(t, c), i)
    <3>1. \A j \in 1 .. i : j \in Braces(s, c) <=> j \in Braces(t, c)
      BY <1>3, <1>5
    <3>2. QED
      BY <1>3, <3>1, CountSame
  <2>2. QED
    BY <2>1 DEF Level
<1>7. QED
  BY <1>4, <1>5, <1>6

\* Blanks change neither.
LEMMA LevelSqueeze ==
  ASSUME NEW s \in Seq(Char)
  PROVE  /\ \A i \in 0 .. Len(s) :
              /\ Count(Quotes(s), i) = Count(Quotes(Squeeze(s)), Count(Text(s), i))
              /\ Level(s, i) = Level(Squeeze(s), Count(Text(s), i))
         /\ \A i \in Text(s) : i \in InString(s) <=> Count(Text(s), i) \in InString(Squeeze(s))
<1> DEFINE t == Squeeze(s)
           K == Text(s)
           n == Len(s)
<1>1. /\ n \in Nat /\ K \subseteq 1 .. n /\ K \subseteq DOMAIN s
      /\ \A i \in DOMAIN s : i \notin K => s[i] = "blank"
  <2>1. DOMAIN s = 1 .. n /\ n \in Nat
    OBVIOUS
  <2>2. QED
    BY <2>1 DEF Text
<1>2. t \in Seq(Char) /\ \A i \in K : Count(K, i) \in 1 .. Len(t) /\ t[Count(K, i)] = s[i]
  BY SqueezeAt
<1> HIDE DEF t, K, n
<1>3. \A i \in 1 .. n : i \in K => (i \in Quotes(s) <=> Count(K, i) \in Quotes(t))
  <2>1. DOMAIN t = 1 .. Len(t)
    BY <1>2
  <2>2. QED
    BY <1>1, <1>2, <2>1 DEF Quotes
<1>4. Quotes(s) \subseteq K
  BY <1>1 DEF Quotes
<1>5. \A i \in 0 .. n : Count(Quotes(s), i) = Count(Quotes(t), Count(K, i))
  <2> DEFINE S == Quotes(s)
             T == Quotes(t)
  <2>1. Numbered(n, K, S, T)
    BY <1>3, <1>4 DEF Numbered
  <2> HIDE DEF S, T
  <2>2. \A i \in 0 .. n : Count(S, i) = Count(T, Count(K, i))
    BY <1>1, <2>1, CountAmong
  <2>3. QED
    BY <2>2 DEF S, T
<1>6. \A i \in K : /\ i \in InString(s) <=> Count(K, i) \in InString(t)
                   /\ i \in Braces(s, "open") <=> Count(K, i) \in Braces(t, "open")
                   /\ i \in Braces(s, "close") <=> Count(K, i) \in Braces(t, "close")
  <2> SUFFICES ASSUME NEW i \in K
               PROVE  /\ i \in InString(s) <=> Count(K, i) \in InString(t)
                      /\ i \in Braces(s, "open") <=> Count(K, i) \in Braces(t, "open")
                      /\ i \in Braces(s, "close") <=> Count(K, i) \in Braces(t, "close")
    OBVIOUS
  <2> DEFINE k == Count(K, i)
  <2>1. /\ i \in 1 .. Len(s) /\ k \in 1 .. Len(t) /\ s[i] = t[k]
        /\ Count(Quotes(s), i) = Count(Quotes(t), k)
    <3>1. i \in 1 .. n /\ i \in 0 .. n
      BY <1>1
    <3>2. QED
      BY <1>2, <1>5, <3>1 DEF n
  <2> HIDE DEF k
  <2>2. /\ i \in InString(s) <=> k \in InString(t)
        /\ i \in Braces(s, "open") <=> k \in Braces(t, "open")
        /\ i \in Braces(s, "close") <=> k \in Braces(t, "close")
    BY <1>2, <2>1, Alike
  <2>3. QED
    BY <2>2 DEF k
<1>7. ASSUME NEW c \in {"open", "close"}
      PROVE  \A i \in 0 .. n : Count(Braces(s, c), i) = Count(Braces(t, c), Count(K, i))
  <2> DEFINE S == Braces(s, c)
             T == Braces(t, c)
  <2>1. S \in SUBSET K
    BY <1>1 DEF Braces
  <2>2. Numbered(n, K, S, T)
    BY <1>6, <2>1 DEF Numbered
  <2> HIDE DEF S, T
  <2>3. \A i \in 0 .. n : Count(S, i) = Count(T, Count(K, i))
    BY <1>1, <2>2, CountAmong
  <2>4. QED
    BY <2>3 DEF S, T
<1>8. \A i \in 0 .. n : Level(s, i) = Level(t, Count(K, i))
  BY <1>7 DEF Level
<1>9. QED
  BY <1>5, <1>6, <1>8 DEF t, K, n

LEMMA QuoteCountType ==
  ASSUME NEW s \in Seq(Char)
  PROVE  QuoteCount(s) \in Nat /\ \A i \in Nat : Count(Quotes(s), i) \in Nat
<1>1. Len(s) \in Nat
  OBVIOUS
<1>2. \A i \in Nat : Count(Quotes(s), i) \in Nat
  BY CountType
<1>3. QED
  BY <1>1, <1>2 DEF QuoteCount

LEMMA QuoteCountSqueeze ==
  ASSUME NEW s \in Seq(Char)
  PROVE  QuoteCount(s) = QuoteCount(Squeeze(s))
<1>1. Len(s) \in 0 .. Len(s)
  OBVIOUS
<1>2. Len(Squeeze(s)) = Count(Text(s), Len(s))
  BY SqueezeAt
<1>3. QED
  BY <1>1, <1>2, LevelSqueeze DEF QuoteCount

\* The quotes of a concatenation.
LEMMA QuotesJoin ==
  ASSUME NEW s \in Seq(Char), NEW t \in Seq(Char)
  PROVE  /\ \A i \in 0 .. Len(s) : Count(Quotes(s \o t), i) = Count(Quotes(s), i)
         /\ \A j \in 0 .. Len(t) : Count(Quotes(s \o t), Len(s) + j)
                                     = QuoteCount(s) + Count(Quotes(t), j)
         /\ QuoteCount(s \o t) = QuoteCount(s) + QuoteCount(t)
<1> DEFINE u == s \o t
           n == Len(s)
           l == Len(t)
<1>1. /\ n \in Nat /\ l \in Nat /\ u \in Seq(Char) /\ Len(u) = n + l
      /\ \A i \in 1 .. n : u[i] = s[i]
      /\ \A j \in 1 .. l : u[n + j] = t[j]
  BY Joined
<1>2. DOMAIN t = 1 .. l /\ DOMAIN u = 1 .. n + l
  BY <1>1
<1> HIDE DEF u, n, l
<1>3. \A i \in 0 .. n : Count(Quotes(u), i) = Count(Quotes(s), i)
  <2>1. n <= Len(u) /\ n <= Len(s) /\ \A i \in 1 .. n : u[i] = s[i]
    BY <1>1 DEF n
  <2>2. QED
    BY <1>1, <2>1, LevelPrefix
<1>4. \A j \in 0 .. l : Count(Quotes(u), n + j) = Count(Quotes(u), n) + Count(Quotes(t), j)
  <2> DEFINE U == Quotes(u)
             T == Quotes(t)
  <2>1. \A j \in 1 .. l : n + j \in 1 .. n + l
    BY <1>1
  <2>2. {j \in 1 .. l : n + j \in U} = T \cap (1 .. l)
    BY <1>1, <1>2, <2>1 DEF Quotes
  <2> HIDE DEF U, T
  <2>3. \A j \in 0 .. l : Count(U, n + j) = Count(U, n) + Count(T, j)
    BY <1>1, <2>2, CountShift
  <2>4. QED
    BY <2>3 DEF U, T
<1>5. n \in 0 .. n /\ l \in 0 .. l
  BY <1>1
<1>6. Count(Quotes(u), n) = QuoteCount(s)
  BY <1>3, <1>5 DEF QuoteCount, n
<1>7. QuoteCount(u) = QuoteCount(s) + QuoteCount(t)
  BY <1>1, <1>4, <1>5, <1>6 DEF QuoteCount, l
<1>8. QED
  BY <1>3, <1>4, <1>6, <1>7 DEF u, n, l

-----------------------------------------------------------------------------
(* Objects with and without blanks.                                        *)

\* Behind q quotes: no blank of s is in a string.
Outside(q, s) ==
  \A i \in 1 .. Len(s) : s[i] = "blank" => (q + Count(Quotes(s), i)) % 2 = 0

LEMMA OutsideJoin ==
  ASSUME NEW s \in Seq(Char), NEW t \in Seq(Char), NEW q \in Nat
  PROVE  Outside(q, s \o t) <=> Outside(q, s) /\ Outside(q + QuoteCount(s), t)
<1> DEFINE u == s \o t
           n == Len(s)
           l == Len(t)
           x == QuoteCount(s)
<1>1. /\ n \in Nat /\ l \in Nat /\ Len(u) = n + l
      /\ \A i \in 1 .. n : u[i] = s[i]
      /\ \A j \in 1 .. l : u[n + j] = t[j]
  BY Joined
<1>2. /\ \A i \in 0 .. n : Count(Quotes(u), i) = Count(Quotes(s), i)
      /\ \A j \in 0 .. l : Count(Quotes(u), n + j) = x + Count(Quotes(t), j)
  BY QuotesJoin
<1>3. x \in Nat /\ \A j \in 1 .. l : Count(Quotes(t), j) \in Nat
  BY QuoteCountType
<1> HIDE DEF u, n, l, x
<1>4. \A j \in 1 .. l : q + (x + Count(Quotes(t), j)) = (q + x) + Count(Quotes(t), j)
  BY <1>3
<1>5. /\ \A i \in 1 .. n : i \in 0 .. n /\ i \in 1 .. n + l
      /\ \A j \in 1 .. l : j \in 0 .. l /\ n + j \in 1 .. n + l
      /\ \A i \in 1 .. n + l : i \in 1 .. n \/ (i - n \in 1 .. l /\ n + (i - n) = i)
  BY <1>1
<1>6. ASSUME Outside(q, u) PROVE Outside(q, s) /\ Outside(q + x, t)
  <2>1. Outside(q, s)
    BY <1>1, <1>2, <1>5, <1>6 DEF Outside, n
  <2>2. ASSUME NEW j \in 1 .. l, t[j] = "blank" PROVE ((q + x) + Count(Quotes(t), j)) % 2 = 0
    <3>1. u[n + j] = "blank" /\ n + j \in 1 .. Len(u)
      BY <1>1, <1>5, <2>2
    <3>2. (q + Count(Quotes(u), n + j)) % 2 = 0
      BY <1>6, <3>1 DEF Outside
    <3>3. Count(Quotes(u), n + j) = x + Count(Quotes(t), j)
      BY <1>2, <1>5
    <3>4. QED
      BY <1>4, <3>2, <3>3
  <2>3. QED
    BY <2>1, <2>2 DEF Outside, l
<1>7. ASSUME Outside(q, s), Outside(q + x, t) PROVE Outside(q, u)
  <2> SUFFICES ASSUME NEW i \in 1 .. n + l, u[i] = "blank"
               PROVE  (q + Count(Quotes(u), i)) % 2 = 0
    BY <1>1 DEF Outside
  <2>1. CASE i \in 1 .. n
    BY <1>1, <1>2, <1>5, <1>7, <2>1 DEF Outside, n
  <2>2. CASE i - n \in 1 .. l /\ n + (i - n) = i
    <3> DEFINE j == i - n
    <3>1. j \in 1 .. l /\ n + j = i /\ j \in 0 .. l
      BY <1>5, <2>2
    <3> HIDE DEF j
    <3>2. t[j] = "blank" /\ Count(Quotes(u), i) = x + Count(Quotes(t), j)
      BY <1>1, <1>2, <3>1
    <3>3. ((q + x) + Count(Quotes(t), j)) % 2 = 0
      BY <1>7, <3>1, <3>2 DEF Outside, l
    <3>4. QED
      BY <1>4, <3>1, <3>2, <3>3
  <2>3. QED
    BY <1>5, <2>1, <2>2
<1>8. QED
  BY <1>6, <1>7 DEF u, x

\* Whole pairs of quotes more or less.
LEMMA EvenMore ==
  ASSUME NEW x \in Nat, NEW r \in Nat, x % 2 = 0
  PROVE  (x + r) % 2 = r % 2
<1> DEFINE h == x \div 2
           d == r \div 2
<1>1. h \in Nat /\ x = 2 * h
  OBVIOUS
<1>2. d \in Nat /\ r = 2 * d + (r % 2) /\ r % 2 \in 0 .. 1
  OBVIOUS
<1> HIDE DEF h, d
<1>3. x + r = 2 * (h + d) + (r % 2) /\ h + d \in Nat
  BY <1>1, <1>2
<1>4. (2 * (h + d) + (r % 2)) % 2 = r % 2
  BY <1>2, <1>3
<1>5. QED
  BY <1>3, <1>4

LEMMA OutsideEven ==
  ASSUME NEW s \in Seq(Char), NEW q \in Nat, NEW x \in Nat, x % 2 = 0
  PROVE  Outside(x + q, s) <=> Outside(q, s)
<1>1. \A i \in 1 .. Len(s) : Count(Quotes(s), i) \in Nat
  BY QuoteCountType
<1>2. ASSUME NEW c \in Nat PROVE ((x + q) + c) % 2 = (q + c) % 2
  <2>1. q + c \in Nat /\ (x + q) + c = x + (q + c)
    OBVIOUS
  <2>2. (x + (q + c)) % 2 = (q + c) % 2
    BY <2>1, EvenMore
  <2>3. QED
    BY <2>1, <2>2
<1>3. QED
  BY <1>1, <1>2 DEF Outside

\* A plain object, by what the code looks at.
Proper(s) ==
  /\ Len(s) > 1 /\ s[1] = "open"
  /\ \A i \in 1 .. Len(s) : Level(s, i) = 0 <=> i = Len(s)
  /\ \A i \in 1 .. Len(s) : s[i] = "backslash" => i \in InString(s)
  /\ \A i \in 1 .. Len(s) : s[i] = "backslash" /\ i < Len(s) => s[i + 1] # "quote"
  /\ \A i \in 1 .. Len(s) : s[i] = "blank" => i \notin InString(s)

\* Escaped is a function that satisfies its definition.
LEMMA EscapedAt ==
  ASSUME NEW s \in Seq(Char), NEW i \in 0 .. Len(s)
  PROVE  Escaped(s)[i] = (i > 1 /\ s[i - 1] = "backslash" /\ ~Escaped(s)[i - 1])
<1> DEFINE n == Len(s)
           value(f, j) == j > 1 /\ s[j - 1] = "backslash" /\ ~f[j - 1]
           T == {l \in Nat : \E f : f = [j \in 0 .. l |-> value(f, j)]}
<1>1. 0 \in T
  <2> DEFINE f == [j \in 0 .. 0 |-> FALSE]
  <2>1. f = [j \in 0 .. 0 |-> value(f, j)]
    <3>1. \A j \in 0 .. 0 : ~(j > 1)
      OBVIOUS
    <3> HIDE DEF f
    <3>2. \A j \in 0 .. 0 : value(f, j) = FALSE
      BY <3>1
    <3>3. QED
      BY <3>2 DEF f
  <2>2. QED
    BY <2>1
<1>2. ASSUME NEW l \in Nat, l \in T PROVE l + 1 \in T
  <2>1. PICK f : f = [j \in 0 .. l |-> value(f, j)]
    BY <1>2
  <2> DEFINE g == [j \in 0 .. l + 1 |-> IF j = l + 1 THEN value(f, j) ELSE f[j]]
  <2>2. ASSUME NEW j \in 0 .. l + 1 PROVE g[j] = value(g, j)
    <3>1. CASE j = l + 1
      <4>1. g[j] = value(f, j) /\ j - 1 \in 0 .. l + 1 /\ j - 1 # l + 1
        BY <3>1
      <4>2. g[j - 1] = f[j - 1]
        BY <4>1
      <4> HIDE DEF g
      <4>3. QED
        BY <4>1, <4>2
    <3>2. CASE j # l + 1
      <4>1. j \in 0 .. l /\ g[j] = f[j]
        BY <3>2
      <4>2. f[j] = value(f, j)
        BY <2>1, <4>1
      <4>3. j > 1 => g[j - 1] = f[j - 1]
        BY <4>1
      <4> HIDE DEF g
      <4>4. QED
        BY <4>1, <4>2, <4>3
    <3>3. QED
      BY <3>1, <3>2
  <2>3. g = [j \in 0 .. l + 1 |-> g[j]]
    OBVIOUS
  <2> HIDE DEF g
  <2>4. g = [j \in 0 .. l + 1 |-> value(g, j)]
    BY <2>2, <2>3
  <2> HIDE DEF value
  <2>5. QED
    BY <2>4
<1>3. n \in T
  <2>1. n \in Nat
    OBVIOUS
  <2> HIDE DEF T, n
  <2>2. Nat \subseteq T
    BY <1>1, <1>2, AllNumbers
  <2>3. QED
    BY <2>1, <2>2
<1>4. \E f : f = [j \in 0 .. n |-> value(f, j)]
  BY <1>3
<1>5. Escaped(s) = [j \in 0 .. n |-> value(Escaped(s), j)]
  BY <1>4 DEF Escaped
<1>6. QED
  BY <1>5


\* For the code's quotes and those of JSON are the same where none is escaped.
LEMMA ProperIs ==
  ASSUME NEW s \in Seq(Char)
  PROVE  /\ Proper(s) <=> IsObject(s) /\ Plain(s)
         /\ Proper(s) => JsonValue(s) = Squeeze(s)
<1> DEFINE n == Len(s)
           plain == \A i \in 1 .. n : s[i] = "backslash" /\ i < n => s[i + 1] # "quote"
<1>1. n \in Nat /\ DOMAIN s = 1 .. n
  OBVIOUS
<1>2. ASSUME plain PROVE InJsonString(s) = InString(s)
  <2>1. ASSUME NEW i \in DOMAIN s, s[i] = "quote" PROVE ~Escaped(s)[i]
    <3>1. i \in 0 .. n
      BY <1>1
    <3>2. Escaped(s)[i] = (i > 1 /\ s[i - 1] = "backslash" /\ ~Escaped(s)[i - 1])
      BY <3>1, EscapedAt
    <3>3. ASSUME i > 1 PROVE s[i - 1] # "backslash"
      <4>1. i - 1 \in 1 .. n /\ i - 1 < n /\ (i - 1) + 1 = i
        BY <1>1, <3>3
      <4>2. QED
        BY <1>2, <2>1, <4>1
    <3>4. QED
      BY <3>2, <3>3
  <2>2. {i \in DOMAIN s : s[i] = "quote" /\ ~Escaped(s)[i]} = {j \in DOMAIN s : s[j] = "quote"}
    BY <2>1
  <2>3. QED
    BY <2>2 DEF InJsonString, InString
<1>3. \A i : Depth(s, i, InString(s)) = Level(s, i)
  BY DEF Depth, Level, Braces
<1>4. Proper(s) => plain
  BY DEF Proper
<1>5. Plain(s) => plain
  BY <1>1 DEF Plain
<1>6. ASSUME plain PROVE Proper(s) <=> IsObject(s) /\ Plain(s)
  <2>1. InJsonString(s) = InString(s)
    BY <1>2, <1>6
  <2>2. IsObject(s) <=> /\ n > 1 /\ s[1] = "open"
                        /\ \A i \in 1 .. n : Level(s, i) = 0 <=> i = n
                        /\ \A i \in 1 .. n : s[i] = "backslash" => i \in InString(s)
    BY <1>1, <1>3, <2>1 DEF IsObject
  <2>3. Plain(s) <=> \A i \in 1 .. n : s[i] = "blank" => i \notin InString(s)
    BY <1>1, <1>6, <2>1 DEF Plain
  <2>4. QED
    BY <1>6, <2>2, <2>3 DEF Proper
<1>7. ASSUME Proper(s) PROVE JsonValue(s) = Squeeze(s)
  <2>1. InJsonString(s) = InString(s)
    BY <1>2, <1>4, <1>7
  <2>2. InString(s) \subseteq DOMAIN s /\ \A i \in DOMAIN s : s[i] = "blank" => i \notin InString(s)
    BY <1>1, <1>7 DEF Proper, InString
  <2>3. {i \in DOMAIN s : s[i] # "blank"} \cup InJsonString(s) = Text(s)
    BY <2>1, <2>2 DEF Text
  <2> DEFINE kept == {i \in DOMAIN s : s[i] # "blank"} \cup InJsonString(s)
             Ranked(K) == [k \in 1 .. Cardinality(K) |-> s[CHOOSE i \in K : Count(K, i) = k]]
  <2>4. JsonValue(s) = Ranked(kept) /\ Squeeze(s) = Ranked(Text(s))
    BY DEF JsonValue, Squeeze
  <2>5. kept = Text(s)
    BY <2>3
  <2> HIDE DEF kept, Ranked
  <2>6. QED
    BY <2>4, <2>5
<1>8. QED
  BY <1>4, <1>5, <1>6, <1>7

\* An object ends with a brace behind all its strings, and blanks are in none.
LEMMA ProperEnd ==
  ASSUME NEW s \in Seq(Char), Proper(s)
  PROVE  /\ s[Len(s)] # "blank" /\ QuoteCount(s) % 2 = 0
         /\ Outside(0, s)
<1> DEFINE n == Len(s)
           A == Braces(s, "open")
           B == Braces(s, "close")
<1>1. n \in Nat /\ n > 1 /\ DOMAIN s = 1 .. n
  BY DEF Proper
<1>2. Level(s, n) = 0 /\ Level(s, n - 1) # 0
  <2>1. \A i \in 1 .. n : Level(s, i) = 0 <=> i = n
    BY DEF Proper
  <2> HIDE DEF n
  <2>2. n \in 1 .. n /\ n - 1 \in 1 .. n /\ n - 1 # n
    BY <1>1
  <2>3. QED
    BY <2>1, <2>2, Zenon
<1>3. Level(s, n) = Count(A, n) - Count(B, n) /\ Level(s, n - 1) = Count(A, n - 1) - Count(B, n - 1)
  BY DEF Level
<1>4. ASSUME NEW S, n \notin S PROVE Count(S, n) = Count(S, n - 1)
  <2>1. n - 1 \in Nat /\ (n - 1) + 1 = n
    BY <1>1
  <2>2. /\ Count(S, (n - 1) + 1) = Count(S, n - 1) + (IF (n - 1) + 1 \in S THEN 1 ELSE 0)
        /\ Count(S, n - 1) \in Nat
    BY <2>1, CountNext
  <2>3. QED
    BY <1>4, <2>1, <2>2
<1> HIDE DEF n
<1>5. n \in A \/ n \in B
  <2> HIDE DEF A, B
  <2>1. QED
    BY <1>2, <1>3, <1>4
<1>6. n \notin InString(s) /\ s[n] # "blank"
  BY <1>5 DEF Braces
<1>7. Count(Quotes(s), n) % 2 # 1
  BY <1>1, <1>6 DEF InString, Quotes
<1>8. \A i \in 1 .. n : Count(Quotes(s), i) \in Nat
  BY QuoteCountType
<1>9. QuoteCount(s) % 2 = 0
  <2>1. Count(Quotes(s), n) \in Nat
    BY <1>1, <1>8
  <2>2. Count(Quotes(s), n) % 2 = 0
    BY <1>7, <2>1
  <2>3. QED
    BY <2>2 DEF QuoteCount, n
<1>10. ASSUME NEW i \in 1 .. n, s[i] = "blank" PROVE (0 + Count(Quotes(s), i)) % 2 = 0
  <2>1. i \notin InString(s)
    BY <1>10 DEF Proper, n
  <2>2. Count(Quotes(s), i) % 2 # 1
    BY <1>1, <2>1 DEF InString, Quotes
  <2>3. Count(Quotes(s), i) \in Nat
    BY <1>8
  <2>4. QED
    BY <2>2, <2>3
<1>11. QED
  BY <1>6, <1>9, <1>10 DEF Outside, n


\* Without its blanks an object is as plain as with them, if no blank is in a string.
LEMMA ProperSqueeze ==
  ASSUME NEW s \in Seq(Char), Len(s) > 0, s[1] # "blank", s[Len(s)] # "blank", Outside(0, s)
  PROVE  Proper(s) <=> Proper(Squeeze(s))
<1> DEFINE n == Len(s)
           t == Squeeze(s)
           l == Len(t)
           K == Text(s)
           N(i) == Count(K, i)
<1>1. n \in Nat /\ n > 0 /\ DOMAIN s = 1 .. n
  OBVIOUS
<1>2. /\ t \in Seq(Char) /\ l \in Nat /\ l = N(n)
      /\ \A k \in 1 .. l : \E i \in K : N(i) = k
      /\ \A i \in K : N(i) \in 1 .. l /\ t[N(i)] = s[i]
  BY SqueezeAt
<1>3. /\ K \subseteq 1 .. n /\ 1 \in K /\ n \in K
      /\ \A i \in 1 .. n : i \in K <=> s[i] # "blank"
  <2>1. n \in 1 .. n /\ 1 \in 1 .. n /\ s[n] # "blank"
    <3>1. s[n] # "blank"
      OBVIOUS
    <3> HIDE DEF n
    <3>2. QED
      BY <1>1, <3>1
  <2> HIDE DEF n
  <2>2. QED
    BY <1>1, <2>1 DEF Text
<1>4. /\ \A i \in 0 .. n : /\ Count(Quotes(s), i) = Count(Quotes(t), N(i))
                           /\ Level(s, i) = Level(t, N(i))
      /\ \A i \in K : i \in InString(s) <=> N(i) \in InString(t)
  BY LevelSqueeze
<1>5. \A i \in 1 .. n : s[i] = "blank" => i \notin InString(s)
  <2> SUFFICES ASSUME NEW i \in 1 .. n, s[i] = "blank" PROVE i \notin InString(s)
    OBVIOUS
  <2>1. (0 + Count(Quotes(s), i)) % 2 = 0
    BY DEF Outside
  <2>2. Count(Quotes(s), i) \in Nat
    BY <1>1, QuoteCountType
  <2>3. Count(Quotes(s), i) % 2 # 1
    BY <2>1, <2>2
  <2>4. QED
    BY <2>3 DEF InString, Quotes
<1> HIDE DEF n, t, l, K
<1>6. /\ \A i \in 1 .. n : i \in Nat /\ N(i) \in Nat
      /\ \A i \in 1 .. n, j \in 1 .. n : i <= j => N(i) <= N(j)
      /\ \A i \in 1 .. n : i < n => N(i) < N(n)
      /\ N(1) = 1
  <2>1. ASSUME NEW i \in 1 .. n PROVE i \in Nat /\ N(i) \in Nat
    <3>1. i \in Nat
      BY <1>1
    <3>2. QED
      BY <3>1, CountStep, Zenon
  <2>2. ASSUME NEW i \in 1 .. n, NEW j \in 1 .. n, i <= j PROVE N(i) <= N(j)
    BY <2>1, <2>2, CountGrows
  <2>3. ASSUME NEW i \in 1 .. n, i < n PROVE N(i) < N(n)
    <3>1. i \in Nat /\ n \in Nat /\ i <= n /\ n \in Int /\ n \in K /\ n <= n
      BY <1>1, <1>3, <2>3
    <3>2. \E x \in K : x \in Int /\ i < x /\ x <= n
      BY <2>3, <3>1
    <3>3. QED
      BY <3>1, <3>2, CountGrows
  <2>4. N(1) = 1
    <3>1. 0 + 1 = 1 /\ 0 \in Nat
      OBVIOUS
    <3>2. Count(K, 0) = 0 /\ Count(K, 0 + 1) = Count(K, 0) + (IF 0 + 1 \in K THEN 1 ELSE 0)
      BY <3>1, CountNext
    <3>3. QED
      BY <1>3, <3>1, <3>2
  <2>5. QED
    BY <2>1, <2>2, <2>3, <2>4
<1>7. \A i \in 1 .. n : N(i) \in 1 .. l /\ (N(i) = l <=> i = n)
  <2> SUFFICES ASSUME NEW i \in 1 .. n PROVE N(i) \in 1 .. l /\ (N(i) = l <=> i = n)
    OBVIOUS
  <2> HIDE DEF N
  <2>1. 1 \in 1 .. n /\ n \in 1 .. n /\ 1 <= i /\ i <= n /\ (i # n => i < n)
    BY <1>1
  <2>2. N(1) <= N(i) /\ N(i) <= N(n) /\ (i # n => N(i) < N(n)) /\ N(i) \in Nat
    BY <1>6, <2>1
  <2>3. QED
    BY <1>2, <1>6, <2>2
<1>8. n > 1 <=> l > 1
  <2> HIDE DEF N
  <2>1. 1 \in 1 .. n
    BY <1>1
  <2>2. N(1) = l <=> 1 = n
    BY <1>7, <2>1
  <2>3. QED
    BY <1>1, <1>2, <1>6, <1>7, <2>1, <2>2
<1>9. s[1] = t[1]
  BY <1>2, <1>3, <1>6
<1>10. (\A i \in 1 .. n : Level(s, i) = 0 <=> i = n) <=> (\A k \in 1 .. l : Level(t, k) = 0 <=> k = l)
  <2> HIDE DEF N
  <2>1. ASSUME NEW i \in 1 .. n PROVE Level(s, i) = Level(t, N(i))
    <3>1. i \in 0 .. n
      OBVIOUS
    <3>2. QED
      BY <1>4, <3>1
  <2>2. ASSUME \A k \in 1 .. l : Level(t, k) = 0 <=> k = l, NEW i \in 1 .. n
        PROVE  Level(s, i) = 0 <=> i = n
    BY <1>7, <2>1, <2>2
  <2>3. ASSUME \A i \in 1 .. n : Level(s, i) = 0 <=> i = n, NEW k \in 1 .. l
        PROVE  Level(t, k) = 0 <=> k = l
    <3>1. PICK i \in K : N(i) = k
      BY <1>2
    <3>2. i \in 1 .. n
      BY <1>3
    <3>3. QED
      BY <1>7, <2>1, <2>3, <3>1, <3>2
  <2>4. QED
    BY <2>2, <2>3
<1>11. (\A i \in 1 .. n : s[i] = "backslash" => i \in InString(s))
         <=> (\A k \in 1 .. l : t[k] = "backslash" => k \in InString(t))
  <2> HIDE DEF N
  <2>1. ASSUME \A k \in 1 .. l : t[k] = "backslash" => k \in InString(t), NEW i \in 1 .. n,
               s[i] = "backslash"
        PROVE  i \in InString(s)
    <3>1. i \in K
      BY <1>3, <2>1
    <3>2. QED
      BY <1>2, <1>4, <2>1, <3>1
  <2>2. ASSUME \A i \in 1 .. n : s[i] = "backslash" => i \in InString(s), NEW k \in 1 .. l,
               t[k] = "backslash"
        PROVE  k \in InString(t)
    <3>1. PICK i \in K : N(i) = k
      BY <1>2
    <3>2. s[i] = "backslash" /\ i \in 1 .. n
      BY <1>2, <1>3, <2>2, <3>1
    <3>3. QED
      BY <1>4, <2>2, <3>1, <3>2
  <2>3. QED
    BY <2>1, <2>2
<1>12. \A k \in 1 .. l : t[k] # "blank"
  <2> SUFFICES ASSUME NEW k \in 1 .. l PROVE t[k] # "blank"
    OBVIOUS
  <2>1. PICK i \in K : N(i) = k
    BY <1>2
  <2>2. QED
    BY <1>2, <1>3, <2>1, SMTT(60)
<1>13. \A i \in 1 .. n : i < n /\ i \in K /\ i + 1 \in K => N(i + 1) = N(i) + 1
  BY <1>6, CountNext
<1>14. ASSUME \A k \in 1 .. l : t[k] = "backslash" /\ k < l => t[k + 1] # "quote",
              NEW i \in 1 .. n, s[i] = "backslash", i < n
       PROVE  s[i + 1] # "quote"
  <2> SUFFICES ASSUME s[i + 1] = "quote" PROVE FALSE
    OBVIOUS
  <2>1. i + 1 \in 1 .. n
    BY <1>1, <1>14
  <2>2. i \in K /\ i + 1 \in K
    BY <1>3, <1>14, <2>1
  <2>3. N(i + 1) = N(i) + 1
    BY <1>13, <1>14, <2>2
  <2> HIDE DEF N
  <2>4. N(i) \in 1 .. l /\ N(i + 1) \in 1 .. l /\ t[N(i)] = "backslash" /\ t[N(i + 1)] = "quote"
    BY <1>2, <1>14, <2>2
  <2>5. N(i) < l
    BY <1>2, <2>3, <2>4
  <2>6. QED
    BY <1>14, <2>3, <2>4, <2>5
<1>15. ASSUME \A i \in 1 .. n : s[i] = "backslash" /\ i < n => s[i + 1] # "quote",
              \A i \in 1 .. n : s[i] = "backslash" => i \in InString(s),
              NEW k \in 1 .. l, t[k] = "backslash", k < l
       PROVE  t[k + 1] # "quote"
  <2> SUFFICES ASSUME t[k + 1] = "quote" PROVE FALSE
    OBVIOUS
  <2>1. k + 1 \in 1 .. l /\ k \in Nat
    BY <1>2, <1>15
  <2>2. PICK i \in K : N(i) = k
    BY <1>2
  <2>3. PICK j \in K : N(j) = k + 1
    BY <1>2, <2>1
  <2>4. i \in 1 .. n /\ j \in 1 .. n /\ s[i] = "backslash" /\ s[j] = "quote"
    BY <1>2, <1>3, <1>15, <2>2, <2>3
  <2>5. i < j /\ i + 1 \in 1 .. n /\ i < n
    <3>1. ~(j <= i)
      <4>1. j <= i => N(j) <= N(i)
        BY <1>6, <2>4
      <4>2. QED
        BY <2>1, <2>2, <2>3, <4>1
    <3>2. i \in Int /\ j \in Int /\ j <= n /\ 1 <= i
      BY <2>4
    <3>3. QED
      BY <1>1, <3>1, <3>2
  <2>6. s[i + 1] # "quote"
    BY <1>15, <2>4, <2>5
  <2>7. i + 1 \notin K
    <3> SUFFICES ASSUME i + 1 \in K PROVE FALSE
      OBVIOUS
    <3>1. N(i + 1) = k + 1
      BY <1>13, <2>2, <2>4, <2>5
    <3>2. i + 1 # j
      BY <2>4, <2>6
    <3>3. i + 1 < j /\ j \in Int /\ i + 1 \in Nat /\ j \in Nat
      BY <2>4, <2>5, <3>2
    <3>4. \E x \in K : x \in Int /\ i + 1 < x /\ x <= j
      BY <3>3
    <3>5. i + 1 <= j
      BY <3>3
    <3>6. N(i + 1) < N(j)
      BY <3>3, <3>4, <3>5, CountGrows
    <3>7. QED
      BY <2>1, <2>3, <3>1, <3>6
  <2>8. s[i + 1] = "blank"
    BY <1>3, <2>5, <2>7
  <2>9. (0 + Count(Quotes(s), i + 1)) % 2 = 0
    BY <2>5, <2>8 DEF Outside, n
  <2>10. Count(Quotes(s), i) % 2 = 1
    <3>1. i \in InString(s)
      BY <1>15, <2>4
    <3>2. QED
      BY <3>1 DEF InString, Quotes
  <2>11. Count(Quotes(s), i + 1) = Count(Quotes(s), i) /\ Count(Quotes(s), i) \in Nat
    <3>1. i + 1 \notin Quotes(s) /\ i \in Nat
      BY <2>4, <2>6 DEF Quotes
    <3>2. QED
      BY <3>1, CountStep, Zenon
  <2>12. QED
    BY <2>9, <2>10, <2>11
<1>16. Proper(s) => Proper(t)
  <2> SUFFICES ASSUME Proper(s) PROVE Proper(t)
    OBVIOUS
  <2>1. /\ n > 1 /\ s[1] = "open"
        /\ \A i \in 1 .. n : Level(s, i) = 0 <=> i = n
        /\ \A i \in 1 .. n : s[i] = "backslash" => i \in InString(s)
        /\ \A i \in 1 .. n : s[i] = "backslash" /\ i < n => s[i + 1] # "quote"
    BY DEF Proper, n
  <2>2. /\ l > 1 /\ t[1] = "open"
        /\ \A k \in 1 .. l : Level(t, k) = 0 <=> k = l
        /\ \A k \in 1 .. l : t[k] = "backslash" => k \in InString(t)
    BY <1>8, <1>9, <1>10, <1>11, <2>1, Zenon
  <2>3. \A k \in 1 .. l : t[k] = "backslash" /\ k < l => t[k + 1] # "quote"
    BY <1>15, <2>1, Zenon
  <2>4. \A k \in 1 .. l : t[k] = "blank" => k \notin InString(t)
    BY <1>12
  <2>5. QED
    BY <2>2, <2>3, <2>4, Zenon DEF Proper, l
<1>17. Proper(t) => Proper(s)
  <2> SUFFICES ASSUME Proper(t) PROVE Proper(s)
    OBVIOUS
  <2>1. /\ l > 1 /\ t[1] = "open"
        /\ \A k \in 1 .. l : Level(t, k) = 0 <=> k = l
        /\ \A k \in 1 .. l : t[k] = "backslash" => k \in InString(t)
        /\ \A k \in 1 .. l : t[k] = "backslash" /\ k < l => t[k + 1] # "quote"
    BY DEF Proper, l
  <2>2. /\ n > 1 /\ s[1] = "open"
        /\ \A i \in 1 .. n : Level(s, i) = 0 <=> i = n
        /\ \A i \in 1 .. n : s[i] = "backslash" => i \in InString(s)
    BY <1>8, <1>9, <1>10, <1>11, <2>1, Zenon
  <2>3. \A i \in 1 .. n : s[i] = "backslash" /\ i < n => s[i + 1] # "quote"
    BY <1>14, <2>1, Zenon
  <2>4. QED
    BY <1>5, <2>2, <2>3, Zenon DEF Proper, n
<1>18. QED
  BY <1>16, <1>17 DEF t

-----------------------------------------------------------------------------
(* The code that reads.                                                    *)

LEMMA Least ==
  ASSUME NEW n \in Nat, NEW T \in SUBSET (1 .. n), T # {}
  PROVE  Min(T) \in T /\ \A y \in T : Min(T) <= y
<1>1. \E x \in T : \A y \in T : x <= y
  <2>1. T \in SUBSET Nat
    OBVIOUS
  <2>2. QED
    BY <2>1, LeastNumber
<1>2. Min(T) = CHOOSE x \in T : \A y \in T : x <= y
  BY DEF Min
<1>3. QED
  BY <1>1, <1>2, Zenon

LEMMA Greatest ==
  ASSUME NEW n \in Nat, NEW T \in SUBSET (1 .. n), T # {}
  PROVE  Max(T) \in T /\ \A y \in T : y <= Max(T)
<1> DEFINE R == {n - x : x \in T}
<1>1. R \in SUBSET Nat /\ R # {}
  <2>1. \A x \in T : n - x \in Nat
    OBVIOUS
  <2>2. PICK x : x \in T
    OBVIOUS
  <2>3. n - x \in R
    BY <2>2
  <2>4. R \subseteq Nat
    BY <2>1
  <2>5. QED
    BY <2>3, <2>4
<1>2. PICK r \in R : \A y \in R : r <= y
  <2> HIDE DEF R
  <2>1. QED
    BY <1>1, LeastNumber
<1>3. PICK x \in T : r = n - x
  OBVIOUS
<1>4. \A y \in T : x >= y
  <2> SUFFICES ASSUME NEW y \in T PROVE x >= y
    OBVIOUS
  <2>1. n - x <= n - y
    BY <1>2, <1>3
  <2>2. QED
    BY <2>1
<1>5. Max(T) = CHOOSE m \in T : \A y \in T : m >= y
  BY DEF Max
<1>6. Max(T) \in T /\ \A y \in T : Max(T) >= y
  BY <1>4, <1>5, Zenon
<1>7. QED
  BY <1>6

\* Trim takes blanks away, and all of those in front.
LEMMA TrimIs ==
  ASSUME NEW s \in Seq(Char), NEW q \in Nat
  PROVE  /\ Trim(s) \in Seq(Char) /\ Len(Trim(s)) <= Len(s)
         /\ Squeeze(Trim(s)) = Squeeze(s)
         /\ Len(Trim(s)) > 0 => Trim(s)[1] # "blank"
         /\ Outside(q, s) => Outside(q, Trim(s))
<1> DEFINE n == Len(s)
           K == Text(s)
           t == Trim(s)
<1>1. n \in Nat /\ DOMAIN s = 1 .. n
  OBVIOUS
<1>2. K \subseteq 1 .. n /\ \A i \in 1 .. n : i \notin K => s[i] = "blank"
  BY <1>1 DEF Text
<1>3. CASE K = {}
  <2>1. t = <<>>
    BY <1>3 DEF Trim, Text
  <2>2. t \in Seq(Char) /\ Len(t) = 0 /\ Text(t) = {}
    BY <2>1 DEF Text
  <2> HIDE DEF t
  <2>3. Squeeze(t) = <<>> /\ Squeeze(s) = <<>>
    BY <1>3, <2>2, SqueezeBlank
  <2>4. Outside(q, t)
    BY <2>2 DEF Outside
  <2>5. QED
    BY <1>1, <2>2, <2>3, <2>4 DEF t
<1>4. CASE K # {}
  <2> DEFINE lo == Min(K)
             hi == Max(K)
             E == {n, lo + hi - 1}
             e == Min(E)
  <2> HIDE DEF K, n
  <2>1. lo \in K /\ (\A y \in K : lo <= y) /\ hi \in K /\ (\A y \in K : y <= hi)
    BY <1>1, <1>2, <1>4, Least, Greatest
  <2>2. lo \in 1 .. n /\ hi \in 1 .. n
    BY <1>2, <2>1
  <2> HIDE DEF lo, hi
  <2>3. e \in E /\ \A y \in E : e <= y
    <3>1. E # {} /\ E \in SUBSET Nat
      BY <1>1, <2>2
    <3>2. \E x \in E : \A y \in E : x <= y
      BY <3>1, LeastNumber
    <3> HIDE DEF E
    <3>3. QED
      BY <3>2, Zenon DEF Min
  <2>4. e \in 0 .. n /\ hi <= e /\ lo <= e /\ e \in Nat /\ lo - 1 \in 0 .. e
    <3> HIDE DEF e
    <3>1. n \in E /\ (e = n \/ e = lo + hi - 1) /\ e <= n
      BY <2>3
    <3>2. QED
      BY <1>1, <2>1, <2>2, <3>1
  <2>5. t = SubSeq(s, lo, e)
    BY <1>4 DEF Trim, Text, K, lo, hi, n
  <2> DEFINE p == SubSeq(s, 1, e)
             z == SubSeq(s, e + 1, n)
             a == SubSeq(p, 1, lo - 1)
             b == SubSeq(p, (lo - 1) + 1, Len(p))
  <2> HIDE DEF e, t
  <2>6. /\ p \in Seq(Char) /\ Len(p) = e /\ \A i \in 1 .. e : p[i] = s[i]
        /\ z \in Seq(Char) /\ Len(z) = n - e /\ \A i \in 1 .. n - e : z[i] = s[e + i]
        /\ p \o z = s
    BY <2>4, Cut DEF n
  <2> HIDE DEF p, z
  <2>7. /\ a \in Seq(Char) /\ Len(a) = lo - 1 /\ \A i \in 1 .. lo - 1 : a[i] = p[i]
        /\ b \in Seq(Char) /\ Len(b) = e - (lo - 1)
        /\ \A i \in 1 .. e - (lo - 1) : b[i] = p[(lo - 1) + i]
        /\ a \o b = p
    BY <2>4, <2>6, Cut, ZenonT(60)
  <2> HIDE DEF a, b
  <2>8. b = t
    <3> DEFINE w == SubSeq(s, lo, e)
    <3>1. \A i \in lo .. e : s[i] \in Char
      BY <1>1, <2>2, <2>4 DEF n
    <3>2. /\ w \in Seq(Char) /\ Len(w) = IF lo <= e THEN e - lo + 1 ELSE 0
          /\ \A i \in 1 .. e - lo + 1 : w[i] = s[lo + i - 1]
      BY <2>2, <2>4, <3>1, SubSeqProperties
    <3> HIDE DEF w
    <3>3. Len(w) = Len(b)
      BY <2>2, <2>4, <2>7, <3>2
    <3>4. ASSUME NEW i \in 1 .. Len(b) PROVE b[i] = w[i]
      <4>1. /\ i \in 1 .. e - (lo - 1) /\ i \in 1 .. e - lo + 1 /\ lo + i - 1 = (lo - 1) + i
            /\ (lo - 1) + i \in 1 .. e
        BY <2>2, <2>4, <2>7
      <4>2. b[i] = s[(lo - 1) + i]
        BY <2>6, <2>7, <4>1
      <4>3. QED
        BY <3>2, <4>1, <4>2
    <3>5. b = w
      BY <2>7, <3>2, <3>3, <3>4, SeqEqual
    <3>6. QED
      BY <2>5, <3>5 DEF w
  <2>9. Text(a) = {} /\ Text(z) = {}
    <3>1. ASSUME NEW i \in 1 .. Len(a) PROVE a[i] = "blank"
      <4>1. i \in 1 .. lo - 1 /\ i \in 1 .. e /\ i \in 1 .. n /\ i < lo
        BY <1>1, <2>2, <2>4, <2>7
      <4>2. i \notin K
        BY <2>1, <2>2, <4>1
      <4>3. QED
        BY <1>2, <2>6, <2>7, <4>1, <4>2
    <3>2. ASSUME NEW i \in 1 .. Len(z) PROVE z[i] = "blank"
      <4>1. i \in 1 .. n - e /\ e + i \in 1 .. n /\ hi < e + i
        BY <1>1, <2>2, <2>4, <2>6
      <4>2. e + i \notin K
        BY <2>1, <2>2, <4>1
      <4>3. QED
        BY <1>2, <2>6, <4>1, <4>2
    <3>3. DOMAIN a = 1 .. Len(a) /\ DOMAIN z = 1 .. Len(z)
      BY <2>6, <2>7
    <3>4. QED
      BY <3>1, <3>2, <3>3 DEF Text
  <2>10. Squeeze(a) = <<>> /\ Squeeze(z) = <<>>
    BY <2>6, <2>7, <2>9, SqueezeBlank
  <2>11. Squeeze(t) = Squeeze(s)
    <3>1. Squeeze(s) = Squeeze(p) \o <<>> /\ Squeeze(p) = <<>> \o Squeeze(b)
      <4>1. Squeeze(p \o z) = Squeeze(p) \o Squeeze(z)
        BY <2>6, SqueezeJoin
      <4>2. Squeeze(a \o b) = Squeeze(a) \o Squeeze(b)
        BY <2>7, SqueezeJoin
      <4>3. p \o z = s /\ a \o b = p
        BY <2>6, <2>7
      <4>4. QED
        BY <2>10, <4>1, <4>2, <4>3, Zenon
    <3>2. Squeeze(p) \in Seq(Char) /\ Squeeze(b) \in Seq(Char)
      BY <2>6, <2>7, SqueezeAt
    <3>3. Squeeze(p) \o <<>> = Squeeze(p) /\ <<>> \o Squeeze(b) = Squeeze(b)
      BY <3>2, ConcatEmptySeq
    <3>4. QED
      BY <2>8, <3>1, <3>3
  <2>12. t[1] # "blank"
    <3>1. 1 \in 1 .. e - (lo - 1) /\ (lo - 1) + 1 = lo /\ lo \in 1 .. e
      BY <2>2, <2>4
    <3>2. t[1] = s[lo]
      BY <2>6, <2>7, <2>8, <3>1
    <3>3. QED
      BY <2>1, <3>2 DEF K, Text
  <2>13. ASSUME Outside(q, s) PROVE Outside(q, t)
    <3>1. Outside(q, p)
      BY <2>6, <2>13, OutsideJoin
    <3>2. Outside(q + QuoteCount(a), b)
      BY <2>7, <3>1, OutsideJoin
    <3>3. QuoteCount(a) = 0
      <4>1. QuoteCount(a) = QuoteCount(<<>>)
        BY <2>7, <2>10, QuoteCountSqueeze
      <4>2. Len(<<>>) = 0
        OBVIOUS
      <4>3. QuoteCount(<<>>) = 0
        BY <4>2, CountType DEF QuoteCount
      <4>4. QED
        BY <4>1, <4>3
    <3>4. q + QuoteCount(a) = q
      BY <3>3
    <3>5. QED
      BY <2>8, <3>2, <3>4
  <2>14. t \in Seq(Char) /\ Len(t) <= n
    BY <1>1, <2>2, <2>4, <2>7, <2>8
  <2>15. QED
    BY <2>11, <2>12, <2>13, <2>14 DEF t, n
<1>5. QED
  BY <1>3, <1>4

\* A text that begins with no blank: every part of it has characters.
LEMMA SqueezeFrom ==
  ASSUME NEW s \in Seq(Char), Len(s) > 0, s[1] # "blank"
  PROVE  /\ \A i \in 1 .. Len(s) : Count(Text(s), i) \in 1 .. Len(Squeeze(s))
         /\ \A i \in 1 .. Len(s), j \in Text(s) : i < j => Count(Text(s), i) < Count(Text(s), j)
         /\ 1 \in Text(s) /\ Count(Text(s), 1) = 1
<1> DEFINE n == Len(s)
           K == Text(s)
           l == Len(Squeeze(s))
<1>1. n \in Nat /\ n > 0 /\ DOMAIN s = 1 .. n
  OBVIOUS
<1>2. K \subseteq 1 .. n /\ 1 \in K
  BY <1>1 DEF Text
<1>3. l = Count(K, n)
  BY SqueezeAt
<1> HIDE DEF n, K, l
<1>4. Count(K, 1) = 1
  <2>1. 0 + 1 \in K /\ 0 \in Nat /\ 0 + 1 = 1
    BY <1>2
  <2>2. Count(K, 0 + 1) = Count(K, 0) + 1
    BY <2>1, CountStep
  <2>3. Count(K, 0) = 0
    BY CountType
  <2>4. QED
    BY <2>1, <2>2, <2>3
<1>5. ASSUME NEW i \in 1 .. n PROVE Count(K, i) \in 1 .. l
  <2>1. i \in Nat /\ 1 \in Nat /\ 1 <= i /\ i <= n
    BY <1>1
  <2>2. Count(K, 1) <= Count(K, i)
    BY <2>1, CountGrows
  <2>3. Count(K, i) <= Count(K, n)
    BY <1>1, <2>1, CountGrows
  <2>4. Count(K, i) \in Nat /\ Count(K, n) \in Nat
    BY <1>1, <2>1, CountStep
  <2>5. QED
    BY <1>3, <1>4, <2>2, <2>3, <2>4
<1>6. ASSUME NEW i \in 1 .. n, NEW j \in K, i < j PROVE Count(K, i) < Count(K, j)
  <2>1. i \in Nat /\ j \in Nat /\ i <= j /\ j \in Int
    BY <1>1, <1>2, <1>6
  <2>2. \E x \in K : x \in Int /\ i < x /\ x <= j
    BY <1>6, <2>1
  <2>3. QED
    BY <2>1, <2>2, CountGrows
<1>7. QED
  BY <1>2, <1>4, <1>5, <1>6 DEF n, K, l

LEMMA Associative ==
  ASSUME NEW s \in Seq(Char), NEW t \in Seq(Char), NEW u \in Seq(Char)
  PROVE  (s \o t) \o u = s \o (t \o u)
  BY ConcatAssociative

LEMMA AssociativeValues ==
  ASSUME NEW s \in Seq(Seq(Char)), NEW t \in Seq(Seq(Char)), NEW u \in Seq(Seq(Char))
  PROVE  (s \o t) \o u = s \o (t \o u)
  OBVIOUS

\* What is in front of the same characters is the same.
LEMMA SameFront ==
  ASSUME NEW p \in Seq(Char), NEW x \in Seq(Char), NEW v \in Seq(Char), NEW w \in Seq(Char),
         p \o x = v \o w
  PROVE  /\ \A i \in 1 .. Len(p) : i <= Len(v) => p[i] = v[i]
         /\ p = v => x = w
         /\ Len(p) + Len(x) = Len(v) + Len(w)
<1> DEFINE u == p \o x
           n == Len(p)
           l == Len(v)
<1>1. /\ n \in Nat /\ Len(u) = n + Len(x) /\ Len(x) \in Nat
      /\ \A i \in 1 .. n : u[i] = p[i]
      /\ \A j \in 1 .. Len(x) : u[n + j] = x[j]
  BY Joined
<1>2. /\ l \in Nat /\ Len(u) = l + Len(w) /\ Len(w) \in Nat
      /\ \A i \in 1 .. l : u[i] = v[i]
      /\ \A j \in 1 .. Len(w) : u[l + j] = w[j]
  BY Joined
<1> HIDE DEF u, n, l
<1>3. \A i \in 1 .. n : i <= l => p[i] = v[i]
  <2>1. \A i \in 1 .. n : i <= l => i \in 1 .. l
    BY <1>1, <1>2
  <2>2. QED
    BY <1>1, <1>2, <2>1
<1>4. ASSUME p = v PROVE x = w
  <2>1. n = l
    BY <1>4 DEF n, l
  <2>2. Len(x) = Len(w)
    BY <1>1, <1>2, <2>1
  <2>3. \A j \in 1 .. Len(x) : x[j] = w[j]
    BY <1>1, <1>2, <2>1, <2>2
  <2>4. QED
    BY <2>2, <2>3, SeqEqual
<1>5. QED
  BY <1>1, <1>2, <1>3, <1>4 DEF n, l

LEMMA Cancel ==
  ASSUME NEW v \in Seq(Char), NEW x \in Seq(Char), NEW w \in Seq(Char), v \o x = v \o w
  PROVE  x = w
  BY SameFront

\* The end that is found is the end of the first object, if it is there.
LEMMA EndIs ==
  ASSUME NEW b \in Seq(Char), Len(b) > 0, b[1] # "blank",
         NEW x \in Seq(Char), NEW v \in Seq(Char), NEW w \in Seq(Char),
         Squeeze(b) \o x = v \o w, Proper(v)
  PROVE  /\ b[1] = "open"
         /\ Len(Squeeze(b)) < Len(v) => MessageEnd(b) = 0
         /\ Len(v) <= Len(Squeeze(b)) =>
              /\ MessageEnd(b) \in Text(b)
              /\ Count(Text(b), MessageEnd(b)) = Len(v)
<1> DEFINE n == Len(b)
           t == Squeeze(b)
           l == Len(t)
           K == Text(b)
           N(i) == Count(K, i)
           ends == {i \in 1 .. n : Level(b, i) = 0}
<1>1. n \in Nat /\ n > 0 /\ DOMAIN b = 1 .. n
  OBVIOUS
<1>2. K \subseteq 1 .. n /\ t \in Seq(Char) /\ l \in Nat
  <2>1. K \subseteq 1 .. n
    BY <1>1 DEF Text
  <2>2. t \in Seq(Char)
    BY SqueezeAt
  <2>3. QED
    BY <2>1, <2>2
<1>3. /\ \A k \in 1 .. l : \E i \in K : N(i) = k
      /\ \A i \in K : t[N(i)] = b[i]
  BY SqueezeAt
<1>4. /\ \A i \in 1 .. n : N(i) \in 1 .. l
      /\ \A i \in 1 .. n, j \in K : i < j => N(i) < N(j)
      /\ 1 \in K /\ N(1) = 1
  BY SqueezeFrom
<1>5. \A i \in 1 .. l : i <= Len(v) => t[i] = v[i]
  BY <1>2, SameFront
<1>6. /\ Len(v) > 1 /\ v[1] = "open" /\ Len(v) \in Nat
      /\ \A i \in 1 .. Len(v) : Level(v, i) = 0 <=> i = Len(v)
  BY DEF Proper
<1>7. MessageEnd(b) = IF ends = {} THEN 0 ELSE Min(ends)
  <2>1. \A i : Depth(b, i, InString(b)) = Level(b, i)
    BY DEF Depth, Level, Braces
  <2>2. {i \in DOMAIN b : Depth(b, i, InString(b)) = 0} = ends
    BY <1>1, <2>1
  <2> HIDE DEF ends
  <2>3. QED
    BY <2>2, Zenon DEF MessageEnd
<1>8. \A i \in 1 .. n : Level(b, i) = Level(t, N(i))
  <2>1. \A i \in 1 .. n : i \in 0 .. n
    OBVIOUS
  <2>2. QED
    BY <2>1, LevelSqueeze, Zenon
<1> HIDE DEF n, t, l, K, N
<1>9. b[1] = "open"
  <2>1. b[1] = t[1] /\ 1 \in 1 .. n /\ N(1) \in 1 .. l
    BY <1>1, <1>3, <1>4
  <2>2. t[1] = v[1]
    BY <1>4, <1>5, <1>6, <2>1
  <2>3. QED
    BY <1>6, <2>1, <2>2
<1>10. ASSUME NEW k \in Nat, k <= l, k <= Len(v)
       PROVE  \A i \in 1 .. n : N(i) <= k => Level(b, i) = Level(v, N(i))
  <2>1. \A i \in 1 .. k : i \in 1 .. l /\ i <= Len(v)
    BY <1>2, <1>6, <1>10
  <2>2. \A i \in 1 .. k : t[i] = v[i]
    BY <1>5, <2>1
  <2>3. \A i \in 0 .. k : Level(t, i) = Level(v, i)
    BY <1>2, <1>10, <2>2, LevelPrefix DEF l
  <2>4. \A i \in 1 .. n : N(i) <= k => N(i) \in 0 .. k
    BY <1>4
  <2>5. QED
    BY <1>8, <2>3, <2>4
<1>11. ASSUME l < Len(v) PROVE MessageEnd(b) = 0
  <2>1. \A i \in 1 .. n : N(i) <= l /\ N(i) \in 1 .. Len(v) /\ N(i) # Len(v)
    BY <1>2, <1>4, <1>6, <1>11
  <2>2. \A i \in 1 .. n : Level(b, i) = Level(v, N(i))
    BY <1>2, <1>6, <1>10, <1>11, <2>1
  <2>3. ends = {}
    BY <1>6, <2>1, <2>2
  <2>4. QED
    BY <1>7, <2>3
<1>12. ASSUME Len(v) <= l PROVE MessageEnd(b) \in K /\ N(MessageEnd(b)) = Len(v)
  <2>1. PICK e \in K : N(e) = Len(v)
    <3>1. Len(v) \in 1 .. l
      BY <1>2, <1>6, <1>12
    <3>2. QED
      BY <1>3, <3>1
  <2>2. \A i \in 1 .. n : N(i) <= Len(v) => Level(b, i) = Level(v, N(i))
    BY <1>6, <1>10, <1>12
  <2>3. e \in 1 .. n /\ N(e) <= Len(v) /\ N(e) \in 1 .. Len(v)
    BY <1>2, <1>6, <2>1
  <2>4. e \in ends
    BY <1>6, <2>1, <2>2, <2>3
  <2>5. Min(ends) \in ends /\ \A y \in ends : Min(ends) <= y
    <3>1. ends # {} /\ ends \in SUBSET (1 .. n)
      BY <2>4
    <3> HIDE DEF ends
    <3>2. QED
      BY <1>1, <3>1, Least
  <2> DEFINE m == Min(ends)
  <2>6. m \in 1 .. n /\ Level(b, m) = 0 /\ m <= e
    BY <2>4, <2>5
  <2>7. MessageEnd(b) = m
    BY <1>7, <2>4
  <2> HIDE DEF m, ends
  <2>8. m = e
    <3> SUFFICES ASSUME m # e PROVE FALSE
      OBVIOUS
    <3>1. m < e
      BY <2>3, <2>6
    <3>2. N(m) < N(e) /\ N(m) \in 1 .. l
      BY <1>4, <2>6, <3>1
    <3>3. N(m) \in 1 .. Len(v) /\ N(m) # Len(v) /\ N(m) <= Len(v)
      BY <1>6, <2>1, <3>2
    <3>4. Level(b, m) = Level(v, N(m))
      BY <2>2, <2>6, <3>3
    <3>5. QED
      BY <1>6, <2>6, <3>3, <3>4
  <2>9. QED
    BY <2>1, <2>7, <2>8
<1>13. QED
  BY <1>9, <1>11, <1>12 DEF l, t, K, N

\* Too few characters for the first object: nothing is found, nothing is lost.
LEMMA ParseNothing ==
  ASSUME NEW b \in Seq(Char), Len(b) > 0 => b[1] # "blank",
         NEW x \in Seq(Char), NEW v \in Seq(Char), NEW w \in Seq(Char),
         Squeeze(b) \o x = v \o w, Proper(v), Len(Squeeze(b)) < Len(v)
  PROVE  ParseJsonFromMsgBuffer(b) = [found |-> <<>>, buffer |-> b]
<1>1. CASE Len(b) = 0
  <2>1. b = <<>>
    BY <1>1
  <2>2. QED
    BY <2>1 DEF ParseJsonFromMsgBuffer
<1>2. CASE Len(b) > 0
  <2>1. b[1] = "open" /\ MessageEnd(b) = 0
    BY <1>2, EndIs
  <2>2. b # <<>>
    BY <1>2
  <2>3. QED
    BY <2>1, <2>2, Zenon DEF ParseJsonFromMsgBuffer
<1>3. Len(b) = 0 \/ Len(b) > 0
  OBVIOUS
<1>4. QED
  BY <1>1, <1>2, <1>3

\* The buffer and the characters on their way begin with an object v of which all
\* is there.
AllThere(b, x, v, w) ==
  /\ b \in Seq(Char) /\ x \in Seq(Char) /\ v \in Seq(Char) /\ w \in Seq(Char)
  /\ Len(b) > 0 => b[1] # "blank"
  /\ Outside(0, b) /\ Proper(v)
  /\ Squeeze(b) \o x = v \o w /\ Len(v) <= Len(Squeeze(b))

\* It is found, and everything behind it is left.
FoundFirst(b, x, v, w) ==
  \E r \in Seq(Char) :
    /\ ParseJsonFromMsgBuffer(b) = [found |-> <<v>>, buffer |-> r]
    /\ Len(r) < Len(b)
    /\ Squeeze(r) \o x = w
    /\ Outside(0, r)
    /\ QuoteCount(b) = QuoteCount(v) + QuoteCount(r)

LEMMA ParseFirst ==
  ASSUME NEW b, NEW x, NEW v, NEW w, AllThere(b, x, v, w)
  PROVE  FoundFirst(b, x, v, w)
<1>0. /\ b \in Seq(Char) /\ x \in Seq(Char) /\ v \in Seq(Char) /\ w \in Seq(Char)
      /\ Len(b) > 0 => b[1] # "blank"
      /\ Outside(0, b) /\ Proper(v)
      /\ Squeeze(b) \o x = v \o w /\ Len(v) <= Len(Squeeze(b))
  BY DEF AllThere
<1> USE <1>0
<1> DEFINE n == Len(b)
           e == MessageEnd(b)
           p == SubSeq(b, 1, e)
           r == SubSeq(b, e + 1, n)
<1>1. Len(v) > 1 /\ Len(v) \in Nat
  BY DEF Proper
<1>2. Len(b) > 0
  <2> SUFFICES ASSUME Len(b) = 0 PROVE FALSE
    OBVIOUS
  <2>1. Text(b) = {}
    BY DEF Text
  <2>2. Squeeze(b) = <<>>
    BY <2>1, SqueezeBlank
  <2>3. Len(Squeeze(b)) = 0
    BY <2>2
  <2>4. QED
    BY <1>1, <2>3
<1>3. b[1] = "open" /\ e \in Text(b) /\ Count(Text(b), e) = Len(v)
  BY <1>2, EndIs
<1>4. n \in Nat /\ n > 0 /\ DOMAIN b = 1 .. n /\ b # <<>>
  BY <1>2
<1> HIDE DEF e
<1>5. e \in 1 .. n /\ e \in 0 .. n /\ b[e] # "blank"
  BY <1>3, <1>4 DEF Text
<1>6. /\ p \in Seq(Char) /\ Len(p) = e /\ \A i \in 1 .. e : p[i] = b[i]
      /\ r \in Seq(Char) /\ Len(r) = n - e
      /\ p \o r = b
  BY <1>5, Cut
<1> HIDE DEF n, p, r
<1>7. Squeeze(b) = Squeeze(p) \o Squeeze(r)
  <2>1. Squeeze(p \o r) = Squeeze(p) \o Squeeze(r)
    BY <1>6, SqueezeJoin
  <2>2. QED
    BY <1>6, <2>1, Zenon
<1>8. /\ Squeeze(p) \in Seq(Char) /\ Squeeze(r) \in Seq(Char)
      /\ Len(Squeeze(p)) = Count(Text(p), e)
  BY <1>6, SqueezeAt
<1>9. Len(Squeeze(p)) = Len(v)
  <2>1. \A i \in 0 .. Len(p) : Count(Text(p \o r), i) = Count(Text(p), i)
    BY <1>6, TextJoin
  <2>2. e \in 0 .. Len(p)
    BY <1>5, <1>6
  <2>3. Count(Text(b), e) = Count(Text(p), e)
    BY <1>6, <2>1, <2>2
  <2>4. QED
    BY <1>3, <1>8, <2>3
<1>10. Squeeze(p) \o (Squeeze(r) \o x) = v \o w
  <2>1. (Squeeze(p) \o Squeeze(r)) \o x = Squeeze(p) \o (Squeeze(r) \o x)
    BY <1>8, Associative, ZenonT(60)
  <2>2. QED
    BY <1>7, <2>1, Zenon
<1>11. Squeeze(r) \o x \in Seq(Char)
  BY <1>8
<1>12. Squeeze(p) = v
  <2> DEFINE u == Squeeze(p)
             y == Squeeze(r) \o x
  <2>1. u \in Seq(Char) /\ y \in Seq(Char) /\ u \o y = v \o w /\ Len(u) = Len(v)
    BY <1>8, <1>9, <1>10, <1>11
  <2> HIDE DEF u, y
  <2>2. \A i \in 1 .. Len(u) : i <= Len(v) => u[i] = v[i]
    BY <2>1, SameFront
  <2>3. \A i \in 1 .. Len(u) : u[i] = v[i]
    BY <1>1, <2>1, <2>2
  <2>4. u = v
    BY <2>1, <2>3, SeqEqual
  <2>5. QED
    BY <2>4 DEF u
<1>13. Squeeze(r) \o x = w
  <2> DEFINE y == Squeeze(r) \o x
  <2>1. y \in Seq(Char) /\ v \o y = v \o w
    BY <1>10, <1>11, <1>12
  <2> HIDE DEF y
  <2>2. y = w
    BY <2>1, Cancel
  <2>3. QED
    BY <2>2 DEF y
<1>14. Outside(0, p) /\ Outside(0 + QuoteCount(p), r)
  <2>1. Outside(0, p \o r)
    BY <1>6
  <2>2. QED
    BY <1>6, <2>1, OutsideJoin
<1>15. QuoteCount(p) = QuoteCount(v) /\ QuoteCount(v) % 2 = 0 /\ QuoteCount(v) \in Nat
  <2>1. QuoteCount(p) = QuoteCount(v)
    BY <1>6, <1>12, QuoteCountSqueeze
  <2>2. QED
    BY <2>1, ProperEnd, QuoteCountType
<1>16. Proper(p)
  <2>1. Len(p) > 0 /\ p[1] # "blank" /\ p[Len(p)] # "blank"
    <3>1. 1 \in 1 .. e /\ e \in 1 .. e
      BY <1>4, <1>5
    <3>2. p[1] = b[1] /\ p[e] = b[e]
      BY <1>6, <3>1
    <3>3. QED
      BY <1>3, <1>4, <1>5, <1>6, <3>2
  <2>2. Proper(p) <=> Proper(Squeeze(p))
    BY <1>6, <1>14, <2>1, ProperSqueeze
  <2>3. QED
    BY <1>12, <2>2
<1>17. IsObject(p) /\ JsonValue(p) = v
  BY <1>6, <1>12, <1>16, ProperIs
<1>18. ParseJsonFromMsgBuffer(b) = [found |-> <<v>>, buffer |-> r]
  <2>1. e # 0
    BY <1>4, <1>5
  <2>2. ~(b = <<>> \/ b[1] # "open")
    BY <1>3, <1>4
  <2>3. ParseJsonFromMsgBuffer(b)
          = IF b = <<>> \/ b[1] # "open" THEN [found |-> <<>>, buffer |-> <<>>]
            ELSE IF e = 0 THEN [found |-> <<>>, buffer |-> b]
            ELSE IF ~IsObject(p) THEN [found |-> <<>>, buffer |-> <<>>]
            ELSE [found |-> <<JsonValue(p)>>, buffer |-> r]
    BY DEF ParseJsonFromMsgBuffer, e, p, r, n
  <2>4. QED
    BY <1>17, <2>1, <2>2, <2>3, Zenon
<1>19. Len(r) < n
  BY <1>4, <1>5, <1>6
<1>20. Outside(0, r)
  <2>1. Outside(QuoteCount(v) + 0, r)
    <3>1. 0 + QuoteCount(p) = QuoteCount(v) + 0
      BY <1>15
    <3>2. QED
      BY <1>14, <3>1
  <2>2. QED
    BY <1>6, <1>15, <2>1, OutsideEven
<1>21. QuoteCount(b) = QuoteCount(v) + QuoteCount(r)
  <2>1. QuoteCount(p \o r) = QuoteCount(p) + QuoteCount(r)
    BY <1>6, QuotesJoin
  <2>2. QED
    BY <1>6, <1>15, <2>1
<1>22. QED
  BY <1>6, <1>13, <1>18, <1>19, <1>20, <1>21 DEF n, FoundFirst

-----------------------------------------------------------------------------
(* The second loop of _read.                                               *)

LEMMA JsonValueType ==
  ASSUME NEW s \in Seq(Char)
  PROVE  JsonValue(s) \in Seq(Char)
<1> DEFINE n == Len(s)
           K == {i \in DOMAIN s : s[i] # "blank"} \cup InJsonString(s)
           L == Cardinality(K)
           at(k) == CHOOSE i \in K : Count(K, i) = k
<1>1. n \in Nat /\ DOMAIN s = 1 .. n /\ \A i \in 1 .. n : s[i] \in Char
  OBVIOUS
<1>2. K \in SUBSET (1 .. n)
  BY <1>1 DEF InJsonString
<1>3. JsonValue(s) = [k \in 1 .. L |-> s[at(k)]]
  BY DEF JsonValue
<1> HIDE DEF n, K
<1>4. L = Count(K, n) /\ \A k \in 1 .. Count(K, n) : \E i \in K : Count(K, i) = k
  BY <1>1, <1>2, CountNumbers, Zenon
<1>5. L \in Nat
  BY <1>1, <1>4, CountStep
<1>6. \A k \in 1 .. L : at(k) \in K
  BY <1>4
<1> HIDE DEF at, L
<1>7. \A k \in 1 .. L : s[at(k)] \in Char
  BY <1>1, <1>2, <1>6
<1>8. QED
  BY <1>3, <1>5, <1>7

LEMMA ParseType ==
  ASSUME NEW s \in Seq(Char), NEW p, p = ParseJsonFromMsgBuffer(s)
  PROVE  /\ p.buffer \in Seq(Char)
         /\ \/ p.found = <<>>
            \/ /\ \E value \in Seq(Char) : p.found = <<value>>
               /\ Len(p.buffer) < Len(s)
<1> DEFINE n == Len(s)
           e == MessageEnd(s)
           text == SubSeq(s, 1, e)
           rest == SubSeq(s, e + 1, n)
           ends == {i \in DOMAIN s : Depth(s, i, InString(s)) = 0}
<1>1. n \in Nat /\ DOMAIN s = 1 .. n
  OBVIOUS
<1>2. e = IF ends = {} THEN 0 ELSE Min(ends)
  BY DEF MessageEnd
<1>3. ends \in SUBSET (1 .. n)
  BY <1>1
<1>4. e \in 0 .. n
  <2> HIDE DEF ends, e, n
  <2>1. ends # {} => Min(ends) \in ends
    BY <1>1, <1>3, Least
  <2>2. QED
    BY <1>1, <1>2, <1>3, <2>1
<1> HIDE DEF e
<1>5. text \in Seq(Char) /\ rest \in Seq(Char) /\ Len(rest) = n - e
  BY <1>4, Cut
<1>6. p = IF s = <<>> \/ s[1] # "open" THEN [found |-> <<>>, buffer |-> <<>>]
          ELSE IF e = 0 THEN [found |-> <<>>, buffer |-> s]
          ELSE IF ~IsObject(text) THEN [found |-> <<>>, buffer |-> <<>>]
          ELSE [found |-> <<JsonValue(text)>>, buffer |-> rest]
  BY DEF ParseJsonFromMsgBuffer, e
<1>7. JsonValue(text) \in Seq(Char)
  BY <1>5, JsonValueType
<1>8. <<>> \in Seq(Char)
  OBVIOUS
<1> HIDE DEF n, text, rest
<1>9. e # 0 => Len(rest) < n
  BY <1>1, <1>4, <1>5
<1> DEFINE empty == [found |-> <<>>, buffer |-> <<>>]
           kept == [found |-> <<>>, buffer |-> s]
           cut == [found |-> <<JsonValue(text)>>, buffer |-> rest]
<1>10. p = empty \/ p = kept \/ (p = cut /\ e # 0)
  BY <1>6
<1>11. /\ empty.found = <<>> /\ empty.buffer = <<>> /\ kept.found = <<>> /\ kept.buffer = s
       /\ cut.found = <<JsonValue(text)>> /\ cut.buffer = rest
  OBVIOUS
<1> HIDE DEF empty, kept, cut
<1>12. CASE p = empty
  BY <1>8, <1>11, <1>12, Zenon
<1>13. CASE p = kept
  BY <1>11, <1>13, Zenon
<1>14. CASE p = cut /\ e # 0
  BY <1>5, <1>7, <1>9, <1>11, <1>14, Zenon DEF n
<1>15. QED
  BY <1>10, <1>12, <1>13, <1>14

\* A pass that finds something leaves a shorter buffer.
LEMMA ReadOneType ==
  ASSUME NEW r \in Reader
  PROVE  /\ ReadOne(r) \in Reader
         /\ ReadOne(r).values # r.values => Len(ReadOne(r).buffer) < Len(r.buffer)
<1> DEFINE t == Trim(r.buffer)
           p == ParseJsonFromMsgBuffer(t)
           values == r.values \o p.found
<1>1. r.buffer \in Seq(Char) /\ r.values \in Seq(Seq(Char))
  BY DEF Reader
<1>2. t \in Seq(Char) /\ Len(t) <= Len(r.buffer)
  <2>1. 0 \in Nat
    OBVIOUS
  <2>2. QED
    BY <1>1, <2>1, TrimIs
<1>3. ReadOne(r).buffer = p.buffer /\ ReadOne(r).values = values
      /\ ReadOne(r) = [buffer |-> p.buffer, values |-> values]
  BY DEF ReadOne
<1> HIDE DEF t
<1>4. /\ p.buffer \in Seq(Char)
      /\ \/ p.found = <<>>
         \/ /\ \E value \in Seq(Char) : p.found = <<value>>
            /\ Len(p.buffer) < Len(t)
  BY <1>2, ParseType
<1> HIDE DEF p
<1>5. CASE p.found = <<>>
  <2>1. values = r.values
    BY <1>1, <1>5, ConcatEmptySeq
  <2> HIDE DEF values
  <2>2. QED
    BY <1>1, <1>3, <1>4, <2>1 DEF Reader
<1>6. CASE (\E value \in Seq(Char) : p.found = <<value>>) /\ Len(p.buffer) < Len(t)
  <2>1. PICK value \in Seq(Char) : p.found = <<value>>
    BY <1>6
  <2>2. <<value>> \in Seq(Seq(Char))
    BY <2>1
  <2>3. r.values \o <<value>> \in Seq(Seq(Char))
    BY <1>1, <2>2, ConcatProperties
  <2>4. values \in Seq(Seq(Char))
    BY <2>1, <2>3
  <2>5. Len(p.buffer) \in Nat /\ Len(t) \in Nat /\ Len(r.buffer) \in Nat
    BY <1>1, <1>2, <1>4
  <2>6. Len(p.buffer) < Len(r.buffer)
    BY <1>2, <1>6, <2>5
  <2> HIDE DEF values
  <2>7. QED
    BY <1>3, <1>4, <2>4, <2>6 DEF Reader
<1>7. QED
  BY <1>4, <1>5, <1>6

\* The loop ends, so that its definition holds of it.
Reads(loop) ==
  /\ loop \in [Reader -> Reader]
  /\ \A r \in Reader :
       loop[r] = IF ReadOne(r).values = r.values THEN ReadOne(r) ELSE loop[ReadOne(r)]

LEMMA ReadsTo ==
  ASSUME NEW s
  PROVE  \E loop : Reads(loop) /\ ReadMessages(s) = loop[[buffer |-> s, values |-> <<>>]]
<1> DEFINE stops == {r \in Reader : ReadOne(r).values = r.values}
           next == [r \in Reader |-> ReadOne(r)]
           m == [r \in Reader |-> Len(r.buffer)]
           value(f, r) == IF ReadOne(r).values = r.values THEN ReadOne(r) ELSE f[ReadOne(r)]
<1>1. next \in [Reader -> Reader]
  BY ReadOneType
<1>2. m \in [Reader -> Nat]
  BY DEF Reader
<1>3. \A r \in Reader : next[r] = ReadOne(r) /\ (r \notin stops => m[next[r]] < m[r])
  <2> SUFFICES ASSUME NEW r \in Reader
               PROVE  next[r] = ReadOne(r) /\ (r \notin stops => m[next[r]] < m[r])
    OBVIOUS
  <2>1. ReadOne(r) \in Reader
    BY ReadOneType
  <2>2. next[r] = ReadOne(r) /\ m[r] = Len(r.buffer) /\ m[ReadOne(r)] = Len(ReadOne(r).buffer)
    BY <2>1
  <2>3. r \notin stops => Len(ReadOne(r).buffer) < Len(r.buffer)
    BY ReadOneType
  <2> HIDE DEF next, m, stops
  <2>4. QED
    BY <2>2, <2>3
<1>4. \A r \in Reader : r \in stops <=> ReadOne(r).values = r.values
  OBVIOUS
<1> HIDE DEF next, m, stops
<1>5. PICK g \in [Reader -> Reader] : Loops(g, Reader, next, stops)
  <2>1. \A r \in Reader \ stops : m[next[r]] < m[r]
    BY <1>3
  <2>2. QED
    BY <1>1, <1>2, <2>1, LoopEnds
<1> DEFINE f == [r \in Reader |-> ReadOne(g[r])]
<1>6. ASSUME NEW r \in Reader PROVE f[r] = value(f, r)
  <2>1. g[r] = IF r \in stops THEN r ELSE g[next[r]]
    BY <1>5 DEF Loops
  <2>2. ReadOne(r) \in Reader /\ next[r] = ReadOne(r)
    BY <1>3, ReadOneType
  <2>3. f[r] = ReadOne(g[r]) /\ f[ReadOne(r)] = ReadOne(g[ReadOne(r)])
    BY <2>2
  <2> HIDE DEF f
  <2>4. CASE r \in stops
    <3>1. g[r] = r
      BY <2>1, <2>4
    <3>2. QED
      BY <1>4, <2>3, <2>4, <3>1
  <2>5. CASE r \notin stops
    <3>1. g[r] = g[ReadOne(r)]
      BY <2>1, <2>2, <2>5
    <3>2. QED
      BY <1>4, <2>3, <2>5, <3>1
  <2>6. QED
    BY <2>4, <2>5
<1>7. f = [r \in Reader |-> value(f, r)]
  <2>1. f = [r \in Reader |-> f[r]]
    OBVIOUS
  <2> HIDE DEF f, value
  <2>2. QED
    BY <1>6, <2>1
<1> HIDE DEF f
<1> DEFINE loop == CHOOSE h : h = [r \in Reader |-> value(h, r)]
<1>8. loop = [r \in Reader |-> value(loop, r)]
  <2> HIDE DEF value
  <2>1. \E h : h = [r \in Reader |-> value(h, r)]
    BY <1>7
  <2>2. QED
    BY <2>1
<1>9. ReadMessages(s) = loop[[buffer |-> s, values |-> <<>>]]
  BY DEF ReadMessages
<1>10. ASSUME NEW n \in Nat, \A i \in Nat : i < n => \A r \in Reader : m[r] = i => loop[r] \in Reader,
              NEW r \in Reader, m[r] = n
       PROVE  loop[r] \in Reader
  <2>1. loop[r] = value(loop, r)
    BY <1>8
  <2>2. ReadOne(r) \in Reader /\ next[r] = ReadOne(r)
    BY <1>3, ReadOneType
  <2>3. CASE ReadOne(r).values = r.values
    BY <2>1, <2>2, <2>3
  <2>4. CASE ReadOne(r).values # r.values
    <3>1. loop[r] = loop[ReadOne(r)]
      BY <2>1, <2>4
    <3>2. m[ReadOne(r)] < n /\ m[ReadOne(r)] \in Nat
      BY <1>2, <1>3, <1>4, <1>10, <2>2, <2>4
    <3> HIDE DEF loop
    <3>3. QED
      BY <1>10, <2>2, <3>1, <3>2
  <2>5. QED
    BY <2>3, <2>4
<1>11. loop \in [Reader -> Reader]
  <2> DEFINE Bad == {i \in Nat : \E r \in Reader : m[r] = i /\ loop[r] \notin Reader}
  <2>1. Bad = {}
    <3> SUFFICES ASSUME Bad # {} PROVE FALSE
      OBVIOUS
    <3>1. Bad \in SUBSET Nat
      OBVIOUS
    <3>2. PICK n \in Bad : \A i \in Bad : n <= i
      <4> HIDE DEF Bad
      <4>1. QED
        BY <3>1, LeastNumber
    <3>3. n \in Nat /\ \E r \in Reader : m[r] = n /\ loop[r] \notin Reader
      BY <3>2
    <3> HIDE DEF loop
    <3>4. \A i \in Nat : i < n => \A r \in Reader : m[r] = i => loop[r] \in Reader
      <4> SUFFICES ASSUME NEW i \in Nat, i < n, NEW r \in Reader, m[r] = i, loop[r] \notin Reader
                   PROVE  FALSE
        OBVIOUS
      <4>1. i \in Bad
        OBVIOUS
      <4>2. n <= i
        BY <3>2, <4>1
      <4>3. QED
        BY <3>3, <4>2
    <3>5. QED
      BY <1>10, <3>3, <3>4
  <2>2. \A r \in Reader : loop[r] \in Reader
    <3>1. \A r \in Reader : m[r] \in Nat
      BY <1>2
    <3> HIDE DEF loop
    <3>2. QED
      BY <2>1, <3>1
  <2>3. DOMAIN loop = Reader /\ loop = [r \in Reader |-> loop[r]]
    <3> HIDE DEF loop, value
    <3>1. QED
      BY <1>8
  <2> HIDE DEF loop
  <2>4. QED
    BY <2>2, <2>3
<1> HIDE DEF loop
<1>12. Reads(loop)
  BY <1>8, <1>11 DEF Reads
<1>13. QED
  BY <1>9, <1>12

-----------------------------------------------------------------------------
(* The connection.                                                         *)

\* c[i] is the text of the objects from number i + 1 on, blanks left out.
Chain(c, ms) ==
  /\ c \in [0 .. Len(ms) -> Seq(Char)]
  /\ c[Len(ms)] = <<>>
  /\ \A i \in 0 .. Len(ms) - 1 : c[i] = JsonValue(ms[i + 1]) \o c[i + 1]

Firsts(ms, k) == [i \in 1 .. k |-> JsonValue(ms[i])]

\* The buffer and the characters on their way are this text with blanks in it, and
\* no blank is in a string.
Ahead(buffer, coming, text) ==
  /\ Squeeze(buffer) \o Squeeze(coming) = text
  /\ Outside(0, buffer)
  /\ Outside(QuoteCount(buffer), coming)
  /\ (QuoteCount(buffer) + QuoteCount(coming)) % 2 = 0

\* The buffer is not all of the next object.
NoMore(ms, k, buffer) ==
  k < Len(ms) => Len(Squeeze(buffer)) < Len(JsonValue(ms[k + 1]))

Holds(ms, k, c, values, buffer, coming) ==
  /\ Chain(c, ms)
  /\ values = Firsts(ms, k)
  /\ Ahead(buffer, coming, c[k])

\* What was sent, what is on its way, the buffer and what was processed.
Consistent(ms, coming, buffer, values) ==
  /\ ms \in Seq(Messages) /\ coming \in Seq(Char) /\ buffer \in Seq(Char)
  /\ \E k \in 0 .. Len(ms), c \in [0 .. Len(ms) -> Seq(Char)] :
       Holds(ms, k, c, values, buffer, coming) /\ NoMore(ms, k, buffer)

\* The inductive invariant.
JsonInv == Consistent(sent, wire, currentMsg, received)

\* What is true of the objects.
LEMMA PlainObjects ==
  ASSUME PlainMessages, NEW m \in Messages
  PROVE  /\ m \in Seq(Char) /\ JsonValue(m) \in Seq(Char) /\ JsonValue(m) = Squeeze(m)
         /\ Proper(JsonValue(m)) /\ Len(JsonValue(m)) > 1
         /\ Outside(0, m) /\ QuoteCount(m) % 2 = 0
<1>1. m \in Seq(Char) /\ IsObject(m) /\ Plain(m)
  BY JsonFramingAssumption DEF PlainMessages
<1>2. Proper(m) /\ JsonValue(m) = Squeeze(m)
  BY <1>1, ProperIs
<1>3. m[Len(m)] # "blank" /\ QuoteCount(m) % 2 = 0 /\ Outside(0, m)
  BY <1>1, <1>2, ProperEnd
<1>4. Len(m) > 0 /\ m[1] # "blank"
  <2>1. Len(m) > 1 /\ m[1] = "open" /\ Len(m) \in Nat
    BY <1>1, <1>2 DEF Proper
  <2>2. QED
    BY <2>1
<1>5. Proper(Squeeze(m))
  BY <1>1, <1>2, <1>3, <1>4, ProperSqueeze
<1>6. Squeeze(m) \in Seq(Char) /\ Len(Squeeze(m)) > 1
  BY <1>1, <1>5, SqueezeAt DEF Proper
<1>7. QED
  BY <1>1, <1>2, <1>3, <1>5, <1>6

\* Nothing but blanks: trimmed and dropped.
LEMMA ReadNothing ==
  ASSUME NEW r \in Reader, Squeeze(r.buffer) = <<>>
  PROVE  ReadOne(r) = [buffer |-> <<>>, values |-> r.values]
<1> DEFINE t == Trim(r.buffer)
<1>1. r.buffer \in Seq(Char) /\ r.values \in Seq(Seq(Char))
  BY DEF Reader
<1>2. t \in Seq(Char) /\ Squeeze(t) = <<>> /\ (Len(t) > 0 => t[1] # "blank")
  <2>1. 0 \in Nat
    OBVIOUS
  <2>2. QED
    BY <1>1, <2>1, TrimIs
<1>3. ReadOne(r) = [buffer |-> ParseJsonFromMsgBuffer(t).buffer,
                    values |-> r.values \o ParseJsonFromMsgBuffer(t).found]
  BY DEF ReadOne
<1> HIDE DEF t
<1>4. Text(t) = {}
  BY <1>2, SqueezeBlank
<1>5. t = <<>>
  <2>1. DOMAIN t = 1 .. Len(t) /\ Len(t) \in Nat
    BY <1>2
  <2>2. Len(t) = 0
    <3> SUFFICES ASSUME Len(t) > 0 PROVE FALSE
      BY <2>1
    <3>1. 1 \in Text(t)
      BY <1>2, <2>1 DEF Text
    <3>2. QED
      BY <1>4, <3>1
  <2>3. QED
    BY <1>2, <2>2
<1>6. ParseJsonFromMsgBuffer(t) = [found |-> <<>>, buffer |-> <<>>]
  BY <1>5 DEF ParseJsonFromMsgBuffer
<1>7. r.values \o <<>> = r.values
  BY <1>1, ConcatEmptySeq
<1>8. QED
  BY <1>3, <1>6, <1>7

\* The loop of _read passes every object on of which all is there.
LEMMA LoopHolds ==
  ASSUME NEW ms, Len(ms) \in Nat, NEW c, NEW before \in Seq(Seq(Char)), NEW coming \in Seq(Char),
         \A i \in 1 .. Len(ms) : JsonValue(ms[i]) \in Seq(Char) /\ Proper(JsonValue(ms[i])),
         NEW loop, Reads(loop),
         NEW r \in Reader, NEW k \in 0 .. Len(ms),
         Holds(ms, k, c, before \o r.values, r.buffer, coming)
  PROVE  \E l \in 0 .. Len(ms) :
           /\ Holds(ms, l, c, before \o loop[r].values, loop[r].buffer, coming)
           /\ NoMore(ms, l, loop[r].buffer)
<1> DEFINE L == Len(ms)
           H(l, q) == Holds(ms, l, c, before \o q.values, q.buffer, coming)
           Goal(q) == \E l \in 0 .. L : H(l, q) /\ NoMore(ms, l, q.buffer)
           T == {d \in Nat : \A q \in Reader, l \in 0 .. L : L - l = d /\ H(l, q) => Goal(loop[q])}
<1>1. Squeeze(coming) \in Seq(Char)
  BY SqueezeAt
<1>2. ASSUME NEW q \in Reader, NEW l \in 0 .. L, H(l, q)
      PROVE  /\ q.buffer \in Seq(Char) /\ q.values \in Seq(Seq(Char))
             /\ Trim(q.buffer) \in Seq(Char)
             /\ Len(Trim(q.buffer)) > 0 => Trim(q.buffer)[1] # "blank"
             /\ Ahead(Trim(q.buffer), coming, c[l])
             /\ Squeeze(Trim(q.buffer)) = Squeeze(q.buffer)
  <2> DEFINE t == Trim(q.buffer)
  <2>1. q.buffer \in Seq(Char) /\ q.values \in Seq(Seq(Char))
    BY DEF Reader
  <2>2. /\ t \in Seq(Char) /\ Squeeze(t) = Squeeze(q.buffer)
        /\ (Len(t) > 0 => t[1] # "blank")
        /\ (Outside(0, q.buffer) => Outside(0, t))
    <3>1. 0 \in Nat
      OBVIOUS
    <3>2. QED
      BY <2>1, <3>1, TrimIs
  <2> HIDE DEF t
  <2>3. QuoteCount(t) = QuoteCount(q.buffer)
    <3>1. QuoteCount(t) = QuoteCount(Squeeze(t)) /\ QuoteCount(q.buffer) = QuoteCount(Squeeze(q.buffer))
      BY <2>1, <2>2, QuoteCountSqueeze
    <3>2. QED
      BY <2>2, <3>1
  <2>4. Ahead(q.buffer, coming, c[l])
    BY <1>2 DEF Holds
  <2>5. Ahead(t, coming, c[l])
    BY <2>2, <2>3, <2>4 DEF Ahead
  <2>6. QED
    BY <2>1, <2>2, <2>5 DEF t
<1>3. 0 \in T
  <2> SUFFICES ASSUME NEW q \in Reader, NEW l \in 0 .. L, L - l = 0, H(l, q) PROVE Goal(loop[q])
    OBVIOUS
  <2>1. l = L
    OBVIOUS
  <2>2. q.buffer \in Seq(Char) /\ q.values \in Seq(Seq(Char))
    BY DEF Reader
  <2>3. Chain(c, ms) /\ before \o q.values = Firsts(ms, l) /\ Ahead(q.buffer, coming, c[l])
    BY DEF Holds
  <2>4. Squeeze(q.buffer) = <<>> /\ Squeeze(q.buffer) \in Seq(Char)
    <3>1. Squeeze(q.buffer) \o Squeeze(coming) = <<>>
      BY <2>1, <2>3 DEF Chain, Ahead
    <3>2. Squeeze(q.buffer) \in Seq(Char)
      BY <2>2, SqueezeAt
    <3>3. QED
      BY <1>1, <3>1, <3>2, ConcatEmptySeq
  <2>5. ReadOne(q) = [buffer |-> <<>>, values |-> q.values]
    BY <2>4, ReadNothing
  <2>6. loop[q] = ReadOne(q)
    BY <2>5 DEF Reads
  <2>7. loop[q].values = q.values /\ loop[q].buffer = <<>>
    BY <2>5, <2>6
  <2>8. Ahead(<<>>, coming, c[l])
    <3>1. QuoteCount(q.buffer) = QuoteCount(<<>>) /\ Squeeze(<<>>) = <<>>
      <4>1. Text(<<>>) = {} /\ <<>> \in Seq(Char)
        BY DEF Text
      <4>2. Squeeze(<<>>) = <<>>
        BY <4>1, SqueezeBlank
      <4>3. QuoteCount(q.buffer) = QuoteCount(Squeeze(q.buffer))
        BY <2>2, QuoteCountSqueeze
      <4>4. QED
        BY <2>4, <4>2, <4>3
    <3>2. Outside(0, <<>>)
      BY DEF Outside
    <3>3. QED
      BY <2>3, <2>4, <3>1, <3>2, Zenon DEF Ahead
  <2>9. Holds(ms, l, c, before \o loop[q].values, loop[q].buffer, coming)
    BY <2>3, <2>7, <2>8, Zenon DEF Holds
  <2>10. NoMore(ms, l, loop[q].buffer)
    BY <2>1 DEF NoMore
  <2>11. QED
    BY <2>9, <2>10
<1>4. ASSUME NEW d \in Nat, d \in T PROVE d + 1 \in T
  <2> SUFFICES ASSUME NEW q \in Reader, NEW l \in 0 .. L, L - l = d + 1, H(l, q) PROVE Goal(loop[q])
    OBVIOUS
  <2> DEFINE t == Trim(q.buffer)
             v == JsonValue(ms[l + 1])
             x == Squeeze(coming)
             p == ParseJsonFromMsgBuffer(t)
             w == c[l + 1]
  <2>1. l < L /\ l + 1 \in 1 .. L /\ l + 1 \in 0 .. L /\ l \in 0 .. L - 1 /\ L - (l + 1) = d /\ l \in Nat
    OBVIOUS
  <2>2. /\ q.buffer \in Seq(Char) /\ q.values \in Seq(Seq(Char)) /\ t \in Seq(Char)
        /\ (Len(t) > 0 => t[1] # "blank") /\ Ahead(t, coming, c[l])
        /\ Squeeze(t) = Squeeze(q.buffer)
    BY <1>2
  <2>3. Chain(c, ms) /\ before \o q.values = Firsts(ms, l)
    BY DEF Holds
  <2>4. c[l] = v \o c[l + 1] /\ c[l + 1] \in Seq(Char)
    BY <2>1, <2>3 DEF Chain
  <2>5. v \in Seq(Char) /\ Proper(v)
    BY <2>1
  <2>6. ReadOne(q) = [buffer |-> p.buffer, values |-> q.values \o p.found]
    BY DEF ReadOne
  <2>7. ReadOne(q) \in Reader
    BY ReadOneType
  <2>8. loop[q] = IF ReadOne(q).values = q.values THEN ReadOne(q) ELSE loop[ReadOne(q)]
    BY DEF Reads
  <2>9. Squeeze(t) \o x = v \o w /\ Outside(0, t) /\ x \in Seq(Char) /\ w \in Seq(Char)
    BY <1>1, <2>2, <2>4 DEF Ahead
  <2>10. Len(Squeeze(t)) \in Nat /\ Len(v) \in Nat
    BY <2>2, <2>5, SqueezeAt
  <2> HIDE DEF L, t, x, v, w
  <2>11. CASE Len(Squeeze(t)) < Len(v)
    <3>1. p = [found |-> <<>>, buffer |-> t]
      BY <2>2, <2>5, <2>9, <2>11, ParseNothing
    <3> HIDE DEF p
    <3>2. q.values \o <<>> = q.values
      BY <2>2, ConcatEmptySeq
    <3>3. ReadOne(q).buffer = t /\ ReadOne(q).values = q.values
      BY <2>6, <3>1, <3>2
    <3>4. loop[q].buffer = t /\ loop[q].values = q.values
      BY <2>8, <3>3
    <3>5. Holds(ms, l, c, before \o loop[q].values, loop[q].buffer, coming)
      BY <2>2, <2>3, <3>4, Zenon DEF Holds
    <3>6. NoMore(ms, l, loop[q].buffer)
      BY <2>11, <3>4 DEF NoMore, v
    <3>7. QED
      BY <3>5, <3>6
  <2>12. CASE Len(v) <= Len(Squeeze(t))
    <3>1. PICK r2 \in Seq(Char) :
            /\ p = [found |-> <<v>>, buffer |-> r2]
            /\ Squeeze(r2) \o x = w
            /\ Outside(0, r2)
            /\ QuoteCount(t) = QuoteCount(v) + QuoteCount(r2)
      <4>1. AllThere(t, x, v, w)
        BY <2>2, <2>5, <2>9, <2>12 DEF AllThere
      <4>2. FoundFirst(t, x, v, w)
        BY <4>1, ParseFirst
      <4>3. QED
        BY <4>2, Zenon DEF FoundFirst
    <3> HIDE DEF p
    <3>2. ReadOne(q).buffer = r2 /\ ReadOne(q).values = q.values \o <<v>>
      BY <2>6, <3>1, SMTT(60)
    <3>3. <<v>> \in Seq(Seq(Char)) /\ Len(<<v>>) = 1
      BY <2>5
    <3>4. ReadOne(q).values # q.values
      <4>1. Len(q.values \o <<v>>) = Len(q.values) + 1 /\ Len(q.values) \in Nat
        BY <2>2, <3>3, ConcatProperties
      <4>2. QED
        BY <3>2, <4>1
    <3>5. loop[q] = loop[ReadOne(q)]
      BY <2>8, <3>4
    <3>6. before \o ReadOne(q).values = Firsts(ms, l + 1)
      <4>1. before \o (q.values \o <<v>>) = (before \o q.values) \o <<v>>
        BY <2>2, <3>3, AssociativeValues, Zenon
      <4>2. Firsts(ms, l) \in Seq(Seq(Char)) /\ Len(Firsts(ms, l)) = l
        <5>1. \A i \in 1 .. l : JsonValue(ms[i]) \in Seq(Char)
          BY <2>1 DEF L
        <5>2. QED
          BY <2>1, <5>1 DEF Firsts
      <4>3. \A i \in 1 .. l : Firsts(ms, l)[i] = JsonValue(ms[i])
        BY DEF Firsts
      <4> DEFINE s == Firsts(ms, l)
                 u == Firsts(ms, l + 1)
      <4>4. u \in Seq(Seq(Char)) /\ Len(u) = l + 1 /\ \A i \in 1 .. l + 1 : u[i] = JsonValue(ms[i])
        <5>1. \A i \in 1 .. l + 1 : JsonValue(ms[i]) \in Seq(Char)
          BY <2>1 DEF L
        <5>2. QED
          BY <2>1, <5>1 DEF Firsts
      <4> HIDE DEF s, u
      <4>5. s \o <<v>> \in Seq(Seq(Char)) /\ Len(s \o <<v>>) = l + 1
            /\ \A i \in 1 .. l + 1 : (s \o <<v>>)[i] = IF i <= l THEN s[i] ELSE <<v>>[i - l]
        BY <2>1, <3>3, <4>2, ConcatProperties DEF s
      <4>6. \A i \in 1 .. l + 1 : (s \o <<v>>)[i] = u[i]
        <5> SUFFICES ASSUME NEW i \in 1 .. l + 1 PROVE (s \o <<v>>)[i] = u[i]
          OBVIOUS
        <5>1. CASE i <= l
          <6>1. i \in 1 .. l
            BY <2>1, <5>1
          <6>2. QED
            BY <4>3, <4>4, <4>5, <5>1, <6>1 DEF s
        <5>2. CASE ~(i <= l)
          <6>1. i = l + 1 /\ i - l = 1
            BY <2>1, <5>2
          <6>2. (s \o <<v>>)[i] = <<v>>[1]
            BY <4>5, <5>2, <6>1
          <6>3. <<v>>[1] = v
            OBVIOUS
          <6>4. u[i] = v
            BY <4>4, <6>1 DEF v
          <6>5. QED
            BY <6>2, <6>3, <6>4
        <5>3. QED
          BY <5>1, <5>2
      <4>7. s \o <<v>> = u
        BY <4>4, <4>5, <4>6, SeqEqual
      <4>8. before \o q.values = s
        BY <2>3 DEF s
      <4>9. QED
        BY <3>2, <4>1, <4>7, <4>8 DEF u
    <3>7. Ahead(r2, coming, c[l + 1])
      <4>1. /\ QuoteCount(v) \in Nat /\ QuoteCount(v) % 2 = 0
            /\ QuoteCount(r2) \in Nat /\ QuoteCount(coming) \in Nat
        BY <2>5, ProperEnd, QuoteCountType
      <4>2. Outside(QuoteCount(v) + QuoteCount(r2), coming)
        BY <2>2, <3>1 DEF Ahead
      <4>3. Outside(QuoteCount(r2), coming)
        BY <4>1, <4>2, OutsideEven
      <4>4. (QuoteCount(t) + QuoteCount(coming)) % 2 = 0
        BY <2>2 DEF Ahead
      <4>5. (QuoteCount(r2) + QuoteCount(coming)) % 2 = 0
        <5> DEFINE a == QuoteCount(v)
                   b == QuoteCount(r2)
                   e == QuoteCount(coming)
        <5>1. a \in Nat /\ b \in Nat /\ e \in Nat /\ a % 2 = 0 /\ ((a + b) + e) % 2 = 0
          BY <3>1, <4>1, <4>4
        <5> HIDE DEF a, b, e
        <5>2. b + e \in Nat /\ (a + b) + e = a + (b + e)
          BY <5>1
        <5>3. (a + (b + e)) % 2 = (b + e) % 2
          BY <5>1, <5>2, EvenMore
        <5>4. QED
          BY <5>1, <5>2, <5>3 DEF b, e
      <4>6. QED
        BY <3>1, <4>3, <4>5 DEF Ahead, x, w
    <3>8. H(l + 1, ReadOne(q))
      BY <2>3, <3>2, <3>6, <3>7, Zenon DEF Holds
    <3>9. Goal(loop[ReadOne(q)])
      <4>1. \A q2 \in Reader, l2 \in 0 .. L : L - l2 = d /\ H(l2, q2) => Goal(loop[q2])
        BY <1>4 DEF L
      <4> HIDE DEF H, Goal
      <4>2. QED
        BY <2>1, <2>7, <3>8, <4>1
    <3>10. QED
      BY <3>5, <3>9
  <2>13. QED
    BY <2>10, <2>11, <2>12
<1>5. Nat \subseteq T
  <2> HIDE DEF T
  <2>1. QED
    BY <1>3, <1>4, AllNumbers
<1>6. L - k \in T
  <2> HIDE DEF T
  <2>1. L - k \in Nat
    OBVIOUS
  <2>2. QED
    BY <1>5, <2>1
<1>7. Goal(loop[r])
  <2> HIDE DEF Goal, L
  <2>1. H(k, r) /\ k \in 0 .. L
    BY DEF L
  <2> HIDE DEF H
  <2>2. QED
    BY <1>6, <2>1
<1>8. QED
  BY <1>7


-----------------------------------------------------------------------------
(* The steps.                                                              *)

\* The newline that may follow an object.
LEMMA Separators ==
  ASSUME NEW s \in {<<>>, <<"blank">>}
  PROVE  /\ s \in Seq(Char) /\ Squeeze(s) = <<>> /\ QuoteCount(s) = 0
         /\ \A q \in Nat : q % 2 = 0 => Outside(q, s)
<1>1. s \in Seq(Char)
  <2>1. <<>> \in Seq(Char)
    OBVIOUS
  <2>2. <<"blank">> \in Seq(Char)
    BY DEF Char
  <2>3. QED
    BY <2>1, <2>2, Zenon
<1>2. Text(s) = {} /\ Quotes(s) = {}
  BY DEF Text, Quotes
<1>3. Squeeze(s) = <<>>
  BY <1>1, <1>2, SqueezeBlank
<1>4. \A i : Count({}, i) = 0
  <2>1. \A i : {} \cap (1 .. i) = {}
    OBVIOUS
  <2>2. QED
    BY <2>1, FS_EmptySet, Zenon DEF Count
<1>5. QuoteCount(s) = 0
  BY <1>2, <1>4 DEF QuoteCount
<1>6. ASSUME NEW q \in Nat, q % 2 = 0 PROVE Outside(q, s)
  <2>1. q + 0 = q
    OBVIOUS
  <2>2. \A i \in 1 .. Len(s) : (q + Count(Quotes(s), i)) % 2 = 0
    BY <1>2, <1>4, <1>6, <2>1
  <2>3. QED
    BY <2>2, Zenon DEF Outside
<1>7. QED
  BY <1>1, <1>3, <1>5, <1>6

\* Objects are sent behind everything else.
LEMMA ChainLonger ==
  ASSUME NEW ms \in Seq(Messages), NEW message \in Messages, NEW c, Chain(c, ms),
         \A m \in Messages : JsonValue(m) \in Seq(Char), NEW d,
         d = [i \in 0 .. Len(ms) + 1 |-> IF i <= Len(ms) THEN c[i] \o JsonValue(message) ELSE <<>>]
  PROVE  Chain(d, Append(ms, message))
<1> DEFINE n == Len(ms)
           v == JsonValue(message)
           all == Append(ms, message)
<1>1. /\ n \in Nat /\ Len(all) = n + 1 /\ all[n + 1] = message
      /\ \A i \in 1 .. n : all[i] = ms[i] /\ ms[i] \in Messages
  OBVIOUS
<1>2. v \in Seq(Char)
  OBVIOUS
<1>3. /\ \A i \in 0 .. n : c[i] \in Seq(Char)
      /\ c[n] = <<>>
      /\ \A i \in 0 .. n - 1 : c[i] = JsonValue(ms[i + 1]) \o c[i + 1]
  BY DEF Chain
<1>4. \A i \in 0 .. n + 1 : d[i] = IF i <= n THEN c[i] \o v ELSE <<>>
  OBVIOUS
<1>5. DOMAIN d = 0 .. n + 1 /\ d = [i \in DOMAIN d |-> d[i]]
  OBVIOUS
<1> HIDE DEF n, v, all
<1>6. ASSUME NEW i \in 0 .. n + 1 PROVE d[i] \in Seq(Char)
  <2>1. CASE i <= n
    <3>1. i \in 0 .. n
      BY <1>1, <2>1
    <3>2. c[i] \in Seq(Char) /\ d[i] = c[i] \o v
      BY <1>3, <1>4, <2>1, <3>1
    <3>3. QED
      BY <1>2, <3>2, Joined
  <2>2. CASE ~(i <= n)
    <3>1. d[i] = <<>>
      BY <1>4, <2>2
    <3>2. <<>> \in Seq(Char)
      OBVIOUS
    <3>3. QED
      BY <3>1, <3>2, Zenon
  <2>3. QED
    BY <2>1, <2>2
<1>7. d[n + 1] = <<>>
  <2>1. n + 1 \in 0 .. n + 1 /\ ~(n + 1 <= n)
    BY <1>1
  <2>2. QED
    BY <1>4, <2>1, Zenon
<1>8. ASSUME NEW i \in 0 .. n PROVE d[i] = JsonValue(all[i + 1]) \o d[i + 1]
  <2>1. i \in 0 .. n + 1 /\ i + 1 \in 1 .. n + 1 /\ i + 1 \in 0 .. n + 1 /\ i <= n
    BY <1>1
  <2>2. d[i] = c[i] \o v
    BY <1>4, <2>1
  <2>3. CASE i = n
    <3>1. d[i] = <<>> \o v /\ d[i + 1] = <<>> /\ JsonValue(all[i + 1]) = v
      BY <1>1, <1>3, <1>7, <2>2, <2>3 DEF v
    <3>2. <<>> \o v = v /\ v \o <<>> = v
      BY <1>2, ConcatEmptySeq
    <3>3. QED
      BY <3>1, <3>2
  <2>4. CASE i # n
    <3>1. i \in 0 .. n - 1 /\ i + 1 \in 1 .. n /\ i + 1 \in 0 .. n /\ i + 1 <= n
      BY <1>1, <2>4
    <3>2. all[i + 1] = ms[i + 1] /\ ms[i + 1] \in Messages
      BY <1>1, <3>1
    <3>3. d[i + 1] = c[i + 1] \o v /\ c[i + 1] \in Seq(Char)
      BY <1>3, <1>4, <2>1, <3>1
    <3>4. c[i] = JsonValue(ms[i + 1]) \o c[i + 1]
      BY <1>3, <3>1
    <3>5. JsonValue(ms[i + 1]) \in Seq(Char)
      BY <3>2
    <3>6. (JsonValue(ms[i + 1]) \o c[i + 1]) \o v = JsonValue(ms[i + 1]) \o (c[i + 1] \o v)
      BY <1>2, <3>3, <3>5, Associative
    <3>7. QED
      BY <2>2, <3>2, <3>3, <3>4, <3>6
  <2>5. QED
    BY <2>3, <2>4
<1>9. d \in [0 .. Len(all) -> Seq(Char)]
  BY <1>1, <1>5, <1>6
<1>10. d[Len(all)] = <<>>
  BY <1>1, <1>7
<1>11. \A i \in 0 .. Len(all) - 1 : d[i] = JsonValue(all[i + 1]) \o d[i + 1]
  <2>1. Len(all) - 1 = n
    BY <1>1
  <2>2. QED
    BY <1>8, <2>1
<1>12. QED
  BY <1>9, <1>10, <1>11 DEF Chain, all

LEMMA SendKeeps ==
  ASSUME PlainMessages, NEW ms, NEW coming, NEW buffer, NEW values,
         Consistent(ms, coming, buffer, values),
         NEW message \in Messages, NEW separator \in {<<>>, <<"blank">>}
  PROVE  Consistent(Append(ms, message), coming \o message \o separator, buffer, values)
<1> DEFINE n == Len(ms)
           v == JsonValue(message)
           all == Append(ms, message)
           part == coming \o message
           more == part \o separator
<1>1. ms \in Seq(Messages) /\ coming \in Seq(Char) /\ buffer \in Seq(Char)
  BY DEF Consistent
<1>2. PICK k \in 0 .. n, c \in [0 .. n -> Seq(Char)] :
        Holds(ms, k, c, values, buffer, coming) /\ NoMore(ms, k, buffer)
  BY DEF Consistent
<1>3. /\ message \in Seq(Char) /\ v \in Seq(Char) /\ v = Squeeze(message)
      /\ Len(v) > 1 /\ Outside(0, message) /\ QuoteCount(message) % 2 = 0
      /\ \A m \in Messages : JsonValue(m) \in Seq(Char)
  BY PlainObjects
<1>4. /\ separator \in Seq(Char) /\ Squeeze(separator) = <<>> /\ QuoteCount(separator) = 0
      /\ \A q \in Nat : q % 2 = 0 => Outside(q, separator)
  BY Separators
<1>5. part \in Seq(Char) /\ more \in Seq(Char)
  BY <1>1, <1>3, <1>4, Joined
<1>6. /\ Chain(c, ms) /\ values = Firsts(ms, k)
      /\ Squeeze(buffer) \o Squeeze(coming) = c[k]
      /\ Outside(0, buffer) /\ Outside(QuoteCount(buffer), coming)
      /\ (QuoteCount(buffer) + QuoteCount(coming)) % 2 = 0
  BY <1>2 DEF Holds, Ahead
<1>7. /\ n \in Nat /\ Len(all) = n + 1 /\ all[n + 1] = message /\ all \in Seq(Messages)
      /\ \A i \in 1 .. n : all[i] = ms[i]
  BY <1>1
<1>8. /\ Squeeze(buffer) \in Seq(Char) /\ Squeeze(coming) \in Seq(Char)
      /\ QuoteCount(buffer) \in Nat /\ QuoteCount(coming) \in Nat /\ QuoteCount(message) \in Nat
  BY <1>1, <1>3, SqueezeAt, QuoteCountType
<1> HIDE DEF n, v, all, part, more
<1>9. Squeeze(more) = Squeeze(coming) \o v
  <2>1. Squeeze(part) = Squeeze(coming) \o v
    BY <1>1, <1>3, SqueezeJoin DEF part
  <2>2. Squeeze(more) = Squeeze(part) \o <<>>
    BY <1>4, <1>5, SqueezeJoin DEF more
  <2>3. Squeeze(coming) \o v \in Seq(Char)
    BY <1>3, <1>8, Joined
  <2>4. (Squeeze(coming) \o v) \o <<>> = Squeeze(coming) \o v
    BY <2>3, ConcatEmptySeq
  <2>5. QED
    BY <2>1, <2>2, <2>4
<1>10. QuoteCount(more) = QuoteCount(coming) + QuoteCount(message)
  <2>1. QuoteCount(part) = QuoteCount(coming) + QuoteCount(message)
    BY <1>1, <1>3, QuotesJoin DEF part
  <2>2. QuoteCount(more) = QuoteCount(part) + 0
    BY <1>4, <1>5, QuotesJoin DEF more
  <2>3. QED
    BY <1>8, <2>1, <2>2
<1>11. /\ Outside(QuoteCount(buffer), more)
       /\ (QuoteCount(buffer) + QuoteCount(more)) % 2 = 0
  <2> DEFINE a == QuoteCount(buffer)
             b == QuoteCount(coming)
             e == QuoteCount(message)
  <2>1. a \in Nat /\ b \in Nat /\ e \in Nat /\ (a + b) % 2 = 0 /\ e % 2 = 0
    BY <1>3, <1>6, <1>8
  <2>2. Outside(a, coming) /\ Outside(0, message)
    BY <1>3, <1>6
  <2>3. QuoteCount(part) = b + e
    BY <1>1, <1>3, QuotesJoin DEF part
  <2> HIDE DEF a, b, e
  <2>4. a + b \in Nat /\ b + e \in Nat /\ (a + b) + e = a + (b + e) /\ (a + b) + 0 = a + b
        /\ a + (b + e) \in Nat /\ 0 \in Nat
    BY <2>1
  <2>5. Outside(a + b, message)
    <3>1. Outside((a + b) + 0, message)
      BY <1>3, <2>1, <2>2, <2>4, OutsideEven
    <3>2. QED
      BY <2>4, <3>1
  <2>6. Outside(a, part)
    BY <1>1, <1>3, <2>1, <2>2, <2>5, OutsideJoin DEF part, b
  <2>7. (a + (b + e)) % 2 = 0
    <3>1. ((a + b) + e) % 2 = e % 2
      BY <2>1, <2>4, EvenMore
    <3>2. QED
      BY <2>1, <2>4, <3>1
  <2>8. Outside(a + QuoteCount(part), separator)
    BY <1>4, <2>3, <2>4, <2>7
  <2>9. Outside(a, more)
    BY <1>4, <1>5, <2>1, <2>6, <2>8, OutsideJoin DEF more
  <2>10. (a + QuoteCount(more)) % 2 = 0
    BY <1>10, <2>7 DEF b, e
  <2>11. QED
    BY <2>9, <2>10 DEF a
<1> DEFINE d == [i \in 0 .. n + 1 |-> IF i <= n THEN c[i] \o v ELSE <<>>]
<1>12. Chain(d, all)
  <2>1. \E f : f = [i \in 0 .. Len(ms) + 1 |->
                      IF i <= Len(ms) THEN c[i] \o JsonValue(message) ELSE <<>>]
    OBVIOUS
  <2>2. QED
    BY <1>1, <1>3, <1>6, <2>1, ChainLonger DEF n, v, all
<1>13. d[k] = c[k] \o v /\ k \in 0 .. n /\ k \in Nat /\ k \in 0 .. Len(all)
  BY <1>7
<1> HIDE DEF d
<1>14. c[k] \in Seq(Char)
  BY <1>6, <1>13 DEF Chain, n
<1>15. Squeeze(buffer) \o Squeeze(more) = d[k]
  <2>1. (Squeeze(buffer) \o Squeeze(coming)) \o v = Squeeze(buffer) \o (Squeeze(coming) \o v)
    BY <1>3, <1>8, Associative, SMTT(60)
  <2>2. QED
    BY <1>6, <1>9, <1>13, <2>1
<1>16. values = Firsts(all, k)
  <2>1. \A i \in 1 .. k : all[i] = ms[i]
    BY <1>7, <1>13
  <2>2. Firsts(all, k) = Firsts(ms, k)
    BY <2>1 DEF Firsts
  <2>3. QED
    BY <1>6, <2>2
<1>17. NoMore(all, k, buffer)
  <2>1. CASE k < n
    <3>1. k + 1 \in 1 .. n
      BY <1>7, <1>13, <2>1
    <3>2. Len(Squeeze(buffer)) < Len(JsonValue(ms[k + 1]))
      BY <1>2, <2>1 DEF NoMore, n
    <3>3. QED
      BY <1>7, <3>1, <3>2 DEF NoMore
  <2>2. CASE k = n
    <3>1. Squeeze(buffer) \o Squeeze(coming) = <<>>
      BY <1>6, <2>2 DEF Chain, n
    <3>2. Squeeze(buffer) = <<>>
      BY <1>8, <3>1, ConcatEmptySeq
    <3>3. Len(Squeeze(buffer)) = 0
      BY <3>2
    <3>4. JsonValue(all[k + 1]) = v
      BY <1>7, <2>2 DEF v
    <3>5. QED
      BY <1>3, <3>3, <3>4 DEF NoMore
  <2>3. QED
    BY <1>7, <1>13, <2>1, <2>2
<1>18. Holds(all, k, d, values, buffer, more)
  BY <1>6, <1>11, <1>12, <1>15, <1>16 DEF Holds, Ahead
<1>19. d \in [0 .. Len(all) -> Seq(Char)]
  BY <1>12 DEF Chain
<1>20. QED
  BY <1>1, <1>5, <1>7, <1>13, <1>17, <1>18, <1>19 DEF Consistent, all, more, part

LEMMA ReadKeeps ==
  ASSUME PlainMessages, NEW ms, NEW coming, NEW buffer, NEW values,
         Consistent(ms, coming, buffer, values),
         NEW n \in 1 .. Len(coming),
         NEW result, result = ReadMessages(buffer \o SubSeq(coming, 1, n))
  PROVE  Consistent(ms, SubSeq(coming, n + 1, Len(coming)), result.buffer,
                    values \o result.values)
<1> DEFINE piece == SubSeq(coming, 1, n)
           rest == SubSeq(coming, n + 1, Len(coming))
           text == buffer \o piece
           r == [buffer |-> text, values |-> <<>>]
<1>1. ms \in Seq(Messages) /\ coming \in Seq(Char) /\ buffer \in Seq(Char)
  BY DEF Consistent
<1>2. PICK k \in 0 .. Len(ms), c \in [0 .. Len(ms) -> Seq(Char)] :
        Holds(ms, k, c, values, buffer, coming)
  BY DEF Consistent
<1>3. piece \in Seq(Char) /\ rest \in Seq(Char) /\ piece \o rest = coming
  <2>1. n \in 0 .. Len(coming)
    BY <1>1
  <2>2. QED
    BY <1>1, <2>1, Cut
<1>4. Len(ms) \in Nat /\ \A i \in 1 .. Len(ms) : ms[i] \in Messages
  BY <1>1
<1>5. \A i \in 1 .. Len(ms) : JsonValue(ms[i]) \in Seq(Char) /\ Proper(JsonValue(ms[i]))
  BY <1>4, PlainObjects
<1>6. /\ Chain(c, ms) /\ values = Firsts(ms, k)
      /\ Squeeze(buffer) \o Squeeze(coming) = c[k]
      /\ Outside(0, buffer) /\ Outside(QuoteCount(buffer), coming)
      /\ (QuoteCount(buffer) + QuoteCount(coming)) % 2 = 0
  BY <1>2 DEF Holds, Ahead
<1>7. values \in Seq(Seq(Char))
  <2>1. \A i \in 1 .. k : JsonValue(ms[i]) \in Seq(Char)
    BY <1>4, <1>5
  <2>2. k \in Nat
    BY <1>4
  <2>3. Firsts(ms, k) \in Seq(Seq(Char))
    BY <2>1, <2>2 DEF Firsts
  <2>4. QED
    BY <1>6, <2>3
<1>8. PICK loop : Reads(loop) /\ result = loop[r]
  BY ReadsTo
<1> HIDE DEF piece, rest
<1>9. text \in Seq(Char)
  BY <1>1, <1>3, Joined
<1>10. Ahead(text, rest, c[k])
  <2> DEFINE a == QuoteCount(buffer)
             b == QuoteCount(piece)
             e == QuoteCount(rest)
  <2>1. a \in Nat /\ b \in Nat /\ e \in Nat
    BY <1>1, <1>3, QuoteCountType
  <2>2. QuoteCount(text) = a + b /\ QuoteCount(coming) = b + e
    BY <1>1, <1>3, QuotesJoin
  <2>3. Squeeze(text) \o Squeeze(rest) = c[k]
    <3>1. Squeeze(text) = Squeeze(buffer) \o Squeeze(piece)
      BY <1>1, <1>3, SqueezeJoin
    <3>2. Squeeze(coming) = Squeeze(piece) \o Squeeze(rest)
      BY <1>3, SqueezeJoin
    <3>3. /\ Squeeze(buffer) \in Seq(Char) /\ Squeeze(piece) \in Seq(Char)
          /\ Squeeze(rest) \in Seq(Char)
      BY <1>1, <1>3, SqueezeAt
    <3>4. (Squeeze(buffer) \o Squeeze(piece)) \o Squeeze(rest)
            = Squeeze(buffer) \o (Squeeze(piece) \o Squeeze(rest))
      BY <3>3, Associative
    <3>5. QED
      BY <1>6, <3>1, <3>2, <3>4
  <2>4. Outside(a, piece) /\ Outside(a + b, rest)
    <3>1. Outside(a, piece \o rest)
      BY <1>3, <1>6
    <3>2. QED
      BY <1>3, <2>1, <3>1, OutsideJoin
  <2>5. Outside(0, text)
    <3>1. 0 + QuoteCount(buffer) = a /\ 0 \in Nat
      BY <2>1
    <3>2. Outside(0, buffer) /\ Outside(0 + QuoteCount(buffer), piece)
      BY <1>6, <2>4, <3>1
    <3>3. QED
      BY <1>1, <1>3, <3>1, <3>2, OutsideJoin
  <2>6. (QuoteCount(text) + e) % 2 = 0
    <3>1. (a + (b + e)) % 2 = 0
      BY <1>6, <2>2
    <3> HIDE DEF a, b, e
    <3>2. (a + b) + e = a + (b + e)
      BY <2>1
    <3>3. QED
      BY <2>2, <3>1, <3>2
  <2>7. QED
    BY <2>2, <2>3, <2>4, <2>5, <2>6 DEF Ahead
<1>11. r \in Reader
  <2>1. <<>> \in Seq(Seq(Char))
    OBVIOUS
  <2> HIDE DEF text
  <2>2. QED
    BY <1>9, <2>1 DEF Reader
<1>12. Holds(ms, k, c, values \o r.values, r.buffer, rest)
  <2>1. values \o <<>> = values
    BY <1>7, ConcatEmptySeq
  <2>2. r.values = <<>> /\ r.buffer = text
    OBVIOUS
  <2> HIDE DEF r, text
  <2>3. QED
    BY <1>6, <1>10, <2>1, <2>2, Zenon DEF Holds
<1> HIDE DEF r
<1>13. PICK l \in 0 .. Len(ms) :
         /\ Holds(ms, l, c, values \o loop[r].values, loop[r].buffer, rest)
         /\ NoMore(ms, l, loop[r].buffer)
  BY <1>3, <1>4, <1>5, <1>7, <1>8, <1>11, <1>12, LoopHolds
<1>14. result \in Reader /\ result.buffer \in Seq(Char)
  BY <1>8, <1>11 DEF Reads, Reader
<1>15. QED
  BY <1>1, <1>3, <1>8, <1>13, <1>14 DEF Consistent, rest

-----------------------------------------------------------------------------
(* The theorems.                                                           *)

\* The buffer and what is on its way are always the objects that were not processed
\* yet, and the buffer never holds one of them whole: for objects without escaped
\* quotes and without blanks in strings (JsonRpc::_read).
THEOREM AlwaysConsistent ==
  ASSUME PlainMessages
  PROVE  Spec => []JsonInv
<1>1. Consistent(<<>>, <<>>, <<>>, <<>>)
  <2> DEFINE c == [i \in 0 .. 0 |-> <<>>]
  <2>1. Squeeze(<<>>) = <<>> /\ QuoteCount(<<>>) = 0
    BY Separators
  <2>2. <<>> \in Seq(Char) /\ <<>> \in Seq(Messages) /\ Len(<<>>) = 0 /\ <<>> \o <<>> = <<>>
    OBVIOUS
  <2>3. c \in [0 .. 0 -> Seq(Char)] /\ c[0] = <<>> /\ 0 .. 0 - 1 = {} /\ 0 \in 0 .. 0
    OBVIOUS
  <2> HIDE DEF c
  <2>4. Chain(c, <<>>)
    BY <2>2, <2>3 DEF Chain
  <2>5. Outside(0, <<>>)
    BY <2>2 DEF Outside
  <2>6. Ahead(<<>>, <<>>, c[0])
    BY <2>1, <2>2, <2>3, <2>5 DEF Ahead
  <2>7. <<>> = Firsts(<<>>, 0)
    BY DEF Firsts
  <2>8. Holds(<<>>, 0, c, <<>>, <<>>, <<>>)
    BY <2>4, <2>6, <2>7 DEF Holds
  <2>9. NoMore(<<>>, 0, <<>>)
    BY <2>2 DEF NoMore
  <2>10. 0 \in 0 .. Len(<<>>)
    BY <2>2
  <2>11. c \in [0 .. Len(<<>>) -> Seq(Char)]
    BY <2>2, <2>3, Zenon
  <2>12. QED
    BY <2>2, <2>8, <2>9, <2>10, <2>11, Zenon DEF Consistent
<1>2. Init => JsonInv
  BY <1>1 DEF Init, JsonInv
<1>3. JsonInv /\ [Next]_vars => JsonInv'
  <2> SUFFICES ASSUME JsonInv, [Next]_vars PROVE JsonInv'
    OBVIOUS
  <2>1. Consistent(sent, wire, currentMsg, received)
    BY DEF JsonInv
  <2>2. ASSUME NEW message \in Messages, Send(message) PROVE JsonInv'
    <3>1. PICK separator \in {<<>>, <<"blank">>} : wire' = wire \o message \o separator
      BY <2>2 DEF Send
    <3>2. sent' = Append(sent, message) /\ currentMsg' = currentMsg /\ received' = received
      BY <2>2 DEF Send
    <3>3. Consistent(sent', wire', currentMsg', received')
      BY <2>1, <3>1, <3>2, SendKeeps
    <3>4. QED
      BY <3>3 DEF JsonInv
  <2>3. ASSUME NEW n \in 1 .. Len(wire), Read(n) PROVE JsonInv'
    <3> DEFINE result == ReadMessages(currentMsg \o SubSeq(wire, 1, n))
    <3>1. /\ wire' = SubSeq(wire, n + 1, Len(wire)) /\ currentMsg' = result.buffer
          /\ received' = received \o result.values /\ sent' = sent
      BY <2>3 DEF Read
    <3>2. Consistent(sent, SubSeq(wire, n + 1, Len(wire)), result.buffer,
                     received \o result.values)
      BY <2>1, ReadKeeps
    <3> HIDE DEF result
    <3>3. Consistent(sent', wire', currentMsg', received')
      BY <3>1, <3>2, Zenon
    <3>4. QED
      BY <3>3 DEF JsonInv
  <2>4. CASE OnClientDisconnect
    BY <1>1, <2>4 DEF OnClientDisconnect, JsonInv
  <2>5. CASE UNCHANGED vars
    BY <2>1, <2>5 DEF vars, JsonInv
  <2>6. QED
    BY <2>2, <2>3, <2>4, <2>5 DEF Next
<1>4. QED
  BY <1>2, <1>3, PTL DEF Spec

\* The values of objects.
LEMMA FirstsOf ==
  ASSUME NEW ms \in Seq(Messages), NEW k \in 0 .. Len(ms), NEW all, all = Firsts(ms, Len(ms))
  PROVE  /\ Firsts(ms, k) \in Seq(Seq(Char)) /\ Len(Firsts(ms, k)) = k
         /\ all \in Seq(Seq(Char)) /\ Len(all) = Len(ms)
         /\ SubSeq(all, 1, k) = Firsts(ms, k)
<1> DEFINE n == Len(ms)
           V == Seq(Char)
           s == Firsts(ms, k)
<1>1. n \in Nat /\ \A i \in 1 .. n : JsonValue(ms[i]) \in V
  <2>1. \A i \in 1 .. n : ms[i] \in Messages
    OBVIOUS
  <2>2. \A m \in Messages : m \in Seq(Char)
    BY JsonFramingAssumption
  <2>3. QED
    BY <2>1, <2>2, JsonValueType
<1> HIDE DEF n, V
<1>2. k \in Nat /\ k <= n
  BY <1>1 DEF n
<1>3. all = [i \in 1 .. n |-> JsonValue(ms[i])]
  BY DEF Firsts, n
<1>4. all \in Seq(V) /\ Len(all) = n /\ \A i \in 1 .. n : all[i] = JsonValue(ms[i])
  BY <1>1, <1>3
<1>5. s \in Seq(V) /\ Len(s) = k /\ \A i \in 1 .. k : s[i] = JsonValue(ms[i])
  <2>1. \A i \in 1 .. k : JsonValue(ms[i]) \in V
    BY <1>1, <1>2
  <2>2. QED
    BY <1>2, <2>1 DEF Firsts
<1> HIDE DEF s
<1> DEFINE u == SubSeq(all, 1, k)
<1>6. u = s
  <2>1. \A i \in 1 .. k : all[i] \in V
    BY <1>1, <1>2, <1>4
  <2>2. /\ u \in Seq(V) /\ Len(u) = IF 1 <= k THEN k - 1 + 1 ELSE 0
        /\ \A i \in 1 .. k - 1 + 1 : u[i] = all[1 + i - 1]
    BY <1>1, <1>2, <2>1, SubSeqProperties
  <2> HIDE DEF u
  <2>3. Len(u) = k
    BY <1>2, <2>2
  <2>4. ASSUME NEW i \in 1 .. k PROVE u[i] = s[i]
    <3>1. i \in 1 .. k - 1 + 1 /\ 1 + i - 1 = i /\ i \in 1 .. n
      BY <1>1, <1>2
    <3>2. u[i] = all[i]
      BY <2>2, <3>1
    <3>3. QED
      BY <1>4, <1>5, <3>1, <3>2
  <2>5. QED
    BY <1>5, <2>2, <2>3, <2>4, SeqEqual
<1>7. QED
  BY <1>4, <1>5, <1>6 DEF n, V, s, u

LEMMA ValuesAre ==
  ASSUME NEW ms \in Seq(Messages)
  PROVE  [i \in DOMAIN ms |-> ValueOf[ms[i]]] = Firsts(ms, Len(ms))
<1>1. DOMAIN ms = 1 .. Len(ms) /\ \A i \in 1 .. Len(ms) : ms[i] \in Messages
  OBVIOUS
<1>2. \A i \in 1 .. Len(ms) : ValueOf[ms[i]] = JsonValue(ms[i])
  BY <1>1 DEF ValueOf
<1>3. QED
  BY <1>1, <1>2, Zenon DEF Firsts

\* What was processed are the first objects, and all when nothing is on its way.
LEMMA ConsistentMeans ==
  ASSUME PlainMessages, NEW ms, NEW coming, NEW buffer, NEW values,
         Consistent(ms, coming, buffer, values)
  PROVE  /\ ms \in Seq(Messages)
         /\ \E k \in 0 .. Len(ms) : values = Firsts(ms, k)
         /\ coming = <<>> => values = Firsts(ms, Len(ms))
<1> DEFINE n == Len(ms)
<1>1. ms \in Seq(Messages) /\ buffer \in Seq(Char) /\ n \in Nat
  BY DEF Consistent
<1>2. PICK k \in 0 .. n, c \in [0 .. n -> Seq(Char)] :
        Holds(ms, k, c, values, buffer, coming) /\ NoMore(ms, k, buffer)
  BY DEF Consistent
<1>3. /\ Chain(c, ms) /\ values = Firsts(ms, k)
      /\ Squeeze(buffer) \o Squeeze(coming) = c[k]
  BY <1>2 DEF Holds, Ahead
<1>4. ASSUME coming = <<>> PROVE k = n
  <2>1. Squeeze(buffer) = c[k]
    <3>1. Squeeze(coming) = <<>>
      BY <1>4, Separators
    <3>2. Squeeze(buffer) \in Seq(Char)
      BY <1>1, SqueezeAt
    <3>3. Squeeze(buffer) \o <<>> = Squeeze(buffer)
      BY <3>2, ConcatEmptySeq
    <3>4. QED
      BY <1>3, <3>1, <3>3
  <2> SUFFICES ASSUME k # n PROVE FALSE
    OBVIOUS
  <2> DEFINE v == JsonValue(ms[k + 1])
  <2>2. k < n /\ k \in 0 .. n - 1 /\ k + 1 \in 1 .. n /\ k + 1 \in 0 .. n
    BY <1>1
  <2>3. v \in Seq(Char)
    BY <1>1, <2>2, PlainObjects
  <2>4. c[k] = v \o c[k + 1] /\ c[k + 1] \in Seq(Char)
    BY <1>3, <2>2 DEF Chain
  <2>5. Len(Squeeze(buffer)) < Len(v)
    BY <1>2, <2>2 DEF NoMore
  <2> HIDE DEF v, n
  <2>6. Len(v \o c[k + 1]) = Len(v) + Len(c[k + 1]) /\ Len(v) \in Nat /\ Len(c[k + 1]) \in Nat
    BY <2>3, <2>4, Joined
  <2>7. QED
    BY <2>1, <2>4, <2>5, <2>6
<1>5. QED
  BY <1>1, <1>3, <1>4

\* In whichever pieces the characters arrive, the values of such objects are
\* processed unchanged and in order.
THEOREM ValuesInOrder ==
  ASSUME PlainMessages
  PROVE  Spec => []InOrder
<1>1. JsonInv => InOrder
  <2> SUFFICES ASSUME JsonInv PROVE InOrder
    OBVIOUS
  <2>1. /\ sent \in Seq(Messages)
        /\ \E k \in 0 .. Len(sent) : received = Firsts(sent, k)
    BY ConsistentMeans DEF JsonInv
  <2>2. PICK k \in 0 .. Len(sent) : received = Firsts(sent, k)
    BY <2>1
  <2>3. Values = Firsts(sent, Len(sent))
    BY <2>1, ValuesAre DEF Values
  <2>4. /\ received \in Seq(Seq(Char)) /\ Len(received) = k
        /\ Len(Values) = Len(sent) /\ SubSeq(Values, 1, k) = received
    BY <2>1, <2>2, <2>3, FirstsOf
  <2>5. SubSeq(received, 1, k) = received
    BY <2>4, SubSeqFull
  <2>6. k <= Len(sent)
    BY <2>1
  <2>7. QED
    BY <2>4, <2>5, <2>6, Zenon DEF InOrder, IsPrefix
<1>2. QED
  BY <1>1, AlwaysConsistent, PTL

\* Such an object is processed as soon as its last character arrived.
THEOREM EveryObjectIsProcessed ==
  ASSUME PlainMessages
  PROVE  Spec => []NothingHeldBack
<1>1. JsonInv => NothingHeldBack
  <2> SUFFICES ASSUME JsonInv, wire = <<>> PROVE Len(received) = Len(sent)
    BY DEF NothingHeldBack
  <2>1. sent \in Seq(Messages) /\ received = Firsts(sent, Len(sent))
    BY ConsistentMeans DEF JsonInv
  <2>2. Len(sent) \in 0 .. Len(sent)
    BY <2>1
  <2>3. QED
    BY <2>1, <2>2, FirstsOf
<1>2. QED
  BY <1>1, AlwaysConsistent, PTL

\* One object more.
LEMMA FirstsAppend ==
  ASSUME NEW ms \in Seq(Messages), NEW m \in Messages, NEW all, all = Append(ms, m)
  PROVE  Firsts(all, Len(all)) = Append(Firsts(ms, Len(ms)), JsonValue(m))
<1> DEFINE n == Len(ms)
           s == Firsts(ms, n)
           u == Firsts(all, Len(all))
           v == JsonValue(m)
<1>1. /\ n \in Nat /\ Len(all) = n + 1 /\ all[n + 1] = m /\ all \in Seq(Messages)
      /\ \A i \in 1 .. n : all[i] = ms[i]
  OBVIOUS
<1>2. n \in 0 .. Len(ms) /\ Len(all) \in 0 .. Len(all)
  BY <1>1
<1>3. /\ s \in Seq(Seq(Char)) /\ Len(s) = n /\ u \in Seq(Seq(Char)) /\ Len(u) = n + 1
  BY <1>1, <1>2, FirstsOf
<1>4. v \in Seq(Char)
  BY JsonFramingAssumption, JsonValueType
<1>5. /\ \A i \in 1 .. n : s[i] = JsonValue(ms[i])
      /\ \A i \in 1 .. n + 1 : u[i] = JsonValue(all[i])
  BY <1>1 DEF Firsts
<1> HIDE DEF n, s, u, v
<1>6. /\ Append(s, v) \in Seq(Seq(Char)) /\ Len(Append(s, v)) = n + 1
      /\ Append(s, v)[n + 1] = v /\ \A i \in 1 .. n : Append(s, v)[i] = s[i]
  BY <1>3, <1>4, AppendProperties
<1>7. \A i \in 1 .. n + 1 : u[i] = Append(s, v)[i]
  <2> SUFFICES ASSUME NEW i \in 1 .. n + 1 PROVE u[i] = Append(s, v)[i]
    OBVIOUS
  <2>1. CASE i \in 1 .. n
    BY <1>1, <1>5, <1>6, <2>1
  <2>2. CASE i \notin 1 .. n
    <3>1. i = n + 1
      BY <1>1, <2>2
    <3>2. u[i] = v
      BY <1>1, <1>5, <3>1 DEF v
    <3>3. QED
      BY <1>6, <3>1, <3>2
  <2>3. QED
    BY <2>1, <2>2
<1>8. QED
  BY <1>3, <1>6, <1>7, SeqEqual DEF s, u, v, n

\* What is put behind a sequence makes it no shorter.
LEMMA Lengthened ==
  ASSUME NEW S, NEW s \in Seq(S), NEW t \in Seq(S)
  PROVE  Len(s \o t) = Len(s) + Len(t) /\ Len(s) \in Nat /\ Len(t) \in Nat
OBVIOUS

\* Every step of such a connection is one of the channel, or changes nothing of it.
LEMMA NextChannel ==
  ASSUME PlainMessages, JsonInv, JsonInv', [Next]_vars
  PROVE  [Channel!Next]_(Channel!vars)
<1>1. /\ sent \in Seq(Messages) /\ \E k \in 0 .. Len(sent) : received = Firsts(sent, k)
  BY ConsistentMeans DEF JsonInv
<1>2. /\ sent' \in Seq(Messages) /\ \E k \in 0 .. Len(sent') : received' = Firsts(sent', k)
      /\ wire' = <<>> => received' = Firsts(sent', Len(sent'))
  BY ConsistentMeans DEF JsonInv
<1>3. Values = Firsts(sent, Len(sent)) /\ Values' = Firsts(sent', Len(sent'))
  BY <1>1, <1>2, ValuesAre DEF Values
<1>4. ASSUME NEW m \in Messages, Send(m) PROVE Channel!Next
  <2>1. Values' = Append(Values, JsonValue(m))
    BY <1>1, <1>3, <1>4, FirstsAppend DEF Send
  <2>2. wire' # <<>>
    <3>1. PICK separator \in {<<>>, <<"blank">>} : wire' = wire \o m \o separator
      BY <1>4 DEF Send
    <3>2. /\ wire \in Seq(Char) /\ m \in Seq(Char) /\ separator \in Seq(Char)
          /\ Len(m) > 1
      <4>1. Len(m) > 1 /\ m \in Seq(Char)
        BY JsonFramingAssumption DEF IsObject
      <4>2. QED
        BY <4>1, Separators DEF JsonInv, Consistent
    <3>3. /\ wire \o m \in Seq(Char) /\ Len(wire \o m) = Len(wire) + Len(m)
          /\ Len(wire) \in Nat /\ Len(m) \in Nat
      BY <3>2, Joined
    <3>4. Len(wire \o m \o separator) = Len(wire \o m) + Len(separator) /\ Len(separator) \in Nat
      BY <3>2, <3>3, Joined
    <3>5. Len(wire') > 0
      BY <3>1, <3>2, <3>3, <3>4
    <3>6. QED
      BY <3>5
  <2>3. JsonValue(m) \in Range(ValueOf)
    <3>1. DOMAIN ValueOf = Messages /\ ValueOf[m] = JsonValue(m)
      BY DEF ValueOf
    <3>2. QED
      BY <3>1 DEF Range
  <2>4. received' = received
    BY <1>4 DEF Send
  <2>5. (wire # <<>>)' = TRUE
    BY <2>2
  <2>6. Channel!Send(JsonValue(m))
    BY <2>1, <2>4, <2>5 DEF Channel!Send
  <2>7. QED
    BY <2>3, <2>6 DEF Channel!Next
<1>5. ASSUME NEW n \in 1 .. Len(wire), Read(n) PROVE Channel!Next
  <2>1. sent' = sent /\ wire # <<>>
    BY <1>5 DEF Read
  <2>2. PICK k \in 0 .. Len(sent) : received = Firsts(sent, k)
    BY <1>1
  <2>3. PICK l \in 0 .. Len(sent) : received' = Firsts(sent, l)
    BY <1>2, <2>1
  <2>4. /\ received \in Seq(Seq(Char)) /\ Len(received) = k
        /\ Values \in Seq(Seq(Char)) /\ Len(Values) = Len(sent)
    BY <1>1, <1>3, <2>2, FirstsOf
  <2>5. received' \in Seq(Seq(Char)) /\ Len(received') = l /\ SubSeq(Values, 1, l) = received'
    BY <1>1, <1>3, <2>3, FirstsOf
  <2> DEFINE text == currentMsg \o SubSeq(wire, 1, n)
             result == ReadMessages(text)
  <2>6. result.values \in Seq(Seq(Char))
    <3>1. wire \in Seq(Char) /\ currentMsg \in Seq(Char) /\ n \in 0 .. Len(wire)
      BY DEF JsonInv, Consistent
    <3>2. text \in Seq(Char)
      <4>1. SubSeq(wire, 1, n) \in Seq(Char)
        BY <3>1, Cut
      <4>2. QED
        BY <3>1, <4>1, Joined
    <3> HIDE DEF text
    <3>3. [buffer |-> text, values |-> <<>>] \in Reader
      <4>1. <<>> \in Seq(Seq(Char))
        OBVIOUS
      <4>2. QED
        BY <3>2, <4>1 DEF Reader
    <3>4. PICK loop : Reads(loop) /\ result = loop[[buffer |-> text, values |-> <<>>]]
      BY ReadsTo
    <3>5. result \in Reader
      BY <3>3, <3>4 DEF Reads
    <3>6. QED
      BY <3>5 DEF Reader
  <2>7. received' = received \o result.values
    BY <1>5 DEF Read
  <2> HIDE DEF result
  <2>8. k <= l
    <3>1. Len(received \o result.values) = Len(received) + Len(result.values)
          /\ Len(result.values) \in Nat /\ Len(received) \in Nat
      BY <2>4, <2>6, Lengthened
    <3>2. QED
      BY <2>4, <2>5, <2>7, <3>1
  <2>9. k + (l - k) = l /\ l - k \in 0 .. Len(sent) - k
    <3>1. Len(sent) \in Nat
      BY <1>1
    <3>2. QED
      BY <2>8, <3>1
  <2>10. Values' = Values
    BY <1>3, <2>1
  <2>11. (wire # <<>>)' \in BOOLEAN
    OBVIOUS
  <2>12. ~(wire # <<>>)' => received' = Values
    BY <1>2, <1>3, <2>1
  <2>13. Channel!Arrive(l - k)
    BY <2>1, <2>4, <2>5, <2>9, <2>10, <2>11, <2>12 DEF Channel!Arrive
  <2>14. l - k \in 0 .. Len(Values) - Len(received)
    BY <2>4, <2>9
  <2>15. QED
    BY <2>13, <2>14 DEF Channel!Next
<1>6. CASE OnClientDisconnect
  <2>1. sent' = <<>> /\ wire' = <<>> /\ received' = <<>>
    BY <1>6 DEF OnClientDisconnect
  <2>2. Values' = <<>>
    BY <1>3, <2>1 DEF Firsts
  <2>3. (wire # <<>>)' = FALSE
    BY <2>1
  <2>4. QED
    BY <2>1, <2>2, <2>3 DEF Channel!Next, Channel!Reconnect
<1>7. CASE UNCHANGED vars
  <2>1. sent' = sent /\ wire' = wire /\ received' = received
    BY <1>7 DEF vars
  <2>2. Values' = Values /\ (wire # <<>>)' = (wire # <<>>)
    BY <1>3, <2>1
  <2>3. QED
    BY <2>1, <2>2 DEF Channel!vars
<1>8. QED
  BY <1>4, <1>5, <1>6, <1>7 DEF Next

\* A connection is a channel for such objects (JsonRpc::_read): a read takes nothing
\* back and hands nothing over twice, and what is left incomplete by one read is
\* handed over by the read that brings its end.
THEOREM ObjectsAreMessages ==
  ASSUME PlainMessages
  PROVE  Spec => ImplementsChannel
<1>1. Init => Channel!Init
  <2> SUFFICES ASSUME Init PROVE Channel!Init
    OBVIOUS
  <2>1. sent = <<>> /\ wire = <<>> /\ received = <<>>
    BY DEF Init
  <2>2. <<>> \in Seq(Messages) /\ Len(<<>>) = 0
    OBVIOUS
  <2>3. Values = Firsts(<<>>, 0)
    BY <2>1, <2>2, ValuesAre DEF Values
  <2>4. Values = <<>>
    BY <2>3 DEF Firsts
  <2>5. (wire # <<>>) = FALSE
    BY <2>1
  <2>6. QED
    BY <2>1, <2>4, <2>5 DEF Channel!Init
<1>2. JsonInv /\ JsonInv' /\ [Next]_vars => [Channel!Next]_(Channel!vars)
  BY NextChannel
<1>3. QED
  BY <1>1, <1>2, AlwaysConsistent, PTL DEF Spec, ImplementsChannel, Channel!Spec
=============================================================================
