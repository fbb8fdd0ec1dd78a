------------------------- MODULE GPGNetFramingProofs -------------------------
(***************************************************************************)
(* Theorems about GPGNetFraming.tla: whatever pieces the bytes of messages *)
(* arrive in, parse finds the messages again.                              *)
(***************************************************************************)
EXTENDS GPGNetFraming, SequenceTheorems, WellFoundedInduction, TLAPS

-----------------------------------------------------------------------------
(* Numbers, and functions defined by recursion.                            *)

\* Of any numbers one is the least.
LEMMA LeastNumber ==
  ASSUME NEW T \in SUBSET Nat, T # {}
  PROVE  \E x \in T : \A y \in T : x <= y
<1> DEFINE R == {ss \in Nat \X Nat : ss[1] < ss[2]}
<1>1. IsWellFoundedOn(R, Nat)
  BY NatLessThanWellFounded DEF OpToRel
<1>2. PICK x \in T : \A y \in T : <<y, x>> \notin R
  <2> HIDE DEF R
  <2>1. QED
    BY <1>1, WFMin
<1>3. \A y \in T : x <= y
  <2> SUFFICES ASSUME NEW y \in T PROVE x <= y
    OBVIOUS
  <2>1. <<y, x>> \in Nat \X Nat /\ <<y, x>>[1] = y /\ <<y, x>>[2] = x
    OBVIOUS
  <2>2. ~(y < x)
    BY <1>2, <2>1
  <2>3. QED
    BY <2>2
<1>4. QED
  BY <1>3

\* A set with the successors of its members, and with 0, has all numbers.
LEMMA AllNumbers ==
  ASSUME NEW T, 0 \in T, \A n \in Nat : n \in T => n + 1 \in T
  PROVE  Nat \subseteq T
<1> DEFINE Bad == Nat \ T
<1>1. SUFFICES ASSUME Bad # {} PROVE FALSE
  OBVIOUS
<1>2. PICK x \in Bad : \A y \in Bad : x <= y
  <2>1. Bad \in SUBSET Nat
    OBVIOUS
  <2> HIDE DEF Bad
  <2>2. QED
    BY <1>1, <2>1, LeastNumber
<1>3. x \in Nat /\ x # 0 /\ x - 1 \in Nat
  OBVIOUS
<1>4. x - 1 \in T
  BY <1>2, <1>3
<1>5. (x - 1) + 1 \in T
  BY <1>3, <1>4
<1>6. QED
  BY <1>2, <1>3, <1>5

\* A loop that gets nearer to its end with every pass has a result.
Loops(g, R, next, stops) ==
  \A r \in R : g[r] = IF r \in stops THEN r ELSE g[next[r]]

LEMMA LoopEnds ==
  ASSUME NEW R, NEW m \in [R -> Nat], NEW next \in [R -> R], NEW stops,
         \A r \in R \ stops : m[next[r]] < m[r]
  PROVE  \E g \in [R -> R] : Loops(g, R, next, stops)
<1> DEFINE Upto(g, n) ==
             /\ g \in [R -> R]
             /\ \A r \in R : m[r] < n => g[r] = IF r \in stops THEN r ELSE g[next[r]]
           T == {n \in Nat : \E g : Upto(g, n)}
<1>1. \A n \in Nat : \E g : Upto(g, n)
  <2>1. 0 \in T
    <3> DEFINE g == [r \in R |-> r]
    <3>1. \A r \in R : ~(m[r] < 0)
      OBVIOUS
    <3>2. Upto(g, 0)
      BY <3>1
    <3>3. QED
      BY <3>2
  <2>2. ASSUME NEW n \in Nat, n \in T PROVE n + 1 \in T
    <3>1. PICK g : Upto(g, n)
      BY <2>2
    <3> DEFINE h == [r \in R |-> IF m[r] < n THEN g[r]
                                 ELSE IF r \in stops THEN r ELSE g[next[r]]]
    <3>2. h \in [R -> R]
      BY <3>1
    <3>3. ASSUME NEW r \in R, m[r] < n + 1
          PROVE  h[r] = IF r \in stops THEN r ELSE h[next[r]]
      <4>1. CASE r \in stops
        BY <3>1, <4>1
      <4>2. CASE r \notin stops
        <5>1. next[r] \in R /\ m[next[r]] < m[r] /\ m[next[r]] \in Nat /\ m[r] \in Nat
          BY <4>2
        <5>2. m[next[r]] < n
          BY <3>3, <5>1
        <5>3. h[next[r]] = g[next[r]]
          BY <5>1, <5>2
        <5>4. h[r] = g[next[r]]
          BY <3>1, <4>2
        <5>5. QED
          BY <4>2, <5>3, <5>4
      <4>3. QED
        BY <4>1, <4>2
    <3>4. Upto(h, n + 1)
      BY <3>2, <3>3
    <3> HIDE DEF h, Upto
    <3>5. QED
      BY <3>4
  <2>3. Nat \subseteq T
    <3> HIDE DEF T
    <3>1. QED
      BY <2>1, <2>2, AllNumbers
  <2> HIDE DEF Upto
  <2>4. QED
    BY <2>3, Zenon
<1>2. ASSUME NEW n \in Nat, NEW k \in Nat, NEW g, NEW h, Upto(g, n), Upto(h, k),
             NEW x \in R, m[x] < n, m[x] < k
      PROVE  g[x] = h[x]
  <2> DEFINE Bad == {i \in Nat : \E r \in R : m[r] = i /\ i < n /\ i < k /\ g[r] # h[r]}
  <2>1. SUFFICES ASSUME Bad # {} PROVE FALSE
    BY <1>2
  <2>2. PICK i \in Bad : \A j \in Bad : i <= j
    <3>1. Bad \in SUBSET Nat
      OBVIOUS
    <3> HIDE DEF Bad
    <3>2. QED
      BY <2>1, <3>1, LeastNumber
  <2>3. PICK r \in R : m[r] = i /\ i < n /\ i < k /\ g[r] # h[r]
    BY <2>2
  <2>4. r \notin stops
    BY <1>2, <2>3
  <2>5. next[r] \in R /\ m[next[r]] < i /\ m[next[r]] \in Nat
    BY <2>3, <2>4
  <2>6. g[next[r]] # h[next[r]]
    BY <1>2, <2>3, <2>4
  <2>7. m[next[r]] \in Bad
    BY <2>3, <2>5, <2>6
  <2>8. QED
    BY <2>2, <2>5, <2>7
<1> DEFINE G == [n \in Nat |-> CHOOSE g : Upto(g, n)]
           h == [r \in R |-> G[m[r] + 1][r]]
<1>3. \A n \in Nat : Upto(G[n], n)
  BY <1>1
<1> HIDE DEF G
<1>4. ASSUME NEW r \in R PROVE h[r] = IF r \in stops THEN r ELSE h[next[r]]
  <2> DEFINE n == m[r] + 1
  <2>1. n \in Nat /\ m[r] < n
    OBVIOUS
  <2>2. G[n][r] = IF r \in stops THEN r ELSE G[n][next[r]]
    BY <1>3, <2>1
  <2>3. CASE r \in stops
    BY <2>2, <2>3
  <2>4. CASE r \notin stops
    <3> DEFINE k == m[next[r]] + 1
    <3>1. next[r] \in R /\ m[next[r]] \in Nat /\ m[next[r]] < n /\ k \in Nat
          /\ m[next[r]] < k
      BY <2>1, <2>4
    <3>2. Upto(G[n], n) /\ Upto(G[k], k)
      BY <1>3, <2>1, <3>1
    <3> HIDE DEF n, k, Upto
    <3>3. G[n][next[r]] = G[k][next[r]]
      BY <1>2, <2>1, <3>1, <3>2
    <3>4. h[next[r]] = G[k][next[r]] /\ h[r] = G[n][r]
      BY <3>1 DEF n, k
    <3>5. QED
      BY <2>2, <2>4, <3>3, <3>4
  <2>5. QED
    BY <2>3, <2>4
<1>5. h \in [R -> R]
  BY <1>3
<1> HIDE DEF h
<1>6. QED
  BY <1>4, <1>5 DEF Loops

-----------------------------------------------------------------------------
(* Integers as bytes.                                                      *)

\* Bytes as numbers with bounds, which is how the provers use them.
LEMMA Bytes == \A b : b \in Byte <=> b \in Int /\ 0 <= b /\ b < 256
  BY DEF Byte

\* What ReadInt32 makes of the four bytes of a number is the number.
LEMMA Int32Bytes ==
  ASSUME NEW n \in Int32s
  PROVE  /\ Int32(n) \in Seq(Byte) /\ Len(Int32(n)) = 4
         /\ \A s, it : (\A j \in 1 .. 4 : s[it + j] = Int32(n)[j]) => ReadInt32(s, it) = n
<1> DEFINE d1 == n \div 256
           d2 == n \div 65536
           d3 == n \div 16777216
<1>1. /\ n % 256 \in Byte /\ n = 256 * d1 + (n % 256) /\ d1 \in Int
      /\ d1 % 256 \in Byte /\ d2 % 256 \in Byte /\ d3 % 256 \in Byte
      /\ d2 \in Int /\ d3 \in Int
  <2>1. n \in Int
    BY DEF Int32s
  <2>2. d1 \in Int /\ d2 \in Int /\ d3 \in Int
    BY <2>1
  <2>3. n = 256 * d1 + (n % 256)
    BY <2>1
  <2>4. \A k \in Int : k % 256 \in Byte
    BY Bytes
  <2> HIDE DEF d1, d2, d3
  <2>5. QED
    BY <2>1, <2>2, <2>3, <2>4
<1>2. d1 = 256 * d2 + (d1 % 256)
  <2> DEFINE e == d1 \div 256
  <2>1. d1 = 256 * e + (d1 % 256) /\ e \in Int /\ d1 % 256 >= 0 /\ d1 % 256 < 256
    BY <1>1, Bytes
  <2>2. n = 65536 * d2 + (n % 65536) /\ n % 65536 >= 0 /\ n % 65536 < 65536
    BY DEF Int32s
  <2>3. n \in Int /\ n % 256 >= 0 /\ n % 256 < 256 /\ n % 65536 \in Int
    BY <1>1, <2>2, Bytes DEF Int32s
  <2> HIDE DEF e, d1, d2
  <2>4. e = d2
    BY <1>1, <2>1, <2>2, <2>3
  <2>5. QED
    BY <2>1, <2>4
<1>3. d2 = 256 * d3 + (d2 % 256)
  <2> DEFINE e == d2 \div 256
  <2>1. d2 = 256 * e + (d2 % 256) /\ e \in Int /\ d2 % 256 >= 0 /\ d2 % 256 < 256
    BY <1>1, Bytes
  <2>2. n = 65536 * d2 + (n % 65536) /\ n % 65536 >= 0 /\ n % 65536 < 65536
        /\ n = 16777216 * d3 + (n % 16777216) /\ n % 16777216 >= 0 /\ n % 16777216 < 16777216
    BY DEF Int32s
  <2>3. n \in Int /\ n % 65536 \in Int /\ n % 16777216 \in Int
    BY <2>2 DEF Int32s
  <2> HIDE DEF e, d2, d3
  <2>4. e = d3
    BY <1>1, <2>1, <2>2, <2>3
  <2>5. QED
    BY <2>1, <2>4
<1>4. d3 \in -128 .. 127
  BY DEF Int32s
<1> HIDE DEF d1, d2, d3
<1>5. d3 = IF d3 % 256 < 128 THEN d3 % 256 ELSE (d3 % 256) - 256
  BY <1>4
<1>6. Int32(n) = <<n % 256, d1 % 256, d2 % 256, d3 % 256>>
  BY DEF Int32, d1, d2, d3
<1>7. Int32(n) \in Seq(Byte) /\ Len(Int32(n)) = 4
  BY <1>1, <1>6
<1>8. ASSUME NEW s, NEW it, \A j \in 1 .. 4 : s[it + j] = Int32(n)[j]
      PROVE  ReadInt32(s, it) = n
  <2>1. /\ s[it + 1] = n % 256 /\ s[it + 2] = d1 % 256
        /\ s[it + 3] = d2 % 256 /\ s[it + 4] = d3 % 256
    BY <1>6, <1>8
  <2>2. ReadInt32(s, it) = (n % 256) + 256 * (d1 % 256) + 65536 * (d2 % 256) + 16777216 * d3
    BY <1>5, <2>1 DEF ReadInt32
  <2>3. QED
    BY <1>1, <1>2, <1>3, <2>2, Bytes
<1>9. QED
  BY <1>7, <1>8

\* Any four bytes are an int32_t.
LEMMA ReadInt32Type ==
  ASSUME NEW s \in Seq(Byte), NEW it \in Nat, it + 4 <= Len(s)
  PROVE  ReadInt32(s, it) \in Int32s
<1>1. s[it + 1] \in Byte /\ s[it + 2] \in Byte /\ s[it + 3] \in Byte /\ s[it + 4] \in Byte
  OBVIOUS
<1> DEFINE a == s[it + 1]
           b == s[it + 2]
           c == s[it + 3]
           d == IF s[it + 4] < 128 THEN s[it + 4] ELSE s[it + 4] - 256
<1>2. /\ a \in Int /\ 0 <= a /\ a < 256 /\ b \in Int /\ 0 <= b /\ b < 256
      /\ c \in Int /\ 0 <= c /\ c < 256
  BY <1>1, Bytes
<1>3. d \in Int /\ -128 <= d /\ d < 128
  BY <1>1, Bytes, SMTT(60)
<1>4. ReadInt32(s, it) = a + 256 * b + 65536 * c + 16777216 * d
  BY DEF ReadInt32
<1> HIDE DEF a, b, c, d
<1>5. QED
  BY <1>2, <1>3, <1>4 DEF Int32s

-----------------------------------------------------------------------------
(* Parsing a buffer.                                                       *)

\* A pass of the loop over chunks goes on behind a chunk of 5 bytes or more.
LEMMA ReadChunkType ==
  ASSUME NEW s \in Seq(Byte), NEW r \in Reader, ~Torn(s, r)
  PROVE  /\ ReadChunk(s, r) \in Reader
         /\ ReadChunk(s, r).left = r.left - 1
         /\ r.it + 5 <= ReadChunk(s, r).it /\ ReadChunk(s, r).it <= Len(s)
<1> DEFINE length == ReadInt32(s, r.it + 1)
           end == IF s[r.it + 1] = 0 THEN r.it + 5 ELSE r.it + 5 + length
           chunk == IF s[r.it + 1] = 0 THEN IntChunk(length)
                                       ELSE StringChunk(SubSeq(s, r.it + 6, end))
<1>1. r.it \in Nat /\ r.left \in Int /\ r.it + 5 <= Len(s) /\ Len(s) \in Nat
      /\ r.chunks \in Seq(NumberChunks \cup StringChunks)
  BY DEF Torn, Reader
<1>2. length \in Int32s
  BY <1>1, ReadInt32Type
<1>3. s[r.it + 1] # 0 => s[r.it + 1] = 1 /\ length \in 0 .. Len(s) - r.it - 5
  BY DEF Torn
<1> HIDE DEF length
<1>4. end \in Nat /\ r.it + 5 <= end /\ end <= Len(s)
  BY <1>1, <1>3
<1> HIDE DEF end
<1>5. \A i \in r.it + 6 .. end : s[i] \in Byte
  BY <1>1, <1>4
<1>6. SubSeq(s, r.it + 6, end) \in Seq(Byte)
  BY <1>1, <1>4, <1>5, SubSeqProperties
<1>7. chunk \in NumberChunks \cup StringChunks
  BY <1>2, <1>6 DEF IntChunk, StringChunk, NumberChunks, StringChunks
<1> HIDE DEF chunk
<1>8. Append(r.chunks, chunk) \in Seq(NumberChunks \cup StringChunks)
  BY <1>1, <1>7, AppendProperties
<1>9. ReadChunk(s, r) = [it |-> end, left |-> r.left - 1, chunks |-> Append(r.chunks, chunk)]
  BY DEF ReadChunk, end, chunk, length
<1>10. QED
  BY <1>1, <1>4, <1>8, <1>9 DEF Reader

\* The loop over chunks exists: its result is that of its first pass and the
\* loop from there.
LEMMA ReadChunksLoops ==
  ASSUME NEW s \in Seq(Byte), NEW start \in Reader
  PROVE  ReadChunks(s, start) = IF start.left <= 0 \/ Torn(s, start) THEN start
                                ELSE ReadChunks(s, ReadChunk(s, start))
<1> DEFINE F(g) == [r \in Reader |-> IF r.left <= 0 \/ Torn(s, r) THEN r
                                     ELSE g[ReadChunk(s, r)]]
           loop == CHOOSE g : g = F(g)
<1>1. \E g : g = F(g)
  <2> DEFINE stops == {r \in Reader : r.left <= 0 \/ Torn(s, r)}
             next == [r \in Reader |-> IF r \in stops THEN r ELSE ReadChunk(s, r)]
             m == [r \in Reader |-> IF r.left > 0 THEN r.left ELSE 0]
  <2>1. m \in [Reader -> Nat] /\ next \in [Reader -> Reader]
    <3>1. \A r \in Reader : r.left \in Int
      BY DEF Reader
    <3>2. \A r \in Reader \ stops : ReadChunk(s, r) \in Reader
      BY ReadChunkType
    <3>3. QED
      BY <3>1, <3>2
  <2>2. \A r \in Reader \ stops : m[next[r]] < m[r]
    <3>1. \A r \in Reader : ReadChunk(s, r).left = r.left - 1 /\ r.left \in Int
      BY DEF ReadChunk, Reader
    <3>2. \A r \in Reader \ stops : next[r] \in Reader /\ next[r].left = r.left - 1
      BY <2>1, <3>1
    <3> HIDE DEF next
    <3>3. QED
      BY <3>1, <3>2
  <2> HIDE DEF m
  <2>3. \E g \in [Reader -> Reader] : Loops(g, Reader, next, stops)
    <3> HIDE DEF next, stops
    <3>1. QED
      BY <2>1, <2>2, LoopEnds
  <2>4. PICK g \in [Reader -> Reader] :
          \A r \in Reader : g[r] = IF r \in stops THEN r ELSE g[next[r]]
    BY <2>3 DEF Loops
  <2>5. g = F(g)
    <3>1. \A r \in Reader : r \in stops <=> r.left <= 0 \/ Torn(s, r)
      OBVIOUS
    <3>2. \A r \in Reader : ~(r.left <= 0 \/ Torn(s, r)) => next[r] = ReadChunk(s, r)
      BY <3>1
    <3> HIDE DEF stops, next
    <3>3. \A r \in Reader : g[r] = IF r.left <= 0 \/ Torn(s, r) THEN r
                                  ELSE g[ReadChunk(s, r)]
      BY <2>4, <3>1, <3>2
    <3>4. QED
      BY <3>3
  <2>6. QED
    BY <2>5
<1>2. loop = F(loop)
  BY <1>1
<1>3. ReadChunks(s, start) = loop[start]
  BY DEF ReadChunks
<1>4. ReadChunks(s, ReadChunk(s, start)) = loop[ReadChunk(s, start)]
  BY DEF ReadChunks
<1> HIDE DEF loop
<1>5. QED
  BY <1>2, <1>3, <1>4

-----------------------------------------------------------------------------
(* Bytes written part by part.                                             *)

\* Part i of w is behind its first off[i - 1] bytes.
Places(w, parts, off) ==
  /\ off[0] = 0 /\ off[Len(parts)] = Len(w)
  /\ \A i \in 1 .. Len(parts) :
       /\ off[i] = off[i - 1] + Len(parts[i])
       /\ \A j \in 1 .. Len(parts[i]) : w[off[i - 1] + j] = parts[i][j]

\* w is the parts one after the other.
Flat(w, parts) == \E off \in [0 .. Len(parts) -> Nat] : Places(w, parts, off)

\* No part ends behind the whole.
LEMMA PlacesGrow ==
  ASSUME NEW w, NEW parts \in Seq(Seq(Byte)), NEW off \in [0 .. Len(parts) -> Nat],
         Places(w, parts, off), NEW i \in 0 .. Len(parts)
  PROVE  off[i] <= Len(w)
<1> DEFINE n == Len(parts)
           Bad == {k \in Nat : k <= n /\ off[n - k] > off[n]}
<1>1. n \in Nat /\ off[n] = Len(w) /\ \A k \in 0 .. n : off[k] \in Nat
  BY DEF Places
<1>2. \A k \in 1 .. n : off[k - 1] <= off[k]
  <2>1. \A k \in 1 .. n : Len(parts[k]) \in Nat
    OBVIOUS
  <2>2. \A k \in 1 .. n : off[k] = off[k - 1] + Len(parts[k]) /\ off[k - 1] \in Nat
    BY DEF Places
  <2> HIDE DEF n
  <2>3. QED
    BY <2>1, <2>2, SMTT(60)
<1> HIDE DEF n
<1>3. Bad = {}
  <2>1. SUFFICES ASSUME Bad # {} PROVE FALSE
    OBVIOUS
  <2>2. PICK k \in Bad : \A l \in Bad : k <= l
    <3>1. Bad \in SUBSET Nat
      OBVIOUS
    <3> HIDE DEF Bad
    <3>2. QED
      BY <2>1, <3>1, LeastNumber
  <2>3. k \in Nat /\ k <= n /\ off[n - k] > off[n] /\ k # 0
    BY <1>1, <2>2
  <2>4. k - 1 \in Nat /\ k - 1 \notin Bad
    BY <2>2, <2>3
  <2>5. ~(off[n - (k - 1)] > off[n])
    BY <1>1, <2>3, <2>4
  <2>6. n - (k - 1) \in 1 .. n /\ (n - (k - 1)) - 1 = n - k
    BY <1>1, <2>3
  <2>7. off[n - k] <= off[n - (k - 1)]
    BY <1>2, <2>6
  <2>8. n - k \in 0 .. n /\ n - (k - 1) \in 0 .. n /\ n \in 0 .. n
    BY <1>1, <2>3
  <2>9. off[n - k] \in Nat /\ off[n - (k - 1)] \in Nat /\ off[n] \in Nat
    BY <1>1, <2>8
  <2>10. QED
    BY <2>3, <2>5, <2>7, <2>9
<1>4. n - i \in Nat /\ n - i <= n /\ n - (n - i) = i
  BY <1>1 DEF n
<1>5. n - i \notin Bad
  BY <1>3
<1>6. off[i] \in Nat
  OBVIOUS
<1>7. n \in 0 .. n
  BY <1>1
<1>8. off[n] \in Nat
  BY <1>1, <1>7
<1>9. ~(off[n - (n - i)] > off[n])
  BY <1>4, <1>5
<1>10. QED
  BY <1>1, <1>4, <1>6, <1>8, <1>9

\* Nothing is no parts.
LEMMA FlatNone == Flat(<<>>, <<>>)
<1> DEFINE off == [i \in 0 .. 0 |-> 0]
<1>1. off \in [0 .. Len(<<>>) -> Nat] /\ Places(<<>>, <<>>, off)
  BY DEF Places
<1>2. QED
  BY <1>1 DEF Flat

\* One part more at the end.
LEMMA FlatMore ==
  ASSUME NEW w \in Seq(Byte), NEW parts \in Seq(Seq(Byte)), NEW p \in Seq(Byte),
         Flat(w, parts)
  PROVE  Flat(w \o p, Append(parts, p))
<1> DEFINE n == Len(parts)
           v == w \o p
           qs == Append(parts, p)
<1>1. PICK off \in [0 .. n -> Nat] : Places(w, parts, off)
  BY DEF Flat
<1>2. n \in Nat /\ Len(w) \in Nat /\ Len(p) \in Nat
  OBVIOUS
<1>3. /\ qs \in Seq(Seq(Byte)) /\ Len(qs) = n + 1 /\ qs[n + 1] = p
      /\ \A i \in 1 .. n : qs[i] = parts[i] /\ parts[i] \in Seq(Byte)
  BY AppendProperties
<1>4. /\ v \in Seq(Byte) /\ Len(v) = Len(w) + Len(p)
      /\ \A j \in 1 .. Len(w) : v[j] = w[j]
      /\ \A j \in 1 .. Len(p) : v[Len(w) + j] = p[j]
  BY ConcatProperties
<1>5. \A i \in 0 .. n : off[i] <= Len(w)
  BY <1>1, PlacesGrow
<1>6. /\ off[0] = 0 /\ off[n] = Len(w)
      /\ \A i \in 1 .. n : off[i] = off[i - 1] + Len(parts[i])
      /\ \A i \in 1 .. n : \A j \in 1 .. Len(parts[i]) : w[off[i - 1] + j] = parts[i][j]
  BY <1>1 DEF Places
<1> DEFINE to == [i \in 0 .. n + 1 |-> IF i <= n THEN off[i] ELSE Len(v)]
<1>7. /\ to \in [0 .. n + 1 -> Nat] /\ to[n + 1] = Len(v)
      /\ \A i \in 0 .. n : to[i] = off[i] /\ off[i] \in Nat
  <2>1. Len(v) \in Nat
    BY <1>4
  <2>2. \A i \in 0 .. n : off[i] \in Nat
    BY <1>1
  <2>3. n + 1 \in 0 .. n + 1 /\ ~(n + 1 <= n) /\ \A i \in 0 .. n : i \in 0 .. n + 1 /\ i <= n
    BY <1>2
  <2>4. \A i \in 0 .. n + 1 : i <= n => i \in 0 .. n
    BY <1>2
  <2> HIDE DEF n, v
  <2>5. to \in [0 .. n + 1 -> Nat]
    BY <2>1, <2>2, <2>4
  <2>6. QED
    BY <2>2, <2>3
<1> HIDE DEF n, v, qs, to
<1>8. ASSUME NEW i \in 1 .. n + 1
      PROVE  /\ to[i] = to[i - 1] + Len(qs[i])
             /\ \A j \in 1 .. Len(qs[i]) : v[to[i - 1] + j] = qs[i][j]
  <2>1. CASE i = n + 1
    <3>1. to[i - 1] = Len(w) /\ qs[i] = p
      BY <1>2, <1>3, <1>6, <1>7, <2>1
    <3>2. QED
      BY <1>4, <1>7, <2>1, <3>1
  <2>2. CASE i \in 1 .. n
    <3>0. i \in 0 .. n /\ i - 1 \in 0 .. n
      BY <1>2, <2>2
    <3>1. /\ to[i] = off[i] /\ to[i - 1] = off[i - 1] /\ qs[i] = parts[i]
          /\ off[i - 1] \in Nat /\ Len(parts[i]) \in Nat
      BY <1>3, <1>7, <2>2, <3>0
    <3>2. off[i] = off[i - 1] + Len(parts[i])
      BY <1>6, <2>2
    <3>3. ASSUME NEW j \in 1 .. Len(parts[i]) PROVE v[off[i - 1] + j] = parts[i][j]
      <4>1. off[i] <= Len(w)
        BY <1>5, <2>2
      <4>2. off[i - 1] + j \in 1 .. Len(w)
        BY <1>2, <3>1, <3>2, <4>1, SMTT(60)
      <4>3. QED
        BY <1>4, <1>6, <2>2, <4>2
    <3>4. QED
      BY <3>1, <3>2, <3>3
  <2>3. QED
    BY <1>2, <2>1, <2>2
<1>9. Places(v, qs, to)
  <2>1. to[0] = 0 /\ to[Len(qs)] = Len(v)
    BY <1>2, <1>3, <1>6, <1>7
  <2>2. QED
    BY <1>3, <1>8, <2>1 DEF Places
<1>10. Flat(v, qs)
  BY <1>3, <1>7, <1>9 DEF Flat
<1>11. QED
  BY <1>10 DEF v, qs

\* The first part stands at the beginning, the others follow.
LEMMA FlatFirst ==
  ASSUME NEW w \in Seq(Byte), NEW parts \in Seq(Seq(Byte)), parts # <<>>,
         Flat(w, parts)
  PROVE  /\ Len(parts[1]) <= Len(w)
         /\ \A j \in 1 .. Len(parts[1]) : w[j] = parts[1][j]
         /\ Flat(SubSeq(w, Len(parts[1]) + 1, Len(w)), Tail(parts))
<1> DEFINE n == Len(parts)
           a == Len(parts[1])
           v == SubSeq(w, a + 1, Len(w))
           qs == Tail(parts)
<1>1. PICK off \in [0 .. n -> Nat] : Places(w, parts, off)
  BY DEF Flat
<1>2. n \in Nat /\ n >= 1 /\ Len(w) \in Nat /\ a \in Nat
  OBVIOUS
<1>3. /\ Len(qs) = n - 1
      /\ \A i \in 1 .. n - 1 : qs[i] = parts[i + 1] /\ parts[i + 1] \in Seq(Byte)
  BY HeadTailProperties
<1>4. /\ off[0] = 0 /\ off[n] = Len(w)
      /\ \A i \in 1 .. n : off[i] = off[i - 1] + Len(parts[i])
      /\ \A i \in 1 .. n : \A j \in 1 .. Len(parts[i]) : w[off[i - 1] + j] = parts[i][j]
  BY <1>1 DEF Places
<1>5. \A i \in 0 .. n : off[i] <= Len(w) /\ off[i] \in Nat
  BY <1>1, PlacesGrow
<1>6. off[1] = a /\ a <= Len(w)
  BY <1>2, <1>4, <1>5
<1>7. ASSUME NEW j \in 1 .. a PROVE w[j] = parts[1][j]
  <2>1. w[off[1 - 1] + j] = parts[1][j]
    BY <1>2, <1>4
  <2>2. off[1 - 1] + j = j
    BY <1>4
  <2>3. QED
    BY <2>1, <2>2
<1>8. /\ Len(v) = Len(w) - a
      /\ \A j \in 1 .. Len(w) - a : v[j] = w[a + j]
  <2>1. \A j \in a + 1 .. Len(w) : w[j] \in Byte
    BY <1>2
  <2> HIDE DEF a
  <2>2. /\ Len(v) = IF a + 1 <= Len(w) THEN Len(w) - (a + 1) + 1 ELSE 0
        /\ \A j \in 1 .. Len(w) - (a + 1) + 1 : v[j] = w[a + 1 + j - 1]
    BY <1>2, <2>1, SubSeqProperties
  <2>3. Len(v) = Len(w) - a
    BY <1>2, <1>6, <2>2
  <2>4. ASSUME NEW j \in 1 .. Len(w) - a PROVE v[j] = w[a + j]
    <3>1. j \in 1 .. Len(w) - (a + 1) + 1 /\ a + 1 + j - 1 = a + j
      BY <1>2
    <3>2. v[j] = w[a + 1 + j - 1]
      BY <2>2, <3>1
    <3>3. QED
      BY <3>1, <3>2
  <2>5. QED
    BY <2>3, <2>4
<1> DEFINE to == [i \in 0 .. n - 1 |-> off[i + 1] - a]
<1> HIDE DEF n, a, v, qs
<1>9. \A i \in 0 .. n - 1 : to[i] \in Nat
  <2> SUFFICES ASSUME NEW e \in 1 .. n, ~(off[e] >= a) PROVE FALSE
    <3>1. \A i \in 0 .. n - 1 : i + 1 \in 1 .. n /\ i + 1 \in 0 .. n
      BY <1>2
    <3>2. \A i \in 0 .. n - 1 : off[i + 1] >= a /\ off[i + 1] \in Nat
      BY <1>5, <3>1
    <3>3. QED
      BY <1>2, <3>2
  <2> DEFINE Bad == {i \in Nat : i \in 1 .. n /\ off[i] < a}
  <2>1. e \in Nat /\ e \in 0 .. n
    BY <1>2
  <2>2. e \in Bad
    BY <1>2, <1>5, <2>1
  <2>3. PICK i \in Bad : \A k \in Bad : i <= k
    <3>1. Bad \in SUBSET Nat
      OBVIOUS
    <3> HIDE DEF Bad
    <3>2. QED
      BY <2>2, <3>1, LeastNumber
  <2>4. i \in 2 .. n
    BY <1>2, <1>6, <2>3
  <2>5. i - 1 \notin Bad /\ i - 1 \in 1 .. n
    BY <1>2, <2>3, <2>4
  <2>6. off[i - 1] >= a /\ off[i - 1] \in Nat
    BY <1>2, <1>5, <2>5
  <2>7. off[i] = off[i - 1] + Len(parts[i]) /\ Len(parts[i]) \in Nat
    <3>1. parts[i] \in Seq(Byte)
      BY <2>4 DEF n
    <3>2. QED
      BY <1>4, <2>4, <3>1
  <2>8. off[i] < a
    BY <2>3
  <2> DEFINE x == off[i - 1]
             l == Len(parts[i])
  <2>9. x \in Nat /\ x >= a /\ l \in Nat /\ x + l < a
    BY <2>6, <2>7, <2>8
  <2> HIDE DEF x, l
  <2>10. QED
    BY <1>2, <2>9
<1>10. to \in [0 .. n - 1 -> Nat] /\ \A i \in 0 .. n - 1 : to[i] = off[i + 1] - a
  BY <1>9
<1> HIDE DEF to
<1>11. ASSUME NEW i \in 1 .. n - 1
       PROVE  /\ to[i] = to[i - 1] + Len(qs[i])
              /\ \A j \in 1 .. Len(qs[i]) : v[to[i - 1] + j] = qs[i][j]
  <2>1. /\ i \in 0 .. n - 1 /\ i - 1 \in 0 .. n - 1 /\ i + 1 \in 1 .. n
        /\ (i - 1) + 1 = i /\ (i + 1) - 1 = i /\ i \in 0 .. n
    BY <1>2
  <2>2. to[i] = off[i + 1] - a /\ to[i - 1] = off[i] - a
    BY <1>10, <2>1
  <2>3. /\ qs[i] = parts[i + 1] /\ Len(parts[i + 1]) \in Nat
        /\ off[i + 1] = off[i] + Len(parts[i + 1])
        /\ \A j \in 1 .. Len(parts[i + 1]) : w[off[i] + j] = parts[i + 1][j]
    BY <1>3, <1>4, <2>1
  <2>4. /\ off[i] \in Nat /\ off[i + 1] \in Nat /\ off[i + 1] <= Len(w)
        /\ to[i - 1] \in Nat
    BY <1>2, <1>5, <1>9, <2>1
  <2>5. ASSUME NEW j \in 1 .. Len(qs[i]) PROVE v[to[i - 1] + j] = qs[i][j]
    <3>1. to[i - 1] + j \in 1 .. Len(w) - a /\ a + (to[i - 1] + j) = off[i] + j
      <4> DEFINE x == off[i]
                 y == off[i + 1]
                 z == to[i - 1]
                 l == Len(parts[i + 1])
      <4>1. /\ x \in Nat /\ y \in Nat /\ z \in Nat /\ l \in Nat
            /\ y <= Len(w) /\ y = x + l /\ z = x - a /\ j \in 1 .. l
        BY <2>2, <2>3, <2>4
      <4> HIDE DEF x, y, z, l
      <4>2. z + j \in 1 .. Len(w) - a /\ a + (z + j) = x + j
        BY <1>2, <4>1
      <4>3. QED
        BY <4>2 DEF x, z
    <3>2. v[to[i - 1] + j] = w[off[i] + j]
      BY <1>8, <3>1
    <3>3. QED
      BY <2>3, <3>2
  <2>6. to[i] = to[i - 1] + Len(qs[i])
    <3> DEFINE x == off[i]
               y == off[i + 1]
               l == Len(parts[i + 1])
    <3>1. x \in Nat /\ y \in Nat /\ l \in Nat /\ y = x + l
      BY <2>3, <2>4
    <3>2. to[i] = y - a /\ to[i - 1] = x - a /\ Len(qs[i]) = l
      BY <2>2, <2>3
    <3> HIDE DEF x, y, l
    <3>3. QED
      BY <1>2, <3>1, <3>2
  <2>7. QED
    BY <2>5, <2>6
<1>12. Places(v, qs, to)
  <2>1. to[0] = 0 /\ to[n - 1] = Len(v)
    <3>1. 0 \in 0 .. n - 1 /\ n - 1 \in 0 .. n - 1 /\ 0 + 1 = 1 /\ (n - 1) + 1 = n
      BY <1>2
    <3>2. to[0] = off[1] - a /\ to[n - 1] = off[n] - a
      BY <1>10, <3>1
    <3>3. QED
      BY <1>2, <1>4, <1>6, <1>8, <3>2
  <2>2. QED
    BY <1>3, <1>11, <2>1 DEF Places
<1>13. Flat(v, qs)
  BY <1>3, <1>10, <1>12 DEF Flat
<1>14. QED
  BY <1>6, <1>7, <1>13 DEF a, v, qs

-----------------------------------------------------------------------------
(* What toBinary writes.                                                   *)

Chunk == NumberChunks \cup BoolChunks \cup StringChunks

\* A chunk that fits into a message, and what it is read as.
FitsChunk(c) == c \in Chunk /\ (c.type = "string" => Len(c.value) \in Int32s)
ReadAs(c) == IF c.type = "bool" THEN IntChunk(IF c.value THEN 1 ELSE 0) ELSE c

\* The bytes of a number and of a string.
NumberBytes(b, n) ==
  /\ b \in Seq(Byte) /\ Len(b) = 5 /\ b[1] = 0
  /\ \A j \in 1 .. 4 : b[1 + j] = Int32(n)[j]
StringBytes(b, v) ==
  /\ b \in Seq(Byte) /\ Len(b) = 5 + Len(v) /\ b[1] = 1 /\ Len(v) \in Int32s
  /\ \A j \in 1 .. 4 : b[1 + j] = Int32(Len(v))[j]
  /\ \A j \in 1 .. Len(v) : b[5 + j] = v[j]

\* What stands where in two sequences one after the other.
LEMMA Joined ==
  ASSUME NEW v \in Seq(Byte), NEW w \in Seq(Byte)
  PROVE  /\ v \o w \in Seq(Byte) /\ Len(v \o w) = Len(v) + Len(w)
         /\ \A j \in 1 .. Len(v) : (v \o w)[j] = v[j]
         /\ \A j \in 1 .. Len(w) : (v \o w)[Len(v) + j] = w[j]
  BY ConcatProperties

\* The five bytes each chunk begins with.
LEMMA TypeAndInt32 ==
  ASSUME NEW n \in Int32s, NEW type \in Byte
  PROVE  /\ <<type>> \o Int32(n) \in Seq(Byte) /\ Len(<<type>> \o Int32(n)) = 5
         /\ (<<type>> \o Int32(n))[1] = type
         /\ \A j \in 1 .. 4 : (<<type>> \o Int32(n))[1 + j] = Int32(n)[j]
<1> DEFINE q == <<type>>
<1>1. Int32(n) \in Seq(Byte) /\ Len(Int32(n)) = 4
  BY Int32Bytes
<1>2. q \in Seq(Byte) /\ Len(q) = 1 /\ q[1] = type
  OBVIOUS
<1> HIDE DEF q
<1>3. /\ q \o Int32(n) \in Seq(Byte) /\ Len(q \o Int32(n)) = Len(q) + Len(Int32(n))
      /\ \A j \in 1 .. Len(q) : (q \o Int32(n))[j] = q[j]
      /\ \A j \in 1 .. Len(Int32(n)) : (q \o Int32(n))[Len(q) + j] = Int32(n)[j]
  BY <1>1, <1>2, Joined
<1>4. \A j \in 1 .. 4 : (q \o Int32(n))[1 + j] = Int32(n)[j]
  BY <1>1, <1>2, <1>3
<1>5. (q \o Int32(n))[1] = type
  BY <1>2, <1>3
<1>6. QED
  BY <1>1, <1>2, <1>3, <1>4, <1>5 DEF q

\* The bytes of a chunk are those of a number or of a string.
LEMMA ChunkBytes ==
  ASSUME NEW c, FitsChunk(c)
  PROVE  /\ ChunkToBinary(c) \in Seq(Byte) /\ Len(ChunkToBinary(c)) >= 5
         /\ ReadAs(c) \in NumberChunks \cup StringChunks
         /\ \/ \E n \in Int32s : NumberBytes(ChunkToBinary(c), n) /\ ReadAs(c) = IntChunk(n)
            \/ \E v \in Seq(Byte) :
                 StringBytes(ChunkToBinary(c), v) /\ ReadAs(c) = StringChunk(v)
<1> DEFINE b == ChunkToBinary(c)
<1>1. 0 \in Byte /\ 1 \in Byte /\ 0 \in Int32s /\ 1 \in Int32s
  BY Bytes DEF Int32s
<1>2. SUFFICES \/ \E n \in Int32s : NumberBytes(b, n) /\ ReadAs(c) = IntChunk(n)
               \/ \E v \in Seq(Byte) : StringBytes(b, v) /\ ReadAs(c) = StringChunk(v)
  <2>1. \A n \in Int32s : IntChunk(n) \in NumberChunks
    BY DEF IntChunk, NumberChunks
  <2>2. \A v \in Seq(Byte) : StringChunk(v) \in StringChunks
    BY DEF StringChunk, StringChunks
  <2>3. \A n : NumberBytes(b, n) => b \in Seq(Byte) /\ Len(b) >= 5
    BY DEF NumberBytes
  <2>4. \A v \in Seq(Byte) : StringBytes(b, v) => b \in Seq(Byte) /\ Len(b) >= 5
    BY DEF StringBytes
  <2> HIDE DEF b
  <2>5. QED
    BY <2>1, <2>2, <2>3, <2>4 DEF b
<1>3. ASSUME NEW n \in Int32s, b = << 0 >> \o Int32(n) PROVE NumberBytes(b, n)
  <2> HIDE DEF b
  <2>1. QED
    BY <1>1, <1>3, TypeAndInt32 DEF NumberBytes
<1>4. CASE c \in NumberChunks
  <2>1. c.type = "int" /\ c.value \in Int32s /\ c = [type |-> "int", value |-> c.value]
    BY <1>4 DEF NumberChunks
  <2>2. b = << 0 >> \o Int32(c.value) /\ ReadAs(c) = IntChunk(c.value)
    BY <2>1 DEF ChunkToBinary, ReadAs, IntChunk
  <2> HIDE DEF b
  <2>3. QED
    BY <1>3, <2>1, <2>2
<1>5. CASE c \in BoolChunks
  <2>1. c.type = "bool"
    BY <1>5 DEF BoolChunks
  <2> DEFINE n == IF c.value THEN 1 ELSE 0
  <2>2. n \in Int32s
    BY <1>1
  <2>3. b = << 0 >> \o Int32(n) /\ ReadAs(c) = IntChunk(n)
    BY <2>1 DEF ChunkToBinary, ReadAs
  <2> HIDE DEF n, b
  <2>4. QED
    BY <1>3, <2>2, <2>3
<1>6. CASE c \in StringChunks
  <2> DEFINE v == c.value
             s == << 1 >> \o Int32(Len(v))
  <2>1. c.type = "string" /\ v \in Seq(Byte) /\ c = [type |-> "string", value |-> v]
    BY <1>6 DEF StringChunks
  <2>2. Len(v) \in Int32s /\ Len(v) \in Nat
    BY <2>1 DEF FitsChunk
  <2>3. ReadAs(c) = StringChunk(v)
    BY <2>1 DEF ReadAs, StringChunk
  <2>4. b = s \o v
    BY <2>1 DEF ChunkToBinary
  <2>5. /\ s \in Seq(Byte) /\ Len(s) = 5 /\ s[1] = 1
        /\ \A j \in 1 .. 4 : s[1 + j] = Int32(Len(v))[j]
    BY <1>1, <2>2, TypeAndInt32
  <2> HIDE DEF s, v, b
  <2>6. /\ s \o v \in Seq(Byte) /\ Len(s \o v) = Len(s) + Len(v)
        /\ \A j \in 1 .. Len(s) : (s \o v)[j] = s[j]
        /\ \A j \in 1 .. Len(v) : (s \o v)[Len(s) + j] = v[j]
    BY <2>1, <2>5, Joined
  <2>7. b \in Seq(Byte) /\ Len(b) = 5 + Len(v) /\ b[1] = 1
    BY <2>2, <2>4, <2>5, <2>6
  <2>8. \A j \in 1 .. 4 : b[1 + j] = Int32(Len(v))[j]
    <3>1. \A j \in 1 .. 4 : 1 + j \in 1 .. Len(s)
      BY <2>5
    <3>2. QED
      BY <2>4, <2>5, <2>6, <3>1
  <2>9. \A j \in 1 .. Len(v) : b[5 + j] = v[j]
    BY <2>4, <2>5, <2>6
  <2>10. StringBytes(b, v)
    BY <2>2, <2>7, <2>8, <2>9 DEF StringBytes
  <2>11. QED
    BY <2>1, <2>3, <2>10
<1>7. QED
  BY <1>4, <1>5, <1>6 DEF FitsChunk, Chunk

\* The bytes of the first n parts, for every n.
LEMMA RunningBytes ==
  ASSUME NEW parts \in Seq(Seq(Byte))
  PROVE  \E g \in [0 .. Len(parts) -> Seq(Byte)] :
           g[0] = <<>> /\ \A n \in 1 .. Len(parts) : g[n] = g[n - 1] \o parts[n]
<1> DEFINE Upto(g, k) == /\ g \in [0 .. k -> Seq(Byte)] /\ g[0] = <<>>
                         /\ \A n \in 1 .. k : g[n] = g[n - 1] \o parts[n]
           T == {k \in Nat : k <= Len(parts) => \E g : Upto(g, k)}
<1>0. Len(parts) \in Nat /\ \A i \in 1 .. Len(parts) : parts[i] \in Seq(Byte)
  OBVIOUS
<1>1. 0 \in T
  <2>1. Upto([n \in 0 .. 0 |-> <<>>], 0)
    OBVIOUS
  <2> HIDE DEF Upto
  <2>2. QED
    BY <2>1
<1>2. ASSUME NEW k \in Nat, k + 1 <= Len(parts), NEW g, Upto(g, k)
      PROVE  \E h : Upto(h, k + 1)
  <2> DEFINE b == parts[k + 1]
             h == [n \in 0 .. k + 1 |-> IF n = k + 1 THEN g[k] \o b ELSE g[n]]
  <2>3. b \in Seq(Byte) /\ g[k] \in Seq(Byte)
    BY <1>0, <1>2
  <2>4. g[k] \o b \in Seq(Byte)
    BY <2>3
  <2>5. \A n \in 0 .. k + 1 : n # k + 1 => n \in 0 .. k
    OBVIOUS
  <2>6. h \in [0 .. k + 1 -> Seq(Byte)]
    BY <1>2, <2>4, <2>5
  <2>7. h[0] = <<>>
    BY <1>2
  <2>8. ASSUME NEW n \in 1 .. k + 1 PROVE h[n] = h[n - 1] \o parts[n]
    <3>1. n \in 0 .. k + 1 /\ n - 1 \in 0 .. k + 1 /\ n - 1 # k + 1
      OBVIOUS
    <3>2. h[n - 1] = g[n - 1]
      BY <3>1
    <3>3. CASE n = k + 1
      <4>1. n - 1 = k
        BY <3>3
      <4>2. parts[n] = b
        BY <3>3
      <4>3. h[n - 1] = g[k]
        BY <3>2, <4>1
      <4> HIDE DEF b
      <4>4. h[n] = g[k] \o b
        BY <3>1, <3>3
      <4>5. QED
        BY <4>2, <4>3, <4>4, Zenon
    <3>4. CASE n # k + 1
      <4>1. n \in 1 .. k
        BY <3>4
      <4>2. h[n] = g[n] /\ g[n] = g[n - 1] \o parts[n]
        BY <1>2, <3>1, <3>4, <4>1
      <4>3. QED
        BY <3>2, <4>2
    <3>5. QED
      BY <3>3, <3>4
  <2> HIDE DEF h
  <2>9. Upto(h, k + 1)
    BY <2>6, <2>7, <2>8
  <2> HIDE DEF Upto
  <2>10. QED
    BY <2>9
<1>3. Nat \subseteq T
  <2>1. ASSUME NEW k \in Nat, k \in T PROVE k + 1 \in T
    <3> HIDE DEF Upto
    <3>1. QED
      BY <1>0, <1>2, <2>1
  <2> HIDE DEF T
  <2>2. QED
    BY <1>1, <2>1, AllNumbers
<1>4. \E g : Upto(g, Len(parts))
  <2>1. Len(parts) \in Nat /\ Len(parts) <= Len(parts)
    OBVIOUS
  <2> HIDE DEF Upto
  <2>2. QED
    BY <1>3, <2>1
<1>5. QED
  BY <1>4

\* The bytes of chunks are the bytes of each, one after the other.
LEMMA ChunksFlat ==
  ASSUME NEW chunks \in Seq(Chunk), \A i \in 1 .. Len(chunks) : FitsChunk(chunks[i])
  PROVE  /\ ChunksToBinary(chunks) \in Seq(Byte)
         /\ Flat(ChunksToBinary(chunks), [i \in 1 .. Len(chunks) |-> ChunkToBinary(chunks[i])])
<1> DEFINE L == Len(chunks)
           parts == [i \in 1 .. L |-> ChunkToBinary(chunks[i])]
           F(g) == [n \in 0 .. L |-> IF n = 0 THEN <<>>
                                     ELSE g[n - 1] \o ChunkToBinary(chunks[n])]
           result == CHOOSE g : g = F(g)
<1>1. L \in Nat
  OBVIOUS
<1>2. parts \in Seq(Seq(Byte)) /\ Len(parts) = L
  <2>1. \A i \in 1 .. L : ChunkToBinary(chunks[i]) \in Seq(Byte)
    BY ChunkBytes
  <2> HIDE DEF L
  <2>2. QED
    BY <1>1, <2>1
<1>3. \A i \in 1 .. L : parts[i] = ChunkToBinary(chunks[i])
  OBVIOUS
<1>4. ChunksToBinary(chunks) = result[L]
  BY DEF ChunksToBinary
<1> HIDE DEF L, parts
<1>5. result = F(result)
  <2>1. PICK g \in [0 .. L -> Seq(Byte)] :
          g[0] = <<>> /\ \A n \in 1 .. L : g[n] = g[n - 1] \o parts[n]
    BY <1>2, RunningBytes
  <2>2. \A n \in 0 .. L : n # 0 => n \in 1 .. L
    BY <1>1
  <2>3. \A n \in 0 .. L : g[n] = IF n = 0 THEN <<>> ELSE g[n - 1] \o ChunkToBinary(chunks[n])
    BY <1>3, <2>1, <2>2
  <2>4. g = F(g)
    BY <2>1, <2>3
  <2>5. QED
    BY <2>4
<1> HIDE DEF result
<1>6. /\ 0 \in 0 .. L => result[0] = <<>>
      /\ \A n \in 1 .. L : n \in 0 .. L => result[n] = result[n - 1] \o parts[n]
  BY <1>1, <1>3, <1>5
<1> DEFINE Part(n) == [i \in 1 .. n |-> parts[i]]
           T == {n \in Nat : n <= L => result[n] \in Seq(Byte) /\ Flat(result[n], Part(n))}
<1>7. 0 \in T
  <2>1. Part(0) = <<>>
    OBVIOUS
  <2>2. result[0] = <<>>
    BY <1>1, <1>6
  <2>3. <<>> \in Seq(Byte)
    OBVIOUS
  <2> HIDE DEF Part
  <2>4. QED
    BY <2>1, <2>2, <2>3, FlatNone
<1>8. ASSUME NEW n \in Nat, n \in T PROVE n + 1 \in T
  <2>1. SUFFICES ASSUME n + 1 <= L
                 PROVE  result[n + 1] \in Seq(Byte) /\ Flat(result[n + 1], Part(n + 1))
    OBVIOUS
  <2>2. result[n] \in Seq(Byte) /\ Flat(result[n], Part(n))
    BY <1>1, <1>8, <2>1
  <2>3. n + 1 \in 1 .. L /\ n + 1 \in 0 .. L /\ (n + 1) - 1 = n
    BY <1>1, <2>1
  <2>4. result[n + 1] = result[n] \o parts[n + 1]
    BY <1>6, <2>3
  <2>5. parts[n + 1] \in Seq(Byte)
    BY <1>2, <2>3
  <2>6. Part(n) \in Seq(Seq(Byte)) /\ Len(Part(n)) = n
    <3>1. \A i \in 1 .. n : parts[i] \in Seq(Byte)
      BY <1>1, <1>2, <2>1
    <3>2. QED
      BY <3>1
  <2>7. Append(Part(n), parts[n + 1]) = Part(n + 1)
    BY <2>6
  <2>8. result[n] \o parts[n + 1] \in Seq(Byte)
    BY <2>2, <2>5
  <2> HIDE DEF Part
  <2>9. QED
    BY <2>2, <2>4, <2>5, <2>6, <2>7, <2>8, FlatMore
<1>9. Nat \subseteq T
  <2> HIDE DEF T
  <2>1. QED
    BY <1>7, <1>8, AllNumbers
<1>10. L \in T /\ L <= L
  BY <1>1, <1>9
<1>11. Part(L) = parts
  BY <1>1, <1>2
<1>12. QED
  BY <1>4, <1>10, <1>11 DEF L, parts

\* A number whose bytes are there is read back.
LEMMA ReadBack ==
  ASSUME NEW n \in Int32s, NEW s, NEW it, \A j \in 1 .. 4 : s[it + j] = Int32(n)[j]
  PROVE  ReadInt32(s, it) = n
  BY Int32Bytes

\* v stands in s behind its first a bytes, as far as s goes.
Written(s, a, v) == \A j \in 1 .. Len(v) : a + j <= Len(s) => s[a + j] = v[j]

\* What was written and is all there can be cut out.
LEMMA Piece ==
  ASSUME NEW s \in Seq(Byte), NEW v \in Seq(Byte), NEW a \in Nat, NEW e \in Nat,
         e = a + Len(v), e <= Len(s), Written(s, a, v)
  PROVE  SubSeq(s, a + 1, e) = v
<1> DEFINE k == Len(v)
           u == SubSeq(s, a + 1, e)
<1>1. k \in Nat /\ Len(s) \in Nat /\ e = a + k /\ a + 1 \in Int
  OBVIOUS
<1>2. \A i \in a + 1 .. e : s[i] \in Byte
  OBVIOUS
<1>3. /\ u \in Seq(Byte)
      /\ Len(u) = IF a + 1 <= e THEN e - (a + 1) + 1 ELSE 0
      /\ \A i \in 1 .. e - (a + 1) + 1 : u[i] = s[a + 1 + i - 1]
  <2> HIDE DEF k
  <2>1. QED
    BY <1>1, <1>2, SubSeqProperties
<1> HIDE DEF u
<1>4. \A i \in 1 .. k : s[a + i] = v[i]
  BY <1>1 DEF Written
<1>5. v \in Seq(Byte) /\ Len(v) = k
  OBVIOUS
<1> HIDE DEF k
<1>6. Len(u) = k
  BY <1>1, <1>3
<1>7. ASSUME NEW i \in 1 .. k PROVE u[i] = v[i]
  <2>1. i \in 1 .. e - (a + 1) + 1 /\ a + 1 + i - 1 = a + i
    BY <1>1
  <2>2. u[i] = s[a + 1 + i - 1]
    BY <1>3, <2>1
  <2>3. QED
    BY <1>4, <2>1, <2>2
<1>8. u = v
  BY <1>3, <1>5, <1>6, <1>7, SeqEqual
<1>9. QED
  BY <1>8 DEF u

\* One pass of the loop over chunks, where a chunk was written: it is read as
\* soon as its last byte is there.
LEMMA OneChunk ==
  ASSUME NEW s \in Seq(Byte), NEW r \in Reader, NEW c, FitsChunk(c), NEW e \in Nat,
         e = r.it + Len(ChunkToBinary(c)), Written(s, r.it, ChunkToBinary(c))
  PROVE  /\ e > Len(s) => Torn(s, r)
         /\ e <= Len(s) => /\ ~Torn(s, r)
                           /\ ReadChunk(s, r) = [it |-> e, left |-> r.left - 1,
                                                 chunks |-> Append(r.chunks, ReadAs(c))]
<1> DEFINE b == ChunkToBinary(c)
           at == r.it
           L == Len(s)
<1>1. at \in Nat /\ L \in Nat /\ b \in Seq(Byte) /\ Len(b) >= 5 /\ Len(b) \in Nat
  BY ChunkBytes DEF Reader
<1>2. \A j \in 1 .. Len(b) : at + j <= L => s[at + j] = b[j]
  BY DEF Written
<1>3. e = at + Len(b)
  OBVIOUS
<1>4. \/ \E n \in Int32s : NumberBytes(b, n) /\ ReadAs(c) = IntChunk(n)
      \/ \E v \in Seq(Byte) : StringBytes(b, v) /\ ReadAs(c) = StringChunk(v)
  BY ChunkBytes
<1> HIDE DEF b
<1>5. CASE L - at < 5
  BY <1>1, <1>3, <1>5 DEF Torn
<1>6. CASE L - at >= 5
  <2>1. s[at + 1] = b[1]
    BY <1>1, <1>2, <1>6, SMTT(60)
  <2>2. \A j \in 1 .. 4 : s[(at + 1) + j] = b[1 + j]
    <3> SUFFICES ASSUME NEW j \in 1 .. 4 PROVE s[(at + 1) + j] = b[1 + j]
      OBVIOUS
    <3> HIDE DEF at, L
    <3>1. 1 + j \in 1 .. Len(b) /\ at + (1 + j) <= L /\ (at + 1) + j = at + (1 + j)
      BY <1>1, <1>6
    <3>2. QED
      BY <1>2, <3>1
  <2>3. ASSUME NEW n \in Int32s, NumberBytes(b, n), ReadAs(c) = IntChunk(n)
        PROVE  /\ e <= L /\ ~Torn(s, r)
               /\ ReadChunk(s, r) = [it |-> e, left |-> r.left - 1,
                                     chunks |-> Append(r.chunks, ReadAs(c))]
    <3>1. s[at + 1] = 0 /\ Len(b) = 5
      BY <2>1, <2>3 DEF NumberBytes
    <3>2. \A j \in 1 .. 4 : s[(at + 1) + j] = Int32(n)[j]
      BY <2>2, <2>3 DEF NumberBytes
    <3>3. ReadInt32(s, at + 1) = n
      BY <3>2, Int32Bytes
    <3>4. e = at + 5 /\ e <= L
      BY <1>1, <1>3, <1>6, <3>1
    <3>5. ~Torn(s, r)
      BY <1>1, <1>6, <3>1 DEF Torn
    <3>6. QED
      BY <2>3, <3>1, <3>3, <3>4, <3>5 DEF ReadChunk
  <2>4. ASSUME NEW v \in Seq(Byte), StringBytes(b, v), ReadAs(c) = StringChunk(v)
        PROVE  /\ e > L => Torn(s, r)
               /\ e <= L => /\ ~Torn(s, r)
                            /\ ReadChunk(s, r) = [it |-> e, left |-> r.left - 1,
                                                  chunks |-> Append(r.chunks, ReadAs(c))]
    <3> DEFINE k == Len(v)
    <3>1. s[at + 1] = 1 /\ Len(b) = 5 + k /\ k \in Int32s /\ k \in Nat
      BY <2>1, <2>4 DEF StringBytes
    <3>2. \A j \in 1 .. 4 : s[(at + 1) + j] = Int32(k)[j]
      BY <2>2, <2>4 DEF StringBytes
    <3>3. v \in Seq(Byte) /\ Len(v) = k /\ \A j \in 1 .. k : b[5 + j] = v[j]
      BY <2>4 DEF StringBytes
    <3> HIDE DEF k
    <3>4. ReadInt32(s, at + 1) = k
      BY <3>1, <3>2, ReadBack
    <3>5. e = at + 5 + k
      <4>1. e = at + Len(b) /\ Len(b) = 5 + k
        BY <1>3, <3>1
      <4> HIDE DEF at
      <4>2. QED
        BY <1>1, <3>1, <4>1
    <3>6. Torn(s, r) <=> k \notin 0 .. L - at - 5
      BY <1>1, <1>6, <3>1, <3>4, SMTT(60) DEF Torn
    <3> HIDE DEF at, L
    <3>7. Torn(s, r) <=> e > L
      BY <1>1, <3>1, <3>5, <3>6
    <3>8. ASSUME e <= L
          PROVE  ReadChunk(s, r) = [it |-> e, left |-> r.left - 1,
                                    chunks |-> Append(r.chunks, ReadAs(c))]
      <4>1. ASSUME NEW j \in 1 .. k PROVE s[(at + 5) + j] = v[j]
        <5>1. 5 + j \in 1 .. Len(b) /\ at + (5 + j) <= L /\ (at + 5) + j = at + (5 + j)
          BY <1>1, <3>1, <3>5, <3>8
        <5>2. s[at + (5 + j)] = b[5 + j]
          BY <1>2, <5>1
        <5>3. QED
          BY <3>3, <5>1, <5>2
      <4>2. SubSeq(s, (at + 5) + 1, e) = v
        <5>1. at + 5 \in Nat /\ e = (at + 5) + Len(v) /\ e <= Len(s)
          BY <1>1, <3>3, <3>5, <3>8 DEF L
        <5>2. Written(s, at + 5, v)
          BY <3>3, <4>1 DEF Written
        <5>3. QED
          BY <3>3, <5>1, <5>2, Piece
      <4>3. (at + 5) + 1 = at + 6 /\ at + 5 + k = e
        BY <1>1, <3>5
      <4>4. QED
        <5>1. s[at + 1] # 0 /\ at + 5 + ReadInt32(s, at + 1) = e
          BY <3>1, <3>4, <4>3
        <5>2. SubSeq(s, at + 6, e) = v
          BY <4>2, <4>3
        <5>3. ReadChunk(s, r) = [it |-> e, left |-> r.left - 1,
                                 chunks |-> Append(r.chunks, StringChunk(v))]
          BY <5>1, <5>2 DEF ReadChunk, at
        <5>4. QED
          BY <2>4, <5>3
    <3>9. QED
      BY <1>1, <3>7, <3>8
  <2>5. QED
    BY <1>1, <1>4, <2>3, <2>4
<1>7. QED
  BY <1>1, <1>5, <1>6

\* The loop over chunks, where chunks were written: it reads them all if the last
\* byte of the last one is there, and otherwise stops before a torn one.
LEMMA AllChunks ==
  ASSUME NEW s \in Seq(Byte), NEW chunks \in Seq(Chunk), NEW at \in Nat, at <= Len(s),
         \A i \in 1 .. Len(chunks) : FitsChunk(chunks[i]),
         Written(s, at, ChunksToBinary(chunks)),
         NEW body,
         body = ReadChunks(s, [it |-> at, left |-> Len(chunks), chunks |-> <<>>])
  PROVE  /\ body \in Reader
         /\ at + Len(ChunksToBinary(chunks)) > Len(s) => body.left > 0
         /\ at + Len(ChunksToBinary(chunks)) <= Len(s) =>
              body = [it |-> at + Len(ChunksToBinary(chunks)), left |-> 0,
                      chunks |-> [i \in 1 .. Len(chunks) |-> ReadAs(chunks[i])]]
<1> DEFINE L == Len(chunks)
           C == ChunksToBinary(chunks)
           parts == [i \in 1 .. L |-> ChunkToBinary(chunks[i])]
           S == Len(s)
<1>1. L \in Nat /\ S \in Nat /\ at <= S /\ \A i \in 1 .. L : FitsChunk(chunks[i])
  OBVIOUS
<1>2. C \in Seq(Byte) /\ Flat(C, parts) /\ Len(C) \in Nat
  BY ChunksFlat, SMTT(60)
<1>3. \A j \in 1 .. Len(C) : at + j <= S => s[at + j] = C[j]
  BY DEF Written
<1>4. /\ \A i \in 1 .. L : parts[i] = ChunkToBinary(chunks[i]) /\ parts[i] \in Seq(Byte)
      /\ parts \in Seq(Seq(Byte)) /\ Len(parts) = L
  <2>1. \A i \in 1 .. L : parts[i] = ChunkToBinary(chunks[i])
    OBVIOUS
  <2>2. \A i \in 1 .. L : ChunkToBinary(chunks[i]) \in Seq(Byte)
    BY ChunkBytes
  <2>3. parts \in [1 .. L -> Seq(Byte)]
    BY <2>2
  <2> HIDE DEF parts, L
  <2>4. QED
    BY <1>1, <2>1, <2>2, <2>3
<1> HIDE DEF parts, C, S
<1>5. PICK off \in [0 .. L -> Nat] : Places(C, parts, off)
  BY <1>2, <1>4 DEF Flat
<1>6. /\ off[0] = 0 /\ off[L] = Len(C)
      /\ \A i \in 1 .. L : /\ off[i] = off[i - 1] + Len(parts[i])
                           /\ \A j \in 1 .. Len(parts[i]) : C[off[i - 1] + j] = parts[i][j]
  BY <1>4, <1>5 DEF Places
<1>7. \A i \in 0 .. L : off[i] \in Nat /\ off[i] <= Len(C)
  BY <1>2, <1>4, <1>5, PlacesGrow
<1> DEFINE all == [i \in 1 .. L |-> ReadAs(chunks[i])]
<1>8. \A i \in 1 .. L : all[i] \in NumberChunks \cup StringChunks /\ all[i] = ReadAs(chunks[i])
  BY <1>1, ChunkBytes
<1> HIDE DEF all
<1> DEFINE read(n) == [i \in 1 .. n |-> all[i]]
           reader(n) == [it |-> at + off[n], left |-> L - n, chunks |-> read(n)]
<1> HIDE DEF L
<1>9. ASSUME NEW n \in 0 .. L PROVE reader(n) \in Reader
  <2>1. \A i \in 1 .. n : i \in 1 .. L
    BY <1>1
  <2>2. \A i \in 1 .. n : all[i] \in NumberChunks \cup StringChunks
    BY <1>8, <2>1
  <2>3. read(n) \in Seq(NumberChunks \cup StringChunks)
    BY <1>1, <2>2
  <2> HIDE DEF read
  <2>4. QED
    BY <1>1, <1>7, <2>3 DEF Reader
<1>10. ASSUME NEW n \in 0 .. L, n < L
       PROVE  /\ at + off[n + 1] > S => Torn(s, reader(n))
              /\ at + off[n + 1] <= S =>
                   ~Torn(s, reader(n)) /\ ReadChunk(s, reader(n)) = reader(n + 1)
  <2> DEFINE c == chunks[n + 1]
             b == ChunkToBinary(c)
             x == off[n]
             y == off[n + 1]
             r == reader(n)
  <2>1. n + 1 \in 1 .. L /\ n + 1 \in 0 .. L /\ (n + 1) - 1 = n
    BY <1>1, <1>10
  <2>2. x \in Nat /\ y \in Nat /\ y <= Len(C)
    BY <1>7, <2>1
  <2>3. FitsChunk(c) /\ b = parts[n + 1] /\ b \in Seq(Byte) /\ Len(b) \in Nat
    <3>1. FitsChunk(c) /\ b = parts[n + 1] /\ parts[n + 1] \in Seq(Byte)
      BY <1>1, <1>4, <2>1
    <3> HIDE DEF b, c
    <3>2. QED
      BY <3>1
  <2>4. y = x + Len(b)
    BY <1>6, <2>1, <2>3
  <2>12. \A j \in 1 .. Len(b) : C[x + j] = b[j]
    BY <1>6, <2>1, <2>3
  <2>5. r \in Reader /\ r.it = at + x /\ r.left = L - n /\ r.chunks = read(n)
    BY <1>9
  <2> HIDE DEF x, y, b, c, r
  <2>6. Written(s, r.it, b)
    <3>1. ASSUME NEW j \in 1 .. Len(b), at + x + j <= S PROVE s[at + x + j] = b[j]
      <4>1. x + j \in 1 .. Len(C) /\ at + (x + j) = at + x + j
        BY <1>2, <2>2, <2>3, <2>4
      <4>2. s[at + (x + j)] = C[x + j]
        BY <1>3, <3>1, <4>1
      <4>3. QED
        BY <2>12, <4>1, <4>2
    <3>2. QED
      BY <2>5, <3>1 DEF Written, S
  <2>7. at + y \in Nat /\ at + y = r.it + Len(b)
    <3> DEFINE l == Len(b)
               z == r.it
    <3>1. z = at + x /\ y = x + l /\ x \in Nat /\ y \in Nat /\ l \in Nat
      BY <2>2, <2>3, <2>4, <2>5
    <3> HIDE DEF l, z
    <3>2. at + y \in Nat /\ at + y = z + l
      BY <3>1
    <3>3. QED
      BY <3>2 DEF l, z
  <2>8. /\ at + y > S => Torn(s, r)
        /\ at + y <= S =>
             /\ ~Torn(s, r)
             /\ ReadChunk(s, r) = [it |-> at + y, left |-> r.left - 1,
                                   chunks |-> Append(r.chunks, ReadAs(c))]
    BY <2>3, <2>5, <2>6, <2>7, OneChunk DEF b, S
  <2>9. reader(n + 1) = [it |-> at + y, left |-> r.left - 1,
                         chunks |-> Append(r.chunks, ReadAs(c))]
    <3>1. Append(read(n), all[n + 1]) = read(n + 1)
      <4>1. \A i \in 1 .. n : i \in 1 .. L
        BY <1>1
      <4>2. \A i \in 1 .. n : all[i] \in NumberChunks \cup StringChunks
        BY <1>8, <4>1
      <4>3. read(n) \in Seq(NumberChunks \cup StringChunks) /\ Len(read(n)) = n
        BY <1>1, <4>2
      <4>4. QED
        BY <4>3
    <3>2. all[n + 1] = ReadAs(c)
      BY <1>8, <2>1 DEF c
    <3>3. L - (n + 1) = r.left - 1
      BY <1>1, <2>5
    <3> HIDE DEF read
    <3>4. reader(n + 1) = [it |-> at + y, left |-> L - (n + 1), chunks |-> read(n + 1)]
      BY DEF y
    <3>5. QED
      BY <2>5, <3>1, <3>2, <3>3, <3>4, Zenon
  <2>10. QED
    BY <2>8, <2>9 DEF r, y
<1>11. /\ reader(0) = [it |-> at, left |-> L, chunks |-> <<>>]
       /\ reader(L).left = 0 /\ reader(L).it = at + Len(C)
  BY <1>1, <1>6
<1>12. \A n \in 0 .. L : reader(n).left = L - n
  OBVIOUS
<1>13. body = ReadChunks(s, reader(0))
  BY <1>11 DEF L
<1> HIDE DEF reader
<1> DEFINE Goes(n) == at + off[n] <= S /\ body = ReadChunks(s, reader(n))
           Stops == at + Len(C) > S /\ body.left > 0 /\ body \in Reader
           T == {n \in Nat : n <= L => Goes(n) \/ Stops}
<1>14. 0 \in T
  <2>1. at + off[0] <= S
    BY <1>1, <1>6
  <2>2. QED
    BY <1>13, <2>1
<1>15. ASSUME NEW n \in Nat, n \in T PROVE n + 1 \in T
  <2>1. SUFFICES ASSUME n + 1 <= L, Goes(n) PROVE Goes(n + 1) \/ Stops
    <3> HIDE DEF Goes, Stops
    <3>1. n + 1 <= L => n <= L
      BY <1>1
    <3>2. QED
      BY <1>15, <3>1
  <2>2. n \in 0 .. L /\ n < L /\ n + 1 \in 0 .. L
    BY <1>1, <2>1
  <2>3. reader(n) \in Reader /\ reader(n).left = L - n
    BY <1>9, <1>12, <2>2
  <2>4. ~(reader(n).left <= 0) /\ reader(n).left > 0
    BY <1>1, <2>2, <2>3
  <2>5. off[n + 1] \in Nat /\ off[n + 1] <= Len(C)
    BY <1>7, <2>2
  <2>6. CASE at + off[n + 1] > S
    <3>1. ReadChunks(s, reader(n)) = reader(n)
      BY <1>10, <2>2, <2>3, <2>6, ReadChunksLoops
    <3>2. at + Len(C) > S
      BY <1>1, <1>2, <2>5, <2>6
    <3>3. QED
      BY <2>1, <2>3, <2>4, <3>1, <3>2
  <2>7. CASE at + off[n + 1] <= S
    <3>1. ReadChunks(s, reader(n)) = ReadChunks(s, reader(n + 1))
      BY <1>10, <2>2, <2>3, <2>4, <2>7, ReadChunksLoops
    <3>2. QED
      BY <2>1, <2>7, <3>1
  <2>8. QED
    BY <1>1, <2>5, <2>6, <2>7
<1>16. Nat \subseteq T
  <2> HIDE DEF T
  <2>1. QED
    BY <1>14, <1>15, AllNumbers
<1>17. Goes(L) \/ Stops
  <2> HIDE DEF Goes, Stops
  <2>1. QED
    BY <1>1, <1>16
<1>18. CASE Stops
  BY <1>1, <1>2, <1>18 DEF C, S
<1>19. CASE Goes(L)
  <2>1. L \in 0 .. L
    BY <1>1
  <2>2. reader(L) \in Reader /\ reader(L).left <= 0
    BY <1>9, <1>11, <2>1
  <2>3. body = reader(L)
    BY <1>19, <2>2, ReadChunksLoops
  <2>4. reader(L) = [it |-> at + Len(C), left |-> 0, chunks |-> all]
    <3>1. all = read(L)
      BY DEF all
    <3>2. L - L = 0 /\ off[L] = Len(C)
      BY <1>1, <1>6
    <3> HIDE DEF read
    <3>3. QED
      BY <3>1, <3>2 DEF reader
  <2>5. at + Len(C) <= S
    BY <1>6, <1>19
  <2>6. /\ body \in Reader
        /\ at + Len(C) > S => body.left > 0
        /\ at + Len(C) <= S => body = [it |-> at + Len(C), left |-> 0, chunks |-> all]
    BY <1>1, <1>2, <2>2, <2>3, <2>4, <2>5
  <2>7. QED
    BY <2>6, Zenon DEF C, S, L, all
<1>20. QED
  BY <1>17, <1>18, <1>19

\* Whatever the bytes, the loop ends inside of the buffer.
LEMMA ReadChunksType ==
  ASSUME NEW s \in Seq(Byte), NEW start \in Reader, start.it <= Len(s)
  PROVE  /\ ReadChunks(s, start) \in Reader
         /\ start.it <= ReadChunks(s, start).it /\ ReadChunks(s, start).it <= Len(s)
<1> DEFINE Inside(r) == /\ ReadChunks(s, r) \in Reader
                        /\ r.it <= ReadChunks(s, r).it /\ ReadChunks(s, r).it <= Len(s)
           T == {n \in Nat : \A r \in Reader : r.left <= n /\ r.it <= Len(s) => Inside(r)}
<1>1. ASSUME NEW r \in Reader, r.it <= Len(s), r.left <= 0 \/ Torn(s, r)
      PROVE  Inside(r)
  <2>1. ReadChunks(s, r) = r /\ r.it \in Nat
    BY <1>1, ReadChunksLoops DEF Reader
  <2>2. QED
    BY <1>1, <2>1
<1>2. 0 \in T
  BY <1>1
<1>3. ASSUME NEW n \in Nat, n \in T PROVE n + 1 \in T
  <2> SUFFICES ASSUME NEW r \in Reader, r.left <= n + 1, r.it <= Len(s),
                      ~(r.left <= 0 \/ Torn(s, r))
               PROVE  Inside(r)
    BY <1>1
  <2> DEFINE q == ReadChunk(s, r)
  <2>1. q \in Reader /\ q.left = r.left - 1 /\ r.it + 5 <= q.it /\ q.it <= Len(s)
    BY ReadChunkType
  <2>2. ReadChunks(s, r) = ReadChunks(s, q)
    BY ReadChunksLoops
  <2>3. r.it \in Nat /\ q.it \in Nat /\ r.left \in Int
    BY <2>1 DEF Reader
  <2> HIDE DEF q
  <2>4. q.left <= n
    BY <2>1, <2>3
  <2>5. Inside(q)
    BY <1>3, <2>1, <2>4
  <2>6. ReadChunks(s, q).it \in Nat
    BY <2>5 DEF Reader
  <2>7. QED
    BY <2>1, <2>2, <2>3, <2>5, <2>6
<1>4. Nat \subseteq T
  <2> HIDE DEF T
  <2>1. QED
    BY <1>2, <1>3, AllNumbers
<1>5. start.left \in Int
  BY DEF Reader
<1>6. \E n \in Nat : start.left <= n
  BY <1>5
<1> HIDE DEF Inside
<1>7. Inside(start)
  BY <1>4, <1>6
<1>8. QED
  BY <1>7 DEF Inside

Message == [header : Seq(Byte), chunks : Seq(NumberChunks \cup StringChunks)]

\* Whatever the bytes, a complete message is read from the beginning of the
\* buffer, at least the 8 of its two lengths.
LEMMA ParseMessageType ==
  ASSUME NEW s \in Seq(Byte), ParseMessage(s).complete
  PROVE  /\ ParseMessage(s).message \in Message
         /\ ParseMessage(s).it \in Nat
         /\ 8 <= ParseMessage(s).it /\ ParseMessage(s).it <= Len(s)
<1> DEFINE h == ReadInt32(s, 0)
           at == 4 + h
           start == [it |-> at + 4, left |-> ReadInt32(s, at), chunks |-> <<>>]
           body == ReadChunks(s, start)
           header == SubSeq(s, 5, at)
<1>1. ~(Len(s) <= 4 \/ h \notin 0 .. Len(s) - 8)
  BY DEF ParseMessage
<1>2. ParseMessage(s) = [complete |-> body.left <= 0,
                         message |-> [header |-> header, chunks |-> body.chunks],
                         it |-> body.it]
  BY <1>1 DEF ParseMessage
<1> HIDE DEF h
<1>3. h \in Nat /\ at \in Nat /\ at + 4 \in Nat /\ 8 <= at + 4 /\ at + 4 <= Len(s)
      /\ Len(s) \in Nat
  BY <1>1
<1> HIDE DEF at
<1>4. start \in Reader
  <2>1. ReadInt32(s, at) \in Int
    BY <1>3, ReadInt32Type DEF Int32s
  <2>2. <<>> \in Seq(NumberChunks \cup StringChunks)
    OBVIOUS
  <2>3. QED
    BY <1>3, <2>1, <2>2 DEF Reader
<1>5. start.it = at + 4
  OBVIOUS
<1> HIDE DEF start
<1>6. body \in Reader /\ at + 4 <= body.it /\ body.it <= Len(s)
  BY <1>3, <1>4, <1>5, ReadChunksType
<1> HIDE DEF body
<1>7. body.it \in Nat /\ body.chunks \in Seq(NumberChunks \cup StringChunks)
  BY <1>6 DEF Reader
<1>8. header \in Seq(Byte)
  <2>1. \A i \in 5 .. at : s[i] \in Byte
    BY <1>3
  <2>2. QED
    BY <1>3, <2>1, SubSeqProperties
<1> HIDE DEF header
<1>9. [header |-> header, chunks |-> body.chunks] \in Message
  BY <1>7, <1>8 DEF Message
<1>10. 8 <= body.it
  BY <1>3, <1>6, <1>7
<1>11. QED
  BY <1>2, <1>6, <1>7, <1>9, <1>10

\* A message that can be sent.
FitsMessage(m) ==
  /\ m \in [header : Seq(Byte), chunks : Seq(Chunk)]
  /\ Len(m.header) \in Int32s /\ Len(m.chunks) \in Int32s
  /\ \A i \in 1 .. Len(m.chunks) : FitsChunk(m.chunks[i])

\* What stands in a part stands in the whole.
LEMMA WrittenPart ==
  ASSUME NEW s \in Seq(Byte), NEW t \in Seq(Byte), NEW v \in Seq(Byte), NEW a \in Nat,
         Written(s, 0, t), Written(t, a, v), a + Len(v) <= Len(t)
  PROVE  Written(s, a, v)
<1> DEFINE k == Len(v)
           l == Len(t)
           n == Len(s)
<1>1. k \in Nat /\ l \in Nat /\ n \in Nat /\ a + k <= l
  OBVIOUS
<1>2. \A j \in 1 .. l : 0 + j <= n => s[0 + j] = t[j]
  BY DEF Written
<1>3. \A j \in 1 .. k : a + j <= l => t[a + j] = v[j]
  BY DEF Written
<1> SUFFICES \A j \in 1 .. k : a + j <= n => s[a + j] = v[j]
  BY DEF Written
<1> HIDE DEF k, l, n
<1>4. ASSUME NEW j \in 1 .. k, a + j <= n PROVE s[a + j] = v[j]
  <2>1. a + j \in 1 .. l /\ 0 + (a + j) = a + j
    BY <1>1
  <2>2. s[a + j] = t[a + j]
    BY <1>2, <1>4, <2>1
  <2>3. t[a + j] = v[j]
    BY <1>1, <1>3, <2>1
  <2>4. QED
    BY <2>2, <2>3
<1>5. QED
  BY <1>4

\* Both parts stand in the whole.
LEMMA WrittenJoin ==
  ASSUME NEW v \in Seq(Byte), NEW w \in Seq(Byte), NEW u, u = v \o w
  PROVE  /\ u \in Seq(Byte) /\ Len(u) = Len(v) + Len(w)
         /\ Written(u, 0, v) /\ Written(u, Len(v), w)
<1>1. /\ u \in Seq(Byte) /\ Len(u) = Len(v) + Len(w)
      /\ \A j \in 1 .. Len(v) : u[j] = v[j]
      /\ \A j \in 1 .. Len(w) : u[Len(v) + j] = w[j]
  BY Joined
<1>2. \A j \in 1 .. Len(v) : 0 + j = j
  OBVIOUS
<1>3. Written(u, 0, v) /\ Written(u, Len(v), w)
  BY <1>1, <1>2 DEF Written
<1>4. QED
  BY <1>1, <1>3

\* Where the four parts of the bytes of a message are.
LEMMA MessageBytes ==
  ASSUME NEW m, FitsMessage(m)
  PROVE  /\ Len(m.header) \in Nat /\ ChunksToBinary(m.chunks) \in Seq(Byte)
         /\ ToBinary(m) \in Seq(Byte)
         /\ Len(ToBinary(m)) = 8 + Len(m.header) + Len(ChunksToBinary(m.chunks))
         /\ Written(ToBinary(m), 0, Int32(Len(m.header)))
         /\ Written(ToBinary(m), 4, m.header)
         /\ Written(ToBinary(m), 4 + Len(m.header), Int32(Len(m.chunks)))
         /\ Written(ToBinary(m), 8 + Len(m.header), ChunksToBinary(m.chunks))
<1> DEFINE H == m.header
           h == Len(m.header)
           C == ChunksToBinary(m.chunks)
           T == ToBinary(m)
           x == Int32(h)
           y == Int32(Len(m.chunks))
           u == x \o H
           v == u \o y
           c == Len(C)
<1>1. H \in Seq(Byte) /\ Len(H) = h /\ h \in Nat /\ h \in Int32s
  BY DEF FitsMessage
<1>2. x \in Seq(Byte) /\ Len(x) = 4
  BY <1>1, Int32Bytes
<1>3. y \in Seq(Byte) /\ Len(y) = 4
  BY Int32Bytes DEF FitsMessage
<1>4. C \in Seq(Byte) /\ c \in Nat
  <2>1. m.chunks \in Seq(Chunk) /\ \A i \in 1 .. Len(m.chunks) : FitsChunk(m.chunks[i])
    BY DEF FitsMessage
  <2>2. C \in Seq(Byte)
    BY <2>1, ChunksFlat
  <2>3. QED
    BY <2>2
<1>5. T = v \o C
  BY DEF ToBinary
<1> HIDE DEF x, y, H, h, C, T
<1>6. u \in Seq(Byte) /\ Len(u) = 4 + h /\ Written(u, 0, x) /\ Written(u, 4, H)
  <2> HIDE DEF u
  <2>1. /\ u \in Seq(Byte) /\ Len(u) = Len(x) + Len(H)
        /\ Written(u, 0, x) /\ Written(u, Len(x), H)
    BY <1>1, <1>2, WrittenJoin DEF u
  <2>2. QED
    BY <1>1, <1>2, <2>1
<1> HIDE DEF u
<1>7. /\ v \in Seq(Byte) /\ Len(v) = 8 + h
      /\ Written(v, 0, u) /\ Written(v, 4 + h, y)
  <2> HIDE DEF v
  <2>1. /\ v \in Seq(Byte) /\ Len(v) = Len(u) + Len(y)
        /\ Written(v, 0, u) /\ Written(v, Len(u), y)
    BY <1>3, <1>6, WrittenJoin DEF v
  <2>2. QED
    BY <1>1, <1>3, <1>6, <2>1
<1> HIDE DEF v
<1>8. /\ T \in Seq(Byte) /\ Len(T) = 8 + h + c
      /\ Written(T, 0, v) /\ Written(T, 8 + h, C)
  <2>1. /\ T \in Seq(Byte) /\ Len(T) = Len(v) + Len(C)
        /\ Written(T, 0, v) /\ Written(T, Len(v), C)
    BY <1>4, <1>5, <1>7, WrittenJoin
  <2>2. QED
    BY <1>7, <2>1
<1>9. Written(T, 0, u) /\ Written(T, 4 + h, y)
  <2>1. 0 + Len(u) <= Len(v) /\ 4 + h + Len(y) <= Len(v) /\ 4 + h \in Nat
    BY <1>1, <1>3, <1>6, <1>7
  <2>2. QED
    BY <1>3, <1>6, <1>7, <1>8, <2>1, WrittenPart
<1>10. Written(T, 0, x) /\ Written(T, 4, H)
  <2>1. 0 + Len(x) <= Len(u) /\ 4 + Len(H) <= Len(u)
    BY <1>1, <1>2, <1>6
  <2>2. QED
    BY <1>1, <1>2, <1>6, <1>8, <1>9, <2>1, WrittenPart
<1>11. QED
  BY <1>1, <1>4, <1>8, <1>9, <1>10 DEF x, y, H, h, C, T

\* An int32_t whose bytes are there is read back.
LEMMA ReadWritten ==
  ASSUME NEW s \in Seq(Byte), NEW a \in Nat, NEW n \in Int32s,
         Written(s, a, Int32(n)), a + 4 <= Len(s)
  PROVE  ReadInt32(s, a) = n
<1>1. Len(Int32(n)) = 4
  BY Int32Bytes
<1>2. \A j \in 1 .. 4 : a + j <= Len(s)
  OBVIOUS
<1>3. \A j \in 1 .. 4 : s[a + j] = Int32(n)[j]
  BY <1>1, <1>2 DEF Written
<1>4. QED
  BY <1>3, ReadBack

\* A buffer that begins as a message does has this message, if its last byte is
\* there, and otherwise none.
LEMMA OneMessage ==
  ASSUME NEW s \in Seq(Byte), NEW m, FitsMessage(m), NEW T, T = ToBinary(m), Written(s, 0, T)
  PROVE  /\ T \in Seq(Byte) /\ Len(T) > 0
         /\ Len(T) > Len(s) => ~ParseMessage(s).complete
         /\ Len(T) <= Len(s) =>
              /\ ParseMessage(s).complete
              /\ ParseMessage(s).message = Meaning(m)
              /\ ParseMessage(s).it = Len(T)
<1> DEFINE H == m.header
           h == Len(m.header)
           k == Len(m.chunks)
           C == ChunksToBinary(m.chunks)
           c == Len(C)
           S == Len(s)
           start == [it |-> 8 + h, left |-> k, chunks |-> <<>>]
           body == ReadChunks(s, start)
           first == ParseMessage(s)
           t == Len(T)
<1>1. h \in Nat /\ C \in Seq(Byte) /\ T \in Seq(Byte) /\ t = 8 + h + c
  BY MessageBytes
<1>2. /\ Written(T, 0, Int32(h)) /\ Written(T, 4, H)
      /\ Written(T, 4 + h, Int32(k)) /\ Written(T, 8 + h, C)
  BY MessageBytes
<1>3. H \in Seq(Byte) /\ Len(H) = h /\ h \in Int32s /\ k \in Int32s /\ k \in Nat
      /\ m.chunks \in Seq(Chunk) /\ \A i \in 1 .. k : FitsChunk(m.chunks[i])
  BY DEF FitsMessage
<1>4. S \in Nat /\ c \in Nat
  BY <1>1
<1> HIDE DEF H, h, k, C
<1>5. /\ Written(s, 0, Int32(h)) /\ Written(s, 4, H)
      /\ Written(s, 4 + h, Int32(k)) /\ Written(s, 8 + h, C)
  <2>1. /\ Int32(h) \in Seq(Byte) /\ Len(Int32(h)) = 4
        /\ Int32(k) \in Seq(Byte) /\ Len(Int32(k)) = 4
    BY <1>3, Int32Bytes
  <2> HIDE DEF c, S, t
  <2>2. /\ 0 + 4 <= t /\ 4 + h <= t /\ 4 + h + 4 <= t /\ 8 + h + c <= t
        /\ 4 + h \in Nat /\ 8 + h \in Nat
    BY <1>1, <1>4
  <2>3. QED
    BY <1>1, <1>2, <1>3, <2>1, <2>2, WrittenPart, ZenonT(60) DEF t, c
<1> HIDE DEF c, S, t
<1>6. CASE S <= 4
  <2>1. t > S
    BY <1>1, <1>4, <1>6
  <2>2. ~first.complete
    BY <1>6 DEF ParseMessage, S
  <2> HIDE DEF first
  <2>3. t > S => ~first.complete
    BY <2>2
  <2>4. ~(t <= S) /\ t > 0
    BY <1>1, <1>4, <2>1
  <2>5. QED
    BY <1>1, <2>3, <2>4 DEF S, t, first
<1>7. CASE S > 4
  <2>1. ReadInt32(s, 0) = h
    <3>1. 0 + 4 <= Len(s)
      BY <1>7 DEF S
    <3>2. QED
      BY <1>3, <1>5, <3>1, ReadWritten
  <2>2. CASE h \notin 0 .. S - 8
    <3>1. t > S
      BY <1>1, <1>4, <2>2
    <3>2. ~first.complete
      BY <2>1, <2>2 DEF ParseMessage, S
    <3> HIDE DEF first
    <3>3. ~(t <= S) /\ t > 0
      BY <1>1, <1>4, <3>1
    <3>4. QED
      BY <1>1, <3>2, <3>3 DEF S, t, first
  <2>3. CASE h \in 0 .. S - 8
    <3>1. 8 + h <= S /\ 4 + h \in Nat /\ 8 + h \in Nat /\ 4 + h + 4 = 8 + h
      BY <1>1, <1>4, <2>3
    <3>2. ReadInt32(s, 4 + h) = k
      <4>1. 4 + h + 4 <= Len(s)
        BY <3>1 DEF S
      <4>2. QED
        BY <1>3, <1>5, <3>1, <4>1, ReadWritten
    <3>3. SubSeq(s, 4 + 1, 4 + h) = H
      <4>1. 4 + h = 4 + Len(H) /\ 4 + h <= Len(s)
        <5>1. 4 + h <= S
          BY <1>1, <1>4, <3>1
        <5>2. QED
          BY <1>3, <5>1 DEF S
      <4>2. QED
        BY <1>3, <1>5, <3>1, <4>1, Piece
    <3>4. /\ body \in Reader
          /\ 8 + h + c > S => body.left > 0
          /\ 8 + h + c <= S =>
               body = [it |-> 8 + h + c, left |-> 0,
                       chunks |-> [i \in 1 .. k |-> ReadAs(m.chunks[i])]]
      <4>1. start = [it |-> 8 + h, left |-> Len(m.chunks), chunks |-> <<>>]
        BY DEF k
      <4>2. 8 + h <= Len(s) /\ \A i \in 1 .. Len(m.chunks) : FitsChunk(m.chunks[i])
        BY <1>3, <3>1 DEF S, k
      <4> HIDE DEF start
      <4>3. QED
        BY <1>3, <1>5, <3>1, <4>1, <4>2, AllChunks DEF C, S, c, k
    <3> HIDE DEF body
    <3>5. first = [complete |-> body.left <= 0,
                   message |-> [header |-> H, chunks |-> body.chunks],
                   it |-> body.it]
      <4>1. ~(Len(s) <= 4 \/ ReadInt32(s, 0) \notin 0 .. Len(s) - 8)
        BY <1>4, <1>7, <2>1, <2>3 DEF S
      <4>2. [it |-> (4 + h) + 4, left |-> ReadInt32(s, 4 + h), chunks |-> <<>>] = start
        BY <3>1, <3>2
      <4>3. SubSeq(s, 5, 4 + h) = H
        BY <3>3
      <4> HIDE DEF start
      <4>4. QED
        BY <2>1, <4>1, <4>2, <4>3 DEF ParseMessage, body
    <3> HIDE DEF first
    <3>6. Meaning(m) = [header |-> H, chunks |-> [i \in 1 .. k |-> ReadAs(m.chunks[i])]]
      <4>1. DOMAIN m.chunks = 1 .. k
        BY <1>3 DEF k
      <4>2. m = [header |-> H, chunks |-> m.chunks]
        BY DEF FitsMessage, H
      <4>3. Meaning(m) = [m EXCEPT !.chunks = [i \in 1 .. k |-> ReadAs(m.chunks[i])]]
        BY <4>1, Zenon DEF Meaning, ReadAs
      <4> DEFINE d == [i \in 1 .. k |-> ReadAs(m.chunks[i])]
      <4> HIDE DEF d
      <4>4. [m EXCEPT !.chunks = d] = [header |-> H, chunks |-> d]
        BY <4>2
      <4>5. QED
        BY <4>3, <4>4 DEF d
    <3>7. ASSUME t > S PROVE ~first.complete
      <4>1. body.left > 0 /\ body.left \in Int
        BY <1>1, <3>4, <3>7 DEF Reader
      <4>2. first.complete <=> body.left <= 0
        BY <3>5
      <4>3. QED
        BY <4>1, <4>2
    <3>8. ASSUME t <= S
          PROVE  first.complete /\ first.message = Meaning(m) /\ first.it = t
      <4> DEFINE d == [i \in 1 .. k |-> ReadAs(m.chunks[i])]
      <4>1. body = [it |-> 8 + h + c, left |-> 0, chunks |-> d]
        BY <1>1, <3>4, <3>8
      <4>2. Meaning(m) = [header |-> H, chunks |-> d]
        BY <3>6
      <4> HIDE DEF d
      <4>3. body.left <= 0 /\ body.it = t /\ body.chunks = d
        BY <1>1, <4>1
      <4>4. first.complete <=> body.left <= 0
        BY <3>5
      <4>5. first.message = [header |-> H, chunks |-> body.chunks] /\ first.it = body.it
        BY <3>5
      <4>6. QED
        BY <4>2, <4>3, <4>4, <4>5
    <3>9. t > 0
      BY <1>1, <1>4
    <3>10. QED
      BY <1>1, <3>7, <3>8, <3>9 DEF S, t, first
  <2>4. QED
    BY <2>2, <2>3
<1>8. QED
  BY <1>4, <1>6, <1>7

-----------------------------------------------------------------------------
(* Parsing all messages of a buffer.                                       *)

\* Each message that is passed on makes the buffer shorter.
LEMMA ParseOneType ==
  ASSUME NEW p \in Parser, ParseMessage(p.buffer).complete
  PROVE  /\ ParseOne(p) \in Parser
         /\ Len(ParseOne(p).buffer) < Len(p.buffer)
         /\ Len(p.buffer) \in Nat /\ Len(ParseOne(p).buffer) \in Nat
<1> DEFINE s == p.buffer
           first == ParseMessage(s)
           S == Len(s)
           it == first.it
           rest == SubSeq(s, it + 1, S)
           ms == Append(p.messages, first.message)
<1>1. s \in Seq(Byte) /\ S \in Nat /\ p.messages \in Seq(Message)
  BY DEF Parser, Message
<1>2. first.message \in Message /\ it \in Nat /\ 8 <= it /\ it <= S
  BY <1>1, ParseMessageType
<1>3. ParseOne(p) = [buffer |-> rest, messages |-> ms]
  BY DEF ParseOne
<1> HIDE DEF it
<1>4. rest \in Seq(Byte) /\ Len(rest) \in Nat /\ Len(rest) < S
  <2>1. \A i \in it + 1 .. S : s[i] \in Byte
    BY <1>1, <1>2
  <2> HIDE DEF s, S
  <2>2. /\ rest \in Seq(Byte)
        /\ Len(rest) = IF it + 1 <= S THEN S - (it + 1) + 1 ELSE 0
    BY <1>1, <1>2, <2>1, SubSeqProperties
  <2>3. QED
    BY <1>1, <1>2, <2>2
<1> HIDE DEF rest, first
<1>5. ms \in Seq(Message)
  BY <1>1, <1>2, AppendProperties
<1> HIDE DEF ms
<1>6. ParseOne(p) \in Parser
  BY <1>3, <1>4, <1>5 DEF Parser, Message
<1>7. QED
  BY <1>1, <1>3, <1>4, <1>6

\* The loop over messages exists: its result is that of its first pass and the
\* loop from there.
LEMMA ParseFromLoops ==
  ASSUME NEW start \in Parser
  PROVE  ParseFrom(start) = IF ~ParseMessage(start.buffer).complete THEN start
                            ELSE ParseFrom(ParseOne(start))
<1> DEFINE F(g) == [p \in Parser |-> IF ~ParseMessage(p.buffer).complete THEN p
                                     ELSE g[ParseOne(p)]]
           loop == CHOOSE g : g = F(g)
<1>1. \E g : g = F(g)
  <2> DEFINE stops == {p \in Parser : ~ParseMessage(p.buffer).complete}
             next == [p \in Parser |-> IF p \in stops THEN p ELSE ParseOne(p)]
             m == [p \in Parser |-> Len(p.buffer)]
  <2>1. m \in [Parser -> Nat] /\ next \in [Parser -> Parser]
    <3>1. \A p \in Parser : Len(p.buffer) \in Nat
      BY DEF Parser
    <3>2. \A p \in Parser \ stops : ParseOne(p) \in Parser
      BY ParseOneType
    <3>3. QED
      BY <3>1, <3>2
  <2>2. \A p \in Parser \ stops : m[next[p]] < m[p]
    <3> SUFFICES ASSUME NEW p \in Parser, p \notin stops PROVE m[next[p]] < m[p]
      OBVIOUS
    <3>1. next[p] = ParseOne(p) /\ ParseOne(p) \in Parser
          /\ Len(ParseOne(p).buffer) < Len(p.buffer)
      BY ParseOneType
    <3> HIDE DEF next
    <3>2. QED
      BY <3>1
  <2> HIDE DEF m
  <2>3. \E g \in [Parser -> Parser] : Loops(g, Parser, next, stops)
    <3> HIDE DEF next, stops
    <3>1. QED
      BY <2>1, <2>2, LoopEnds
  <2>4. PICK g \in [Parser -> Parser] :
          \A p \in Parser : g[p] = IF p \in stops THEN p ELSE g[next[p]]
    BY <2>3 DEF Loops
  <2>5. g = F(g)
    <3>1. \A p \in Parser : p \in stops <=> ~ParseMessage(p.buffer).complete
      OBVIOUS
    <3>2. \A p \in Parser : ParseMessage(p.buffer).complete => next[p] = ParseOne(p)
      BY <3>1
    <3> HIDE DEF stops, next
    <3>3. \A p \in Parser : g[p] = IF ~ParseMessage(p.buffer).complete THEN p
                                  ELSE g[ParseOne(p)]
      BY <2>4, <3>1, <3>2
    <3>4. QED
      BY <3>3
  <2>6. QED
    BY <2>5
<1>2. loop = F(loop)
  BY <1>1
<1>3. ParseFrom(start) = loop[start]
  BY DEF ParseFrom
<1>4. ParseFrom(ParseOne(start)) = loop[ParseOne(start)]
  BY DEF ParseFrom
<1> HIDE DEF loop
<1>5. QED
  BY <1>2, <1>3, <1>4

-----------------------------------------------------------------------------
(* The buffer between two reads.                                           *)

\* Of the messages ms, the first k as they are read, and the bytes of the rest.
ReadUpTo(ms, k) == [i \in 1 .. k |-> Meaning(ms[i])]
Rest(ms, k) == [i \in 1 .. Len(ms) - k |-> ToBinary(ms[k + i])]

\* k messages were read, and a buffer s and the bytes w that did not arrive yet
\* are all the others.
Holds(ms, k, got, s, w) ==
  got = ReadUpTo(ms, k) /\ Flat(s \o w, Rest(ms, k))

\* The buffer has no other complete message.
NoMore(ms, k, s) == k < Len(ms) => Len(s) < Len(ToBinary(ms[k + 1]))

\* The bytes of the messages that are not read yet, the next one first.
LEMMA RestParts ==
  ASSUME NEW ms, NEW n \in Nat, n = Len(ms), \A i \in 1 .. n : FitsMessage(ms[i]),
         NEW k \in 0 .. n
  PROVE  /\ Rest(ms, k) \in Seq(Seq(Byte)) /\ Len(Rest(ms, k)) = n - k
         /\ k < n => /\ Rest(ms, k) # <<>> /\ Rest(ms, k)[1] = ToBinary(ms[k + 1])
                     /\ Tail(Rest(ms, k)) = Rest(ms, k + 1)
<1> DEFINE b == [i \in 1 .. n |-> ToBinary(ms[i])]
           rest(l) == [i \in 1 .. n - l |-> b[l + i]]
<1>1. \A i \in 1 .. n : b[i] \in Seq(Byte) /\ b[i] = ToBinary(ms[i])
  BY MessageBytes
<1>2. ASSUME NEW l \in 0 .. n
      PROVE  /\ Rest(ms, l) = rest(l) /\ rest(l) \in Seq(Seq(Byte)) /\ Len(rest(l)) = n - l
             /\ \A i \in 1 .. n - l : rest(l)[i] = b[l + i]
  <2>1. \A i \in 1 .. n - l : l + i \in 1 .. n
    OBVIOUS
  <2> HIDE DEF b
  <2>2. Rest(ms, l) = rest(l)
    BY <1>1, <2>1 DEF Rest
  <2>3. \A i \in 1 .. n - l : b[l + i] \in Seq(Byte)
    BY <1>1, <2>1
  <2>4. n - l \in Nat
    OBVIOUS
  <2>5. QED
    BY <2>2, <2>3, <2>4
<1> HIDE DEF b, rest
<1>3. ASSUME k < n
      PROVE  rest(k) # <<>> /\ rest(k)[1] = b[k + 1] /\ Tail(rest(k)) = rest(k + 1)
  <2>1. k + 1 \in 0 .. n /\ 1 \in 1 .. n - k /\ n - (k + 1) = (n - k) - 1 /\ k + 1 \in 1 .. n
    BY <1>3
  <2>2. rest(k) # <<>> /\ rest(k)[1] = b[k + 1]
    BY <1>2, <2>1
  <2>3. /\ Tail(rest(k)) \in Seq(Seq(Byte)) /\ Len(Tail(rest(k))) = (n - k) - 1
        /\ \A i \in 1 .. (n - k) - 1 : Tail(rest(k))[i] = rest(k)[i + 1]
    BY <1>2, <2>2, HeadTailProperties
  <2>4. ASSUME NEW i \in 1 .. (n - k) - 1 PROVE Tail(rest(k))[i] = rest(k + 1)[i]
    <3>1. i + 1 \in 1 .. n - k /\ k + (i + 1) = (k + 1) + i /\ i \in 1 .. n - (k + 1)
      BY <1>3
    <3>2. rest(k)[i + 1] = b[k + (i + 1)] /\ rest(k + 1)[i] = b[(k + 1) + i]
      BY <1>2, <2>1, <3>1
    <3>3. QED
      BY <2>3, <3>1, <3>2
  <2>5. rest(k + 1) \in Seq(Seq(Byte)) /\ Len(rest(k + 1)) = (n - k) - 1
    BY <1>2, <2>1
  <2>6. Tail(rest(k)) = rest(k + 1)
    BY <2>3, <2>4, <2>5, SeqEqual
  <2>7. QED
    BY <2>2, <2>6
<1>4. k < n => k + 1 \in 0 .. n /\ k + 1 \in 1 .. n
  OBVIOUS
<1>5. QED
  BY <1>1, <1>2, <1>3, <1>4

\* A message that was sent means one that parse can make.
LEMMA MeaningType ==
  ASSUME NEW m, FitsMessage(m)
  PROVE  Meaning(m) \in Message
<1>1. m.chunks \in Seq(Chunk) /\ m.header \in Seq(Byte)
      /\ m = [header |-> m.header, chunks |-> m.chunks]
  BY DEF FitsMessage
<1> DEFINE d == [i \in DOMAIN m.chunks |-> ReadAs(m.chunks[i])]
<1>2. \A i \in 1 .. Len(m.chunks) : ReadAs(m.chunks[i]) \in NumberChunks \cup StringChunks
  BY ChunkBytes DEF FitsMessage
<1>3. d \in Seq(NumberChunks \cup StringChunks)
  BY <1>1, <1>2
<1>4. Meaning(m) = [m EXCEPT !.chunks = d]
  BY Zenon DEF Meaning, ReadAs
<1> HIDE DEF d
<1>5. [m EXCEPT !.chunks = d] = [header |-> m.header, chunks |-> d]
  BY <1>1
<1>6. QED
  BY <1>1, <1>3, <1>4, <1>5 DEF Message

\* A prefix of a joined sequence can be cut off before or after joining.
LEMMA CutJoin ==
  ASSUME NEW s \in Seq(Byte), NEW w \in Seq(Byte), NEW a \in Nat, a <= Len(s)
  PROVE  /\ SubSeq(s, a + 1, Len(s)) \in Seq(Byte)
         /\ SubSeq(s \o w, a + 1, Len(s \o w)) = SubSeq(s, a + 1, Len(s)) \o w
<1> DEFINE x == Len(s)
           y == Len(w)
           u == s \o w
           r == SubSeq(s, a + 1, x)
           v == SubSeq(u, a + 1, x + y)
           q == r \o w
<1>1. x \in Nat /\ y \in Nat /\ a <= x /\ \A i \in 1 .. x : s[i] \in Byte
  OBVIOUS
<1>2. /\ u \in Seq(Byte) /\ Len(u) = x + y
      /\ \A j \in 1 .. x : u[j] = s[j]
      /\ \A j \in 1 .. y : u[x + j] = w[j]
  BY Joined
<1>3. \A j \in 1 .. x + y : u[j] \in Byte
  BY <1>2
<1> HIDE DEF x, y, u
<1>4. /\ r \in Seq(Byte) /\ Len(r) = x - a
      /\ \A j \in 1 .. x - a : r[j] = s[a + j]
  <2>1. \A i \in a + 1 .. x : s[i] \in Byte
    BY <1>1
  <2>2. /\ r \in Seq(Byte)
        /\ Len(r) = IF a + 1 <= x THEN x - (a + 1) + 1 ELSE 0
        /\ \A j \in 1 .. x - (a + 1) + 1 : r[j] = s[a + 1 + j - 1]
    BY <1>1, <2>1, SubSeqProperties
  <2> HIDE DEF r
  <2>3. x - (a + 1) + 1 = x - a /\ \A j \in 1 .. x - a : a + 1 + j - 1 = a + j
    BY <1>1
  <2>4. Len(r) = x - a
    BY <1>1, <2>2
  <2>5. QED
    BY <2>2, <2>3, <2>4
<1>5. /\ v \in Seq(Byte) /\ Len(v) = x + y - a
      /\ \A j \in 1 .. x + y - a : v[j] = u[a + j]
  <2>1. \A i \in a + 1 .. x + y : u[i] \in Byte
    BY <1>1, <1>3
  <2>2. /\ v \in Seq(Byte)
        /\ Len(v) = IF a + 1 <= x + y THEN x + y - (a + 1) + 1 ELSE 0
        /\ \A j \in 1 .. x + y - (a + 1) + 1 : v[j] = u[a + 1 + j - 1]
    BY <1>1, <2>1, SubSeqProperties
  <2> HIDE DEF v
  <2>3. x + y - (a + 1) + 1 = x + y - a /\ \A j \in 1 .. x + y - a : a + 1 + j - 1 = a + j
    BY <1>1
  <2>4. Len(v) = x + y - a
    BY <1>1, <2>2
  <2>5. QED
    BY <2>2, <2>3, <2>4
<1> HIDE DEF r, v
<1>6. /\ q \in Seq(Byte) /\ Len(q) = (x - a) + y
      /\ \A j \in 1 .. x - a : q[j] = r[j]
      /\ \A j \in 1 .. y : q[(x - a) + j] = w[j]
  <2>1. /\ r \o w \in Seq(Byte) /\ Len(r \o w) = Len(r) + Len(w)
        /\ \A j \in 1 .. Len(r) : (r \o w)[j] = r[j]
        /\ \A j \in 1 .. Len(w) : (r \o w)[Len(r) + j] = w[j]
    BY <1>4, Joined
  <2>2. QED
    BY <1>4, <2>1 DEF y
<1> HIDE DEF q
<1>7. ASSUME NEW j \in 1 .. x + y - a PROVE v[j] = q[j]
  <2>1. CASE j <= x - a
    <3>1. j \in 1 .. x - a /\ a + j \in 1 .. x
      BY <1>1, <2>1
    <3>2. v[j] = u[a + j] /\ u[a + j] = s[a + j] /\ q[j] = r[j] /\ r[j] = s[a + j]
      BY <1>2, <1>4, <1>5, <1>6, <3>1
    <3>3. QED
      BY <3>2
  <2>2. CASE j > x - a
    <3> DEFINE i == j - (x - a)
    <3>1. i \in 1 .. y /\ j = (x - a) + i /\ a + j = x + i
      BY <1>1, <2>2
    <3> HIDE DEF i
    <3>2. v[j] = u[a + j] /\ u[x + i] = w[i] /\ q[(x - a) + i] = w[i]
      BY <1>2, <1>5, <1>6, <3>1
    <3>3. QED
      BY <3>1, <3>2
  <2>3. QED
    BY <1>1, <2>1, <2>2
<1>8. Len(v) = Len(q)
  BY <1>1, <1>5, <1>6
<1>9. v = q
  BY <1>5, <1>6, <1>7, <1>8, SeqEqual
<1>10. QED
  BY <1>2, <1>4, <1>9 DEF r, v, q, u, x

\* What a buffer has of the messages that were not read yet.
LEMMA NextMessage ==
  ASSUME NEW ms, NEW n \in Nat, n = Len(ms), \A i \in 1 .. n : FitsMessage(ms[i]),
         NEW k \in 0 .. n, NEW s \in Seq(Byte), NEW w \in Seq(Byte),
         Flat(s \o w, Rest(ms, k))
  PROVE  /\ k = n => s = <<>>
         /\ k < n =>
              /\ Written(s, 0, ToBinary(ms[k + 1]))
              /\ Len(ToBinary(ms[k + 1])) <= Len(s) =>
                   Flat(SubSeq(s, Len(ToBinary(ms[k + 1])) + 1, Len(s)) \o w, Rest(ms, k + 1))
<1> DEFINE u == s \o w
           parts == Rest(ms, k)
           T == ToBinary(ms[k + 1])
           t == Len(T)
           x == Len(s)
           y == Len(w)
<1>1. /\ u \in Seq(Byte) /\ Len(u) = x + y
      /\ \A j \in 1 .. x : u[j] = s[j]
      /\ x \in Nat /\ y \in Nat
  BY Joined
<1>2. parts \in Seq(Seq(Byte)) /\ Len(parts) = n - k /\ Flat(u, parts)
  BY RestParts
<1>3. ASSUME k = n PROVE s = <<>>
  <2>1. Len(parts) = 0
    BY <1>2, <1>3
  <2> HIDE DEF parts, u
  <2>2. PICK off \in [0 .. Len(parts) -> Nat] : Places(u, parts, off)
    BY <1>2 DEF Flat
  <2>3. Len(u) = 0
    BY <2>1, <2>2 DEF Places
  <2>4. x = 0
    BY <1>1, <2>3
  <2>5. QED
    BY <2>4
<1>4. ASSUME k < n
      PROVE  Written(s, 0, T) /\ (t <= x => Flat(SubSeq(s, t + 1, x) \o w, Rest(ms, k + 1)))
  <2>1. parts # <<>> /\ parts[1] = T /\ Tail(parts) = Rest(ms, k + 1)
    BY <1>4, RestParts
  <2>2. T \in Seq(Byte) /\ t \in Nat
    <3>1. FitsMessage(ms[k + 1])
      BY <1>4
    <3>2. T \in Seq(Byte)
      BY <3>1, MessageBytes
    <3> HIDE DEF T
    <3>3. QED
      BY <3>2
  <2> HIDE DEF parts, u, T
  <2>3. /\ \A j \in 1 .. t : u[j] = T[j]
        /\ Flat(SubSeq(u, t + 1, Len(u)), Rest(ms, k + 1))
    BY <1>1, <1>2, <2>1, FlatFirst
  <2>4. Written(s, 0, T)
    <3> HIDE DEF t, x
    <3>1. ASSUME NEW j \in 1 .. t, 0 + j <= x PROVE s[0 + j] = T[j]
      <4>1. 0 + j = j /\ j \in 1 .. x
        BY <1>1, <2>2, <3>1
      <4>2. u[j] = s[j] /\ u[j] = T[j]
        BY <1>1, <2>3, <4>1
      <4>3. QED
        BY <4>1, <4>2
    <3>2. QED
      BY <3>1 DEF Written, t, x
  <2>5. ASSUME t <= x PROVE Flat(SubSeq(s, t + 1, x) \o w, Rest(ms, k + 1))
    <3>1. SubSeq(u, t + 1, Len(u)) = SubSeq(s, t + 1, x) \o w
      <4> HIDE DEF t
      <4>1. QED
        BY <2>2, <2>5, CutJoin DEF u
    <3>2. QED
      BY <2>3, <3>1, Zenon
  <2>6. QED
    BY <2>4, <2>5
<1>5. QED
  BY <1>3, <1>4

\* What stands where in two lists of messages one after the other.
LEMMA JoinedMessages ==
  ASSUME NEW v \in Seq(Message), NEW w \in Seq(Message)
  PROVE  /\ v \o w \in Seq(Message) /\ Len(v \o w) = Len(v) + Len(w)
         /\ \A j \in 1 .. Len(v) : (v \o w)[j] = v[j]
         /\ \A j \in 1 .. Len(w) : (v \o w)[Len(v) + j] = w[j]
  BY ConcatProperties

\* One message more at the end of both.
LEMMA JoinAppend ==
  ASSUME NEW v \in Seq(Message), NEW w \in Seq(Message), NEW m \in Message
  PROVE  v \o Append(w, m) = Append(v \o w, m)
<1> DEFINE x == Len(v)
           y == Len(w)
           u == v \o w
           q == Append(w, m)
           l == v \o q
           r == Append(u, m)
<1>1. x \in Nat /\ y \in Nat
  OBVIOUS
<1>2. /\ u \in Seq(Message) /\ Len(u) = x + y
      /\ \A j \in 1 .. x : u[j] = v[j]
      /\ \A j \in 1 .. y : u[x + j] = w[j]
  BY ConcatProperties
<1>3. /\ q \in Seq(Message) /\ Len(q) = y + 1 /\ q[y + 1] = m
      /\ \A j \in 1 .. y : q[j] = w[j]
  BY AppendProperties
<1> HIDE DEF u, q, x
<1>4. /\ l \in Seq(Message) /\ Len(l) = x + Len(q)
      /\ \A j \in 1 .. x : l[j] = v[j]
      /\ \A j \in 1 .. Len(q) : l[x + j] = q[j]
  <2>1. /\ v \o q \in Seq(Message) /\ Len(v \o q) = Len(v) + Len(q)
        /\ \A j \in 1 .. Len(v) : (v \o q)[j] = v[j]
        /\ \A j \in 1 .. Len(q) : (v \o q)[Len(v) + j] = q[j]
    BY <1>3, JoinedMessages
  <2>2. QED
    BY <2>1, Zenon DEF x
<1>5. /\ r \in Seq(Message) /\ Len(r) = Len(u) + 1 /\ r[Len(u) + 1] = m
      /\ \A j \in 1 .. Len(u) : r[j] = u[j]
  BY <1>2, AppendProperties
<1> HIDE DEF l, r, x, y
<1>6. Len(l) = x + y + 1 /\ Len(r) = x + y + 1
  BY <1>1, <1>2, <1>3, <1>4, <1>5
<1>7. ASSUME NEW j \in 1 .. x + y + 1 PROVE l[j] = r[j]
  <2>1. CASE j <= x
    <3>1. j \in 1 .. x /\ j \in 1 .. x + y
      BY <1>1, <2>1
    <3>2. QED
      BY <1>2, <1>4, <1>5, <3>1
  <2>2. CASE x < j /\ j <= x + y
    <3> DEFINE i == j - x
    <3>1. i \in 1 .. y /\ i \in 1 .. y + 1 /\ j = x + i /\ x + i \in 1 .. x + y
      BY <1>1, <2>2
    <3> HIDE DEF i
    <3>2. l[x + i] = q[i] /\ q[i] = w[i] /\ u[x + i] = w[i] /\ r[x + i] = u[x + i]
      BY <1>2, <1>3, <1>4, <1>5, <3>1
    <3>3. QED
      BY <3>1, <3>2
  <2>3. CASE j = x + y + 1
    <3>1. y + 1 \in 1 .. y + 1 /\ j = x + (y + 1)
      BY <1>1, <2>3
    <3>2. l[x + (y + 1)] = m /\ r[x + y + 1] = m
      BY <1>2, <1>3, <1>4, <1>5, <3>1
    <3>3. QED
      BY <2>3, <3>1, <3>2
  <2>4. QED
    BY <1>1, <2>1, <2>2, <2>3
<1>8. l = r
  BY <1>4, <1>5, <1>6, <1>7, SeqEqual
<1>9. QED
  BY <1>8 DEF l, r, u, q

\* One message more is read.
LEMMA ReadUpToMore ==
  ASSUME NEW ms, NEW n \in Nat, \A i \in 1 .. n : FitsMessage(ms[i]),
         NEW k \in 0 .. n, k < n
  PROVE  /\ ReadUpTo(ms, k) \in Seq(Message)
         /\ Append(ReadUpTo(ms, k), Meaning(ms[k + 1])) = ReadUpTo(ms, k + 1)
<1> DEFINE b == [i \in 1 .. n |-> Meaning(ms[i])]
           read(l) == [i \in 1 .. l |-> b[i]]
<1>1. \A i \in 1 .. n : b[i] \in Message /\ b[i] = Meaning(ms[i])
  BY MeaningType
<1> HIDE DEF b
<1>2. \A l \in 0 .. n : ReadUpTo(ms, l) = read(l)
  <2> SUFFICES ASSUME NEW l \in 0 .. n PROVE ReadUpTo(ms, l) = read(l)
    OBVIOUS
  <2>1. \A i \in 1 .. l : i \in 1 .. n
    OBVIOUS
  <2>2. QED
    BY <1>1, <2>1 DEF ReadUpTo
<1>3. \A i \in 1 .. k : b[i] \in Message
  BY <1>1
<1>4. read(k) \in Seq(Message) /\ Len(read(k)) = k
  BY <1>3
<1>5. Append(read(k), b[k + 1]) = read(k + 1)
  BY <1>4
<1>6. k + 1 \in 1 .. n /\ k + 1 \in 0 .. n
  OBVIOUS
<1> HIDE DEF read
<1>7. QED
  BY <1>1, <1>2, <1>4, <1>5, <1>6

\* Behind the last message the buffer is empty.
LEMMA NothingLeft ==
  ASSUME NEW ms, NEW n \in Nat, n = Len(ms), \A i \in 1 .. n : FitsMessage(ms[i]),
         NEW s \in Seq(Byte), NEW w \in Seq(Byte), NEW l, l = n,
         Flat(s \o w, Rest(ms, l))
  PROVE  s = <<>>
<1>1. n \in 0 .. n /\ Flat(s \o w, Rest(ms, n))
  OBVIOUS
<1>2. QED
  BY <1>1, NextMessage

\* parse keeps what holds of the buffer, until it has no other message.
LEMMA ParseHolds ==
  ASSUME NEW ms, NEW n \in Nat, n = Len(ms), \A i \in 1 .. n : FitsMessage(ms[i]),
         NEW w \in Seq(Byte), NEW got \in Seq(Message),
         NEW k \in 0 .. n, NEW p \in Parser,
         Holds(ms, k, got \o p.messages, p.buffer, w)
  PROVE  /\ ParseFrom(p) \in Parser
         /\ \E l \in 0 .. n : /\ Holds(ms, l, got \o ParseFrom(p).messages, ParseFrom(p).buffer, w)
                              /\ NoMore(ms, l, ParseFrom(p).buffer)
<1> DEFINE Done(q) ==
             /\ ParseFrom(q) \in Parser
             /\ \E l \in 0 .. n : /\ Holds(ms, l, got \o ParseFrom(q).messages, ParseFrom(q).buffer, w)
                                  /\ NoMore(ms, l, ParseFrom(q).buffer)
           Held(l, q) == Holds(ms, l, got \o q.messages, q.buffer, w)
           T == {j \in Nat : \A l \in 0 .. n : \A q \in Parser :
                                n - l <= j /\ Held(l, q) => Done(q)}
<1>1. ASSUME NEW l \in 0 .. n, NEW q \in Parser, Held(l, q)
      PROVE  \/ Done(q)
             \/ /\ l < n /\ ParseFrom(q) = ParseFrom(ParseOne(q))
                /\ ParseOne(q) \in Parser /\ Held(l + 1, ParseOne(q))
  <2> DEFINE s == q.buffer
             m == ms[l + 1]
             B == ToBinary(m)
             t == Len(B)
  <2>1. s \in Seq(Byte) /\ q.messages \in Seq(Message)
    BY DEF Parser, Message
  <2>2. got \o q.messages = ReadUpTo(ms, l) /\ Flat(s \o w, Rest(ms, l))
    BY <1>1 DEF Holds
  <2>3. ASSUME ~ParseMessage(s).complete, NoMore(ms, l, s) PROVE Done(q)
    <3>1. ParseFrom(q) = q
      BY <2>3, ParseFromLoops
    <3>2. QED
      BY <1>1, <2>3, <3>1
  <2>4. CASE l = n
    <3> HIDE DEF s
    <3>1. s = <<>>
      <4>1. s \in Seq(Byte) /\ Flat(s \o w, Rest(ms, l))
        BY <2>1, <2>2
      <4>2. l = Len(ms)
        BY <2>4
      <4>3. QED
        BY <4>1, <4>2, NothingLeft
    <3>2. ~ParseMessage(s).complete
      BY <3>1 DEF ParseMessage
    <3>3. NoMore(ms, l, s)
      BY <2>4 DEF NoMore
    <3>4. QED
      BY <2>3, <3>2, <3>3
  <2>5. CASE l < n
    <3>1. Written(s, 0, B) /\ (t <= Len(s) => Flat(SubSeq(s, t + 1, Len(s)) \o w, Rest(ms, l + 1)))
      BY <2>1, <2>2, <2>5, NextMessage
    <3>2. FitsMessage(m)
      BY <2>5
    <3>3. /\ B \in Seq(Byte) /\ t > 0
          /\ t > Len(s) => ~ParseMessage(s).complete
          /\ t <= Len(s) => /\ ParseMessage(s).complete
                            /\ ParseMessage(s).message = Meaning(m)
                            /\ ParseMessage(s).it = t
      BY <2>1, <3>1, <3>2, OneMessage
    <3>4. t \in Nat /\ Len(s) \in Nat
      BY <2>1, <3>3
    <3>5. CASE t > Len(s)
      <4>1. NoMore(ms, l, s)
        BY <3>4, <3>5 DEF NoMore
      <4> HIDE DEF Done, s, t, B
      <4>2. QED
        BY <2>3, <3>3, <3>5, <4>1
    <3>6. CASE t <= Len(s)
      <4>1. ParseMessage(s).complete
        BY <3>3, <3>6
      <4>2. ParseFrom(q) = ParseFrom(ParseOne(q)) /\ ParseOne(q) \in Parser
        BY <4>1, ParseFromLoops, ParseOneType
      <4>3. ParseOne(q) = [buffer |-> SubSeq(s, t + 1, Len(s)),
                           messages |-> Append(q.messages, Meaning(m))]
        <5>1. ParseMessage(q.buffer).message = Meaning(m) /\ ParseMessage(q.buffer).it = t
          BY <3>3, <3>6
        <5> HIDE DEF t
        <5>2. QED
          BY <5>1 DEF ParseOne
      <4>4. got \o Append(q.messages, Meaning(m)) = ReadUpTo(ms, l + 1)
        <5>1. Meaning(m) \in Message
          BY <3>2, MeaningType
        <5>2. got \o Append(q.messages, Meaning(m)) = Append(got \o q.messages, Meaning(m))
          BY <2>1, <5>1, JoinAppend
        <5>3. Append(ReadUpTo(ms, l), Meaning(m)) = ReadUpTo(ms, l + 1)
          BY <2>5, ReadUpToMore
        <5>4. QED
          BY <2>2, <5>2, <5>3
      <4>5. Held(l + 1, ParseOne(q))
        <5>1. Flat(SubSeq(s, t + 1, Len(s)) \o w, Rest(ms, l + 1))
          BY <3>1, <3>6
        <5> DEFINE rest == SubSeq(s, t + 1, Len(s))
                   read == Append(q.messages, Meaning(m))
        <5>3. ParseOne(q) = [buffer |-> rest, messages |-> read]
          BY <4>3
        <5> HIDE DEF rest, read
        <5>4. ParseOne(q).buffer = rest /\ ParseOne(q).messages = read
          BY <5>3
        <5>2. ParseOne(q).buffer = SubSeq(s, t + 1, Len(s))
              /\ ParseOne(q).messages = Append(q.messages, Meaning(m))
          BY <5>4 DEF rest, read
        <5> HIDE DEF s, t, m
        <5>5. QED
          BY <4>4, <5>1, <5>2, Zenon DEF Holds
      <4> HIDE DEF Done, Held
      <4>6. QED
        BY <2>5, <4>2, <4>5
    <3>7. QED
      BY <3>4, <3>5, <3>6
  <2>6. QED
    BY <2>4, <2>5
<1>2. \A q, r \in Parser : ParseFrom(q) = ParseFrom(r) /\ Done(r) => Done(q)
  OBVIOUS
<1> HIDE DEF Done, Held
<1>3. 0 \in T
  BY <1>1
<1>4. ASSUME NEW j \in Nat, j \in T PROVE j + 1 \in T
  <2> SUFFICES ASSUME NEW l \in 0 .. n, NEW q \in Parser, n - l <= j + 1, Held(l, q)
               PROVE  Done(q)
    OBVIOUS
  <2>1. CASE /\ l < n /\ ParseFrom(q) = ParseFrom(ParseOne(q))
             /\ ParseOne(q) \in Parser /\ Held(l + 1, ParseOne(q))
    <3>1. l + 1 \in 0 .. n /\ n - (l + 1) <= j
      BY <2>1
    <3>2. Done(ParseOne(q))
      BY <1>4, <2>1, <3>1
    <3>3. QED
      BY <1>2, <2>1, <3>2
  <2>2. QED
    BY <1>1, <2>1
<1>5. Nat \subseteq T
  <2> HIDE DEF T
  <2>1. QED
    BY <1>3, <1>4, AllNumbers
<1>6. n - k \in T /\ n - k <= n - k
  <2> HIDE DEF T
  <2>1. QED
    BY <1>5
<1>7. Held(k, p)
  BY DEF Held
<1>8. Done(p)
  BY <1>6, <1>7
<1>9. QED
  BY <1>8 DEF Done

-----------------------------------------------------------------------------
(* The connection.                                                         *)

\* The messages received are the first k that were sent, and the buffer and what
\* is on its way the bytes of the others, of which no whole message is in the
\* buffer.
FramingInv ==
  /\ sent \in Seq(Messages)
  /\ wire \in Seq(Byte)
  /\ currentMsg \in Seq(Byte)
  /\ received \in Seq(Message)
  /\ \E k \in 0 .. Len(sent) :
       Holds(sent, k, received, currentMsg, wire) /\ NoMore(sent, k, currentMsg)

\* The lengths of all messages fit four bytes.
LEMMA MessagesFit == \A m \in Messages : FitsMessage(m)
<1> SUFFICES ASSUME NEW m \in Messages PROVE FitsMessage(m)
  OBVIOUS
<1>1. m \in [header : Seq(Byte), chunks : Seq(Chunk)]
  BY FramingAssumption DEF Chunk
<1>2. Len(m.header) \in Int32s /\ Len(m.chunks) \in Int32s
  BY FramingAssumption
<1>3. ASSUME NEW i \in 1 .. Len(m.chunks) PROVE FitsChunk(m.chunks[i])
  <2>1. m.chunks \in Seq(Chunk) /\ DOMAIN m.chunks = 1 .. Len(m.chunks)
    BY <1>1
  <2>2. m.chunks[i] \in Chunk
    BY <2>1
  <2>3. m.chunks[i].type = "string" => Len(m.chunks[i].value) \in Int32s
    BY <2>1, FramingAssumption
  <2>4. QED
    BY <2>2, <2>3 DEF FitsChunk
<1>4. QED
  BY <1>1, <1>2, <1>3 DEF FitsMessage

\* At the beginning nothing was sent and nothing is held.
LEMMA Nothing ==
  ASSUME NEW ms, ms = <<>>
  PROVE  Holds(ms, 0, <<>>, <<>>, <<>>) /\ NoMore(ms, 0, <<>>)
<1>1. ReadUpTo(ms, 0) = <<>>
  BY DEF ReadUpTo
<1>2. Rest(ms, 0) = <<>> /\ <<>> \o <<>> = <<>>
  BY DEF Rest
<1>3. ~(0 < Len(ms))
  OBVIOUS
<1>4. QED
  BY <1>1, <1>2, <1>3, FlatNone DEF Holds, NoMore

\* A message is sent: its bytes are behind all others.
LEMMA SendKeeps ==
  ASSUME FramingInv, NEW m \in Messages, SendMessage(m)
  PROVE  FramingInv'
<1> DEFINE n == Len(sent)
           B == ToBinary(m)
           s == currentMsg
<1>1. /\ sent' = Append(sent, m) /\ wire' = wire \o B
      /\ currentMsg' = s /\ received' = received
  BY DEF SendMessage
<1>2. /\ sent \in Seq(Messages) /\ n \in Nat /\ wire \in Seq(Byte) /\ s \in Seq(Byte)
      /\ received \in Seq(Message)
  BY DEF FramingInv
<1>3. PICK k \in 0 .. n : Holds(sent, k, received, s, wire) /\ NoMore(sent, k, s)
  BY DEF FramingInv
<1>4. FitsMessage(m) /\ B \in Seq(Byte) /\ Len(B) > 0 /\ Len(B) \in Nat
  <2>1. FitsMessage(m)
    BY MessagesFit
  <2>2. Len(m.header) \in Nat /\ B \in Seq(Byte) /\ ChunksToBinary(m.chunks) \in Seq(Byte)
        /\ Len(B) = 8 + Len(m.header) + Len(ChunksToBinary(m.chunks))
    BY <2>1, MessageBytes
  <2> DEFINE x == Len(m.header)
             y == Len(ChunksToBinary(m.chunks))
             z == Len(B)
  <2> HIDE DEF B
  <2>3. y \in Nat /\ x \in Nat /\ z = 8 + x + y
    BY <2>2
  <2> HIDE DEF x, y, z
  <2>4. z > 0 /\ z \in Nat
    BY <2>3
  <2>5. QED
    BY <2>1, <2>2, <2>4 DEF z
<1>5. /\ sent' \in Seq(Messages) /\ Len(sent') = n + 1 /\ sent'[n + 1] = m
      /\ \A i \in 1 .. n : sent'[i] = sent[i] /\ FitsMessage(sent[i])
  <2>1. \A i \in 1 .. n : sent[i] \in Messages
    BY <1>2
  <2>2. /\ Append(sent, m) \in Seq(Messages) /\ Len(Append(sent, m)) = Len(sent) + 1
        /\ \A i \in 1 .. Len(sent) : Append(sent, m)[i] = sent[i]
        /\ Append(sent, m)[Len(sent) + 1] = m
    BY <1>2, AppendProperties
  <2>3. QED
    BY <1>1, <2>1, <2>2, MessagesFit
<1>6. wire \o B \in Seq(Byte) /\ s \o wire \in Seq(Byte)
  BY <1>2, <1>4
<1> HIDE DEF n, B, s
<1>7. ReadUpTo(sent', k) = ReadUpTo(sent, k)
  <2>1. \A i \in 1 .. k : sent'[i] = sent[i]
    BY <1>2, <1>5
  <2>2. QED
    BY <2>1 DEF ReadUpTo
<1>8. Rest(sent', k) = Append(Rest(sent, k), B) /\ Rest(sent, k) \in Seq(Seq(Byte))
  <2> DEFINE b == [i \in 1 .. n + 1 |-> ToBinary(sent'[i])]
  <2>1. \A i \in 1 .. n + 1 : b[i] \in Seq(Byte) /\ b[i] = ToBinary(sent'[i])
    <3>1. \A i \in 1 .. n + 1 : FitsMessage(sent'[i])
      BY <1>2, <1>4, <1>5
    <3>2. QED
      BY <3>1, MessageBytes
  <2>2. b[n + 1] = B /\ \A i \in 1 .. n : b[i] = ToBinary(sent[i])
    <3>1. n + 1 \in 1 .. n + 1 /\ \A i \in 1 .. n : i \in 1 .. n + 1
      BY <1>2
    <3>2. QED
      BY <1>5, <2>1, <3>1 DEF B
  <2> HIDE DEF b
  <2> DEFINE l == n - k
             q == [i \in 1 .. l |-> b[k + i]]
             r == [i \in 1 .. l + 1 |-> b[k + i]]
  <2>3. l \in Nat /\ \A i \in 1 .. l + 1 : k + i \in 1 .. n + 1
    BY <1>2
  <2>4. \A i \in 1 .. l : k + i \in 1 .. n /\ b[k + i] \in Seq(Byte)
    BY <1>2, <2>1
  <2>5. q = Rest(sent, k)
    BY <2>2, <2>4 DEF Rest, n
  <2>6. r = Rest(sent', k)
    <3>1. Len(sent') - k = l + 1
      BY <1>2, <1>5
    <3>2. QED
      BY <2>1, <2>3, <3>1 DEF Rest
  <2>7. k + (l + 1) = n + 1
    BY <1>2
  <2> HIDE DEF l
  <2>8. q \in Seq(Seq(Byte)) /\ Len(q) = l
    BY <2>3, <2>4
  <2>9. Append(q, b[k + (l + 1)]) = r
    BY <2>3, <2>8
  <2> HIDE DEF q, r
  <2>10. QED
    BY <2>2, <2>5, <2>6, <2>7, <2>8, <2>9
<1>9. Flat(s \o (wire \o B), Append(Rest(sent, k), B))
  <2>1. Flat(s \o wire, Rest(sent, k))
    BY <1>3 DEF Holds
  <2>2. Flat((s \o wire) \o B, Append(Rest(sent, k), B))
    BY <1>4, <1>6, <1>8, <2>1, FlatMore
  <2>3. (s \o wire) \o B = s \o (wire \o B)
    BY <1>2, <1>4, ConcatAssociative, SMTT(60)
  <2>4. QED
    BY <2>2, <2>3, Zenon
<1>10. Holds(sent', k, received', currentMsg', wire')
  BY <1>1, <1>3, <1>7, <1>8, <1>9, Zenon DEF Holds
<1>11. NoMore(sent', k, s)
  <2>1. CASE k < n
    <3>1. k + 1 \in 1 .. n
      BY <1>2, <2>1
    <3>2. QED
      BY <1>3, <1>5, <2>1, <3>1 DEF NoMore, n
  <2>2. CASE k = n
    <3>1. s = <<>>
      <4>1. Flat(s \o wire, Rest(sent, k)) /\ k = Len(sent)
        BY <1>3, <2>2 DEF Holds, n
      <4>2. QED
        BY <1>2, <1>5, <4>1, NothingLeft DEF n
    <3>2. Len(s) = 0
      BY <3>1
    <3>3. ToBinary(sent'[k + 1]) = B
      BY <1>5, <2>2 DEF B
    <3>4. QED
      BY <1>4, <3>2, <3>3 DEF NoMore
  <2>3. QED
    BY <1>2, <2>1, <2>2
<1>12. k \in 0 .. Len(sent')
  BY <1>2, <1>5
<1>13. QED
  BY <1>1, <1>2, <1>5, <1>6, <1>10, <1>11, <1>12 DEF FramingInv, s

\* Bytes are read: the messages they complete are passed on.
LEMMA ReadKeeps ==
  ASSUME FramingInv, NEW n \in 1 .. Len(wire), OnRead(n)
  PROVE  FramingInv' /\ \E more \in Seq(Message) : received' = received \o more
<1> DEFINE L == Len(sent)
           W == Len(wire)
           piece == SubSeq(wire, 1, n)
           rest == SubSeq(wire, n + 1, W)
           p == [buffer |-> currentMsg \o piece, messages |-> <<>>]
           q == ParseFrom(p)
<1>1. /\ sent \in Seq(Messages) /\ L \in Nat /\ wire \in Seq(Byte) /\ W \in Nat
      /\ currentMsg \in Seq(Byte) /\ received \in Seq(Message)
  BY DEF FramingInv
<1>2. PICK k \in 0 .. L : Holds(sent, k, received, currentMsg, wire)
  BY DEF FramingInv
<1>3. /\ wire' = rest /\ currentMsg' = q.buffer
      /\ received' = received \o q.messages /\ sent' = sent
  BY DEF OnRead, Parse
<1>4. piece \in Seq(Byte) /\ rest \in Seq(Byte) /\ piece \o rest = wire
  <2>1. \A i \in 1 .. W : wire[i] \in Byte
    BY <1>1
  <2>2. n \in Nat /\ 1 <= n /\ n <= W
    OBVIOUS
  <2>3. piece \in Seq(Byte) /\ rest \in Seq(Byte)
    <3> HIDE DEF W
    <3>1. \A i \in 1 .. n : wire[i] \in Byte
      BY <1>1, <2>1, <2>2
    <3>2. \A i \in n + 1 .. W : wire[i] \in Byte
      BY <1>1, <2>1, <2>2
    <3>3. QED
      BY <1>1, <2>2, <3>1, <3>2, SubSeqProperties
  <2>4. SubSeq(wire, 1, n) \o SubSeq(wire, n + 1, W) = SubSeq(wire, 1, W)
    <3>1. 1 \in 1 .. Len(wire) + 1 /\ n \in 1 - 1 .. Len(wire) /\ W \in n .. Len(wire)
      BY <1>1, <2>2
    <3>2. QED
      BY <1>1, <3>1, ConcatAdjacentSubSeq
  <2>5. SubSeq(wire, 1, W) = wire
    BY <1>1, SubSeqFull
  <2>6. QED
    BY <2>3, <2>4, <2>5
<1> HIDE DEF piece, rest, L
<1>5. p \in Parser
  <2>1. currentMsg \o piece \in Seq(Byte)
    BY <1>1, <1>4
  <2>2. <<>> \in Seq(Message)
    OBVIOUS
  <2>3. QED
    BY <2>1, <2>2 DEF Parser, Message
<1>6. Holds(sent, k, received \o p.messages, p.buffer, rest)
  <2>1. p.messages = <<>> /\ p.buffer = currentMsg \o piece
    OBVIOUS
  <2>2. received \o <<>> = received
    BY <1>1, ConcatEmptySeq
  <2>3. (currentMsg \o piece) \o rest = currentMsg \o wire
    <3>1. currentMsg \in Seq(Byte) /\ piece \in Seq(Byte) /\ rest \in Seq(Byte)
      BY <1>1, <1>4
    <3>2. (currentMsg \o piece) \o rest = currentMsg \o (piece \o rest)
      BY <3>1, ConcatAssociative, SMTT(60)
    <3>3. QED
      BY <1>4, <3>2, Zenon
  <2> HIDE DEF p
  <2>4. QED
    BY <1>2, <2>1, <2>2, <2>3, Zenon DEF Holds
<1> HIDE DEF p
<1>7. \A i \in 1 .. L : FitsMessage(sent[i])
  BY <1>1, MessagesFit DEF L
<1>8. /\ q \in Parser
      /\ \E l \in 0 .. L : /\ Holds(sent, l, received \o q.messages, q.buffer, rest)
                           /\ NoMore(sent, l, q.buffer)
  <2>1. L = Len(sent)
    BY DEF L
  <2>2. QED
    BY <1>1, <1>4, <1>5, <1>6, <1>7, <2>1, ParseHolds
<1> HIDE DEF q
<1>9. q.buffer \in Seq(Byte) /\ q.messages \in Seq(Message)
  BY <1>8 DEF Parser, Message
<1>10. received \o q.messages \in Seq(Message)
  BY <1>1, <1>9
<1>11. sent' \in Seq(Messages) /\ wire' \in Seq(Byte) /\ currentMsg' \in Seq(Byte)
       /\ received' \in Seq(Message)
  BY <1>1, <1>3, <1>4, <1>9, <1>10
<1>12. PICK l \in 0 .. L : /\ Holds(sent, l, received \o q.messages, q.buffer, rest)
                           /\ NoMore(sent, l, q.buffer)
  BY <1>8
<1>13. Holds(sent', l, received', currentMsg', wire') /\ NoMore(sent', l, currentMsg')
  BY <1>3, <1>12, Zenon
<1>14. l \in 0 .. Len(sent')
  BY <1>3, <1>12 DEF L
<1>15. FramingInv'
  BY <1>11, <1>13, <1>14 DEF FramingInv
<1>16. QED
  BY <1>3, <1>9, <1>15

\* Every message that was received is the one sent in its place, in whatever
\* pieces the bytes came, and the rest of them is in the buffer and on the way.
THEOREM ConnectionKeeps == Spec => []FramingInv
<1>1. Init => FramingInv
  <2> SUFFICES ASSUME Init PROVE FramingInv
    OBVIOUS
  <2>1. sent = <<>> /\ wire = <<>> /\ currentMsg = <<>> /\ received = <<>>
    BY DEF Init
  <2>2. Holds(sent, 0, received, currentMsg, wire) /\ NoMore(sent, 0, currentMsg)
    BY <2>1, Nothing
  <2>3. 0 \in 0 .. Len(sent)
    BY <2>1
  <2>4. sent \in Seq(Messages) /\ wire \in Seq(Byte) /\ currentMsg \in Seq(Byte)
        /\ received \in Seq(Message)
    BY <2>1
  <2>5. QED
    BY <2>2, <2>3, <2>4 DEF FramingInv
<1>2. FramingInv /\ [Next]_vars => FramingInv'
  <2> SUFFICES ASSUME FramingInv, [Next]_vars PROVE FramingInv'
    OBVIOUS
  <2>1. CASE \E m \in Messages : SendMessage(m)
    BY <2>1, SendKeeps
  <2>2. CASE \E n \in 1 .. Len(wire) : OnRead(n)
    BY <2>2, ReadKeeps
  <2>3. CASE OnNewClient
    <3>1. sent' = <<>> /\ wire' = <<>> /\ currentMsg' = <<>> /\ received' = <<>>
      BY <2>3 DEF OnNewClient
    <3>2. Holds(sent', 0, received', currentMsg', wire') /\ NoMore(sent', 0, currentMsg')
      BY <3>1, Nothing
    <3>3. 0 \in 0 .. Len(sent')
      BY <3>1
    <3>4. sent' \in Seq(Messages) /\ wire' \in Seq(Byte) /\ currentMsg' \in Seq(Byte)
          /\ received' \in Seq(Message)
      BY <3>1
    <3>5. QED
      BY <3>2, <3>3, <3>4 DEF FramingInv
  <2>4. CASE UNCHANGED vars
    <3>1. sent' = sent /\ wire' = wire /\ currentMsg' = currentMsg /\ received' = received
      BY <2>4 DEF vars
    <3>2. QED
      BY <3>1 DEF FramingInv
  <2>5. QED
    BY <2>1, <2>2, <2>3, <2>4 DEF Next
<1>3. QED
  BY <1>1, <1>2, PTL DEF Spec

\* The first k elements of a sequence.
LEMMA FirstPart ==
  ASSUME NEW S, NEW u \in Seq(S), NEW k \in 0 .. Len(u)
  PROVE  /\ SubSeq(u, 1, k) \in Seq(S) /\ Len(SubSeq(u, 1, k)) = k
         /\ \A i \in 1 .. k : SubSeq(u, 1, k)[i] = u[i]
<1>1. Len(u) \in Nat /\ \A i \in 1 .. Len(u) : u[i] \in S
  OBVIOUS
<1>2. \A i \in 1 .. k : u[i] \in S
  BY <1>1
<1>3. /\ SubSeq(u, 1, k) \in Seq(S)
      /\ Len(SubSeq(u, 1, k)) = IF 1 <= k THEN k - 1 + 1 ELSE 0
      /\ \A i \in 1 .. k - 1 + 1 : SubSeq(u, 1, k)[i] = u[1 + i - 1]
  BY <1>1, <1>2, SubSeqProperties
<1>4. k \in Nat /\ (IF 1 <= k THEN k - 1 + 1 ELSE 0) = k
  BY <1>1
<1>5. ASSUME NEW i \in 1 .. k PROVE SubSeq(u, 1, k)[i] = u[i]
  <2>1. i \in 1 .. k - 1 + 1 /\ 1 + i - 1 = i
    BY <1>1
  <2>2. QED
    BY <1>3, <2>1
<1>6. QED
  BY <1>3, <1>4, <1>5

\* What the messages mean that were sent, and what was received of it: all when
\* nothing is on the way, for a whole message would have been read.
LEMMA ReceivedMeans ==
  ASSUME NEW ms \in Seq(Messages), NEW s \in Seq(Byte), NEW w \in Seq(Byte),
         NEW k \in 0 .. Len(ms), NEW got, Holds(ms, k, got, s, w), NoMore(ms, k, s),
         NEW all, all = [i \in DOMAIN ms |-> Meaning(ms[i])]
  PROVE  /\ all \in Seq(Message) /\ Len(all) = Len(ms)
         /\ \A i \in 1 .. Len(ms) : all[i] = Meaning(ms[i])
         /\ got \in Seq(Message) /\ Len(got) = k /\ SubSeq(all, 1, k) = got
         /\ w = <<>> => got = all
<1> DEFINE n == Len(ms)
<1>1. n \in Nat /\ DOMAIN ms = 1 .. n /\ got = ReadUpTo(ms, k) /\ Flat(s \o w, Rest(ms, k))
  BY DEF Holds
<1>2. \A i \in 1 .. n : FitsMessage(ms[i])
  BY <1>1, MessagesFit
<1>3. \A i \in 1 .. n : Meaning(ms[i]) \in Message
  BY <1>2, MeaningType
<1>4. n = Len(ms)
  OBVIOUS
<1> HIDE DEF n
<1>5. all \in Seq(Message) /\ Len(all) = n /\ \A i \in 1 .. n : all[i] = Meaning(ms[i])
  BY <1>1, <1>3
<1>6. got \in Seq(Message) /\ Len(got) = k /\ \A i \in 1 .. k : got[i] = Meaning(ms[i])
  <2>1. \A i \in 1 .. k : Meaning(ms[i]) \in Message
    BY <1>1, <1>3, <1>4
  <2>2. QED
    BY <1>1, <2>1 DEF ReadUpTo
<1>7. SubSeq(all, 1, k) = got
  <2> DEFINE u == SubSeq(all, 1, k)
  <2>1. k \in 0 .. n
    BY <1>4
  <2>2. u \in Seq(Message) /\ Len(u) = k /\ \A i \in 1 .. k : u[i] = all[i]
    BY <1>5, <2>1, FirstPart
  <2> HIDE DEF u
  <2>3. \A i \in 1 .. k : i \in 1 .. n
    BY <1>1, <2>1
  <2>4. \A i \in 1 .. k : u[i] = got[i]
    BY <1>5, <1>6, <2>2, <2>3
  <2>5. u = got
    BY <1>6, <2>2, <2>4, SeqEqual
  <2>6. QED
    BY <2>5 DEF u
<1>8. ASSUME w = <<>> PROVE k = n
  <2>0. k \in 0 .. n
    BY <1>4
  <2>1. SUFFICES ASSUME k < n PROVE FALSE
    BY <1>1, <2>0
  <2> DEFINE parts == Rest(ms, k)
             T == ToBinary(ms[k + 1])
  <2>2. s \o w = s
    BY <1>8, ConcatEmptySeq
  <2>3. /\ parts \in Seq(Seq(Byte)) /\ Len(parts) = n - k /\ parts[1] = T
    BY <1>1, <1>2, <1>4, <2>1, RestParts
  <2>4. T \in Seq(Byte) /\ Len(s) < Len(T)
    <3>1. k + 1 \in 1 .. n
      BY <1>1, <2>1
    <3>2. FitsMessage(ms[k + 1])
      BY <1>2, <3>1
    <3>3. Len(s) < Len(ToBinary(ms[k + 1]))
      BY <1>4, <2>1 DEF NoMore
    <3>4. QED
      BY <3>2, <3>3, MessageBytes
  <2>5. Flat(s, parts)
    BY <1>1, <2>2, Zenon
  <2> HIDE DEF parts, T
  <2>6. PICK off \in [0 .. Len(parts) -> Nat] : Places(s, parts, off)
    BY <2>5 DEF Flat
  <2>7. 1 \in 1 .. Len(parts) /\ 1 \in 0 .. Len(parts)
    BY <1>1, <2>1, <2>3
  <2>8. off[0] = 0 /\ off[1] = off[1 - 1] + Len(parts[1])
    BY <2>6, <2>7 DEF Places
  <2>9. off[1] <= Len(s)
    BY <2>3, <2>6, <2>7, PlacesGrow
  <2> DEFINE x == Len(s)
             t == Len(T)
  <2>10. x \in Nat /\ t \in Nat /\ x < t
    BY <2>4
  <2>11. off[1] = t /\ off[1] <= x
    BY <2>3, <2>8, <2>9, <2>10
  <2> HIDE DEF x, t
  <2>12. QED
    BY <2>10, <2>11
<1>9. ASSUME k = n PROVE got = all
  BY <1>5, <1>6, <1>9, SeqEqual
<1>10. QED
  BY <1>4, <1>5, <1>6, <1>7, <1>8, <1>9

\* In whatever pieces the bytes arrive, the messages are received unchanged and in
\* order (GPGNetMessage::parse).
THEOREM ReceivedInOrder == Spec => []InOrder
<1>1. FramingInv => InOrder
  <2> SUFFICES ASSUME FramingInv PROVE InOrder
    OBVIOUS
  <2>1. /\ sent \in Seq(Messages) /\ Len(sent) \in Nat
        /\ wire \in Seq(Byte) /\ currentMsg \in Seq(Byte)
    BY DEF FramingInv
  <2>2. PICK k \in 0 .. Len(sent) :
          Holds(sent, k, received, currentMsg, wire) /\ NoMore(sent, k, currentMsg)
    BY DEF FramingInv
  <2>3. Meanings = [i \in DOMAIN sent |-> Meaning(sent[i])]
    BY DEF Meanings
  <2>4. /\ Meanings \in Seq(Message) /\ Len(Meanings) = Len(sent)
        /\ received \in Seq(Message) /\ Len(received) = k /\ SubSeq(Meanings, 1, k) = received
    BY <2>1, <2>2, <2>3, ReceivedMeans
  <2>5. SubSeq(received, 1, k) = received
    BY <2>4, SubSeqFull
  <2>6. k <= Len(sent)
    BY <2>1
  <2>7. QED
    BY <2>4, <2>5, <2>6 DEF InOrder, IsPrefix
<1>2. QED
  BY <1>1, ConnectionKeeps, PTL

\* parse keeps no message back whose last byte arrived: what stays in the buffer
\* is the beginning of the next message and not all of it.
THEOREM EveryMessageIsPassedOn == Spec => []NothingHeldBack
<1>1. FramingInv => NothingHeldBack
  <2> SUFFICES ASSUME FramingInv PROVE NothingHeldBack
    OBVIOUS
  <2> DEFINE n == Len(sent)
             s == currentMsg
  <2>1. sent \in Seq(Messages) /\ n \in Nat /\ DOMAIN sent = 1 .. n
        /\ s \in Seq(Byte) /\ wire \in Seq(Byte)
    BY DEF FramingInv
  <2>2. PICK k \in 0 .. n : Holds(sent, k, received, s, wire) /\ NoMore(sent, k, s)
    BY DEF FramingInv
  <2>3. received = ReadUpTo(sent, k) /\ Flat(s \o wire, Rest(sent, k))
    BY <2>2 DEF Holds
  <2>4. \A i \in 1 .. n : FitsMessage(sent[i])
    BY <2>1, MessagesFit
  <2>5. CASE k = n
    <3>1. s = <<>>
      BY <2>1, <2>3, <2>4, <2>5, NothingLeft
    <3>2. Meanings = [i \in 1 .. n |-> Meaning(sent[i])]
      BY <2>1 DEF Meanings
    <3>3. received = Meanings
      BY <2>3, <2>5, <3>2 DEF ReadUpTo
    <3>4. QED
      BY <3>1, <3>3 DEF NothingHeldBack
  <2>6. CASE k < n
    <3> DEFINE T == ToBinary(sent[k + 1])
               t == Len(T)
               x == Len(s)
    <3>1. k + 1 \in 1 .. n
      BY <2>1, <2>6
    <3>2. FitsMessage(sent[k + 1])
      BY <2>4, <3>1
    <3>3. T \in Seq(Byte)
      BY <3>2, MessageBytes
    <3>4. x < t
      BY <2>2, <2>6 DEF NoMore
    <3>5. Written(s, 0, T)
      BY <2>1, <2>3, <2>4, <2>6, NextMessage
    <3>6. Len(received) = k
      <4>1. received \in Seq(Message) /\ DOMAIN received = 1 .. k
        BY <2>3 DEF FramingInv, ReadUpTo
      <4>2. QED
        BY <2>1, <4>1
    <3> HIDE DEF T
    <3>7. SubSeq(s, 1, x) = s
      BY <2>1, SubSeqFull
    <3>8. SubSeq(T, 1, x) = s
      <4>1. x \in Nat /\ t \in Nat
        BY <2>1, <3>3
      <4>2. \A j \in 1 .. t : 0 + j <= x => s[0 + j] = T[j]
        BY <3>5 DEF Written
      <4> HIDE DEF x, t
      <4>3. \A j \in 1 .. x : s[j] = T[j]
        <5> SUFFICES ASSUME NEW j \in 1 .. x PROVE s[j] = T[j]
          OBVIOUS
        <5>1. j \in 1 .. t /\ 0 + j <= x /\ 0 + j = j
          BY <3>4, <4>1
        <5>2. QED
          BY <4>2, <5>1
      <4>4. Written(T, 0, s)
        <5>1. \A j \in 1 .. x : 0 + j <= t => T[0 + j] = s[j]
          BY <4>3
        <5>2. QED
          BY <5>1 DEF Written, x, t
      <4>5. x = 0 + Len(s) /\ x <= Len(T)
        BY <3>4, <4>1 DEF x, t
      <4>6. SubSeq(T, 0 + 1, x) = s
        BY <2>1, <3>3, <4>1, <4>4, <4>5, Piece
      <4>7. QED
        BY <4>6
    <3>9. s # T
      <4>1. x \in Nat /\ t \in Nat
        BY <2>1, <3>3
      <4>2. x # t
        BY <3>4, <4>1
      <4>3. QED
        BY <4>2
    <3>10. IsStrictPrefix(s, T)
      <4>1. x \in Nat /\ t \in Nat
        BY <2>1, <3>3
      <4>2. x <= t
        BY <3>4, <4>1
      <4>3. QED
        BY <3>7, <3>8, <3>9, <4>2 DEF IsStrictPrefix, IsPrefix
    <3>11. Len(received) < Len(sent) /\ T = ToBinary(sent[Len(received) + 1])
      BY <2>6, <3>6 DEF T
    <3>12. IsStrictPrefix(s, ToBinary(sent[Len(received) + 1]))
      BY <3>10, <3>11, Zenon
    <3>13. QED
      BY <3>11, <3>12, Zenon DEF NothingHeldBack
  <2>7. k < n \/ k = n
    <3> HIDE DEF n
    <3>1. QED
      BY <2>1
  <2>8. QED
    BY <2>5, <2>6, <2>7
<1>2. QED
  BY <1>1, ConnectionKeeps, PTL

\* Every step of such a connection is one of the channel, or changes nothing of it.
LEMMA NextChannel ==
  ASSUME FramingInv, FramingInv', [Next]_vars
  PROVE  [Channel!Next]_(Channel!vars)
<1> DEFINE Sound(ms, got, w, all) ==
             /\ all \in Seq(Message) /\ Len(all) = Len(ms)
             /\ \A i \in 1 .. Len(ms) : all[i] = Meaning(ms[i])
             /\ got \in Seq(Message) /\ Len(got) \in 0 .. Len(ms)
             /\ SubSeq(all, 1, Len(got)) = got
             /\ w = <<>> => got = all
<1>1. Sound(sent, received, wire, Meanings)
  <2>1. /\ sent \in Seq(Messages) /\ wire \in Seq(Byte) /\ currentMsg \in Seq(Byte)
        /\ \E k \in 0 .. Len(sent) :
             Holds(sent, k, received, currentMsg, wire) /\ NoMore(sent, k, currentMsg)
    BY DEF FramingInv
  <2>2. Meanings = [i \in DOMAIN sent |-> Meaning(sent[i])]
    BY DEF Meanings
  <2>3. QED
    BY <2>1, <2>2, ReceivedMeans
<1>2. Sound(sent', received', wire', Meanings')
  <2>1. /\ sent' \in Seq(Messages) /\ wire' \in Seq(Byte) /\ currentMsg' \in Seq(Byte)
        /\ \E k \in 0 .. Len(sent') :
             Holds(sent', k, received', currentMsg', wire') /\ NoMore(sent', k, currentMsg')
    BY DEF FramingInv
  <2>2. Meanings' = [i \in DOMAIN sent' |-> Meaning(sent'[i])]
    BY DEF Meanings
  <2>3. QED
    BY <2>1, <2>2, ReceivedMeans
<1>3. /\ sent \in Seq(Messages) /\ sent' \in Seq(Messages) /\ Len(sent) \in Nat
      /\ wire \in Seq(Byte) /\ wire' \in Seq(Byte)
  BY DEF FramingInv
<1>4. ASSUME NEW m \in Messages, SendMessage(m) PROVE Channel!Next
  <2>1. /\ sent' = Append(sent, m) /\ wire' = wire \o ToBinary(m) /\ received' = received
    BY <1>4 DEF SendMessage
  <2>2. Meanings' = Append(Meanings, Meaning(m))
    <3> DEFINE n == Len(sent)
               u == Append(Meanings, Meaning(m))
    <3>1. /\ n \in Nat /\ Len(sent') = n + 1 /\ sent'[n + 1] = m
          /\ \A i \in 1 .. n : sent'[i] = sent[i]
      BY <1>3, <2>1, AppendProperties
    <3>2. Meaning(m) \in Message
      BY MessagesFit, MeaningType
    <3>3. /\ u \in Seq(Message) /\ Len(u) = n + 1 /\ u[n + 1] = Meaning(m)
          /\ \A i \in 1 .. n : u[i] = Meanings[i]
      BY <1>1, <3>2, AppendProperties
    <3>4. /\ Meanings' \in Seq(Message) /\ Len(Meanings') = Len(sent')
          /\ \A i \in 1 .. Len(sent') : Meanings'[i] = Meaning(sent'[i])
      BY <1>2
    <3>5. \A i \in 1 .. n : Meanings[i] = Meaning(sent[i])
      BY <1>1
    <3> HIDE DEF n, u
    <3>6. \A i \in 1 .. n + 1 : Meanings'[i] = u[i]
      <4> SUFFICES ASSUME NEW i \in 1 .. n + 1 PROVE Meanings'[i] = u[i]
        OBVIOUS
      <4>1. Meanings'[i] = Meaning(sent'[i])
        BY <3>1, <3>4
      <4>2. CASE i \in 1 .. n
        BY <3>1, <3>3, <3>5, <4>1, <4>2
      <4>3. CASE i = n + 1
        BY <3>1, <3>3, <4>1, <4>3
      <4>4. i \in 1 .. n \/ i = n + 1
        BY <3>1
      <4>5. QED
        BY <4>2, <4>3, <4>4
    <3>7. Meanings' = u
      BY <3>1, <3>3, <3>4, <3>6, SeqEqual
    <3>8. QED
      BY <3>7 DEF u
  <2>3. wire' # <<>>
    <3> DEFINE b == ToBinary(m)
               x == Len(m.header)
               y == Len(ChunksToBinary(m.chunks))
               z == Len(b)
               u == Len(wire)
               v == Len(wire')
    <3>1. b \in Seq(Byte) /\ x \in Nat /\ y \in Nat /\ z = 8 + x + y
      <4>1. FitsMessage(m)
        BY MessagesFit
      <4>2. /\ Len(m.header) \in Nat /\ ChunksToBinary(m.chunks) \in Seq(Byte)
            /\ ToBinary(m) \in Seq(Byte)
            /\ Len(ToBinary(m)) = 8 + Len(m.header) + Len(ChunksToBinary(m.chunks))
        BY <4>1, MessageBytes
      <4>3. Len(ChunksToBinary(m.chunks)) \in Nat
        BY <4>2
      <4>4. QED
        BY <4>2, <4>3
    <3> HIDE DEF b, x, y
    <3>2. v = u + z /\ u \in Nat
      <4>1. wire' = wire \o b
        BY <2>1 DEF b
      <4>2. Len(wire \o b) = Len(wire) + Len(b)
        BY <1>3, <3>1, Joined
      <4>3. Len(wire) \in Nat
        BY <1>3
      <4>4. QED
        BY <4>1, <4>2, <4>3
    <3> HIDE DEF z, u
    <3>3. v > 0
      BY <3>1, <3>2
    <3>4. QED
      BY <3>3
  <2>4. Meaning(m) \in {Meaning(message) : message \in Messages}
    OBVIOUS
  <2>5. (wire # <<>>)' = TRUE
    BY <2>3
  <2>6. Channel!Send(Meaning(m))
    BY <2>1, <2>2, <2>5 DEF Channel!Send
  <2>7. QED
    BY <2>4, <2>6 DEF Channel!Next
<1>5. ASSUME NEW n \in 1 .. Len(wire), OnRead(n) PROVE Channel!Next
  <2>1. sent' = sent /\ wire # <<>>
    BY <1>3, <1>5 DEF OnRead
  <2>2. PICK more \in Seq(Message) : received' = received \o more
    BY <1>5, ReadKeeps
  <2> DEFINE k == Len(received)
             l == Len(received')
  <2>3. k \in 0 .. Len(sent) /\ l \in 0 .. Len(sent)
    BY <1>1, <1>2, <2>1
  <2>4. k <= l
    <3>1. Len(received \o more) = Len(received) + Len(more) /\ Len(more) \in Nat
      BY <1>1, <2>2, ConcatProperties
    <3>2. QED
      BY <2>2, <2>3, <3>1
  <2>5. Meanings' = Meanings
    BY <2>1 DEF Meanings
  <2>6. SubSeq(Meanings, 1, l) = received' /\ Len(Meanings) = Len(sent)
    BY <1>1, <1>2, <2>5
  <2> HIDE DEF k, l
  <2>7. k + (l - k) = l /\ l - k \in 0 .. Len(sent) - k
    BY <1>3, <2>3, <2>4
  <2>8. ~(wire # <<>>)' => received' = Meanings'
    BY <1>2
  <2>9. (wire # <<>>)' \in BOOLEAN
    OBVIOUS
  <2>10. received' = SubSeq(Meanings, 1, Len(received) + (l - k))
    BY <2>6, <2>7 DEF k
  <2>11. Channel!Arrive(l - k)
    BY <2>1, <2>5, <2>8, <2>9, <2>10 DEF Channel!Arrive
  <2>12. l - k \in 0 .. Len(Meanings) - Len(received)
    BY <2>6, <2>7 DEF k
  <2>13. QED
    BY <2>11, <2>12 DEF Channel!Next
<1>6. CASE OnNewClient
  <2>1. sent' = <<>> /\ wire' = <<>> /\ received' = <<>>
    BY <1>6 DEF OnNewClient
  <2>2. Meanings' = <<>>
    BY <2>1 DEF Meanings
  <2>3. (wire # <<>>)' = FALSE
    BY <2>1
  <2>4. QED
    BY <2>1, <2>2, <2>3 DEF Channel!Next, Channel!Reconnect
<1>7. CASE UNCHANGED vars
  <2>1. sent' = sent /\ wire' = wire /\ received' = received
    BY <1>7 DEF vars
  <2>2. Meanings' = Meanings /\ (wire # <<>>)' = (wire # <<>>)
    BY <2>1 DEF Meanings
  <2>3. QED
    BY <2>1, <2>2 DEF Channel!vars
<1>8. QED
  BY <1>4, <1>5, <1>6, <1>7 DEF Next

\* Parsing the buffer makes a channel for messages of the stream
\* (GPGNetMessage::parse): a read takes nothing back and passes nothing on twice,
\* and what is left incomplete by one read is passed on by the read that brings its
\* end.
THEOREM BytesAreMessages == Spec => ImplementsChannel
<1>1. Init => Channel!Init
  <2> SUFFICES ASSUME Init PROVE Channel!Init
    OBVIOUS
  <2>1. sent = <<>> /\ wire = <<>> /\ received = <<>>
    BY DEF Init
  <2>2. Meanings = <<>> /\ (wire # <<>>) = FALSE
    BY <2>1 DEF Meanings
  <2>3. QED
    BY <2>1, <2>2 DEF Channel!Init
<1>2. FramingInv /\ FramingInv' /\ [Next]_vars => [Channel!Next]_(Channel!vars)
  BY NextChannel
<1>3. QED
  BY <1>1, <1>2, ConnectionKeeps, PTL DEF Spec, ImplementsChannel, Channel!Spec
=============================================================================
