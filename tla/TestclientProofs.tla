-------------------------- MODULE TestclientProofs --------------------------
(***************************************************************************)
(* Theorems about the lobby server of the test clients, for any number of  *)
(* clients, connections, players and troubles.                             *)
(***************************************************************************)
EXTENDS Testclient, SequenceTheorems, FiniteSetTheorems, WellFoundedInduction,
        TLAPS

-----------------------------------------------------------------------------
(* Numbers.                                                                *)

\* Of any numbers one is the least.
LEMMA LeastNumber ==
  ASSUME NEW T \in SUBSET Nat, T # {}
  PROVE  \E x \in T : \A y \in T : x <= y
<1> DEFINE R == {ss \in Nat \X Nat : ss[1] < ss[2]}
<1>1. IsWellFoundedOn(R, Nat)
  BY NatLessThanWellFounded DEF OpToRel
<1>2. PICK x \in T : \A y \in T : <<y, x>> \notin R
  <2> HIDE DEF R
  <2>1. QED
    BY <1>1, WFMin
<1>3. \A y \in T : x <= y
  <2> SUFFICES ASSUME NEW y \in T PROVE x <= y
    OBVIOUS
  <2>1. <<y, x>> \in Nat \X Nat /\ <<y, x>>[1] = y /\ <<y, x>>[2] = x
    OBVIOUS
  <2>2. ~(y < x)
    BY <1>2, <2>1
  <2>3. QED
    BY <2>2
<1>4. QED
  BY <1>3

\* Of finitely many numbers up to n one is the greatest.
LEMMA GreatestNumber ==
  ASSUME NEW n \in Nat, NEW T \in SUBSET (1 .. n), T # {}
  PROVE  \E x \in T : \A y \in T : y <= x
<1> DEFINE U == {n - y : y \in T}
<1>1. U \in SUBSET Nat /\ U # {}
  <2>1. \A y \in T : n - y \in Nat
    OBVIOUS
  <2>2. QED
    BY <2>1
<1>2. PICK u \in U : \A v \in U : u <= v
  <2> HIDE DEF U
  <2>1. QED
    BY <1>1, LeastNumber
<1>3. PICK x \in T : u = n - x
  OBVIOUS
<1>4. \A y \in T : n - x <= n - y
  BY <1>2, <1>3
<1>5. QED
  BY <1>4

\* Ascending lists finitely many numbers, each once and in ascending order.
Below(S, n) == {m \in S : m < n}

LEMMA AscendingLists ==
  ASSUME NEW S \in SUBSET Nat, IsFiniteSet(S)
  PROVE  /\ Ascending(S) \in Seq(S)
         /\ Len(Ascending(S)) = Cardinality(S)
         /\ \A n \in S : \E i \in DOMAIN Ascending(S) : Ascending(S)[i] = n
         /\ \A i, j \in DOMAIN Ascending(S) :
              i < j => Ascending(S)[i] < Ascending(S)[j]
<1> DEFINE N == Cardinality(S)
           T == 0 .. N - 1
           rank == [n \in S |-> Cardinality(Below(S, n))]
<1>1. N \in Nat
  BY FS_CardinalityType
<1>2. \A n \in S : IsFiniteSet(Below(S, n)) /\ rank[n] \in Nat
  <2> SUFFICES ASSUME NEW n \in S
               PROVE IsFiniteSet(Below(S, n)) /\ rank[n] \in Nat
    OBVIOUS
  <2>1. Below(S, n) \in SUBSET S
    BY DEF Below
  <2>2. IsFiniteSet(Below(S, n))
    BY <2>1, FS_Subset
  <2>3. QED
    BY <2>2, FS_CardinalityType
<1>3. \A n \in S : IsFiniteSet(Below(S, n) \cup {n}) /\
                   Cardinality(Below(S, n) \cup {n}) = rank[n] + 1
  <2> SUFFICES ASSUME NEW n \in S
               PROVE  IsFiniteSet(Below(S, n) \cup {n}) /\
                      Cardinality(Below(S, n) \cup {n}) = rank[n] + 1
    OBVIOUS
  <2>1. n \notin Below(S, n)
    BY DEF Below
  <2>2. QED
    BY <1>2, <2>1, FS_AddElement
<1>4. \A n, m \in S : m < n => rank[m] < rank[n]
  <2> SUFFICES ASSUME NEW n \in S, NEW m \in S, m < n PROVE rank[m] < rank[n]
    OBVIOUS
  <2>1. Below(S, m) \cup {m} \in SUBSET Below(S, n)
    <3>1. \A x \in Below(S, m) \cup {m} : x \in S /\ (x < m \/ x = m)
      BY DEF Below
    <3>2. \A x \in S : x < m \/ x = m => x < n
      OBVIOUS
    <3>3. \A x \in Below(S, m) \cup {m} : x \in Below(S, n)
      BY <3>1, <3>2 DEF Below
    <3>4. QED
      BY <3>3
  <2>2. Cardinality(Below(S, m) \cup {m}) <= Cardinality(Below(S, n))
    BY <1>2, <2>1, FS_Subset
  <2>3. Cardinality(Below(S, m) \cup {m}) = rank[m] + 1
    BY <1>3
  <2>4. rank[n] = Cardinality(Below(S, n)) /\ rank[n] \in Nat /\ rank[m] \in Nat
    BY <1>2
  <2>5. QED
    BY <2>2, <2>3, <2>4
<1>5. \A n \in S : rank[n] \in T
  <2> SUFFICES ASSUME NEW n \in S PROVE rank[n] \in T
    OBVIOUS
  <2>1. Below(S, n) \cup {n} \in SUBSET S
    BY DEF Below
  <2>2. Cardinality(Below(S, n) \cup {n}) <= N
    BY <2>1, FS_Subset
  <2>3. rank[n] + 1 <= N
    BY <1>3, <2>2
  <2>4. QED
    BY <1>1, <1>2, <2>3
<1>6. \A n, m \in S : rank[n] = rank[m] => n = m
  <2> SUFFICES ASSUME NEW n \in S, NEW m \in S, rank[n] = rank[m] PROVE n = m
    OBVIOUS
  <2>1. n < m \/ m < n \/ n = m
    OBVIOUS
  <2>2. rank[n] \in Nat /\ rank[m] \in Nat
    BY <1>2
  <2>3. QED
    BY <1>4, <2>1, <2>2
<1> HIDE DEF rank
<1>7. rank \in [S -> T]
  BY <1>5 DEF rank
<1>8. rank \in Injection(S, T)
  BY <1>6, <1>7 DEF Injection, IsInjective
<1>9. IsFiniteSet(T) /\ Cardinality(T) = N
  <2>1. IsFiniteSet(0 .. N - 1) /\
        Cardinality(0 .. N - 1) = IF 0 > N - 1 THEN 0 ELSE N - 1 - 0 + 1
    BY <1>1, FS_Interval, SMTT(60)
  <2>2. QED
    BY <1>1, <2>1
<1>10. rank \in Surjection(S, T)
  <2> HIDE DEF T
  <2>1. QED
    BY <1>8, <1>9, FS_Injection
<1>11. \A i \in T : \E n \in S : rank[n] = i
  BY <1>10 DEF Surjection
<1> DEFINE A == Ascending(S)
<1>12. A = [i \in 1 .. N |-> CHOOSE n \in S : Cardinality(Below(S, n)) = i - 1]
  BY DEF Ascending, Below
<1> HIDE DEF A
<1>13. \A i \in 1 .. N : A[i] \in S /\ rank[A[i]] = i - 1
  <2> SUFFICES ASSUME NEW i \in 1 .. N PROVE A[i] \in S /\ rank[A[i]] = i - 1
    OBVIOUS
  <2>1. i - 1 \in T
    BY <1>1
  <2>2. \E n \in S : Cardinality(Below(S, n)) = i - 1
    BY <1>11, <2>1 DEF rank
  <2>3. A[i] = CHOOSE n \in S : Cardinality(Below(S, n)) = i - 1
    BY <1>12
  <2>4. A[i] \in S /\ Cardinality(Below(S, A[i])) = i - 1
    BY <2>2, <2>3
  <2>5. QED
    BY <2>4 DEF rank
<1>14. A \in Seq(S) /\ Len(A) = N /\ DOMAIN A = 1 .. N
  <2>1. A \in [1 .. N -> S]
    BY <1>12, <1>13
  <2>2. QED
    BY <1>1, <2>1
<1>15. \A n \in S : \E i \in DOMAIN A : A[i] = n
  <2> SUFFICES ASSUME NEW n \in S PROVE \E i \in DOMAIN A : A[i] = n
    OBVIOUS
  <2>1. rank[n] + 1 \in 1 .. N /\ (rank[n] + 1) - 1 = rank[n]
    BY <1>1, <1>5
  <2>2. A[rank[n] + 1] \in S /\ rank[A[rank[n] + 1]] = rank[n]
    BY <1>13, <2>1
  <2>3. A[rank[n] + 1] = n
    BY <1>6, <2>2
  <2>4. QED
    BY <1>14, <2>1, <2>3
<1>16. \A i, j \in DOMAIN A : i < j => A[i] < A[j]
  <2> SUFFICES ASSUME NEW i \in 1 .. N, NEW j \in 1 .. N, i < j PROVE A[i] < A[j]
    BY <1>14
  <2>1. /\ A[i] \in S /\ rank[A[i]] = i - 1
        /\ A[j] \in S /\ rank[A[j]] = j - 1
    BY <1>13
  <2>2. ~(A[j] < A[i]) /\ A[j] # A[i]
    <3>1. A[j] < A[i] => rank[A[j]] < rank[A[i]]
      BY <1>4, <2>1
    <3>2. QED
      BY <1>1, <2>1, <3>1
  <2>3. A[i] \in Nat /\ A[j] \in Nat
    BY <2>1
  <2>4. QED
    BY <2>2, <2>3
<1>17. QED
  BY <1>14, <1>15, <1>16 DEF A

-----------------------------------------------------------------------------
(* Queues.                                                                 *)

\* One of A is in the queue.
Occurs(q, A) == \E i \in DOMAIN q : q[i] \in A

\* One of A is in the queue and none of B behind it, or none of B before it.
Ends(q, A, B) ==
  \E i \in DOMAIN q : q[i] \in A /\ \A j \in DOMAIN q : i < j => q[j] \notin B
Starts(q, A, B) ==
  \E i \in DOMAIN q : q[i] \in A /\ \A j \in DOMAIN q : j < i => q[j] \notin B

LEMMA EmptyQueue ==
  ASSUME NEW A, NEW B
  PROVE  ~Occurs(<<>>, A) /\ ~Ends(<<>>, A, B) /\ ~Starts(<<>>, A, B)
<1>1. DOMAIN <<>> = {}
  OBVIOUS
<1>2. QED
  BY <1>1, Zenon DEF Occurs, Ends, Starts

LEMMA ConcatIndices ==
  ASSUME NEW S, NEW q \in Seq(S), NEW r \in Seq(S)
  PROVE  /\ DOMAIN q = 1 .. Len(q) /\ DOMAIN r = 1 .. Len(r)
         /\ DOMAIN (q \o r) = 1 .. Len(q) + Len(r)
         /\ Len(q) \in Nat /\ Len(r) \in Nat
         /\ \A i \in DOMAIN q : i \in DOMAIN (q \o r) /\ (q \o r)[i] = q[i]
         /\ \A i \in DOMAIN r : /\ Len(q) + i \in DOMAIN (q \o r)
                                /\ (q \o r)[Len(q) + i] = r[i]
         /\ \A i \in DOMAIN (q \o r) :
              i \in DOMAIN q \/ \E j \in DOMAIN r : i = Len(q) + j
<1>1. /\ q \o r \in Seq(S)
      /\ Len(q \o r) = Len(q) + Len(r)
      /\ \A i \in 1 .. Len(q) + Len(r) :
           (q \o r)[i] = IF i <= Len(q) THEN q[i] ELSE r[i - Len(q)]
  BY ConcatProperties
<1>2. Len(q) \in Nat /\ Len(r) \in Nat
  BY LenProperties
<1>3. DOMAIN q = 1 .. Len(q) /\ DOMAIN r = 1 .. Len(r)
  BY LenProperties
<1>4. DOMAIN (q \o r) = 1 .. Len(q) + Len(r)
  BY <1>1, LenProperties
<1>5. \A i \in DOMAIN q : i \in DOMAIN (q \o r) /\ (q \o r)[i] = q[i]
  BY <1>1, <1>2, <1>3, <1>4
<1>6. \A i \in DOMAIN r : /\ Len(q) + i \in DOMAIN (q \o r)
                          /\ (q \o r)[Len(q) + i] = r[i]
  <2> SUFFICES ASSUME NEW i \in 1 .. Len(r)
               PROVE  /\ Len(q) + i \in 1 .. Len(q) + Len(r)
                      /\ (q \o r)[Len(q) + i] = r[i]
    BY <1>3, <1>4
  <2>1. /\ Len(q) + i \in 1 .. Len(q) + Len(r)
        /\ ~(Len(q) + i <= Len(q))
        /\ Len(q) + i - Len(q) = i
    BY <1>2
  <2>2. QED
    BY <1>1, <2>1
<1>7. \A i \in DOMAIN (q \o r) :
        i \in DOMAIN q \/ \E j \in DOMAIN r : i = Len(q) + j
  <2> SUFFICES ASSUME NEW i \in 1 .. Len(q) + Len(r), i \notin 1 .. Len(q)
               PROVE  \E j \in 1 .. Len(r) : i = Len(q) + j
    BY <1>3, <1>4
  <2>1. i - Len(q) \in 1 .. Len(r) /\ i = Len(q) + (i - Len(q))
    BY <1>2
  <2>2. QED
    BY <2>1
<1>8. QED
  BY <1>2, <1>3, <1>4, <1>5, <1>6, <1>7

\* What is written to a queue comes behind what is in it.
LEMMA ConcatQueue ==
  ASSUME NEW S, NEW q \in Seq(S), NEW r \in Seq(S), NEW A, NEW B
  PROVE  /\ Occurs(q \o r, A) <=> Occurs(q, A) \/ Occurs(r, A)
         /\ Ends(q \o r, A, B) <=>
              Ends(r, A, B) \/ (Ends(q, A, B) /\ ~Occurs(r, B))
         /\ Starts(q \o r, A, B) <=>
              Starts(q, A, B) \/ (Starts(r, A, B) /\ ~Occurs(q, B))
<1> DEFINE s == q \o r
           n == Len(q)
<1>1. /\ \A i \in DOMAIN q : i \in DOMAIN s /\ s[i] = q[i] /\ i \in Nat /\ i <= n
      /\ \A i \in DOMAIN r : n + i \in DOMAIN s /\ s[n + i] = r[i] /\ i \in Nat /\ i > 0
      /\ \A i \in DOMAIN s : i \in DOMAIN q \/ \E j \in DOMAIN r : i = n + j
      /\ n \in Nat
  BY ConcatIndices
<1> HIDE DEF s, n
<1>2. Occurs(s, A) <=> Occurs(q, A) \/ Occurs(r, A)
  BY <1>1 DEF Occurs
<1>3. \A i, j \in DOMAIN r : n + i < n + j <=> i < j
  BY <1>1
<1>4. \A i \in DOMAIN q : \A j \in DOMAIN r : i < n + j /\ ~(n + j < i)
  BY <1>1
<1>5. Ends(r, A, B) => Ends(s, A, B)
  <2> SUFFICES ASSUME NEW i \in DOMAIN r, r[i] \in A,
                      \A j \in DOMAIN r : i < j => r[j] \notin B
               PROVE  Ends(s, A, B)
    BY DEF Ends
  <2>1. n + i \in DOMAIN s /\ s[n + i] \in A
    BY <1>1
  <2>2. \A j \in DOMAIN s : n + i < j => s[j] \notin B
    <3> SUFFICES ASSUME NEW j \in DOMAIN s, n + i < j PROVE s[j] \notin B
      OBVIOUS
    <3>1. j \notin DOMAIN q
      BY <1>4
    <3>2. PICK h \in DOMAIN r : j = n + h
      BY <1>1, <3>1
    <3>3. QED
      BY <1>1, <1>3, <3>2
  <2>3. QED
    BY <2>1, <2>2 DEF Ends
<1>6. Ends(q, A, B) /\ ~Occurs(r, B) => Ends(s, A, B)
  <2> SUFFICES ASSUME NEW i \in DOMAIN q, q[i] \in A,
                      \A j \in DOMAIN q : i < j => q[j] \notin B,
                      ~Occurs(r, B)
               PROVE  Ends(s, A, B)
    BY DEF Ends
  <2>1. \A j \in DOMAIN s : i < j => s[j] \notin B
    BY <1>1 DEF Occurs
  <2>2. QED
    BY <1>1, <2>1 DEF Ends
<1>7. Ends(s, A, B) => Ends(r, A, B) \/ (Ends(q, A, B) /\ ~Occurs(r, B))
  <2> SUFFICES ASSUME NEW i \in DOMAIN s, s[i] \in A,
                      \A j \in DOMAIN s : i < j => s[j] \notin B
               PROVE  Ends(r, A, B) \/ (Ends(q, A, B) /\ ~Occurs(r, B))
    BY DEF Ends
  <2>1. CASE i \in DOMAIN q
    <3>1. \A j \in DOMAIN r : r[j] \notin B
      BY <1>1, <1>4, <2>1
    <3>2. \A j \in DOMAIN q : i < j => q[j] \notin B
      BY <1>1
    <3>3. QED
      BY <1>1, <2>1, <3>1, <3>2 DEF Ends, Occurs
  <2>2. ASSUME NEW h \in DOMAIN r, i = n + h PROVE Ends(r, A, B)
    <3>1. \A j \in DOMAIN r : h < j => r[j] \notin B
      BY <1>1, <1>3, <2>2
    <3>2. QED
      BY <1>1, <2>2, <3>1 DEF Ends
  <2>3. QED
    BY <1>1, <2>1, <2>2
<1>8. Starts(q, A, B) => Starts(s, A, B)
  <2> SUFFICES ASSUME NEW i \in DOMAIN q, q[i] \in A,
                      \A j \in DOMAIN q : j < i => q[j] \notin B
               PROVE  Starts(s, A, B)
    BY DEF Starts
  <2>1. \A j \in DOMAIN s : j < i => s[j] \notin B
    BY <1>1, <1>4
  <2>2. QED
    BY <1>1, <2>1 DEF Starts
<1>9. Starts(r, A, B) /\ ~Occurs(q, B) => Starts(s, A, B)
  <2> SUFFICES ASSUME NEW i \in DOMAIN r, r[i] \in A,
                      \A j \in DOMAIN r : j < i => r[j] \notin B,
                      ~Occurs(q, B)
               PROVE  Starts(s, A, B)
    BY DEF Starts
  <2>1. \A j \in DOMAIN s : j < n + i => s[j] \notin B
    BY <1>1, <1>3 DEF Occurs
  <2>2. QED
    BY <1>1, <2>1 DEF Starts
<1>10. Starts(s, A, B) => Starts(q, A, B) \/ (Starts(r, A, B) /\ ~Occurs(q, B))
  <2> SUFFICES ASSUME NEW i \in DOMAIN s, s[i] \in A,
                      \A j \in DOMAIN s : j < i => s[j] \notin B
               PROVE  Starts(q, A, B) \/ (Starts(r, A, B) /\ ~Occurs(q, B))
    BY DEF Starts
  <2>1. CASE i \in DOMAIN q
    BY <1>1, <2>1 DEF Starts
  <2>2. ASSUME NEW h \in DOMAIN r, i = n + h
        PROVE  Starts(r, A, B) /\ ~Occurs(q, B)
    <3>1. \A j \in DOMAIN r : j < h => r[j] \notin B
      BY <1>1, <1>3, <2>2
    <3>2. \A j \in DOMAIN q : q[j] \notin B
      BY <1>1, <1>4, <2>2
    <3>3. QED
      BY <1>1, <2>2, <3>1, <3>2 DEF Starts, Occurs
  <2>3. QED
    BY <1>1, <2>1, <2>2
<1>11. QED
  BY <1>2, <1>5, <1>6, <1>7, <1>8, <1>9, <1>10 DEF s

\* A queue of one message.
LEMMA OneInQueue ==
  ASSUME NEW e, NEW A, NEW B
  PROVE  /\ <<e>> \in Seq({e})
         /\ Occurs(<<e>>, A) <=> e \in A
         /\ Ends(<<e>>, A, B) <=> e \in A
         /\ Starts(<<e>>, A, B) <=> e \in A
<1>1. \A i \in DOMAIN <<e>> : i = 1 /\ <<e>>[i] = e
  OBVIOUS
<1>2. 1 \in DOMAIN <<e>> /\ <<e>>[1] = e
  OBVIOUS
<1>3. <<e>> \in Seq({e})
  OBVIOUS
<1>4. \A i, j \in DOMAIN <<e>> : ~(i < j)
  BY <1>1
<1>5. QED
  BY <1>1, <1>2, <1>3, <1>4 DEF Occurs, Ends, Starts

\* Two messages are one and another.
LEMMA TwoInQueue ==
  ASSUME NEW a, NEW b PROVE <<a>> \o <<b>> = <<a, b>>
<1> DEFINE q == <<a>>
           r == <<b>>
           t == <<a, b>>
<1>1. q \in Seq({a, b}) /\ r \in Seq({a, b}) /\ t \in Seq({a, b})
  OBVIOUS
<1>2. Len(q) = 1 /\ Len(r) = 1 /\ q[1] = a /\ r[1] = b /\ Len(t) = 2 /\ t[1] = a /\ t[2] = b
  OBVIOUS
<1> HIDE DEF q, r, t
<1>3. q \o r \in Seq({a, b}) /\ Len(q \o r) = 2 /\ (q \o r)[1] = a /\ (q \o r)[2] = b
  BY <1>1, <1>2, ConcatProperties, SMTT(60)
<1>4. \A i \in 1 .. 2 : (q \o r)[i] = t[i]
  BY <1>2, <1>3
<1>5. q \o r = t
  BY <1>1, <1>2, <1>3, <1>4, SeqEqual
<1>6. QED
  BY <1>5 DEF q, r, t

LEMMA AppendQueue ==
  ASSUME NEW S, NEW q \in Seq(S), NEW e \in S, NEW A, NEW B
  PROVE  /\ Append(q, e) \in Seq(S)
         /\ Occurs(Append(q, e), A) <=> Occurs(q, A) \/ e \in A
         /\ Ends(Append(q, e), A, B) <=>
              e \in A \/ (Ends(q, A, B) /\ e \notin B)
<1>1. Append(q, e) = q \o <<e>> /\ Append(q, e) \in Seq(S)
  BY AppendIsConcat, AppendProperties
<1> DEFINE r == <<e>>
<1>2. r \in Seq(S)
  OBVIOUS
<1>3. /\ Occurs(r, A) <=> e \in A
      /\ Occurs(r, B) <=> e \in B
      /\ Ends(r, A, B) <=> e \in A
  BY OneInQueue
<1> HIDE DEF r
<1>4. /\ Occurs(q \o r, A) <=> Occurs(q, A) \/ Occurs(r, A)
      /\ Ends(q \o r, A, B) <=>
           Ends(r, A, B) \/ (Ends(q, A, B) /\ ~Occurs(r, B))
  BY <1>2, ConcatQueue
<1>5. QED
  BY <1>1, <1>3, <1>4 DEF r

\* The head is read first.
LEMMA HeadQueue ==
  ASSUME NEW S, NEW q \in Seq(S), q # <<>>, NEW A, NEW B
  PROVE  /\ Head(q) \in S /\ Tail(q) \in Seq(S)
         /\ Occurs(q, A) <=> Head(q) \in A \/ Occurs(Tail(q), A)
         /\ Ends(q, A, B) <=>
              Ends(Tail(q), A, B) \/ (Head(q) \in A /\ ~Occurs(Tail(q), B))
         /\ Starts(q, A, B) <=>
              Head(q) \in A \/ (Starts(Tail(q), A, B) /\ Head(q) \notin B)
<1>1. /\ Head(q) \in S /\ Tail(q) \in Seq(S)
      /\ Len(Tail(q)) = Len(q) - 1
      /\ \A i \in 1 .. Len(Tail(q)) : Tail(q)[i] = q[i + 1]
  BY HeadTailProperties
<1>2. <<Head(q)>> \in Seq(S)
  BY <1>1
<1>3. q = <<Head(q)>> \o Tail(q)
  <2>1. /\ <<Head(q)>> \o Tail(q) \in Seq(S)
        /\ Len(<<Head(q)>> \o Tail(q)) = Len(<<Head(q)>>) + Len(Tail(q))
        /\ \A i \in 1 .. Len(<<Head(q)>>) + Len(Tail(q)) :
             (<<Head(q)>> \o Tail(q))[i] =
                IF i <= Len(<<Head(q)>>) THEN <<Head(q)>>[i]
                                         ELSE Tail(q)[i - Len(<<Head(q)>>)]
    BY <1>1, <1>2, ConcatProperties
  <2>2. Len(<<Head(q)>>) = 1 /\ <<Head(q)>>[1] = Head(q) /\ Head(q) = q[1]
    OBVIOUS
  <2>3. Len(q) \in Nat \ {0}
    BY EmptySeq
  <2>4. Len(<<Head(q)>> \o Tail(q)) = Len(q)
    BY <1>1, <2>1, <2>2, <2>3
  <2>5. \A i \in 1 .. Len(q) : q[i] = (<<Head(q)>> \o Tail(q))[i]
    <3> SUFFICES ASSUME NEW i \in 1 .. Len(q)
                 PROVE  q[i] = (<<Head(q)>> \o Tail(q))[i]
      OBVIOUS
    <3>1. CASE i = 1
      BY <1>1, <2>1, <2>2, <2>3, <3>1
    <3>2. CASE i # 1
      <4>1. i - 1 \in 1 .. Len(Tail(q)) /\ (i - 1) + 1 = i
        BY <1>1, <2>3, <3>2
      <4>2. ~(i <= 1) /\ i \in 1 .. 1 + Len(Tail(q))
        BY <1>1, <2>3, <3>2
      <4>3. QED
        BY <1>1, <2>1, <2>2, <4>1, <4>2
    <3>3. QED
      BY <3>1, <3>2
  <2>6. QED
    BY <2>1, <2>4, <2>5, SeqEqual
<1>4. /\ Occurs(<<Head(q)>>, A) <=> Head(q) \in A
      /\ Occurs(<<Head(q)>>, B) <=> Head(q) \in B
      /\ Ends(<<Head(q)>>, A, B) <=> Head(q) \in A
      /\ Starts(<<Head(q)>>, A, B) <=> Head(q) \in A
  BY OneInQueue
<1>5. /\ Occurs(q, A) <=> Occurs(<<Head(q)>>, A) \/ Occurs(Tail(q), A)
      /\ Ends(q, A, B) <=>
           \/ Ends(Tail(q), A, B)
           \/ Ends(<<Head(q)>>, A, B) /\ ~Occurs(Tail(q), B)
      /\ Starts(q, A, B) <=>
           \/ Starts(<<Head(q)>>, A, B)
           \/ Starts(Tail(q), A, B) /\ ~Occurs(<<Head(q)>>, B)
  <2> DEFINE h == <<Head(q)>>
             t == Tail(q)
  <2>1. h \in Seq(S) /\ t \in Seq(S) /\ q = h \o t
    BY <1>1, <1>2, <1>3
  <2> HIDE DEF h, t
  <2>2. /\ Occurs(h \o t, A) <=> Occurs(h, A) \/ Occurs(t, A)
        /\ Ends(h \o t, A, B) <=>
              Ends(t, A, B) \/ (Ends(h, A, B) /\ ~Occurs(t, B))
        /\ Starts(h \o t, A, B) <=>
              Starts(h, A, B) \/ (Starts(t, A, B) /\ ~Occurs(h, B))
    BY <2>1, ConcatQueue
  <2>3. QED
    BY <2>1, <2>2 DEF h, t
<1>6. QED
  BY <1>1, <1>4, <1>5

\* If one of A is in the queue, it has a last one and a first one.
LEMMA OccursEnds ==
  ASSUME NEW S, NEW q \in Seq(S), NEW A, Occurs(q, A)
  PROVE  Ends(q, A, A) /\ Starts(q, A, A)
<1> DEFINE T == {i \in 1 .. Len(q) : q[i] \in A}
<1>1. Len(q) \in Nat /\ DOMAIN q = 1 .. Len(q)
  BY LenProperties
<1>2. T \in SUBSET (1 .. Len(q)) /\ T \in SUBSET Nat /\ T # {}
  BY <1>1 DEF Occurs
<1>3. PICK x \in T : \A y \in T : y <= x
  <2> HIDE DEF T
  <2>1. QED
    BY <1>1, <1>2, GreatestNumber
<1>4. PICK z \in T : \A y \in T : z <= y
  <2> HIDE DEF T
  <2>1. QED
    BY <1>1, <1>2, LeastNumber
<1>5. \A j \in DOMAIN q : x < j => q[j] \notin A
  <2> SUFFICES ASSUME NEW j \in 1 .. Len(q), x < j, q[j] \in A PROVE FALSE
    BY <1>1
  <2>1. j <= x
    BY <1>3
  <2>2. QED
    BY <2>1
<1>6. \A j \in DOMAIN q : j < z => q[j] \notin A
  <2> SUFFICES ASSUME NEW j \in 1 .. Len(q), j < z, q[j] \in A PROVE FALSE
    BY <1>1
  <2>1. z <= j
    BY <1>4
  <2>2. QED
    BY <2>1
<1>7. QED
  BY <1>1, <1>5, <1>6 DEF Ends, Starts

LEMMA SubsetQueue ==
  ASSUME NEW q, NEW A, NEW B, NEW C, NEW D, A \subseteq B, D \subseteq C
  PROVE  /\ Occurs(q, A) => Occurs(q, B)
         /\ Ends(q, A, C) => Ends(q, B, D) /\ Occurs(q, B)
         /\ Starts(q, A, C) => Starts(q, B, D) /\ Occurs(q, B)
  BY DEF Occurs, Ends, Starts

-----------------------------------------------------------------------------
(* What is sent.                                                           *)

LEMMA PlayersFinite ==
  ASSUME NEW S \in SUBSET Player PROVE S \in SUBSET Nat /\ IsFiniteSet(S)
<1>1. Player \in SUBSET Nat
  BY TestserverAssumption DEF Player
<1>2. IsFiniteSet(Player)
  <2>1. 0 \in Int /\ MaxPlayers - 1 \in Int
    BY TestserverAssumption
  <2>2. QED
    BY <2>1, FS_Interval DEF Player
<1>3. QED
  BY <1>1, <1>2, FS_Subset

\* A loop over players sends the commands of each, and no others.
LEMMA ToEachSends ==
  ASSUME NEW T, NEW w \in {1, 2}, NEW commands,
         DOMAIN commands \in SUBSET Player,
         \A f \in DOMAIN commands : \A m \in 1 .. w : commands[f][m] \in T,
         NEW A
  PROVE  /\ ToEach(w, commands) \in Seq(T)
         /\ Occurs(ToEach(w, commands), A) <=>
              \E f \in DOMAIN commands : \E m \in 1 .. w : commands[f][m] \in A
<1> DEFINE D == DOMAIN commands
           a == Ascending(D)
           N == Len(a)
           s == ToEach(w, commands)
<1>1. /\ a \in Seq(D)
      /\ \A f \in D : \E i \in DOMAIN a : a[i] = f
  BY PlayersFinite, AscendingLists
<1> HIDE DEF D, a
<1>2. N \in Nat /\ DOMAIN a = 1 .. N /\ \A i \in 1 .. N : a[i] \in D
  BY <1>1, LenProperties, ElementOfSeq
<1>3. s = [i \in 1 .. w * N |->
             commands[a[1 + ((i - 1) \div w)]][1 + ((i - 1) % w)]]
  BY DEF ToEach, a, D
<1> HIDE DEF s, N
<1>4. \A i \in 1 .. w * N : 1 + ((i - 1) \div w) \in 1 .. N /\ 1 + ((i - 1) % w) \in 1 .. w
  <2>1. CASE w = 1
    BY <1>2, <2>1
  <2>2. CASE w = 2
    BY <1>2, <2>2
  <2>3. QED
    BY <2>1, <2>2
<1>5. \A i \in 1 .. w * N : s[i] \in T
  BY <1>2, <1>3, <1>4 DEF D
<1>6. w * N \in Nat
  BY <1>2
<1>7. s \in Seq(T) /\ DOMAIN s = 1 .. w * N
  <2>1. s \in [1 .. w * N -> T]
    BY <1>3, <1>5
  <2>2. QED
    BY <1>6, <2>1
<1>8. ASSUME Occurs(s, A)
      PROVE  \E f \in D : \E m \in 1 .. w : commands[f][m] \in A
  <2>1. PICK i \in 1 .. w * N : s[i] \in A
    BY <1>7, <1>8 DEF Occurs
  <2>2. s[i] = commands[a[1 + ((i - 1) \div w)]][1 + ((i - 1) % w)]
    BY <1>3
  <2>3. 1 + ((i - 1) \div w) \in 1 .. N /\ 1 + ((i - 1) % w) \in 1 .. w
    BY <1>4
  <2>4. QED
    BY <1>2, <2>1, <2>2, <2>3
<1>9. ASSUME NEW f \in D, NEW m \in 1 .. w, commands[f][m] \in A
      PROVE  Occurs(s, A)
  <2>1. PICK h \in 1 .. N : a[h] = f
    BY <1>1, <1>2
  <2> DEFINE i == w * (h - 1) + m
  <2>2. i \in 1 .. w * N /\ 1 + ((i - 1) \div w) = h /\ 1 + ((i - 1) % w) = m
    <3>1. CASE w = 1
      <4>1. m = 1
        BY <3>1
      <4>2. QED
        BY <1>2, <3>1, <4>1
    <3>2. CASE w = 2
      <4>1. m = 1 \/ m = 2
        BY <3>2
      <4>2. QED
        BY <1>2, <3>2, <4>1
    <3>3. QED
      BY <3>1, <3>2
  <2> HIDE DEF i
  <2>3. s[i] = commands[f][m]
    BY <1>3, <2>1, <2>2
  <2>4. QED
    BY <1>7, <1>9, <2>2, <2>3 DEF Occurs
<1>10. QED
  BY <1>7, <1>8, <1>9 DEF s, D

\* The commands that reach a connection.
Address == Connection \cup {All}
Reaches(k, to) == to = k \/ (to \notin sockets /\ k \in sockets)
Reaching(k, A) == {x \in [to : Address, msg : A] : Reaches(k, x.to)}

LEMMA SentToQueue ==
  ASSUME NEW M, NEW commands \in Seq([to : Address, msg : M]), NEW k,
         NEW A \in SUBSET M, NEW B \in SUBSET M
  PROVE  /\ SentTo(k, commands) \in Seq(M)
         /\ Occurs(SentTo(k, commands), A) <=> Occurs(commands, Reaching(k, A))
         /\ Ends(SentTo(k, commands), A, B) <=>
              Ends(commands, Reaching(k, A), Reaching(k, B))
         /\ Starts(SentTo(k, commands), A, B) <=>
              Starts(commands, Reaching(k, A), Reaching(k, B))
<1> DEFINE D == Mine(k, commands)
           a == Ascending(D)
           s == SentTo(k, commands)
<1>1. Len(commands) \in Nat /\ DOMAIN commands = 1 .. Len(commands)
  BY LenProperties
<1>2. \A i \in DOMAIN commands :
        commands[i] \in [to : Address, msg : M]
  BY <1>1, ElementOfSeq
<1>3. D \in SUBSET (1 .. Len(commands))
  BY <1>1 DEF Mine
<1>4. D \in SUBSET Nat /\ IsFiniteSet(D)
  <2>1. IsFiniteSet(1 .. Len(commands))
    BY <1>1, FS_Interval
  <2>2. IsFiniteSet(D)
    <3> HIDE DEF D
    <3>1. QED
      BY <1>3, <2>1, FS_Subset
  <2>3. QED
    BY <1>3, <2>2
<1>5. /\ a \in Seq(D)
      /\ \A n \in D : \E i \in DOMAIN a : a[i] = n
      /\ \A i, j \in DOMAIN a : i < j => a[i] < a[j]
  <2> HIDE DEF D
  <2>1. QED
    BY <1>4, AscendingLists
<1>6. s = [i \in DOMAIN a |-> commands[a[i]].msg]
  BY DEF SentTo
<1>7. \A X \in SUBSET M : \A i \in DOMAIN commands :
        commands[i] \in Reaching(k, X) <=> i \in D /\ commands[i].msg \in X
  BY <1>2 DEF Reaching, Reaches, Mine
<1> HIDE DEF D, a, s
<1>8. Len(a) \in Nat /\ DOMAIN a = 1 .. Len(a) /\ \A i \in DOMAIN a : a[i] \in D
  BY <1>5, LenProperties, ElementOfSeq
<1>9. /\ DOMAIN s = DOMAIN a
      /\ \A i \in DOMAIN a : /\ a[i] \in DOMAIN commands
                             /\ s[i] = commands[a[i]].msg
                             /\ s[i] \in M
                             /\ \A X \in SUBSET M :
                                  commands[a[i]] \in Reaching(k, X) <=> s[i] \in X
  BY <1>1, <1>2, <1>3, <1>6, <1>7, <1>8
<1>10. s \in Seq(M)
  <2>1. s \in [1 .. Len(a) -> M]
    BY <1>6, <1>8, <1>9
  <2>2. QED
    BY <1>8, <2>1
<1>11. \A X \in SUBSET M : \A n \in DOMAIN commands :
         commands[n] \in Reaching(k, X) =>
           \E i \in DOMAIN a : a[i] = n /\ s[i] \in X
  BY <1>5, <1>7, <1>9
<1>12. \A i, j \in DOMAIN a : a[i] < a[j] <=> i < j
  <2> SUFFICES ASSUME NEW i \in DOMAIN a, NEW j \in DOMAIN a, a[i] < a[j], ~(i < j)
               PROVE  FALSE
    BY <1>5
  <2>1. j < i \/ i = j
    BY <1>8
  <2>2. a[i] \in Nat /\ a[j] \in Nat
    BY <1>4, <1>8
  <2>3. QED
    BY <1>5, <2>1, <2>2
<1>13. Occurs(s, A) <=> Occurs(commands, Reaching(k, A))
  BY <1>9, <1>11 DEF Occurs
<1>14. ASSUME Ends(s, A, B) PROVE Ends(commands, Reaching(k, A), Reaching(k, B))
  <2>1. PICK i \in DOMAIN a :
          s[i] \in A /\ \A j \in DOMAIN a : i < j => s[j] \notin B
    BY <1>9, <1>14 DEF Ends
  <2>2. ASSUME NEW n \in DOMAIN commands, a[i] < n, commands[n] \in Reaching(k, B)
        PROVE  FALSE
    <3>1. PICK j \in DOMAIN a : a[j] = n /\ s[j] \in B
      BY <1>11, <2>2
    <3>2. i < j
      BY <1>12, <2>2, <3>1
    <3>3. QED
      BY <2>1, <3>1, <3>2
  <2>3. QED
    BY <1>9, <2>1, <2>2 DEF Ends
<1>15. ASSUME Ends(commands, Reaching(k, A), Reaching(k, B)) PROVE Ends(s, A, B)
  <2>1. PICK n \in DOMAIN commands :
          /\ commands[n] \in Reaching(k, A)
          /\ \A m \in DOMAIN commands : n < m => commands[m] \notin Reaching(k, B)
    BY <1>15 DEF Ends
  <2>2. PICK i \in DOMAIN a : a[i] = n /\ s[i] \in A
    BY <1>11, <2>1
  <2>3. \A j \in DOMAIN a : i < j => s[j] \notin B
    BY <1>9, <1>12, <2>1, <2>2
  <2>4. QED
    BY <1>9, <2>2, <2>3 DEF Ends
<1>16. ASSUME Starts(s, A, B) PROVE Starts(commands, Reaching(k, A), Reaching(k, B))
  <2>1. PICK i \in DOMAIN a :
          s[i] \in A /\ \A j \in DOMAIN a : j < i => s[j] \notin B
    BY <1>9, <1>16 DEF Starts
  <2>2. ASSUME NEW n \in DOMAIN commands, n < a[i], commands[n] \in Reaching(k, B)
        PROVE  FALSE
    <3>1. PICK j \in DOMAIN a : a[j] = n /\ s[j] \in B
      BY <1>11, <2>2
    <3>2. j < i
      BY <1>12, <2>2, <3>1
    <3>3. QED
      BY <2>1, <3>1, <3>2
  <2>3. QED
    BY <1>9, <2>1, <2>2 DEF Starts
<1>17. ASSUME Starts(commands, Reaching(k, A), Reaching(k, B)) PROVE Starts(s, A, B)
  <2>1. PICK n \in DOMAIN commands :
          /\ commands[n] \in Reaching(k, A)
          /\ \A m \in DOMAIN commands : m < n => commands[m] \notin Reaching(k, B)
    BY <1>17 DEF Starts
  <2>2. PICK i \in DOMAIN a : a[i] = n /\ s[i] \in A
    BY <1>11, <2>1
  <2>3. \A j \in DOMAIN a : j < i => s[j] \notin B
    BY <1>9, <1>12, <2>1, <2>2
  <2>4. QED
    BY <1>9, <2>2, <2>3 DEF Starts
<1>18. QED
  BY <1>10, <1>13, <1>14, <1>15, <1>16, <1>17 DEF s

LEMMA LastAmong ==
  ASSUME NEW S, NEW q \in Seq(S), NEW A, NEW B, Occurs(q, B), ~Occurs(q, B \ A)
  PROVE  Ends(q, A, B)
<1>1. Ends(q, B, B)
  BY OccursEnds
<1>2. QED
  BY <1>1 DEF Ends, Occurs

-----------------------------------------------------------------------------
(* The commands.                                                           *)

Gamelists == {"onGamelist"} \X SUBSET Player
LoginReplies == {"loggedIn"} \X (Player \X SUBSET Player)
PeerCommands ==
  {"onHostLeft", "joinGame", "connectToPeer", "disconnectFromPeer"} \X Player
IceMsgs == {"iceMsg"} \X (Player \X Nat)
Commands ==
  Gamelists \cup LoginReplies \cup PeerCommands \cup IceMsgs
    \cup {<<"hostGame", All>>}
Addressed == [to : Address, msg : Commands]

ServerTypes ==
  /\ sockets \subseteq Connection
  /\ DOMAIN playerSockets \subseteq Player
  /\ \A p \in DOMAIN playerSockets : playerSockets[p] \in Connection
  /\ DOMAIN socketPlayers \subseteq sockets
  /\ \A k \in DOMAIN socketPlayers : socketPlayers[k] \in Player
  /\ DOMAIN playersLogins \subseteq Player
  /\ DOMAIN playersGames \subseteq Player
  /\ DOMAIN games \subseteq Player
  /\ \A g \in DOMAIN games : games[g] \subseteq Player
  /\ currentPlayerId \in 0 .. MaxPlayers
  /\ live \subseteq Connection

LEMMA NotAll == \A k \in Connection : k # All
<1>1. \A c, n : <<c, n>> # <<>>
  OBVIOUS
<1>2. QED
  BY <1>1 DEF Connection, All

LEMMA SocketTypes ==
  ASSUME ServerTypes, NEW p PROVE SocketOf(p) \in Address
  BY DEF ServerTypes, SocketOf, Address

LEMMA ToTypes ==
  ASSUME NEW to \in Address, NEW method, NEW arg, <<method, arg>> \in Commands
  PROVE  To(to, method, arg) \in Addressed
  BY DEF To, Addressed

LEMMA FellowTypes ==
  ASSUME ServerTypes, NEW p
  PROVE  FellowsOf(p) \subseteq Player
<1>1. DOMAIN GamesLeft(p) \subseteq DOMAIN games
  BY DEF GamesLeft, Erase
<1>2. QED
  BY <1>1 DEF FellowsOf, ServerTypes

LEMMA HostLeftSends ==
  ASSUME ServerTypes, NEW p \in Player, NEW A
  PROVE  /\ HostLeft(p) \in Seq(Addressed)
         /\ Occurs(HostLeft(p), A) <=>
              /\ p \in DOMAIN games
              /\ \/ \E f \in games[p] : To(SocketOf(f), "onHostLeft", p) \in A
                 \/ To(All, "onGamelist", DOMAIN games \ {p}) \in A
<1>1. CASE p \notin DOMAIN games
  <2>1. HostLeft(p) = <<>>
    BY <1>1 DEF HostLeft
  <2>2. QED
    BY <1>1, <2>1, EmptyQueue
<1>2. CASE p \in DOMAIN games
  <2> DEFINE told == [f \in games[p] |-> <<To(SocketOf(f), "onHostLeft", p)>>]
             q == ToEach(1, told)
             e == Gamelist(GamesLeft(p))
             r == <<e>>
  <2>1. HostLeft(p) = q \o r
    BY <1>2 DEF HostLeft
  <2>2. e = To(All, "onGamelist", DOMAIN games \ {p})
    BY DEF Gamelist, GamesLeft, Erase
  <2>3. e \in Addressed
    <3>1. DOMAIN games \ {p} \in SUBSET Player
      BY DEF ServerTypes
    <3>2. <<"onGamelist", DOMAIN games \ {p}>> \in Commands
      BY <3>1 DEF Commands, Gamelists
    <3>3. QED
      BY <2>2, <3>2 DEF Addressed, To, Address
  <2>4. \A f \in games[p] : To(SocketOf(f), "onHostLeft", p) \in Addressed
    <3>1. <<"onHostLeft", p>> \in Commands
      BY DEF Commands, PeerCommands
    <3>2. QED
      BY <3>1, SocketTypes DEF Addressed, To
  <2>5. /\ q \in Seq(Addressed)
        /\ Occurs(q, A) <=>
             \E f \in games[p] : To(SocketOf(f), "onHostLeft", p) \in A
    <3>1. \A f : \A m \in 1 .. 1 :
            <<To(SocketOf(f), "onHostLeft", p)>>[m] = To(SocketOf(f), "onHostLeft", p)
      OBVIOUS
    <3>2. /\ DOMAIN told = games[p]
          /\ \A f \in games[p] : \A m \in 1 .. 1 :
               told[f][m] = To(SocketOf(f), "onHostLeft", p)
      BY <3>1
    <3>3. DOMAIN told \in SUBSET Player
      BY <1>2, <3>2 DEF ServerTypes
    <3> HIDE DEF told
    <3>4. \A f \in DOMAIN told : \A m \in 1 .. 1 : told[f][m] \in Addressed
      BY <2>4, <3>2
    <3>5. /\ q \in Seq(Addressed)
          /\ Occurs(q, A) <=>
               \E f \in DOMAIN told : \E m \in 1 .. 1 : told[f][m] \in A
      BY <3>3, <3>4, ToEachSends
    <3>6. 1 \in 1 .. 1
      OBVIOUS
    <3>7. QED
      BY <3>2, <3>5, <3>6
  <2> HIDE DEF q, e
  <2>6. Occurs(r, A) <=> e \in A
    BY OneInQueue
  <2>7. r \in Seq(Addressed)
    BY <2>3
  <2> HIDE DEF r
  <2>8. q \o r \in Seq(Addressed) /\ (Occurs(q \o r, A) <=> Occurs(q, A) \/ Occurs(r, A))
    BY <2>5, <2>7, ConcatQueue, ConcatProperties
  <2>9. QED
    BY <1>2, <2>1, <2>2, <2>5, <2>6, <2>8
<1>3. QED
  BY <1>1, <1>2

\* A loop that sends two commands for each player.
LEMMA PairsSend ==
  ASSUME NEW told, DOMAIN told \in SUBSET Player, NEW T,
         \A f \in DOMAIN told : told[f][1] \in T /\ told[f][2] \in T,
         NEW A
  PROVE  /\ ToEach(2, told) \in Seq(T)
         /\ Occurs(ToEach(2, told), A) <=>
              \E f \in DOMAIN told : told[f][1] \in A \/ told[f][2] \in A
<1>1. \A m \in 1 .. 2 : m = 1 \/ m = 2
  OBVIOUS
<1>2. \A f \in DOMAIN told : \A m \in 1 .. 2 : told[f][m] \in T
  BY <1>1
<1>3. /\ ToEach(2, told) \in Seq(T)
      /\ Occurs(ToEach(2, told), A) <=>
           \E f \in DOMAIN told : \E m \in 1 .. 2 : told[f][m] \in A
  <2> DEFINE n == 2
  <2>1. n \in {1, 2} /\ \A f \in DOMAIN told : \A m \in 1 .. n : told[f][m] \in T
    BY <1>2
  <2> HIDE DEF n
  <2>2. /\ ToEach(n, told) \in Seq(T)
        /\ Occurs(ToEach(n, told), A) <=>
             \E f \in DOMAIN told : \E m \in 1 .. n : told[f][m] \in A
    BY <2>1, ToEachSends, Z3
  <2>3. QED
    BY <2>2 DEF n
<1>4. 1 \in 1 .. 2 /\ 2 \in 1 .. 2
  OBVIOUS
<1>5. QED
  BY <1>1, <1>3, <1>4

LEMMA LeaveSends ==
  ASSUME ServerTypes, NEW p \in Player, NEW A
  PROVE  /\ LeaveCommands(p) \in Seq(Addressed)
         /\ Occurs(LeaveCommands(p), A) <=>
              \/ /\ p \in DOMAIN games
                 /\ \/ \E f \in games[p] : To(SocketOf(f), "onHostLeft", p) \in A
                    \/ To(All, "onGamelist", DOMAIN games \ {p}) \in A
              \/ \E f \in FellowsOf(p) :
                   \/ To(SocketOf(f), "disconnectFromPeer", p) \in A
                   \/ To(SocketOf(p), "disconnectFromPeer", f) \in A
<1> DEFINE told == [f \in FellowsOf(p) |->
                      <<To(SocketOf(f), "disconnectFromPeer", p),
                        To(SocketOf(p), "disconnectFromPeer", f)>>]
           q == HostLeft(p)
           r == ToEach(2, told)
<1>1. LeaveCommands(p) = q \o r
  BY DEF LeaveCommands
<1>2. \A f \in FellowsOf(p) :
        /\ told[f][1] = To(SocketOf(f), "disconnectFromPeer", p)
        /\ told[f][2] = To(SocketOf(p), "disconnectFromPeer", f)
  OBVIOUS
<1>3. DOMAIN told = FellowsOf(p) /\ DOMAIN told \in SUBSET Player
  BY FellowTypes
<1> HIDE DEF told
<1>4. \A f \in DOMAIN told : told[f][1] \in Addressed /\ told[f][2] \in Addressed
  <2>1. \A f \in Player : <<"disconnectFromPeer", f>> \in Commands
    BY DEF Commands, PeerCommands
  <2>2. \A f, y : f \in Player => To(SocketOf(y), "disconnectFromPeer", f) \in Addressed
    BY <2>1, ToTypes, SocketTypes
  <2>3. QED
    BY <1>2, <1>3, <2>2
<1>5. /\ r \in Seq(Addressed)
      /\ Occurs(r, A) <=>
           \E f \in DOMAIN told : told[f][1] \in A \/ told[f][2] \in A
  BY <1>3, <1>4, PairsSend
<1>6. /\ q \in Seq(Addressed)
      /\ Occurs(q, A) <=>
           /\ p \in DOMAIN games
           /\ \/ \E f \in games[p] : To(SocketOf(f), "onHostLeft", p) \in A
              \/ To(All, "onGamelist", DOMAIN games \ {p}) \in A
  BY HostLeftSends
<1> HIDE DEF q, r
<1>7. q \o r \in Seq(Addressed) /\ (Occurs(q \o r, A) <=> Occurs(q, A) \/ Occurs(r, A))
  BY <1>5, <1>6, ConcatQueue, ConcatProperties
<1>8. QED
  BY <1>1, <1>2, <1>3, <1>5, <1>6, <1>7

LEMMA JoinSends ==
  ASSUME ServerTypes, NEW p \in Player, NEW g \in Player,
         GamesWithout(p)[g] \subseteq Player, NEW A
  PROVE  /\ JoinCommands(p, g) \in Seq(Addressed)
         /\ Occurs(JoinCommands(p, g), A) <=>
              \/ To(SocketOf(g), "connectToPeer", p) \in A
              \/ To(SocketOf(p), "joinGame", g) \in A
              \/ \E f \in GamesWithout(p)[g] \ {p, g} :
                   \/ To(SocketOf(f), "connectToPeer", p) \in A
                   \/ To(SocketOf(p), "connectToPeer", f) \in A
<1> DEFINE D == GamesWithout(p)[g] \ {p, g}
           told == [f \in D |-> <<To(SocketOf(f), "connectToPeer", p),
                                  To(SocketOf(p), "connectToPeer", f)>>]
           a == To(SocketOf(g), "connectToPeer", p)
           b == To(SocketOf(p), "joinGame", g)
           q == <<a, b>>
           r == ToEach(2, told)
<1>1. JoinCommands(p, g) = q \o r
  BY DEF JoinCommands
<1>2. \A f \in D : /\ told[f][1] = To(SocketOf(f), "connectToPeer", p)
                   /\ told[f][2] = To(SocketOf(p), "connectToPeer", f)
  OBVIOUS
<1>3. DOMAIN told = D /\ DOMAIN told \in SUBSET Player
  OBVIOUS
<1> HIDE DEF told
<1>4. \A f \in Player : /\ <<"connectToPeer", f>> \in Commands
                        /\ <<"joinGame", f>> \in Commands
  BY DEF Commands, PeerCommands
<1>5. \A f \in DOMAIN told : told[f][1] \in Addressed /\ told[f][2] \in Addressed
  <2>1. \A f, y : f \in Player => To(SocketOf(y), "connectToPeer", f) \in Addressed
    BY <1>4, ToTypes, SocketTypes
  <2>2. QED
    BY <1>2, <1>3, <2>1
<1>6. a \in Addressed /\ b \in Addressed
  BY <1>4, ToTypes, SocketTypes
<1>7. /\ r \in Seq(Addressed)
      /\ Occurs(r, A) <=>
           \E f \in DOMAIN told : told[f][1] \in A \/ told[f][2] \in A
  BY <1>3, <1>5, PairsSend
<1> HIDE DEF a, b, D, r
<1>8. q \in Seq(Addressed) /\ (Occurs(q, A) <=> a \in A \/ b \in A)
  <2>1. q \in Seq(Addressed)
    BY <1>6
  <2>2. \A i \in DOMAIN q : (i = 1 /\ q[i] = a) \/ (i = 2 /\ q[i] = b)
    OBVIOUS
  <2>3. 1 \in DOMAIN q /\ q[1] = a /\ 2 \in DOMAIN q /\ q[2] = b
    OBVIOUS
  <2> HIDE DEF q
  <2>4. QED
    BY <2>1, <2>2, <2>3 DEF Occurs
<1> HIDE DEF q
<1>9. q \o r \in Seq(Addressed) /\ (Occurs(q \o r, A) <=> Occurs(q, A) \/ Occurs(r, A))
  BY <1>7, <1>8, ConcatQueue, ConcatProperties
<1>10. QED
  BY <1>1, <1>2, <1>3, <1>7, <1>8, <1>9 DEF a, b, D

-----------------------------------------------------------------------------
(* Who hears what.                                                         *)

\* Player y is the one connection k is logged in as.
Is(k, y) == k \in DOMAIN socketPlayers /\ socketPlayers[k] = y

\* What is sent to a player reaches that player's connection and no other.
LEMMA Reached ==
  ASSUME ServerTypes, BooksAgree, NEW k \in sockets,
         NEW y \in DOMAIN playerSockets
  PROVE  Reaches(k, SocketOf(y)) <=> Is(k, y)
  BY DEF Reaches, SocketOf, Is, BooksAgree

LEMMA AllReached ==
  ASSUME ServerTypes, NEW k \in sockets PROVE Reaches(k, All)
<1>1. All \notin sockets
  BY NotAll DEF ServerTypes
<1>2. QED
  BY <1>1 DEF Reaches

LEMMA InReaching ==
  ASSUME NEW k, NEW A, NEW to \in Address, NEW method, NEW arg
  PROVE  To(to, method, arg) \in Reaching(k, A) <=>
           Reaches(k, to) /\ <<method, arg>> \in A
  BY DEF Reaching, To

\* What is heard of a player's leaving.
LEMMA LeaveHeard ==
  ASSUME ServerTypes, BooksAgree, NEW k \in sockets,
         NEW p \in DOMAIN playerSockets, NEW A \in SUBSET Commands
  PROVE  /\ SentTo(k, LeaveCommands(p)) \in Seq(Commands)
         /\ Occurs(SentTo(k, LeaveCommands(p)), A) <=>
              \/ /\ p \in DOMAIN games
                 /\ \/ \E f \in games[p] : Is(k, f) /\ <<"onHostLeft", p>> \in A
                    \/ <<"onGamelist", DOMAIN games \ {p}>> \in A
              \/ \E f \in FellowsOf(p) :
                   \/ Is(k, f) /\ <<"disconnectFromPeer", p>> \in A
                   \/ Is(k, p) /\ <<"disconnectFromPeer", f>> \in A
<1> DEFINE B == Reaching(k, A)
           cs == LeaveCommands(p)
<1>1. p \in Player
  BY DEF ServerTypes
<1>2. /\ cs \in Seq(Addressed)
      /\ Occurs(cs, B) <=>
           \/ /\ p \in DOMAIN games
              /\ \/ \E f \in games[p] : To(SocketOf(f), "onHostLeft", p) \in B
                 \/ To(All, "onGamelist", DOMAIN games \ {p}) \in B
           \/ \E f \in FellowsOf(p) :
                \/ To(SocketOf(f), "disconnectFromPeer", p) \in B
                \/ To(SocketOf(p), "disconnectFromPeer", f) \in B
  <2> HIDE DEF B
  <2>1. QED
    BY <1>1, LeaveSends
<1>3. \A f, method, arg :
        f \in DOMAIN playerSockets =>
          (To(SocketOf(f), method, arg) \in B <=>
             Is(k, f) /\ <<method, arg>> \in A)
  BY InReaching, Reached, SocketTypes
<1>4. \A method, arg : To(All, method, arg) \in B <=> <<method, arg>> \in A
  BY InReaching, AllReached DEF Address
<1>5. p \in DOMAIN games => games[p] \subseteq DOMAIN playerSockets
  BY DEF BooksAgree
<1>6. FellowsOf(p) \subseteq DOMAIN playerSockets
  BY DEF FellowsOf, GamesLeft, Erase, BooksAgree
<1> HIDE DEF B, cs
<1>7. Occurs(cs, B) <=>
        \/ /\ p \in DOMAIN games
           /\ \/ \E f \in games[p] : Is(k, f) /\ <<"onHostLeft", p>> \in A
              \/ <<"onGamelist", DOMAIN games \ {p}>> \in A
        \/ \E f \in FellowsOf(p) :
             \/ Is(k, f) /\ <<"disconnectFromPeer", p>> \in A
             \/ Is(k, p) /\ <<"disconnectFromPeer", f>> \in A
  BY <1>2, <1>3, <1>4, <1>5, <1>6
<1>8. /\ SentTo(k, cs) \in Seq(Commands)
      /\ Occurs(SentTo(k, cs), A) <=> Occurs(cs, B)
  BY <1>2, SentToQueue DEF B, Addressed
<1>9. QED
  BY <1>7, <1>8 DEF cs

\* What is heard of a player's joining.
LEMMA JoinHeard ==
  ASSUME ServerTypes, BooksAgree, NEW k \in sockets,
         NEW p \in DOMAIN playerSockets, NEW g \in DOMAIN playerSockets,
         GamesWithout(p)[g] \subseteq DOMAIN playerSockets,
         NEW A \in SUBSET Commands
  PROVE  /\ SentTo(k, JoinCommands(p, g)) \in Seq(Commands)
         /\ Occurs(SentTo(k, JoinCommands(p, g)), A) <=>
              \/ Is(k, g) /\ <<"connectToPeer", p>> \in A
              \/ Is(k, p) /\ <<"joinGame", g>> \in A
              \/ \E f \in GamesWithout(p)[g] \ {p, g} :
                   \/ Is(k, f) /\ <<"connectToPeer", p>> \in A
                   \/ Is(k, p) /\ <<"connectToPeer", f>> \in A
<1> DEFINE B == Reaching(k, A)
           cs == JoinCommands(p, g)
           D == GamesWithout(p)[g]
<1>1. p \in Player /\ g \in Player /\ D \subseteq Player
  BY DEF ServerTypes
<1>2. /\ cs \in Seq(Addressed)
      /\ Occurs(cs, B) <=>
           \/ To(SocketOf(g), "connectToPeer", p) \in B
           \/ To(SocketOf(p), "joinGame", g) \in B
           \/ \E f \in D \ {p, g} :
                \/ To(SocketOf(f), "connectToPeer", p) \in B
                \/ To(SocketOf(p), "connectToPeer", f) \in B
  <2> HIDE DEF B
  <2>1. QED
    BY <1>1, JoinSends
<1>3. \A f, method, arg :
        f \in DOMAIN playerSockets =>
          (To(SocketOf(f), method, arg) \in B <=>
             Is(k, f) /\ <<method, arg>> \in A)
  BY InReaching, Reached, SocketTypes
<1> HIDE DEF B, cs, D
<1>4. D \subseteq DOMAIN playerSockets
  BY DEF D
<1>5. Occurs(cs, B) <=>
        \/ Is(k, g) /\ <<"connectToPeer", p>> \in A
        \/ Is(k, p) /\ <<"joinGame", g>> \in A
        \/ \E f \in D \ {p, g} :
             \/ Is(k, f) /\ <<"connectToPeer", p>> \in A
             \/ Is(k, p) /\ <<"connectToPeer", f>> \in A
  BY <1>2, <1>3, <1>4
<1>6. /\ SentTo(k, cs) \in Seq(Commands)
      /\ Occurs(SentTo(k, cs), A) <=> Occurs(cs, B)
  BY <1>2, SentToQueue DEF B, Addressed
<1>7. QED
  BY <1>5, <1>6 DEF cs, D

-----------------------------------------------------------------------------
(* What the commands are, by method.                                       *)

LEMMA CommandForms ==
  ASSUME NEW m \in Commands
  PROVE  /\ m = <<m[1], m[2]>>
         /\ m[1] \in {"onGamelist", "loggedIn", "onHostLeft", "joinGame",
                      "connectToPeer", "disconnectFromPeer", "iceMsg", "hostGame"}
         /\ m[1] = "onGamelist" <=> m \in Gamelists
         /\ m[1] = "loggedIn" <=> m \in LoginReplies
         /\ m[1] = "iceMsg" <=> m \in IceMsgs
         /\ m[1] = "onGamelist" => m[2] \in SUBSET Player
         /\ m[1] = "loggedIn" => m[2][1] \in Player /\ m[2][2] \in SUBSET Player
         /\ m[1] = "iceMsg" => m[2][1] \in Player /\ m[2][2] \in Nat
         /\ m[1] \in {"onHostLeft", "joinGame", "connectToPeer",
                      "disconnectFromPeer"} => m[2] \in Player
         /\ m[1] = "hostGame" => m[2] = All
<1>1. CASE m \in Gamelists
  BY <1>1 DEF Gamelists, LoginReplies, IceMsgs
<1>2. CASE m \in LoginReplies
  BY <1>2 DEF Gamelists, LoginReplies, IceMsgs
<1>3. CASE m \in PeerCommands
  BY <1>3 DEF Gamelists, LoginReplies, IceMsgs, PeerCommands
<1>4. CASE m \in IceMsgs
  BY <1>4 DEF Gamelists, LoginReplies, IceMsgs
<1>5. CASE m = <<"hostGame", All>>
  BY <1>5 DEF Gamelists, LoginReplies, IceMsgs
<1>6. QED
  BY <1>1, <1>2, <1>3, <1>4, <1>5 DEF Commands

\* A command for one connection that is the server's reaches that one only.
LEMMA OneHeard ==
  ASSUME NEW k \in sockets, sockets \subseteq Connection, NEW j \in sockets,
         NEW method, NEW arg, <<method, arg>> \in Commands, NEW A \in SUBSET Commands
  PROVE  /\ <<To(k, method, arg)>> \in Seq(Addressed)
         /\ SentTo(j, <<To(k, method, arg)>>) \in Seq(Commands)
         /\ Occurs(SentTo(j, <<To(k, method, arg)>>), A) <=>
              j = k /\ <<method, arg>> \in A
<1> DEFINE e == To(k, method, arg)
           cs == <<e>>
           B == Reaching(j, A)
<1>1. k \in Address
  BY DEF Address
<1>2. e \in Addressed
  BY <1>1, ToTypes
<1>3. e \in B <=> j = k /\ <<method, arg>> \in A
  BY <1>1, InReaching DEF Reaches
<1> HIDE DEF e, B
<1>4. Occurs(cs, B) <=> e \in B
  BY OneInQueue
<1>5. cs \in Seq(Addressed)
  BY <1>2
<1> HIDE DEF cs
<1>6. /\ SentTo(j, cs) \in Seq(Commands)
      /\ Occurs(SentTo(j, cs), A) <=> Occurs(cs, B)
  BY <1>5, SentToQueue DEF B, Addressed
<1>7. QED
  BY <1>3, <1>4, <1>5, <1>6 DEF cs, e

\* The new list of games reaches everyone.
LEMMA GamelistHeard ==
  ASSUME ServerTypes, NEW j \in sockets, NEW S \in SUBSET Player,
         NEW A \in SUBSET Commands
  PROVE  /\ <<To(All, "onGamelist", S)>> \in Seq(Addressed)
         /\ SentTo(j, <<To(All, "onGamelist", S)>>) \in Seq(Commands)
         /\ Occurs(SentTo(j, <<To(All, "onGamelist", S)>>), A) <=>
              <<"onGamelist", S>> \in A
<1> DEFINE e == To(All, "onGamelist", S)
           cs == <<e>>
           B == Reaching(j, A)
<1>1. All \in Address
  BY DEF Address
<1>2. <<"onGamelist", S>> \in Commands
  BY DEF Commands, Gamelists
<1>3. e \in Addressed
  BY <1>1, <1>2, ToTypes
<1>4. e \in B <=> <<"onGamelist", S>> \in A
  BY <1>1, InReaching, AllReached
<1> HIDE DEF e, B
<1>5. Occurs(cs, B) <=> e \in B
  BY OneInQueue
<1>6. cs \in Seq(Addressed)
  BY <1>3
<1> HIDE DEF cs
<1>7. /\ SentTo(j, cs) \in Seq(Commands)
      /\ Occurs(SentTo(j, cs), A) <=> Occurs(cs, B)
  BY <1>6, SentToQueue DEF B, Addressed
<1>8. QED
  BY <1>4, <1>5, <1>6, <1>7 DEF cs, e

\* What is sent in two parts is heard in that order.
LEMMA ConcatHeard ==
  ASSUME NEW a \in Seq(Addressed), NEW b \in Seq(Addressed), NEW k,
         NEW A \in SUBSET Commands, NEW B \in SUBSET Commands
  PROVE  /\ a \o b \in Seq(Addressed)
         /\ SentTo(k, a \o b) \in Seq(Commands)
         /\ Occurs(SentTo(k, a \o b), A) <=>
              Occurs(SentTo(k, a), A) \/ Occurs(SentTo(k, b), A)
         /\ Ends(SentTo(k, a \o b), A, B) <=>
              \/ Ends(SentTo(k, b), A, B)
              \/ Ends(SentTo(k, a), A, B) /\ ~Occurs(SentTo(k, b), B)
<1> DEFINE RA == Reaching(k, A)
           RB == Reaching(k, B)
<1>1. a \o b \in Seq(Addressed)
  BY ConcatProperties
<1>2. \A cs \in Seq(Addressed) :
        /\ SentTo(k, cs) \in Seq(Commands)
        /\ Occurs(SentTo(k, cs), A) <=> Occurs(cs, RA)
        /\ Occurs(SentTo(k, cs), B) <=> Occurs(cs, RB)
        /\ Ends(SentTo(k, cs), A, B) <=> Ends(cs, RA, RB)
  BY SentToQueue DEF Addressed
<1> HIDE DEF RA, RB
<1>3. /\ Occurs(a \o b, RA) <=> Occurs(a, RA) \/ Occurs(b, RA)
      /\ Ends(a \o b, RA, RB) <=>
           Ends(b, RA, RB) \/ (Ends(a, RA, RB) /\ ~Occurs(b, RB))
  BY ConcatQueue
<1>4. QED
  BY <1>1, <1>2, <1>3

LEMMA NothingHeard ==
  ASSUME NEW k, NEW A \in SUBSET Commands
  PROVE  /\ <<>> \in Seq(Addressed)
         /\ SentTo(k, <<>>) = <<>>
         /\ ~Occurs(SentTo(k, <<>>), A)
<1> DEFINE cs == <<>>
<1>1. cs \in Seq(Addressed)
  BY EmptySeq
<1>2. SentTo(k, cs) \in Seq({})
  <2>1. cs \in Seq([to : Address, msg : {}])
    BY EmptySeq
  <2>2. QED
    BY <2>1, SentToQueue
<1>3. SentTo(k, cs) = <<>>
  <2> DEFINE s == SentTo(k, cs)
  <2>1. s \in Seq({})
    BY <1>2
  <2> HIDE DEF s
  <2>2. s # <<>> => Head(s) \in {}
    BY <2>1, HeadTailProperties
  <2>3. QED
    BY <2>2 DEF s
<1>4. QED
  BY <1>1, <1>3, EmptyQueue

\* What each connection's queue becomes.
LEMMA SendAllQueues ==
  ASSUME toClient \in [Connection -> Seq(Commands)],
         NEW cs \in Seq(Addressed), SendAll(cs)
  PROVE  /\ toClient' \in [Connection -> Seq(Commands)]
         /\ \A k \in live : k \in Connection =>
              /\ SentTo(k, cs) \in Seq(Commands)
              /\ toClient'[k] = toClient[k] \o SentTo(k, cs)
         /\ \A k \in Connection \ live : toClient'[k] = toClient[k]
<1>1. \A k : SentTo(k, cs) \in Seq(Commands)
  BY SentToQueue DEF Addressed
<1>2. \A k \in Connection : toClient[k] \o SentTo(k, cs) \in Seq(Commands)
  BY <1>1, ConcatProperties
<1>3. QED
  BY <1>1, <1>2 DEF SendAll

-----------------------------------------------------------------------------
(* The maps.                                                               *)

\* The ids given out are players, also the 0 of an ICE message that comes over
\* a connection nobody logged in on.
PlayersOK ==
  /\ currentPlayerId \in 0 .. MaxPlayers
  /\ DOMAIN playerSockets \subseteq 0 .. currentPlayerId - 1
  /\ \A k \in DOMAIN socketPlayers : socketPlayers[k] \in Player

LEMMA NextPlayers == PlayersOK /\ [Next]_vars => PlayersOK'
<1> SUFFICES ASSUME PlayersOK, [Next]_vars PROVE PlayersOK'
  OBVIOUS
<1> USE TestserverAssumption DEF PlayersOK, Player, Put, Erase
<1>1. ASSUME NEW k \in Connection, Login(k) PROVE PlayersOK'
  BY <1>1 DEF Login
<1>2. ASSUME NEW k \in Connection, NEW p, Reconnect(k, p) PROVE PlayersOK'
  <2>1. CASE UNCHANGED <<playerSockets, socketPlayers>>
    BY <1>2, <2>1 DEF Reconnect
  <2>2. CASE /\ p \in DOMAIN playerSockets
             /\ socketPlayers' = Put(Erase(socketPlayers, playerSockets[p]), k, p)
             /\ playerSockets' = Put(playerSockets, p, k)
    <3>1. currentPlayerId' = currentPlayerId /\ p \in Player
      BY <1>2, <2>2 DEF Reconnect
    <3>2. \A x \in DOMAIN socketPlayers' :
            x = k \/ (x \in DOMAIN socketPlayers /\ socketPlayers'[x] = socketPlayers[x])
      BY <2>2
    <3>3. socketPlayers'[k] = p
      BY <2>2
    <3>4. DOMAIN playerSockets' = DOMAIN playerSockets
      BY <2>2
    <3>5. QED
      BY <3>1, <3>2, <3>3, <3>4
  <2>3. QED
    BY <1>2, <2>1, <2>2 DEF Reconnect
<1>3. ASSUME NEW k \in Connection, NEW sender, NEW receiver,
             SendIceMsg(k, sender, receiver)
      PROVE  PlayersOK'
  BY <1>3 DEF SendIceMsg
<1>4. ASSUME NEW k \in Connection, Disconnected(k) PROVE PlayersOK'
  BY <1>4 DEF Disconnected
<1>5. CASE UNCHANGED <<currentPlayerId, playerSockets, socketPlayers>>
  BY <1>5
<1>6. QED
  BY <1>1, <1>2, <1>3, <1>4, <1>5
     DEF Next, Connect, Disconnect, LoseConnection, Click, HostGameClicked,
         LeaveClicked, GameClicked, OnIceMsg, ClientReads, ServerReads,
         ServerNotices, HostGame, LeaveGame, JoinGame, vars, serverVars, books

LEMMA PlayersAlways == Spec => []PlayersOK
<1>1. Init => PlayersOK
  BY TestserverAssumption DEF Init, ServerInit, PlayersOK
<1>2. QED
  BY <1>1, NextPlayers, PTL DEF Spec

-----------------------------------------------------------------------------
(* What a step does to the games.                                          *)

Leaves(p) ==
  /\ games' = GamesWithout(p)
  /\ playersGames' = PlayersGamesWithout(p)

Hosts(p) ==
  /\ games' = Put(GamesWithout(p), p, {p})
  /\ playersGames' = Put(playersGames, p, p)

Joins(p, g) ==
  /\ g \in DOMAIN GamesWithout(p)
  /\ games' = [GamesWithout(p) EXCEPT ![g] = @ \cup {p}]
  /\ playersGames' = Put(playersGames, p, g)

\* A step leaves the games alone or is one of these for one player.
LEMMA GamesStep ==
  ASSUME PlayersOK, [Next]_vars
  PROVE  \/ UNCHANGED <<games, playersGames>>
         \/ \E p \in Player : Leaves(p) \/ Hosts(p) \/ \E g : Joins(p, g)
<1> USE DEF PlayersOK
<1> DEFINE Goal == \/ UNCHANGED <<games, playersGames>>
                   \/ \E p \in Player : Leaves(p) \/ Hosts(p) \/ \E g : Joins(p, g)
<1>1. ASSUME NEW k \in Connection, HostGame(k) PROVE Goal
  BY <1>1 DEF HostGame, Hosts
<1>2. ASSUME NEW k \in Connection, LeaveGame(k) PROVE Goal
  BY <1>2 DEF LeaveGame, Leaves
<1>3. ASSUME NEW k \in Connection, NEW g, JoinGame(k, g) PROVE Goal
  BY <1>3 DEF JoinGame, Leaves, Joins
<1>4. ASSUME NEW k \in Connection, Disconnected(k) PROVE Goal
  BY <1>4 DEF Disconnected, Leaves
<1>5. CASE UNCHANGED <<games, playersGames>>
  BY <1>5
<1> HIDE DEF Goal
<1>6. Goal
  BY <1>1, <1>2, <1>3, <1>4, <1>5, ZenonT(60)
     DEF Next, Connect, Disconnect, LoseConnection, Click, HostGameClicked,
         LeaveClicked, GameClicked, OnIceMsg, ClientReads, ServerReads,
         ServerNotices, Login, Reconnect, SendIceMsg, vars, serverVars, books, Goal
<1>7. QED
  BY <1>6 DEF Goal

-----------------------------------------------------------------------------
(* A player is in one game at most.                                        *)

\* A player that leaves is in no game any more, and its own game is over.
LEMMA WithoutPlayer ==
  ASSUME OneGameEach, NEW p
  PROVE  /\ DOMAIN GamesWithout(p) = DOMAIN games \ {p}
         /\ \A g \in DOMAIN games \ {p} : GamesWithout(p)[g] = games[g] \ {p}
  BY DEF GamesWithout, GamesLeft, Erase, OneGameEach

\* What a step makes of the maps, one player and one game at a time.
LeftMaps(p) ==
  /\ DOMAIN games' = DOMAIN games \ {p}
  /\ \A g \in DOMAIN games \ {p} : games'[g] = games[g] \ {p}
  /\ DOMAIN playersGames' = DOMAIN playersGames \ {p}
  /\ \A q \in DOMAIN playersGames \ {p} : playersGames'[q] = playersGames[q]

HostedMaps(p) ==
  /\ DOMAIN games' = DOMAIN games \cup {p}
  /\ \A g \in DOMAIN games \ {p} : games'[g] = games[g] \ {p}
  /\ games'[p] = {p}
  /\ DOMAIN playersGames' = DOMAIN playersGames \cup {p}
  /\ \A q \in DOMAIN playersGames \ {p} : playersGames'[q] = playersGames[q]
  /\ playersGames'[p] = p

JoinedMaps(p, g) ==
  /\ g \in DOMAIN games \ {p}
  /\ DOMAIN games' = DOMAIN games \ {p}
  /\ \A h \in DOMAIN games \ {p, g} : games'[h] = games[h] \ {p}
  /\ games'[g] = games[g] \cup {p}
  /\ DOMAIN playersGames' = DOMAIN playersGames \cup {p}
  /\ \A q \in DOMAIN playersGames \ {p} : playersGames'[q] = playersGames[q]
  /\ playersGames'[p] = g

LEMMA LeavesDo == ASSUME OneGameEach, NEW p, Leaves(p) PROVE LeftMaps(p)
<1>1. /\ DOMAIN GamesWithout(p) = DOMAIN games \ {p}
      /\ \A g \in DOMAIN games \ {p} : GamesWithout(p)[g] = games[g] \ {p}
  BY WithoutPlayer
<1>2. games' = GamesWithout(p) /\ playersGames' = Erase(playersGames, p)
  BY DEF Leaves, PlayersGamesWithout
<1>3. QED
  BY <1>1, <1>2 DEF LeftMaps, Erase

LEMMA HostsDo == ASSUME OneGameEach, NEW p, Hosts(p) PROVE HostedMaps(p)
<1>1. /\ DOMAIN GamesWithout(p) = DOMAIN games \ {p}
      /\ \A g \in DOMAIN games \ {p} : GamesWithout(p)[g] = games[g] \ {p}
  BY WithoutPlayer
<1>2. /\ games' = Put(GamesWithout(p), p, {p})
      /\ playersGames' = Put(playersGames, p, p)
  BY DEF Hosts
<1>3. QED
  BY <1>1, <1>2 DEF HostedMaps, Put

LEMMA JoinsDo ==
  ASSUME OneGameEach, NEW p, NEW g, Joins(p, g) PROVE JoinedMaps(p, g)
<1>1. /\ DOMAIN GamesWithout(p) = DOMAIN games \ {p}
      /\ \A h \in DOMAIN games \ {p} : GamesWithout(p)[h] = games[h] \ {p}
  BY WithoutPlayer
<1>2. /\ g \in DOMAIN GamesWithout(p)
      /\ games' = [GamesWithout(p) EXCEPT ![g] = @ \cup {p}]
      /\ playersGames' = Put(playersGames, p, g)
  BY DEF Joins
<1>3. QED
  BY <1>1, <1>2 DEF JoinedMaps, Put

LEMMA MapsStep ==
  ASSUME OneGameEach, PlayersOK, [Next]_vars
  PROVE  \/ UNCHANGED <<games, playersGames>>
         \/ \E p \in Player : \/ LeftMaps(p) \/ HostedMaps(p)
                              \/ \E g : JoinedMaps(p, g)
  BY GamesStep, LeavesDo, HostsDo, JoinsDo

LEMMA NextOneGame ==
  ASSUME OneGameEach, PlayersOK, [Next]_vars
  PROVE  OneGameEach'
<1>1. CASE UNCHANGED <<games, playersGames>>
  BY <1>1 DEF OneGameEach
<1>2. ASSUME NEW p \in Player, LeftMaps(p) PROVE OneGameEach'
  BY <1>2 DEF LeftMaps, OneGameEach
<1>3. ASSUME NEW p \in Player, HostedMaps(p) PROVE OneGameEach'
  BY <1>3 DEF HostedMaps, OneGameEach
<1>4. ASSUME NEW p \in Player, NEW g, JoinedMaps(p, g) PROVE OneGameEach'
  BY <1>4 DEF JoinedMaps, OneGameEach
<1>5. QED
  BY <1>1, <1>2, <1>3, <1>4, MapsStep

\* A host is in its own game, and a player in a game has joined that one and no
\* other (disconnectPlayerFromGame, hostGame and joinGame), whatever is lost
\* and whoever reconnects.
THEOREM OneGameForEach == Spec => []OneGameEach
<1>1. Init => OneGameEach
  BY DEF Init, ServerInit, OneGameEach
<1>2. QED
  BY <1>1, NextOneGame, PlayersAlways, PTL DEF Spec

-----------------------------------------------------------------------------
(* The games implement rooms.                                              *)

room == [p \in InGame |-> playersGames[p]]

\* Those who stay when a player leaves are in the games that go on.
LEMMA StayingAre ==
  ASSUME OneGameEach, NEW p, NEW q
  PROVE  /\ q \in Rooms!Staying(p) <=>
              q # p /\ \E g \in DOMAIN games \ {p} : q \in games[g]
         /\ q \in Rooms!Staying(p) =>
              q # p /\ q \in InGame /\ q \in DOMAIN playersGames
<1>1. q \in InGame <=> \E g \in DOMAIN games : q \in games[g]
  BY DEF InGame
<1>2. q \in Rooms!Staying(p) <=> q \in InGame /\ q # p /\ playersGames[q] # p
  BY DEF Rooms!Staying
<1>3. \A g \in DOMAIN games :
        q \in games[g] => q \in DOMAIN playersGames /\ playersGames[q] = g
  BY DEF OneGameEach
<1>4. QED
  BY <1>1, <1>2, <1>3

LEMMA NextRooms ==
  ASSUME OneGameEach, PlayersOK, [Next]_vars
  PROVE  [Rooms!Next]_room
<1> DEFINE Other(p, q) == q # p /\ \E g \in DOMAIN games \ {p} : q \in games[g]
<1>1. CASE UNCHANGED <<games, playersGames>>
  BY <1>1 DEF room, InGame
<1>2. \A q : q \in InGame' <=> \E g \in DOMAIN games' : q \in games'[g]
  BY DEF InGame
<1>3. ASSUME NEW p \in Player, LeftMaps(p) PROVE Rooms!Leave(p)
  <2>1. \A q : q \in InGame' <=> Other(p, q)
    BY <1>2, <1>3 DEF LeftMaps
  <2>2. InGame' = Rooms!Staying(p)
    BY <2>1, StayingAre
  <2>3. \A q \in Rooms!Staying(p) :
          q \in InGame /\ playersGames'[q] = playersGames[q]
    BY <1>3, StayingAre DEF LeftMaps
  <2>4. QED
    BY <2>2, <2>3 DEF Rooms!Leave
<1>4. ASSUME NEW p \in Player, HostedMaps(p) PROVE Rooms!Host(p)
  <2>1. \A q : q \in InGame' <=> q = p \/ Other(p, q)
    BY <1>2, <1>4 DEF HostedMaps
  <2>2. InGame' = Rooms!Staying(p) \cup {p}
    BY <2>1, StayingAre
  <2>3. /\ \A q \in Rooms!Staying(p) :
             q \in InGame /\ q # p /\ playersGames'[q] = playersGames[q]
        /\ playersGames'[p] = p
    BY <1>4, StayingAre DEF HostedMaps
  <2>4. QED
    BY <2>2, <2>3 DEF Rooms!Host, Rooms!With
<1>5. ASSUME NEW p \in Player, NEW g, JoinedMaps(p, g)
      PROVE  g \in Rooms!Staying(p) /\ Rooms!Join(p, g)
  <2>1. g \in DOMAIN games \ {p} /\ g \in games[g] /\ playersGames[g] = g
    BY <1>5 DEF JoinedMaps, OneGameEach
  <2>2. \A q : q \in InGame' <=> q = p \/ Other(p, q)
    BY <1>2, <1>5, <2>1 DEF JoinedMaps
  <2>3. InGame' = Rooms!Staying(p) \cup {p}
    BY <2>2, StayingAre
  <2>4. /\ \A q \in Rooms!Staying(p) :
             q \in InGame /\ q # p /\ playersGames'[q] = playersGames[q]
        /\ playersGames'[p] = g
    BY <1>5, StayingAre DEF JoinedMaps
  <2>5. g \in Rooms!Staying(p) /\ g \in InGame
    BY <2>1, StayingAre
  <2>6. QED
    BY <2>1, <2>3, <2>4, <2>5 DEF Rooms!Join, Rooms!With
<1>6. QED
  BY <1>1, <1>3, <1>4, <1>5, MapsStep DEF Rooms!Next

\* The server's two maps are one room for each player in a game: a player is
\* in one at most, and when a host goes its game is over for everyone in the
\* same step (hostGame, leaveGame, joinGame and the lambda of disconnected).
THEOREM GamesAreRooms == Spec => ImplementsRooms
<1>1. Init => Rooms!Init
  BY DEF Init, ServerInit, Rooms!Init, InGame
<1>2. OneGameEach /\ PlayersOK /\ [Next]_vars => [Rooms!Next]_room
  BY NextRooms
<1>3. QED
  BY <1>1, <1>2, OneGameForEach, PlayersAlways, PTL
     DEF Spec, ImplementsRooms, Rooms!Spec, room

-----------------------------------------------------------------------------
(* The logins.                                                             *)

\* Among one suffix more than there are players one is free.
LEMMA FreeLogin ==
  ASSUME NEW n \in Nat, NEW f, DOMAIN f \subseteq 0 .. n - 1
  PROVE  \E m \in 0 .. n : \A p \in DOMAIN f : f[p] # m
<1> SUFFICES ASSUME \A m \in 0 .. n : \E p \in DOMAIN f : f[p] = m
             PROVE  FALSE
  OBVIOUS
<1> DEFINE S == 0 .. n
           T == 0 .. n - 1
           g == [m \in S |-> CHOOSE p \in DOMAIN f : f[p] = m]
<1>1. \A m \in S : g[m] \in T /\ f[g[m]] = m
  OBVIOUS
<1>2. IsFiniteSet(S) /\ IsFiniteSet(T) /\ Cardinality(T) < Cardinality(S)
  <2>1. IsFiniteSet(S) /\ Cardinality(S) = n + 1
    BY FS_Interval
  <2>2. IsFiniteSet(T) /\ Cardinality(T) = n
    BY FS_Interval
  <2>3. QED
    BY <2>1, <2>2
<1>3. g \in [S -> T]
  BY <1>1
<1> HIDE DEF g, S, T
<1>4. \E x, y \in S : x # y /\ g[x] = g[y]
  BY <1>2, <1>3, FS_PigeonHole
<1>5. QED
  BY <1>1, <1>4

\* The login a player gets is nobody's.
LEMMA LoginIsFree ==
  ASSUME currentPlayerId \in Nat,
         DOMAIN playersLogins \subseteq 0 .. currentPlayerId - 1
  PROVE  \A p \in DOMAIN playersLogins : playersLogins[p] # LoginFor
<1> DEFINE Free(n) == \A p \in DOMAIN playersLogins : playersLogins[p] # n
           T == {n \in 0 .. currentPlayerId : Free(n)}
<1>1. T # {}
  BY FreeLogin
<1>2. T \in SUBSET Nat
  OBVIOUS
<1>3. PICK n \in T : \A m \in T : n <= m
  <2> HIDE DEF T
  <2>1. QED
    BY <1>1, <1>2, LeastNumber
<1>4. /\ n \in 0 .. currentPlayerId
      /\ \A p \in DOMAIN playersLogins : playersLogins[p] # n
      /\ \A m \in 0 .. n - 1 : \E p \in DOMAIN playersLogins : playersLogins[p] = m
  <2>1. \A m \in 0 .. n - 1 : m \in 0 .. currentPlayerId /\ ~(n <= m)
    OBVIOUS
  <2>2. QED
    BY <1>3, <2>1
<1>5. QED
  BY <1>4 DEF LoginFor

-----------------------------------------------------------------------------
(* The types.                                                              *)

GameRequests ==
  {<<"hostGame", All>>, <<"leaveGame", All>>} \cup {"joinGame"} \X Player
IceRequests == {"sendIceMsg"} \X (Nat \X Player)
Reconnects == {"reconnect"} \X PlayerId
Requests ==
  GameRequests \cup IceRequests \cup Reconnects \cup {<<"login", All>>}

ClientState ==
  [n : 0 .. MaxConnections, keep : BOOLEAN, session : BOOLEAN,
   lobby : BOOLEAN, leave : BOOLEAN, choose : BOOLEAN, known : BOOLEAN,
   playerId : PlayerId, adapterId : Nat, gameId : PlayerId \cup {NoGame},
   list : SUBSET Player, deaf : BOOLEAN, role : {"none", "host", "join"},
   peers : SUBSET Player]

QueueTypes ==
  /\ toServer \in [Connection -> Seq(Requests)]
  /\ toClient \in [Connection -> Seq(Commands)]

ClientTypes ==
  /\ client \in [Client -> ClientState]
  /\ troubles \in 0 .. MaxTroubles
  /\ iceMsgs \in 0 .. MaxIceMsgs
  /\ losses \in 0 .. MaxLosses

Typed == ServerTypes /\ QueueTypes /\ ClientTypes

LEMMA RequestForms ==
  ASSUME NEW m \in Requests
  PROVE  /\ m = <<m[1], m[2]>>
         /\ m[1] \in {"hostGame", "leaveGame", "joinGame", "sendIceMsg",
                      "reconnect", "login"}
         /\ m \in GameRequests <=> m[1] \in {"hostGame", "leaveGame", "joinGame"}
         /\ m \in IceRequests <=> m[1] = "sendIceMsg"
         /\ m \in Reconnects <=> m[1] = "reconnect"
         /\ m[1] \in {"hostGame", "leaveGame", "login"} => m[2] = All
         /\ m[1] = "joinGame" => m[2] \in Player
         /\ m[1] = "reconnect" => m[2] \in PlayerId
         /\ m[1] = "sendIceMsg" => m[2][1] \in Nat /\ m[2][2] \in Player
<1>1. CASE m \in GameRequests
  BY <1>1 DEF GameRequests, IceRequests, Reconnects
<1>2. CASE m \in IceRequests
  BY <1>2 DEF GameRequests, IceRequests, Reconnects
<1>3. CASE m \in Reconnects
  BY <1>3 DEF GameRequests, IceRequests, Reconnects
<1>4. CASE m = <<"login", All>>
  BY <1>4 DEF GameRequests, IceRequests, Reconnects
<1>5. QED
  BY <1>1, <1>2, <1>3, <1>4 DEF Requests

\* The players of a game are players.
LEMMA MemberTypes ==
  ASSUME OneGameEach, DOMAIN playersGames \subseteq Player
  PROVE  \A g \in DOMAIN games : games[g] \subseteq Player
  BY DEF OneGameEach

\* What the server's handlers send is commands.
LEMMA WithoutTypes ==
  ASSUME ServerTypes, OneGameEach, NEW p
  PROVE  /\ DOMAIN GamesWithout(p) = DOMAIN games \ {p}
         /\ DOMAIN GamesWithout(p) \subseteq Player
         /\ \A g \in DOMAIN GamesWithout(p) :
              GamesWithout(p)[g] = games[g] \ {p} /\ GamesWithout(p)[g] \subseteq Player
  BY WithoutPlayer, ZenonT(60) DEF ServerTypes

\* What joinGame makes the server send.
JoinAllCommands(p, g) ==
  LeaveCommands(p)
    \o (IF g \in DOMAIN GamesWithout(p) THEN JoinCommands(p, g) ELSE <<>>)

LEMMA HandlerSends ==
  ASSUME ServerTypes, OneGameEach, NEW k \in sockets, NEW p \in Player
  PROVE  /\ LeaveCommands(p) \in Seq(Addressed)
         /\ \A g : JoinAllCommands(p, g) \in Seq(Addressed)
         /\ DOMAIN games' \subseteq Player =>
              LeaveCommands(p) \o <<To(k, "hostGame", All), Gamelist(games')>>
                \in Seq(Addressed)
<1>1. LeaveCommands(p) \in Seq(Addressed)
  BY LeaveSends
<1>2. ASSUME NEW g PROVE JoinAllCommands(p, g) \in Seq(Addressed)
  <2>1. CASE g \notin DOMAIN GamesWithout(p)
    BY <1>1, <2>1, ConcatEmptySeq DEF JoinAllCommands
  <2>2. CASE g \in DOMAIN GamesWithout(p)
    <3>1. g \in Player /\ GamesWithout(p)[g] \subseteq Player
      BY <2>2, WithoutTypes
    <3>2. JoinCommands(p, g) \in Seq(Addressed)
      BY <3>1, JoinSends
    <3>3. JoinAllCommands(p, g) = LeaveCommands(p) \o JoinCommands(p, g)
      BY <2>2 DEF JoinAllCommands
    <3>4. QED
      BY <1>1, <3>2, <3>3, ConcatProperties
  <2>3. QED
    BY <2>1, <2>2
<1>3. ASSUME DOMAIN games' \subseteq Player
      PROVE  LeaveCommands(p) \o <<To(k, "hostGame", All), Gamelist(games')>>
               \in Seq(Addressed)
  <2>1. To(k, "hostGame", All) \in Addressed
    <3>1. k \in Address /\ <<"hostGame", All>> \in Commands
      BY DEF ServerTypes, Address, Commands
    <3>2. QED
      BY <3>1, ToTypes
  <2>2. Gamelist(games') \in Addressed
    <3>1. All \in Address /\ <<"onGamelist", DOMAIN games'>> \in Commands
      BY <1>3 DEF Address, Commands, Gamelists
    <3>2. QED
      BY <3>1, ToTypes DEF Gamelist
  <2>3. <<To(k, "hostGame", All), Gamelist(games')>> \in Seq(Addressed)
    BY <2>1, <2>2
  <2>4. QED
    BY <1>1, <2>3, ConcatProperties
<1>4. QED
  BY <1>1, <1>2, <1>3

LEMMA GamesTypes ==
  ASSUME ServerTypes, OneGameEach, PlayersOK, [Next]_vars
  PROVE  /\ DOMAIN games' \subseteq Player
         /\ DOMAIN playersGames' \subseteq Player
         /\ \A g \in DOMAIN games' : games'[g] \subseteq Player
<1>1. DOMAIN games' \subseteq Player /\ DOMAIN playersGames' \subseteq Player
  <2>1. CASE UNCHANGED <<games, playersGames>>
    BY <2>1 DEF ServerTypes
  <2>2. ASSUME NEW p \in Player,
               LeftMaps(p) \/ HostedMaps(p) \/ \E g : JoinedMaps(p, g)
        PROVE  DOMAIN games' \subseteq Player /\ DOMAIN playersGames' \subseteq Player
    BY <2>2 DEF LeftMaps, HostedMaps, JoinedMaps, ServerTypes
  <2>3. QED
    BY <2>1, <2>2, MapsStep
<1>2. OneGameEach'
  BY NextOneGame
<1>3. \A g \in DOMAIN games' : games'[g] \subseteq Player
  BY <1>1, <1>2 DEF OneGameEach
<1>4. QED
  BY <1>1, <1>3

\* The types of the maps a step may change besides the games.
SocketTypesNext ==
  /\ sockets' \subseteq Connection
  /\ \A p \in DOMAIN playerSockets' : playerSockets'[p] \in Connection
  /\ DOMAIN socketPlayers' \subseteq sockets'
  /\ DOMAIN playersLogins' \subseteq Player
  /\ live' \subseteq Connection

LEMMA NewConnection ==
  ASSUME ClientTypes, NEW c \in Client, Connect(c)
  PROVE  <<c, client[c].n + 1>> \in Connection /\ client[c].n + 1 \in 0 .. MaxConnections
<1>1. client[c].n \in 0 .. MaxConnections /\ client[c].n < MaxConnections
  BY DEF ClientTypes, ClientState, Connect
<1>2. client[c].n + 1 \in 1 .. MaxConnections
  BY <1>1, TestserverAssumption
<1>3. QED
  BY <1>2 DEF Connection

LEMMA HandlerSocketTypes ==
  ASSUME ServerTypes, PlayersOK, NEW k \in sockets, UNCHANGED live
  PROVE  /\ Login(k) => SocketTypesNext
         /\ \A p : Reconnect(k, p) => SocketTypesNext
         /\ \A sender, receiver : SendIceMsg(k, sender, receiver) => SocketTypesNext
         /\ Disconnected(k) => SocketTypesNext
<1>1. ASSUME Login(k) PROVE SocketTypesNext
  <2>1. currentPlayerId \in Player /\ k \in Connection
    BY <1>1, TestserverAssumption DEF Login, ServerTypes, Player
  <2>2. QED
    BY <1>1, <2>1 DEF Login, ServerTypes, SocketTypesNext, Put
<1>2. ASSUME NEW p, Reconnect(k, p) PROVE SocketTypesNext
  <2>1. UNCHANGED <<sockets, playersLogins, live>> /\ k \in Connection
    BY <1>2 DEF Reconnect, ServerTypes
  <2>2. CASE UNCHANGED <<playerSockets, socketPlayers>>
    BY <2>1, <2>2 DEF ServerTypes, SocketTypesNext
  <2>3. CASE /\ socketPlayers' = Put(Erase(socketPlayers, playerSockets[p]), k, p)
             /\ playerSockets' = Put(playerSockets, p, k)
    BY <2>1, <2>3 DEF ServerTypes, SocketTypesNext, Put, Erase
  <2>4. QED
    BY <1>2, <2>2, <2>3 DEF Reconnect
<1>3. ASSUME NEW sender, NEW receiver, SendIceMsg(k, sender, receiver)
      PROVE  SocketTypesNext
  BY <1>3 DEF SendIceMsg, ServerTypes, SocketTypesNext, Put
<1>4. ASSUME Disconnected(k) PROVE SocketTypesNext
  BY <1>4 DEF Disconnected, ServerTypes, SocketTypesNext, Erase
<1>5. QED
  BY <1>1, <1>2, <1>3, <1>4

LEMMA NextServerTypes ==
  ASSUME ServerTypes, ClientTypes, OneGameEach, PlayersOK, [Next]_vars
  PROVE  ServerTypes'
<1>1. /\ DOMAIN games' \subseteq Player
      /\ DOMAIN playersGames' \subseteq Player
      /\ \A g \in DOMAIN games' : games'[g] \subseteq Player
  BY GamesTypes
<1>2. PlayersOK'
  BY NextPlayers
<1>3. SocketTypesNext
  <2>1. CASE UNCHANGED <<sockets, playerSockets, socketPlayers, playersLogins>> /\
             live' \subseteq live
    BY <2>1 DEF ServerTypes, SocketTypesNext
  <2>2. ASSUME NEW c \in Client, Connect(c) PROVE SocketTypesNext
    <3>1. <<c, client[c].n + 1>> \in Connection
      BY <2>2, NewConnection
    <3>2. QED
      BY <2>2, <3>1 DEF Connect, ServerTypes, SocketTypesNext
  <2>3. ASSUME NEW c \in Client, Disconnect(c) \/ LoseConnection(c)
        PROVE  SocketTypesNext
    BY <2>1, <2>3 DEF Disconnect, LoseConnection, books
  <2>4. ASSUME NEW k \in Connection, ServerReads(k) PROVE SocketTypesNext
    <3>1. k \in sockets /\ UNCHANGED live
      BY <2>4 DEF ServerReads
    <3>2. ASSUME HostGame(k) \/ LeaveGame(k) \/ \E g : JoinGame(k, g)
          PROVE  SocketTypesNext
      BY <2>1, <3>1, <3>2 DEF HostGame, LeaveGame, JoinGame
    <3>3. QED
      BY <2>4, <3>1, <3>2, HandlerSocketTypes DEF ServerReads
  <2>5. ASSUME NEW k \in Connection, ServerNotices(k) PROVE SocketTypesNext
    BY <2>5, HandlerSocketTypes DEF ServerNotices
  <2>6. QED
    BY <2>1, <2>2, <2>3, <2>4, <2>5
       DEF Next, Click, HostGameClicked, LeaveClicked, GameClicked, OnIceMsg,
           ClientReads, vars, serverVars, books
<1>4. DOMAIN playerSockets' \subseteq Player
  <2>1. currentPlayerId' \in 0 .. MaxPlayers
    BY <1>2 DEF PlayersOK
  <2>2. \A i \in 0 .. MaxPlayers : \A n \in 0 .. i - 1 : n \in Player
    BY TestserverAssumption DEF Player
  <2>3. QED
    BY <1>2, <2>1, <2>2 DEF PlayersOK
<1>5. QED
  BY <1>1, <1>2, <1>3, <1>4 DEF ServerTypes, SocketTypesNext, PlayersOK

-----------------------------------------------------------------------------
(* The types of the queues.                                                *)

LEMMA RequestTypes ==
  ASSUME QueueTypes, NEW c \in Client, NEW method, NEW arg,
         <<method, arg>> \in Requests, Request(c, method, arg),
         live \subseteq Connection
  PROVE  toServer' \in [Connection -> Seq(Requests)]
<1>1. \A k \in Connection : Append(toServer[k], <<method, arg>>) \in Seq(Requests)
  BY AppendProperties DEF QueueTypes
<1>2. QED
  BY <1>1 DEF Request, QueueTypes, Connected

LEMMA NextRequestTypes ==
  ASSUME Typed, [Next]_vars
  PROVE  toServer' \in [Connection -> Seq(Requests)]
<1> DEFINE Goal == toServer' \in [Connection -> Seq(Requests)]
<1> USE DEF Typed
<1>1. CASE UNCHANGED toServer
  BY <1>1 DEF QueueTypes
<1>2. live \subseteq Connection
  BY DEF ServerTypes
<1>3. <<"hostGame", All>> \in Requests /\ <<"leaveGame", All>> \in Requests
  BY DEF Requests, GameRequests
<1>4. ASSUME NEW c \in Client, Connect(c) PROVE Goal
  <2>1. client[c].playerId \in PlayerId
    BY DEF ClientTypes, ClientState
  <2>2. << <<"reconnect", client[c].playerId>> >> \in Seq(Requests)
    <3>1. <<"reconnect", client[c].playerId>> \in Requests
      BY <2>1 DEF Requests, Reconnects
    <3>2. QED
      BY <3>1
  <2>3. << <<"login", All>> >> \in Seq(Requests)
    <3>1. <<"login", All>> \in Requests
      BY DEF Requests
    <3>2. QED
      BY <3>1
  <2>4. QED
    BY <1>4, <2>2, <2>3, NewConnection DEF Connect, QueueTypes
<1>5. ASSUME NEW c \in Client, LoseConnection(c) PROVE Goal
  <2>1. PICK kept \in 0 .. Len(toServer[Socket(c)]) :
          toServer' = [toServer EXCEPT ![Socket(c)] = SubSeq(@, 1, kept)]
    BY <1>5 DEF LoseConnection
  <2>2. Socket(c) \in Connection
    BY <1>2, <1>5 DEF LoseConnection, Connected
  <2>3. toServer[Socket(c)] \in Seq(Requests)
    BY <2>2 DEF QueueTypes
  <2>4. \A i \in 1 .. kept : toServer[Socket(c)][i] \in Requests
    BY <2>3
  <2>5. SubSeq(toServer[Socket(c)], 1, kept) \in Seq(Requests)
    BY <2>1, <2>3, <2>4, SubSeqProperties
  <2>6. QED
    BY <2>1, <2>5 DEF QueueTypes
<1>6. ASSUME NEW c \in Client, HostGameClicked(c) \/ LeaveClicked(c) PROVE Goal
  BY <1>2, <1>3, <1>6, RequestTypes DEF HostGameClicked, LeaveClicked
<1>7. ASSUME NEW c \in Client, NEW host \in client[c].list, GameClicked(c, host)
      PROVE  Goal
  <2>1. host \in Player
    BY DEF ClientTypes, ClientState
  <2>2. <<"joinGame", host>> \in Requests
    BY <2>1 DEF Requests, GameRequests
  <2>3. QED
    BY <1>2, <1>7, <2>2, RequestTypes DEF GameClicked
<1>8. ASSUME NEW c \in Client, NEW peer \in client[c].peers, OnIceMsg(c, peer)
      PROVE  Goal
  <2>1. peer \in Player /\ client[c].adapterId \in Nat
    BY DEF ClientTypes, ClientState
  <2>2. <<"sendIceMsg", <<client[c].adapterId, peer>>>> \in Requests
    BY <2>1 DEF Requests, IceRequests
  <2>3. QED
    BY <1>2, <1>8, <2>2, RequestTypes DEF OnIceMsg
<1>9. ASSUME NEW c \in Client, ClientReads(c) PROVE Goal
  <2>1. UNCHANGED toServer \/ Request(c, "leaveGame", All)
    BY <1>9 DEF ClientReads
  <2>2. QED
    BY <1>1, <1>2, <1>3, <2>1, RequestTypes
<1>10. ASSUME NEW k \in Connection, ServerReads(k) PROVE Goal
  <2>1. toServer[k] # <<>> /\ toServer' = [toServer EXCEPT ![k] = Tail(@)]
    BY <1>10 DEF ServerReads
  <2>2. Tail(toServer[k]) \in Seq(Requests)
    BY <2>1, HeadTailProperties DEF QueueTypes
  <2>3. QED
    BY <2>1, <2>2 DEF QueueTypes
<1>11. QED
  BY <1>1, <1>4, <1>5, <1>6, <1>7, <1>8, <1>9, <1>10
     DEF Next, Disconnect, ServerNotices, vars, serverVars

LEMMA LoginReplyTypes ==
  ASSUME ServerTypes, NEW k \in sockets, currentPlayerId < MaxPlayers
  PROVE  /\ <<"loggedIn", <<currentPlayerId, DOMAIN games>>>> \in LoginReplies
         /\ <<"loggedIn", <<currentPlayerId, DOMAIN games>>>> \in Commands
         /\ <<To(k, "loggedIn", <<currentPlayerId, DOMAIN games>>)>> \in Seq(Addressed)
<1>1. currentPlayerId \in Player
  BY TestserverAssumption DEF ServerTypes, Player
<1>2. DOMAIN games \in SUBSET Player
  BY DEF ServerTypes
<1>3. /\ <<"loggedIn", <<currentPlayerId, DOMAIN games>>>> \in LoginReplies
      /\ <<"loggedIn", <<currentPlayerId, DOMAIN games>>>> \in Commands
  BY <1>1, <1>2 DEF LoginReplies, Commands
<1>4. To(k, "loggedIn", <<currentPlayerId, DOMAIN games>>) \in Addressed
  <2>1. k \in Address
    BY DEF ServerTypes, Address
  <2>2. QED
    BY <1>3, <2>1, ToTypes
<1>5. QED
  BY <1>3, <1>4

LEMMA IceMsgTypes ==
  ASSUME ServerTypes, NEW receiver \in DOMAIN playerSockets,
         NEW p \in Player, NEW sender \in Nat
  PROVE  /\ <<"iceMsg", <<p, sender>>>> \in IceMsgs
         /\ <<"iceMsg", <<p, sender>>>> \in Commands
         /\ <<To(playerSockets[receiver], "iceMsg", <<p, sender>>)>> \in Seq(Addressed)
<1>1. /\ <<"iceMsg", <<p, sender>>>> \in IceMsgs
      /\ <<"iceMsg", <<p, sender>>>> \in Commands
  BY DEF IceMsgs, Commands
<1>2. To(playerSockets[receiver], "iceMsg", <<p, sender>>) \in Addressed
  <2>1. playerSockets[receiver] \in Address
    BY DEF ServerTypes, Address
  <2>2. QED
    BY <1>1, <2>1, ToTypes
<1>3. QED
  BY <1>1, <1>2

LEMMA HandlerCommandTypes ==
  ASSUME ServerTypes, OneGameEach, toClient \in [Connection -> Seq(Commands)],
         NEW k \in sockets
  PROVE  /\ Login(k) => toClient' \in [Connection -> Seq(Commands)]
         /\ HostGame(k) /\ DOMAIN games' \subseteq Player =>
              toClient' \in [Connection -> Seq(Commands)]
         /\ LeaveGame(k) => toClient' \in [Connection -> Seq(Commands)]
         /\ \A g : JoinGame(k, g) => toClient' \in [Connection -> Seq(Commands)]
         /\ \A sender \in Nat : \A receiver :
              (\A x \in DOMAIN socketPlayers' : socketPlayers'[x] \in Player)
                 /\ SendIceMsg(k, sender, receiver) =>
                toClient' \in [Connection -> Seq(Commands)]
         /\ Disconnected(k) => toClient' \in [Connection -> Seq(Commands)]
<1> DEFINE Goal == toClient' \in [Connection -> Seq(Commands)]
<1>1. \A cs \in Seq(Addressed) : SendAll(cs) => Goal
  BY SendAllQueues
<1>2. UNCHANGED toClient => Goal
  OBVIOUS
<1> HIDE DEF Goal
<1>3. \A x \in DOMAIN socketPlayers : socketPlayers[x] \in Player
  BY DEF ServerTypes
<1>4. ASSUME Login(k) PROVE Goal
  <2>1. CASE UNCHANGED toClient
    BY <1>2, <2>1
  <2>2. CASE SendAll(<<To(k, "loggedIn", <<currentPlayerId, DOMAIN games>>)>>)
    <3>1. currentPlayerId < MaxPlayers
      BY <1>4 DEF Login
    <3>2. QED
      BY <1>1, <2>2, <3>1, LoginReplyTypes
  <2>3. QED
    BY <1>4, <2>1, <2>2 DEF Login
<1>5. ASSUME HostGame(k), DOMAIN games' \subseteq Player PROVE Goal
  <2>1. CASE k \notin DOMAIN socketPlayers
    BY <1>2, <1>5, <2>1 DEF HostGame
  <2>2. CASE k \in DOMAIN socketPlayers
    <3>1. SendAll(LeaveCommands(socketPlayers[k])
                    \o <<To(k, "hostGame", All), Gamelist(games')>>)
      BY <1>5, <2>2 DEF HostGame
    <3>2. LeaveCommands(socketPlayers[k])
            \o <<To(k, "hostGame", All), Gamelist(games')>> \in Seq(Addressed)
      BY <1>3, <1>5, <2>2, HandlerSends
    <3>3. QED
      BY <1>1, <3>1, <3>2
  <2>3. QED
    BY <2>1, <2>2
<1>6. ASSUME LeaveGame(k) PROVE Goal
  BY <1>1, <1>2, <1>3, <1>6, HandlerSends DEF LeaveGame
<1>7. ASSUME NEW g, JoinGame(k, g) PROVE Goal
  <2>1. CASE k \notin DOMAIN socketPlayers
    BY <1>2, <1>7, <2>1 DEF JoinGame
  <2>2. CASE k \in DOMAIN socketPlayers
    <3>1. SendAll(JoinAllCommands(socketPlayers[k], g))
      BY <1>7, <2>2 DEF JoinGame, JoinAllCommands
    <3>2. QED
      BY <1>1, <1>3, <2>2, <3>1, HandlerSends
  <2>3. QED
    BY <2>1, <2>2
<1>8. ASSUME NEW sender \in Nat, NEW receiver,
             \A x \in DOMAIN socketPlayers' : socketPlayers'[x] \in Player,
             SendIceMsg(k, sender, receiver)
      PROVE  Goal
  <2>1. CASE receiver \notin DOMAIN playerSockets
    BY <1>2, <1>8, <2>1 DEF SendIceMsg
  <2>2. CASE receiver \in DOMAIN playerSockets
    <3>1. SendAll(<<To(playerSockets[receiver], "iceMsg", <<socketPlayers'[k], sender>>)>>)
      BY <1>8, <2>2 DEF SendIceMsg
    <3>2. k \in DOMAIN socketPlayers'
      BY <1>8, <2>2 DEF SendIceMsg, Put
    <3>3. <<To(playerSockets[receiver], "iceMsg", <<socketPlayers'[k], sender>>)>>
            \in Seq(Addressed)
      BY <1>8, <2>2, <3>2, IceMsgTypes
    <3>4. QED
      BY <1>1, <3>1, <3>3
  <2>3. QED
    BY <2>1, <2>2
<1>9. ASSUME Disconnected(k) PROVE Goal
  BY <1>1, <1>2, <1>3, <1>9, HandlerSends DEF Disconnected
<1>10. QED
  BY <1>4, <1>5, <1>6, <1>7, <1>8, <1>9 DEF Goal

LEMMA NextCommandTypes ==
  ASSUME Typed, OneGameEach, PlayersOK, [Next]_vars
  PROVE  toClient' \in [Connection -> Seq(Commands)]
<1> DEFINE Goal == toClient' \in [Connection -> Seq(Commands)]
<1> USE DEF Typed
<1>1. toClient \in [Connection -> Seq(Commands)]
  BY DEF QueueTypes
<1>2. CASE UNCHANGED toClient
  BY <1>1, <1>2
<1>3. ASSUME NEW c \in Client, Disconnect(c) \/ LoseConnection(c) PROVE Goal
  <2>1. toClient' = [toClient EXCEPT ![Socket(c)] = <<>>]
    BY <1>3 DEF Disconnect, LoseConnection
  <2>2. <<>> \in Seq(Commands)
    BY EmptySeq
  <2>3. QED
    BY <1>1, <2>1, <2>2
<1>4. ASSUME NEW c \in Client, ClientReads(c) PROVE Goal
  <2>1. /\ toClient' = [toClient EXCEPT ![Socket(c)] = Tail(@)]
        /\ toClient[Socket(c)] # <<>>
    BY <1>4 DEF ClientReads
  <2>2. Socket(c) \in Connection => Tail(toClient[Socket(c)]) \in Seq(Commands)
    BY <1>1, <2>1, HeadTailProperties
  <2>3. QED
    BY <1>1, <2>1, <2>2
<1>5. ASSUME NEW k \in Connection, ServerReads(k) PROVE Goal
  <2>1. k \in sockets /\ toServer[k] # <<>>
    BY <1>5 DEF ServerReads
  <2>2. Head(toServer[k]) \in Requests
    BY <2>1, HeadTailProperties DEF QueueTypes
  <2>3. DOMAIN games' \subseteq Player
    BY GamesTypes
  <2>4. \A x \in DOMAIN socketPlayers' : socketPlayers'[x] \in Player
    BY NextPlayers DEF PlayersOK
  <2>5. \/ Login(k)
        \/ \E p : Reconnect(k, p)
        \/ HostGame(k)
        \/ LeaveGame(k)
        \/ \E g : JoinGame(k, g)
        \/ \E sender \in Nat : \E receiver : SendIceMsg(k, sender, receiver)
    <3> DEFINE m == Head(toServer[k])
    <3>1. m[1] = "sendIceMsg" => m[2][1] \in Nat
      BY <2>2, RequestForms
    <3> HIDE DEF m
    <3>2. \/ m[1] = "login" /\ Login(k)
          \/ m[1] = "reconnect" /\ Reconnect(k, m[2])
          \/ m[1] = "hostGame" /\ HostGame(k)
          \/ m[1] = "leaveGame" /\ LeaveGame(k)
          \/ m[1] = "joinGame" /\ JoinGame(k, m[2])
          \/ m[1] = "sendIceMsg" /\ SendIceMsg(k, m[2][1], m[2][2])
      BY <1>5 DEF ServerReads, m
    <3>3. QED
      BY <3>1, <3>2
  <2>6. (\E p : Reconnect(k, p)) => UNCHANGED toClient
    BY DEF Reconnect
  <2>7. QED
    BY <1>1, <1>2, <2>1, <2>3, <2>4, <2>5, <2>6, HandlerCommandTypes
<1>6. ASSUME NEW k \in Connection, ServerNotices(k) PROVE Goal
  BY <1>1, <1>6, HandlerCommandTypes DEF ServerNotices
<1>7. QED
  BY <1>2, <1>3, <1>4, <1>5, <1>6
     DEF Next, Connect, Click, HostGameClicked, LeaveClicked, GameClicked,
         OnIceMsg, vars, serverVars

-----------------------------------------------------------------------------
(* The types of the clients.                                               *)

LEMMA ToldTypes ==
  ASSUME NEW r \in ClientState, NEW m \in Commands
  PROVE  Told(r, m[1], m[2]) \in ClientState
<1>1. Left(r) \in ClientState
  BY DEF Left, ClientState
<1>2. \A id \in Player, list \in SUBSET Player : LoggedIn(r, id, list) \in ClientState
  <2> SUFFICES ASSUME NEW id \in Player, NEW list \in SUBSET Player
               PROVE  LoggedIn(r, id, list) \in ClientState
    OBVIOUS
  <2>1. id \in PlayerId /\ id \in Nat
    BY TestserverAssumption DEF PlayerId, Player
  <2>2. QED
    BY <2>1 DEF LoggedIn, ClientState
<1>3. \A list \in SUBSET Player : [r EXCEPT !.list = list] \in ClientState
  BY DEF ClientState
<1>4. \A p \in Player :
        /\ [r EXCEPT !.role = "join", !.peers = @ \cup {p}] \in ClientState
        /\ [r EXCEPT !.peers = @ \cup {p}] \in ClientState
        /\ [r EXCEPT !.peers = @ \ {p}] \in ClientState
  BY DEF ClientState
<1>5. /\ m[1] = "onGamelist" => m[2] \in SUBSET Player
      /\ m[1] = "loggedIn" => m[2][1] \in Player /\ m[2][2] \in SUBSET Player
      /\ m[1] \in {"onHostLeft", "joinGame", "connectToPeer",
                   "disconnectFromPeer"} => m[2] \in Player
      /\ m[1] \in {"onGamelist", "loggedIn", "onHostLeft", "joinGame",
                   "connectToPeer", "disconnectFromPeer", "iceMsg", "hostGame"}
      /\ m[1] = "hostGame" => m[2] = All
  BY CommandForms
<1>6. CASE m[1] = "loggedIn"
  BY <1>2, <1>5, <1>6 DEF Told
<1>7. CASE m[1] = "onGamelist"
  BY <1>3, <1>5, <1>7 DEF Told
<1>8. CASE m[1] = "onHostLeft"
  BY <1>1, <1>8 DEF Told
<1>9. CASE m[1] \in {"joinGame", "connectToPeer", "disconnectFromPeer"}
  BY <1>4, <1>5, <1>9 DEF Told, SendToIceAdapter
<1>10. CASE m[1] \in {"hostGame", "iceMsg"}
  BY <1>5, <1>10 DEF Told, SendToIceAdapter
<1>11. QED
  BY <1>5, <1>6, <1>7, <1>8, <1>9, <1>10

LEMMA NextClientTypes ==
  ASSUME Typed, [Next]_vars PROVE ClientTypes'
<1> USE DEF Typed
<1>1. /\ client \in [Client -> ClientState]
      /\ \A c \in Client : client[c] \in ClientState
  BY DEF ClientTypes
<1>2. client' \in [Client -> ClientState]
  <2> DEFINE Goal == client' \in [Client -> ClientState]
  <2>1. UNCHANGED client => Goal
    BY <1>1
  <2>2. \A c \in Client, r \in ClientState : Change(c, r) => Goal
    BY <1>1 DEF Change
  <2> HIDE DEF Goal
  <2>3. ASSUME NEW c \in Client, Connect(c) PROVE Goal
    <3>1. client[c].n + 1 \in 0 .. MaxConnections
      BY <2>3, NewConnection
    <3>2. [client[c] EXCEPT !.n = @ + 1, !.keep = TRUE, !.session = TRUE] \in ClientState
      BY <1>1, <3>1, ZenonT(60) DEF ClientState
    <3>3. QED
      BY <2>2, <2>3, <3>2 DEF Connect
  <2>4. ASSUME NEW c \in Client, Disconnect(c) PROVE Goal
    <3>1. [client[c] EXCEPT !.keep = FALSE, !.session = FALSE, !.lobby = FALSE]
            \in ClientState
      BY <1>1, ZenonT(60) DEF ClientState
    <3>2. QED
      BY <2>2, <2>4, <3>1 DEF Disconnect
  <2>5. ASSUME NEW c \in Client, LoseConnection(c) PROVE Goal
    <3>1. \A b \in BOOLEAN : [client[c] EXCEPT !.deaf = b] \in ClientState
      BY <1>1 DEF ClientState
    <3>2. \A torn \in {FALSE, toClient[Socket(c)] # <<>>} :
            (client[c].deaf \/ torn) \in BOOLEAN
      BY Zenon
    <3>3. PICK torn \in {FALSE, toClient[Socket(c)] # <<>>} :
            Change(c, [client[c] EXCEPT !.deaf = @ \/ torn])
      BY <2>5 DEF LoseConnection
    <3>4. QED
      BY <2>2, <3>1, <3>2, <3>3
  <2>6. ASSUME NEW c \in Client, HostGameClicked(c) PROVE Goal
    <3>1. [client[c] EXCEPT !.leave = TRUE, !.choose = FALSE,
                            !.gameId = client[c].playerId] \in ClientState
      BY <1>1, ZenonT(60) DEF ClientState
    <3>2. QED
      BY <2>2, <2>6, <3>1 DEF HostGameClicked
  <2>7. ASSUME NEW c \in Client, LeaveClicked(c) PROVE Goal
    <3>1. Left(client[c]) \in ClientState
      BY <1>1, ZenonT(60) DEF Left, ClientState
    <3>2. QED
      BY <2>2, <2>7, <3>1 DEF LeaveClicked
  <2>8. ASSUME NEW c \in Client, NEW host \in client[c].list, GameClicked(c, host)
        PROVE  Goal
    <3>1. host \in PlayerId
      BY <1>1 DEF ClientState, PlayerId
    <3>2. [client[c] EXCEPT !.leave = TRUE, !.choose = FALSE, !.gameId = host]
            \in ClientState
      BY <1>1, <3>1, ZenonT(60) DEF ClientState
    <3>3. QED
      BY <2>2, <2>8, <3>2 DEF GameClicked
  <2>9. ASSUME NEW c \in Client, ClientReads(c) PROVE Goal
    <3>1. Socket(c) \in Connection /\ toClient[Socket(c)] # <<>>
      BY <2>9 DEF ClientReads, Connected, ServerTypes
    <3>2. Head(toClient[Socket(c)]) \in Commands
      BY <3>1, HeadTailProperties DEF QueueTypes
    <3>3. Told(client[c], Head(toClient[Socket(c)])[1], Head(toClient[Socket(c)])[2])
            \in ClientState
      BY <1>1, <3>2, ToldTypes
    <3>4. QED
      BY <2>1, <2>2, <2>9, <3>3 DEF ClientReads
  <2>10. ASSUME NEW c \in Client, NEW peer, OnIceMsg(c, peer) PROVE Goal
    BY <2>1, <2>10 DEF OnIceMsg
  <2>11. ASSUME NEW k \in Connection, ServerReads(k) \/ ServerNotices(k) PROVE Goal
    BY <2>1, <2>11 DEF ServerReads, ServerNotices
  <2>12. UNCHANGED vars => Goal
    BY <2>1 DEF vars
  <2>13. Goal
    BY <2>3, <2>4, <2>5, <2>6, <2>7, <2>8, <2>9, <2>10, <2>11, <2>12 DEF Next
  <2>14. QED
    BY <2>13 DEF Goal
<1>3. troubles' \in 0 .. MaxTroubles
  <2>1. troubles' = troubles \/ (troubles > 0 /\ troubles' = troubles - 1)
    BY DEF Next, Connect, Disconnect, LoseConnection, Click, HostGameClicked,
           LeaveClicked, GameClicked, OnIceMsg, ClientReads, ServerReads,
           ServerNotices, vars
  <2>2. QED
    BY <2>1, TestclientAssumption DEF ClientTypes
<1>4. iceMsgs' \in 0 .. MaxIceMsgs
  <2>1. iceMsgs' = iceMsgs \/ (iceMsgs > 0 /\ iceMsgs' = iceMsgs - 1)
    BY DEF Next, Connect, Disconnect, LoseConnection, Click, HostGameClicked,
           LeaveClicked, GameClicked, OnIceMsg, ClientReads, ServerReads,
           ServerNotices, vars
  <2>2. QED
    BY <2>1, TestclientAssumption DEF ClientTypes
<1>5. losses' \in 0 .. MaxLosses
  <2>1. losses' = losses \/ (losses > 0 /\ losses' = losses - 1)
    BY DEF Next, Connect, Disconnect, LoseConnection, Click, HostGameClicked,
           LeaveClicked, GameClicked, OnIceMsg, ClientReads, ServerReads,
           ServerNotices, vars
  <2>2. QED
    BY <2>1, TestclientAssumption DEF ClientTypes
<1>6. QED
  BY <1>2, <1>3, <1>4, <1>5 DEF ClientTypes

LEMMA NextTyped ==
  Typed /\ OneGameEach /\ PlayersOK /\ [Next]_vars => Typed'
  BY NextServerTypes, NextRequestTypes, NextCommandTypes, NextClientTypes
     DEF Typed, QueueTypes

LEMMA InitTyped == Init => Typed
<1> SUFFICES ASSUME Init PROVE Typed
  OBVIOUS
<1>1. ServerTypes
  BY TestserverAssumption DEF Init, ServerInit, ServerTypes
<1>2. QueueTypes
  <2>1. <<>> \in Seq(Requests) /\ <<>> \in Seq(Commands)
    BY EmptySeq
  <2>2. QED
    BY <2>1 DEF Init, ServerInit, QueueTypes
<1>3. client \in [Client -> ClientState]
  BY TestserverAssumption DEF Init, ClientState, PlayerId
<1>4. QED
  BY <1>1, <1>2, <1>3, TestclientAssumption DEF Init, Typed, ClientTypes

LEMMA TypedAlways == Spec => []Typed
  BY InitTyped, NextTyped, OneGameForEach, PlayersAlways, PTL DEF Spec

\* The maps, the clients and the counters have their types.
THEOREM LobbyTyping == Spec => []TypeOK
<1>1. Typed => TypeOK
  BY DEF Typed, ServerTypes, ClientTypes, ClientState, TypeOK
<1>2. QED
  BY <1>1, TypedAlways, PTL

-----------------------------------------------------------------------------
(* Connections and their clients.                                          *)

\* What the commands never change at a client.
LEMMA ToldKeeps ==
  ASSUME NEW r \in ClientState, NEW m \in Commands
  PROVE  LET t == Told(r, m[1], m[2])
         IN  /\ t.n = r.n /\ t.session = r.session /\ t.lobby = r.lobby
             /\ t.deaf = r.deaf
             /\ m[1] # "loggedIn" => /\ t.known = r.known
                                     /\ t.playerId = r.playerId
                                     /\ t.adapterId = r.adapterId
             /\ m[1] \notin {"loggedIn", "onGamelist"} => t.list = r.list
             /\ m[1] # "onHostLeft" => t.gameId = r.gameId
<1> DEFINE t == Told(r, m[1], m[2])
           Goal == /\ t.n = r.n /\ t.session = r.session /\ t.lobby = r.lobby
                   /\ t.deaf = r.deaf
                   /\ m[1] # "loggedIn" => /\ t.known = r.known
                                           /\ t.playerId = r.playerId
                                           /\ t.adapterId = r.adapterId
                   /\ m[1] \notin {"loggedIn", "onGamelist"} => t.list = r.list
                   /\ m[1] # "onHostLeft" => t.gameId = r.gameId
<1>1. /\ m[1] \in {"onGamelist", "loggedIn", "onHostLeft", "joinGame",
                   "connectToPeer", "disconnectFromPeer", "iceMsg", "hostGame"}
      /\ m[1] = "hostGame" => m[2] = All
  BY CommandForms
<1>2. CASE m[1] = "loggedIn"
  BY <1>2 DEF Told, LoggedIn, ClientState
<1>3. CASE m[1] = "onGamelist"
  BY <1>3 DEF Told, ClientState
<1>4. CASE m[1] = "onHostLeft"
  BY <1>4 DEF Told, Left, ClientState
<1>5. CASE m[1] \in {"joinGame", "connectToPeer", "disconnectFromPeer"}
  BY <1>5 DEF Told, SendToIceAdapter, ClientState
<1>6. CASE m[1] \in {"hostGame", "iceMsg"}
  <2>1. t = r
    BY <1>1, <1>6 DEF Told, SendToIceAdapter
  <2>2. Goal
    BY <2>1, Zenon
  <2>3. QED
    BY <2>2
<1>7. QED
  BY <1>1, <1>2, <1>3, <1>4, <1>5, <1>6

\* What a client reads is a command.
LEMMA ReadsCommand ==
  ASSUME Typed, NEW c \in Client, ClientReads(c)
  PROVE  /\ Socket(c) \in Connection /\ Socket(c) \in live
         /\ toClient[Socket(c)] \in Seq(Commands) /\ toClient[Socket(c)] # <<>>
         /\ Head(toClient[Socket(c)]) \in Commands
         /\ Tail(toClient[Socket(c)]) \in Seq(Commands)
<1>1. /\ Socket(c) \in Connection /\ Socket(c) \in live
      /\ toClient[Socket(c)] # <<>>
  BY DEF ClientReads, Connected, Typed, ServerTypes
<1>2. toClient[Socket(c)] \in Seq(Commands)
  BY <1>1 DEF Typed, QueueTypes
<1>3. QED
  BY <1>1, <1>2, HeadTailProperties

\* What a step of client c makes of its state.
Moves(c) ==
  \/ /\ Connect(c)
     /\ client'[c] = [client[c] EXCEPT !.n = @ + 1, !.keep = TRUE, !.session = TRUE]
  \/ /\ Disconnect(c)
     /\ client'[c] = [client[c] EXCEPT !.keep = FALSE, !.session = FALSE,
                                       !.lobby = FALSE]
  \/ /\ LoseConnection(c)
     /\ \E torn \in {FALSE, toClient[Socket(c)] # <<>>} :
          client'[c] = [client[c] EXCEPT !.deaf = @ \/ torn]
  \/ /\ HostGameClicked(c)
     /\ client'[c] = [client[c] EXCEPT !.leave = TRUE, !.choose = FALSE,
                                       !.gameId = client[c].playerId]
  \/ /\ LeaveClicked(c)
     /\ client'[c] = Left(client[c])
  \/ \E host \in client[c].list :
       /\ GameClicked(c, host)
       /\ client'[c] = [client[c] EXCEPT !.leave = TRUE, !.choose = FALSE,
                                         !.gameId = host]
  \/ /\ ClientReads(c)
     /\ ~client[c].deaf
     /\ client'[c] = Told(client[c], Head(toClient[Socket(c)])[1],
                                     Head(toClient[Socket(c)])[2])

LEMMA ClientsStep ==
  ASSUME Typed, [Next]_vars, NEW c \in Client
  PROVE  Moves(c) \/ client'[c] = client[c]
<1> DEFINE Same == client'[c] = client[c]
           Goal == Moves(c) \/ Same
<1>1. DOMAIN client = Client
  BY DEF Typed, ClientTypes
<1>2. \A d, r : Change(d, r) => IF d = c THEN client'[c] = r ELSE Same
  BY <1>1 DEF Change
<1> HIDE DEF Same
<1>3. ASSUME NEW d \in Client, Connect(d) PROVE Goal
  <2>1. CASE d = c
    <3>1. client'[c] = [client[c] EXCEPT !.n = @ + 1, !.keep = TRUE, !.session = TRUE]
      BY <1>2, <1>3, <2>1 DEF Connect
    <3>2. QED
      BY <1>3, <2>1, <3>1, Zenon DEF Moves
  <2>2. CASE d # c
    BY <1>2, <1>3, <2>2 DEF Connect
  <2>3. QED
    BY <2>1, <2>2
<1>4. ASSUME NEW d \in Client, Disconnect(d) PROVE Goal
  <2>1. CASE d = c
    <3>1. client'[c] = [client[c] EXCEPT !.keep = FALSE, !.session = FALSE,
                                       !.lobby = FALSE]
      BY <1>2, <1>4, <2>1 DEF Disconnect
    <3>2. QED
      BY <1>4, <2>1, <3>1, Zenon DEF Moves
  <2>2. CASE d # c
    BY <1>2, <1>4, <2>2 DEF Disconnect
  <2>3. QED
    BY <2>1, <2>2
<1>5. ASSUME NEW d \in Client, LoseConnection(d) PROVE Goal
  <2>1. PICK torn \in {FALSE, toClient[Socket(d)] # <<>>} :
          Change(d, [client[d] EXCEPT !.deaf = @ \/ torn])
    BY <1>5 DEF LoseConnection
  <2>2. CASE d = c
    <3>1. client'[c] = [client[c] EXCEPT !.deaf = @ \/ torn]
      BY <1>2, <2>1, <2>2
    <3>2. QED
      BY <1>5, <2>2, <3>1, Zenon DEF Moves
  <2>3. CASE d # c
    BY <1>2, <2>1, <2>3
  <2>4. QED
    BY <2>2, <2>3
<1>6. ASSUME NEW d \in Client, HostGameClicked(d) PROVE Goal
  <2>1. CASE d = c
    <3>1. client'[c] = [client[c] EXCEPT !.leave = TRUE, !.choose = FALSE,
                                       !.gameId = client[c].playerId]
      BY <1>2, <1>6, <2>1 DEF HostGameClicked
    <3>2. QED
      BY <1>6, <2>1, <3>1, Zenon DEF Moves
  <2>2. CASE d # c
    BY <1>2, <1>6, <2>2 DEF HostGameClicked
  <2>3. QED
    BY <2>1, <2>2
<1>7. ASSUME NEW d \in Client, LeaveClicked(d) PROVE Goal
  <2>1. CASE d = c
    <3>1. client'[c] = Left(client[c])
      BY <1>2, <1>7, <2>1 DEF LeaveClicked
    <3>2. QED
      BY <1>7, <2>1, <3>1, Zenon DEF Moves
  <2>2. CASE d # c
    BY <1>2, <1>7, <2>2 DEF LeaveClicked
  <2>3. QED
    BY <2>1, <2>2
<1>8. ASSUME NEW d \in Client, NEW host \in client[d].list, GameClicked(d, host)
      PROVE  Goal
  <2>1. CASE d = c
    <3>1. client'[c] = [client[c] EXCEPT !.leave = TRUE, !.choose = FALSE,
                                       !.gameId = host]
      BY <1>2, <1>8, <2>1 DEF GameClicked
    <3>2. QED
      BY <1>8, <2>1, <3>1, Zenon DEF Moves
  <2>2. CASE d # c
    BY <1>2, <1>8, <2>2 DEF GameClicked
  <2>3. QED
    BY <2>1, <2>2
<1>9. ASSUME NEW d \in Client, ClientReads(d) PROVE Goal
  <2>1. CASE client[d].deaf
    BY <1>9, <2>1 DEF ClientReads, Same
  <2>2. CASE ~client[d].deaf
    <3>1. Change(d, Told(client[d], Head(toClient[Socket(d)])[1],
                                    Head(toClient[Socket(d)])[2]))
      BY <1>9, <2>2 DEF ClientReads
    <3>2. QED
      <4>1. CASE d = c
        <5>1. client'[c] = Told(client[c], Head(toClient[Socket(c)])[1],
                                           Head(toClient[Socket(c)])[2])
          BY <1>2, <3>1, <4>1
        <5>2. QED
          BY <1>9, <2>2, <4>1, <5>1, Zenon DEF Moves
      <4>2. CASE d # c
        BY <1>2, <3>1, <4>2
      <4>3. QED
        BY <4>1, <4>2
  <2>3. QED
    BY <2>1, <2>2
<1>10. ASSUME UNCHANGED client PROVE Goal
  BY <1>10 DEF Same
<1> HIDE DEF Goal
<1>11. ASSUME NEW d \in Client, NEW peer, OnIceMsg(d, peer) PROVE Goal
  BY <1>10, <1>11 DEF OnIceMsg
<1>12. ASSUME NEW k \in Connection, ServerReads(k) \/ ServerNotices(k) PROVE Goal
  BY <1>10, <1>12 DEF ServerReads, ServerNotices
<1>13. UNCHANGED vars => Goal
  BY <1>10 DEF vars
<1>14. Goal
  BY <1>3, <1>4, <1>5, <1>6, <1>7, <1>8, <1>9, <1>11, <1>12, <1>13 DEF Next
<1>15. QED
  BY <1>14 DEF Goal, Same

\* What a step leaves of a client's connections.
LEMMA MovesKeep ==
  ASSUME Typed, [Next]_vars, NEW c \in Client
  PROVE  /\ client'[c].n = client[c].n \/ (Connect(c) /\ client'[c].n = client[c].n + 1)
         /\ client'[c].session # client[c].session =>
              \/ Connect(c)
              \/ Disconnect(c) /\ client'[c].session = FALSE
         /\ client'[c].lobby => client[c].lobby
         /\ client'[c].deaf # client[c].deaf => LoseConnection(c)
         /\ client'[c].known # client[c].known =>
              /\ ClientReads(c) /\ ~client[c].deaf
              /\ Head(toClient[Socket(c)])[1] = "loggedIn"
<1> DEFINE s == client[c]
           t == client'[c]
           Goal == /\ t.n = s.n \/ (Connect(c) /\ t.n = s.n + 1)
                   /\ t.session # s.session =>
                        \/ Connect(c)
                        \/ Disconnect(c) /\ t.session = FALSE
                   /\ t.lobby => s.lobby
                   /\ t.deaf # s.deaf => LoseConnection(c)
                   /\ t.known # s.known =>
                        /\ ClientReads(c) /\ ~client[c].deaf
                        /\ Head(toClient[Socket(c)])[1] = "loggedIn"
<1> SUFFICES Goal
  OBVIOUS
<1>1. s \in ClientState
  BY DEF Typed, ClientTypes
<1>9. Moves(c) \/ t = s
  BY ClientsStep
<1>11. Moves(c) =>
         \/ Connect(c) /\ t = [s EXCEPT !.n = @ + 1, !.keep = TRUE, !.session = TRUE]
         \/ Disconnect(c) /\ t = [s EXCEPT !.keep = FALSE, !.session = FALSE,
                                           !.lobby = FALSE]
         \/ LoseConnection(c) /\ \E torn \in {FALSE, toClient[Socket(c)] # <<>>} :
                                   t = [s EXCEPT !.deaf = @ \/ torn]
         \/ \E g : t = [s EXCEPT !.leave = TRUE, !.choose = FALSE, !.gameId = g]
         \/ t = Left(s)
         \/ /\ ClientReads(c) /\ ~client[c].deaf
            /\ t = Told(s, Head(toClient[Socket(c)])[1], Head(toClient[Socket(c)])[2])
  BY DEF Moves
<1> HIDE DEF s, t
<1>2. CASE t = s
  BY <1>2
<1>3. CASE Connect(c) /\ t = [s EXCEPT !.n = @ + 1, !.keep = TRUE, !.session = TRUE]
  BY <1>1, <1>3 DEF ClientState
<1>4. CASE Disconnect(c) /\ t = [s EXCEPT !.keep = FALSE, !.session = FALSE,
                                          !.lobby = FALSE]
  BY <1>1, <1>4 DEF ClientState
<1>5. CASE LoseConnection(c) /\ \E torn \in {FALSE, toClient[Socket(c)] # <<>>} :
                                  t = [s EXCEPT !.deaf = @ \/ torn]
  <2>1. PICK b : t = [s EXCEPT !.deaf = b]
    BY <1>5
  <2>2. QED
    BY <1>1, <1>5, <2>1 DEF ClientState
<1>6. CASE \E g : t = [s EXCEPT !.leave = TRUE, !.choose = FALSE, !.gameId = g]
  BY <1>1, <1>6 DEF ClientState
<1>7. CASE t = Left(s)
  BY <1>1, <1>7 DEF ClientState, Left
<1>8. CASE /\ ClientReads(c) /\ ~client[c].deaf
           /\ t = Told(s, Head(toClient[Socket(c)])[1], Head(toClient[Socket(c)])[2])
  <2> DEFINE m == Head(toClient[Socket(c)])
  <2>1. m \in Commands
    BY <1>8, ReadsCommand
  <2> HIDE DEF m
  <2>2. t = Told(s, m[1], m[2])
    BY <1>8 DEF m
  <2>3. /\ t.n = s.n /\ t.session = s.session /\ t.lobby = s.lobby
        /\ t.deaf = s.deaf
        /\ m[1] # "loggedIn" => t.known = s.known
    BY <1>1, <2>1, <2>2, ToldKeeps
  <2>4. QED
    BY <1>8, <2>3 DEF m
<1>12. QED
  BY <1>2, <1>3, <1>4, <1>5, <1>6, <1>7, <1>8, <1>9, <1>11

\* Only a client's newest connection is alive, and the server takes it as open.
Sessions ==
  /\ live \subseteq sockets
  /\ \A k \in Connection : k \notin live => toClient[k] = <<>>
  /\ \A c \in Client, m \in 1 .. MaxConnections :
       /\ <<c, m>> \in live => client[c].n = m
       /\ <<c, m>> \in sockets => m <= client[c].n
  /\ \A c \in Client : client[c].n = 0 => ~client[c].session

\* What becomes of the connections.
LEMMA ConnectionsStep ==
  ASSUME Typed, Sessions, [Next]_vars
  PROVE  \/ \E c \in Client :
              /\ Connect(c)
              /\ live' = live \cup {<<c, client[c].n + 1>>}
              /\ sockets' = sockets \cup {<<c, client[c].n + 1>>}
         \/ \E c \in Client : /\ Disconnect(c) \/ LoseConnection(c)
                              /\ live' = live \ {Socket(c)}
                              /\ sockets' = sockets
         \/ \E k \in Connection : /\ ServerNotices(k) /\ k \notin live
                                  /\ live' = live
                                  /\ sockets' = sockets \ {k}
         \/ UNCHANGED <<live, sockets>>
<1> DEFINE Goal ==
         \/ \E c \in Client :
              /\ Connect(c)
              /\ live' = live \cup {<<c, client[c].n + 1>>}
              /\ sockets' = sockets \cup {<<c, client[c].n + 1>>}
         \/ \E c \in Client : /\ Disconnect(c) \/ LoseConnection(c)
                              /\ live' = live \ {Socket(c)}
                              /\ sockets' = sockets
         \/ \E k \in Connection : /\ ServerNotices(k) /\ k \notin live
                                  /\ live' = live
                                  /\ sockets' = sockets \ {k}
         \/ UNCHANGED <<live, sockets>>
<1>1. ASSUME NEW c \in Client, Connect(c) PROVE Goal
  BY <1>1 DEF Connect
<1>2. ASSUME NEW c \in Client, Disconnect(c) \/ LoseConnection(c) PROVE Goal
  BY <1>2 DEF Disconnect, LoseConnection, books
<1>3. ASSUME NEW k \in Connection, ServerNotices(k) PROVE Goal
  BY <1>3 DEF ServerNotices, Disconnected
<1>4. ASSUME UNCHANGED <<live, sockets>> PROVE Goal
  BY <1>4
<1> HIDE DEF Goal
<1>5. ASSUME NEW k \in Connection, ServerReads(k) PROVE Goal
  BY <1>4, <1>5 DEF ServerReads, Login, Reconnect, HostGame, LeaveGame, JoinGame,
                    SendIceMsg
<1>6. ASSUME NEW c \in Client,
             \/ HostGameClicked(c) \/ LeaveClicked(c) \/ ClientReads(c)
             \/ \E host : GameClicked(c, host)
             \/ \E peer : OnIceMsg(c, peer)
      PROVE  Goal
  BY <1>4, <1>6 DEF HostGameClicked, LeaveClicked, ClientReads, GameClicked,
                    OnIceMsg, Click, books
<1>7. UNCHANGED vars => Goal
  BY <1>4 DEF vars, serverVars, books
<1>8. Goal
  BY <1>1, <1>2, <1>3, <1>5, <1>6, <1>7 DEF Next
<1>9. QED
  BY <1>8 DEF Goal

LEMMA NextSessions ==
  ASSUME Typed, Typed', Sessions, [Next]_vars
  PROVE  Sessions'
<1>1. /\ live' \subseteq sockets'
      /\ \A c \in Client, m \in 1 .. MaxConnections :
           /\ <<c, m>> \in live' => client'[c].n = m
           /\ <<c, m>> \in sockets' => m <= client'[c].n
  <2>1. \A c \in Client : client[c].n \in Nat
    BY TestserverAssumption DEF Typed, ClientTypes, ClientState
  <2>2. ASSUME NEW d \in Client, Connect(d),
               live' = live \cup {<<d, client[d].n + 1>>},
               sockets' = sockets \cup {<<d, client[d].n + 1>>}
        PROVE  /\ live' \subseteq sockets'
               /\ \A c \in Client, m \in 1 .. MaxConnections :
                    /\ <<c, m>> \in live' => client'[c].n = m
                    /\ <<c, m>> \in sockets' => m <= client'[c].n
    <3>1. live' \subseteq sockets'
      BY <2>2 DEF Sessions
    <3>2. ~Connected(d)
      BY <2>2 DEF Connect
    <3>3. \A c \in Client : client'[c].n = IF c = d THEN client[c].n + 1 ELSE client[c].n
      <4>1. /\ DOMAIN client = Client
            /\ client' = [client EXCEPT ![d] = [client[d] EXCEPT !.n = @ + 1, !.keep = TRUE,
                                                                 !.session = TRUE]]
        BY <2>2 DEF Connect, Change, Typed, ClientTypes
      <4>2. client[d] \in ClientState
        BY DEF Typed, ClientTypes
      <4>3. QED
        BY <4>1, <4>2 DEF ClientState
    <3>4. ASSUME NEW c \in Client, NEW m \in 1 .. MaxConnections
          PROVE  /\ <<c, m>> \in live' => client'[c].n = m
                 /\ <<c, m>> \in sockets' => m <= client'[c].n
      <4>1. CASE c = d
        <5>1. <<c, m>> \in live => FALSE
          BY <3>2, <4>1 DEF Sessions, Connected, Socket
        <5>2. <<c, m>> \in sockets => m <= client[c].n
          BY DEF Sessions
        <5>3. QED
          BY <2>1, <2>2, <3>3, <4>1, <5>1, <5>2
      <4>2. CASE c # d
        BY <2>2, <3>3, <4>2 DEF Sessions
      <4>3. QED
        BY <4>1, <4>2
    <3>5. QED
      BY <3>1, <3>4
  <2>3. ASSUME live' \subseteq live, sockets' \subseteq sockets,
               \A c \in Client : ~Connect(c),
               \A k \in sockets \ sockets' : k \notin live
        PROVE  /\ live' \subseteq sockets'
               /\ \A c \in Client, m \in 1 .. MaxConnections :
                    /\ <<c, m>> \in live' => client'[c].n = m
                    /\ <<c, m>> \in sockets' => m <= client'[c].n
    <3>1. \A c \in Client : client'[c].n = client[c].n
      BY <2>3, MovesKeep
    <3>2. QED
      BY <2>3, <3>1 DEF Sessions
  <2>4. CASE \E d \in Client : Connect(d)
    <3>1. PICK d \in Client : Connect(d)
      BY <2>4
    <3>2. /\ live' = live \cup {<<d, client[d].n + 1>>}
          /\ sockets' = sockets \cup {<<d, client[d].n + 1>>}
      BY <3>1 DEF Connect
    <3>3. QED
      BY <2>2, <3>1, <3>2
  <2>5. CASE \A d \in Client : ~Connect(d)
    <3>1. /\ live' \subseteq live /\ sockets' \subseteq sockets
          /\ \A k \in sockets \ sockets' : k \notin live
      BY <2>5, ConnectionsStep
    <3>2. QED
      BY <2>3, <2>5, <3>1
  <2>6. QED
    BY <2>4, <2>5
<1>2. \A k \in Connection : k \notin live' => toClient'[k] = <<>>
  <2>1. DOMAIN toClient = Connection
    BY DEF Typed, QueueTypes
  <2>2. CASE UNCHANGED toClient /\ live \subseteq live'
    BY <2>2 DEF Sessions
  <2>3. ASSUME NEW c \in Client, Disconnect(c) \/ LoseConnection(c)
        PROVE  \A k \in Connection : k \notin live' => toClient'[k] = <<>>
    <3>1. /\ live' = live \ {Socket(c)}
          /\ toClient' = [toClient EXCEPT ![Socket(c)] = <<>>]
      BY <2>3 DEF Disconnect, LoseConnection
    <3>2. QED
      BY <2>1, <3>1 DEF Sessions
  <2>4. ASSUME NEW c \in Client, ClientReads(c)
        PROVE  \A k \in Connection : k \notin live' => toClient'[k] = <<>>
    <3>1. /\ live' = live /\ Socket(c) \in live
          /\ toClient' = [toClient EXCEPT ![Socket(c)] = Tail(@)]
      BY <2>4 DEF ClientReads, Connected
    <3>2. QED
      BY <2>1, <3>1 DEF Sessions
  <2>5. (\E cs : SendAll(cs)) /\ UNCHANGED live =>
          \A k \in Connection : k \notin live' => toClient'[k] = <<>>
    BY DEF SendAll, Sessions
  <2>6. ASSUME NEW k \in Connection, ServerReads(k) \/ ServerNotices(k)
        PROVE  UNCHANGED live /\ (UNCHANGED toClient \/ \E cs : SendAll(cs))
    BY <2>6 DEF ServerReads, ServerNotices, Login, Reconnect, HostGame, LeaveGame,
                JoinGame, SendIceMsg, Disconnected
  <2>7. ASSUME NEW c \in Client,
               \/ HostGameClicked(c) \/ LeaveClicked(c) \/ Connect(c)
               \/ \E host : GameClicked(c, host)
               \/ \E peer : OnIceMsg(c, peer)
        PROVE  UNCHANGED toClient /\ live \subseteq live'
    BY <2>7 DEF HostGameClicked, LeaveClicked, Connect, GameClicked, OnIceMsg, Click
  <2>8. UNCHANGED vars => UNCHANGED toClient /\ live \subseteq live'
    BY DEF vars, serverVars
  <2>9. QED
    BY <2>2, <2>3, <2>4, <2>5, <2>6, <2>7, <2>8 DEF Next
<1>3. \A c \in Client : client'[c].n = 0 => ~client'[c].session
  <2> SUFFICES ASSUME NEW c \in Client, client'[c].n = 0 PROVE ~client'[c].session
    OBVIOUS
  <2>1. client[c].n \in Nat
    BY TestserverAssumption DEF Typed, ClientTypes, ClientState
  <2>2. client[c].n = 0 /\ ~client[c].session
    <3>1. client'[c].n = client[c].n \/ client'[c].n = client[c].n + 1
      BY MovesKeep
    <3>2. client[c].n = 0
      BY <2>1, <3>1
    <3>3. QED
      BY <3>2 DEF Sessions
  <2>3. Connect(c) => client'[c].n = client[c].n + 1
    <3> SUFFICES ASSUME Connect(c) PROVE client'[c].n = client[c].n + 1
      OBVIOUS
    <3>1. /\ DOMAIN client = Client
          /\ client' = [client EXCEPT ![c] = [client[c] EXCEPT !.n = @ + 1, !.keep = TRUE,
                                                               !.session = TRUE]]
      BY DEF Connect, Change, Typed, ClientTypes
    <3>2. client[c] \in ClientState
      BY DEF Typed, ClientTypes
    <3>3. QED
      BY <3>1, <3>2 DEF ClientState
  <2>4. ~Connect(c)
    BY <2>2, <2>3
  <2>5. client'[c].session # client[c].session => client'[c].session = FALSE
    BY <2>4, MovesKeep
  <2>6. QED
    BY <2>2, <2>5, Zenon
<1>4. QED
  BY <1>1, <1>2, <1>3 DEF Sessions

LEMMA SessionsAlways == Spec => []Sessions
<1>1. Init => Sessions
  BY TestserverAssumption DEF Init, ServerInit, Sessions
<1>2. Typed /\ Typed' /\ Sessions /\ [Next]_vars => Sessions'
  BY NextSessions
<1>3. QED
  BY <1>1, <1>2, TypedAlways, PTL DEF Spec

-----------------------------------------------------------------------------
(* What a step makes of the requests of a connection.                      *)

\* Client c asks for m: a click, an ICE message or the game's end.
Asks(c, m) ==
  \/ HostGameClicked(c) /\ m = <<"hostGame", All>>
  \/ LeaveClicked(c) /\ m = <<"leaveGame", All>>
  \/ \E host \in client[c].list : GameClicked(c, host) /\ m = <<"joinGame", host>>
  \/ \E peer \in client[c].peers :
       OnIceMsg(c, peer) /\ m = <<"sendIceMsg", <<client[c].adapterId, peer>>>>
  \/ /\ ClientReads(c) /\ ~client[c].deaf
     /\ Head(toClient[Socket(c)])[1] = "onHostLeft"
     /\ Head(toClient[Socket(c)])[2] = client[c].gameId
     /\ m = <<"leaveGame", All>>

FirstRequest(c) ==
  IF client[c].session THEN <<"reconnect", client[c].playerId>>
                       ELSE <<"login", All>>

RequestsMove(k) ==
  \/ toServer'[k] = toServer[k]
  \/ \E c \in Client : /\ Connect(c) /\ k = <<c, client[c].n + 1>>
                       /\ toServer'[k] = <<FirstRequest(c)>>
  \/ \E c \in Client : /\ LoseConnection(c) /\ k = Socket(c)
                       /\ \E kept \in 0 .. Len(toServer[k]) :
                            toServer'[k] = SubSeq(toServer[k], 1, kept)
  \/ \E c \in Client : \E m \in GameRequests \cup IceRequests :
       /\ Asks(c, m) /\ k = Socket(c) /\ k \in live
       /\ toServer'[k] = Append(toServer[k], m)
  \/ ServerReads(k) /\ toServer[k] # <<>> /\ toServer'[k] = Tail(toServer[k])

LEMMA AskTypes ==
  ASSUME Typed, NEW c \in Client, NEW m, Asks(c, m)
  PROVE  m \in GameRequests \cup IceRequests
<1>1. /\ client[c].list \subseteq Player /\ client[c].peers \subseteq Player
      /\ client[c].adapterId \in Nat
  BY DEF Typed, ClientTypes, ClientState
<1>2. QED
  BY <1>1 DEF Asks, GameRequests, IceRequests

LEMMA RequestsStep ==
  ASSUME Typed, [Next]_vars, NEW k \in Connection
  PROVE  RequestsMove(k)
<1>1. DOMAIN toServer = Connection
  BY DEF Typed, QueueTypes
<1>2. ASSUME NEW c \in Client, NEW method, NEW arg, Asks(c, <<method, arg>>),
             Request(c, method, arg)
      PROVE  RequestsMove(k)
  <2>1. <<method, arg>> \in GameRequests \cup IceRequests
    BY <1>2, AskTypes
  <2>2. CASE k = Socket(c) /\ k \in live
    <3>1. toServer'[k] = Append(toServer[k], <<method, arg>>)
      BY <1>1, <1>2, <2>2 DEF Request, Connected
    <3>2. QED
      BY <1>2, <2>1, <2>2, <3>1, Zenon DEF RequestsMove
  <2>3. CASE ~(k = Socket(c) /\ k \in live)
    BY <1>1, <1>2, <2>3 DEF Request, Connected, RequestsMove
  <2>4. QED
    BY <2>2, <2>3
<1>3. ASSUME UNCHANGED toServer PROVE RequestsMove(k)
  BY <1>3 DEF RequestsMove
<1>4. ASSUME NEW c \in Client, Connect(c) PROVE RequestsMove(k)
  <2>1. toServer' = [toServer EXCEPT ![<<c, client[c].n + 1>>] = <<FirstRequest(c)>>]
    BY <1>4 DEF Connect, FirstRequest
  <2>2. CASE k = <<c, client[c].n + 1>>
    <3>1. toServer'[k] = <<FirstRequest(c)>>
      BY <1>1, <2>1, <2>2
    <3>2. QED
      BY <1>4, <2>2, <3>1, Zenon DEF RequestsMove
  <2>3. CASE k # <<c, client[c].n + 1>>
    BY <1>1, <2>1, <2>3 DEF RequestsMove
  <2>4. QED
    BY <2>2, <2>3
<1>5. ASSUME NEW c \in Client, LoseConnection(c) PROVE RequestsMove(k)
  <2>1. PICK kept \in 0 .. Len(toServer[Socket(c)]) :
          toServer' = [toServer EXCEPT ![Socket(c)] = SubSeq(@, 1, kept)]
    BY <1>5 DEF LoseConnection
  <2>2. CASE k = Socket(c)
    <3>1. kept \in 0 .. Len(toServer[k]) /\ toServer'[k] = SubSeq(toServer[k], 1, kept)
      BY <1>1, <2>1, <2>2
    <3>2. QED
      BY <1>5, <2>2, <3>1, Zenon DEF RequestsMove
  <2>3. CASE k # Socket(c)
    BY <1>1, <2>1, <2>3 DEF RequestsMove
  <2>4. QED
    BY <2>2, <2>3
<1>6. ASSUME NEW c \in Client, HostGameClicked(c) PROVE RequestsMove(k)
  BY <1>2, <1>6, Zenon DEF Asks, HostGameClicked
<1>7. ASSUME NEW c \in Client, LeaveClicked(c) PROVE RequestsMove(k)
  BY <1>2, <1>7, Zenon DEF Asks, LeaveClicked
<1>8. ASSUME NEW c \in Client, NEW host \in client[c].list, GameClicked(c, host)
      PROVE  RequestsMove(k)
  <2>1. Asks(c, <<"joinGame", host>>)
    BY <1>8, Zenon DEF Asks
  <2>2. Request(c, "joinGame", host)
    BY <1>8 DEF GameClicked
  <2>3. QED
    BY <1>2, <2>1, <2>2
<1>9. ASSUME NEW c \in Client, NEW peer \in client[c].peers, OnIceMsg(c, peer)
      PROVE  RequestsMove(k)
  <2>1. Asks(c, <<"sendIceMsg", <<client[c].adapterId, peer>>>>)
    BY <1>9, Zenon DEF Asks
  <2>2. Request(c, "sendIceMsg", <<client[c].adapterId, peer>>)
    BY <1>9 DEF OnIceMsg
  <2>3. QED
    BY <1>2, <2>1, <2>2
<1>10. ASSUME NEW c \in Client, ClientReads(c) PROVE RequestsMove(k)
  <2>1. CASE UNCHANGED toServer
    BY <1>3, <2>1
  <2>2. CASE ~UNCHANGED toServer
    <3>1. /\ ~client[c].deaf
          /\ Head(toClient[Socket(c)])[1] = "onHostLeft"
          /\ client[c].gameId = Head(toClient[Socket(c)])[2]
          /\ Request(c, "leaveGame", All)
      BY <1>10, <2>2 DEF ClientReads
    <3>2. Asks(c, <<"leaveGame", All>>)
      BY <1>10, <3>1, Zenon DEF Asks
    <3>3. QED
      BY <1>2, <3>1, <3>2
  <2>3. QED
    BY <2>1, <2>2
<1>11. ASSUME NEW j \in Connection, ServerReads(j) PROVE RequestsMove(k)
  <2>1. toServer[j] # <<>> /\ toServer' = [toServer EXCEPT ![j] = Tail(@)]
    BY <1>11 DEF ServerReads
  <2>2. CASE j = k
    <3>1. toServer'[k] = Tail(toServer[k])
      BY <1>1, <2>1, <2>2
    <3>2. QED
      BY <1>11, <2>1, <2>2, <3>1, Zenon DEF RequestsMove
  <2>3. CASE j # k
    BY <1>1, <2>1, <2>3 DEF RequestsMove
  <2>4. QED
    BY <2>2, <2>3
<1>12. ASSUME NEW c \in Client, Disconnect(c) PROVE RequestsMove(k)
  BY <1>3, <1>12 DEF Disconnect
<1>13. ASSUME NEW j \in Connection, ServerNotices(j) PROVE RequestsMove(k)
  BY <1>3, <1>13 DEF ServerNotices
<1>14. UNCHANGED vars => RequestsMove(k)
  BY <1>3 DEF vars, serverVars
<1>15. QED
  BY <1>4, <1>5, <1>6, <1>7, <1>8, <1>9, <1>10, <1>11, <1>12, <1>13, <1>14 DEF Next

-----------------------------------------------------------------------------
(* Before a connection was lost, and before a second one was made, every   *)
(* connection begins with a login.                                         *)

\* The beginning of a queue is in the queue.
LEMMA BeginningQueue ==
  ASSUME NEW S, NEW q \in Seq(S), NEW n \in 0 .. Len(q), NEW A
  PROVE  /\ Occurs(SubSeq(q, 1, n), A) => Occurs(q, A)
         /\ SubSeq(q, 1, n) # <<>> => q # <<>> /\ Head(SubSeq(q, 1, n)) = Head(q)
<1>1. \A i \in 1 .. n : q[i] \in S
  OBVIOUS
<1>2. /\ SubSeq(q, 1, n) \in Seq(S)
      /\ Len(SubSeq(q, 1, n)) = IF 1 <= n THEN n - 1 + 1 ELSE 0
      /\ \A i \in 1 .. n - 1 + 1 : SubSeq(q, 1, n)[i] = q[1 + i - 1]
  BY <1>1, SubSeqProperties
<1>3. \A i \in DOMAIN SubSeq(q, 1, n) : i \in DOMAIN q /\ SubSeq(q, 1, n)[i] = q[i]
  BY <1>2
<1>4. Occurs(SubSeq(q, 1, n), A) => Occurs(q, A)
  BY <1>3 DEF Occurs
<1>5. ASSUME SubSeq(q, 1, n) # <<>>
      PROVE  q # <<>> /\ Head(SubSeq(q, 1, n)) = Head(q)
  <2>1. 1 \in DOMAIN SubSeq(q, 1, n)
    BY <1>2, <1>5
  <2>2. /\ 1 \in DOMAIN q /\ SubSeq(q, 1, n)[1] = q[1]
    BY <1>3, <2>1
  <2>3. q # <<>>
    BY <2>2
  <2>4. Head(SubSeq(q, 1, n)) = SubSeq(q, 1, n)[1] /\ Head(q) = q[1]
    BY <1>2, <1>5, <2>3, HeadTailProperties
  <2>5. QED
    BY <2>2, <2>3, <2>4
<1>6. QED
  BY <1>4, <1>5

\* What is behind the head is behind it still.
LEMMA AppendHead ==
  ASSUME NEW S, NEW q \in Seq(S), NEW e \in S, q # <<>>
  PROVE  Head(Append(q, e)) = Head(q)
<1>1. /\ Append(q, e) \in Seq(S) /\ Append(q, e) # <<>>
      /\ Append(q, e)[1] = q[1]
  BY AppendProperties
<1>2. QED
  BY <1>1, HeadTailProperties

AtFirst == \A c \in Client : client[c].n <= 1
Calm == losses = MaxLosses \/ AtFirst

LoginsFirst ==
  /\ \A k \in Connection :
       /\ ~Occurs(toServer[k], Reconnects)
       /\ k \notin DOMAIN socketPlayers /\ toServer[k] # <<>> =>
            Head(toServer[k]) = <<"login", All>>
       /\ k \in live /\ k \notin DOMAIN socketPlayers => toServer[k] # <<>>
  /\ \A c \in Client :
       /\ losses = MaxLosses /\ client[c].session => Connected(c)
       /\ client[c].deaf => losses # MaxLosses /\ ~Connected(c) /\ client[c].n # 0

\* Once it is over it is over.
LEMMA CalmBefore ==
  ASSUME Typed, [Next]_vars
  PROVE  /\ Calm' => Calm
         /\ AtFirst' => AtFirst
         /\ losses' = MaxLosses => losses = MaxLosses
         /\ iceMsgs' = MaxIceMsgs => iceMsgs = MaxIceMsgs
<1>1. losses' = MaxLosses => losses = MaxLosses
  <2>1. losses' = losses \/ (losses > 0 /\ losses' = losses - 1)
    BY DEF Next, Connect, Disconnect, LoseConnection, Click, HostGameClicked,
           LeaveClicked, GameClicked, OnIceMsg, ClientReads, ServerReads,
           ServerNotices, vars
  <2>2. QED
    BY <2>1, TestclientAssumption DEF Typed, ClientTypes
<1>2. iceMsgs' = MaxIceMsgs => iceMsgs = MaxIceMsgs
  <2>1. iceMsgs' = iceMsgs \/ (iceMsgs > 0 /\ iceMsgs' = iceMsgs - 1)
    BY DEF Next, Connect, Disconnect, LoseConnection, Click, HostGameClicked,
           LeaveClicked, GameClicked, OnIceMsg, ClientReads, ServerReads,
           ServerNotices, vars
  <2>2. QED
    BY <2>1, TestclientAssumption DEF Typed, ClientTypes
<1>3. AtFirst' => AtFirst
  <2>1. \A c \in Client : client[c].n \in Nat
    BY TestserverAssumption DEF Typed, ClientTypes, ClientState
  <2>2. \A c \in Client : client'[c].n = client[c].n \/ client'[c].n = client[c].n + 1
    BY MovesKeep
  <2>3. QED
    BY <2>1, <2>2 DEF AtFirst
<1>4. QED
  BY <1>1, <1>2, <1>3 DEF Calm

\* A connection the server has a player for keeps it, and gets one by a login.
LEMMA LoggedInStep ==
  ASSUME Typed, [Next]_vars,
         \A k \in sockets : ~Occurs(toServer[k], Reconnects),
         NEW k \in Connection
  PROVE  /\ k \in DOMAIN socketPlayers =>
              \/ k \in DOMAIN socketPlayers' /\ socketPlayers'[k] = socketPlayers[k]
              \/ ServerNotices(k) /\ k \notin DOMAIN socketPlayers'
         /\ k \in DOMAIN socketPlayers' /\ k \notin DOMAIN socketPlayers =>
              /\ ServerReads(k) /\ toServer[k] # <<>>
              /\ \/ Login(k) /\ Head(toServer[k])[1] = "login"
                 \/ Head(toServer[k])[1] = "sendIceMsg"
         /\ ServerReads(k) /\ Head(toServer[k])[1] = "login" =>
              k \in DOMAIN socketPlayers'
<1> DEFINE Goal ==
         /\ k \in DOMAIN socketPlayers =>
              \/ k \in DOMAIN socketPlayers' /\ socketPlayers'[k] = socketPlayers[k]
              \/ ServerNotices(k) /\ k \notin DOMAIN socketPlayers'
         /\ k \in DOMAIN socketPlayers' /\ k \notin DOMAIN socketPlayers =>
              /\ ServerReads(k) /\ toServer[k] # <<>>
              /\ \/ Login(k) /\ Head(toServer[k])[1] = "login"
                 \/ Head(toServer[k])[1] = "sendIceMsg"
<1>1. ASSUME UNCHANGED socketPlayers PROVE Goal
  BY <1>1
<1>2. ASSUME NEW j \in Connection, ServerNotices(j) PROVE Goal
  BY <1>1, <1>2 DEF ServerNotices, Disconnected, Erase
<1>3. ASSUME NEW j \in Connection, ServerReads(j) PROVE Goal
  <2>1. j \in sockets /\ toServer[j] # <<>> /\ toServer[j] \in Seq(Requests)
    BY <1>3 DEF ServerReads, Typed, QueueTypes
  <2>2. Head(toServer[j]) \in Requests /\ Head(toServer[j]) \notin Reconnects
    BY <2>1, HeadQueue
  <2>3. Head(toServer[j])[1] # "reconnect"
    BY <2>2, RequestForms
  <2>4. CASE Head(toServer[j])[1] = "login" /\ Login(j)
    <3>1. \/ UNCHANGED socketPlayers
          \/ /\ j \notin DOMAIN socketPlayers
             /\ DOMAIN socketPlayers' = DOMAIN socketPlayers \cup {j}
             /\ \A i \in DOMAIN socketPlayers : socketPlayers'[i] = socketPlayers[i]
      BY <2>4 DEF Login, Put
    <3>2. QED
      BY <1>1, <1>3, <2>1, <2>4, <3>1
  <2>5. CASE Head(toServer[j])[1] = "sendIceMsg"
             /\ SendIceMsg(j, Head(toServer[j])[2][1], Head(toServer[j])[2][2])
    BY <1>3, <2>1, <2>5 DEF SendIceMsg, Put
  <2>6. CASE HostGame(j) \/ LeaveGame(j) \/ JoinGame(j, Head(toServer[j])[2])
    BY <1>1, <2>6 DEF HostGame, LeaveGame, JoinGame
  <2> HIDE DEF Goal
  <2>7. QED
    BY <1>3, <2>3, <2>4, <2>5, <2>6 DEF ServerReads
<1> HIDE DEF Goal
<1>4. Goal
  BY <1>1, <1>2, <1>3
     DEF Next, Connect, Disconnect, LoseConnection, Click, HostGameClicked,
         LeaveClicked, GameClicked, OnIceMsg, ClientReads, vars, serverVars, books
<1>5. ServerReads(k) /\ Head(toServer[k])[1] = "login" => k \in DOMAIN socketPlayers'
  BY DEF ServerReads, Login, Put
<1>6. QED
  BY <1>4, <1>5 DEF Goal

LEMMA ConnectDoes ==
  ASSUME Typed, NEW c \in Client, Connect(c)
  PROVE  /\ client'[c].n = client[c].n + 1 /\ client'[c].session = TRUE
         /\ Socket(c)' = <<c, client[c].n + 1>>
         /\ Socket(c)' \in live' /\ Socket(c)' \in Connection
         /\ client[c].n \in Nat
<1>1. /\ DOMAIN client = Client
      /\ client' = [client EXCEPT ![c] = [client[c] EXCEPT !.n = @ + 1, !.keep = TRUE,
                                                           !.session = TRUE]]
  BY DEF Connect, Change, Typed, ClientTypes
<1>2. client[c] \in ClientState
  BY DEF Typed, ClientTypes
<1>3. client'[c].n = client[c].n + 1 /\ client'[c].session = TRUE
  BY <1>1, <1>2 DEF ClientState
<1>4. client[c].n \in Nat
  BY <1>2, TestserverAssumption DEF ClientState
<1>5. <<c, client[c].n + 1>> \in Connection
  BY NewConnection DEF Typed
<1>6. QED
  BY <1>3, <1>4, <1>5 DEF Connect, Socket

\* Connections are made for the first time only, or nothing was lost before.
LEMMA CalmConnect ==
  ASSUME Typed, Sessions, LoginsFirst, Calm', [Next]_vars,
         NEW c \in Client, Connect(c)
  PROVE  FirstRequest(c) = <<"login", All>>
<1>1. ~client[c].session
  <2>1. CASE losses = MaxLosses
    BY <2>1 DEF LoginsFirst, Connect
  <2>2. CASE losses # MaxLosses
    <3>1. losses' # MaxLosses
      BY <2>2, CalmBefore
    <3>2. client'[c].n <= 1
      BY <3>1 DEF Calm, AtFirst
    <3>3. client[c].n = 0
      <4>1. client'[c].n = client[c].n + 1 /\ client[c].n \in Nat
        BY ConnectDoes
      <4>2. QED
        BY <3>2, <4>1
    <3>4. QED
      BY <3>3 DEF Sessions
  <2>3. QED
    BY <2>1, <2>2
<1>2. QED
  BY <1>1 DEF FirstRequest

\* A connection is served only while its client's newest one is alive.
LEMMA LiveSocket ==
  ASSUME Typed, Sessions, NEW k \in live
  PROVE  /\ k \in Connection /\ k[1] \in Client /\ k = <<k[1], k[2]>>
         /\ k[2] = client[k[1]].n /\ client[k[1]].n # 0
         /\ Socket(k[1]) = k /\ Connected(k[1])
<1>1. k \in Connection
  BY DEF Typed, ServerTypes
<1>2. k[1] \in Client /\ k[2] \in 1 .. MaxConnections /\ k = <<k[1], k[2]>>
  BY <1>1 DEF Connection
<1>3. client[k[1]].n = k[2]
  BY <1>2 DEF Sessions
<1>4. QED
  BY <1>1, <1>2, <1>3 DEF Socket, Connected

LEMMA NextLoginsFirst ==
  ASSUME Typed, Typed', Sessions, Sessions', Calm => LoginsFirst, Calm',
         [Next]_vars
  PROVE  LoginsFirst'
<1>1. Calm /\ LoginsFirst
  BY CalmBefore
<1>2. \A k \in Connection : toServer[k] \in Seq(Requests)
  BY DEF Typed, QueueTypes
<1>3. ASSUME NEW k \in Connection PROVE ~Occurs(toServer'[k], Reconnects)
  <2>1. ~Occurs(toServer[k], Reconnects)
    BY <1>1 DEF LoginsFirst
  <2>2. ASSUME NEW c \in Client, Connect(c), toServer'[k] = <<FirstRequest(c)>>
        PROVE  ~Occurs(toServer'[k], Reconnects)
    <3>1. toServer'[k] = << <<"login", All>> >>
      BY <1>1, <2>2, CalmConnect
    <3>2. <<"login", All>> \notin Reconnects
      BY DEF Reconnects
    <3>3. QED
      BY <3>1, <3>2, OneInQueue
  <2>3. ASSUME NEW m \in GameRequests \cup IceRequests,
               toServer'[k] = Append(toServer[k], m)
        PROVE  ~Occurs(toServer'[k], Reconnects)
    <3>1. m \in Requests /\ m \notin Reconnects
      BY DEF Requests, GameRequests, IceRequests, Reconnects
    <3>2. QED
      BY <1>2, <2>1, <2>3, <3>1, AppendQueue, ZenonT(60)
  <2>4. ASSUME NEW kept \in 0 .. Len(toServer[k]),
               toServer'[k] = SubSeq(toServer[k], 1, kept)
        PROVE  ~Occurs(toServer'[k], Reconnects)
    BY <1>2, <2>1, <2>4, BeginningQueue
  <2>5. ASSUME toServer[k] # <<>>, toServer'[k] = Tail(toServer[k])
        PROVE  ~Occurs(toServer'[k], Reconnects)
    BY <1>2, <2>1, <2>5, HeadQueue
  <2>6. QED
    BY <2>1, <2>2, <2>3, <2>4, <2>5, RequestsStep DEF RequestsMove
<1>4. ASSUME NEW k \in Connection, k \notin DOMAIN socketPlayers'
      PROVE  /\ toServer'[k] # <<>> => Head(toServer'[k]) = <<"login", All>>
             /\ k \in live' => toServer'[k] # <<>>
  <2> DEFINE Goal == /\ toServer'[k] # <<>> => Head(toServer'[k]) = <<"login", All>>
                     /\ k \in live' => toServer'[k] # <<>>
  <2>1. CASE k \in DOMAIN socketPlayers
    <3>1. ServerNotices(k)
      BY <1>1, <1>4, <2>1, LoggedInStep DEF LoginsFirst, Typed, ServerTypes
    <3>2. toServer'[k] = <<>> /\ k \notin live'
      BY <3>1 DEF ServerNotices
    <3>3. QED
      BY <3>2
  <2>2. CASE k \notin DOMAIN socketPlayers
    <3>1. /\ toServer[k] # <<>> => Head(toServer[k]) = <<"login", All>>
          /\ k \in live => toServer[k] # <<>>
      BY <1>1, <2>2 DEF LoginsFirst
    <3>2. CASE \E c \in Client : Connect(c) /\ k = <<c, client[c].n + 1>>
                                   /\ toServer'[k] = <<FirstRequest(c)>>
      <4>1. toServer'[k] = << <<"login", All>> >>
        BY <1>1, <3>2, CalmConnect
      <4>2. QED
        BY <4>1
    <3>3. k \in live' => k \in live \/ \E c \in Client : Connect(c)
                                                  /\ k = <<c, client[c].n + 1>>
      BY ConnectionsStep
    <3>4. ASSUME NEW c \in Client, Connect(c), k = <<c, client[c].n + 1>>
          PROVE  toServer'[k] = <<FirstRequest(c)>>
      <4>1. toServer' = [toServer EXCEPT ![k] = <<FirstRequest(c)>>]
        BY <3>4 DEF Connect, FirstRequest
      <4>2. QED
        BY <4>1 DEF Typed, QueueTypes
    <3>5. CASE toServer'[k] = toServer[k]
      BY <3>1, <3>2, <3>3, <3>4, <3>5
    <3>6. CASE \E c \in Client : /\ LoseConnection(c) /\ k = Socket(c)
                                 /\ \E kept \in 0 .. Len(toServer[k]) :
                                      toServer'[k] = SubSeq(toServer[k], 1, kept)
      <4>1. k \notin live'
        BY <3>6 DEF LoseConnection
      <4>2. toServer'[k] # <<>> => toServer[k] # <<>> /\ Head(toServer'[k]) = Head(toServer[k])
        BY <1>2, <3>6, BeginningQueue
      <4>3. QED
        BY <3>1, <4>1, <4>2
    <3>7. CASE \E m \in GameRequests \cup IceRequests :
                 k \in live /\ toServer'[k] = Append(toServer[k], m)
      <4>1. PICK m \in GameRequests \cup IceRequests :
                   k \in live /\ toServer'[k] = Append(toServer[k], m)
        BY <3>7
      <4>2. m \in Requests
        BY DEF Requests
      <4>3. Append(toServer[k], m) # <<>>
        BY <1>2, <4>2, AppendProperties
      <4>4. Head(Append(toServer[k], m)) = Head(toServer[k])
        BY <1>2, <3>1, <4>1, <4>2, AppendHead
      <4>5. QED
        BY <3>1, <4>1, <4>3, <4>4
    <3>8. CASE ServerReads(k) /\ toServer[k] # <<>>
      <4>1. Head(toServer[k])[1] = "login"
        BY <3>1, <3>8
      <4>2. k \in DOMAIN socketPlayers'
        BY <3>8, <4>1 DEF ServerReads, Login, Put
      <4>3. QED
        BY <1>4, <4>2
    <3>9. QED
      BY <3>2, <3>5, <3>6, <3>7, <3>8, RequestsStep DEF RequestsMove
  <2>3. QED
    BY <2>1, <2>2
<1>5. ASSUME NEW c \in Client, losses' = MaxLosses, client'[c].session
      PROVE  Connected(c)'
  <2>1. CASE Connect(c)
    BY <2>1, ConnectDoes DEF Connected
  <2>2. CASE ~Connect(c)
    <3>1. losses = MaxLosses
      BY <1>5, CalmBefore
    <3>2. client'[c].n = client[c].n /\ client[c].session
      BY <1>5, <2>2, MovesKeep, Zenon
    <3>3. Connected(c)
      BY <1>1, <3>1, <3>2 DEF LoginsFirst
    <3>4. Socket(c)' = Socket(c)
      BY <3>2 DEF Socket
    <3>5. Socket(c) \in live'
      <4>1. \A d \in Client : ~LoseConnection(d)
        BY <1>5, <3>1, TestclientAssumption DEF LoseConnection
      <4>2. ASSUME Disconnect(c) PROVE FALSE
        <5>1. /\ DOMAIN client = Client /\ client[c] \in ClientState
              /\ client' = [client EXCEPT ![c] = [client[c] EXCEPT !.keep = FALSE,
                                                     !.session = FALSE, !.lobby = FALSE]]
          BY <4>2 DEF Disconnect, Change, Typed, ClientTypes
        <5>2. client'[c].session = FALSE
          BY <5>1 DEF ClientState
        <5>3. QED
          BY <1>5, <5>2
      <4>3. \A d \in Client : Socket(d) = Socket(c) => d = c
        BY DEF Socket
      <4>4. QED
        BY <3>3, <4>1, <4>2, <4>3, ConnectionsStep DEF Connected
    <3>6. QED
      BY <3>4, <3>5 DEF Connected
  <2>3. QED
    BY <2>1, <2>2
<1>6. ASSUME NEW c \in Client, client'[c].deaf
      PROVE  losses' # MaxLosses /\ ~Connected(c)' /\ client'[c].n # 0
  <2>1. CASE client'[c].deaf # client[c].deaf
    <3>1. LoseConnection(c)
      BY <2>1, MovesKeep
    <3>2. losses' # MaxLosses
      BY <3>1, TestclientAssumption DEF LoseConnection, Typed, ClientTypes
    <3>3. Socket(c) \in live /\ live' = live \ {Socket(c)}
      BY <3>1 DEF LoseConnection, Connected
    <3>4. ~Connect(c)
      BY <3>3 DEF Connect, Connected
    <3>5. client'[c].n = client[c].n
      BY <3>4, MovesKeep
    <3>6. client[c].n # 0
      BY <3>3, LiveSocket DEF Socket
    <3>7. QED
      BY <3>2, <3>3, <3>5, <3>6 DEF Connected, Socket
  <2>2. CASE client'[c].deaf = client[c].deaf
    <3>1. losses # MaxLosses /\ ~Connected(c) /\ client[c].n # 0
      BY <1>1, <1>6, <2>2 DEF LoginsFirst
    <3>2. losses' # MaxLosses
      BY <3>1, CalmBefore
    <3>3. client'[c].n <= 1
      BY <3>2 DEF Calm, AtFirst
    <3>4. ASSUME Connect(c) PROVE FALSE
      <4>1. client'[c].n = client[c].n + 1 /\ client[c].n \in Nat
        BY <3>4, ConnectDoes
      <4>2. QED
        BY <3>1, <3>3, <4>1
    <3>5. client'[c].n = client[c].n
      BY <3>4, MovesKeep
    <3>6. Socket(c) \notin live'
      BY <3>1, <3>4, ConnectionsStep DEF Connected, Socket
    <3>7. QED
      BY <3>1, <3>2, <3>5, <3>6 DEF Connected, Socket
  <2>3. QED
    BY <2>1, <2>2
<1>7. QED
  BY <1>3, <1>4, <1>5, <1>6 DEF LoginsFirst

-----------------------------------------------------------------------------
(* The books.                                                              *)

LoginsAgree ==
  /\ DOMAIN playersLogins = DOMAIN playerSockets
  /\ \A p, q \in DOMAIN playersLogins :
       playersLogins[p] = playersLogins[q] => p = q

SocketsAgree ==
  /\ \A k \in DOMAIN socketPlayers :
       /\ socketPlayers[k] \in DOMAIN playerSockets
       /\ playerSockets[socketPlayers[k]] = k
  /\ \A p \in DOMAIN playerSockets :
       /\ playerSockets[p] \in DOMAIN socketPlayers
       /\ socketPlayers[playerSockets[p]] = p
       /\ playerSockets[p] \in sockets

MembersKnown == \A g \in DOMAIN games : games[g] \subseteq DOMAIN playerSockets

\* What login, reconnect and the loss of a connection make of the maps.
LEMMA LoginBooks ==
  ASSUME BooksAgree, PlayersOK, NEW k \in sockets, Login(k)
  PROVE  BooksAgree'
<1> DEFINE p == currentPlayerId
<1>1. CASE k \in DOMAIN socketPlayers
  BY <1>1 DEF Login, BooksAgree
<1>2. CASE k \notin DOMAIN socketPlayers
  <2>1. /\ playerSockets' = Put(playerSockets, p, k)
        /\ socketPlayers' = Put(socketPlayers, k, p)
        /\ playersLogins' = Put(playersLogins, p, LoginFor)
        /\ UNCHANGED <<sockets, games>>
    BY <1>2 DEF Login
  <2>2. p \in Nat /\ DOMAIN playerSockets \subseteq 0 .. p - 1
    BY TestserverAssumption DEF PlayersOK
  <2>3. p \notin DOMAIN playerSockets
    BY <2>2
  <2>4. \A q \in DOMAIN playersLogins : playersLogins[q] # LoginFor
    BY <2>2, LoginIsFree DEF BooksAgree
  <2>5. LoginsAgree'
    BY <2>1, <2>3, <2>4 DEF BooksAgree, LoginsAgree, Put
  <2>6. SocketsAgree'
    BY <1>2, <2>1, <2>3 DEF BooksAgree, SocketsAgree, Put
  <2>7. MembersKnown'
    BY <2>1 DEF BooksAgree, MembersKnown, Put
  <2>8. QED
    BY <2>5, <2>6, <2>7 DEF BooksAgree, LoginsAgree, SocketsAgree, MembersKnown
<1>3. QED
  BY <1>1, <1>2

LEMMA ReconnectBooks ==
  ASSUME BooksAgree, NEW k \in sockets, NEW p, Reconnect(k, p)
  PROVE  BooksAgree'
<1>1. UNCHANGED <<sockets, playersLogins, games>>
  BY DEF Reconnect
<1>2. CASE k \in DOMAIN socketPlayers \/ p \notin DOMAIN playerSockets
  BY <1>1, <1>2 DEF Reconnect, BooksAgree
<1>3. CASE k \notin DOMAIN socketPlayers /\ p \in DOMAIN playerSockets
  <2>1. /\ socketPlayers' = Put(Erase(socketPlayers, playerSockets[p]), k, p)
        /\ playerSockets' = Put(playerSockets, p, k)
    BY <1>3 DEF Reconnect
  <2>2. /\ DOMAIN playerSockets' = DOMAIN playerSockets
        /\ playerSockets'[p] = k
        /\ \A q \in DOMAIN playerSockets \ {p} : playerSockets'[q] = playerSockets[q]
    BY <1>3, <2>1 DEF Put
  <2>3. /\ DOMAIN socketPlayers' = (DOMAIN socketPlayers \ {playerSockets[p]}) \cup {k}
        /\ socketPlayers'[k] = p
        /\ \A j \in DOMAIN socketPlayers \ {playerSockets[p]} :
             socketPlayers'[j] = socketPlayers[j]
    BY <1>3, <2>1 DEF Put, Erase
  <2>4. SocketsAgree'
    BY <1>1, <1>3, <2>2, <2>3 DEF BooksAgree, SocketsAgree
  <2>5. LoginsAgree' /\ MembersKnown'
    BY <1>1, <2>2 DEF BooksAgree, LoginsAgree, MembersKnown
  <2>6. QED
    BY <2>4, <2>5 DEF BooksAgree, LoginsAgree, SocketsAgree, MembersKnown
<1>4. QED
  BY <1>2, <1>3

LEMMA DisconnectedBooks ==
  ASSUME BooksAgree, OneGameEach, NEW k, Disconnected(k)
  PROVE  BooksAgree'
<1>1. sockets' = sockets \ {k}
  BY DEF Disconnected
<1>2. CASE k \notin DOMAIN socketPlayers
  BY <1>1, <1>2 DEF Disconnected, BooksAgree
<1>3. CASE k \in DOMAIN socketPlayers
  <2> DEFINE p == socketPlayers[k]
  <2>1. /\ playerSockets' = Erase(playerSockets, p)
        /\ socketPlayers' = Erase(socketPlayers, k)
        /\ playersLogins' = Erase(playersLogins, p)
        /\ Leaves(p)
    BY <1>3 DEF Disconnected, Leaves
  <2>2. LeftMaps(p)
    BY <2>1, LeavesDo
  <2>3. LoginsAgree'
    BY <2>1 DEF BooksAgree, LoginsAgree, Erase
  <2>4. SocketsAgree'
    BY <1>1, <1>3, <2>1 DEF BooksAgree, SocketsAgree, Erase
  <2>5. MembersKnown'
    BY <2>1, <2>2 DEF BooksAgree, MembersKnown, LeftMaps, Erase
  <2>6. QED
    BY <2>3, <2>4, <2>5 DEF BooksAgree, LoginsAgree, SocketsAgree, MembersKnown
<1>4. QED
  BY <1>2, <1>3

\* What hostGame, leaveGame and joinGame make of the games: the player whose
\* request it is has a connection.
LEMMA GamesBooks ==
  ASSUME BooksAgree, OneGameEach, NEW k, NEW g,
         HostGame(k) \/ LeaveGame(k) \/ JoinGame(k, g)
  PROVE  BooksAgree'
<1>1. UNCHANGED <<sockets, playerSockets, socketPlayers, playersLogins>>
  BY DEF HostGame, LeaveGame, JoinGame
<1>2. CASE k \notin DOMAIN socketPlayers
  BY <1>1, <1>2 DEF HostGame, LeaveGame, JoinGame, BooksAgree
<1>3. CASE k \in DOMAIN socketPlayers
  <2> DEFINE p == socketPlayers[k]
  <2>1. Leaves(p) \/ Hosts(p) \/ Joins(p, g)
    BY <1>3 DEF HostGame, LeaveGame, JoinGame, Leaves, Hosts, Joins
  <2>2. LeftMaps(p) \/ HostedMaps(p) \/ JoinedMaps(p, g)
    BY <2>1, LeavesDo, HostsDo, JoinsDo
  <2>3. p \in DOMAIN playerSockets
    BY <1>3 DEF BooksAgree
  <2> HIDE DEF p
  <2>4. MembersKnown'
    BY <1>1, <2>2, <2>3
       DEF BooksAgree, MembersKnown, LeftMaps, HostedMaps, JoinedMaps
  <2>5. QED
    BY <1>1, <2>4 DEF BooksAgree, MembersKnown
<1>4. QED
  BY <1>2, <1>3

\* An ICE message makes an entry only for a connection that has none, whose
\* first request is a login unless ICE messages came before.
LEMMA NextBooks ==
  ASSUME BooksAgree, OneGameEach, PlayersOK, Typed, [Next]_vars,
         LoginsFirst \/ \A k \in Connection : ~Occurs(toServer[k], IceRequests)
  PROVE  BooksAgree'
<1>1. CASE UNCHANGED books
  BY <1>1 DEF books, BooksAgree
<1>2. ASSUME NEW c \in Client, Connect(c) PROVE BooksAgree'
  <2>1. /\ sockets \subseteq sockets'
        /\ UNCHANGED <<playerSockets, socketPlayers, playersLogins, games>>
    BY <1>2 DEF Connect
  <2>2. QED
    BY <2>1 DEF BooksAgree
<1>3. ASSUME NEW k \in Connection, ServerReads(k) PROVE BooksAgree'
  <2> DEFINE m == Head(toServer[k])
  <2>1. k \in sockets /\ toServer[k] # <<>> /\ toServer[k] \in Seq(Requests)
    BY <1>3 DEF ServerReads, Typed, QueueTypes
  <2>2. m \in Requests
    BY <2>1, HeadQueue
  <2>3. m[1] = "sendIceMsg" => k \in DOMAIN socketPlayers
    <3>1. m \in IceRequests => Occurs(toServer[k], IceRequests)
      BY <2>1, HeadQueue
    <3>2. m[1] = "sendIceMsg" => m \in IceRequests
      BY <2>2, RequestForms
    <3> HIDE DEF m
    <3>3. LoginsFirst /\ k \notin DOMAIN socketPlayers => m = <<"login", All>>
      BY <2>1 DEF LoginsFirst, m
    <3>4. QED
      BY <3>1, <3>2, <3>3
  <2>4. \/ Login(k)
        \/ Reconnect(k, m[2])
        \/ HostGame(k)
        \/ LeaveGame(k)
        \/ JoinGame(k, m[2])
        \/ m[1] = "sendIceMsg" /\ SendIceMsg(k, m[2][1], m[2][2])
    BY <1>3 DEF ServerReads
  <2> HIDE DEF m
  <2>5. CASE m[1] = "sendIceMsg" /\ SendIceMsg(k, m[2][1], m[2][2])
    <3>1. UNCHANGED <<sockets, playerSockets, socketPlayers, playersLogins, games>>
      BY <2>3, <2>5 DEF SendIceMsg
    <3>2. QED
      BY <3>1 DEF BooksAgree
  <2>6. QED
    BY <2>1, <2>4, <2>5, LoginBooks, ReconnectBooks, GamesBooks
<1>4. ASSUME NEW k \in Connection, ServerNotices(k) PROVE BooksAgree'
  BY <1>4, DisconnectedBooks DEF ServerNotices
<1>5. QED
  BY <1>1, <1>2, <1>3, <1>4
     DEF Next, Disconnect, LoseConnection, Click, HostGameClicked,
         LeaveClicked, GameClicked, OnIceMsg, ClientReads, vars, serverVars

NoIceYet == \A k \in Connection : ~Occurs(toServer[k], IceRequests)

LEMMA NextNoIce ==
  ASSUME Typed, [Next]_vars, iceMsgs' = MaxIceMsgs, NoIceYet
  PROVE  NoIceYet'
<1> SUFFICES ASSUME NEW k \in Connection
             PROVE  ~Occurs(toServer'[k], IceRequests)
  BY DEF NoIceYet
<1>1. toServer[k] \in Seq(Requests) /\ ~Occurs(toServer[k], IceRequests)
  BY DEF Typed, QueueTypes, NoIceYet
<1>2. ASSUME NEW c \in Client, toServer'[k] = <<FirstRequest(c)>>
      PROVE  ~Occurs(toServer'[k], IceRequests)
  <2>1. FirstRequest(c) \notin IceRequests
    BY DEF FirstRequest, IceRequests
  <2>2. QED
    BY <1>2, <2>1, OneInQueue
<1>3. ASSUME NEW c \in Client, NEW m \in GameRequests \cup IceRequests, Asks(c, m),
             toServer'[k] = Append(toServer[k], m)
      PROVE  ~Occurs(toServer'[k], IceRequests)
  <2>1. \A peer : ~OnIceMsg(c, peer)
    <3>1. iceMsgs = MaxIceMsgs
      BY CalmBefore
    <3>2. QED
      BY <3>1, TestclientAssumption DEF OnIceMsg
  <2>2. m \notin IceRequests
    BY <1>3, <2>1 DEF Asks, IceRequests
  <2>3. m \in Requests
    BY DEF Requests
  <2>4. QED
    BY <1>1, <1>3, <2>2, <2>3, AppendQueue, ZenonT(60)
<1>4. ASSUME NEW kept \in 0 .. Len(toServer[k]),
             toServer'[k] = SubSeq(toServer[k], 1, kept)
      PROVE  ~Occurs(toServer'[k], IceRequests)
  BY <1>1, <1>4, BeginningQueue
<1>5. ASSUME toServer[k] # <<>>, toServer'[k] = Tail(toServer[k])
      PROVE  ~Occurs(toServer'[k], IceRequests)
  BY <1>1, <1>5, HeadQueue
<1>6. QED
  BY <1>1, <1>2, <1>3, <1>4, <1>5, RequestsStep DEF RequestsMove

\* While no connection was lost, none was made a second time or no ICE message
\* was emitted, the books agree.
BooksInv ==
  /\ Calm => LoginsFirst
  /\ iceMsgs = MaxIceMsgs => NoIceYet
  /\ Calm \/ iceMsgs = MaxIceMsgs => BooksAgree

LEMMA BooksInvAlways == Spec => []BooksInv
<1>1. Init => BooksInv
  <2> SUFFICES ASSUME Init PROVE BooksInv
    OBVIOUS
  <2>1. BooksAgree
    BY DEF Init, ServerInit, BooksAgree
  <2>2. \A k \in Connection : toServer[k] = <<>>
    BY DEF Init, ServerInit
  <2>3. \A c \in Client : client[c].session = FALSE /\ client[c].deaf = FALSE
    BY DEF Init
  <2>4. NoIceYet
    BY <2>2, EmptyQueue DEF NoIceYet
  <2>5. \A k \in Connection : ~Occurs(toServer[k], Reconnects)
    BY <2>2, EmptyQueue
  <2>6. live = {}
    BY DEF Init, ServerInit
  <2>7. LoginsFirst
    BY <2>2, <2>3, <2>5, <2>6 DEF LoginsFirst
  <2>8. QED
    BY <2>1, <2>4, <2>7 DEF BooksInv
<1>2. ASSUME Typed, Typed', Sessions, Sessions', OneGameEach, PlayersOK, BooksInv,
             [Next]_vars
      PROVE  BooksInv'
  <2>1. Calm' => LoginsFirst'
    BY <1>2, NextLoginsFirst DEF BooksInv
  <2>2. iceMsgs' = MaxIceMsgs => NoIceYet'
    BY <1>2, CalmBefore, NextNoIce DEF BooksInv
  <2>3. ASSUME Calm' \/ iceMsgs' = MaxIceMsgs PROVE BooksAgree'
    <3>1. Calm \/ iceMsgs = MaxIceMsgs
      BY <1>2, <2>3, CalmBefore
    <3>2. LoginsFirst \/ NoIceYet
      BY <1>2, <3>1 DEF BooksInv
    <3>3. BooksAgree
      BY <1>2, <3>1 DEF BooksInv
    <3>4. QED
      BY <1>2, <3>2, <3>3, NextBooks DEF NoIceYet
  <2>4. QED
    BY <2>1, <2>2, <2>3 DEF BooksInv
<1>3. QED
  BY <1>1, <1>2, TypedAlways, SessionsAlways, OneGameForEach, PlayersAlways, PTL
     DEF Spec

\* Of losses and ICE messages only one happens.
OneOfBoth == losses = MaxLosses \/ iceMsgs = MaxIceMsgs

\* The server's maps agree with each other and a player in a game is
\* reachable (login, reconnect and the lambda of disconnected), however
\* connections break and come back, as long as that and ICE messages do not
\* happen in one behaviour: a message over a connection that is not logged in
\* puts player 0 into the books.
THEOREM BooksAlwaysAgree ==
  ~IceAndLosses \/ MaxIceMsgs = 0 \/ MaxLosses = 0 => (Spec => []BooksAgree)
<1> SUFFICES ASSUME ~IceAndLosses \/ MaxIceMsgs = 0 \/ MaxLosses = 0
             PROVE  Spec => []BooksAgree
  OBVIOUS
<1>1. Init => OneOfBoth
  BY DEF Init, OneOfBoth
<1>2. Typed /\ Typed' /\ OneOfBoth /\ [Next]_vars => OneOfBoth'
  <2> SUFFICES ASSUME Typed, Typed', OneOfBoth, [Next]_vars PROVE OneOfBoth'
    OBVIOUS
  <2>1. CASE UNCHANGED <<losses, iceMsgs>>
    BY <2>1 DEF OneOfBoth
  <2>2. CASE MaxIceMsgs = 0 \/ MaxLosses = 0
    BY <2>2 DEF Typed, ClientTypes, OneOfBoth
  <2>3. ASSUME ~IceAndLosses, NEW c \in Client, LoseConnection(c) PROVE OneOfBoth'
    BY <2>3 DEF LoseConnection, OneOfBoth
  <2>4. ASSUME ~IceAndLosses, NEW c \in Client, NEW peer, OnIceMsg(c, peer)
        PROVE  OneOfBoth'
    BY <2>4 DEF OnIceMsg, OneOfBoth
  <2>5. QED
    BY <2>1, <2>2, <2>3, <2>4
       DEF Next, Connect, Disconnect, Click, HostGameClicked, LeaveClicked,
           GameClicked, ClientReads, ServerReads, ServerNotices, vars
<1>3. BooksInv /\ OneOfBoth => BooksAgree
  BY DEF BooksInv, OneOfBoth, Calm
<1>4. QED
  BY <1>1, <1>2, <1>3, TypedAlways, BooksInvAlways, PTL DEF Spec

-----------------------------------------------------------------------------
(***************************************************************************)
(* What the lobby is for: what clients show and what their adapters know   *)
(* when all that is on its way has arrived.  Each is proved from an        *)
(* invariant about the state together with what is still on its way to and *)
(* from a connection: what the last command that bears on a thing will     *)
(* make of it.                                                             *)
(***************************************************************************)

(* What bears on what.                                                     *)

\* On the list of games.
Lists == LoginReplies \cup Gamelists
Current(hosts) ==
  {<<"onGamelist", hosts>>} \cup ({"loggedIn"} \X (Player \X {hosts}))

\* On an adapter's peer x.
Connects(x) == {<<"joinGame", x>>, <<"connectToPeer", x>>}
Changes(x) == Connects(x) \cup {<<"disconnectFromPeer", x>>}
Connecting == {"joinGame", "connectToPeer"} \X Player

LEMMA Kinds ==
  /\ LoginReplies \in SUBSET Commands /\ IceMsgs \in SUBSET Commands
  /\ Gamelists \in SUBSET Commands /\ Lists \in SUBSET Commands
  /\ Connecting \in SUBSET Commands
  /\ \A x \in Player : /\ Connects(x) \in SUBSET Commands
                       /\ Changes(x) \in SUBSET Commands
                       /\ Connects(x) \subseteq Connecting
  /\ \A S \in SUBSET Player : Current(S) \in SUBSET Lists
  /\ \A S \in SUBSET Commands : \A T : S \ T \in SUBSET Commands
<1>1. \A x \in Player : /\ Connects(x) \subseteq PeerCommands
                        /\ Changes(x) \subseteq PeerCommands
                        /\ Connects(x) \subseteq Connecting
  BY DEF Connects, Changes, PeerCommands, Connecting
<1>2. Connecting \subseteq PeerCommands
  BY DEF Connecting, PeerCommands
<1>3. \A S \in SUBSET Player : Current(S) \in SUBSET Lists
  BY DEF Current, Lists, LoginReplies, Gamelists
<1>4. QED
  BY <1>1, <1>2, <1>3 DEF Lists, Commands

\* What is heard of a player's leaving.
LEMMA LeaveNews ==
  ASSUME ServerTypes, BooksAgree, NEW k \in sockets,
         NEW p \in DOMAIN playerSockets
  PROVE  LET r == SentTo(k, LeaveCommands(p)) IN
         /\ r \in Seq(Commands)
         /\ ~Occurs(r, LoginReplies) /\ ~Occurs(r, IceMsgs)
         /\ p \in DOMAIN games => Occurs(r, Lists)
         /\ p \notin DOMAIN games => ~Occurs(r, Lists)
         /\ ~Occurs(r, Lists \ Current(DOMAIN games \ {p}))
         /\ \A x \in Player : ~Is(k, p) /\ x # p => ~Occurs(r, Changes(x))
         /\ k \notin DOMAIN socketPlayers => ~Occurs(r, Commands \ Gamelists)
<1> DEFINE r == SentTo(k, LeaveCommands(p))
<1>1. p \in Player /\ DOMAIN games \ {p} \in SUBSET Player
  BY DEF ServerTypes
<1>2. FellowsOf(p) \subseteq Player
  BY FellowTypes
<1>3. /\ r \in Seq(Commands)
      /\ \A A \in SUBSET Commands :
           Occurs(r, A) <=>
              \/ /\ p \in DOMAIN games
                 /\ \/ \E f \in games[p] : Is(k, f) /\ <<"onHostLeft", p>> \in A
                    \/ <<"onGamelist", DOMAIN games \ {p}>> \in A
              \/ \E f \in FellowsOf(p) :
                   \/ Is(k, f) /\ <<"disconnectFromPeer", p>> \in A
                   \/ Is(k, p) /\ <<"disconnectFromPeer", f>> \in A
  BY LeaveHeard
<1> HIDE DEF r
<1>4. ~Occurs(r, LoginReplies) /\ ~Occurs(r, IceMsgs)
  <2>1. \A x : /\ <<"onHostLeft", x>> \notin LoginReplies \cup IceMsgs
               /\ <<"onGamelist", x>> \notin LoginReplies \cup IceMsgs
               /\ <<"disconnectFromPeer", x>> \notin LoginReplies \cup IceMsgs
    BY DEF LoginReplies, IceMsgs
  <2>2. QED
    BY <1>3, <2>1, Kinds
<1>5. /\ p \in DOMAIN games => Occurs(r, Lists)
      /\ p \notin DOMAIN games => ~Occurs(r, Lists)
      /\ ~Occurs(r, Lists \ Current(DOMAIN games \ {p}))
  <2>1. \A x : <<"onHostLeft", x>> \notin Lists /\ <<"disconnectFromPeer", x>> \notin Lists
    BY DEF Lists, LoginReplies, Gamelists
  <2>2. /\ <<"onGamelist", DOMAIN games \ {p}>> \in Lists
        /\ <<"onGamelist", DOMAIN games \ {p}>> \in Current(DOMAIN games \ {p})
    BY <1>1 DEF Lists, Gamelists, Current
  <2>3. Lists \ Current(DOMAIN games \ {p}) \in SUBSET Commands
    BY Kinds
  <2>4. QED
    BY <1>3, <2>1, <2>2, <2>3, Kinds
<1>6. ASSUME NEW x \in Player, ~Is(k, p), x # p PROVE ~Occurs(r, Changes(x))
  <2>1. /\ \A y : <<"onHostLeft", y>> \notin Changes(x) /\ <<"onGamelist", y>> \notin Changes(x)
        /\ <<"disconnectFromPeer", p>> \notin Changes(x)
    BY <1>6 DEF Changes, Connects
  <2>2. Changes(x) \in SUBSET Commands
    BY Kinds
  <2>3. QED
    BY <1>3, <1>6, <2>1, <2>2
<1>7. ASSUME k \notin DOMAIN socketPlayers PROVE ~Occurs(r, Commands \ Gamelists)
  <2>1. \A f : ~Is(k, f)
    BY <1>7 DEF Is
  <2>2. <<"onGamelist", DOMAIN games \ {p}>> \notin Commands \ Gamelists
    BY <1>1 DEF Gamelists
  <2>3. Commands \ Gamelists \in SUBSET Commands
    BY Kinds
  <2>4. QED
    BY <1>3, <2>1, <2>2, <2>3
<1>8. QED
  BY <1>3, <1>4, <1>5, <1>6, <1>7 DEF r

\* What is heard of a player's joining.
LEMMA JoinNews ==
  ASSUME ServerTypes, BooksAgree, OneGameEach, NEW k \in sockets,
         NEW p \in DOMAIN playerSockets, NEW g \in DOMAIN GamesWithout(p)
  PROVE  LET r == SentTo(k, JoinCommands(p, g)) IN
         /\ JoinCommands(p, g) \in Seq(Addressed)
         /\ r \in Seq(Commands)
         /\ ~Occurs(r, LoginReplies) /\ ~Occurs(r, IceMsgs) /\ ~Occurs(r, Lists)
         /\ k \notin DOMAIN socketPlayers => ~Occurs(r, Commands)
         /\ \A x \in Player : ~Is(k, p) /\ x # p => ~Occurs(r, Changes(x))
         /\ \A x \in Player : Is(k, p) /\ x \in games[g] \ {p} =>
              Ends(r, Connects(x), Changes(x))
         /\ \A y \in games[g] \ {p} : Is(k, y) => Ends(r, Connects(p), Changes(p))
<1> DEFINE r == SentTo(k, JoinCommands(p, g))
           others == GamesWithout(p)[g] \ {p, g}
<1>1. /\ g \in DOMAIN games /\ g # p /\ GamesWithout(p)[g] = games[g] \ {p}
      /\ g \in games[g]
  <2>1. /\ DOMAIN GamesWithout(p) = DOMAIN games \ {p}
        /\ \A h \in DOMAIN games \ {p} : GamesWithout(p)[h] = games[h] \ {p}
    BY WithoutPlayer
  <2>2. QED
    BY <2>1 DEF OneGameEach
<1>2. /\ p \in Player /\ g \in Player /\ g \in DOMAIN playerSockets
      /\ games[g] \subseteq DOMAIN playerSockets /\ games[g] \subseteq Player
  BY <1>1 DEF ServerTypes, BooksAgree
<1>3. /\ r \in Seq(Commands)
      /\ \A A \in SUBSET Commands :
           Occurs(r, A) <=>
              \/ Is(k, g) /\ <<"connectToPeer", p>> \in A
              \/ Is(k, p) /\ <<"joinGame", g>> \in A
              \/ \E f \in others :
                   \/ Is(k, f) /\ <<"connectToPeer", p>> \in A
                   \/ Is(k, p) /\ <<"connectToPeer", f>> \in A
  BY <1>1, <1>2, JoinHeard
<1>4. JoinCommands(p, g) \in Seq(Addressed)
  BY <1>1, <1>2, JoinSends
<1>5. others = games[g] \ {p, g}
  BY <1>1
<1> HIDE DEF r, others
<1>6. ~Occurs(r, LoginReplies) /\ ~Occurs(r, IceMsgs) /\ ~Occurs(r, Lists)
  <2>1. \A x : /\ <<"connectToPeer", x>> \notin LoginReplies \cup IceMsgs \cup Lists
               /\ <<"joinGame", x>> \notin LoginReplies \cup IceMsgs \cup Lists
    BY DEF Lists, LoginReplies, IceMsgs, Gamelists
  <2>2. QED
    BY <1>3, <2>1, Kinds
<1>7. ASSUME k \notin DOMAIN socketPlayers PROVE ~Occurs(r, Commands)
  <2>1. \A f : ~Is(k, f)
    BY <1>7 DEF Is
  <2>2. Commands \in SUBSET Commands
    OBVIOUS
  <2>3. QED
    BY <1>3, <2>1, <2>2
<1>8. ASSUME NEW x \in Player, ~Is(k, p), x # p PROVE ~Occurs(r, Changes(x))
  <2>1. <<"connectToPeer", p>> \notin Changes(x)
    BY <1>8 DEF Changes, Connects
  <2>2. Changes(x) \in SUBSET Commands
    BY Kinds
  <2>3. QED
    BY <1>3, <1>8, <2>1, <2>2
<1>9. ASSUME NEW x \in Player, Occurs(r, Connects(x))
      PROVE  Ends(r, Connects(x), Changes(x))
  <2>1. Changes(x) \in SUBSET Commands /\ Changes(x) \ Connects(x) \in SUBSET Commands
        /\ Connects(x) \in SUBSET Commands
    BY Kinds
  <2>2. \A y : /\ <<"connectToPeer", y>> \notin Changes(x) \ Connects(x)
               /\ <<"joinGame", y>> \notin Changes(x) \ Connects(x)
    BY DEF Changes, Connects
  <2>3. ~Occurs(r, Changes(x) \ Connects(x))
    BY <1>3, <2>1, <2>2
  <2>4. Connects(x) \subseteq Changes(x)
    BY DEF Changes
  <2>5. Occurs(r, Changes(x))
    BY <1>9, <2>4 DEF Occurs
  <2>6. QED
    BY <1>3, <2>3, <2>5, LastAmong
<1>10. ASSUME NEW x \in Player, Is(k, p), x \in games[g] \ {p}
       PROVE  Occurs(r, Connects(x))
  <2>1. <<"joinGame", x>> \in Connects(x) /\ <<"connectToPeer", x>> \in Connects(x)
    BY DEF Connects
  <2>2. Connects(x) \in SUBSET Commands
    BY Kinds
  <2>3. QED
    BY <1>3, <1>5, <1>10, <2>1, <2>2
<1>11. ASSUME NEW y \in games[g] \ {p}, Is(k, y) PROVE Occurs(r, Connects(p))
  <2>1. <<"connectToPeer", p>> \in Connects(p)
    BY DEF Connects
  <2>2. Connects(p) \in SUBSET Commands
    BY <1>2, Kinds
  <2>3. QED
    BY <1>3, <1>5, <1>11, <2>1, <2>2
<1>12. QED
  BY <1>2, <1>3, <1>4, <1>6, <1>7, <1>8, <1>9, <1>10, <1>11 DEF r

-----------------------------------------------------------------------------
(* What a step of the server does while every connection begins with a     *)
(* login.                                                                  *)

Serves(j) == ServerReads(j) \/ ServerNotices(j)

\* The handlers, by what they do to the games and what they send.
HostCommands(j, p) ==
  LeaveCommands(p) \o <<To(j, "hostGame", All), Gamelist(games')>>

Idles(j) ==
  /\ UNCHANGED <<toClient, games, playersGames, playerSockets>>
  /\ j \in DOMAIN socketPlayers /\ ServerReads(j) =>
       Head(toServer[j]) \notin GameRequests
LogsIn(j) ==
  /\ ServerReads(j)
  /\ Head(toServer[j]) = <<"login", All>>
  /\ j \notin DOMAIN socketPlayers
  /\ currentPlayerId < MaxPlayers
  /\ socketPlayers' = Put(socketPlayers, j, currentPlayerId)
  /\ SendAll(<<To(j, "loggedIn", <<currentPlayerId, DOMAIN games>>)>>)
  /\ UNCHANGED <<games, playersGames>>
HostsAt(j, p) ==
  /\ ServerReads(j)
  /\ Head(toServer[j]) = <<"hostGame", All>>
  /\ Is(j, p)
  /\ Hosts(p)
  /\ SendAll(HostCommands(j, p))
LeavesAt(j, p) ==
  /\ Is(j, p)
  /\ Leaves(p)
  /\ SendAll(LeaveCommands(p))
JoinsAt(j, p, g) ==
  /\ ServerReads(j)
  /\ Head(toServer[j]) = <<"joinGame", g>>
  /\ Is(j, p)
  /\ Joins(p, g)
  /\ SendAll(LeaveCommands(p) \o JoinCommands(p, g))
Forwards(j, sender, receiver) ==
  /\ ServerReads(j)
  /\ Head(toServer[j]) = <<"sendIceMsg", <<sender, receiver>>>>
  /\ sender \in Nat
  /\ j \in DOMAIN socketPlayers
  /\ receiver \in DOMAIN playerSockets
  /\ SendAll(<<To(playerSockets[receiver], "iceMsg", <<socketPlayers[j], sender>>)>>)
  /\ UNCHANGED <<games, playersGames>>

LEMMA ServesStep ==
  ASSUME Typed, LoginsFirst, NEW j \in Connection, Serves(j)
  PROVE  /\ UNCHANGED <<live, client, losses>> /\ j \in sockets
         /\ \/ Idles(j)
            \/ LogsIn(j)
            \/ \E p : HostsAt(j, p)
            \/ \E p : LeavesAt(j, p)
            \/ \E p : \E g : JoinsAt(j, p, g)
            \/ \E sender, receiver : Forwards(j, sender, receiver)
<1> DEFINE Goal ==
            \/ Idles(j)
            \/ LogsIn(j)
            \/ \E p : HostsAt(j, p)
            \/ \E p : LeavesAt(j, p)
            \/ \E p : \E g : JoinsAt(j, p, g)
            \/ \E sender, receiver : Forwards(j, sender, receiver)
<1>1. UNCHANGED <<live, client, losses>> /\ j \in sockets
  BY DEF Serves, ServerReads, ServerNotices
<1>2. ASSUME ServerNotices(j) PROVE Goal
  <2>1. CASE j \notin DOMAIN socketPlayers
    BY <1>2, <2>1 DEF ServerNotices, Disconnected, Idles
  <2>2. CASE j \in DOMAIN socketPlayers
    <3>1. LeavesAt(j, socketPlayers[j])
      BY <1>2, <2>2 DEF ServerNotices, Disconnected, LeavesAt, Leaves, Is
    <3>2. QED
      BY <3>1
  <2>3. QED
    BY <2>1, <2>2
<1>3. ASSUME ServerReads(j) PROVE Goal
  <2> DEFINE m == Head(toServer[j])
             p == socketPlayers[j]
  <2>1. toServer[j] # <<>> /\ toServer[j] \in Seq(Requests)
    BY <1>3 DEF ServerReads, Typed, QueueTypes
  <2>2. m \in Requests /\ m \notin Reconnects
    BY <2>1, HeadQueue DEF LoginsFirst
  <2>3. j \notin DOMAIN socketPlayers => m = <<"login", All>>
    BY <2>1 DEF LoginsFirst
  <2>4. /\ m = <<m[1], m[2]>> /\ m[1] # "reconnect"
        /\ m \in GameRequests <=> m[1] \in {"hostGame", "leaveGame", "joinGame"}
        /\ m[1] \in {"hostGame", "leaveGame", "login"} => m[2] = All
    BY <2>2, RequestForms
  <2>5. m[1] = "sendIceMsg" => m[2] = <<m[2][1], m[2][2]>> /\ m[2][1] \in Nat
    <3>1. m[1] = "sendIceMsg" => m \in IceRequests
      BY <2>2, RequestForms
    <3>2. QED
      BY <3>1 DEF IceRequests
  <2>6. \/ m[1] = "login" /\ Login(j)
        \/ m[1] = "hostGame" /\ HostGame(j)
        \/ m[1] = "leaveGame" /\ LeaveGame(j)
        \/ m[1] = "joinGame" /\ JoinGame(j, m[2])
        \/ m[1] = "sendIceMsg" /\ SendIceMsg(j, m[2][1], m[2][2])
    BY <1>3, <2>4 DEF ServerReads
  <2>7. m = Head(toServer[j])
    OBVIOUS
  <2> HIDE DEF m
  <2>8. CASE m[1] = "login" /\ Login(j)
    <3>1. CASE j \in DOMAIN socketPlayers
      <4>1. Idles(j)
        BY <2>4, <2>7, <2>8, <3>1 DEF Login, Idles
      <4>2. QED
        BY <4>1
    <3>2. CASE j \notin DOMAIN socketPlayers
      <4>1. LogsIn(j)
        BY <1>3, <2>3, <2>7, <2>8, <3>2 DEF Login, LogsIn
      <4>2. QED
        BY <4>1
    <3>3. QED
      BY <3>1, <3>2
  <2>9. ASSUME m[1] # "login" PROVE j \in DOMAIN socketPlayers /\ Is(j, p)
    <3>1. m # <<"login", All>>
      BY <2>9
    <3>2. QED
      BY <2>3, <3>1 DEF Is
  <2>10. CASE m[1] = "hostGame" /\ HostGame(j)
    <3>1. HostsAt(j, p)
      BY <1>3, <2>4, <2>7, <2>9, <2>10 DEF HostGame, HostsAt, Hosts, HostCommands
    <3>2. QED
      BY <3>1
  <2>11. CASE m[1] = "leaveGame" /\ LeaveGame(j)
    <3>1. LeavesAt(j, p)
      BY <2>9, <2>11 DEF LeaveGame, LeavesAt, Leaves
    <3>2. QED
      BY <3>1
  <2>12. CASE m[1] = "joinGame" /\ JoinGame(j, m[2])
    <3>1. CASE m[2] \in DOMAIN GamesWithout(p)
      <4>1. JoinsAt(j, p, m[2])
        BY <1>3, <2>4, <2>7, <2>9, <2>12, <3>1 DEF JoinGame, JoinsAt, Joins
      <4>2. QED
        BY <4>1
    <3>2. CASE m[2] \notin DOMAIN GamesWithout(p)
      <4>1. Leaves(p) /\ SendAll(LeaveCommands(p) \o <<>>)
        BY <2>9, <2>12, <3>2 DEF JoinGame, Leaves
      <4>2. p \in Player
        BY <2>9, <2>12 DEF Typed, ServerTypes
      <4>3. LeaveCommands(p) \o <<>> = LeaveCommands(p)
        BY <1>1, <4>2, LeaveSends, ConcatEmptySeq DEF Typed
      <4>4. SendAll(LeaveCommands(p))
        BY <4>1, <4>3
      <4>5. LeavesAt(j, p)
        BY <2>9, <2>12, <4>1, <4>4 DEF LeavesAt
      <4>6. QED
        BY <4>5
    <3>3. QED
      BY <3>1, <3>2
  <2>13. CASE m[1] = "sendIceMsg" /\ SendIceMsg(j, m[2][1], m[2][2])
    <3>1. j \in DOMAIN socketPlayers /\ m \notin GameRequests
      BY <2>4, <2>9, <2>13
    <3>2. CASE m[2][2] \notin DOMAIN playerSockets
      <4>1. Idles(j)
        BY <2>7, <2>13, <3>1, <3>2 DEF SendIceMsg, Idles
      <4>2. QED
        BY <4>1
    <3>3. CASE m[2][2] \in DOMAIN playerSockets
      <4>1. m = <<"sendIceMsg", <<m[2][1], m[2][2]>>>>
        BY <2>4, <2>5, <2>13
      <4>2. socketPlayers' = socketPlayers
        BY <2>13, <3>1, <3>3 DEF SendIceMsg
      <4>3. /\ SendAll(<<To(playerSockets[m[2][2]], "iceMsg",
                            <<socketPlayers[j], m[2][1]>>)>>)
            /\ UNCHANGED <<games, playersGames>>
        BY <2>13, <3>3, <4>2 DEF SendIceMsg
      <4>4. Forwards(j, m[2][1], m[2][2])
        BY <1>3, <2>5, <2>7, <2>13, <3>1, <3>3, <4>1, <4>3 DEF Forwards
      <4>5. QED
        BY <4>4
    <3>4. QED
      BY <3>2, <3>3
  <2> HIDE DEF Goal
  <2>14. QED
    BY <2>6, <2>8, <2>10, <2>11, <2>12, <2>13
<1> HIDE DEF Goal
<1>4. Goal
  BY <1>2, <1>3 DEF Serves
<1>5. QED
  BY <1>1, <1>4 DEF Goal

-----------------------------------------------------------------------------
(* What a client hears of it.                                              *)

\* What was added to the queue of k, by what it says on the games.
News(k, y, r) ==
  /\ r \in Seq(Commands) /\ toClient'[k] = toClient[k] \o r
  /\ ~Occurs(r, LoginReplies)
  /\ IF Occurs(r, Lists) THEN Ends(r, Current(DOMAIN games'), Lists)
                         ELSE DOMAIN games' = DOMAIN games
  /\ \A g \in DOMAIN games' : \A x \in games'[g] \ {y} :
       y \in games'[g] =>
         \/ Ends(r, Connects(x), Changes(x))
         \/ /\ ~Occurs(r, Changes(x))
            /\ g \in DOMAIN games /\ y \in games[g] /\ x \in games[g]

Added(k, cs) ==
  /\ cs \in Seq(Addressed)
  /\ SentTo(k, cs) \in Seq(Commands)
  /\ toClient'[k] = toClient[k] \o SentTo(k, cs)

LEMMA SendAdds ==
  ASSUME Typed, NEW k \in live, NEW cs \in Seq(Addressed), SendAll(cs)
  PROVE  Added(k, cs)
<1>1. k \in Connection
  BY DEF Typed, ServerTypes
<1>2. toClient \in [Connection -> Seq(Commands)]
  BY DEF Typed, QueueTypes
<1>3. QED
  BY <1>1, <1>2, SendAllQueues DEF Added

\* The commands of hostGame.
LEMMA HostNews ==
  ASSUME ServerTypes, BooksAgree, OneGameEach, NEW k \in sockets, NEW j \in sockets,
         NEW p \in DOMAIN playerSockets, DOMAIN games' \subseteq Player
  PROVE  LET r == SentTo(k, HostCommands(j, p)) IN
         /\ HostCommands(j, p) \in Seq(Addressed)
         /\ r \in Seq(Commands)
         /\ ~Occurs(r, LoginReplies) /\ ~Occurs(r, IceMsgs)
         /\ Ends(r, Current(DOMAIN games'), Lists) /\ Occurs(r, Lists)
         /\ \A x \in Player : ~Is(k, p) /\ x # p => ~Occurs(r, Changes(x))
         /\ k \notin DOMAIN socketPlayers /\ k # j => ~Occurs(r, Commands \ Gamelists)
<1> DEFINE r == SentTo(k, HostCommands(j, p))
           first == <<To(j, "hostGame", All)>>
           last == <<To(All, "onGamelist", DOMAIN games')>>
           rest == first \o last
           list == <<"onGamelist", DOMAIN games'>>
           left == SentTo(k, LeaveCommands(p))
<1>1. p \in Player /\ j \in Connection
  BY DEF ServerTypes
<1>2. rest = <<To(j, "hostGame", All), Gamelist(games')>>
  BY TwoInQueue DEF Gamelist
<1>3. HostCommands(j, p) = LeaveCommands(p) \o rest
  BY <1>2 DEF HostCommands
<1>4. /\ first \in Seq(Addressed) /\ SentTo(k, first) \in Seq(Commands)
      /\ \A A \in SUBSET Commands :
           Occurs(SentTo(k, first), A) => <<"hostGame", All>> \in A /\ k = j
  <2>1. <<"hostGame", All>> \in Commands /\ sockets \subseteq Connection
    BY DEF Commands, ServerTypes
  <2>2. QED
    BY <2>1, OneHeard
<1>5. /\ last \in Seq(Addressed) /\ SentTo(k, last) \in Seq(Commands)
      /\ \A A \in SUBSET Commands : Occurs(SentTo(k, last), A) <=> list \in A
  <2>1. DOMAIN games' \in SUBSET Player
    OBVIOUS
  <2> HIDE DEF last, list
  <2>2. QED
    BY <2>1, GamelistHeard DEF last, list
<1>6. LeaveCommands(p) \in Seq(Addressed)
  BY <1>1, LeaveSends
<1> HIDE DEF first, last, list
<1>7. rest \in Seq(Addressed)
  BY <1>4, <1>5, ConcatProperties
<1>8. /\ SentTo(k, rest) \in Seq(Commands)
      /\ \A A \in SUBSET Commands :
           Occurs(SentTo(k, rest), A) => list \in A \/ (<<"hostGame", All>> \in A /\ k = j)
      /\ \A A \in SUBSET Commands, B \in SUBSET Commands :
           Ends(SentTo(k, last), A, B) => Ends(SentTo(k, rest), A, B)
  BY <1>4, <1>5, ConcatHeard
<1> HIDE DEF rest
<1>9. /\ HostCommands(j, p) \in Seq(Addressed) /\ r \in Seq(Commands)
      /\ \A A \in SUBSET Commands :
           Occurs(r, A) => Occurs(left, A) \/ Occurs(SentTo(k, rest), A)
      /\ \A A \in SUBSET Commands, B \in SUBSET Commands :
           Ends(SentTo(k, rest), A, B) => Ends(r, A, B)
  BY <1>3, <1>6, <1>7, ConcatHeard
<1>10. /\ ~Occurs(left, LoginReplies) /\ ~Occurs(left, IceMsgs)
       /\ \A x \in Player : ~Is(k, p) /\ x # p => ~Occurs(left, Changes(x))
       /\ k \notin DOMAIN socketPlayers => ~Occurs(left, Commands \ Gamelists)
  BY LeaveNews
<1> HIDE DEF r, left
<1>11. /\ <<"hostGame", All>> \notin LoginReplies /\ list \notin LoginReplies
       /\ <<"hostGame", All>> \notin IceMsgs /\ list \notin IceMsgs
       /\ \A x : <<"hostGame", All>> \notin Changes(x) /\ list \notin Changes(x)
       /\ list \in Current(DOMAIN games') /\ list \in Lists
       /\ list \notin Commands \ Gamelists
  BY DEF list, LoginReplies, IceMsgs, Changes, Connects, Current, Lists, Gamelists
<1>12. ~Occurs(r, LoginReplies) /\ ~Occurs(r, IceMsgs)
  BY <1>8, <1>9, <1>10, <1>11, Kinds
<1>13. Ends(r, Current(DOMAIN games'), Lists)
  <2>1. /\ Lists \in SUBSET Commands /\ Current(DOMAIN games') \in SUBSET Commands
        /\ Lists \ Current(DOMAIN games') \in SUBSET Commands
    BY Kinds
  <2>2. Occurs(SentTo(k, last), Lists) /\ ~Occurs(SentTo(k, last), Lists \ Current(DOMAIN games'))
    BY <1>5, <1>11, <2>1
  <2>3. Ends(SentTo(k, last), Current(DOMAIN games'), Lists)
    BY <1>5, <2>2, LastAmong
  <2>4. QED
    BY <1>8, <1>9, <2>1, <2>3
<1>14. Occurs(r, Lists)
  <2>1. Current(DOMAIN games') \subseteq Lists
    BY Kinds
  <2>2. QED
    BY <1>13, <2>1, SubsetQueue
<1>15. ASSUME NEW x \in Player, ~Is(k, p), x # p PROVE ~Occurs(r, Changes(x))
  <2>1. Changes(x) \in SUBSET Commands
    BY Kinds
  <2>2. QED
    BY <1>8, <1>9, <1>10, <1>11, <1>15, <2>1
<1>16. ASSUME k \notin DOMAIN socketPlayers, k # j
       PROVE  ~Occurs(r, Commands \ Gamelists)
  <2>1. Commands \ Gamelists \in SUBSET Commands
    BY Kinds
  <2>2. QED
    BY <1>8, <1>9, <1>10, <1>11, <1>16, <2>1
<1>17. QED
  BY <1>9, <1>12, <1>13, <1>14, <1>15, <1>16 DEF r

LEMMA NewsToKnown ==
  ASSUME Typed, BooksAgree, OneGameEach, PlayersOK, LoginsFirst, Sessions,
         [Next]_vars, NEW j \in Connection, Serves(j),
         NEW k \in live, NEW y, Is(k, y)
  PROVE  \E r : News(k, y, r)
<1> DEFINE Goal == \E r : News(k, y, r)
<1>1. /\ ServerTypes /\ j \in sockets /\ k \in sockets
      /\ \A q : Is(j, q) => q \in DOMAIN playerSockets
      /\ \A q : Is(j, q) /\ Is(k, q) => j = k
      /\ y \in Player /\ \A q : Is(k, q) => q = y
  BY ServesStep DEF Typed, ServerTypes, Sessions, BooksAgree, Is
<1>2. /\ DOMAIN games' \subseteq Player
      /\ \A g \in DOMAIN games' : games'[g] \subseteq Player
  BY GamesTypes DEF Typed
<1>3. toClient[k] \in Seq(Commands)
  BY <1>1 DEF Typed, QueueTypes, ServerTypes
<1>4. ASSUME NEW r \in Seq(Commands), toClient'[k] = toClient[k] \o r,
             ~Occurs(r, LoginReplies), ~Occurs(r, Lists),
             \A x \in Player : ~Occurs(r, Changes(x)), UNCHANGED games
      PROVE  Goal
  <2>1. \A g \in DOMAIN games' : \A x \in games'[g] : x \in Player
    BY <1>2
  <2>2. News(k, y, r)
    BY <1>4, <2>1 DEF News
  <2>3. QED
    BY <2>2
<1>5. ASSUME Idles(j) PROVE Goal
  <2>1. /\ <<>> \in Seq(Commands) /\ UNCHANGED games
        /\ toClient'[k] = toClient[k] \o <<>>
    BY <1>3, <1>5, ConcatEmptySeq, EmptySeq DEF Idles
  <2>2. \A A : ~Occurs(<<>>, A)
    BY EmptyQueue
  <2> HIDE DEF Goal
  <2>3. QED
    BY <1>4, <2>1, <2>2
<1>6. ASSUME LogsIn(j) PROVE Goal
  <2> DEFINE m == <<"loggedIn", <<currentPlayerId, DOMAIN games>>>>
             cs == <<To(j, "loggedIn", <<currentPlayerId, DOMAIN games>>)>>
  <2>1. cs \in Seq(Addressed) /\ m \in Commands
    BY <1>1, <1>6, LoginReplyTypes DEF LogsIn
  <2>2. j # k
    BY <1>6 DEF LogsIn, Is
  <2>3. \A A \in SUBSET Commands : ~Occurs(SentTo(k, cs), A)
    BY <1>1, <2>1, <2>2, OneHeard DEF ServerTypes
  <2>4. SendAll(cs) /\ UNCHANGED games
    BY <1>6 DEF LogsIn
  <2> HIDE DEF cs
  <2>5. Added(k, cs)
    BY <2>1, <2>4, SendAdds
  <2> HIDE DEF Goal
  <2>6. QED
    BY <1>4, <2>3, <2>4, <2>5, Kinds DEF Added
<1>7. ASSUME NEW p, HostsAt(j, p) PROVE Goal
  <2> DEFINE r == SentTo(k, HostCommands(j, p))
  <2>1. p \in DOMAIN playerSockets /\ Hosts(p)
    BY <1>1, <1>7 DEF HostsAt
  <2>2. HostedMaps(p)
    BY <2>1, HostsDo
  <2>3. /\ HostCommands(j, p) \in Seq(Addressed)
        /\ r \in Seq(Commands)
        /\ ~Occurs(r, LoginReplies) /\ ~Occurs(r, IceMsgs)
        /\ Ends(r, Current(DOMAIN games'), Lists) /\ Occurs(r, Lists)
        /\ \A x \in Player : ~Is(k, p) /\ x # p => ~Occurs(r, Changes(x))
    BY <1>1, <1>2, <2>1, HostNews
  <2>4. Added(k, HostCommands(j, p))
    BY <1>7, <2>3, SendAdds DEF HostsAt
  <2> HIDE DEF r
  <2>5. ASSUME NEW g \in DOMAIN games', NEW x \in games'[g] \ {y}, y \in games'[g]
        PROVE  ~Occurs(r, Changes(x)) /\ g \in DOMAIN games
                 /\ y \in games[g] /\ x \in games[g]
    <3>1. g # p
      BY <2>2, <2>5 DEF HostedMaps
    <3>2. g \in DOMAIN games /\ games'[g] = games[g] \ {p}
      BY <2>2, <3>1 DEF HostedMaps
    <3>3. y # p /\ x # p /\ x \in Player
      BY <1>2, <2>5, <3>2
    <3>4. QED
      BY <1>1, <2>3, <2>5, <3>2, <3>3
  <2>6. News(k, y, r)
    BY <2>3, <2>4, <2>5 DEF News, Added, r
  <2>7. QED
    BY <2>6
<1>8. ASSUME NEW p, LeavesAt(j, p) PROVE Goal
  <2> DEFINE r == SentTo(k, LeaveCommands(p))
  <2>1. p \in DOMAIN playerSockets /\ Leaves(p) /\ p \in Player
    BY <1>1, <1>8 DEF LeavesAt, ServerTypes
  <2>2. LeftMaps(p)
    BY <2>1, LeavesDo
  <2>3. /\ r \in Seq(Commands)
        /\ ~Occurs(r, LoginReplies) /\ ~Occurs(r, IceMsgs)
        /\ p \in DOMAIN games => Occurs(r, Lists)
        /\ p \notin DOMAIN games => ~Occurs(r, Lists)
        /\ ~Occurs(r, Lists \ Current(DOMAIN games \ {p}))
        /\ \A x \in Player : ~Is(k, p) /\ x # p => ~Occurs(r, Changes(x))
    BY <1>1, <2>1, LeaveNews
  <2>4. LeaveCommands(p) \in Seq(Addressed)
    BY <1>1, <2>1, LeaveSends
  <2>5. Added(k, LeaveCommands(p))
    BY <1>8, <2>4, SendAdds DEF LeavesAt
  <2> HIDE DEF r
  <2>6. ASSUME NEW g \in DOMAIN games', NEW x \in games'[g] \ {y}, y \in games'[g]
        PROVE  ~Occurs(r, Changes(x)) /\ g \in DOMAIN games
                 /\ y \in games[g] /\ x \in games[g]
    <3>1. g \in DOMAIN games /\ games'[g] = games[g] \ {p}
      BY <2>2 DEF LeftMaps
    <3>2. y # p /\ x # p /\ x \in Player
      BY <1>2, <2>6, <3>1
    <3>3. QED
      BY <1>1, <2>3, <2>6, <3>1, <3>2
  <2>7. IF Occurs(r, Lists) THEN Ends(r, Current(DOMAIN games'), Lists)
                            ELSE DOMAIN games' = DOMAIN games
    <3>1. DOMAIN games' = DOMAIN games \ {p}
      BY <2>2 DEF LeftMaps
    <3>2. Occurs(r, Lists) => Ends(r, Current(DOMAIN games'), Lists)
      BY <2>3, <3>1, LastAmong
    <3>3. QED
      BY <2>3, <3>1, <3>2
  <2>8. News(k, y, r)
    BY <2>3, <2>5, <2>6, <2>7 DEF News, Added, r
  <2>9. QED
    BY <2>8
<1>9. ASSUME NEW p, NEW g, JoinsAt(j, p, g) PROVE Goal
  <2> DEFINE left == SentTo(k, LeaveCommands(p))
             joined == SentTo(k, JoinCommands(p, g))
             cs == LeaveCommands(p) \o JoinCommands(p, g)
             r == SentTo(k, cs)
  <2>1. /\ p \in DOMAIN playerSockets /\ Joins(p, g) /\ p \in Player
        /\ g \in DOMAIN GamesWithout(p)
    BY <1>1, <1>9 DEF JoinsAt, Joins, ServerTypes
  <2>2. JoinedMaps(p, g)
    BY <2>1, JoinsDo
  <2>3. /\ left \in Seq(Commands)
        /\ ~Occurs(left, LoginReplies)
        /\ p \in DOMAIN games => Occurs(left, Lists)
        /\ p \notin DOMAIN games => ~Occurs(left, Lists)
        /\ ~Occurs(left, Lists \ Current(DOMAIN games \ {p}))
        /\ \A x \in Player : ~Is(k, p) /\ x # p => ~Occurs(left, Changes(x))
    BY <1>1, <2>1, LeaveNews
  <2>4. /\ JoinCommands(p, g) \in Seq(Addressed)
        /\ joined \in Seq(Commands)
        /\ ~Occurs(joined, LoginReplies) /\ ~Occurs(joined, Lists)
        /\ \A x \in Player : ~Is(k, p) /\ x # p => ~Occurs(joined, Changes(x))
        /\ \A x \in Player : Is(k, p) /\ x \in games[g] \ {p} =>
             Ends(joined, Connects(x), Changes(x))
        /\ \A z \in games[g] \ {p} : Is(k, z) => Ends(joined, Connects(p), Changes(p))
    BY <1>1, <2>1, JoinNews
  <2>5. LeaveCommands(p) \in Seq(Addressed)
    BY <1>1, <2>1, LeaveSends
  <2>6. /\ cs \in Seq(Addressed) /\ r \in Seq(Commands)
        /\ \A A \in SUBSET Commands : Occurs(r, A) <=> Occurs(left, A) \/ Occurs(joined, A)
        /\ \A A \in SUBSET Commands, B \in SUBSET Commands :
             Ends(r, A, B) <=> \/ Ends(joined, A, B)
                               \/ Ends(left, A, B) /\ ~Occurs(joined, B)
    BY <2>4, <2>5, ConcatHeard
  <2>7. Added(k, cs)
    BY <1>9, <2>6, SendAdds DEF JoinsAt
  <2> HIDE DEF r, left, joined
  <2>8. ~Occurs(r, LoginReplies)
    BY <2>3, <2>4, <2>6, Kinds
  <2>9. IF Occurs(r, Lists) THEN Ends(r, Current(DOMAIN games'), Lists)
                            ELSE DOMAIN games' = DOMAIN games
    <3>1. DOMAIN games' = DOMAIN games \ {p}
      BY <2>2 DEF JoinedMaps
    <3>2. Lists \in SUBSET Commands /\ Current(DOMAIN games') \in SUBSET Commands
      BY <1>2, Kinds
    <3>3. Occurs(r, Lists) <=> Occurs(left, Lists)
      BY <2>4, <2>6, <3>2
    <3>4. Occurs(left, Lists) => Ends(left, Current(DOMAIN games'), Lists)
      BY <2>3, <3>1, LastAmong
    <3>5. Ends(left, Current(DOMAIN games'), Lists) => Ends(r, Current(DOMAIN games'), Lists)
      BY <2>4, <2>6, <3>2
    <3>6. QED
      BY <2>3, <3>1, <3>3, <3>4, <3>5
  <2>10. ASSUME NEW h \in DOMAIN games', NEW x \in games'[h] \ {y}, y \in games'[h]
         PROVE  \/ Ends(r, Connects(x), Changes(x))
                \/ /\ ~Occurs(r, Changes(x))
                   /\ h \in DOMAIN games /\ y \in games[h] /\ x \in games[h]
    <3>1. /\ h \in DOMAIN games
          /\ h # g => games'[h] = games[h] \ {p}
          /\ h = g => games'[h] = games[h] \cup {p}
      BY <2>2 DEF JoinedMaps
    <3>2. x \in Player /\ Connects(x) \in SUBSET Commands /\ Changes(x) \in SUBSET Commands
      BY <1>2, <2>10, Kinds
    <3>3. CASE y # p /\ x # p
      <4>1. ~Is(k, p)
        BY <1>1, <3>3
      <4>2. ~Occurs(r, Changes(x))
        BY <2>3, <2>4, <2>6, <3>2, <3>3, <4>1
      <4>3. QED
        BY <2>10, <3>1, <3>3, <4>2
    <3>4. CASE x = p
      <4>1. h = g /\ y \in games[g] \ {p}
        BY <2>10, <3>1, <3>4
      <4>2. Ends(joined, Connects(x), Changes(x))
        BY <2>4, <3>4, <4>1
      <4>3. QED
        BY <2>6, <3>2, <4>2
    <3>5. CASE y = p
      <4>1. h = g /\ x \in games[g] \ {p} /\ Is(k, p)
        BY <2>10, <3>1, <3>5
      <4>2. Ends(joined, Connects(x), Changes(x))
        BY <2>4, <3>2, <4>1
      <4>3. QED
        BY <2>6, <3>2, <4>2
    <3>6. QED
      BY <3>3, <3>4, <3>5
  <2>11. News(k, y, r)
    BY <2>6, <2>7, <2>8, <2>9, <2>10 DEF News, Added, r
  <2>12. QED
    BY <2>11
<1>10. ASSUME NEW sender, NEW receiver, Forwards(j, sender, receiver) PROVE Goal
  <2> DEFINE m == <<"iceMsg", <<socketPlayers[j], sender>>>>
             cs == <<To(playerSockets[receiver], "iceMsg", <<socketPlayers[j], sender>>)>>
  <2>1. socketPlayers[j] \in Player /\ sender \in Nat /\ receiver \in DOMAIN playerSockets
        /\ playerSockets[receiver] \in sockets
    BY <1>1, <1>10 DEF Forwards, ServerTypes, BooksAgree
  <2>2. m \in Commands /\ m \in IceMsgs /\ cs \in Seq(Addressed)
    BY <1>1, <2>1, IceMsgTypes
  <2>3. \A A \in SUBSET Commands : Occurs(SentTo(k, cs), A) => m \in A
    BY <1>1, <2>1, <2>2, OneHeard DEF ServerTypes
  <2>4. SendAll(cs) /\ UNCHANGED games
    BY <1>10 DEF Forwards
  <2>5. m \notin LoginReplies /\ m \notin Lists /\ \A x : m \notin Changes(x)
    BY DEF LoginReplies, Lists, Gamelists, Changes, Connects
  <2> HIDE DEF cs, m
  <2>6. Added(k, cs)
    BY <2>2, <2>4, SendAdds
  <2>7. \A x \in Player : ~Occurs(SentTo(k, cs), Changes(x))
    BY <2>3, <2>5, Kinds
  <2> HIDE DEF Goal
  <2>8. QED
    BY <1>4, <2>3, <2>4, <2>5, <2>6, <2>7, Kinds DEF Added
<1> HIDE DEF Goal
<1>11. Goal
  BY <1>5, <1>6, <1>7, <1>8, <1>9, <1>10, ServesStep
<1>12. QED
  BY <1>11 DEF Goal

\* A connection that is not logged in hears of nothing but lists of games.
LEMMA NewsToUnknown ==
  ASSUME Typed, BooksAgree, OneGameEach, PlayersOK, LoginsFirst, Sessions,
         [Next]_vars, NEW j \in Connection, Serves(j),
         NEW k \in live, k \notin DOMAIN socketPlayers, ~LogsIn(k)
  PROVE  \E r \in Seq(Commands) : /\ toClient'[k] = toClient[k] \o r
                                  /\ ~Occurs(r, Commands \ Gamelists)
<1> DEFINE Others == Commands \ Gamelists
           Goal == \E r \in Seq(Commands) : /\ toClient'[k] = toClient[k] \o r
                                            /\ ~Occurs(r, Others)
<1>1. /\ ServerTypes /\ j \in sockets /\ k \in sockets
      /\ \A q : Is(j, q) => q \in DOMAIN playerSockets
      /\ Others \in SUBSET Commands
  BY ServesStep, Kinds DEF Typed, ServerTypes, Sessions, BooksAgree, Is
<1>2. DOMAIN games' \subseteq Player
  BY GamesTypes DEF Typed
<1>3. toClient[k] \in Seq(Commands)
  BY <1>1 DEF Typed, QueueTypes, ServerTypes
<1>4. ASSUME NEW cs, Added(k, cs), ~Occurs(SentTo(k, cs), Others) PROVE Goal
  BY <1>4 DEF Added
<1>5. ASSUME Idles(j) PROVE Goal
  <2>1. /\ <<>> \in Seq(Commands)
        /\ toClient'[k] = toClient[k] \o <<>>
    BY <1>3, <1>5, ConcatEmptySeq, EmptySeq DEF Idles
  <2>2. ~Occurs(<<>>, Others)
    BY EmptyQueue
  <2>3. QED
    BY <2>1, <2>2
<1>6. ASSUME LogsIn(j) PROVE Goal
  <2> DEFINE m == <<"loggedIn", <<currentPlayerId, DOMAIN games>>>>
             cs == <<To(j, "loggedIn", <<currentPlayerId, DOMAIN games>>)>>
  <2>1. cs \in Seq(Addressed) /\ m \in Commands
    BY <1>1, <1>6, LoginReplyTypes DEF LogsIn
  <2>2. j # k
    BY <1>6
  <2>3. ~Occurs(SentTo(k, cs), Others)
    BY <1>1, <2>1, <2>2, OneHeard DEF ServerTypes
  <2>4. SendAll(cs)
    BY <1>6 DEF LogsIn
  <2> HIDE DEF cs
  <2>5. Added(k, cs)
    BY <2>1, <2>4, SendAdds
  <2>6. QED
    BY <1>4, <2>3, <2>5
<1>7. ASSUME NEW p, HostsAt(j, p) PROVE Goal
  <2>1. p \in DOMAIN playerSockets /\ k # j
    BY <1>1, <1>7 DEF HostsAt, Is
  <2>2. /\ HostCommands(j, p) \in Seq(Addressed)
        /\ ~Occurs(SentTo(k, HostCommands(j, p)), Others)
    BY <1>1, <1>2, <2>1, HostNews
  <2>3. Added(k, HostCommands(j, p))
    BY <1>7, <2>2, SendAdds DEF HostsAt
  <2>4. QED
    BY <1>4, <2>2, <2>3
<1>8. ASSUME NEW p, LeavesAt(j, p) PROVE Goal
  <2>1. p \in DOMAIN playerSockets /\ p \in Player
    BY <1>1, <1>8 DEF LeavesAt, ServerTypes
  <2>2. ~Occurs(SentTo(k, LeaveCommands(p)), Others)
    BY <1>1, <2>1, LeaveNews
  <2>3. LeaveCommands(p) \in Seq(Addressed)
    BY <1>1, <2>1, LeaveSends
  <2>4. Added(k, LeaveCommands(p))
    BY <1>8, <2>3, SendAdds DEF LeavesAt
  <2>5. QED
    BY <1>4, <2>2, <2>4
<1>9. ASSUME NEW p, NEW g, JoinsAt(j, p, g) PROVE Goal
  <2> DEFINE cs == LeaveCommands(p) \o JoinCommands(p, g)
  <2>1. /\ p \in DOMAIN playerSockets /\ p \in Player
        /\ g \in DOMAIN GamesWithout(p)
    BY <1>1, <1>9 DEF JoinsAt, Joins, ServerTypes
  <2>2. ~Occurs(SentTo(k, LeaveCommands(p)), Others)
    BY <1>1, <2>1, LeaveNews
  <2>3. /\ JoinCommands(p, g) \in Seq(Addressed)
        /\ ~Occurs(SentTo(k, JoinCommands(p, g)), Commands)
    BY <1>1, <2>1, JoinNews
  <2>4. ~Occurs(SentTo(k, JoinCommands(p, g)), Others)
    BY <2>3 DEF Occurs
  <2>5. LeaveCommands(p) \in Seq(Addressed)
    BY <1>1, <2>1, LeaveSends
  <2>6. cs \in Seq(Addressed) /\ ~Occurs(SentTo(k, cs), Others)
    BY <1>1, <2>2, <2>3, <2>4, <2>5, ConcatHeard
  <2>7. Added(k, cs)
    BY <1>9, <2>6, SendAdds DEF JoinsAt
  <2>8. QED
    BY <1>4, <2>6, <2>7
<1>10. ASSUME NEW sender, NEW receiver, Forwards(j, sender, receiver) PROVE Goal
  <2> DEFINE m == <<"iceMsg", <<socketPlayers[j], sender>>>>
             cs == <<To(playerSockets[receiver], "iceMsg", <<socketPlayers[j], sender>>)>>
  <2>1. socketPlayers[j] \in Player /\ sender \in Nat /\ receiver \in DOMAIN playerSockets
        /\ playerSockets[receiver] \in sockets /\ playerSockets[receiver] # k
    BY <1>1, <1>10 DEF Forwards, ServerTypes, BooksAgree
  <2>2. m \in Commands /\ cs \in Seq(Addressed)
    BY <1>1, <2>1, IceMsgTypes
  <2>3. ~Occurs(SentTo(k, cs), Others)
    BY <1>1, <2>1, <2>2, OneHeard DEF ServerTypes
  <2>4. SendAll(cs)
    BY <1>10 DEF Forwards
  <2> HIDE DEF cs, m
  <2>5. Added(k, cs)
    BY <2>2, <2>4, SendAdds
  <2>6. QED
    BY <1>4, <2>3, <2>5
<1> HIDE DEF Goal
<1>11. Goal
  BY <1>5, <1>6, <1>7, <1>8, <1>9, <1>10, ServesStep
<1>12. QED
  BY <1>11 DEF Goal

\* The reply to a login.
LEMMA NewsAtLogin ==
  ASSUME Typed, Sessions, NEW k \in live, LogsIn(k)
  PROVE  LET m == <<"loggedIn", <<currentPlayerId, DOMAIN games>>>> IN
         /\ m \in LoginReplies /\ currentPlayerId \in Player
         /\ k \in DOMAIN socketPlayers' /\ socketPlayers'[k] = currentPlayerId
         /\ \E r \in Seq(Commands) :
              /\ toClient'[k] = toClient[k] \o r
              /\ \A A \in SUBSET Commands : Occurs(r, A) <=> m \in A
<1> DEFINE m == <<"loggedIn", <<currentPlayerId, DOMAIN games>>>>
           cs == <<To(k, "loggedIn", <<currentPlayerId, DOMAIN games>>)>>
<1>1. /\ ServerTypes /\ k \in sockets /\ currentPlayerId < MaxPlayers
  BY DEF LogsIn, Typed, Sessions
<1>2. cs \in Seq(Addressed) /\ m \in Commands /\ m \in LoginReplies
  BY <1>1, LoginReplyTypes
<1>3. currentPlayerId \in Player
  BY <1>2 DEF LoginReplies
<1>4. k \in DOMAIN socketPlayers' /\ socketPlayers'[k] = currentPlayerId
  BY DEF LogsIn, Put
<1>5. \A A \in SUBSET Commands : Occurs(SentTo(k, cs), A) <=> m \in A
  BY <1>1, <1>2, OneHeard DEF ServerTypes
<1>6. SendAll(cs)
  BY DEF LogsIn
<1> HIDE DEF cs
<1>7. Added(k, cs)
  BY <1>2, <1>6, SendAdds
<1>8. QED
  BY <1>2, <1>3, <1>4, <1>5, <1>7 DEF Added

\* An ICE message comes from the player whose request is forwarded.
LEMMA IceNews ==
  ASSUME Typed, BooksAgree, OneGameEach, PlayersOK, LoginsFirst, Sessions,
         [Next]_vars, NEW j \in Connection, Serves(j), NEW k \in live
  PROVE  \E r \in Seq(Commands) :
           /\ toClient'[k] = toClient[k] \o r
           /\ \A A \in SUBSET IceMsgs : Occurs(r, A) =>
                \E sender, receiver :
                  /\ Forwards(j, sender, receiver)
                  /\ <<"iceMsg", <<socketPlayers[j], sender>>>> \in A
<1> DEFINE From(A) == \E sender, receiver :
                        /\ Forwards(j, sender, receiver)
                        /\ <<"iceMsg", <<socketPlayers[j], sender>>>> \in A
           Goal == \E r \in Seq(Commands) :
                     /\ toClient'[k] = toClient[k] \o r
                     /\ \A A \in SUBSET IceMsgs : Occurs(r, A) => From(A)
<1> SUFFICES Goal
  OBVIOUS
<1>1. /\ ServerTypes /\ j \in sockets /\ k \in sockets
  BY ServesStep DEF Typed, Sessions
<1>2. CASE \E sender, receiver : Forwards(j, sender, receiver)
  <2>1. PICK sender, receiver : Forwards(j, sender, receiver)
    BY <1>2
  <2> DEFINE m == <<"iceMsg", <<socketPlayers[j], sender>>>>
             cs == <<To(playerSockets[receiver], "iceMsg", <<socketPlayers[j], sender>>)>>
  <2>2. socketPlayers[j] \in Player /\ sender \in Nat /\ receiver \in DOMAIN playerSockets
        /\ playerSockets[receiver] \in sockets
    BY <1>1, <2>1 DEF Forwards, ServerTypes, BooksAgree
  <2>3. m \in Commands /\ cs \in Seq(Addressed)
    BY <1>1, <2>2, IceMsgTypes
  <2>4. \A A \in SUBSET Commands : Occurs(SentTo(k, cs), A) => m \in A
    BY <1>1, <2>2, <2>3, OneHeard DEF ServerTypes
  <2>5. SendAll(cs)
    BY <2>1 DEF Forwards
  <2> HIDE DEF cs
  <2>6. Added(k, cs)
    BY <2>3, <2>5, SendAdds
  <2>7. \A A \in SUBSET IceMsgs : A \in SUBSET Commands
    BY Kinds
  <2>8. \A A \in SUBSET IceMsgs : Occurs(SentTo(k, cs), A) => From(A)
    BY <2>1, <2>4, <2>7
  <2>9. QED
    BY <2>6, <2>8 DEF Added
<1>3. CASE ~\E sender, receiver : Forwards(j, sender, receiver)
  <2>1. ASSUME NEW cs, Added(k, cs), ~Occurs(SentTo(k, cs), IceMsgs) PROVE Goal
    <3>1. \A A \in SUBSET IceMsgs : ~Occurs(SentTo(k, cs), A)
      BY <2>1 DEF Occurs
    <3>2. QED
      BY <2>1, <3>1 DEF Added
  <2>2. DOMAIN games' \subseteq Player
    BY GamesTypes DEF Typed
  <2>3. \A q : Is(j, q) => q \in DOMAIN playerSockets /\ q \in Player
    BY <1>1 DEF BooksAgree, Is, ServerTypes
  <2>4. ASSUME Idles(j) PROVE Goal
    <3>1. toClient[k] \in Seq(Commands)
      BY <1>1 DEF Typed, QueueTypes, ServerTypes
    <3>2. /\ <<>> \in Seq(Commands)
          /\ toClient'[k] = toClient[k] \o <<>>
      BY <2>4, <3>1, ConcatEmptySeq, EmptySeq DEF Idles
    <3>3. \A A : ~Occurs(<<>>, A)
      BY EmptyQueue
    <3>4. QED
      BY <3>2, <3>3
  <2>5. ASSUME LogsIn(j) PROVE Goal
    <3> DEFINE m == <<"loggedIn", <<currentPlayerId, DOMAIN games>>>>
               cs == <<To(j, "loggedIn", <<currentPlayerId, DOMAIN games>>)>>
    <3>1. cs \in Seq(Addressed) /\ m \in Commands
      BY <1>1, <2>5, LoginReplyTypes DEF LogsIn
    <3>2. m \notin IceMsgs
      BY DEF IceMsgs
    <3>3. ~Occurs(SentTo(k, cs), IceMsgs)
      BY <1>1, <3>1, <3>2, OneHeard, Kinds DEF ServerTypes
    <3>4. SendAll(cs)
      BY <2>5 DEF LogsIn
    <3> HIDE DEF cs
    <3>5. Added(k, cs)
      BY <3>1, <3>4, SendAdds
    <3>6. QED
      BY <2>1, <3>3, <3>5
  <2>6. ASSUME NEW p, HostsAt(j, p) PROVE Goal
    <3>1. p \in DOMAIN playerSockets
      BY <2>3, <2>6 DEF HostsAt
    <3>2. /\ HostCommands(j, p) \in Seq(Addressed)
          /\ ~Occurs(SentTo(k, HostCommands(j, p)), IceMsgs)
      BY <1>1, <2>2, <3>1, HostNews
    <3>3. Added(k, HostCommands(j, p))
      BY <2>6, <3>2, SendAdds DEF HostsAt
    <3>4. QED
      BY <2>1, <3>2, <3>3
  <2>7. ASSUME NEW p, LeavesAt(j, p) PROVE Goal
    <3>1. p \in DOMAIN playerSockets /\ p \in Player
      BY <2>3, <2>7 DEF LeavesAt
    <3>2. ~Occurs(SentTo(k, LeaveCommands(p)), IceMsgs)
      BY <1>1, <3>1, LeaveNews
    <3>3. LeaveCommands(p) \in Seq(Addressed)
      BY <1>1, <3>1, LeaveSends
    <3>4. Added(k, LeaveCommands(p))
      BY <2>7, <3>3, SendAdds DEF LeavesAt
    <3>5. QED
      BY <2>1, <3>2, <3>4
  <2>8. ASSUME NEW p, NEW g, JoinsAt(j, p, g) PROVE Goal
    <3> DEFINE cs == LeaveCommands(p) \o JoinCommands(p, g)
    <3>1. /\ p \in DOMAIN playerSockets /\ p \in Player
          /\ g \in DOMAIN GamesWithout(p)
      BY <2>3, <2>8 DEF JoinsAt, Joins
    <3>2. ~Occurs(SentTo(k, LeaveCommands(p)), IceMsgs)
      BY <1>1, <3>1, LeaveNews
    <3>3. /\ JoinCommands(p, g) \in Seq(Addressed)
          /\ ~Occurs(SentTo(k, JoinCommands(p, g)), IceMsgs)
      BY <1>1, <3>1, JoinNews
    <3>4. LeaveCommands(p) \in Seq(Addressed)
      BY <1>1, <3>1, LeaveSends
    <3>5. cs \in Seq(Addressed) /\ ~Occurs(SentTo(k, cs), IceMsgs)
      BY <1>1, <3>2, <3>3, <3>4, ConcatHeard, Kinds
    <3>6. Added(k, cs)
      BY <2>8, <3>5, SendAdds DEF JoinsAt
    <3>7. QED
      BY <2>1, <3>5, <3>6
  <2> HIDE DEF Goal
  <2>9. QED
    BY <1>3, <2>4, <2>5, <2>6, <2>7, <2>8, ServesStep
<1>4. QED
  BY <1>2, <1>3

-----------------------------------------------------------------------------
(* A step, seen from a connection that is alive and stays alive.           *)

Clicked(s, t, m) ==
  /\ s.lobby /\ s.known
  /\ \/ /\ m = <<"hostGame", All>>
        /\ t = [s EXCEPT !.leave = TRUE, !.choose = FALSE, !.gameId = s.playerId]
     \/ m = <<"leaveGame", All>> /\ t = Left(s)
     \/ \E host \in Player :
          /\ m = <<"joinGame", host>>
          /\ t = [s EXCEPT !.leave = TRUE, !.choose = FALSE, !.gameId = host]

Rests(k) ==
  /\ client'[k[1]] = client[k[1]]
  /\ toServer'[k] = toServer[k] /\ toClient'[k] = toClient[k]
Clicks(k) ==
  /\ toClient'[k] = toClient[k]
  /\ \E m \in GameRequests : /\ toServer'[k] = Append(toServer[k], m)
                             /\ Clicked(client[k[1]], client'[k[1]], m)
Emits(k) ==
  /\ client'[k[1]] = client[k[1]] /\ toClient'[k] = toClient[k]
  /\ \E peer \in client[k[1]].peers :
       toServer'[k] =
         Append(toServer[k], <<"sendIceMsg", <<client[k[1]].adapterId, peer>>>>)
Reads(k) ==
  /\ toClient[k] # <<>> /\ toClient'[k] = Tail(toClient[k])
  /\ client'[k[1]] = Told(client[k[1]], Head(toClient[k])[1], Head(toClient[k])[2])
  /\ toServer'[k] = IF Head(toClient[k]) = <<"onHostLeft", client[k[1]].gameId>>
                    THEN Append(toServer[k], <<"leaveGame", All>>)
                    ELSE toServer[k]
IsServed(k) ==
  \E j \in Connection :
    /\ Serves(j) /\ client' = client
    /\ IF j = k THEN /\ ServerReads(k) /\ toServer[k] # <<>>
                     /\ toServer'[k] = Tail(toServer[k])
                ELSE toServer'[k] = toServer[k]

ClientSide(k) ==
  /\ UNCHANGED <<games, playersGames, socketPlayers, playerSockets>>
  /\ Rests(k) \/ Clicks(k) \/ Emits(k) \/ Reads(k)

LEMMA LiveStep ==
  ASSUME Typed, Sessions, [Next]_vars,
         NEW k \in live, k \in live', ~client[k[1]].deaf
  PROVE  IsServed(k) \/ ClientSide(k)
<1> DEFINE c == k[1]
           Goal == IsServed(k) \/ ClientSide(k)
<1>1. /\ k \in Connection /\ c \in Client /\ Socket(c) = k /\ Connected(c)
      /\ \A d \in Client : Socket(d) = k => d = c
  BY LiveSocket DEF Socket
<1>2. /\ DOMAIN client = Client /\ client[c] \in ClientState
      /\ DOMAIN toServer = Connection /\ DOMAIN toClient = Connection
      /\ toClient[k] \in Seq(Commands)
  BY <1>1 DEF Typed, ClientTypes, QueueTypes
<1>3. k = <<c, k[2]>>
  BY LiveSocket
<1>4. UNCHANGED books /\ (Rests(k) \/ Clicks(k) \/ Emits(k) \/ Reads(k)) => Goal
  BY DEF books, ClientSide
<1>5. \A d, r : Change(d, r) => client'[c] = IF d = c THEN r ELSE client[c]
  BY <1>1, <1>2 DEF Change
<1>6. \A d \in Client : \A method, arg : Request(d, method, arg) =>
        toServer'[k] = IF d = c THEN Append(toServer[k], <<method, arg>>)
                                ELSE toServer[k]
  BY <1>1, <1>2 DEF Request, Connected
<1> HIDE DEF c
<1>7. c = k[1]
  BY DEF c
<1>8. ASSUME NEW d \in Client, Connect(d) PROVE Goal
  <2>1. d # c
    BY <1>1, <1>8 DEF Connect
  <2>2. toServer'[k] = toServer[k] /\ toClient' = toClient
    BY <1>2, <1>3, <1>8, <2>1 DEF Connect
  <2>3. client'[c] = client[c]
    BY <1>5, <1>8, <2>1 DEF Connect
  <2>4. UNCHANGED <<games, playersGames, socketPlayers, playerSockets>>
    BY <1>8 DEF Connect
  <2>5. Rests(k)
    BY <1>7, <2>2, <2>3 DEF Rests
  <2>6. QED
    BY <2>4, <2>5 DEF ClientSide
<1>9. ASSUME NEW d \in Client, Disconnect(d) PROVE Goal
  <2>1. d # c
    BY <1>1, <1>9 DEF Disconnect
  <2>2. toServer' = toServer /\ toClient'[k] = toClient[k]
    BY <1>1, <1>2, <1>9, <2>1 DEF Disconnect
  <2>3. client'[c] = client[c] /\ UNCHANGED books
    BY <1>5, <1>9, <2>1 DEF Disconnect
  <2>4. Rests(k)
    BY <1>7, <2>2, <2>3 DEF Rests
  <2>5. QED
    BY <1>4, <2>3, <2>4
<1>10. ASSUME NEW d \in Client, LoseConnection(d) PROVE Goal
  <2>1. d # c
    BY <1>1, <1>10 DEF LoseConnection
  <2>2. toServer'[k] = toServer[k] /\ toClient'[k] = toClient[k]
    BY <1>1, <1>2, <1>10, <2>1 DEF LoseConnection
  <2>3. client'[c] = client[c] /\ UNCHANGED books
    BY <1>5, <1>10, <2>1 DEF LoseConnection
  <2>4. Rests(k)
    BY <1>7, <2>2, <2>3 DEF Rests
  <2>5. QED
    BY <1>4, <2>3, <2>4
<1>11. ASSUME NEW d \in Client, NEW m, NEW method, NEW arg, m = <<method, arg>>,
              NEW r, m \in GameRequests, Click(d), Request(d, method, arg),
              Change(d, r), d = c => Clicked(client[c], r, m)
       PROVE  Goal
  <2>1. UNCHANGED books /\ toClient' = toClient
    BY <1>11 DEF Click
  <2>2. CASE d = c
    <3>1. toServer'[k] = Append(toServer[k], m) /\ client'[c] = r
      BY <1>5, <1>6, <1>11, <2>2
    <3>2. Clicks(k)
      BY <1>7, <1>11, <2>1, <2>2, <3>1 DEF Clicks
    <3>3. QED
      BY <1>4, <2>1, <3>2
  <2>3. CASE d # c
    <3>1. toServer'[k] = toServer[k] /\ client'[c] = client[c]
      BY <1>5, <1>6, <1>11, <2>3
    <3>2. Rests(k)
      BY <1>7, <2>1, <3>1 DEF Rests
    <3>3. QED
      BY <1>4, <2>1, <3>2
  <2>4. QED
    BY <2>2, <2>3
<1>12. ASSUME NEW d \in Client, HostGameClicked(d) PROVE Goal
  <2> DEFINE r == [client[d] EXCEPT !.leave = TRUE, !.choose = FALSE,
                                    !.gameId = client[d].playerId]
  <2>1. Clicked(client[d], r, <<"hostGame", All>>)
    BY <1>12 DEF HostGameClicked, Click, Clicked
  <2>2. /\ <<"hostGame", All>> \in GameRequests /\ Click(d)
        /\ Request(d, "hostGame", All) /\ Change(d, r)
    BY <1>12 DEF HostGameClicked, GameRequests
  <2> HIDE DEF r, Goal
  <2>3. QED
    BY <1>11, <2>1, <2>2
<1>13. ASSUME NEW d \in Client, LeaveClicked(d) PROVE Goal
  <2> DEFINE r == Left(client[d])
  <2>1. Clicked(client[d], r, <<"leaveGame", All>>)
    BY <1>13 DEF LeaveClicked, Click, Clicked
  <2>2. /\ <<"leaveGame", All>> \in GameRequests /\ Click(d)
        /\ Request(d, "leaveGame", All) /\ Change(d, r)
    BY <1>13 DEF LeaveClicked, GameRequests
  <2> HIDE DEF r, Goal
  <2>3. QED
    BY <1>11, <2>1, <2>2
<1>14. ASSUME NEW d \in Client, NEW host \in client[d].list, GameClicked(d, host)
       PROVE  Goal
  <2> DEFINE r == [client[d] EXCEPT !.leave = TRUE, !.choose = FALSE,
                                    !.gameId = host]
  <2>1. host \in Player
    BY DEF Typed, ClientTypes, ClientState
  <2>2. Clicked(client[d], r, <<"joinGame", host>>)
    BY <1>14, <2>1 DEF GameClicked, Click, Clicked
  <2>3. /\ <<"joinGame", host>> \in GameRequests /\ Click(d)
        /\ Request(d, "joinGame", host) /\ Change(d, r)
    BY <1>14, <2>1 DEF GameClicked, GameRequests
  <2> HIDE DEF r, Goal
  <2>4. QED
    BY <1>11, <2>2, <2>3
<1>15. ASSUME NEW d \in Client, NEW peer \in client[d].peers, OnIceMsg(d, peer)
       PROVE  Goal
  <2>1. UNCHANGED books /\ toClient' = toClient /\ client' = client
    BY <1>15 DEF OnIceMsg
  <2>2. toServer'[k] = IF d = c
                       THEN Append(toServer[k], <<"sendIceMsg", <<client[d].adapterId, peer>>>>)
                       ELSE toServer[k]
    BY <1>6, <1>15 DEF OnIceMsg
  <2>3. Rests(k) \/ Emits(k)
    BY <1>7, <2>1, <2>2 DEF Rests, Emits
  <2>4. QED
    BY <1>4, <2>1, <2>3
<1>16. ASSUME NEW d \in Client, ClientReads(d) PROVE Goal
  <2>1. UNCHANGED books
    BY <1>16 DEF ClientReads
  <2>2. CASE d = c
    <3> DEFINE m == Head(toClient[k])
    <3>1. /\ toClient[k] # <<>> /\ toClient'[k] = Tail(toClient[k])
          /\ ~client[c].deaf
      BY <1>1, <1>2, <1>7, <1>16, <2>2 DEF ClientReads
    <3>2. m \in Commands
      BY <1>2, <3>1, HeadQueue
    <3>3. m = <<m[1], m[2]>>
      BY <3>2, CommandForms
    <3>4. /\ Change(c, Told(client[c], m[1], m[2]))
          /\ IF m[1] = "onHostLeft" /\ client[c].gameId = m[2]
             THEN Request(c, "leaveGame", All) ELSE UNCHANGED toServer
      BY <1>1, <1>16, <2>2, <3>1 DEF ClientReads
    <3> HIDE DEF m
    <3>5. client'[c] = Told(client[c], m[1], m[2])
      BY <1>5, <3>4
    <3>6. m = <<"onHostLeft", client[c].gameId>> <=>
            m[1] = "onHostLeft" /\ client[c].gameId = m[2]
      BY <3>3
    <3>7. toServer'[k] = IF m = <<"onHostLeft", client[c].gameId>>
                         THEN Append(toServer[k], <<"leaveGame", All>>)
                         ELSE toServer[k]
      BY <1>6, <1>1, <3>4, <3>6
    <3>8. Reads(k)
      BY <1>7, <3>1, <3>5, <3>7 DEF Reads, m
    <3>9. QED
      BY <1>4, <2>1, <3>8
  <2>3. CASE d # c
    <3>1. toClient'[k] = toClient[k]
      BY <1>1, <1>2, <1>16, <2>3 DEF ClientReads
    <3>2. toServer'[k] = toServer[k]
      BY <1>6, <1>16, <2>3 DEF ClientReads
    <3>3. client'[c] = client[c]
      BY <1>5, <1>16, <2>3 DEF ClientReads
    <3>4. Rests(k)
      BY <1>7, <3>1, <3>2, <3>3 DEF Rests
    <3>5. QED
      BY <1>4, <2>1, <3>4
  <2>4. QED
    BY <2>2, <2>3
<1>17. ASSUME NEW j \in Connection, ServerReads(j) PROVE Goal
  <2>1. /\ client' = client /\ Serves(j) /\ toServer[j] # <<>>
        /\ toServer'[k] = IF j = k THEN Tail(toServer[k]) ELSE toServer[k]
    BY <1>1, <1>2, <1>17 DEF ServerReads, Serves
  <2>2. IsServed(k)
    BY <1>17, <2>1 DEF IsServed
  <2>3. QED
    BY <2>2
<1>18. ASSUME NEW j \in Connection, ServerNotices(j) PROVE Goal
  <2>1. j # k /\ client' = client /\ Serves(j) /\ toServer' = toServer
    BY <1>18 DEF ServerNotices, Serves
  <2>2. IsServed(k)
    BY <2>1 DEF IsServed
  <2>3. QED
    BY <2>2
<1>19. ASSUME UNCHANGED vars PROVE Goal
  <2>1. Rests(k) /\ UNCHANGED books
    BY <1>19 DEF vars, serverVars, Rests
  <2>2. QED
    BY <1>4, <2>1
<1> HIDE DEF Goal
<1>20. Goal
  BY <1>8, <1>9, <1>10, <1>12, <1>13, <1>14, <1>15, <1>16, <1>17, <1>18, <1>19
     DEF Next
<1>21. QED
  BY <1>20 DEF Goal

-----------------------------------------------------------------------------
(* The four things that may become of a connection that is alive.          *)

Steady ==
  /\ Typed /\ Sessions /\ OneGameEach /\ PlayersOK
  /\ BooksAgree /\ LoginsFirst

\* Player p is the one k is logged in as after the step.
IsNext(k, p) == k \in DOMAIN socketPlayers' /\ socketPlayers'[k] = p

IsNew(k) ==
  /\ k \notin live /\ k \notin DOMAIN socketPlayers'
  /\ toClient'[k] = <<>>
  /\ Connect(k[1])
  /\ toServer'[k] = <<FirstRequest(k[1])>>

StaysUnknown(k) ==
  /\ k \in live /\ k \notin DOMAIN socketPlayers /\ k \notin DOMAIN socketPlayers'
  /\ \/ /\ IsServed(k)
        /\ \E r \in Seq(Commands) : /\ toClient'[k] = toClient[k] \o r
                                    /\ ~Occurs(r, Commands \ Gamelists)
     \/ ClientSide(k)

BecomesKnown(k, p) ==
  /\ k \in live /\ k \notin DOMAIN socketPlayers
  /\ IsNext(k, p)
  /\ toServer[k] # <<>> /\ toServer'[k] = Tail(toServer[k])
  /\ Head(toServer[k]) = <<"login", All>>
  /\ client' = client
  /\ UNCHANGED games
  /\ \A g \in DOMAIN games : p \notin games[g]
  /\ <<"loggedIn", <<p, DOMAIN games>>>> \in LoginReplies
  /\ \E r \in Seq(Commands) :
       /\ toClient'[k] = toClient[k] \o r
       /\ \A A \in SUBSET Commands :
            Occurs(r, A) <=> <<"loggedIn", <<p, DOMAIN games>>>> \in A

StaysKnown(k, p) ==
  /\ k \in live /\ Is(k, p) /\ IsNext(k, p)
  /\ (IsServed(k) /\ \E r : News(k, p, r)) \/ ClientSide(k)

LEMMA LiveCases ==
  ASSUME Steady, Typed', [Next]_vars, NEW k \in live'
  PROVE  /\ k \in Connection
         /\ k \in live => ~client[k[1]].deaf
         /\ \/ IsNew(k)
            \/ StaysUnknown(k)
            \/ \E p \in Player : BecomesKnown(k, p)
            \/ \E p \in Player : StaysKnown(k, p)
<1> DEFINE Goal == \/ IsNew(k)
                   \/ StaysUnknown(k)
                   \/ \E p \in Player : BecomesKnown(k, p)
                   \/ \E p \in Player : StaysKnown(k, p)
<1>0. /\ Typed /\ Sessions /\ OneGameEach /\ PlayersOK
      /\ BooksAgree /\ LoginsFirst
  BY DEF Steady
<1>1. k \in Connection
  BY DEF Typed, ServerTypes
<1>2. k \in live => ~client[k[1]].deaf
  <2>1. ASSUME k \in live PROVE ~client[k[1]].deaf
    BY <1>0, <2>1, LiveSocket DEF LoginsFirst
  <2>2. QED
    BY <2>1
<1>3. ASSUME k \notin live PROVE Goal
  <2>1. PICK c \in Client : Connect(c) /\ live' = live \cup {<<c, client[c].n + 1>>}
                              /\ sockets' = sockets \cup {<<c, client[c].n + 1>>}
    BY <1>0, <1>3, ConnectionsStep
  <2>2. k = <<c, client[c].n + 1>> /\ k[1] = c /\ client[c].n \in Nat
    <3>1. k = <<c, client[c].n + 1>>
      BY <1>3, <2>1
    <3>2. client[c].n \in Nat
      BY <1>0, <2>1, ConnectDoes
    <3>3. QED
      BY <3>1, <3>2
  <2>3. k \notin sockets
    <3>1. client[c].n + 1 \in 1 .. MaxConnections
      BY <1>1, <2>2 DEF Connection
    <3>2. QED
      BY <1>0, <2>2, <3>1 DEF Sessions
  <2>4. k \notin DOMAIN socketPlayers'
    BY <1>0, <2>1, <2>3 DEF Connect, Typed, ServerTypes
  <2>5. toClient'[k] = <<>>
    BY <1>0, <1>1, <1>3, <2>1 DEF Connect, Sessions
  <2>6. toServer'[k] = <<FirstRequest(c)>>
    <3>1. toServer' = [toServer EXCEPT ![k] = <<FirstRequest(c)>>]
      BY <2>1, <2>2 DEF Connect, FirstRequest
    <3>2. QED
      BY <1>0, <1>1, <3>1 DEF Typed, QueueTypes
  <2>7. IsNew(k)
    BY <1>3, <2>1, <2>2, <2>4, <2>5, <2>6 DEF IsNew
  <2>8. QED
    BY <2>7
<1>4. ASSUME k \in live PROVE Goal
  <2>1. IsServed(k) \/ ClientSide(k)
    BY <1>0, <1>2, <1>4, LiveStep
  <2>2. k \in sockets /\ \A i \in sockets : ~Occurs(toServer[i], Reconnects)
    BY <1>0, <1>4 DEF Sessions, LoginsFirst, Typed, ServerTypes
  <2>3. ~ServerNotices(k)
    BY <1>4 DEF ServerNotices
  <2>4. /\ k \in DOMAIN socketPlayers =>
             k \in DOMAIN socketPlayers' /\ socketPlayers'[k] = socketPlayers[k]
        /\ k \in DOMAIN socketPlayers' /\ k \notin DOMAIN socketPlayers =>
             /\ ServerReads(k) /\ toServer[k] # <<>>
             /\ \/ Login(k) /\ Head(toServer[k])[1] = "login"
                \/ Head(toServer[k])[1] = "sendIceMsg"
    BY <1>0, <1>1, <2>2, <2>3, LoggedInStep
  <2>5. IsServed(k) => \E j \in Connection : Serves(j)
    BY DEF IsServed
  <2>6. CASE k \in DOMAIN socketPlayers
    <3> DEFINE p == socketPlayers[k]
    <3>1. Is(k, p) /\ IsNext(k, p) /\ p \in Player
      BY <1>0, <2>4, <2>6 DEF Is, IsNext, Typed, ServerTypes
    <3>2. IsServed(k) => \E r : News(k, p, r)
      BY <1>0, <1>4, <2>5, <3>1, NewsToKnown
    <3>3. StaysKnown(k, p)
      BY <1>4, <2>1, <3>1, <3>2 DEF StaysKnown
    <3>4. QED
      BY <3>1, <3>3
  <2>7. CASE k \notin DOMAIN socketPlayers /\ k \notin DOMAIN socketPlayers'
    <3>1. ~LogsIn(k)
      BY <2>7 DEF LogsIn, Put
    <3>2. IsServed(k) => \E r \in Seq(Commands) : /\ toClient'[k] = toClient[k] \o r
                                                 /\ ~Occurs(r, Commands \ Gamelists)
      BY <1>4, <1>0, <2>5, <2>7, <3>1, NewsToUnknown
    <3>3. StaysUnknown(k)
      BY <1>4, <2>1, <2>7, <3>2 DEF StaysUnknown
    <3>4. QED
      BY <3>3
  <2>8. CASE k \notin DOMAIN socketPlayers /\ k \in DOMAIN socketPlayers'
    <3> DEFINE p == currentPlayerId
    <3>1. ServerReads(k) /\ toServer[k] # <<>> /\ Head(toServer[k]) = <<"login", All>>
      BY <1>0, <1>1, <2>4, <2>8 DEF LoginsFirst
    <3>2. Login(k)
      BY <2>4, <2>8, <3>1
    <3>3. LogsIn(k)
      BY <2>8, <3>1, <3>2 DEF Login, LogsIn
    <3>4. /\ <<"loggedIn", <<p, DOMAIN games>>>> \in LoginReplies /\ p \in Player
          /\ k \in DOMAIN socketPlayers' /\ socketPlayers'[k] = p
          /\ \E r \in Seq(Commands) :
               /\ toClient'[k] = toClient[k] \o r
               /\ \A A \in SUBSET Commands :
                    Occurs(r, A) <=> <<"loggedIn", <<p, DOMAIN games>>>> \in A
      BY <1>0, <1>4, <3>3, NewsAtLogin
    <3>5. \A g \in DOMAIN games : p \notin games[g]
      <4>1. p \notin 0 .. p - 1
        BY <3>4 DEF Player
      <4>2. QED
        BY <1>0, <4>1 DEF BooksAgree, PlayersOK
    <3>6. client' = client /\ toServer'[k] = Tail(toServer[k]) /\ UNCHANGED games
      BY <1>0, <1>1, <3>1, <3>3 DEF ServerReads, LogsIn, Typed, QueueTypes
    <3>7. BecomesKnown(k, p)
      BY <1>4, <2>8, <3>1, <3>4, <3>5, <3>6 DEF BecomesKnown, IsNext
    <3>8. QED
      BY <3>4, <3>7
  <2>9. QED
    BY <2>6, <2>7, <2>8
<1>5. QED
  BY <1>1, <1>2, <1>3, <1>4

\* What its client does takes at most the first command from a queue.
LEMMA ClientSideTakes ==
  ASSUME Typed, NEW k \in Connection, ClientSide(k)
  PROVE  /\ toClient[k] \in Seq(Commands) /\ toServer[k] \in Seq(Requests)
         /\ \/ toClient'[k] = toClient[k]
            \/ toClient[k] # <<>> /\ toClient'[k] = Tail(toClient[k])
         /\ \A A : Occurs(toClient'[k], A) => Occurs(toClient[k], A)
<1>1. toClient[k] \in Seq(Commands) /\ toServer[k] \in Seq(Requests)
  BY DEF Typed, QueueTypes
<1>2. \/ toClient'[k] = toClient[k]
      \/ toClient[k] # <<>> /\ toClient'[k] = Tail(toClient[k])
  BY DEF ClientSide, Rests, Clicks, Emits, Reads
<1>3. ASSUME NEW A, Occurs(toClient'[k], A) PROVE Occurs(toClient[k], A)
  <2>1. CASE toClient'[k] = toClient[k]
    BY <1>3, <2>1
  <2>2. CASE toClient[k] # <<>> /\ toClient'[k] = Tail(toClient[k])
    BY <1>1, <1>3, <2>2, HeadQueue
  <2>3. QED
    BY <1>2, <2>1, <2>2
<1>4. QED
  BY <1>1, <1>2, <1>3

-----------------------------------------------------------------------------
(* The replies on their way to a connection are its own.                   *)

OtherReplies(p) == {"loggedIn"} \X ((Player \ {p}) \X SUBSET Player)

Replies ==
  \A k \in live :
    IF k \in DOMAIN socketPlayers
    THEN ~Occurs(toClient[k], OtherReplies(socketPlayers[k]))
    ELSE ~Occurs(toClient[k], Commands \ Gamelists)

LEMMA OtherReplyTypes ==
  ASSUME NEW p
  PROVE  /\ OtherReplies(p) \subseteq LoginReplies
         /\ OtherReplies(p) \in SUBSET Commands
         /\ OtherReplies(p) \subseteq Commands \ Gamelists
<1>1. OtherReplies(p) \subseteq LoginReplies
  BY DEF OtherReplies, LoginReplies
<1>2. LoginReplies \cap Gamelists = {}
  BY DEF LoginReplies, Gamelists
<1>3. QED
  BY <1>1, <1>2, Kinds

LEMMA NextReplies ==
  ASSUME Steady, Typed', Replies, [Next]_vars
  PROVE  Replies'
<1> SUFFICES ASSUME NEW k \in live'
             PROVE  IF k \in DOMAIN socketPlayers'
                    THEN ~Occurs(toClient'[k], OtherReplies(socketPlayers'[k]))
                    ELSE ~Occurs(toClient'[k], Commands \ Gamelists)
  BY DEF Replies
<1> DEFINE Goal == IF k \in DOMAIN socketPlayers'
                   THEN ~Occurs(toClient'[k], OtherReplies(socketPlayers'[k]))
                   ELSE ~Occurs(toClient'[k], Commands \ Gamelists)
<1>1. Typed
  BY DEF Steady
<1>2. /\ k \in Connection
      /\ \/ IsNew(k)
         \/ StaysUnknown(k)
         \/ \E p \in Player : BecomesKnown(k, p)
         \/ \E p \in Player : StaysKnown(k, p)
  BY LiveCases
<1>3. toClient[k] \in Seq(Commands)
  BY <1>1, <1>2 DEF Typed, QueueTypes
<1>4. ASSUME IsNew(k) PROVE Goal
  BY <1>4, EmptyQueue DEF IsNew
<1>5. ASSUME StaysUnknown(k) PROVE Goal
  <2>1. /\ k \in live /\ k \notin DOMAIN socketPlayers /\ k \notin DOMAIN socketPlayers'
        /\ ~Occurs(toClient[k], Commands \ Gamelists)
    BY <1>5 DEF StaysUnknown, Replies
  <2>2. CASE ClientSide(k)
    BY <1>1, <1>2, <2>1, <2>2, ClientSideTakes
  <2>3. CASE \E r \in Seq(Commands) : /\ toClient'[k] = toClient[k] \o r
                                      /\ ~Occurs(r, Commands \ Gamelists)
    BY <1>3, <2>1, <2>3, ConcatQueue
  <2>4. QED
    BY <1>5, <2>2, <2>3 DEF StaysUnknown
<1>6. ASSUME NEW p \in Player, BecomesKnown(k, p) PROVE Goal
  <2> DEFINE m == <<"loggedIn", <<p, DOMAIN games>>>>
  <2>1. /\ k \in live /\ k \notin DOMAIN socketPlayers
        /\ k \in DOMAIN socketPlayers' /\ socketPlayers'[k] = p
        /\ ~Occurs(toClient[k], Commands \ Gamelists)
    BY <1>6 DEF BecomesKnown, IsNext, Replies
  <2>2. PICK r \in Seq(Commands) :
               /\ toClient'[k] = toClient[k] \o r
               /\ \A A \in SUBSET Commands : Occurs(r, A) <=> m \in A
    BY <1>6 DEF BecomesKnown
  <2>3. ~Occurs(toClient[k], OtherReplies(p))
    BY <2>1, OtherReplyTypes, SubsetQueue
  <2>4. m \notin OtherReplies(p)
    BY DEF OtherReplies
  <2>5. ~Occurs(r, OtherReplies(p)) /\ toClient'[k] = toClient[k] \o r
    BY <2>2, <2>4, OtherReplyTypes
  <2>6. ~Occurs(toClient'[k], OtherReplies(p))
    BY <1>3, <2>3, <2>5, ConcatQueue
  <2>7. QED
    BY <2>1, <2>6
<1>7. ASSUME NEW p \in Player, StaysKnown(k, p) PROVE Goal
  <2>1. /\ k \in live /\ k \in DOMAIN socketPlayers /\ socketPlayers[k] = p
        /\ k \in DOMAIN socketPlayers' /\ socketPlayers'[k] = p
        /\ ~Occurs(toClient[k], OtherReplies(p))
    BY <1>7 DEF StaysKnown, Is, IsNext, Replies
  <2>2. CASE ClientSide(k)
    BY <1>1, <1>2, <2>1, <2>2, ClientSideTakes
  <2>3. CASE \E r : News(k, p, r)
    <3>1. PICK r : News(k, p, r)
      BY <2>3
    <3>2. /\ r \in Seq(Commands) /\ toClient'[k] = toClient[k] \o r
          /\ ~Occurs(r, LoginReplies)
      BY <3>1 DEF News
    <3>3. ~Occurs(r, OtherReplies(p))
      BY <3>2, OtherReplyTypes DEF Occurs
    <3>4. Occurs(toClient[k] \o r, OtherReplies(p)) <=>
            Occurs(toClient[k], OtherReplies(p)) \/ Occurs(r, OtherReplies(p))
      BY <1>3, <3>2, ConcatQueue
    <3>5. ~Occurs(toClient'[k], OtherReplies(p))
      BY <2>1, <3>2, <3>3, <3>4
    <3>6. QED
      BY <2>1, <3>5
  <2>4. QED
    BY <1>7, <2>2, <2>3 DEF StaysKnown
<1> HIDE DEF Goal
<1>8. Goal
  BY <1>2, <1>4, <1>5, <1>6, <1>7
<1>9. QED
  BY <1>8 DEF Goal

LEMMA SteadyAlways == Spec => [](Calm => Steady)
<1>1. BooksInv /\ Typed /\ Sessions /\ OneGameEach /\ PlayersOK => (Calm => Steady)
  BY DEF BooksInv, Steady
<1>2. QED
  BY <1>1, BooksInvAlways, TypedAlways, SessionsAlways, OneGameForEach,
     PlayersAlways, PTL

LEMMA RepliesAlways == Spec => [](Calm => Replies)
<1>1. Init => (Calm => Replies)
  BY DEF Init, ServerInit, Replies
<1>2. ASSUME Typed, Typed', Calm => Steady, Calm => Replies, [Next]_vars
      PROVE  (Calm => Replies)'
  <2>1. ASSUME Calm' PROVE Replies'
    <3>1. Calm
      BY <1>2, <2>1, CalmBefore
    <3>2. QED
      BY <1>2, <3>1, NextReplies
  <2>2. QED
    BY <2>1
<1>3. QED
  BY <1>1, <1>2, TypedAlways, SteadyAlways, PTL DEF Spec

-----------------------------------------------------------------------------
(* The queues of a connection, for what happens to them.                   *)

LEMMA Grown ==
  ASSUME NEW S, NEW q \in Seq(S), NEW r \in Seq(S), NEW t, t = q \o r
  PROVE  /\ \A A : Occurs(t, A) <=> Occurs(q, A) \/ Occurs(r, A)
         /\ \A A, B : Ends(t, A, B) <=> Ends(r, A, B) \/ (Ends(q, A, B) /\ ~Occurs(r, B))
         /\ \A A, B : Starts(t, A, B) <=>
                        Starts(q, A, B) \/ (Starts(r, A, B) /\ ~Occurs(q, B))
<1>1. \A A, B : /\ Occurs(t, A) <=> Occurs(q, A) \/ Occurs(r, A)
                /\ Ends(t, A, B) <=> Ends(r, A, B) \/ (Ends(q, A, B) /\ ~Occurs(r, B))
                /\ Starts(t, A, B) <=>
                     Starts(q, A, B) \/ (Starts(r, A, B) /\ ~Occurs(q, B))
  BY ConcatQueue
<1>2. QED
  BY <1>1

LEMMA Shortened ==
  ASSUME NEW S, NEW q \in Seq(S), q # <<>>, NEW t, t = Tail(q)
  PROVE  /\ Head(q) \in S /\ t \in Seq(S)
         /\ \A A : Occurs(q, A) <=> Head(q) \in A \/ Occurs(t, A)
         /\ \A A, B : Ends(q, A, B) <=> Ends(t, A, B) \/ (Head(q) \in A /\ ~Occurs(t, B))
         /\ \A A, B : Starts(q, A, B) <=>
                        Head(q) \in A \/ (Starts(t, A, B) /\ Head(q) \notin B)
<1>1. \A A, B : /\ Head(q) \in S /\ t \in Seq(S)
                /\ Occurs(q, A) <=> Head(q) \in A \/ Occurs(t, A)
                /\ Ends(q, A, B) <=> Ends(t, A, B) \/ (Head(q) \in A /\ ~Occurs(t, B))
                /\ Starts(q, A, B) <=>
                     Head(q) \in A \/ (Starts(t, A, B) /\ Head(q) \notin B)
  BY HeadQueue
<1>2. QED
  BY <1>1

LEMMA Extended ==
  ASSUME NEW S, NEW q \in Seq(S), NEW e \in S, NEW t, t = Append(q, e)
  PROVE  /\ \A A : Occurs(t, A) <=> Occurs(q, A) \/ e \in A
         /\ \A A, B : Ends(t, A, B) <=> e \in A \/ (Ends(q, A, B) /\ e \notin B)
<1>1. \A A, B : /\ Occurs(t, A) <=> Occurs(q, A) \/ e \in A
                /\ Ends(t, A, B) <=> e \in A \/ (Ends(q, A, B) /\ e \notin B)
  BY AppendQueue
<1>2. QED
  BY <1>1

LEMMA AskedQueue ==
  ASSUME NEW q \in Seq(Requests), NEW m \in Requests
  PROVE  /\ Occurs(Append(q, m), GameRequests) <=>
              Occurs(q, GameRequests) \/ m \in GameRequests
         /\ \A A : Ends(Append(q, m), A, GameRequests) <=>
              m \in A \/ (Ends(q, A, GameRequests) /\ m \notin GameRequests)
<1> DEFINE t == Append(q, m)
<1>1. t = Append(q, m)
  OBVIOUS
<1> HIDE DEF t
<1>2. /\ \A A : Occurs(t, A) <=> Occurs(q, A) \/ m \in A
      /\ \A A, B : Ends(t, A, B) <=> m \in A \/ (Ends(q, A, B) /\ m \notin B)
  BY <1>1, Extended, ZenonT(60)
<1>3. QED
  BY <1>1, <1>2

\* What a client does without a command of the server leaves most as it is.
Unread(k) ==
  LET s == client[k[1]]
      t == client'[k[1]] IN
  /\ toClient'[k] = toClient[k]
  /\ t.known = s.known /\ t.lobby = s.lobby /\ t.playerId = s.playerId
  /\ t.adapterId = s.adapterId /\ t.list = s.list

LEMMA ClientSideDoes ==
  ASSUME Typed, Sessions, NEW k \in live, ClientSide(k)
  PROVE  /\ k \in Connection /\ client[k[1]] \in ClientState
         /\ toClient[k] \in Seq(Commands) /\ toServer[k] \in Seq(Requests)
         /\ \/ Unread(k)
            \/ /\ Reads(k) /\ Head(toClient[k]) \in Commands
               /\ Head(toClient[k]) =
                    <<Head(toClient[k])[1], Head(toClient[k])[2]>>
<1> DEFINE s == client[k[1]]
           t == client'[k[1]]
<1>1. k \in Connection /\ s \in ClientState
  BY LiveSocket DEF Typed, ClientTypes
<1>2. toClient[k] \in Seq(Commands) /\ toServer[k] \in Seq(Requests)
  BY <1>1 DEF Typed, QueueTypes
<1>3. ASSUME NEW m, Clicked(s, t, m)
      PROVE  /\ t.known = s.known /\ t.lobby = s.lobby /\ t.playerId = s.playerId
             /\ t.adapterId = s.adapterId /\ t.list = s.list
  <2> HIDE DEF s, t
  <2>1. \/ t = [s EXCEPT !.leave = TRUE, !.choose = FALSE, !.gameId = s.playerId]
        \/ t = [s EXCEPT !.choose = TRUE, !.gameId = NoGame, !.role = "none",
                         !.peers = {}]
        \/ \E host : t = [s EXCEPT !.leave = TRUE, !.choose = FALSE, !.gameId = host]
    BY <1>3 DEF Clicked, Left
  <2>2. QED
    BY <1>1, <2>1 DEF ClientState
<1>4. CASE Rests(k) \/ Clicks(k) \/ Emits(k)
  <2>1. Unread(k)
    BY <1>3, <1>4 DEF Rests, Clicks, Emits, Unread
  <2>2. QED
    BY <1>1, <1>2, <2>1
<1>5. CASE Reads(k)
  <2>1. Head(toClient[k]) \in Commands
    BY <1>2, <1>5, HeadQueue DEF Reads
  <2>2. QED
    BY <1>1, <1>2, <1>5, <2>1, CommandForms
<1>6. QED
  BY <1>4, <1>5 DEF ClientSide

\* What its next command makes of a client.
LEMMA ReadsDoes ==
  ASSUME Typed, Sessions, NEW k \in live, Reads(k)
  PROVE  LET s == client[k[1]]
             t == client'[k[1]]
             m == Head(toClient[k]) IN
         /\ m \in Commands /\ m = <<m[1], m[2]>>
         /\ s \in ClientState /\ t = Told(s, m[1], m[2])
         /\ \A A : Occurs(toClient[k], A) <=> m \in A \/ Occurs(toClient'[k], A)
         /\ \A A, B : Ends(toClient[k], A, B) <=>
              Ends(toClient'[k], A, B) \/ (m \in A /\ ~Occurs(toClient'[k], B))
         /\ \A A, B : Starts(toClient[k], A, B) <=>
              m \in A \/ (Starts(toClient'[k], A, B) /\ m \notin B)
<1> DEFINE m == Head(toClient[k])
<1>1. toClient[k] \in Seq(Commands) /\ client[k[1]] \in ClientState
  BY LiveSocket DEF Typed, QueueTypes, ClientTypes
<1>2. toClient[k] # <<>> /\ toClient'[k] = Tail(toClient[k])
  BY DEF Reads
<1>3. /\ m \in Commands
      /\ \A A : Occurs(toClient[k], A) <=> m \in A \/ Occurs(toClient'[k], A)
      /\ \A A, B : Ends(toClient[k], A, B) <=>
           Ends(toClient'[k], A, B) \/ (m \in A /\ ~Occurs(toClient'[k], B))
      /\ \A A, B : Starts(toClient[k], A, B) <=>
           m \in A \/ (Starts(toClient'[k], A, B) /\ m \notin B)
  <2> DEFINE q == toClient[k]
             t == toClient'[k]
  <2>1. q \in Seq(Commands) /\ q # <<>> /\ t = Tail(q)
    BY <1>1, <1>2
  <2> HIDE DEF q, t
  <2>2. /\ Head(q) \in Commands /\ t \in Seq(Commands)
        /\ \A A : Occurs(q, A) <=> Head(q) \in A \/ Occurs(t, A)
        /\ \A A, B : Ends(q, A, B) <=> Ends(t, A, B) \/ (Head(q) \in A /\ ~Occurs(t, B))
        /\ \A A, B : Starts(q, A, B) <=>
                       Head(q) \in A \/ (Starts(t, A, B) /\ Head(q) \notin B)
    BY <2>1, Shortened, ZenonT(60)
  <2>3. QED
    BY <2>2 DEF q, t
<1>4. m = <<m[1], m[2]>>
  BY <1>3, CommandForms
<1>5. QED
  BY <1>1, <1>3, <1>4 DEF Reads

-----------------------------------------------------------------------------
(* As long as no connection broke, a client whose lobby is enabled is      *)
(* logged in as the player it takes itself for, and nothing is asked of    *)
(* the server before the login was answered.                               *)

Lossless == losses = MaxLosses

Introduced(k) ==
  LET s == client[k[1]]
      answered == ~Occurs(toClient[k], LoginReplies) IN
  IF k \in DOMAIN socketPlayers
  THEN /\ answered => s.known
       /\ answered \/ (s.lobby /\ s.known) => s.playerId = socketPlayers[k]
  ELSE ~Occurs(toServer[k], GameRequests) /\ ~(s.lobby /\ s.known)

Acquainted ==
  /\ \A c \in Client : client[c].lobby /\ client[c].known => Connected(c)
  /\ \A k \in live : Introduced(k)

LEMMA NextConnected ==
  ASSUME Steady, Lossless', Acquainted, [Next]_vars, NEW c \in Client,
         client'[c].lobby, client'[c].known
  PROVE  Connected(c)'
<1>0. Typed /\ Sessions
  BY DEF Steady
<1>1. client[c].lobby /\ Socket(c) \in live
  <2>1. client[c].lobby
    BY <1>0, MovesKeep
  <2>2. client[c].known => Connected(c)
    BY <2>1 DEF Acquainted
  <2>3. ~client[c].known => ClientReads(c)
    BY <1>0, MovesKeep
  <2>4. QED
    BY <2>1, <2>2, <2>3 DEF ClientReads, Connected
<1>2. ~Connect(c)
  BY <1>1 DEF Connect, Connected
<1>3. Socket(c)' = Socket(c)
  BY <1>0, <1>2, MovesKeep DEF Socket
<1>4. ASSUME NEW d \in Client, Disconnect(d) \/ LoseConnection(d) PROVE d # c
  <2>1. ASSUME LoseConnection(d) PROVE FALSE
    BY <1>0, <2>1, CalmBefore DEF LoseConnection, Lossless, Typed, ClientTypes
  <2>2. ASSUME Disconnect(c) PROVE FALSE
    BY <1>0, <2>2 DEF Disconnect, Change, Typed, ClientTypes, ClientState
  <2>3. QED
    BY <1>4, <2>1, <2>2
<1>5. \A d \in Client : Socket(d) = Socket(c) => d = c
  BY DEF Socket
<1>6. Socket(c) \in live'
  BY <1>0, <1>1, <1>4, <1>5, ConnectionsStep DEF Sessions
<1>7. QED
  BY <1>3, <1>6 DEF Connected

LEMMA NextIntroduced ==
  ASSUME Steady, Typed', Replies, Acquainted, [Next]_vars, NEW k \in live'
  PROVE  Introduced(k)'
<1> DEFINE s == client[k[1]]
           t == client'[k[1]]
           Goal ==
             IF k \in DOMAIN socketPlayers'
             THEN /\ ~Occurs(toClient'[k], LoginReplies) => t.known
                  /\ ~Occurs(toClient'[k], LoginReplies) \/ (t.lobby /\ t.known) =>
                       t.playerId = socketPlayers'[k]
             ELSE ~Occurs(toServer'[k], GameRequests) /\ ~(t.lobby /\ t.known)
<1>0. Typed /\ Sessions
  BY DEF Steady
<1>1. /\ k \in Connection
      /\ \/ IsNew(k)
         \/ StaysUnknown(k)
         \/ \E p \in Player : BecomesKnown(k, p)
         \/ \E p \in Player : StaysKnown(k, p)
  BY LiveCases
<1>2. toClient[k] \in Seq(Commands) /\ toServer[k] \in Seq(Requests)
  BY <1>0, <1>1 DEF Typed, QueueTypes
<1>3. ASSUME IsNew(k) PROVE Goal
  <2> DEFINE c == k[1]
  <2>1. c \in Client /\ Connect(c) /\ ~Connected(c) /\ k \notin DOMAIN socketPlayers'
    BY <1>1, <1>3 DEF IsNew, Connect, Connection
  <2>2. t.known = s.known /\ t.lobby = s.lobby
    BY <1>0, <2>1 DEF Connect, Change, Typed, ClientTypes, ClientState
  <2>3. ~(s.known /\ s.lobby)
    BY <2>1 DEF Acquainted
  <2>4. toServer'[k] = <<FirstRequest(c)>> /\ FirstRequest(c) \notin GameRequests
    BY <1>3 DEF IsNew, FirstRequest, GameRequests
  <2>5. ~Occurs(toServer'[k], GameRequests)
    BY <2>4, OneInQueue
  <2>6. QED
    BY <2>1, <2>2, <2>3, <2>5
<1>4. ASSUME StaysUnknown(k) PROVE Goal
  <2>1. /\ k \in live /\ k \notin DOMAIN socketPlayers /\ k \notin DOMAIN socketPlayers'
        /\ ~Occurs(toClient[k], Commands \ Gamelists)
        /\ ~Occurs(toServer[k], GameRequests) /\ ~(s.lobby /\ s.known)
    BY <1>4 DEF StaysUnknown, Replies, Acquainted, Introduced
  <2>2. ASSUME IsServed(k) PROVE Goal
    <3>1. client' = client /\ (\/ toServer'[k] = toServer[k]
                               \/ /\ toServer[k] # <<>>
                                  /\ toServer'[k] = Tail(toServer[k]))
      BY <2>2 DEF IsServed
    <3>2. toServer[k] # <<>> =>
            (Occurs(Tail(toServer[k]), GameRequests) => Occurs(toServer[k], GameRequests))
      BY <1>2, HeadQueue
    <3>3. ~Occurs(toServer'[k], GameRequests)
      BY <2>1, <3>1, <3>2
    <3>4. QED
      BY <2>1, <3>1, <3>3
  <2>3. ASSUME ClientSide(k) PROVE Goal
    <3>1. CASE Reads(k)
      <4>1. Head(toClient[k]) \in Gamelists
        <5>1. /\ Occurs(toClient[k], Commands \ Gamelists) <=>
                   \/ Head(toClient[k]) \in Commands \ Gamelists
                   \/ Occurs(Tail(toClient[k]), Commands \ Gamelists)
              /\ Head(toClient[k]) \in Commands
          BY <1>2, <3>1, HeadQueue DEF Reads
        <5>2. QED
          BY <2>1, <5>1
      <4>2. Head(toClient[k])[1] = "onGamelist" /\ toServer'[k] = toServer[k]
        BY <3>1, <4>1 DEF Gamelists, Reads
      <4>3. t = [s EXCEPT !.list = Head(toClient[k])[2]] /\ s \in ClientState
        BY <1>0, <2>1, <3>1, <4>2, LiveSocket DEF Reads, Told, Typed, ClientTypes
      <4>4. t.known = s.known /\ t.lobby = s.lobby
        BY <4>3 DEF ClientState
      <4>5. QED
        BY <2>1, <4>2, <4>4
    <3>2. CASE ~Reads(k)
      <4>1. t.known = s.known /\ t.lobby = s.lobby
        BY <1>0, <2>1, <2>3, <3>2, ClientSideDoes DEF Unread
      <4>2. ~Clicks(k)
        BY <2>1 DEF Clicks, Clicked
      <4>3. toServer'[k] = toServer[k] \/ Emits(k)
        BY <2>3, <3>2, <4>2 DEF ClientSide, Rests
      <4>4. ASSUME Emits(k) PROVE ~Occurs(toServer'[k], GameRequests)
        <5>1. PICK peer \in s.peers :
                toServer'[k] = Append(toServer[k], <<"sendIceMsg", <<s.adapterId, peer>>>>)
          BY <4>4 DEF Emits
        <5> DEFINE m == <<"sendIceMsg", <<s.adapterId, peer>>>>
        <5>2. m \in Requests /\ m \notin GameRequests
          <6>1. s \in ClientState
            BY <1>0, <2>1, LiveSocket DEF Typed, ClientTypes
          <6>2. s.adapterId \in Nat /\ peer \in Player
            BY <6>1 DEF ClientState
          <6>3. QED
            BY <6>2 DEF Requests, IceRequests, GameRequests
        <5>3. toServer'[k] = Append(toServer[k], m)
          BY <5>1
        <5> HIDE DEF m
        <5>4. Occurs(Append(toServer[k], m), GameRequests) <=>
                Occurs(toServer[k], GameRequests) \/ m \in GameRequests
          BY <1>2, <5>2, AppendQueue
        <5>5. QED
          BY <2>1, <5>2, <5>3, <5>4
      <4>5. QED
        BY <2>1, <4>1, <4>3, <4>4
    <3>3. QED
      BY <3>1, <3>2
  <2>4. QED
    BY <1>4, <2>2, <2>3 DEF StaysUnknown
<1>5. ASSUME NEW p \in Player, BecomesKnown(k, p) PROVE Goal
  <2> DEFINE m == <<"loggedIn", <<p, DOMAIN games>>>>
  <2>1. /\ k \in live /\ k \notin DOMAIN socketPlayers /\ k \in DOMAIN socketPlayers'
        /\ m \in LoginReplies /\ t = s
    BY <1>5 DEF BecomesKnown, IsNext
  <2>2. ~(s.lobby /\ s.known)
    BY <2>1 DEF Acquainted, Introduced
  <2>3. PICK r \in Seq(Commands) :
               /\ toClient'[k] = toClient[k] \o r
               /\ \A A \in SUBSET Commands : Occurs(r, A) <=> m \in A
    BY <1>5 DEF BecomesKnown
  <2>4. Occurs(r, LoginReplies) /\ toClient'[k] = toClient[k] \o r
    BY <2>1, <2>3, Kinds
  <2>5. Occurs(toClient'[k], LoginReplies)
    BY <1>2, <2>4, Grown
  <2>6. QED
    BY <2>1, <2>2, <2>5
<1>6. ASSUME NEW p \in Player, StaysKnown(k, p) PROVE Goal
  <2>1. /\ k \in live /\ k \in DOMAIN socketPlayers /\ socketPlayers[k] = p
        /\ k \in DOMAIN socketPlayers' /\ socketPlayers'[k] = p
        /\ ~Occurs(toClient[k], OtherReplies(p))
        /\ ~Occurs(toClient[k], LoginReplies) => s.known
        /\ ~Occurs(toClient[k], LoginReplies) \/ (s.lobby /\ s.known) => s.playerId = p
    BY <1>6 DEF StaysKnown, Is, IsNext, Replies, Acquainted, Introduced
  <2>2. ASSUME \E r : News(k, p, r), IsServed(k) PROVE Goal
    <3>1. PICK r : News(k, p, r)
      BY <2>2
    <3>2. r \in Seq(Commands) /\ toClient'[k] = toClient[k] \o r /\ t = s
      BY <2>2, <3>1 DEF News, IsServed
    <3>3. Occurs(toClient[k], LoginReplies) => Occurs(toClient'[k], LoginReplies)
      BY <1>2, <3>2, Grown
    <3>4. QED
      BY <2>1, <3>2, <3>3
  <2>3. ASSUME Unread(k) PROVE Goal
    BY <2>1, <2>3 DEF Unread
  <2>4. ASSUME Reads(k) PROVE Goal
    <3> DEFINE m == Head(toClient[k])
    <3>1. /\ m \in Commands /\ t = Told(s, m[1], m[2]) /\ s \in ClientState
          /\ m = <<m[1], m[2]>>
      <4>2. m \in Commands
        BY <1>2, <2>4, HeadQueue DEF Reads
      <4>3. m = <<m[1], m[2]>>
        BY <4>2, CommandForms
      <4>4. s \in ClientState
        BY <1>0, <2>1, LiveSocket DEF Typed, ClientTypes
      <4>5. QED
        BY <2>4, <4>2, <4>3, <4>4 DEF Reads
    <3>2. \A A : Occurs(toClient[k], A) <=> m \in A \/ Occurs(toClient'[k], A)
      BY <1>2, <2>4, Shortened DEF Reads
    <3> HIDE DEF m
    <3>3. CASE m[1] = "loggedIn"
      <4>1. m \in LoginReplies /\ m \notin OtherReplies(p)
        BY <2>1, <3>1, <3>2, <3>3, CommandForms
      <4>2. m[2][1] = p
        BY <4>1 DEF LoginReplies, OtherReplies
      <4>3. t = LoggedIn(s, m[2][1], m[2][2])
        BY <3>1, <3>3 DEF Told
      <4>4. t.known = TRUE /\ t.playerId = m[2][1]
        BY <3>1, <4>3 DEF LoggedIn, ClientState
      <4>5. QED
        BY <2>1, <4>2, <4>4
    <3>4. CASE m[1] # "loggedIn"
      <4>1. m \notin LoginReplies
        BY <3>1, <3>4, CommandForms
      <4>2. t.known = s.known /\ t.playerId = s.playerId /\ t.lobby = s.lobby
        BY <3>1, <3>4, ToldKeeps
      <4>3. QED
        BY <2>1, <3>2, <4>1, <4>2
    <3>5. QED
      BY <3>3, <3>4
  <2> HIDE DEF Goal
  <2>5. QED
    BY <1>0, <1>6, <2>1, <2>2, <2>3, <2>4, ClientSideDoes DEF StaysKnown
<1> HIDE DEF Goal
<1>7. Goal
  BY <1>1, <1>3, <1>4, <1>5, <1>6
<1>8. QED
  BY <1>7 DEF Goal, Introduced

LEMMA AcquaintedAlways == Spec => [](Lossless => Acquainted)
<1>1. Init => (Lossless => Acquainted)
  BY DEF Init, ServerInit, Acquainted
<1>2. ASSUME Typed, Typed', Calm => Steady, Calm => Replies,
             Lossless => Acquainted, [Next]_vars
      PROVE  (Lossless => Acquainted)'
  <2>1. ASSUME Lossless' PROVE Acquainted'
    <3>1. Lossless /\ Calm
      BY <1>2, <2>1, CalmBefore DEF Lossless, Calm
    <3>2. \A c \in Client : client'[c].lobby /\ client'[c].known => Connected(c)'
      BY <1>2, <2>1, <3>1, NextConnected
    <3>3. \A k \in live' : Introduced(k)'
      BY <1>2, <3>1, NextIntroduced
    <3>4. QED
      BY <3>2, <3>3 DEF Acquainted
  <2>2. QED
    BY <2>1
<1>3. QED
  BY <1>1, <1>2, TypedAlways, SteadyAlways, RepliesAlways, PTL DEF Spec

-----------------------------------------------------------------------------
(* The list of games a client shows.                                       *)

Shows(k) ==
  k \in DOMAIN socketPlayers =>
    IF Occurs(toClient[k], Lists)
    THEN Ends(toClient[k], Current(DOMAIN games), Lists)
    ELSE client[k[1]].list = DOMAIN games

\* The last list on its way to a client that is logged in is the one of the
\* games there are; with none on its way the client shows that one.
ListsCurrent == \A k \in live : Shows(k)

LEMMA NextListsCurrent ==
  ASSUME Steady, Typed', ListsCurrent, [Next]_vars
  PROVE  ListsCurrent'
<1> SUFFICES ASSUME NEW k \in live', k \in DOMAIN socketPlayers'
             PROVE  IF Occurs(toClient'[k], Lists)
                    THEN Ends(toClient'[k], Current(DOMAIN games'), Lists)
                    ELSE client'[k[1]].list = DOMAIN games'
  BY DEF ListsCurrent, Shows
<1> DEFINE Goal == IF Occurs(toClient'[k], Lists)
                   THEN Ends(toClient'[k], Current(DOMAIN games'), Lists)
                   ELSE client'[k[1]].list = DOMAIN games'
<1>0. Typed /\ Sessions
  BY DEF Steady
<1>1. /\ k \in Connection
      /\ \/ \E p \in Player : BecomesKnown(k, p)
         \/ \E p \in Player : StaysKnown(k, p)
  BY LiveCases DEF IsNew, StaysUnknown
<1>2. toClient[k] \in Seq(Commands)
  BY <1>0, <1>1 DEF Typed, QueueTypes
<1>3. /\ Lists \in SUBSET Commands /\ Lists \ Current(DOMAIN games) \in SUBSET Commands
      /\ Current(DOMAIN games) \subseteq Lists
  <2>1. DOMAIN games \in SUBSET Player
    BY <1>0 DEF Typed, ServerTypes
  <2>2. QED
    BY <2>1, Kinds
<1>4. ASSUME NEW p \in Player, BecomesKnown(k, p) PROVE Goal
  <2> DEFINE m == <<"loggedIn", <<p, DOMAIN games>>>>
  <2>1. m \in Lists /\ m \in Current(DOMAIN games)
    BY <1>4 DEF BecomesKnown, Lists, Current
  <2>2. PICK r \in Seq(Commands) :
               /\ toClient'[k] = toClient[k] \o r
               /\ \A A \in SUBSET Commands : Occurs(r, A) <=> m \in A
    BY <1>4 DEF BecomesKnown
  <2> HIDE DEF m
  <2>3. Occurs(r, Lists) /\ ~Occurs(r, Lists \ Current(DOMAIN games))
    BY <1>3, <2>1, <2>2
  <2>4. Ends(r, Current(DOMAIN games), Lists)
    BY <2>3, LastAmong
  <2>5. toClient'[k] = toClient[k] \o r
    BY <2>2
  <2>6. Occurs(toClient'[k], Lists) /\ Ends(toClient'[k], Current(DOMAIN games), Lists)
    BY <1>2, <2>3, <2>4, <2>5, Grown
  <2>7. games' = games
    BY <1>4 DEF BecomesKnown
  <2>8. QED
    BY <2>6, <2>7
<1>5. ASSUME NEW p \in Player, StaysKnown(k, p) PROVE Goal
  <2> DEFINE s == client[k[1]]
             t == client'[k[1]]
  <2>1. /\ k \in live
        /\ Occurs(toClient[k], Lists) => Ends(toClient[k], Current(DOMAIN games), Lists)
        /\ ~Occurs(toClient[k], Lists) => s.list = DOMAIN games
    BY <1>5 DEF StaysKnown, Is, ListsCurrent, Shows
  <2>2. ASSUME \E r : News(k, p, r), IsServed(k) PROVE Goal
    <3>1. PICK r : News(k, p, r)
      BY <2>2
    <3>2. /\ r \in Seq(Commands) /\ toClient'[k] = toClient[k] \o r /\ t = s
          /\ Occurs(r, Lists) => Ends(r, Current(DOMAIN games'), Lists)
          /\ ~Occurs(r, Lists) => DOMAIN games' = DOMAIN games
      BY <2>2, <3>1 DEF News, IsServed
    <3>3. /\ Occurs(toClient'[k], Lists) <=> Occurs(toClient[k], Lists) \/ Occurs(r, Lists)
          /\ Ends(toClient'[k], Current(DOMAIN games'), Lists) <=>
               \/ Ends(r, Current(DOMAIN games'), Lists)
               \/ Ends(toClient[k], Current(DOMAIN games'), Lists) /\ ~Occurs(r, Lists)
      BY <1>2, <3>2, Grown
    <3>4. QED
      BY <2>1, <3>2, <3>3
  <2>3. ASSUME ClientSide(k), Unread(k) PROVE Goal
    BY <2>1, <2>3 DEF ClientSide, Unread
  <2>4. ASSUME ClientSide(k), Reads(k) PROVE Goal
    <3> DEFINE m == Head(toClient[k])
    <3>1. /\ m \in Commands /\ t = Told(s, m[1], m[2]) /\ s \in ClientState
          /\ m = <<m[1], m[2]>>
      BY <1>0, <2>1, <2>4, ReadsDoes
    <3>2. /\ Occurs(toClient[k], Lists) <=> m \in Lists \/ Occurs(toClient'[k], Lists)
          /\ Ends(toClient[k], Current(DOMAIN games), Lists) <=>
               \/ Ends(toClient'[k], Current(DOMAIN games), Lists)
               \/ m \in Current(DOMAIN games) /\ ~Occurs(toClient'[k], Lists)
      BY <1>0, <2>1, <2>4, ReadsDoes
    <3>3. games' = games
      BY <2>4 DEF ClientSide
    <3> HIDE DEF m
    <3>4. ASSUME m \in Current(DOMAIN games) PROVE t.list = DOMAIN games
      <4>1. \/ m[1] = "onGamelist" /\ m[2] = DOMAIN games
            \/ m[1] = "loggedIn" /\ m[2][2] = DOMAIN games
        BY <3>4 DEF Current
      <4>2. CASE m[1] = "onGamelist" /\ m[2] = DOMAIN games
        BY <3>1, <4>2 DEF Told, ClientState
      <4>3. CASE m[1] = "loggedIn" /\ m[2][2] = DOMAIN games
        BY <3>1, <4>3 DEF Told, LoggedIn, ClientState
      <4>4. QED
        BY <4>1, <4>2, <4>3
    <3>5. ASSUME m \notin Lists PROVE t.list = s.list
      <4>1. m[1] \notin {"loggedIn", "onGamelist"}
        BY <3>1, <3>5, CommandForms DEF Lists
      <4>2. Told(s, m[1], m[2]).list = s.list
        BY <3>1, <4>1, ToldKeeps
      <4>3. QED
        BY <3>1, <4>2
    <3>6. Ends(toClient'[k], Current(DOMAIN games), Lists) => Occurs(toClient'[k], Lists)
      BY <1>3 DEF Ends, Occurs
    <3>7. QED
      BY <1>3, <2>1, <3>2, <3>3, <3>4, <3>5, <3>6
  <2> HIDE DEF Goal
  <2>5. QED
    BY <1>0, <1>5, <2>1, <2>2, <2>3, <2>4, ClientSideDoes DEF StaysKnown
<1> HIDE DEF Goal
<1>6. Goal
  BY <1>1, <1>4, <1>5
<1>7. QED
  BY <1>6 DEF Goal

LEMMA ListsCurrentAlways == Spec => [](Calm => ListsCurrent)
<1>1. Init => (Calm => ListsCurrent)
  BY DEF Init, ServerInit, ListsCurrent
<1>2. ASSUME Typed, Typed', Calm => Steady, Calm => ListsCurrent, [Next]_vars
      PROVE  (Calm => ListsCurrent)'
  <2>1. ASSUME Calm' PROVE ListsCurrent'
    BY <1>2, <2>1, CalmBefore, NextListsCurrent
  <2>2. QED
    BY <2>1
<1>3. QED
  BY <1>1, <1>2, TypedAlways, SteadyAlways, PTL DEF Spec

\* A connection on which nothing is on its way was logged in.
LEMMA SettledLive ==
  ASSUME Settled, Steady, NEW k \in live
  PROVE  /\ Lossless /\ k \in Connection /\ k \in DOMAIN socketPlayers
         /\ toServer[k] = <<>> /\ toClient[k] = <<>>
<1>1. k \in Connection
  BY DEF Steady, Typed, ServerTypes
<1>2. toServer[k] = <<>> /\ toClient[k] = <<>> /\ Lossless
  BY <1>1 DEF Settled, Lossless
<1>3. QED
  BY <1>1, <1>2 DEF Steady, LoginsFirst

\* When all has arrived every client shows the games there are.
THEOREM ListsAreCurrent == Spec => []GamelistCurrent
<1>1. ASSUME Calm => Steady, Calm => ListsCurrent PROVE GamelistCurrent
  <2> SUFFICES ASSUME Settled, NEW c \in Client, Connected(c)
               PROVE  client[c].list = DOMAIN games
    BY DEF GamelistCurrent
  <2>1. Steady /\ ListsCurrent
    BY <1>1 DEF Settled, Calm
  <2>2. Socket(c) \in live /\ Socket(c)[1] = c
    BY DEF Connected, Socket
  <2>3. Socket(c) \in DOMAIN socketPlayers /\ toClient[Socket(c)] = <<>>
    BY <2>1, <2>2, SettledLive
  <2>4. ~Occurs(toClient[Socket(c)], Lists)
    BY <2>3, EmptyQueue
  <2>5. QED
    BY <2>1, <2>2, <2>3, <2>4 DEF ListsCurrent, Shows
<1>2. QED
  BY <1>1, SteadyAlways, ListsCurrentAlways, PTL

-----------------------------------------------------------------------------
(* What the adapters of the players of a game know of each other.          *)

\* With the answer to its own request a player hears last of each player of
\* the game it is in then that it is to connect to it.
LEMMA OwnNews ==
  ASSUME Steady, [Next]_vars, NEW k \in live, NEW y, Is(k, y),
         ServerReads(k), Head(toServer[k]) \in GameRequests,
         NEW g \in DOMAIN games', NEW x \in games'[g] \ {y}, y \in games'[g]
  PROVE  Ends(toClient'[k], Connects(x), Changes(x))
<1> DEFINE Goal == Ends(toClient'[k], Connects(x), Changes(x))
<1>0. Typed /\ Sessions /\ LoginsFirst /\ OneGameEach /\ PlayersOK /\ BooksAgree
  BY DEF Steady
<1>1. /\ k \in sockets /\ k \in Connection /\ ServerTypes
      /\ y \in DOMAIN playerSockets /\ y \in Player /\ \A q : Is(k, q) => q = y
  BY <1>0 DEF Typed, ServerTypes, Sessions, BooksAgree, Is
<1>2. x \in Player
  BY <1>0, GamesTypes DEF Typed
<1>3. toClient[k] \in Seq(Commands)
  BY <1>0, <1>1 DEF Typed, QueueTypes
<1>4. /\ ~Idles(k) /\ ~LogsIn(k)
      /\ \A sender, receiver : ~Forwards(k, sender, receiver)
  <2>1. <<"login", All>> \notin GameRequests
    BY DEF GameRequests
  <2>2. \A arg : <<"sendIceMsg", arg>> \notin GameRequests
    BY DEF GameRequests
  <2>3. QED
    BY <2>1, <2>2 DEF Idles, LogsIn, Forwards, Is
<1>5. ASSUME NEW p, HostsAt(k, p) PROVE FALSE
  <2>1. p = y /\ HostedMaps(y)
    BY <1>0, <1>1, <1>5, HostsDo DEF HostsAt
  <2>2. g = y
    BY <2>1 DEF HostedMaps
  <2>3. QED
    BY <2>1, <2>2 DEF HostedMaps
<1>6. ASSUME NEW p, LeavesAt(k, p) PROVE FALSE
  <2>1. p = y /\ LeftMaps(y)
    BY <1>0, <1>1, <1>6, LeavesDo DEF LeavesAt
  <2>2. QED
    BY <2>1 DEF LeftMaps
<1>7. ASSUME NEW p, NEW h, JoinsAt(k, p, h) PROVE Goal
  <2> DEFINE left == LeaveCommands(y)
             joined == JoinCommands(y, h)
  <2>1. p = y /\ Joins(y, h) /\ h \in DOMAIN GamesWithout(y)
    BY <1>1, <1>7 DEF JoinsAt, Joins
  <2>2. JoinedMaps(y, h)
    BY <1>0, <2>1, JoinsDo
  <2>3. g = h /\ x \in games[h] \ {y}
    BY <2>2 DEF JoinedMaps
  <2>4. /\ joined \in Seq(Addressed)
        /\ Ends(SentTo(k, joined), Connects(x), Changes(x))
    BY <1>0, <1>1, <1>2, <2>1, <2>3, JoinNews
  <2>5. left \in Seq(Addressed)
    BY <1>1, LeaveSends
  <2>6. SendAll(left \o joined)
    BY <1>7, <2>1 DEF JoinsAt
  <2>7. Connects(x) \in SUBSET Commands /\ Changes(x) \in SUBSET Commands
    BY <1>2, Kinds
  <2> HIDE DEF left, joined
  <2>8. /\ left \o joined \in Seq(Addressed)
        /\ Ends(SentTo(k, left \o joined), Connects(x), Changes(x))
    BY <2>4, <2>5, <2>7, ConcatHeard
  <2>9. Added(k, left \o joined)
    BY <1>0, <2>6, <2>8, SendAdds
  <2>10. QED
    BY <1>3, <2>8, <2>9, Grown DEF Added
<1> HIDE DEF Goal
<1>8. \/ Idles(k)
      \/ LogsIn(k)
      \/ \E p : HostsAt(k, p)
      \/ \E p : LeavesAt(k, p)
      \/ \E p : \E h : JoinsAt(k, p, h)
      \/ \E sender, receiver : Forwards(k, sender, receiver)
  <2>1. Serves(k)
    BY DEF Serves
  <2>2. QED
    BY <1>0, <1>1, <2>1, ServesStep
<1>9. Goal
  BY <1>4, <1>5, <1>6, <1>7, <1>8
<1>10. QED
  BY <1>9 DEF Goal

\* The last that an adapter hears of player x decides.
LEMMA ToldPeers ==
  ASSUME NEW s \in ClientState, NEW m \in Commands,
         m # <<"onHostLeft", s.gameId>>, NEW x
  PROVE  LET t == Told(s, m[1], m[2]) IN
         /\ m \in Connects(x) => x \in t.peers
         /\ m \notin Changes(x) /\ x \in s.peers => x \in t.peers
         /\ t.gameId = s.gameId
<1> DEFINE t == Told(s, m[1], m[2])
<1>1. m = <<m[1], m[2]>>
  BY CommandForms
<1>2. m \in Connects(x) => x \in t.peers
  BY DEF Connects, Told, SendToIceAdapter, ClientState
<1>3. t.gameId = s.gameId
  <2>1. CASE m[1] = "onHostLeft"
    <3>1. t = s
      BY <1>1, <2>1 DEF Told
    <3>2. QED
      BY <3>1
  <2>2. CASE m[1] # "onHostLeft"
    BY <2>2, ToldKeeps
  <2>3. QED
    BY <2>1, <2>2
<1>4. ASSUME m \notin Changes(x), x \in s.peers PROVE x \in t.peers
  <2>1. m[1] = "disconnectFromPeer" => m[2] # x
    BY <1>1, <1>4 DEF Changes
  <2>2. m[1] = "onHostLeft" => s.gameId # m[2]
    BY <1>1
  <2>3. CASE m[1] = "loggedIn"
    BY <1>4, <2>3 DEF Told, LoggedIn, ClientState
  <2>4. CASE m[1] \in {"onGamelist", "onHostLeft"}
    BY <1>4, <2>2, <2>4 DEF Told, ClientState
  <2>5. CASE m[1] \notin {"loggedIn", "onGamelist", "onHostLeft"}
    BY <1>4, <2>1, <2>5 DEF Told, SendToIceAdapter, ClientState
  <2>6. QED
    BY <2>3, <2>4, <2>5
<1>5. QED
  BY <1>2, <1>3, <1>4

\* The adapter of k will know player x when it has read what is on its way.
Knows(k, x) ==
  \/ Ends(toClient[k], Connects(x), Changes(x))
  \/ x \in client[k[1]].peers /\ ~Occurs(toClient[k], Changes(x))

\* A player's adapter will know the others of its game, unless the player is
\* about to change the game, or about to be told that the game has ended.
Meets(k) ==
  k \in DOMAIN socketPlayers =>
    \/ Occurs(toServer[k], GameRequests)
    \/ Occurs(toClient[k], {<<"onHostLeft", client[k[1]].gameId>>})
    \/ \A g \in DOMAIN games : socketPlayers[k] \in games[g] =>
         \A x \in games[g] \ {socketPlayers[k]} : Knows(k, x)

FellowsMeet == \A k \in live : Meets(k)

LEMMA NextFellowsMeet ==
  ASSUME Steady, Typed', FellowsMeet, [Next]_vars
  PROVE  FellowsMeet'
<1> SUFFICES ASSUME NEW k \in live', k \in DOMAIN socketPlayers'
             PROVE  Meets(k)'
  BY DEF FellowsMeet, Meets
<1> DEFINE s == client[k[1]]
           t == client'[k[1]]
           asked == Occurs(toServer'[k], GameRequests)
           ended == Occurs(toClient'[k], {<<"onHostLeft", t.gameId>>})
           known == \A g \in DOMAIN games' : socketPlayers'[k] \in games'[g] =>
                      \A x \in games'[g] \ {socketPlayers'[k]} : Knows(k, x)'
           Goal == asked \/ ended \/ known
<1>0. Typed /\ Sessions
  BY DEF Steady
<1>1. /\ k \in Connection
      /\ \/ \E p \in Player : BecomesKnown(k, p)
         \/ \E p \in Player : StaysKnown(k, p)
  BY LiveCases DEF IsNew, StaysUnknown
<1>2. toClient[k] \in Seq(Commands) /\ toServer[k] \in Seq(Requests)
  BY <1>0, <1>1 DEF Typed, QueueTypes
<1>3. ASSUME NEW p \in Player, BecomesKnown(k, p) PROVE Goal
  <2>1. known
    BY <1>3 DEF BecomesKnown, IsNext
  <2>2. QED
    BY <2>1
<1>4. ASSUME NEW p \in Player, StaysKnown(k, p) PROVE Goal
  <2>1. /\ k \in live /\ k \in DOMAIN socketPlayers /\ socketPlayers[k] = p
        /\ k \in DOMAIN socketPlayers' /\ socketPlayers'[k] = p /\ Is(k, p)
    BY <1>4 DEF StaysKnown, Is, IsNext
  <2>2. \/ Occurs(toServer[k], GameRequests)
        \/ Occurs(toClient[k], {<<"onHostLeft", s.gameId>>})
        \/ \A g \in DOMAIN games : p \in games[g] =>
             \A x \in games[g] \ {p} : Knows(k, x)
    BY <2>1 DEF FellowsMeet, Meets
  <2>3. ASSUME \E r : News(k, p, r), IsServed(k) PROVE Goal
    <3>1. PICK r : News(k, p, r)
      BY <2>3
    <3>2. /\ r \in Seq(Commands) /\ toClient'[k] = toClient[k] \o r /\ t = s
          /\ \A g \in DOMAIN games' : \A x \in games'[g] \ {p} :
               p \in games'[g] =>
                 \/ Ends(r, Connects(x), Changes(x))
                 \/ /\ ~Occurs(r, Changes(x))
                    /\ g \in DOMAIN games /\ p \in games[g] /\ x \in games[g]
      BY <2>3, <3>1 DEF News, IsServed
    <3>3. /\ \A A : Occurs(toClient'[k], A) <=> Occurs(toClient[k], A) \/ Occurs(r, A)
          /\ \A A, B : Ends(toClient'[k], A, B) <=>
               Ends(r, A, B) \/ (Ends(toClient[k], A, B) /\ ~Occurs(r, B))
      BY <1>2, <3>2, Grown
    <3>4. ASSUME Occurs(toClient[k], {<<"onHostLeft", s.gameId>>}) PROVE ended
      BY <3>2, <3>3, <3>4
    <3>5. ASSUME \A g \in DOMAIN games : p \in games[g] =>
                   \A x \in games[g] \ {p} : Knows(k, x)
          PROVE  known
      <4> SUFFICES ASSUME NEW g \in DOMAIN games', NEW x \in games'[g] \ {p},
                          p \in games'[g]
                   PROVE  Knows(k, x)'
        BY <2>1
      <4>1. CASE Ends(r, Connects(x), Changes(x))
        BY <3>3, <4>1 DEF Knows
      <4>2. CASE /\ ~Occurs(r, Changes(x))
                 /\ g \in DOMAIN games /\ p \in games[g] /\ x \in games[g]
        <5>1. Knows(k, x)
          BY <3>5, <4>2
        <5>2. QED
          BY <3>2, <3>3, <4>2, <5>1 DEF Knows
      <4>3. QED
        BY <3>2, <4>1, <4>2
    <3>6. ASSUME Occurs(toServer[k], GameRequests), ~asked PROVE known
      <4>1. /\ ServerReads(k) /\ toServer[k] # <<>>
            /\ toServer'[k] = Tail(toServer[k])
        BY <2>3, <3>6 DEF IsServed
      <4>2. Occurs(toServer[k], GameRequests) <=>
              Head(toServer[k]) \in GameRequests \/ Occurs(Tail(toServer[k]), GameRequests)
        BY <1>2, <4>1, HeadQueue
      <4>3. Head(toServer[k]) \in GameRequests
        BY <3>6, <4>1, <4>2
      <4> SUFFICES ASSUME NEW g \in DOMAIN games', NEW x \in games'[g] \ {p},
                          p \in games'[g]
                   PROVE  Knows(k, x)'
        BY <2>1
      <4>4. Ends(toClient'[k], Connects(x), Changes(x))
        BY <2>1, <4>1, <4>3, OwnNews
      <4>5. QED
        BY <4>4 DEF Knows
    <3>7. QED
      BY <2>2, <3>4, <3>5, <3>6
  <2>4. ASSUME ClientSide(k) PROVE Goal
    <3>1. games' = games
      BY <2>4 DEF ClientSide
    <3>2. ASSUME Clicks(k) PROVE asked
      <4>1. PICK m \in GameRequests : toServer'[k] = Append(toServer[k], m)
        BY <3>2 DEF Clicks
      <4>2. m \in Requests
        BY DEF Requests
      <4>3. Occurs(Append(toServer[k], m), GameRequests)
        BY <1>2, <4>2, AskedQueue
      <4>4. QED
        BY <4>1, <4>3
    <3>3. ASSUME Rests(k) PROVE Goal
      BY <2>1, <2>2, <3>1, <3>3 DEF Rests, Knows
    <3>4. ASSUME Emits(k) PROVE Goal
      <4>1. t = s /\ toClient'[k] = toClient[k]
        BY <3>4 DEF Emits
      <4>2. PICK peer \in s.peers :
              toServer'[k] = Append(toServer[k], <<"sendIceMsg", <<s.adapterId, peer>>>>)
        BY <3>4 DEF Emits
      <4> DEFINE m == <<"sendIceMsg", <<s.adapterId, peer>>>>
      <4>3. m \in Requests
        <5>1. s \in ClientState
          BY <1>0, <2>1, LiveSocket DEF Typed, ClientTypes
        <5>2. s.adapterId \in Nat /\ peer \in Player
          BY <5>1 DEF ClientState
        <5>3. QED
          BY <5>2 DEF Requests, IceRequests
      <4>4. toServer'[k] = Append(toServer[k], m)
        BY <4>2
      <4> HIDE DEF m
      <4>5. Occurs(Append(toServer[k], m), GameRequests) <=>
              Occurs(toServer[k], GameRequests) \/ m \in GameRequests
        BY <1>2, <4>3, AppendQueue
      <4>6. QED
        BY <2>1, <2>2, <3>1, <4>1, <4>4, <4>5 DEF Knows
    <3>5. ASSUME Reads(k) PROVE Goal
      <4> DEFINE m == Head(toClient[k])
      <4>1. /\ m \in Commands /\ t = Told(s, m[1], m[2]) /\ s \in ClientState
            /\ \A A : Occurs(toClient[k], A) <=> m \in A \/ Occurs(toClient'[k], A)
            /\ \A A, B : Ends(toClient[k], A, B) <=>
                 Ends(toClient'[k], A, B) \/ (m \in A /\ ~Occurs(toClient'[k], B))
        BY <1>0, <2>1, <3>5, ReadsDoes
      <4>2. toServer'[k] = IF m = <<"onHostLeft", s.gameId>>
                           THEN Append(toServer[k], <<"leaveGame", All>>)
                           ELSE toServer[k]
        BY <3>5 DEF Reads
      <4> HIDE DEF m
      <4>3. /\ <<"leaveGame", All>> \in GameRequests
            /\ Occurs(Append(toServer[k], <<"leaveGame", All>>), GameRequests)
        <5>1. /\ <<"leaveGame", All>> \in GameRequests
              /\ <<"leaveGame", All>> \in Requests
          BY DEF GameRequests, Requests
        <5>2. QED
          BY <1>2, <5>1, AskedQueue
      <4>4. CASE m = <<"onHostLeft", s.gameId>>
        BY <4>2, <4>3, <4>4
      <4>5. CASE m # <<"onHostLeft", s.gameId>>
        <5>1. /\ t.gameId = s.gameId
              /\ \A x : /\ m \in Connects(x) => x \in t.peers
                        /\ m \notin Changes(x) /\ x \in s.peers => x \in t.peers
          BY <4>1, <4>5, ToldPeers
        <5>2. Occurs(toServer[k], GameRequests) => asked
          BY <4>2, <4>5
        <5>3. Occurs(toClient[k], {<<"onHostLeft", s.gameId>>}) => ended
          BY <4>1, <4>5, <5>1
        <5>4. ASSUME NEW x, Knows(k, x) PROVE Knows(k, x)'
          BY <4>1, <5>1, <5>4 DEF Knows
        <5>5. ASSUME \A g \in DOMAIN games : p \in games[g] =>
                       \A x \in games[g] \ {p} : Knows(k, x)
              PROVE  known
          BY <2>1, <3>1, <5>4, <5>5
        <5>6. QED
          BY <2>2, <5>2, <5>3, <5>5
      <4>6. QED
        BY <4>4, <4>5
    <3>6. QED
      BY <2>4, <3>2, <3>3, <3>4, <3>5 DEF ClientSide
  <2> HIDE DEF Goal
  <2>5. QED
    BY <1>4, <2>3, <2>4 DEF StaysKnown
<1> HIDE DEF Goal
<1>5. Goal
  BY <1>1, <1>3, <1>4
<1>6. QED
  BY <1>5 DEF Goal, Meets

LEMMA FellowsMeetAlways == Spec => [](Calm => FellowsMeet)
<1>1. Init => (Calm => FellowsMeet)
  BY DEF Init, ServerInit, FellowsMeet
<1>2. ASSUME Typed, Typed', Calm => Steady, Calm => FellowsMeet, [Next]_vars
      PROVE  (Calm => FellowsMeet)'
  <2>1. ASSUME Calm' PROVE FellowsMeet'
    BY <1>2, <2>1, CalmBefore, NextFellowsMeet
  <2>2. QED
    BY <2>1
<1>3. QED
  BY <1>1, <1>2, TypedAlways, SteadyAlways, PTL DEF Spec

\* When all has arrived, the adapters of any two players of a game know each
\* other, whatever was left, joined and hosted meanwhile.
THEOREM FellowsAreConnected == Spec => []FellowsConnected
<1>1. ASSUME Calm => Steady, Lossless => Acquainted, Calm => FellowsMeet
      PROVE  FellowsConnected
  <2> SUFFICES ASSUME Settled, NEW g \in DOMAIN games, NEW c \in Client,
                      NEW p \in games[g], Holds(c, p)
               PROVE  games[g] \ {p} \subseteq client[c].peers
    BY DEF FellowsConnected
  <2> DEFINE k == Socket(c)
  <2>1. Steady /\ FellowsMeet /\ Acquainted
    BY <1>1 DEF Settled, Calm, Lossless
  <2>2. k \in live /\ k[1] = c /\ client[c].playerId = p
    BY DEF Holds, Connected, Socket
  <2> HIDE DEF k
  <2>3. k \in DOMAIN socketPlayers /\ toServer[k] = <<>> /\ toClient[k] = <<>>
    BY <2>1, <2>2, SettledLive
  <2>4. \A A : ~Occurs(toServer[k], A) /\ ~Occurs(toClient[k], A)
    BY <2>3, EmptyQueue
  <2>5. socketPlayers[k] = p
    BY <2>1, <2>2, <2>3, <2>4 DEF Acquainted, Introduced
  <2>6. \A x : ~Ends(toClient[k], Connects(x), Changes(x))
    BY <2>3, EmptyQueue
  <2>7. \A x \in games[g] \ {p} : Knows(k, x)
    BY <2>1, <2>2, <2>3, <2>4, <2>5 DEF FellowsMeet, Meets
  <2>8. QED
    BY <2>2, <2>6, <2>7 DEF Knows
<1>2. QED
  BY <1>1, SteadyAlways, AcquaintedAlways, FellowsMeetAlways, PTL

-----------------------------------------------------------------------------
(* Which game a client takes for its own.                                  *)

\* The requests whose effect on player p is that it is in game g, or in none.
Fits(g, p) ==
  {<<"leaveGame", All>>, <<"joinGame", g>>}
    \cup (IF g = p THEN {<<"hostGame", All>>} ELSE {})

\* A client's last request on its way is for the game it takes for its own;
\* with none on its way it is in no other.
Agrees(k) ==
  k \in DOMAIN socketPlayers =>
    IF Occurs(toServer[k], GameRequests)
    THEN Ends(toServer[k], Fits(client[k[1]].gameId, socketPlayers[k]), GameRequests)
    ELSE \A g \in DOMAIN games :
           socketPlayers[k] \in games[g] => client[k[1]].gameId = g

MembersFit == \A k \in live : Agrees(k)

LEMMA FitsAre ==
  ASSUME NEW g, NEW p
  PROVE  /\ <<"leaveGame", All>> \in Fits(g, p)
         /\ <<"joinGame", g>> \in Fits(g, p)
         /\ g = p => <<"hostGame", All>> \in Fits(g, p)
         /\ <<"hostGame", All>> \in Fits(g, p) => g = p
         /\ \A h : <<"joinGame", h>> \in Fits(g, p) => h = g
  BY DEF Fits

\* What the server's answer to a request does to a player: only its own
\* requests bring it into a game.
LEMMA MembershipStep ==
  ASSUME Steady, [Next]_vars, NEW k \in live, NEW p, Is(k, p), IsServed(k),
         NEW g \in DOMAIN games', p \in games'[g]
  PROVE  \/ g \in DOMAIN games /\ p \in games[g]
         \/ /\ ServerReads(k) /\ toServer'[k] = Tail(toServer[k])
            /\ \/ Head(toServer[k]) = <<"hostGame", All>> /\ g = p
               \/ Head(toServer[k]) = <<"joinGame", g>>
<1> DEFINE Goal ==
         \/ g \in DOMAIN games /\ p \in games[g]
         \/ /\ ServerReads(k) /\ toServer'[k] = Tail(toServer[k])
            /\ \/ Head(toServer[k]) = <<"hostGame", All>> /\ g = p
               \/ Head(toServer[k]) = <<"joinGame", g>>
<1>0. Typed /\ Sessions /\ LoginsFirst /\ OneGameEach /\ PlayersOK /\ BooksAgree
  BY DEF Steady
<1>1. PICK j \in Connection :
        /\ Serves(j)
        /\ j = k => ServerReads(k) /\ toServer'[k] = Tail(toServer[k])
  BY DEF IsServed
<1>2. \A q : Is(j, q) => q \in DOMAIN playerSockets /\ (q = p => j = k)
  BY <1>0 DEF BooksAgree, Is
<1>3. ASSUME UNCHANGED games PROVE Goal
  BY <1>3
<1>4. ASSUME NEW q, HostsAt(j, q) PROVE Goal
  <2>1. HostedMaps(q) /\ (q = p => j = k)
    BY <1>0, <1>2, <1>4, HostsDo DEF HostsAt
  <2>2. CASE g = q
    <3>1. p = q /\ j = k
      BY <2>1, <2>2 DEF HostedMaps
    <3>2. QED
      BY <1>1, <1>4, <2>2, <3>1 DEF HostsAt
  <2>3. CASE g # q
    BY <2>1, <2>3 DEF HostedMaps
  <2>4. QED
    BY <2>2, <2>3
<1>5. ASSUME NEW q, LeavesAt(j, q) PROVE Goal
  <2>1. LeftMaps(q)
    BY <1>0, <1>5, LeavesDo DEF LeavesAt
  <2>2. QED
    BY <2>1 DEF LeftMaps
<1>6. ASSUME NEW q, NEW h, JoinsAt(j, q, h) PROVE Goal
  <2>1. JoinedMaps(q, h) /\ (q = p => j = k)
    BY <1>0, <1>2, <1>6, JoinsDo DEF JoinsAt
  <2>2. CASE g = h /\ p = q
    BY <1>1, <1>6, <2>1, <2>2 DEF JoinsAt
  <2>3. CASE ~(g = h /\ p = q)
    BY <2>1, <2>3 DEF JoinedMaps
  <2>4. QED
    BY <2>2, <2>3
<1>7. \/ UNCHANGED games
      \/ \E q : HostsAt(j, q)
      \/ \E q : LeavesAt(j, q)
      \/ \E q : \E h : JoinsAt(j, q, h)
  BY <1>0, <1>1, ServesStep DEF Idles, LogsIn, Forwards
<1> HIDE DEF Goal
<1>8. Goal
  BY <1>3, <1>4, <1>5, <1>6, <1>7
<1>9. QED
  BY <1>8 DEF Goal

\* A request to leave or to change the game takes its player out of the old one.
LEMMA RequestStep ==
  ASSUME Steady, [Next]_vars, NEW k \in live, NEW p, Is(k, p),
         ServerReads(k), Head(toServer[k]) \in GameRequests,
         NEW g \in DOMAIN games', p \in games'[g]
  PROVE  \/ Head(toServer[k]) = <<"hostGame", All>> /\ g = p
         \/ Head(toServer[k]) = <<"joinGame", g>>
<1> DEFINE Goal == \/ Head(toServer[k]) = <<"hostGame", All>> /\ g = p
                   \/ Head(toServer[k]) = <<"joinGame", g>>
<1>0. Typed /\ Sessions /\ LoginsFirst /\ OneGameEach /\ PlayersOK /\ BooksAgree
  BY DEF Steady
<1>1. k \in Connection /\ \A q : Is(k, q) => q = p
  BY <1>0 DEF Typed, ServerTypes, Is
<1>2. /\ ~Idles(k) /\ ~LogsIn(k)
      /\ \A sender, receiver : ~Forwards(k, sender, receiver)
  <2>1. <<"login", All>> \notin GameRequests
    BY DEF GameRequests
  <2>2. \A arg : <<"sendIceMsg", arg>> \notin GameRequests
    BY DEF GameRequests
  <2>3. QED
    BY <2>1, <2>2 DEF Idles, LogsIn, Forwards, Is
<1>3. ASSUME NEW q, HostsAt(k, q) PROVE Goal
  <2>1. q = p /\ HostedMaps(p)
    BY <1>0, <1>1, <1>3, HostsDo DEF HostsAt
  <2>2. QED
    BY <1>3, <2>1 DEF HostsAt, HostedMaps
<1>4. ASSUME NEW q, LeavesAt(k, q) PROVE Goal
  <2>1. q = p /\ LeftMaps(p)
    BY <1>0, <1>1, <1>4, LeavesDo DEF LeavesAt
  <2>2. QED
    BY <2>1 DEF LeftMaps
<1>5. ASSUME NEW q, NEW h, JoinsAt(k, q, h) PROVE Goal
  <2>1. q = p /\ JoinedMaps(p, h)
    BY <1>0, <1>1, <1>5, JoinsDo DEF JoinsAt
  <2>2. g = h
    BY <2>1 DEF JoinedMaps
  <2>3. QED
    BY <1>5, <2>2 DEF JoinsAt
<1> HIDE DEF Goal
<1>6. \/ Idles(k)
      \/ LogsIn(k)
      \/ \E q : HostsAt(k, q)
      \/ \E q : LeavesAt(k, q)
      \/ \E q : \E h : JoinsAt(k, q, h)
      \/ \E sender, receiver : Forwards(k, sender, receiver)
  <2>1. Serves(k)
    BY DEF Serves
  <2>2. QED
    BY <1>0, <1>1, <2>1, ServesStep
<1>7. Goal
  BY <1>2, <1>3, <1>4, <1>5, <1>6
<1>8. QED
  BY <1>7 DEF Goal

LEMMA NextMembersFit ==
  ASSUME Steady, Typed', Acquainted, MembersFit, [Next]_vars
  PROVE  MembersFit'
<1> SUFFICES ASSUME NEW k \in live', k \in DOMAIN socketPlayers'
             PROVE  Agrees(k)'
  BY DEF MembersFit, Agrees
<1> DEFINE s == client[k[1]]
           t == client'[k[1]]
           GoalFor(p) == IF Occurs(toServer'[k], GameRequests)
                         THEN Ends(toServer'[k], Fits(t.gameId, p), GameRequests)
                         ELSE \A g \in DOMAIN games' : p \in games'[g] => t.gameId = g
           Goal == GoalFor(socketPlayers'[k])
<1>0. Typed /\ Sessions
  BY DEF Steady
<1>1. /\ k \in Connection
      /\ \/ \E p \in Player : BecomesKnown(k, p)
         \/ \E p \in Player : StaysKnown(k, p)
  BY LiveCases DEF IsNew, StaysUnknown
<1>2. toServer[k] \in Seq(Requests)
  BY <1>0, <1>1 DEF Typed, QueueTypes
<1>3. ASSUME toServer[k] # <<>>, toServer'[k] = Tail(toServer[k])
      PROVE  /\ Occurs(toServer[k], GameRequests) <=>
                  Head(toServer[k]) \in GameRequests \/ Occurs(toServer'[k], GameRequests)
             /\ \A A : Ends(toServer[k], A, GameRequests) <=>
                  \/ Ends(toServer'[k], A, GameRequests)
                  \/ Head(toServer[k]) \in A /\ ~Occurs(toServer'[k], GameRequests)
  <2> DEFINE q == toServer[k]
             u == toServer'[k]
  <2>1. q \in Seq(Requests) /\ q # <<>> /\ u = Tail(q)
    BY <1>2, <1>3
  <2> HIDE DEF q, u
  <2>2. /\ \A A : Occurs(q, A) <=> Head(q) \in A \/ Occurs(u, A)
        /\ \A A, B : Ends(q, A, B) <=> Ends(u, A, B) \/ (Head(q) \in A /\ ~Occurs(u, B))
    BY <2>1, Shortened
  <2>3. QED
    BY <2>2 DEF q, u
<1>4. ASSUME NEW p \in Player, BecomesKnown(k, p) PROVE Goal
  <2>1. /\ k \in live /\ k \notin DOMAIN socketPlayers /\ socketPlayers'[k] = p
        /\ toServer[k] # <<>> /\ toServer'[k] = Tail(toServer[k])
        /\ games' = games /\ \A g \in DOMAIN games : p \notin games[g]
    BY <1>4 DEF BecomesKnown, IsNext
  <2>2. ~Occurs(toServer[k], GameRequests)
    BY <2>1 DEF Acquainted, Introduced
  <2>3. ~Occurs(toServer'[k], GameRequests)
    BY <1>3, <2>1, <2>2
  <2>4. QED
    BY <2>1, <2>3
<1>5. ASSUME NEW p \in Player, StaysKnown(k, p) PROVE Goal
  <2>1. /\ k \in live /\ k \in DOMAIN socketPlayers /\ socketPlayers[k] = p
        /\ socketPlayers'[k] = p /\ Is(k, p)
    BY <1>5 DEF StaysKnown, Is, IsNext
  <2>2. /\ Occurs(toServer[k], GameRequests) =>
             Ends(toServer[k], Fits(s.gameId, p), GameRequests)
        /\ ~Occurs(toServer[k], GameRequests) =>
             \A g \in DOMAIN games : p \in games[g] => s.gameId = g
    BY <2>1 DEF MembersFit, Agrees
  <2>3. s \in ClientState
    BY <1>0, <2>1, LiveSocket DEF Typed, ClientTypes
  <2>4. GoalFor(p) => Goal
    BY <2>1
  <2>5. ASSUME IsServed(k) PROVE GoalFor(p)
    <3>1. t = s
      BY <2>5 DEF IsServed
    <3>2. \A g \in DOMAIN games' : g \in Player
      BY <1>0, GamesTypes DEF Typed, Steady
    <3>3. CASE ServerReads(k) /\ toServer'[k] = Tail(toServer[k])
      <4>1. toServer[k] # <<>>
        BY <3>3 DEF ServerReads
      <4>2. CASE Head(toServer[k]) \in GameRequests
        <5>1. ASSUME Occurs(toServer'[k], GameRequests)
              PROVE  Ends(toServer'[k], Fits(t.gameId, p), GameRequests)
          BY <1>3, <2>2, <3>1, <3>3, <4>1, <4>2, <5>1
        <5>2. ASSUME ~Occurs(toServer'[k], GameRequests),
                     NEW g \in DOMAIN games', p \in games'[g]
              PROVE  t.gameId = g
          <6>1. Ends(toServer[k], Fits(s.gameId, p), GameRequests)
            BY <1>3, <2>2, <3>3, <4>1, <4>2
          <6>2. Ends(toServer'[k], Fits(s.gameId, p), GameRequests) =>
                  Occurs(toServer'[k], GameRequests)
            <7>1. toServer'[k] \in Seq(Requests)
              BY <1>1 DEF Typed, QueueTypes
            <7>2. \A m \in Requests : m \in Fits(s.gameId, p) => m \in GameRequests
              BY RequestForms DEF Fits
            <7>3. \A i \in DOMAIN toServer'[k] : toServer'[k][i] \in Requests
              BY <7>1
            <7>4. QED
              BY <7>2, <7>3 DEF Ends, Occurs
          <6>3. Head(toServer[k]) \in Fits(s.gameId, p)
            BY <1>3, <3>3, <4>1, <5>2, <6>1, <6>2
          <6>4. \/ Head(toServer[k]) = <<"hostGame", All>> /\ g = p
                \/ Head(toServer[k]) = <<"joinGame", g>>
            BY <2>1, <3>3, <4>2, <5>2, RequestStep
          <6>5. CASE Head(toServer[k]) = <<"hostGame", All>> /\ g = p
            <7>1. <<"hostGame", All>> \in Fits(s.gameId, p)
              BY <6>3, <6>5
            <7>2. s.gameId = p
              BY <7>1 DEF Fits
            <7>3. QED
              BY <3>1, <6>5, <7>2
          <6>6. CASE Head(toServer[k]) = <<"joinGame", g>>
            <7>1. <<"joinGame", g>> \in Fits(s.gameId, p)
              BY <6>3, <6>6
            <7>2. s.gameId = g
              BY <7>1 DEF Fits
            <7>3. QED
              BY <3>1, <7>2
          <6>7. QED
            BY <6>4, <6>5, <6>6
        <5>3. QED
          BY <5>1, <5>2
      <4>3. CASE Head(toServer[k]) \notin GameRequests
        <5>1. Occurs(toServer[k], GameRequests) <=> Occurs(toServer'[k], GameRequests)
          BY <1>3, <3>3, <4>1, <4>3
        <5>2. ASSUME Occurs(toServer'[k], GameRequests)
              PROVE  Ends(toServer'[k], Fits(t.gameId, p), GameRequests)
          BY <1>3, <2>2, <3>1, <3>3, <4>1, <5>1, <5>2
        <5>3. ASSUME NEW g \in DOMAIN games', p \in games'[g]
              PROVE  g \in DOMAIN games /\ p \in games[g]
          <6>1. <<"hostGame", All>> \in GameRequests /\ <<"joinGame", g>> \in GameRequests
            BY <3>2 DEF GameRequests
          <6>2. QED
            BY <2>1, <2>5, <4>3, <5>3, <6>1, MembershipStep
        <5>4. QED
          BY <2>2, <3>1, <5>1, <5>2, <5>3
      <4>4. QED
        BY <4>2, <4>3
    <3>4. CASE ~(ServerReads(k) /\ toServer'[k] = Tail(toServer[k]))
      <4>1. toServer'[k] = toServer[k]
        BY <2>5, <3>4 DEF IsServed
      <4>2. \A g \in DOMAIN games' : p \in games'[g] => g \in DOMAIN games /\ p \in games[g]
        BY <2>1, <2>5, <3>4, MembershipStep
      <4>3. QED
        BY <2>2, <3>1, <4>1, <4>2
    <3>5. QED
      BY <3>3, <3>4
  <2>6. ASSUME ClientSide(k) PROVE GoalFor(p)
    <3>1. games' = games
      BY <2>6 DEF ClientSide
    <3>2. ASSUME NEW m \in GameRequests, toServer'[k] = Append(toServer[k], m),
                 m \in Fits(t.gameId, p)
          PROVE  GoalFor(p)
      <4>1. m \in Requests
        BY DEF Requests
      <4>2. /\ Occurs(Append(toServer[k], m), GameRequests)
            /\ Ends(Append(toServer[k], m), Fits(t.gameId, p), GameRequests)
        BY <1>2, <3>2, <4>1, AskedQueue
      <4>3. QED
        BY <3>2, <4>2
    <3>3. ASSUME Clicks(k) PROVE GoalFor(p)
      <4>1. PICK m \in GameRequests : /\ toServer'[k] = Append(toServer[k], m)
                                      /\ Clicked(s, t, m)
        BY <3>3 DEF Clicks
      <4>2. s.playerId = p
        BY <2>1, <4>1 DEF Acquainted, Introduced, Clicked
      <4>3. m \in Fits(t.gameId, p)
        <5>1. CASE /\ m = <<"hostGame", All>>
                   /\ t = [s EXCEPT !.leave = TRUE, !.choose = FALSE,
                                    !.gameId = s.playerId]
          <6>1. t.gameId = p
            BY <2>3, <4>2, <5>1 DEF ClientState
          <6>2. m \in Fits(p, p)
            BY <5>1 DEF Fits
          <6>3. QED
            BY <6>1, <6>2
        <5>2. CASE m = <<"leaveGame", All>>
          BY <5>2, FitsAre
        <5>3. ASSUME NEW host \in Player, m = <<"joinGame", host>>,
                     t = [s EXCEPT !.leave = TRUE, !.choose = FALSE, !.gameId = host]
              PROVE  m \in Fits(t.gameId, p)
          <6>1. t.gameId = host
            BY <2>3, <5>3 DEF ClientState
          <6>2. QED
            BY <5>3, <6>1, FitsAre
        <5>4. QED
          BY <4>1, <5>1, <5>2, <5>3 DEF Clicked
      <4>4. QED
        BY <3>2, <4>1, <4>3
    <3>4. ASSUME Rests(k) PROVE GoalFor(p)
      BY <2>2, <3>1, <3>4 DEF Rests
    <3>5. ASSUME Emits(k) PROVE GoalFor(p)
      <4>1. t = s
        BY <3>5 DEF Emits
      <4>2. PICK peer \in s.peers :
              toServer'[k] = Append(toServer[k], <<"sendIceMsg", <<s.adapterId, peer>>>>)
        BY <3>5 DEF Emits
      <4> DEFINE m == <<"sendIceMsg", <<s.adapterId, peer>>>>
      <4>3. m \in Requests /\ m \notin GameRequests
        <5>1. s.adapterId \in Nat /\ peer \in Player
          BY <2>3 DEF ClientState
        <5>2. QED
          BY <5>1 DEF Requests, IceRequests, GameRequests
      <4>4. toServer'[k] = Append(toServer[k], m)
        BY <4>2
      <4> HIDE DEF m
      <4>5. /\ Occurs(Append(toServer[k], m), GameRequests) <=>
                 Occurs(toServer[k], GameRequests)
            /\ Ends(toServer[k], Fits(s.gameId, p), GameRequests) =>
                 Ends(Append(toServer[k], m), Fits(s.gameId, p), GameRequests)
        BY <1>2, <4>3, AskedQueue
      <4>6. QED
        BY <2>2, <3>1, <4>1, <4>4, <4>5
    <3>6. ASSUME Reads(k) PROVE GoalFor(p)
      <4> DEFINE m == Head(toClient[k])
      <4>1. m \in Commands /\ t = Told(s, m[1], m[2])
        BY <1>0, <2>1, <3>6, ReadsDoes
      <4>2. toServer'[k] = IF m = <<"onHostLeft", s.gameId>>
                           THEN Append(toServer[k], <<"leaveGame", All>>)
                           ELSE toServer[k]
        BY <3>6 DEF Reads
      <4> HIDE DEF m
      <4>3. CASE m = <<"onHostLeft", s.gameId>>
        <5>1. <<"leaveGame", All>> \in GameRequests
          BY DEF GameRequests
        <5>2. QED
          BY <3>2, <4>2, <4>3, <5>1, FitsAre, ZenonT(60)
      <4>4. CASE m # <<"onHostLeft", s.gameId>>
        <5>1. t.gameId = s.gameId
          BY <2>3, <4>1, <4>4, ToldPeers
        <5>2. toServer'[k] = toServer[k]
          BY <4>2, <4>4
        <5>3. QED
          BY <2>2, <3>1, <5>1, <5>2
      <4>5. QED
        BY <4>3, <4>4
    <3> HIDE DEF GoalFor
    <3>7. QED
      BY <2>6, <3>3, <3>4, <3>5, <3>6 DEF ClientSide
  <2>7. QED
    BY <1>5, <2>4, <2>5, <2>6 DEF StaysKnown
<1> HIDE DEF Goal
<1>6. Goal
  BY <1>1, <1>4, <1>5
<1>7. QED
  BY <1>6 DEF Goal, GoalFor, Agrees

LEMMA MembersFitAlways == Spec => [](Lossless => MembersFit)
<1>1. Init => (Lossless => MembersFit)
  BY DEF Init, ServerInit, MembersFit
<1>2. ASSUME Typed, Typed', Calm => Steady, Lossless => Acquainted,
             Lossless => MembersFit, [Next]_vars
      PROVE  (Lossless => MembersFit)'
  <2>1. ASSUME Lossless' PROVE MembersFit'
    <3>1. Lossless /\ Calm
      BY <1>2, <2>1, CalmBefore DEF Lossless, Calm
    <3>2. QED
      BY <1>2, <3>1, NextMembersFit
  <2>2. QED
    BY <2>1
<1>3. QED
  BY <1>1, <1>2, TypedAlways, SteadyAlways, AcquaintedAlways, PTL DEF Spec

\* When all has arrived, each player of a game is a client that takes that game
\* for its own.
THEOREM MembersDoAgree == Spec => []MembersAgree
<1>1. ASSUME Calm => Steady, Lossless => Acquainted, Lossless => MembersFit
      PROVE  MembersAgree
  <2> SUFFICES ASSUME Settled, NEW g \in DOMAIN games, NEW p \in games[g]
               PROVE  \E c \in Client : Holds(c, p) /\ client[c].gameId = g
    BY DEF MembersAgree
  <2>1. Steady /\ MembersFit /\ Acquainted /\ sockets = live
    BY <1>1 DEF Settled, Calm, Lossless
  <2> DEFINE k == playerSockets[p]
  <2>2. k \in live /\ k \in DOMAIN socketPlayers /\ socketPlayers[k] = p
    BY <2>1 DEF Steady, BooksAgree
  <2> HIDE DEF k
  <2>3. toServer[k] = <<>> /\ toClient[k] = <<>>
    BY <2>1, <2>2, SettledLive
  <2>4. \A A : ~Occurs(toServer[k], A) /\ ~Occurs(toClient[k], A)
    BY <2>3, EmptyQueue
  <2>5. client[k[1]].known /\ client[k[1]].playerId = p
    BY <2>1, <2>2, <2>4 DEF Acquainted, Introduced
  <2>6. k[1] \in Client /\ Connected(k[1])
    BY <2>1, <2>2, LiveSocket DEF Steady
  <2>7. client[k[1]].gameId = g
    BY <2>1, <2>2, <2>4 DEF MembersFit, Agrees
  <2>8. QED
    BY <2>5, <2>6, <2>7 DEF Holds
<1>2. QED
  BY <1>1, SteadyAlways, AcquaintedAlways, MembersFitAlways, PTL

-----------------------------------------------------------------------------
(* ICE messages, as long as no client has connected a second time.         *)

Learns(c) ==
  LET m == Head(toClient[Socket(c)]) IN
  /\ ClientReads(c) /\ Socket(c) \in live
  /\ m \in LoginReplies
  /\ client'[c].known /\ client'[c].adapterId = m[2][1]
  /\ UNCHANGED <<sockets, socketPlayers>>

\* A client keeps the id that it gave its adapter.
LEMMA KnownStep ==
  ASSUME Typed, [Next]_vars, NEW c \in Client
  PROVE  /\ client[c].known =>
              client'[c].known /\ client'[c].adapterId = client[c].adapterId
         /\ ~client[c].known /\ client'[c].known => Learns(c)
<1> DEFINE s == client[c]
           t == client'[c]
           Goal == /\ s.known => t.known /\ t.adapterId = s.adapterId
                   /\ ~s.known /\ t.known => Learns(c)
<1>1. s \in ClientState
  BY DEF Typed, ClientTypes
<1>2. (t.known = s.known /\ t.adapterId = s.adapterId) => Goal
  OBVIOUS
<1> DEFINE other ==
             \/ t = [s EXCEPT !.n = @ + 1, !.keep = TRUE, !.session = TRUE]
             \/ t = [s EXCEPT !.keep = FALSE, !.session = FALSE, !.lobby = FALSE]
             \/ \E torn : t = [s EXCEPT !.deaf = @ \/ torn]
             \/ \E id : t = [s EXCEPT !.leave = TRUE, !.choose = FALSE, !.gameId = id]
             \/ t = Left(s)
             \/ t = s
           reads == /\ ClientReads(c)
                    /\ t = Told(s, Head(toClient[Socket(c)])[1],
                                   Head(toClient[Socket(c)])[2])
<1>3. reads \/ other
  <2>1. Moves(c) \/ t = s
    BY ClientsStep
  <2>2. CASE t = s
    BY <2>2
  <2>3. CASE Moves(c)
    BY <2>3 DEF Moves
  <2>4. QED
    BY <2>1, <2>2, <2>3
<1>4. ASSUME reads PROVE Goal
  <2> DEFINE m == Head(toClient[Socket(c)])
  <2>1. m \in Commands /\ Socket(c) \in live
    BY <1>4, ReadsCommand
  <2>2. t = Told(s, m[1], m[2])
    BY <1>4
  <2>3. m = Head(toClient[Socket(c)])
    OBVIOUS
  <2> HIDE DEF m, s, t
  <2>4. CASE m[1] = "loggedIn"
    <3>1. t = LoggedIn(s, m[2][1], m[2][2]) /\ m \in LoginReplies
      BY <2>1, <2>2, <2>4, CommandForms DEF Told
    <3>2. /\ t.known = TRUE
          /\ s.known => t.adapterId = s.adapterId
          /\ ~s.known => t.adapterId = m[2][1]
      BY <1>1, <3>1 DEF LoggedIn, ClientState
    <3>3. UNCHANGED <<sockets, socketPlayers>>
      BY <1>4 DEF ClientReads, books
    <3>4. ~s.known => Learns(c)
      BY <1>4, <2>1, <2>3, <3>1, <3>2, <3>3 DEF Learns, t
    <3>5. QED
      BY <3>2, <3>4
  <2>5. CASE m[1] # "loggedIn"
    <3>1. t.known = s.known /\ t.adapterId = s.adapterId
      BY <1>1, <2>1, <2>2, <2>5, ToldKeeps
    <3>2. QED
      BY <1>2, <3>1 DEF s, t
  <2>6. QED
    BY <2>4, <2>5
<1>5. ASSUME other PROVE Goal
  <2> HIDE DEF s, t
  <2>1. t.known = s.known /\ t.adapterId = s.adapterId
    BY <1>1, <1>5 DEF ClientState, Left
  <2>2. QED
    BY <1>2, <2>1 DEF s, t
<1> HIDE DEF Goal, reads, other
<1>6. Goal
  BY <1>3, <1>4, <1>5
<1>7. QED
  BY <1>6 DEF Goal

\* A client that knows its id made its first connection, over which the server
\* knows it as the player that its adapter speaks for.
AdapterIds ==
  \A c \in Client : client[c].known =>
    /\ client[c].n = 1
    /\ <<c, 1>> \in sockets =>
         <<c, 1>> \in DOMAIN socketPlayers
           /\ client[c].adapterId = socketPlayers[<<c, 1>>]

LEMMA NextAdapterIds ==
  ASSUME Steady, AtFirst', Typed', Replies, AdapterIds, [Next]_vars
  PROVE  AdapterIds'
<1>0. Typed /\ Sessions /\ LoginsFirst
  BY DEF Steady
<1>1. ASSUME NEW c \in Client, client'[c].known
      PROVE  client'[c].n = 1
  <2>1. client'[c].n \in Nat /\ client'[c].n <= 1
    BY DEF Typed, ClientTypes, ClientState, AtFirst
  <2>2. client[c].n \in Nat /\ client[c].n # 0
    <3>1. client[c].n \in Nat
      BY <1>0 DEF Typed, ClientTypes, ClientState
    <3>2. CASE client[c].known
      <4>1. client[c].n = 1
        BY <3>2 DEF AdapterIds
      <4>2. QED
        BY <4>1
    <3>3. CASE ~client[c].known
      <4>1. Socket(c) \in live /\ Socket(c)[1] = c
        BY <1>0, <1>1, <3>3, KnownStep DEF Learns, Socket
      <4>2. client[c].n # 0
        BY <1>0, <4>1, LiveSocket
      <4>3. QED
        BY <3>1, <4>2
    <3>4. QED
      BY <3>2, <3>3
  <2>3. client'[c].n = client[c].n \/ client'[c].n = client[c].n + 1
    BY <1>0, MovesKeep
  <2>4. QED
    BY <2>1, <2>2, <2>3
<1>2. ASSUME NEW c \in Client, client'[c].known, <<c, 1>> \in sockets'
      PROVE  <<c, 1>> \in DOMAIN socketPlayers'
               /\ client'[c].adapterId = socketPlayers'[<<c, 1>>]
  <2> DEFINE k == <<c, 1>>
  <2>1. k \in Connection
    BY <1>2 DEF Typed, ServerTypes
  <2>2. CASE client[c].known
    <3>1. client'[c].adapterId = client[c].adapterId /\ client[c].n = 1
      BY <1>0, <2>2, KnownStep DEF AdapterIds
    <3>2. k \in sockets
      <4>1. ~Connect(c)
        <5>1. Connect(c) => client'[c].n = client[c].n + 1
          BY <1>0, ConnectDoes
        <5>2. QED
          BY <1>1, <1>2, <3>1, <5>1
      <4>2. \A d \in Client : Connect(d) => k # <<d, client[d].n + 1>>
        BY <4>1
      <4>3. QED
        BY <1>0, <1>2, <4>2, ConnectionsStep
    <3>3. k \in DOMAIN socketPlayers /\ client[c].adapterId = socketPlayers[k]
      BY <2>2, <3>2 DEF AdapterIds
    <3>4. ~ServerNotices(k)
      BY <1>2 DEF ServerNotices, Disconnected
    <3>5. \A i \in sockets : ~Occurs(toServer[i], Reconnects)
      BY <1>0 DEF LoginsFirst, Typed, ServerTypes
    <3>6. k \in DOMAIN socketPlayers' /\ socketPlayers'[k] = socketPlayers[k]
      BY <1>0, <2>1, <3>3, <3>4, <3>5, LoggedInStep
    <3>7. QED
      BY <3>1, <3>3, <3>6
  <2>3. CASE ~client[c].known
    <3> DEFINE m == Head(toClient[Socket(c)])
    <3>1. Learns(c)
      BY <1>0, <1>2, <2>3, KnownStep
    <3>2. client'[c].n = client[c].n
      <4>1. ~Connect(c)
        BY <3>1 DEF Learns, Connect, Connected
      <4>2. QED
        BY <1>0, <4>1, MovesKeep
    <3>3. Socket(c) = k
      BY <1>1, <1>2, <3>2 DEF Socket
    <3>4. /\ k \in live /\ toClient[k] # <<>> /\ m = Head(toClient[k])
          /\ m \in LoginReplies /\ client'[c].adapterId = m[2][1]
          /\ UNCHANGED <<sockets, socketPlayers>>
      BY <3>1, <3>3 DEF Learns, ClientReads
    <3>5. toClient[k] \in Seq(Commands)
      BY <1>0, <2>1 DEF Typed, QueueTypes
    <3> HIDE DEF m, k
    <3>6. \A A : m \in A => Occurs(toClient[k], A)
      BY <3>4, <3>5, HeadQueue
    <3>7. m \in Commands \ Gamelists
      <4>1. LoginReplies \cap Gamelists = {}
        BY DEF LoginReplies, Gamelists
      <4>2. QED
        BY <3>4, <4>1, Kinds
    <3>8. k \in DOMAIN socketPlayers /\ m \notin OtherReplies(socketPlayers[k])
      BY <3>4, <3>6, <3>7 DEF Replies
    <3>9. m[2][1] = socketPlayers[k]
      BY <3>4, <3>8 DEF LoginReplies, OtherReplies
    <3>10. QED
      BY <3>4, <3>8, <3>9 DEF k
  <2>4. QED
    BY <2>2, <2>3
<1>3. QED
  BY <1>1, <1>2 DEF AdapterIds

\* An adapter hears of no player before the client knows its own id.
NoEarlyPeers ==
  /\ \A c \in Client : ~client[c].known => client[c].peers = {}
  /\ \A k \in live : k \in DOMAIN socketPlayers /\ ~client[k[1]].known =>
       Starts(toClient[k], LoginReplies, Connecting)

LEMMA NextFirstReply ==
  ASSUME Steady, Typed', Replies, NoEarlyPeers, [Next]_vars,
         NEW k \in live', k \in DOMAIN socketPlayers', ~client'[k[1]].known
  PROVE  Starts(toClient'[k], LoginReplies, Connecting)
<1> DEFINE Goal == Starts(toClient'[k], LoginReplies, Connecting)
<1>0. Typed /\ Sessions
  BY DEF Steady
<1>1. /\ k \in Connection
      /\ \/ \E p \in Player : BecomesKnown(k, p)
         \/ \E p \in Player : StaysKnown(k, p)
  BY LiveCases DEF IsNew, StaysUnknown
<1>2. toClient[k] \in Seq(Commands) /\ k[1] \in Client
  BY <1>0, <1>1 DEF Typed, QueueTypes, Connection
<1>3. ~client[k[1]].known
  BY <1>0, <1>2, KnownStep
<1>4. ASSUME NEW r \in Seq(Commands), toClient'[k] = toClient[k] \o r
      PROVE  Goal <=> \/ Starts(toClient[k], LoginReplies, Connecting)
                      \/ /\ Starts(r, LoginReplies, Connecting)
                         /\ ~Occurs(toClient[k], Connecting)
  BY <1>2, <1>4, Grown
<1>5. ASSUME NEW p \in Player, BecomesKnown(k, p) PROVE Goal
  <2> DEFINE m == <<"loggedIn", <<p, DOMAIN games>>>>
  <2>1. /\ k \in live /\ k \notin DOMAIN socketPlayers /\ m \in LoginReplies
    BY <1>5 DEF BecomesKnown
  <2>2. PICK r \in Seq(Commands) :
               /\ toClient'[k] = toClient[k] \o r
               /\ \A A \in SUBSET Commands : Occurs(r, A) <=> m \in A
    BY <1>5 DEF BecomesKnown
  <2>3. ~Occurs(toClient[k], Connecting)
    <3>1. ~Occurs(toClient[k], Commands \ Gamelists)
      BY <2>1 DEF Replies
    <3>2. Connecting \cap Gamelists = {}
      BY DEF Connecting, Gamelists
    <3>3. Connecting \subseteq Commands \ Gamelists
      BY <3>2, Kinds
    <3>4. QED
      BY <3>1, <3>3 DEF Occurs
  <2>4. m \notin Connecting
    BY DEF Connecting
  <2>5. Occurs(r, LoginReplies) /\ ~Occurs(r, Connecting)
    BY <2>1, <2>2, <2>4, Kinds
  <2>6. Starts(r, LoginReplies, Connecting)
    BY <2>5 DEF Starts, Occurs
  <2>7. QED
    BY <1>4, <2>2, <2>3, <2>6
<1>6. ASSUME NEW p \in Player, StaysKnown(k, p) PROVE Goal
  <2>1. /\ k \in live /\ Starts(toClient[k], LoginReplies, Connecting)
    BY <1>3, <1>6 DEF StaysKnown, Is, NoEarlyPeers
  <2>2. ASSUME \E r : News(k, p, r) PROVE Goal
    <3>1. PICK r : News(k, p, r)
      BY <2>2
    <3>2. r \in Seq(Commands) /\ toClient'[k] = toClient[k] \o r
      BY <3>1 DEF News
    <3>3. QED
      BY <1>4, <2>1, <3>2
  <2>3. ASSUME Unread(k) PROVE Goal
    BY <2>1, <2>3 DEF Unread
  <2>4. ASSUME Reads(k) PROVE Goal
    <3> DEFINE s == client[k[1]]
               t == client'[k[1]]
               m == Head(toClient[k])
    <3>1. /\ m \in Commands /\ t = Told(s, m[1], m[2]) /\ s \in ClientState
          /\ Starts(toClient[k], LoginReplies, Connecting) <=>
               m \in LoginReplies \/ (Goal /\ m \notin Connecting)
      BY <1>0, <2>1, <2>4, ReadsDoes
    <3>2. m \notin LoginReplies
      <4> HIDE DEF m, s
      <4>1. ASSUME m \in LoginReplies PROVE t.known
        <5>1. t = LoggedIn(s, m[2][1], m[2][2])
          BY <3>1, <4>1, CommandForms DEF Told
        <5>2. QED
          BY <3>1, <5>1 DEF LoggedIn, ClientState
      <4>2. QED
        BY <4>1
    <3>3. QED
      BY <2>1, <3>1, <3>2
  <2> HIDE DEF Goal
  <2>5. QED
    BY <1>0, <1>6, <2>1, <2>2, <2>3, <2>4, ClientSideDoes DEF StaysKnown
<1> HIDE DEF Goal
<1>7. Goal
  BY <1>1, <1>5, <1>6
<1>8. QED
  BY <1>7 DEF Goal

LEMMA NextNoPeers ==
  ASSUME Steady, Replies, NoEarlyPeers, [Next]_vars,
         NEW c \in Client, ~client'[c].known
  PROVE  client'[c].peers = {}
<1> DEFINE s == client[c]
           t == client'[c]
           k == Socket(c)
           m == Head(toClient[k])
           other ==
             \/ t = [s EXCEPT !.n = @ + 1, !.keep = TRUE, !.session = TRUE]
             \/ t = [s EXCEPT !.keep = FALSE, !.session = FALSE, !.lobby = FALSE]
             \/ \E torn : t = [s EXCEPT !.deaf = @ \/ torn]
             \/ \E id : t = [s EXCEPT !.leave = TRUE, !.choose = FALSE, !.gameId = id]
             \/ t = Left(s)
             \/ t = s
           reads == ClientReads(c) /\ t = Told(s, m[1], m[2])
<1>0. Typed /\ Sessions
  BY DEF Steady
<1>1. s \in ClientState /\ ~s.known /\ s.peers = {}
  <2>1. ~s.known
    BY <1>0, KnownStep
  <2>2. QED
    BY <1>0, <2>1 DEF NoEarlyPeers, Typed, ClientTypes
<1>2. reads \/ other
  <2>1. Moves(c) \/ t = s
    BY <1>0, ClientsStep
  <2>2. CASE t = s
    BY <2>2
  <2>3. CASE Moves(c)
    BY <2>3 DEF Moves
  <2>4. QED
    BY <2>1, <2>2, <2>3
<1>3. ASSUME other PROVE t.peers = {}
  <2> HIDE DEF s, t
  <2>1. QED
    BY <1>1, <1>3 DEF ClientState, Left
<1>4. ASSUME reads PROVE t.peers = {}
  <2>1. m \in Commands /\ k \in live /\ k[1] = c /\ k \in Connection
        /\ toClient[k] \in Seq(Commands) /\ toClient[k] # <<>>
    BY <1>0, <1>4, ReadsCommand DEF Socket
  <2>2. t = Told(s, m[1], m[2]) /\ m = <<m[1], m[2]>>
    BY <1>4, <2>1, CommandForms
  <2>3. m \notin LoginReplies
    <3> HIDE DEF m, s
    <3>1. ASSUME m \in LoginReplies PROVE t.known
      <4>1. t = LoggedIn(s, m[2][1], m[2][2])
        BY <2>1, <2>2, <3>1, CommandForms DEF Told
      <4>2. QED
        BY <1>1, <4>1 DEF LoggedIn, ClientState
    <3>2. QED
      BY <3>1
  <2>4. m \notin Connecting
    <3>1. CASE k \in DOMAIN socketPlayers
      <4>1. Starts(toClient[k], LoginReplies, Connecting)
        BY <1>1, <2>1, <3>1 DEF NoEarlyPeers
      <4>2. Starts(toClient[k], LoginReplies, Connecting) =>
              m \in LoginReplies \/ m \notin Connecting
        BY <2>1, HeadQueue
      <4>3. QED
        BY <2>3, <4>1, <4>2
    <3>2. CASE k \notin DOMAIN socketPlayers
      <4>1. ~Occurs(toClient[k], Commands \ Gamelists)
        BY <2>1, <3>2 DEF Replies
      <4>2. 1 \in DOMAIN toClient[k] /\ toClient[k][1] = m
        BY <2>1
      <4>3. m \in Gamelists
        BY <2>1, <4>1, <4>2 DEF Occurs
      <4>4. QED
        BY <4>3 DEF Gamelists, Connecting
    <3>3. QED
      BY <3>1, <3>2
  <2> HIDE DEF m, s, t
  <2>5. m[1] \notin {"joinGame", "connectToPeer", "loggedIn"}
    BY <2>1, <2>2, <2>3, <2>4, CommandForms DEF Connecting
  <2>6. CASE m[1] \in {"onGamelist", "onHostLeft"}
    BY <1>1, <2>2, <2>6 DEF Told, Left, ClientState
  <2>7. CASE m[1] \notin {"onGamelist", "onHostLeft"}
    BY <1>1, <2>2, <2>5, <2>7 DEF Told, SendToIceAdapter, ClientState
  <2>8. QED
    BY <2>6, <2>7
<1>5. QED
  BY <1>2, <1>3, <1>4

\* The ICE messages on their way to the server name the adapter they are from.
Strange(k) ==
  {m \in IceRequests : ~(client[k[1]].known /\ m[2][1] = client[k[1]].adapterId)}

OwnIce == \A k \in Connection : ~Occurs(toServer[k], Strange(k))

LEMMA NextOwnIce ==
  ASSUME Typed, Typed', NoEarlyPeers, OwnIce, [Next]_vars
  PROVE  OwnIce'
<1> SUFFICES ASSUME NEW k \in Connection PROVE ~Occurs(toServer'[k], Strange(k)')
  BY DEF OwnIce
<1> DEFINE s == client[k[1]]
           t == client'[k[1]]
           Goal == ~Occurs(toServer'[k], Strange(k)')
<1>1. k[1] \in Client /\ toServer[k] \in Seq(Requests)
  BY DEF Connection, Typed, QueueTypes
<1>2. Strange(k)' \subseteq Strange(k)
  BY <1>1, KnownStep DEF Strange
<1>3. ~Occurs(toServer[k], Strange(k)')
  BY <1>2 DEF OwnIce, Occurs
<1>4. ASSUME NEW c \in Client, k = <<c, client[c].n + 1>>, Connect(c),
             toServer'[k] = <<FirstRequest(c)>>
      PROVE  Goal
  <2>1. FirstRequest(c) \notin IceRequests
    BY DEF FirstRequest, IceRequests
  <2>2. FirstRequest(c) \notin Strange(k)'
    BY <2>1 DEF Strange
  <2>3. QED
    BY <1>4, <2>2, OneInQueue
<1>5. ASSUME NEW n \in 0 .. Len(toServer[k]), toServer'[k] = SubSeq(toServer[k], 1, n)
      PROVE  Goal
  BY <1>1, <1>3, <1>5, BeginningQueue
<1>6. ASSUME NEW c \in Client, NEW m \in GameRequests \cup IceRequests,
             Asks(c, m), k = Socket(c), toServer'[k] = Append(toServer[k], m)
      PROVE  Goal
  <2>1. k[1] = c /\ m \in Requests
    BY <1>6 DEF Socket, Requests
  <2>2. m \notin Strange(k)'
    <3>1. CASE m \in IceRequests
      <4>1. m[1] = "sendIceMsg"
        BY <3>1 DEF IceRequests
      <4>2. PICK peer \in client[c].peers :
              OnIceMsg(c, peer) /\ m = <<"sendIceMsg", <<client[c].adapterId, peer>>>>
        BY <1>6, <4>1 DEF Asks
      <4>3. client' = client
        BY <4>2 DEF OnIceMsg
      <4>4. client[c].known
        BY <4>2 DEF NoEarlyPeers
      <4>5. m[2][1] = client[c].adapterId
        BY <4>2
      <4>6. QED
        BY <2>1, <4>3, <4>4, <4>5 DEF Strange
    <3>2. CASE m \notin IceRequests
      BY <3>2 DEF Strange
    <3>3. QED
      BY <3>1, <3>2
  <2>3. ASSUME NEW A
        PROVE  Occurs(Append(toServer[k], m), A) <=> Occurs(toServer[k], A) \/ m \in A
    BY <1>1, <2>1, AppendQueue
  <2>4. QED
    BY <1>3, <1>6, <2>2, <2>3
<1>7. ASSUME toServer[k] # <<>>, toServer'[k] = Tail(toServer[k]) PROVE Goal
  <2>1. Occurs(Tail(toServer[k]), Strange(k)') => Occurs(toServer[k], Strange(k)')
    BY <1>1, <1>7, HeadQueue
  <2>2. QED
    BY <1>3, <1>7, <2>1
<1>8. ASSUME toServer'[k] = toServer[k] PROVE Goal
  BY <1>3, <1>8
<1> HIDE DEF Goal
<1>9. Goal
  BY <1>4, <1>5, <1>6, <1>7, <1>8, RequestsStep DEF RequestsMove
<1>10. QED
  BY <1>9 DEF Goal

\* The ICE messages on their way to an adapter name one sender.
Forged == {m \in IceMsgs : m[2][1] # m[2][2]}

NoForged == \A k \in live : ~Occurs(toClient[k], Forged)

LEMMA ForwardsOwn ==
  ASSUME Steady, AtFirst, AdapterIds, OwnIce, NEW j \in Connection,
         NEW sender, NEW receiver, Serves(j), Forwards(j, sender, receiver)
  PROVE  <<"iceMsg", <<socketPlayers[j], sender>>>> \notin Forged
<1> DEFINE m == Head(toServer[j])
<1>0. Typed /\ Sessions /\ LoginsFirst
  BY DEF Steady
<1>1. toServer[j] \in Seq(Requests) /\ toServer[j] # <<>> /\ j \in sockets
  BY <1>0, ServesStep DEF Forwards, ServerReads, Typed, QueueTypes
<1>2. m \in Requests /\ m = <<"sendIceMsg", <<sender, receiver>>>>
  BY <1>1, HeadTailProperties DEF Forwards
<1>3. m \in IceRequests /\ m[2][1] = sender
  <2> HIDE DEF m
  <2>1. QED
    BY <1>2, RequestForms
<1>4. m \notin Strange(j)
  <2>1. 1 \in DOMAIN toServer[j] /\ toServer[j][1] = m
    BY <1>1
  <2>2. QED
    BY <2>1 DEF OwnIce, Occurs
<1>5. client[j[1]].known /\ sender = client[j[1]].adapterId
  <2> HIDE DEF m
  <2>1. QED
    BY <1>3, <1>4 DEF Strange
<1>6. PICK c \in Client, n \in 1 .. MaxConnections : j = <<c, n>>
  BY DEF Connection
<1>7. n <= client[c].n /\ client[c].n <= 1 /\ client[c].n \in Nat
  BY <1>0, <1>1, <1>6 DEF Sessions, AtFirst, Typed, ClientTypes, ClientState
<1>8. j = <<c, 1>> /\ j[1] = c
  BY <1>6, <1>7, TestserverAssumption
<1>9. sender = socketPlayers[j]
  BY <1>1, <1>5, <1>8 DEF AdapterIds
<1>10. QED
  BY <1>9 DEF Forged

LEMMA NextNoForged ==
  ASSUME Steady, Typed', AtFirst, AdapterIds, OwnIce, NoForged, [Next]_vars
  PROVE  NoForged'
<1> SUFFICES ASSUME NEW k \in live' PROVE ~Occurs(toClient'[k], Forged)
  BY DEF NoForged
<1>0. Typed /\ Sessions /\ OneGameEach /\ PlayersOK /\ BooksAgree /\ LoginsFirst
  BY DEF Steady
<1>1. /\ k \in Connection
      /\ IsNew(k) \/ k \in live
      /\ k \in live => ~client[k[1]].deaf
  BY LiveCases DEF StaysUnknown, BecomesKnown, StaysKnown
<1>2. ASSUME IsNew(k) PROVE ~Occurs(toClient'[k], Forged)
  BY <1>2, EmptyQueue DEF IsNew
<1>3. ASSUME k \in live, ClientSide(k) PROVE ~Occurs(toClient'[k], Forged)
  BY <1>0, <1>1, <1>3, ClientSideTakes DEF NoForged
<1>4. ASSUME k \in live, IsServed(k) PROVE ~Occurs(toClient'[k], Forged)
  <2>1. PICK j \in Connection : Serves(j)
    BY <1>4 DEF IsServed
  <2>2. PICK r \in Seq(Commands) :
          /\ toClient'[k] = toClient[k] \o r
          /\ \A A \in SUBSET IceMsgs : Occurs(r, A) =>
               \E sender, receiver :
                 /\ Forwards(j, sender, receiver)
                 /\ <<"iceMsg", <<socketPlayers[j], sender>>>> \in A
    BY <1>0, <1>4, <2>1, IceNews
  <2>3. Forged \in SUBSET IceMsgs
    BY DEF Forged
  <2>4. ~Occurs(r, Forged)
    BY <2>1, <2>2, <2>3, ForwardsOwn
  <2>5. toClient[k] \in Seq(Commands) /\ toClient'[k] = toClient[k] \o r
    BY <1>0, <1>1, <2>2 DEF Typed, QueueTypes
  <2>6. ASSUME NEW A
        PROVE  Occurs(toClient'[k], A) <=> Occurs(toClient[k], A) \/ Occurs(r, A)
    BY <2>5, Grown
  <2>7. QED
    BY <1>4, <2>4, <2>6 DEF NoForged
<1>5. QED
  BY <1>0, <1>1, <1>2, <1>3, <1>4, LiveStep

FirstInv == AtFirst => AdapterIds /\ NoEarlyPeers /\ OwnIce /\ NoForged

LEMMA FirstInvAlways == Spec => []FirstInv
<1>1. Init => FirstInv
  <2> SUFFICES ASSUME Init PROVE AdapterIds /\ NoEarlyPeers /\ OwnIce /\ NoForged
    BY DEF FirstInv
  <2>1. /\ live = {}
        /\ \A k \in Connection : toServer[k] = <<>>
        /\ \A c \in Client : client[c].known = FALSE /\ client[c].peers = {}
    BY DEF Init, ServerInit
  <2>2. OwnIce
    BY <2>1, EmptyQueue DEF OwnIce
  <2>3. QED
    BY <2>1, <2>2 DEF AdapterIds, NoEarlyPeers, NoForged
<1>2. ASSUME Typed, Typed', Calm => Steady, Calm => Replies, FirstInv, [Next]_vars
      PROVE  FirstInv'
  <2> SUFFICES ASSUME AtFirst'
               PROVE  (AdapterIds /\ NoEarlyPeers /\ OwnIce /\ NoForged)'
    BY DEF FirstInv
  <2>1. AtFirst /\ Steady /\ Replies
    BY <1>2, CalmBefore DEF Calm
  <2>2. AdapterIds /\ NoEarlyPeers /\ OwnIce /\ NoForged
    BY <1>2, <2>1 DEF FirstInv
  <2>3. AdapterIds'
    BY <1>2, <2>1, <2>2, NextAdapterIds
  <2>4. NoEarlyPeers'
    <3>1. \A c \in Client : ~client'[c].known => client'[c].peers = {}
      BY <1>2, <2>1, <2>2, NextNoPeers
    <3>2. \A k \in live' : k \in DOMAIN socketPlayers' /\ ~client'[k[1]].known =>
            Starts(toClient'[k], LoginReplies, Connecting)
      BY <1>2, <2>1, <2>2, NextFirstReply
    <3>3. QED
      BY <3>1, <3>2 DEF NoEarlyPeers
  <2>5. OwnIce'
    BY <1>2, <2>2, NextOwnIce
  <2>6. NoForged'
    BY <1>2, <2>1, <2>2, NextNoForged
  <2>7. QED
    BY <2>3, <2>4, <2>5, <2>6
<1>3. QED
  BY <1>1, <1>2, TypedAlways, SteadyAlways, RepliesAlways, PTL DEF Spec

\* An ICE message reaches the other adapter as coming from the player whose
\* adapter emitted it (sendIceMsg and the lambda of iceMsg), as long as no
\* client has connected a second time and got another id than its adapter's.
THEOREM IceIsFromSender == Spec => []IceFromSenderAtFirst
<1>1. ASSUME Typed, Sessions, FirstInv PROVE IceFromSenderAtFirst
  <2> SUFFICES ASSUME AtFirst, NEW k \in Connection, NEW msg \in ToSet(toClient[k]),
                      msg[1] = "iceMsg"
               PROVE  msg[2][1] = msg[2][2]
    BY DEF IceFromSenderAtFirst, IceFromSender, AtFirst
  <2>1. PICK i \in DOMAIN toClient[k] : msg = toClient[k][i]
    BY DEF ToSet
  <2>2. toClient[k] \in Seq(Commands)
    BY <1>1 DEF Typed, QueueTypes
  <2>3. msg \in Commands
    BY <2>1, <2>2
  <2>4. msg \in IceMsgs
    BY <2>3, CommandForms
  <2>5. k \in live
    BY <1>1, <2>1 DEF Sessions
  <2>6. ~Occurs(toClient[k], Forged)
    BY <1>1, <2>5 DEF FirstInv, NoForged
  <2>7. msg \notin Forged
    BY <2>1, <2>6 DEF Occurs
  <2>8. QED
    BY <2>4, <2>7 DEF Forged
<1>2. QED
  BY <1>1, TypedAlways, SessionsAlways, FirstInvAlways, PTL
=============================================================================
