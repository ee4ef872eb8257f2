------------------------------ MODULE VecDeque ------------------------------
(***************************************************************************)
(* VecDeque, the queue of a wait queue, as a sequence: what push_back,     *)
(* pop_front, remove and retain do to who is in it.                        *)
(***************************************************************************)
EXTENDS Integers, Sequences, WellFoundedInduction, TLAPS

InQueue(s, x) == \E i \in 1..Len(s) : s[i] = x

Distinct(s) == \A i, j \in 1..Len(s) : s[i] = s[j] => i = j

\* VecDeque::remove
remove(s, i) == [j \in 1..(Len(s) - 1) |-> IF j < i THEN s[j] ELSE s[j + 1]]

\* What is kept of the first i elements, for each i.
Kept(s, K) ==
    LET kept[i \in 0..Len(s)] ==
            IF i = 0 THEN <<>>
            ELSE IF i \in K THEN Append(kept[i - 1], s[i]) ELSE kept[i - 1]
    IN  kept

\* VecDeque::retain of the elements at the positions K.
retain(s, K) == Kept(s, K)[Len(s)]

-----------------------------------------------------------------------------
(* Induction over the natural numbers, as a fact about a set of them.      *)

\* A set of numbers that has 0, and the successor of each of its members, has
\* every natural number.
LEMMA NatInSet ==
    ASSUME NEW S \in SUBSET Nat, 0 \in S, \A n \in S : n + 1 \in S
    PROVE  S = Nat
<1> SUFFICES ASSUME S # Nat PROVE FALSE
  OBVIOUS
<1> DEFINE T == Nat \ S
<1>1. T \subseteq Nat /\ T # {}
  BY Zenon
<1>2. PICK x \in T : \A y \in T : <<y, x>> \notin OpToRel(<, Nat)
  BY Zenon, <1>1, WFMin, NatLessThanWellFounded
<1>3. \A y \in T : ~(y < x)
  BY Zenon, <1>2 DEF OpToRel
<1>4. x # 0 /\ x - 1 \in Nat
  OBVIOUS
<1>5. x - 1 \in S
  BY <1>3, <1>4
<1> QED
  BY <1>5

-----------------------------------------------------------------------------
(* retain.                                                                 *)

KeptAt(f, s, K, i) ==
    IF i = 0 THEN <<>>
    ELSE IF i \in K THEN Append(f[i - 1], s[i]) ELSE f[i - 1]
IsKept(f, s, K, n) == f = [i \in 0..n |-> KeptAt(f, s, K, i)]

\* The recursion of Kept defines a function.
LEMMA KeptExists ==
    ASSUME NEW s, NEW K, NEW n \in Nat PROVE \E f : IsKept(f, s, K, n)
<1> DEFINE Good == {m \in Nat : \E f : IsKept(f, s, K, m)}
<1>1. 0 \in Good
  <2> DEFINE f == [i \in 0..0 |-> <<>>]
  <2>1. IsKept(f, s, K, 0)
    BY DEF IsKept, KeptAt
  <2> QED
    BY <2>1
<1>2. ASSUME NEW m \in Good PROVE m + 1 \in Good
  <2>1. PICK f : IsKept(f, s, K, m)
    OBVIOUS
  <2>2. m \in Nat /\ \A i \in 0..m : f[i] = KeptAt(f, s, K, i)
    BY <2>1 DEF IsKept
  <2> DEFINE g == [i \in 0..(m + 1) |-> IF i = m + 1 THEN KeptAt(f, s, K, m + 1) ELSE f[i]]
  <2>3. ASSUME NEW i \in 0..(m + 1) PROVE KeptAt(g, s, K, i) = KeptAt(f, s, K, i)
    <3>1. CASE i = 0
      BY <3>1 DEF KeptAt
    <3>2. CASE i # 0
      <4>1. g[i - 1] = f[i - 1]
        BY <2>2, <3>2
      <4> QED
        BY <4>1 DEF KeptAt
    <3> QED
      BY <3>1, <3>2
  <2>4. ASSUME NEW i \in 0..(m + 1) PROVE g[i] = KeptAt(g, s, K, i)
    BY <2>2, <2>3
  <2>5. IsKept(g, s, K, m + 1)
    BY <2>4 DEF IsKept
  <2> QED
    BY <2>2, <2>5
<1>3. Good = Nat
  BY Zenon, <1>1, <1>2, NatInSet
<1> QED
  BY <1>3

\* The recursion, step by step.
LEMMA KeptDef ==
    ASSUME NEW s, NEW K, Len(s) \in Nat, NEW i \in 0..Len(s)
    PROVE  Kept(s, K)[i] = KeptAt(Kept(s, K), s, K, i)
<1>1. IsKept(Kept(s, K), s, K, Len(s))
  <2>1. \E f : IsKept(f, s, K, Len(s))
    BY KeptExists
  <2>2. Kept(s, K) = CHOOSE f : IsKept(f, s, K, Len(s))
    BY DEF Kept, IsKept, KeptAt
  <2> QED
    BY <2>1, <2>2
<1> HIDE DEF Kept
<1> QED
  BY <1>1 DEF IsKept

\* p lists positions in K and up to n, in order, and all of them.
Lists(p, K, n, len) ==
    /\ p \in [1..len -> K \cap (1..n)]
    /\ \A j, k \in 1..len : j < k => p[j] < p[k]
    /\ \A i \in K \cap (1..n) : \E k \in 1..len : p[k] = i

\* One more position: n + 1, when K has it.
LEMMA ListsMore ==
    ASSUME NEW K, NEW n \in Nat, NEW len \in Nat, NEW p, Lists(p, K, n, len), n + 1 \in K
    PROVE  \E q : /\ Lists(q, K, n + 1, len + 1)
                  /\ q[len + 1] = n + 1
                  /\ \A k \in 1..len : q[k] = p[k]
<1> DEFINE q == [k \in 1..(len + 1) |-> IF k = len + 1 THEN n + 1 ELSE p[k]]
<1>1. \A k \in 1..len : p[k] \in K /\ p[k] \in 1..n
  BY DEF Lists
<1>2. q[len + 1] = n + 1 /\ \A k \in 1..len : q[k] = p[k]
  OBVIOUS
<1>3. q \in [1..(len + 1) -> K \cap (1..(n + 1))]
  <2> SUFFICES ASSUME NEW k \in 1..(len + 1) PROVE q[k] \in K \cap (1..(n + 1))
    OBVIOUS
  <2> HIDE DEF q
  <2> QED
    BY <1>1, <1>2
<1> HIDE DEF q
<1>4. ASSUME NEW j \in 1..(len + 1), NEW k \in 1..(len + 1), j < k PROVE q[j] < q[k]
  <2>1. j \in 1..len
    BY <1>4
  <2>2. CASE k = len + 1
    BY <1>1, <1>2, <2>1, <2>2
  <2>3. CASE k # len + 1
    <3>1. k \in 1..len
      BY <2>3
    <3> QED
      BY <1>2, <1>4, <2>1, <3>1 DEF Lists
  <2> QED
    BY <2>2, <2>3
<1>5. ASSUME NEW i \in K \cap (1..(n + 1)) PROVE \E k \in 1..(len + 1) : q[k] = i
  <2>1. CASE i = n + 1
    BY <1>2, <2>1
  <2>2. CASE i # n + 1
    <3>1. i \in K \cap (1..n)
      BY <2>2
    <3>2. PICK k \in 1..len : p[k] = i
      BY <3>1 DEF Lists
    <3>3. k \in 1..(len + 1)
      OBVIOUS
    <3> QED
      BY <1>2, <3>2, <3>3
  <2> QED
    BY <2>1, <2>2
<1>6. Lists(q, K, n + 1, len + 1)
  BY <1>3, <1>4, <1>5 DEF Lists
<1> QED
  BY <1>2, <1>6

\* retain keeps the elements at the positions K and no others, each once and in
\* their order.
LEMMA RetainFacts ==
    ASSUME NEW S, NEW s \in Seq(S), NEW K
    PROVE  /\ retain(s, K) \in Seq(S)
           /\ \E p : /\ Lists(p, K, Len(s), Len(retain(s, K)))
                     /\ \A k \in 1..Len(retain(s, K)) : retain(s, K)[k] = s[p[k]]
<1> DEFINE r == Kept(s, K)
           Ok(i) == /\ r[i] \in Seq(S)
                    /\ \E p : /\ Lists(p, K, i, Len(r[i]))
                              /\ \A k \in 1..Len(r[i]) : r[i][k] = s[p[k]]
           Good == {i \in Nat : i <= Len(s) => Ok(i)}
<1>0. Len(s) \in Nat
  OBVIOUS
<1>1. 0 \in Good
  <2>1. r[0] = <<>>
    BY <1>0, KeptDef DEF KeptAt
  <2> HIDE DEF r
  <2>2. r[0] \in Seq(S) /\ Len(r[0]) = 0
    BY <2>1
  <2> DEFINE p == [k \in 1..0 |-> 0]
  <2>3. Lists(p, K, 0, 0)
    BY DEF Lists
  <2> QED
    BY <2>2, <2>3
<1>2. ASSUME NEW n \in Good PROVE n + 1 \in Good
  <2> SUFFICES ASSUME n + 1 <= Len(s) PROVE Ok(n + 1)
    OBVIOUS
  <2>0. n \in Nat /\ n + 1 \in 1..Len(s) /\ s[n + 1] \in S
    BY <1>0
  <2>1. r[n + 1] = IF n + 1 \in K THEN Append(r[n], s[n + 1]) ELSE r[n]
    <3>1. (n + 1) - 1 = n
      BY <2>0
    <3> QED
      BY <2>0, <1>0, <3>1, KeptDef DEF KeptAt
  <2> HIDE DEF r
  <2>2. /\ r[n] \in Seq(S)
        /\ \E p : /\ Lists(p, K, n, Len(r[n]))
                  /\ \A k \in 1..Len(r[n]) : r[n][k] = s[p[k]]
    BY <2>0
  <2>3. PICK p : /\ Lists(p, K, n, Len(r[n]))
                 /\ \A k \in 1..Len(r[n]) : r[n][k] = s[p[k]]
    BY <2>2
  <2>4. CASE n + 1 \notin K
    <3>1. r[n + 1] = r[n]
      BY <2>1, <2>4
    <3>2. K \cap (1..(n + 1)) = K \cap (1..n)
      BY <2>0, <2>4
    <3>3. Lists(p, K, n + 1, Len(r[n]))
      BY <2>3, <3>2 DEF Lists
    <3> QED
      BY <2>2, <2>3, <3>1, <3>3
  <2>5. CASE n + 1 \in K
    <3> DEFINE len == Len(r[n])
    <3>1. /\ r[n + 1] \in Seq(S) /\ len \in Nat /\ Len(r[n + 1]) = len + 1
          /\ r[n + 1][len + 1] = s[n + 1]
          /\ \A k \in 1..len : r[n + 1][k] = r[n][k]
      BY SMTT(60), <2>0, <2>1, <2>2, <2>5
    <3>2. PICK q : /\ Lists(q, K, n + 1, len + 1)
                   /\ q[len + 1] = n + 1
                   /\ \A k \in 1..len : q[k] = p[k]
      <4>1. n \in Nat /\ len \in Nat /\ Lists(p, K, n, len)
        BY <2>0, <2>3, <3>1
      <4> HIDE DEF len, Ok, Good
      <4> QED
        BY <2>5, <4>1, ListsMore
    <3>3. ASSUME NEW k \in 1..(len + 1) PROVE r[n + 1][k] = s[q[k]]
      <4>1. CASE k = len + 1
        BY <3>1, <3>2, <4>1
      <4>2. CASE k # len + 1
        <5>1. k \in 1..len
          BY SMTT(60), <3>1, <4>2
        <5> QED
          BY SMTT(60), <2>3, <3>1, <3>2, <5>1
      <4> QED
        BY <4>1, <4>2
    <3> QED
      BY <3>1, <3>2, <3>3
  <2> QED
    BY <2>4, <2>5
<1>3. Good = Nat
  <2> HIDE DEF Ok
  <2> QED
    BY Zenon, <1>1, <1>2, NatInSet
<1>4. Ok(Len(s))
  <2> HIDE DEF Ok
  <2> QED
    BY <1>0, <1>3
<1> QED
  BY <1>4 DEF retain

-----------------------------------------------------------------------------
(* Who is in a queue.                                                      *)

\* An empty queue has nobody in it.
LEMMA EmptyFacts == Distinct(<<>>) /\ \A x : ~InQueue(<<>>, x)
  BY DEF Distinct, InQueue

\* push_back of a task that is not in the queue.
LEMMA PushFacts ==
    ASSUME NEW S, NEW s \in Seq(S), NEW x \in S, Distinct(s), ~InQueue(s, x)
    PROVE  /\ Append(s, x) \in Seq(S)
           /\ Append(s, x) # <<>>
           /\ Distinct(Append(s, x))
           /\ \A u : InQueue(Append(s, x), u) <=> InQueue(s, u) \/ u = x
<1> DEFINE r == Append(s, x)
<1>1. /\ r \in Seq(S) /\ Len(s) \in Nat /\ Len(r) = Len(s) + 1 /\ r[Len(s) + 1] = x
      /\ \A i \in 1..Len(s) : r[i] = s[i]
      /\ r # <<>>
  OBVIOUS
<1> HIDE DEF r
<1>2. \A i \in 1..Len(r) : i = Len(s) + 1 \/ i \in 1..Len(s)
  BY <1>1
<1>3. 1..Len(s) \subseteq 1..Len(r) /\ Len(s) + 1 \in 1..Len(r)
  BY <1>1
<1>4. Distinct(r)
  BY <1>1, <1>2 DEF Distinct, InQueue
<1>5. ASSUME NEW u PROVE InQueue(r, u) <=> InQueue(s, u) \/ u = x
  BY <1>1, <1>2, <1>3 DEF InQueue
<1> QED
  BY <1>1, <1>4, <1>5 DEF r

\* pop_front of a queue that is not empty.
LEMMA PopFacts ==
    ASSUME NEW S, NEW s \in Seq(S), s # <<>>, Distinct(s)
    PROVE  /\ Head(s) \in S /\ InQueue(s, Head(s))
           /\ Tail(s) \in Seq(S)
           /\ Distinct(Tail(s))
           /\ \A u : InQueue(Tail(s), u) <=> InQueue(s, u) /\ u # Head(s)
<1> DEFINE r == Tail(s)
           h == Head(s)
<1>1. /\ r \in Seq(S) /\ Len(s) \in Nat /\ Len(r) \in Nat /\ Len(s) = Len(r) + 1
      /\ h = s[1] /\ h \in S
      /\ \A i \in 1..Len(r) : r[i] = s[i + 1]
  OBVIOUS
<1> HIDE DEF r, h
<1>2. 1 \in 1..Len(s) /\ \A i \in 1..Len(r) : i + 1 \in 1..Len(s) /\ i + 1 # 1
  BY <1>1
<1>3. \A i \in 1..Len(s) : i = 1 \/ (i - 1 \in 1..Len(r) /\ r[i - 1] = s[i])
  BY <1>1
<1>4. Distinct(r)
  BY SMTT(60), <1>1, <1>2 DEF Distinct
<1>5. ASSUME NEW u PROVE InQueue(r, u) <=> InQueue(s, u) /\ u # h
  BY SMTT(60), <1>1, <1>2, <1>3 DEF InQueue, Distinct
<1>6. InQueue(s, h)
  BY <1>1, <1>2 DEF InQueue
<1> QED
  BY <1>1, <1>4, <1>5, <1>6 DEF r, h

\* remove of the element at i.
LEMMA RemoveFacts ==
    ASSUME NEW S, NEW s \in Seq(S), Distinct(s), NEW i \in 1..Len(s)
    PROVE  /\ s[i] \in S /\ InQueue(s, s[i])
           /\ remove(s, i) \in Seq(S)
           /\ Distinct(remove(s, i))
           /\ \A u : InQueue(remove(s, i), u) <=> InQueue(s, u) /\ u # s[i]
<1> DEFINE r == remove(s, i)
<1>1. Len(s) \in Nat /\ i \in Nat /\ \A j \in 1..Len(s) : s[j] \in S
  OBVIOUS
<1>2. \A j \in 1..(Len(s) - 1) : r[j] \in S /\ r[j] = IF j < i THEN s[j] ELSE s[j + 1]
  BY <1>1 DEF remove
<1>3. r \in Seq(S) /\ Len(r) = Len(s) - 1
  BY <1>1, <1>2 DEF remove
<1> HIDE DEF r
<1>4. ASSUME NEW j \in 1..Len(r)
      PROVE \E k \in 1..Len(s) : k # i /\ r[j] = s[k] /\ (k < i => k = j) /\ (k > i => k = j + 1)
  <2>1. CASE j < i
    BY <1>1, <1>2, <1>3, <2>1
  <2>2. CASE ~(j < i)
    BY <1>1, <1>2, <1>3, <2>2
  <2> QED
    BY <2>1, <2>2
<1>5. ASSUME NEW k \in 1..Len(s), k # i PROVE InQueue(r, s[k])
  <2>1. CASE k < i
    <3>1. k \in 1..Len(r) /\ r[k] = s[k]
      BY <1>1, <1>2, <1>3, <2>1
    <3> QED
      BY <3>1 DEF InQueue
  <2>2. CASE k > i
    <3>1. k - 1 \in 1..Len(r) /\ r[k - 1] = s[k]
      BY <1>1, <1>2, <1>3, <2>2
    <3> QED
      BY <3>1 DEF InQueue
  <2> QED
    BY <1>1, <1>5, <2>1, <2>2
<1>6. Distinct(r)
  BY SMTT(60), <1>1, <1>3, <1>4 DEF Distinct
<1>7. ASSUME NEW u PROVE InQueue(r, u) <=> InQueue(s, u) /\ u # s[i]
  <2>1. ASSUME InQueue(r, u) PROVE InQueue(s, u) /\ u # s[i]
    BY <1>4, <2>1 DEF InQueue, Distinct
  <2>2. ASSUME InQueue(s, u), u # s[i] PROVE InQueue(r, u)
    <3>1. PICK k \in 1..Len(s) : s[k] = u
      BY <2>2 DEF InQueue
    <3> QED
      BY <1>5, <2>2, <3>1
  <2> QED
    BY <2>1, <2>2
<1>8. InQueue(s, s[i])
  BY DEF InQueue
<1> QED
  BY <1>1, <1>3, <1>6, <1>7, <1>8 DEF r

\* retain of the positions K.
LEMMA RetainQueue ==
    ASSUME NEW S, NEW s \in Seq(S), Distinct(s), NEW K
    PROVE  /\ retain(s, K) \in Seq(S)
           /\ Distinct(retain(s, K))
           /\ \A u : InQueue(retain(s, K), u) <=> \E i \in 1..Len(s) : i \in K /\ s[i] = u
<1> DEFINE r == retain(s, K)
<1>1. r \in Seq(S) /\ Len(r) \in Nat /\ Len(s) \in Nat
  BY RetainFacts
<1>2. PICK p : Lists(p, K, Len(s), Len(r)) /\ \A k \in 1..Len(r) : r[k] = s[p[k]]
  BY RetainFacts
<1> HIDE DEF r
<1>3. \A k \in 1..Len(r) : p[k] \in K /\ p[k] \in 1..Len(s) /\ p[k] \in Nat
  BY <1>2 DEF Lists
<1>4. \A j, k \in 1..Len(r) : p[j] = p[k] => j = k
  <2>1. \A j, k \in 1..Len(r) : j < k => p[j] < p[k]
    BY <1>2 DEF Lists
  <2> QED
    BY <1>1, <1>3, <2>1
<1>5. Distinct(r)
  BY SMTT(60), <1>2, <1>3, <1>4 DEF Distinct
<1>6. ASSUME NEW u PROVE InQueue(r, u) <=> \E i \in 1..Len(s) : i \in K /\ s[i] = u
  <2>1. ASSUME InQueue(r, u) PROVE \E i \in 1..Len(s) : i \in K /\ s[i] = u
    BY <1>2, <1>3, <2>1 DEF InQueue
  <2>2. ASSUME NEW i \in 1..Len(s), i \in K, s[i] = u PROVE InQueue(r, u)
    <3>1. PICK k \in 1..Len(r) : p[k] = i
      BY <1>2, <2>2 DEF Lists
    <3> QED
      BY <1>2, <2>2, <3>1 DEF InQueue
  <2> QED
    BY <2>1, <2>2
<1> QED
  BY <1>1, <1>5, <1>6 DEF r
=============================================================================
