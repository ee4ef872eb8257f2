-------------------------- MODULE LinkedListProofs --------------------------
(***************************************************************************)
(* The list of LinkedList is the sequence its callers asked for, for any   *)
(* set of entries and any sequence of operations.                          *)
(***************************************************************************)
EXTENDS LinkedList, TLAPS

ListType == [first : Pointer, next : [Entries -> Pointer], prev : [Entries -> Pointer]]

\* No entry is in the list twice.
Injective(s) == \A i, j \in 1 .. Len(s) : s[i] = s[j] => i = j

\* s is a list of distinct entries and l links them.
IsList(l, s) ==
    /\ l \in ListType
    /\ s \in Seq(Entries)
    /\ Injective(s)
    /\ Linked(l, s)

\* The inductive invariant.
LlInv ==
    /\ IsList(ll, ll_seq)
    /\ ll_pos \in Int /\ -1 <= ll_pos /\ ll_pos <= Len(ll_seq)
    /\ ListIsSeq

-----------------------------------------------------------------------------
(* An entry is put in after the i-th: the result is a sequence of distinct  *)
(* entries.                                                                 *)
LEMMA InsertedAtType ==
    ASSUME NEW s \in Seq(Entries), Injective(s), NEW i \in 0 .. Len(s),
           NEW e \in Entries, \A j \in 1 .. Len(s) : s[j] # e
    PROVE  /\ InsertedAt(s, i, e) \in Seq(Entries)
           /\ Len(InsertedAt(s, i, e)) = Len(s) + 1
           /\ Injective(InsertedAt(s, i, e))
           /\ \A j \in 1 .. Len(s) + 1 :
                InsertedAt(s, i, e)[j] = IF j <= i THEN s[j] ELSE IF j = i + 1 THEN e ELSE s[j - 1]
<1> DEFINE t == InsertedAt(s, i, e)
<1>0. Len(s) \in Nat /\ \A j \in 1 .. Len(s) : s[j] \in Entries
  OBVIOUS
<1>1. \A j \in 1 .. Len(s) + 1 : t[j] = IF j <= i THEN s[j] ELSE IF j = i + 1 THEN e ELSE s[j - 1]
  BY <1>0 DEF InsertedAt
<1>2. t \in [1 .. Len(s) + 1 -> Entries]
  BY <1>0 DEF InsertedAt
<1>3. t \in Seq(Entries) /\ Len(t) = Len(s) + 1
  BY <1>0, <1>2
<1>4. Injective(t)
  <2> SUFFICES ASSUME NEW p \in 1 .. Len(s) + 1, NEW q \in 1 .. Len(s) + 1, t[p] = t[q]
               PROVE  p = q
    BY <1>3 DEF Injective
  <2> HIDE DEF t
  <2>1. CASE p = i + 1
    BY <2>1, <1>0, <1>1
  <2>2. CASE q = i + 1
    BY <2>2, <1>0, <1>1
  <2>3. CASE p # i + 1 /\ q # i + 1
    <3> DEFINE a == IF p <= i THEN p ELSE p - 1
               b == IF q <= i THEN q ELSE q - 1
    <3>1. a \in 1 .. Len(s) /\ b \in 1 .. Len(s)
      BY <2>3, <1>0
    <3>2. s[a] = s[b]
      BY SMTT(60), <2>3, <1>0, <1>1
    <3>3. a = b
      BY SMTT(60), <3>1, <3>2 DEF Injective
    <3> QED  BY <3>3, <2>3, <1>0
  <2> QED  BY <2>1, <2>2, <2>3
<1> QED  BY <1>1, <1>3, <1>4

(* insert_after links the new entry in after the i-th.                      *)
LEMMA InsertAfterLinks ==
    ASSUME NEW l, NEW s, IsList(l, s), NEW i \in 1 .. Len(s),
           NEW e \in Entries, \A j \in 1 .. Len(s) : s[j] # e
    PROVE  IsList(insert_after(l, s[i], e), InsertedAt(s, i, e))
<1> DEFINE n == Len(s)
           t == InsertedAt(s, i, e)
           m == insert_after(l, s[i], e)
           x == s[Succ(s, i)]
<1>0. /\ n \in Nat /\ n >= 1 /\ i \in 1 .. n
      /\ s \in Seq(Entries) /\ \A j \in 1 .. n : s[j] \in Entries
      /\ Injective(s) /\ l \in ListType /\ Linked(l, s)
  BY DEF IsList
<1>1. /\ t \in Seq(Entries) /\ Len(t) = n + 1 /\ Injective(t)
      /\ \A j \in 1 .. n + 1 : t[j] = IF j <= i THEN s[j] ELSE IF j = i + 1 THEN e ELSE s[j - 1]
  BY <1>0, InsertedAtType
<1>2. l.next[s[i]] = x /\ x \in Entries
  BY <1>0 DEF Linked, Succ
<1>3. /\ m \in ListType
      /\ m.first = l.first
      /\ m.next = [[l.next EXCEPT ![e] = x] EXCEPT ![s[i]] = e]
      /\ m.prev = [[l.prev EXCEPT ![e] = s[i]] EXCEPT ![x] = e]
  BY Zenon, <1>0, <1>2 DEF insert_after, ListType, Pointer
<1> HIDE DEF m, t
<1>4. m.first = t[1] /\ t # <<>>
  BY <1>0, <1>1, <1>3 DEF Linked
<1>5. \A j \in 1 .. n : j # i => l.next[s[j]] = s[Succ(s, j)] /\ s[Succ(s, j)] # x
  BY <1>0 DEF Linked, Succ, Injective
<1>6. \A j \in 1 .. n + 1 : m.next[t[j]] = t[Succ(t, j)]
  <2> SUFFICES ASSUME NEW j \in 1 .. n + 1 PROVE m.next[t[j]] = t[Succ(t, j)]
    OBVIOUS
  <2>1. CASE j < i
    <3>1. t[j] = s[j] /\ t[Succ(t, j)] = s[j + 1] /\ Succ(s, j) = j + 1
      BY <2>1, <1>0, <1>1 DEF Succ
    <3>2. s[j] # s[i] /\ s[j] # e /\ s[j] \in Entries
      BY <2>1, <1>0 DEF Injective
    <3> QED  BY <2>1, <3>1, <3>2, <1>0, <1>3, <1>5 DEF ListType
  <2>2. CASE j = i
    BY <2>2, <1>0, <1>1, <1>3 DEF Succ, ListType
  <2>3. CASE j = i + 1
    BY <2>3, <1>0, <1>1, <1>2, <1>3 DEF Succ, ListType
  <2>4. CASE j > i + 1
    <3>1. j - 1 \in 1 .. n /\ t[j] = s[j - 1] /\ t[Succ(t, j)] = s[Succ(s, j - 1)]
      BY SMTT(60), <2>4, <1>0, <1>1 DEF Succ
    <3>2. s[j - 1] # s[i] /\ s[j - 1] # e /\ s[j - 1] \in Entries
      BY <2>4, <3>1, <1>0 DEF Injective
    <3> QED  BY <2>4, <3>1, <3>2, <1>0, <1>3, <1>5 DEF ListType
  <2> QED  BY <2>1, <2>2, <2>3, <2>4, <1>0
<1>7. \A j \in 1 .. n + 1 : m.prev[t[Succ(t, j)]] = t[j]
  <2> SUFFICES ASSUME NEW j \in 1 .. n + 1 PROVE m.prev[t[Succ(t, j)]] = t[j]
    OBVIOUS
  <2>1. CASE j < i
    BY SMTT(60), <2>1, <1>0, <1>1, <1>3, <1>5 DEF Succ, ListType, Injective, Linked
  <2>2. CASE j = i
    BY <2>2, <1>0, <1>1, <1>2, <1>3 DEF Succ, ListType
  <2>3. CASE j = i + 1
    BY <2>3, <1>0, <1>1, <1>2, <1>3 DEF Succ, ListType
  <2>4. CASE j > i + 1
    <3>1. j - 1 \in 1 .. n /\ t[j] = s[j - 1] /\ t[Succ(t, j)] = s[Succ(s, j - 1)]
      BY SMTT(60), <2>4, <1>0, <1>1 DEF Succ
    <3>2. /\ s[Succ(s, j - 1)] # x /\ s[Succ(s, j - 1)] # e
          /\ s[Succ(s, j - 1)] \in Entries
      <4>1. Succ(s, j - 1) \in 1 .. n /\ j - 1 # i
        BY SMTT(60), <2>4, <3>1, <1>0 DEF Succ
      <4> QED  BY <4>1, <3>1, <1>0, <1>5
    <3> QED  BY <2>4, <3>1, <3>2, <1>0, <1>3 DEF ListType, Linked
  <2> QED  BY <2>1, <2>2, <2>3, <2>4, <1>0
<1> QED  BY Zenon, <1>1, <1>3, <1>4, <1>6, <1>7 DEF IsList, Linked, m, t

(* insert_before links the new entry in before the i-th, and moves first    *)
(* when that was the first entry.                                           *)
LEMMA InsertBeforeLinks ==
    ASSUME NEW l, NEW s, IsList(l, s), NEW i \in 1 .. Len(s),
           NEW e \in Entries, \A j \in 1 .. Len(s) : s[j] # e
    PROVE  IsList(insert_before(l, s[i], e), InsertedAt(s, i - 1, e))
<1> DEFINE n == Len(s)
           k == IF i = 1 THEN n ELSE i - 1
           u == InsertedAt(s, k, e)
           t == InsertedAt(s, i - 1, e)
           m == insert_after(l, s[k], e)
<1>0. /\ n \in Nat /\ n >= 1 /\ i \in 1 .. n /\ k \in 1 .. n /\ i - 1 \in 0 .. n
      /\ s \in Seq(Entries) /\ \A j \in 1 .. n : s[j] \in Entries
      /\ Injective(s) /\ l \in ListType /\ Linked(l, s)
  BY DEF IsList
<1>1. l.prev[s[i]] = s[k] /\ l.first = s[1]
  BY <1>0 DEF Linked, Succ
<1>2. IsList(m, u)
  BY SMTT(60), <1>0, InsertAfterLinks
<1>3. insert_before(l, s[i], e) = [m EXCEPT !.first = IF m.first = s[i] THEN e ELSE m.first]
  BY <1>1, <1>2 DEF insert_before, IsList, ListType
<1>4. m.first = s[1]
  BY <1>1, <1>0 DEF insert_after, ListType
<1> HIDE DEF m
<1>5. CASE i # 1
  <2>1. s[i] # s[1]
    BY <1>5, <1>0 DEF Injective
  <2>2. insert_before(l, s[i], e) = m
    BY <2>1, <1>2, <1>3, <1>4 DEF IsList, ListType
  <2> QED  BY <2>2, <1>2, <1>5
<1>6. CASE i = 1
  <2>1. insert_before(l, s[i], e) = [m EXCEPT !.first = e]
    BY <1>3, <1>4, <1>6
  <2>2. /\ u \in Seq(Entries) /\ Len(u) = n + 1
        /\ \A j \in 1 .. n + 1 : u[j] = IF j <= n THEN s[j] ELSE e
    <3>1. k = n /\ k \in 0 .. n
      BY <1>0, <1>6
    <3> HIDE DEF k
    <3>2. /\ u \in Seq(Entries) /\ Len(u) = n + 1
          /\ \A j \in 1 .. n + 1 : u[j] = IF j <= k THEN s[j] ELSE IF j = k + 1 THEN e ELSE s[j - 1]
      <4>1. s \in Seq(Entries) /\ Injective(s) /\ k \in 0 .. Len(s)
        BY <3>1, <1>0
      <4> QED  BY <4>1, InsertedAtType
    <3> QED  BY <3>1, <3>2, <1>0
  <2>3. /\ t \in Seq(Entries) /\ Len(t) = n + 1 /\ Injective(t)
        /\ \A j \in 1 .. n + 1 : t[j] = IF j = 1 THEN e ELSE s[j - 1]
    BY <1>0, <1>6, InsertedAtType
  <2> HIDE DEF u, t
  <2>4. m \in ListType /\ Linked(m, u)
    BY <1>2 DEF IsList
  <2>6. \A j \in 1 .. n + 1 : m.next[t[j]] = t[Succ(t, j)] /\ m.prev[t[Succ(t, j)]] = t[j]
    <3> SUFFICES ASSUME NEW j \in 1 .. n + 1
                 PROVE  m.next[t[j]] = t[Succ(t, j)] /\ m.prev[t[Succ(t, j)]] = t[j]
      OBVIOUS
    <3> DEFINE r == IF j = 1 THEN n + 1 ELSE j - 1
    <3>1. r \in 1 .. n + 1
      BY <1>0
    <3>2. t[j] = u[r]
      <4>1. CASE j = 1
        BY <4>1, <1>0, <2>2, <2>3
      <4>2. CASE j # 1
        <5>1. j - 1 \in 1 .. n + 1 /\ j - 1 <= n /\ r = j - 1
          BY <4>2, <1>0
        <5> QED  BY SMTT(60), <4>2, <5>1, <2>2, <2>3
      <4> QED  BY <4>1, <4>2
    <3>3. Succ(t, j) = (IF j = n + 1 THEN 1 ELSE j + 1) /\ Succ(u, r) = (IF j = 1 THEN 1 ELSE j)
      BY <1>0, <2>2, <2>3 DEF Succ
    <3>4. t[Succ(t, j)] = u[Succ(u, r)]
      BY SMTT(60), <3>3, <1>0, <2>2, <2>3
    <3> HIDE DEF r
    <3> QED  BY <3>1, <3>2, <3>4, <2>2, <2>4 DEF Linked
  <2>7. t[1] = e /\ t # <<>>
    BY <2>3, <1>0
  <2> DEFINE b == [m EXCEPT !.first = e]
  <2>8. b \in ListType /\ b.first = e /\ b.next = m.next /\ b.prev = m.prev
    BY <2>4 DEF ListType, Pointer
  <2> HIDE DEF b
  <2>9. IsList(b, t)
    BY <2>3, <2>6, <2>7, <2>8 DEF IsList, Linked
  <2> QED  BY <2>1, <2>9, <1>6 DEF b, t
<1> QED  BY <1>5, <1>6

(* An entry is taken out at the i-th place: the others keep their order.    *)
LEMMA RemovedAtType ==
    ASSUME NEW s \in Seq(Entries), Injective(s), NEW i \in 1 .. Len(s)
    PROVE  /\ RemovedAt(s, i) \in Seq(Entries)
           /\ Len(RemovedAt(s, i)) = Len(s) - 1
           /\ Injective(RemovedAt(s, i))
           /\ \A j \in 1 .. Len(s) - 1 : RemovedAt(s, i)[j] = IF j < i THEN s[j] ELSE s[j + 1]
<1> DEFINE t == RemovedAt(s, i)
<1>0. Len(s) \in Nat /\ Len(s) - 1 \in Nat /\ \A j \in 1 .. Len(s) : s[j] \in Entries
  OBVIOUS
<1>1. \A j \in 1 .. Len(s) - 1 : t[j] = IF j < i THEN s[j] ELSE s[j + 1]
  BY <1>0 DEF RemovedAt
<1>2. t \in [1 .. Len(s) - 1 -> Entries]
  BY <1>0 DEF RemovedAt
<1>3. t \in Seq(Entries) /\ Len(t) = Len(s) - 1
  BY <1>0, <1>2
<1> HIDE DEF t
<1>4. Injective(t)
  <2> SUFFICES ASSUME NEW p \in 1 .. Len(s) - 1, NEW q \in 1 .. Len(s) - 1, t[p] = t[q]
               PROVE  p = q
    BY <1>3 DEF Injective
  <2> DEFINE a == IF p < i THEN p ELSE p + 1
             b == IF q < i THEN q ELSE q + 1
  <2>1. a \in 1 .. Len(s) /\ b \in 1 .. Len(s)
    BY <1>0
  <2>2. s[a] = s[b]
    BY SMTT(60), <1>0, <1>1
  <2>3. a = b
    BY <2>1, <2>2 DEF Injective
  <2> QED  BY <2>3, <1>0
<1> QED  BY <1>1, <1>3, <1>4 DEF t

(* remove unlinks the i-th entry and moves first when it was the first.     *)
LEMMA RemoveUnlinks ==
    ASSUME NEW l, NEW s, IsList(l, s), NEW i \in 1 .. Len(s)
    PROVE  IsList(ll_remove(l, s[i]), RemovedAt(s, i))
<1> DEFINE n == Len(s)
           t == RemovedAt(s, i)
           m == ll_remove(l, s[i])
           k == IF i = 1 THEN n ELSE i - 1
<1>0. /\ n \in Nat /\ n >= 1 /\ i \in 1 .. n /\ k \in 1 .. n
      /\ s \in Seq(Entries) /\ \A j \in 1 .. n : s[j] \in Entries
      /\ Injective(s) /\ l \in ListType /\ Linked(l, s)
  BY DEF IsList
<1>1. /\ t \in Seq(Entries) /\ Len(t) = n - 1 /\ Injective(t)
      /\ \A j \in 1 .. n - 1 : t[j] = IF j < i THEN s[j] ELSE s[j + 1]
  BY <1>0, RemovedAtType
<1> HIDE DEF t
<1>2. l.next[s[i]] = s[Succ(s, i)] /\ l.prev[s[i]] = s[k] /\ l.first = s[1]
  BY <1>0 DEF Linked, Succ
<1>3. CASE n = 1
  <2>1. i = 1 /\ l.next[s[i]] = s[i]
    BY <1>3, <1>0, <1>2 DEF Succ
  <2>2. m = [l EXCEPT !.first = NoEntry]
    BY <2>1 DEF ll_remove
  <2>3. m \in ListType /\ m.first = NoEntry
    BY <2>2, <1>0 DEF ListType, Pointer
  <2>4. t = <<>> /\ Len(t) = 0
    BY <1>1, <1>3
  <2> HIDE DEF m
  <2> QED  BY <2>3, <2>4, <1>1 DEF IsList, Linked, m, t
<1>4. CASE n # 1
  <2>0. n > 1
    <3>1. \A x \in Nat : x >= 1 /\ x # 1 => x > 1
      OBVIOUS
    <3> QED  BY <3>1, <1>0, <1>4, Zenon
  <2> DEFINE x == s[Succ(s, i)]
  <2>1. Succ(s, i) \in 1 .. n /\ Succ(s, i) # i /\ x \in Entries /\ x # s[i]
    BY <2>0, <1>0 DEF Succ, Injective
  <2>2. m = [first |-> IF l.first = s[i] THEN x ELSE l.first,
             next |-> [l.next EXCEPT ![s[k]] = x],
             prev |-> [l.prev EXCEPT ![x] = s[k]]]
    BY <2>1, <1>2 DEF ll_remove
  <2>3. s[k] \in Entries /\ s[i] \in Entries
    BY <1>0
  <2>4. /\ m \in ListType
        /\ m.first = IF l.first = s[i] THEN x ELSE l.first
        /\ m.next = [l.next EXCEPT ![s[k]] = x]
        /\ m.prev = [l.prev EXCEPT ![x] = s[k]]
    BY <2>1, <2>2, <2>3, <1>0 DEF ListType, Pointer
  <2> HIDE DEF m
  <2>5. t[1] = (IF i = 1 THEN s[2] ELSE s[1]) /\ t # <<>>
    BY <1>0, <1>1, <2>0
  <2>6. m.first = t[1]
    <3>1. CASE i = 1
      BY <3>1, <2>4, <2>5, <1>2, <2>0, <1>0 DEF Succ
    <3>2. CASE i # 1
      <4>1. s[1] # s[i]
        BY <3>2, <1>0 DEF Injective
      <4> QED  BY <3>2, <4>1, <2>4, <2>5, <1>2
    <3> QED  BY <3>1, <3>2
  <2>7. \A j \in 1 .. n - 1 : m.next[t[j]] = t[Succ(t, j)] /\ m.prev[t[Succ(t, j)]] = t[j]
    <3> SUFFICES ASSUME NEW j \in 1 .. n - 1
                 PROVE  m.next[t[j]] = t[Succ(t, j)] /\ m.prev[t[Succ(t, j)]] = t[j]
      OBVIOUS
    <3> DEFINE a == IF j < i THEN j ELSE j + 1
    <3>1. a \in 1 .. n /\ a # i /\ t[j] = s[a] /\ s[a] \in Entries
      BY <1>0, <1>1
    <3>2. (a = k) => t[Succ(t, j)] = x
      BY SMTT(60), <1>0, <1>1, <2>0 DEF Succ
    <3>3. (a # k) => t[Succ(t, j)] = s[Succ(s, a)]
      BY SMTT(60), <1>0, <1>1, <2>0 DEF Succ
    <3> HIDE DEF a
    <3>4. Succ(s, a) \in 1 .. n /\ Succ(s, a) # Succ(s, i)
      BY <3>1, <1>0 DEF Succ
    <3>5. CASE a = k
      BY <3>1, <3>2, <3>5, <2>1, <2>4, <1>0 DEF ListType
    <3>6. CASE a # k
      <4>1. s[a] # s[k]
        BY SMTT(60), <3>1, <3>6, <1>0 DEF Injective
      <4>2. s[Succ(s, a)] # x /\ s[Succ(s, a)] \in Entries
        BY <3>4, <2>1, <1>0 DEF Injective
      <4>3. l.next[s[a]] = s[Succ(s, a)] /\ l.prev[s[Succ(s, a)]] = s[a]
        BY <3>1, <1>0 DEF Linked
      <4> QED  BY <3>1, <3>3, <3>6, <4>1, <4>2, <4>3, <2>4, <1>0 DEF ListType
    <3> QED  BY <3>5, <3>6
  <2>8. IsList(m, t)
    BY <2>4, <2>5, <2>6, <2>7, <1>1 DEF IsList, Linked
  <2> QED  BY <2>8 DEF m, t
<1> QED  BY <1>3, <1>4

(* An empty list takes its only entry.                                      *)
LEMMA InsertOnlyLinks ==
    ASSUME NEW l, NEW s, IsList(l, s), s = <<>>, NEW e \in Entries
    PROVE  IsList(insert_only_entry(l, e), InsertedAt(s, 0, e))
<1> DEFINE t == InsertedAt(s, 0, e)
           m == insert_only_entry(l, e)
<1>1. l \in ListType /\ s \in Seq(Entries) /\ Len(s) = 0 /\ Injective(s)
  BY DEF IsList
<1>2. t \in Seq(Entries) /\ Len(t) = 1 /\ Injective(t) /\ t[1] = e
  <2>1. t = [k \in 1 .. 1 |-> e]
    BY <1>1 DEF InsertedAt
  <2> HIDE DEF t
  <2>2. t = <<e>>
    BY <2>1
  <2> QED  BY <2>2 DEF Injective
<1>3. m \in ListType /\ m.first = e /\ m.next[e] = e /\ m.prev[e] = e
  BY <1>1 DEF insert_only_entry, ListType, Pointer
<1> HIDE DEF m, t
<1>4. IsList(m, t)
  BY <1>2, <1>3 DEF IsList, Linked, Succ
<1> QED  BY <1>4 DEF m, t

(* The pushes put the entry at the end and at the front.                    *)
LEMMA PushLinks ==
    ASSUME NEW l, NEW s, IsList(l, s), NEW e \in Entries, \A j \in 1 .. Len(s) : s[j] # e
    PROVE  /\ IsList(ll_push_back(l, e), InsertedAt(s, Len(s), e))
           /\ IsList(ll_push_front(l, e), InsertedAt(s, 0, e))
<1>0. s \in Seq(Entries) /\ Len(s) \in Nat /\ Linked(l, s) /\ \A j \in 1 .. Len(s) : s[j] \in Entries
  BY DEF IsList
<1>1. CASE s = <<>>
  <2>1. is_empty(l) /\ Len(s) = 0
    BY <1>1, <1>0 DEF Linked, is_empty
  <2> QED  BY <2>1, <1>1, InsertOnlyLinks DEF ll_push_back, ll_push_front
<1>2. CASE s # <<>>
  <2>1. Len(s) \in 1 .. Len(s) /\ 1 \in 1 .. Len(s)
    BY <1>0, <1>2
  <2>2. ~is_empty(l) /\ l.first = s[1] /\ l.prev[l.first] = s[Len(s)]
    BY <2>1, <1>0, <1>2, NoEntryAssumption DEF Linked, is_empty, Succ
  <2>3. IsList(insert_after(l, s[Len(s)], e), InsertedAt(s, Len(s), e))
    BY <2>1, InsertAfterLinks
  <2>4. IsList(insert_before(l, s[1], e), InsertedAt(s, 1 - 1, e))
    BY <2>1, InsertBeforeLinks
  <2>5. 1 - 1 = 0
    OBVIOUS
  <2> QED  BY <2>2, <2>3, <2>4, <2>5 DEF ll_push_back, ll_push_front
<1> QED  BY <1>1, <1>2

(* A cursor on the p-th entry, or on None, moves to its neighbours.         *)
LEMMA CursorMoves ==
    ASSUME NEW l, NEW s, IsList(l, s), NEW p \in 0 .. Len(s), NEW c,
           c = IF p = 0 THEN NoEntry ELSE s[p]
    PROVE  /\ LET q == IF p = Len(s) THEN 0 ELSE p + 1
              IN  move_next(l, c) = IF q = 0 THEN NoEntry ELSE s[q]
           /\ LET q == IF p = 0 THEN Len(s) ELSE p - 1
              IN  move_prev(l, c) = IF q = 0 THEN NoEntry ELSE s[q]
<1>0. /\ s \in Seq(Entries) /\ Len(s) \in Nat /\ Linked(l, s) /\ Injective(s)
      /\ \A j \in 1 .. Len(s) : s[j] \in Entries /\ s[j] # NoEntry
  BY NoEntryAssumption DEF IsList
<1>1. CASE p = 0
  <2>1. c = NoEntry
    BY <1>1
  <2>2. CASE s = <<>>
    BY SMTT(60), <2>1, <2>2, <1>1, <1>0 DEF Linked, move_next, move_prev, is_empty
  <2>3. CASE s # <<>>
    <3>1. Len(s) \in 1 .. Len(s) /\ Len(s) > 0 /\ 1 \in 1 .. Len(s)
      BY <2>3, <1>0
    <3>2. l.first = s[1] /\ l.first # NoEntry /\ l.prev[s[1]] = s[Len(s)]
      BY <3>1, <2>3, <1>0 DEF Linked, Succ
    <3> QED  BY <2>1, <3>1, <3>2, <1>1 DEF move_next, move_prev, is_empty
  <2> QED  BY <2>2, <2>3
<1>2. CASE p # 0
  <2>1. p \in 1 .. Len(s) /\ 1 \in 1 .. Len(s) /\ s # <<>> /\ c = s[p] /\ c # NoEntry
    BY <1>0, <1>2
  <2>2. l.first = s[1] /\ l.first # NoEntry /\ (s[p] = s[1] <=> p = 1)
    BY <2>1, <1>0 DEF Linked, Injective
  <2>3. l.next[s[p]] = s[Succ(s, p)] /\ (s[Succ(s, p)] = s[1] <=> p = Len(s))
    BY <2>1, <1>0 DEF Linked, Injective, Succ
  <2>4. p # 1 => l.prev[s[p]] = s[p - 1]
    BY <2>1, <1>0 DEF Linked, Succ
  <2>5. move_next(l, c) = IF p = Len(s) THEN NoEntry ELSE s[p + 1]
    BY <2>1, <2>2, <2>3 DEF move_next, Succ
  <2>6. move_prev(l, c) = IF p = 1 THEN NoEntry ELSE s[p - 1]
    BY <2>1, <2>2, <2>4 DEF move_prev, is_empty
  <2> QED  BY <2>1, <2>5, <2>6, <1>0, <1>2
<1> QED  BY <1>1, <1>2

-----------------------------------------------------------------------------
(* The empty list of List::new is the empty sequence.                      *)
LEMMA LlInitInv == LlInit => LlInv
<1> SUFFICES ASSUME LlInit PROVE LlInv
  OBVIOUS
<1>1. ll \in ListType /\ ll.first = NoEntry
  BY DEF LlInit, ListType, Pointer
<1>2. ll_seq \in Seq(Entries) /\ ll_seq = <<>> /\ Len(ll_seq) = 0 /\ ll_pos = -1
  BY DEF LlInit
<1> QED  BY <1>1, <1>2 DEF LlInv, IsList, Injective, Linked, ListIsSeq, Borrowed

(* A change of the list that keeps it a list keeps the invariant: nobody    *)
(* holds a cursor.                                                          *)
LEMMA ChangeKeeps ==
    ASSUME LlInv, NEW l, NEW s, IsList(l, s), Changes(l, s)
    PROVE  LlInv'
<1>1. ll' = l /\ ll_seq' = s /\ ll_pos' = -1 /\ ll_pos = -1
  BY DEF Changes, Borrowed
<1>2. Len(s) \in Nat
  BY DEF IsList
<1>3. IsList(ll, ll_seq)' /\ Linked(ll, ll_seq)'
  BY <1>1 DEF IsList, Linked, Succ, Injective
<1> QED  BY <1>1, <1>2, <1>3 DEF LlInv, ListIsSeq, Borrowed

(* So does a cursor that arrives where the sequence says it should be.      *)
LEMMA MoveKeeps ==
    ASSUME LlInv, NEW c, NEW p \in 0 .. Len(ll_seq), Moves(c, p),
           c = IF p = 0 THEN NoEntry ELSE ll_seq[p]
    PROVE  LlInv'
<1>1. ll' = ll /\ ll_seq' = ll_seq /\ ll_cur' = c /\ ll_pos' = p
  BY DEF Moves
<1>2. IsList(ll, ll_seq)' /\ Linked(ll, ll_seq)'
  BY <1>1 DEF LlInv, IsList, Linked, Succ, Injective
<1>3. Len(ll_seq) \in Nat
  BY DEF LlInv, IsList
<1> QED  BY <1>1, <1>2, <1>3 DEF LlInv, ListIsSeq

(* Every operation of the list and of its cursors keeps the invariant.      *)
LEMMA LlStep == LlInv /\ [LlNext]_ll_vars => LlInv'
<1> SUFFICES ASSUME LlInv, [LlNext]_ll_vars PROVE LlInv'
  OBVIOUS
<1>0. /\ IsList(ll, ll_seq) /\ ll_seq \in Seq(Entries) /\ Len(ll_seq) \in Nat
      /\ \A j \in 1 .. Len(ll_seq) : ll_seq[j] \in Members
  BY DEF LlInv, IsList, Members
<1>1. ASSUME NEW e \in Entries, add_task(e) PROVE LlInv'
  BY <1>0, <1>1, PushLinks, ChangeKeeps DEF add_task
<1>2. ASSUME NEW e \in Entries, push_front(e) PROVE LlInv'
  BY <1>0, <1>2, PushLinks, ChangeKeeps DEF push_front
<1>3. ASSUME NEW e \in Entries, NEW i \in 1 .. Len(ll_seq), list_insert_after(i, e) PROVE LlInv'
  BY <1>0, <1>3, InsertAfterLinks, ChangeKeeps DEF list_insert_after
<1>4. ASSUME NEW e \in Entries, NEW i \in 1 .. Len(ll_seq), list_insert_before(i, e) PROVE LlInv'
  BY <1>0, <1>4, InsertBeforeLinks, ChangeKeeps DEF list_insert_before
<1>5. ASSUME NEW i \in 1 .. Len(ll_seq), remove_task(i) PROVE LlInv'
  BY <1>0, <1>5, RemoveUnlinks, ChangeKeeps DEF remove_task
<1>6. ASSUME pop_front PROVE LlInv'
  <2>1. 1 \in 1 .. Len(ll_seq) /\ front(ll) = ll_seq[1]
    BY <1>0, <1>6 DEF pop_front, front, is_empty, IsList, Linked
  <2> QED  BY <2>1, <1>0, <1>6, RemoveUnlinks, ChangeKeeps DEF pop_front
<1>7. ASSUME cursor_front PROVE LlInv'
  <2> DEFINE p == IF ll_seq = <<>> THEN 0 ELSE 1
  <2>1. p \in 0 .. Len(ll_seq) /\ front(ll) = IF p = 0 THEN NoEntry ELSE ll_seq[p]
    BY <1>0 DEF front, IsList, Linked
  <2> QED  BY <2>1, <1>7, MoveKeeps DEF cursor_front
<1>8. ASSUME cursor_back PROVE LlInv'
  <2>1. back(ll) = IF Len(ll_seq) = 0 THEN NoEntry ELSE ll_seq[Len(ll_seq)]
    <3>1. CASE ll_seq = <<>>
      BY <3>1, <1>0 DEF back, IsList, Linked, is_empty
    <3>2. CASE ll_seq # <<>>
      <4>1. Len(ll_seq) \in 1 .. Len(ll_seq) /\ ll_seq[1] # NoEntry
        BY <3>2, <1>0, NoEntryAssumption
      <4> QED  BY <4>1, <3>2, <1>0 DEF back, IsList, Linked, is_empty, Succ
    <3> QED  BY <3>1, <3>2
  <2>2. Len(ll_seq) \in 0 .. Len(ll_seq)
    BY <1>0
  <2> QED  BY <2>1, <2>2, <1>8, MoveKeeps DEF cursor_back
<1>9. ASSUME cursor_next PROVE LlInv'
  <2>1. ll_pos \in 0 .. Len(ll_seq) /\ ll_cur = IF ll_pos = 0 THEN NoEntry ELSE ll_seq[ll_pos]
    BY <1>9 DEF cursor_next, LlInv, ListIsSeq, Borrowed
  <2> DEFINE q == IF ll_pos = Len(ll_seq) THEN 0 ELSE ll_pos + 1
  <2>2. move_next(ll, ll_cur) = IF q = 0 THEN NoEntry ELSE ll_seq[q]
    BY <2>1, <1>0, CursorMoves
  <2>3. q \in 0 .. Len(ll_seq)
    BY <2>1, <1>0
  <2> QED  BY <2>2, <2>3, <1>9, MoveKeeps DEF cursor_next
<1>10. ASSUME cursor_prev PROVE LlInv'
  <2>1. ll_pos \in 0 .. Len(ll_seq) /\ ll_cur = IF ll_pos = 0 THEN NoEntry ELSE ll_seq[ll_pos]
    BY <1>10 DEF cursor_prev, LlInv, ListIsSeq, Borrowed
  <2> DEFINE q == IF ll_pos = 0 THEN Len(ll_seq) ELSE ll_pos - 1
  <2>2. move_prev(ll, ll_cur) = IF q = 0 THEN NoEntry ELSE ll_seq[q]
    BY <2>1, <1>0, CursorMoves
  <2>3. q \in 0 .. Len(ll_seq)
    BY SMTT(60), <2>1, <1>0
  <2> QED  BY Zenon, <2>2, <2>3, <1>10, MoveKeeps DEF cursor_prev
<1>11. ASSUME UNCHANGED <<ll, ll_seq>>, UNCHANGED <<ll_cur, ll_pos>> \/ ll_pos' = -1 PROVE LlInv'
  BY <1>11, <1>0 DEF LlInv, ListIsSeq, IsList, Linked, Succ, Injective, Borrowed
<1>12. CASE list_drop \/ cursor_drop \/ UNCHANGED ll_vars
  BY <1>11, <1>12 DEF list_drop, cursor_drop, Moves, ll_vars
<1> QED
  BY <1>1, <1>2, <1>3, <1>4, <1>5, <1>6, <1>7, <1>8, <1>9, <1>10, <1>12 DEF LlNext

(* For any entries and any order of the operations the pointers of the list *)
(* are the sequence asked for, and cursors walk it (unsafe_list.rs).        *)
THEOREM ListIsSequence == LlSpec => []ListIsSeq
<1>1. LlInv => ListIsSeq
  BY DEF LlInv
<1> QED  BY <1>1, LlInitInv, LlStep, PTL DEF LlSpec
=============================================================================
