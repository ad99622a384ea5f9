--------------------------- MODULE JsonTree_proofs ----------------------------
(* Proofs about JsonTree: whatever calls are made and whichever allocations    *)
(* fail, the links form lists, and every item and every key has one owner.     *)
EXTENDS JsonTree, Recursion_proofs, FiniteSetTheorems, SequenceTheorems

-----------------------------------------------------------------------------
(* One list.                                                                 *)

Link == [Nodes -> Nodes \cup {0}]

\* The items of s are linked both ways, the first back to the last.
After(s, k) == IF k = Len(s) THEN 0 ELSE s[k + 1]
Before(s, k) == IF k = 1 THEN s[Len(s)] ELSE s[k - 1]
IsList(next, prev, first, s) ==
  /\ first = IF Len(s) = 0 THEN 0 ELSE s[1]
  /\ \A k \in 1 .. Len(s) : next[s[k]] = After(s, k) /\ prev[s[k]] = Before(s, k)

Distinct(s) == \A j, k \in 1 .. Len(s) : s[j] = s[k] => j = k
In(s, n) == \E k \in 1 .. Len(s) : s[k] = n

\* A list with n items more or less.
Longer(s, x) == [k \in 1 .. Len(s) + 1 |-> IF k <= Len(s) THEN s[k] ELSE x]
Without(s, m) == [k \in 1 .. Len(s) - 1 |-> IF k < m THEN s[k] ELSE s[k + 1]]
With(s, m, x) ==
  [k \in 1 .. Len(s) + 1 |-> IF k < m THEN s[k] ELSE IF k = m THEN x ELSE s[k - 1]]
Instead(s, m, x) == [k \in 1 .. Len(s) |-> IF k = m THEN x ELSE s[k]]

LEMMA LongerIs ==
  ASSUME NEW s \in Seq(Nodes), NEW x \in Nodes, Distinct(s), ~In(s, x)
  PROVE  LET t == Longer(s, x)
         IN  /\ t \in Seq(Nodes) /\ Len(t) = Len(s) + 1 /\ Distinct(t)
             /\ \A k \in 1 .. Len(s) : t[k] = s[k]
             /\ t[Len(s) + 1] = x
             /\ \A n : In(t, n) <=> In(s, n) \/ n = x
<1> DEFINE t == Longer(s, x)
           l == Len(s)
<1>1. l \in Nat /\ \A k \in 1 .. l : s[k] \in Nodes
  OBVIOUS
<1>2. \A k \in 1 .. l + 1 : (k \in 1 .. l /\ k <= l) \/ (k = l + 1 /\ ~(k <= l))
  BY <1>1
<1>3. t = [k \in 1 .. l + 1 |-> IF k <= l THEN s[k] ELSE x]
  BY DEF Longer
<1>4. t \in Seq(Nodes) /\ Len(t) = l + 1
  <2>1. \A k \in 1 .. l + 1 : t[k] \in Nodes
    BY <1>1, <1>2, <1>3
  <2> HIDE DEF l
  <2>2. QED
    BY <1>1, <1>3, <2>1, IsASeq
<1>5. (\A k \in 1 .. l : t[k] = s[k]) /\ t[l + 1] = x
  BY <1>1, <1>3
<1> HIDE DEF t, l
<1>6. Distinct(t)
  <2>1. \A j, k \in 1 .. l + 1 : t[j] = t[k] => j = k
    BY <1>2, <1>5 DEF Distinct, In, l
  <2>2. QED
    BY <1>4, <2>1 DEF Distinct
<1>7. \A n : In(t, n) <=> In(s, n) \/ n = x
  <2>1. l + 1 \in 1 .. l + 1 /\ \A k \in 1 .. l : k \in 1 .. l + 1
    BY <1>1
  <2>2. QED
    BY <1>2, <1>4, <1>5, <2>1 DEF In, l
<1>8. QED
  BY <1>4, <1>5, <1>6, <1>7 DEF t, l

LEMMA WithoutIs ==
  ASSUME NEW s \in Seq(Nodes), NEW m \in 1 .. Len(s), Distinct(s)
  PROVE  LET t == Without(s, m)
         IN  /\ t \in Seq(Nodes) /\ Len(t) = Len(s) - 1 /\ Distinct(t)
             /\ \A k \in 1 .. m - 1 : t[k] = s[k]
             /\ \A k \in m .. Len(s) - 1 : t[k] = s[k + 1]
             /\ \A n : In(t, n) <=> In(s, n) /\ n # s[m]
<1> DEFINE t == Without(s, m)
           l == Len(s)
<1>1. l \in Nat /\ m \in 1 .. l /\ \A k \in 1 .. l : s[k] \in Nodes
  OBVIOUS
<1>2. \A k \in 1 .. l - 1 : \/ k \in 1 .. m - 1 /\ k < m /\ k \in 1 .. l
                            \/ k \in m .. l - 1 /\ ~(k < m) /\ k + 1 \in 1 .. l
  BY <1>1
<1>3. t = [k \in 1 .. l - 1 |-> IF k < m THEN s[k] ELSE s[k + 1]]
  BY DEF Without
<1>4. t \in Seq(Nodes) /\ Len(t) = l - 1
  <2>1. \A k \in 1 .. l - 1 : t[k] \in Nodes
    BY <1>1, <1>2, <1>3
  <2>2. l - 1 \in Nat
    BY <1>1
  <2> HIDE DEF l
  <2>3. QED
    BY <1>3, <2>1, <2>2, IsASeq
<1>5. /\ \A k \in 1 .. m - 1 : k \in 1 .. l - 1 /\ t[k] = s[k]
      /\ \A k \in m .. l - 1 : k \in 1 .. l - 1 /\ t[k] = s[k + 1]
  BY <1>1, <1>3
<1> HIDE DEF t, l
<1>6. Distinct(t)
  <2>1. \A j, k \in 1 .. l : s[j] = s[k] => j = k
    BY DEF Distinct, l
  <2>2. \A j, k \in 1 .. l - 1 : t[j] = t[k] => j = k
    BY <1>1, <1>2, <1>5, <2>1
  <2>3. QED
    BY <1>4, <2>2 DEF Distinct
<1>7. ASSUME NEW n, In(t, n) PROVE In(s, n) /\ n # s[m]
  <2>1. PICK k \in 1 .. l - 1 : t[k] = n
    BY <1>4, <1>7 DEF In
  <2>2. \E j \in 1 .. l : j # m /\ s[j] = n
    BY <1>1, <1>2, <1>5, <2>1
  <2>3. QED
    BY <1>1, <2>2 DEF In, Distinct, l
<1>8. ASSUME NEW n, In(s, n), n # s[m] PROVE In(t, n)
  <2>1. PICK k \in 1 .. l : s[k] = n /\ k # m
    BY <1>8 DEF In, l
  <2>2. CASE k < m
    <3>1. k \in 1 .. m - 1
      BY <1>1, <2>2
    <3>2. QED
      BY <1>4, <1>5, <2>1, <3>1 DEF In
  <2>3. CASE ~(k < m)
    <3>1. k - 1 \in m .. l - 1 /\ (k - 1) + 1 = k
      BY <1>1, <2>1, <2>3
    <3>2. t[k - 1] = n
      BY <1>5, <2>1, <3>1
    <3>3. QED
      BY <1>4, <1>5, <3>1, <3>2 DEF In
  <2>4. QED
    BY <2>2, <2>3
<1>9. QED
  BY <1>4, <1>5, <1>6, <1>7, <1>8 DEF t, l

LEMMA WithIs ==
  ASSUME NEW s \in Seq(Nodes), NEW m \in 1 .. Len(s), NEW x \in Nodes, Distinct(s), ~In(s, x)
  PROVE  LET t == With(s, m, x)
         IN  /\ t \in Seq(Nodes) /\ Len(t) = Len(s) + 1 /\ Distinct(t)
             /\ \A k \in 1 .. m - 1 : t[k] = s[k]
             /\ t[m] = x
             /\ \A k \in m .. Len(s) : t[k + 1] = s[k]
             /\ \A n : In(t, n) <=> In(s, n) \/ n = x
<1> DEFINE t == With(s, m, x)
           l == Len(s)
<1>1. l \in Nat /\ m \in 1 .. l /\ \A k \in 1 .. l : s[k] \in Nodes
  OBVIOUS
<1>2. \A k \in 1 .. l + 1 : \/ k \in 1 .. m - 1 /\ k < m /\ k \in 1 .. l
                            \/ k = m /\ ~(k < m)
                            \/ k - 1 \in m .. l /\ ~(k < m) /\ k # m /\ k - 1 \in 1 .. l
                                 /\ (k - 1) + 1 = k
  BY <1>1
<1>3. t = [k \in 1 .. l + 1 |-> IF k < m THEN s[k] ELSE IF k = m THEN x ELSE s[k - 1]]
  BY DEF With
<1>4. t \in Seq(Nodes) /\ Len(t) = l + 1
  <2>1. \A k \in 1 .. l + 1 : t[k] \in Nodes
    BY <1>1, <1>2, <1>3
  <2>2. l + 1 \in Nat
    BY <1>1
  <2> HIDE DEF l
  <2>3. QED
    BY <1>3, <2>1, <2>2, IsASeq
<1>5. /\ \A k \in 1 .. m - 1 : k \in 1 .. l + 1 /\ t[k] = s[k]
      /\ m \in 1 .. l + 1 /\ t[m] = x
      /\ \A k \in m .. l : k + 1 \in 1 .. l + 1 /\ t[k + 1] = s[k]
  <2>1. /\ \A k \in 1 .. m - 1 : k \in 1 .. l + 1 /\ k < m
        /\ m \in 1 .. l + 1 /\ ~(m < m)
        /\ \A k \in m .. l : k + 1 \in 1 .. l + 1 /\ ~(k + 1 < m) /\ k + 1 # m /\ (k + 1) - 1 = k
    BY <1>1
  <2> HIDE DEF t
  <2>2. QED
    BY <1>3, <2>1
<1> HIDE DEF t, l
<1>6. Distinct(t)
  <2>1. \A j, k \in 1 .. l : s[j] = s[k] => j = k
    BY DEF Distinct, l
  <2>2. \A k \in 1 .. l : s[k] # x
    BY DEF In, l
  <2>3. ASSUME NEW j \in 1 .. l + 1, NEW k \in 1 .. l + 1, t[j] = t[k] PROVE j = k
    <3>1. ASSUME NEW i \in 1 .. l + 1, i # m
          PROVE  \E o \in 1 .. l : t[i] = s[o] /\ i = (IF o < m THEN o ELSE o + 1)
      <4>1. CASE i < m
        <5>1. i \in 1 .. m - 1 /\ i \in 1 .. l
          BY <1>1, <3>1, <4>1
        <5>2. QED
          BY <1>5, <4>1, <5>1
      <4>2. CASE ~(i < m)
        <5>1. i - 1 \in m .. l /\ i - 1 \in 1 .. l /\ (i - 1) + 1 = i /\ ~(i - 1 < m)
          BY <1>1, <3>1, <4>2
        <5>2. t[i] = s[i - 1]
          BY <1>5, <5>1
        <5>3. QED
          BY <5>1, <5>2
      <4>3. QED
        BY <4>1, <4>2
    <3>2. CASE j = m
      BY <1>5, <2>2, <2>3, <3>1, <3>2
    <3>3. CASE k = m
      BY <1>5, <2>2, <2>3, <3>1, <3>3
    <3>4. CASE j # m /\ k # m
      BY <2>1, <2>3, <3>1, <3>4
    <3>5. QED
      BY <3>2, <3>3, <3>4
  <2>4. QED
    BY <1>4, <2>3 DEF Distinct
<1>7. ASSUME NEW n, In(t, n) PROVE In(s, n) \/ n = x
  <2>1. PICK k \in 1 .. l + 1 : t[k] = n
    BY <1>4, <1>7 DEF In
  <2>2. n = x \/ \E j \in 1 .. l : s[j] = n
    BY <1>2, <1>5, <2>1
  <2>3. QED
    BY <2>2 DEF In, l
<1>8. ASSUME NEW n, In(s, n) PROVE In(t, n)
  <2>1. PICK k \in 1 .. l : s[k] = n
    BY <1>8 DEF In, l
  <2>2. k \in 1 .. m - 1 \/ k \in m .. l
    BY <1>1
  <2>3. QED
    BY <1>4, <1>5, <2>1, <2>2 DEF In
<1>9. In(t, x)
  BY <1>4, <1>5 DEF In
<1>10. QED
  BY <1>4, <1>5, <1>6, <1>7, <1>8, <1>9 DEF t, l

LEMMA InsteadIs ==
  ASSUME NEW s \in Seq(Nodes), NEW m \in 1 .. Len(s), NEW x \in Nodes, Distinct(s), ~In(s, x)
  PROVE  LET t == Instead(s, m, x)
         IN  /\ t \in Seq(Nodes) /\ Len(t) = Len(s) /\ Distinct(t)
             /\ \A k \in 1 .. Len(s) : k # m => t[k] = s[k]
             /\ t[m] = x
             /\ \A n : In(t, n) <=> (In(s, n) /\ n # s[m]) \/ n = x
<1> DEFINE t == Instead(s, m, x)
           l == Len(s)
<1>1. l \in Nat /\ m \in 1 .. l /\ \A k \in 1 .. l : s[k] \in Nodes
  OBVIOUS
<1>2. t = [k \in 1 .. l |-> IF k = m THEN x ELSE s[k]]
  BY DEF Instead
<1>3. t \in Seq(Nodes) /\ Len(t) = l
  <2>1. \A k \in 1 .. l : t[k] \in Nodes
    BY <1>1, <1>2
  <2> HIDE DEF l
  <2>2. QED
    BY <1>1, <1>2, <2>1, IsASeq
<1>4. (\A k \in 1 .. l : k # m => t[k] = s[k]) /\ t[m] = x
  BY <1>1, <1>2
<1> HIDE DEF t, l
<1>5. (\A j, k \in 1 .. l : s[j] = s[k] => j = k) /\ \A k \in 1 .. l : s[k] # x
  BY DEF Distinct, In, l
<1>6. Distinct(t)
  <2>1. \A j, k \in 1 .. l : t[j] = t[k] => j = k
    BY <1>4, <1>5
  <2>2. QED
    BY <1>3, <2>1 DEF Distinct
<1>7. \A n : In(t, n) <=> (In(s, n) /\ n # s[m]) \/ n = x
  <2>1. \A n : (\E k \in 1 .. l : t[k] = n) <=> ((\E k \in 1 .. l : s[k] = n) /\ n # s[m]) \/ n = x
    BY <1>1, <1>4, <1>5
  <2>2. QED
    BY <1>3, <2>1 DEF In, l
<1>8. QED
  BY <1>3, <1>4, <1>6, <1>7 DEF t, l

\* A list stays one when what changes is not in it.
LEMMA ListFrame ==
  ASSUME NEW s \in Seq(Nodes), NEW next, NEW prev, NEW first, IsList(next, prev, first, s),
         NEW next2, NEW prev2, \A n \in Nodes : In(s, n) => next2[n] = next[n] /\ prev2[n] = prev[n]
  PROVE  IsList(next2, prev2, first, s)
<1>1. \A k \in 1 .. Len(s) : s[k] \in Nodes /\ In(s, s[k])
  BY DEF In
<1>2. QED
  BY <1>1 DEF IsList

-----------------------------------------------------------------------------
(* The lists of a heap.                                                      *)

Placed(L, n) == \E a \in Nodes : In(L[a], n)

\* L has the list of every item: no item is in two, and what is in none points nowhere.
Represents(h, L) ==
  /\ L \in [Nodes -> Seq(Nodes)]
  /\ \A a \in Nodes : a \notin Containers(h) => Len(L[a]) = 0
  /\ \A a \in Containers(h) : IsList(h.next, h.prev, h.child[a], L[a])
  /\ \A a \in Nodes : Distinct(L[a])
  /\ \A a, b \in Nodes : \A n \in Nodes : In(L[a], n) /\ In(L[b], n) => a = b
  /\ \A n \in Nodes : ~Placed(L, n) => h.next[n] = 0 /\ h.prev[n] = 0

\* From h to g the list of a becomes t; what leaves it points nowhere.
Changed(h, g, L, a, t) ==
  /\ a \in Nodes /\ a \in Containers(h) /\ Containers(g) = Containers(h) /\ h.live \subseteq Nodes
  /\ t \in Seq(Nodes) /\ Distinct(t) /\ IsList(g.next, g.prev, g.child[a], t)
  /\ \A b \in Nodes : b # a => g.child[b] = h.child[b]
  /\ \A n \in Nodes : ~In(L[a], n) /\ ~In(t, n) => g.next[n] = h.next[n] /\ g.prev[n] = h.prev[n]
  /\ \A n \in Nodes : In(t, n) => In(L[a], n) \/ ~Placed(L, n)
  /\ \A n \in Nodes : In(L[a], n) /\ ~In(t, n) => g.next[n] = 0 /\ g.prev[n] = 0

\* One list is changed: it is enough to look at that one.
LEMMA OneList ==
  ASSUME NEW h, NEW g, NEW L, Represents(h, L), NEW a, NEW t, Changed(h, g, L, a, t)
  PROVE  LET M == [L EXCEPT ![a] = t]
         IN  /\ Represents(g, M)
             /\ \A n \in Nodes : Placed(M, n) <=> (Placed(L, n) /\ ~In(L[a], n)) \/ In(t, n)
<1> DEFINE M == [L EXCEPT ![a] = t]
<1> USE DEF Changed
<1>1. L \in [Nodes -> Seq(Nodes)] /\ \A b, c \in Nodes : \A n \in Nodes : In(L[b], n) /\ In(L[c], n) => b = c
  BY DEF Represents
<1>2. M \in [Nodes -> Seq(Nodes)] /\ M[a] = t /\ \A b \in Nodes : b # a => M[b] = L[b]
  BY <1>1
<1> HIDE DEF M
<1>3. \A b \in Nodes, n \in Nodes : b # a /\ In(L[b], n) => ~In(L[a], n) /\ ~In(t, n)
  BY <1>1 DEF Placed
<1>4. \A b, c \in Nodes : \A n \in Nodes : In(M[b], n) /\ In(M[c], n) => b = c
  <2>1. \A b \in Nodes : b = a \/ M[b] = L[b]
    BY <1>2
  <2>2. QED
    BY <1>1, <1>2, <1>3, <2>1
<1>5. \A n \in Nodes : Placed(M, n) <=> (Placed(L, n) /\ ~In(L[a], n)) \/ In(t, n)
  <2>1. ASSUME NEW n \in Nodes, Placed(M, n) PROVE (Placed(L, n) /\ ~In(L[a], n)) \/ In(t, n)
    <3>1. PICK b \in Nodes : In(M[b], n)
      BY <2>1 DEF Placed
    <3>2. CASE b = a
      BY <1>2, <3>1, <3>2
    <3>3. CASE b # a
      BY <1>2, <1>3, <3>1, <3>3 DEF Placed
    <3>4. QED
      BY <3>2, <3>3
  <2>2. ASSUME NEW n \in Nodes, Placed(L, n), ~In(L[a], n) PROVE Placed(M, n)
    <3>1. PICK b \in Nodes : In(L[b], n)
      BY <2>2 DEF Placed
    <3>2. QED
      BY <1>2, <2>2, <3>1 DEF Placed
  <2>3. ASSUME NEW n \in Nodes, In(t, n) PROVE Placed(M, n)
    BY <1>2, <2>3 DEF Placed
  <2>4. QED
    BY <2>1, <2>2, <2>3
<1>6. \A n \in Nodes : ~Placed(M, n) => g.next[n] = 0 /\ g.prev[n] = 0
  <2>1. \A n \in Nodes : ~Placed(L, n) => h.next[n] = 0 /\ h.prev[n] = 0
    BY DEF Represents
  <2>2. ASSUME NEW n \in Nodes, ~Placed(M, n) PROVE g.next[n] = 0 /\ g.prev[n] = 0
    <3>1. ~In(t, n) /\ (In(L[a], n) \/ ~Placed(L, n))
      BY <1>5, <2>2
    <3>2. CASE In(L[a], n)
      BY <3>1, <3>2
    <3>3. CASE ~In(L[a], n)
      BY <2>1, <3>1, <3>3
    <3>4. QED
      BY <3>2, <3>3
  <2>3. QED
    BY <2>2
<1>7. \A b \in Containers(g) : IsList(g.next, g.prev, g.child[b], M[b])
  <2>1. ASSUME NEW b \in Containers(h), b # a PROVE IsList(g.next, g.prev, g.child[b], M[b])
    <3>1. b \in Nodes /\ L[b] \in Seq(Nodes) /\ IsList(h.next, h.prev, h.child[b], L[b])
      BY <1>1 DEF Represents, Containers
    <3>2. \A n \in Nodes : In(L[b], n) => g.next[n] = h.next[n] /\ g.prev[n] = h.prev[n]
      BY <1>3, <2>1, <3>1
    <3>3. IsList(g.next, g.prev, h.child[b], L[b])
      BY <3>1, <3>2, ListFrame
    <3>4. QED
      BY <1>2, <2>1, <3>1, <3>3
  <2>2. QED
    BY <1>2, <2>1
<1>8. \A b \in Nodes : Distinct(M[b]) /\ (b \notin Containers(g) => Len(M[b]) = 0)
  <2>1. \A b \in Nodes : Distinct(L[b]) /\ (b \notin Containers(h) => Len(L[b]) = 0)
    BY DEF Represents
  <2>2. QED
    BY <1>2, <2>1
<1>9. Represents(g, M)
  BY <1>2, <1>4, <1>6, <1>7, <1>8 DEF Represents
<1>10. QED
  BY <1>5, <1>9 DEF M

\* What is known of a list in a heap.
LEMMA ListOf ==
  ASSUME NEW h \in Heap, NEW L, Represents(h, L), NEW a \in Containers(h)
  PROVE  /\ a \in Nodes /\ h.live \subseteq Nodes
         /\ L[a] \in Seq(Nodes) /\ Distinct(L[a]) /\ IsList(h.next, h.prev, h.child[a], L[a])
         /\ \A k \in 1 .. Len(L[a]) : L[a][k] \in Nodes /\ L[a][k] # 0 /\ Placed(L, L[a][k])
                                        /\ In(L[a], L[a][k])
         /\ h.child[a] = 0 <=> Len(L[a]) = 0
<1>1. a \in Nodes /\ h.live \subseteq Nodes
  BY DEF Containers, Heap
<1>2. L[a] \in Seq(Nodes) /\ Distinct(L[a]) /\ IsList(h.next, h.prev, h.child[a], L[a])
  BY <1>1 DEF Represents
<1>3. \A k \in 1 .. Len(L[a]) : L[a][k] \in Nodes /\ L[a][k] # 0 /\ In(L[a], L[a][k])
  BY <1>2, NodesAssumption DEF In
<1>4. h.child[a] = 0 <=> Len(L[a]) = 0
  <2>1. Len(L[a]) # 0 => 1 \in 1 .. Len(L[a])
    BY <1>2
  <2>2. QED
    BY <1>2, <1>3, <2>1 DEF IsList
<1>5. QED
  BY <1>1, <1>2, <1>3, <1>4 DEF Placed

\* What the calls that link items leave alone.
SameRest(g, h) ==
  /\ g.string = h.string /\ g.reference = h.reference /\ g.const = h.const
  /\ g.live = h.live /\ g.strings = h.strings
SameChildren(g, h, a) == \A b \in Nodes : b # a => g.child[b] = h.child[b]

-----------------------------------------------------------------------------
(* The calls that change a list.                                             *)

LEMMA AddIs ==
  ASSUME NEW h \in Heap, NEW L, Represents(h, L), NEW a \in Containers(h),
         NEW x \in Nodes, ~Placed(L, x)
  PROVE  LET g == add_item_to_array(h, a, x)
             M == [L EXCEPT ![a] = Longer(L[a], x)]
         IN  /\ g \in Heap /\ Represents(g, M) /\ SameRest(g, h) /\ SameChildren(g, h, a)
             /\ \A n \in Nodes : Placed(M, n) <=> Placed(L, n) \/ n = x
<1> DEFINE g == add_item_to_array(h, a, x)
           s == L[a]
           l == Len(s)
           t == Longer(s, x)
           first == h.child[a]
<1>1. /\ a \in Nodes /\ h.live \subseteq Nodes
      /\ s \in Seq(Nodes) /\ Distinct(s) /\ IsList(h.next, h.prev, first, s)
      /\ \A k \in 1 .. l : s[k] \in Nodes /\ s[k] # 0 /\ Placed(L, s[k]) /\ In(s, s[k])
      /\ first = 0 <=> l = 0
  BY ListOf
<1>2. ~In(s, x) /\ h.next[x] = 0
  BY <1>1 DEF Placed, Represents
<1>3. /\ t \in Seq(Nodes) /\ Len(t) = l + 1 /\ Distinct(t)
      /\ \A k \in 1 .. l : t[k] = s[k]
      /\ t[l + 1] = x
      /\ \A n : In(t, n) <=> In(s, n) \/ n = x
  BY <1>1, <1>2, LongerIs
<1>4. l \in Nat /\ h.next \in Link /\ h.prev \in Link /\ h.child \in Link /\ x # 0
  BY <1>1, NodesAssumption DEF Heap, Link
<1>5. \A k \in 1 .. l : /\ h.next[s[k]] = IF k = l THEN 0 ELSE s[k + 1]
                        /\ h.prev[s[k]] = IF k = 1 THEN s[l] ELSE s[k - 1]
                        /\ s[k] # x
  BY <1>1, <1>2 DEF IsList, After, Before
<1>6. /\ g \in Heap /\ SameRest(g, h)
      /\ g.child[a] = t[1] /\ \A b \in Nodes : b # a => g.child[b] = h.child[b]
      /\ \A k \in 1 .. l + 1 : g.next[t[k]] = (IF k = l + 1 THEN 0 ELSE t[k + 1])
                                 /\ g.prev[t[k]] = (IF k = 1 THEN t[l + 1] ELSE t[k - 1])
      /\ \A n \in Nodes : ~In(t, n) => g.next[n] = h.next[n] /\ g.prev[n] = h.prev[n]
  <2>1. CASE l = 0
    <3>1. g = [h EXCEPT !.child[a] = x, !.prev[x] = x, !.next[x] = 0]
      BY <1>1, <2>1 DEF add_item_to_array
    <3>2. t[1] = x /\ \A k \in 1 .. l + 1 : k = 1 /\ k = l + 1
      BY <1>3, <2>1
    <3> HIDE DEF g, t, s, first, l
    <3>3. g \in Heap /\ SameRest(g, h)
      BY <1>1, <3>1 DEF Heap, SameRest
    <3>4. /\ g.child = [h.child EXCEPT ![a] = x] /\ g.prev = [h.prev EXCEPT ![x] = x]
          /\ g.next = [h.next EXCEPT ![x] = 0]
      BY <3>1 DEF Heap
    <3>5. QED
      BY <1>1, <1>3, <1>4, <2>1, <3>2, <3>3, <3>4 DEF Link
  <2>2. CASE l # 0
    <3> DEFINE last == s[l]
    <3>1. 1 \in 1 .. l /\ l \in 1 .. l /\ first = s[1] /\ h.prev[first] = last
      BY <1>1, <1>4, <1>5, <2>2 DEF IsList
    <3>2. first # 0 /\ last # 0 /\ last \in Nodes /\ first \in Nodes /\ last # x /\ first # x
      BY <1>1, <1>5, <3>1
    <3>3. g = [[h EXCEPT !.next[last] = x, !.prev[x] = last] EXCEPT !.prev[first] = x]
      BY <3>1, <3>2 DEF add_item_to_array, suffix_object
    <3>4. first = t[1] /\ last = t[l] /\ In(t, first) /\ In(t, last)
      BY <1>1, <1>3, <3>1
    <3>5. \A j, k \in 1 .. l : s[j] = s[k] => j = k
      BY <1>1 DEF Distinct
    <3> HIDE DEF g, t, s, first, l, last
    <3>6. g \in Heap /\ SameRest(g, h)
      BY <1>1, <3>2, <3>3 DEF Heap, SameRest
    <3>7. /\ g.child = h.child /\ g.prev = [[h.prev EXCEPT ![x] = last] EXCEPT ![first] = x]
          /\ g.next = [h.next EXCEPT ![last] = x]
      BY <3>3 DEF Heap
    <3>8. /\ \A n \in Nodes : g.next[n] = IF n = last THEN x ELSE h.next[n]
          /\ \A n \in Nodes : g.prev[n] = IF n = first THEN x ELSE IF n = x THEN last ELSE h.prev[n]
      BY <1>4, <3>2, <3>7 DEF Link
    <3>9. \A k \in 1 .. l + 1 : k = l + 1 \/ (k \in 1 .. l /\ k # l + 1 /\ (k = l \/ k + 1 \in 1 .. l)
                                               /\ (k = 1 \/ k - 1 \in 1 .. l))
      BY <1>4
    <3>10. ASSUME NEW k \in 1 .. l + 1
           PROVE  /\ g.next[t[k]] = (IF k = l + 1 THEN 0 ELSE t[k + 1])
                  /\ g.prev[t[k]] = (IF k = 1 THEN t[l + 1] ELSE t[k - 1])
      <4>1. CASE k = l + 1
        <5>1. k # 1 /\ k - 1 = l /\ t[k] = x /\ t[l] = last
          BY <1>3, <1>4, <2>2, <3>4, <4>1
        <5>2. QED
          BY <1>2, <3>2, <3>8, <4>1, <5>1
      <4>2. CASE k \in 1 .. l
        <5>1. t[k] = s[k] /\ s[k] \in Nodes /\ k # l + 1 /\ s[k] # x
          BY <1>1, <1>3, <1>4, <1>5, <4>2 DEF l, s
        <5>2. g.next[t[k]] = t[k + 1]
          <6>1. CASE k = l
            BY <1>3, <3>8, <5>1, <6>1 DEF last
          <6>2. CASE k # l
            <7>1. k + 1 \in 1 .. l /\ s[k] # last
              BY <1>4, <3>1, <3>5, <4>2, <6>2 DEF last
            <7>2. QED
              BY <1>3, <1>5, <3>8, <4>2, <5>1, <6>2, <7>1
          <6>3. QED
            BY <6>1, <6>2
        <5>3. g.prev[t[k]] = (IF k = 1 THEN t[l + 1] ELSE t[k - 1])
          <6>1. CASE k = 1
            BY <1>3, <3>1, <3>8, <5>1, <6>1
          <6>2. CASE k # 1
            <7>1. k - 1 \in 1 .. l /\ s[k] # first
              BY <1>4, <3>1, <3>5, <4>2, <6>2
            <7>2. QED
              BY <1>3, <1>5, <3>8, <4>2, <5>1, <6>2, <7>1
          <6>3. QED
            BY <6>1, <6>2
        <5>4. QED
          BY <5>1, <5>2, <5>3
      <4>3. QED
        BY <3>9, <4>1, <4>2
    <3>11. \A n \in Nodes : ~In(t, n) => g.next[n] = h.next[n] /\ g.prev[n] = h.prev[n]
      BY <1>3, <3>4, <3>8
    <3>12. QED
      BY <3>4, <3>6, <3>7, <3>10, <3>11 DEF first
  <2>3. QED
    BY <2>1, <2>2
<1> HIDE DEF g, t, s, first
<1>7. IsList(g.next, g.prev, g.child[a], t)
  <2>1. Len(t) # 0
    BY <1>3, <1>4
  <2>2. QED
    BY <1>3, <1>6, <2>1 DEF IsList, After, Before
<1>8. Containers(g) = Containers(h)
  BY <1>6 DEF SameRest, Containers
<1>9. LET M == [L EXCEPT ![a] = t]
      IN  /\ Represents(g, M)
          /\ \A n \in Nodes : Placed(M, n) <=> (Placed(L, n) /\ ~In(L[a], n)) \/ In(t, n)
  <2>1. \A n \in Nodes : In(t, n) => In(L[a], n) \/ ~Placed(L, n)
    BY <1>3 DEF s
  <2>2. \A n \in Nodes : In(L[a], n) => In(t, n)
    BY <1>3 DEF s
  <2>3. Changed(h, g, L, a, t)
    BY <1>1, <1>3, <1>6, <1>7, <1>8, <2>1, <2>2 DEF s, Changed
  <2>4. QED
    BY <2>3, OneList
<1>10. \A n \in Nodes : In(L[a], n) => Placed(L, n)
  BY <1>1 DEF Placed
<1>11. QED
  BY <1>3, <1>6, <1>9, <1>10 DEF g, t, s, SameChildren

LEMMA DetachIs ==
  ASSUME NEW h \in Heap, NEW L, Represents(h, L), NEW a \in Containers(h), NEW m \in 1 .. Len(L[a])
  PROVE  LET x == L[a][m]
             g == cJSON_DetachItemViaPointer(h, a, x)
             M == [L EXCEPT ![a] = Without(L[a], m)]
         IN  /\ g \in Heap /\ Represents(g, M) /\ SameRest(g, h) /\ SameChildren(g, h, a)
             /\ \A n \in Nodes : Placed(M, n) <=> Placed(L, n) /\ n # x
<1> DEFINE s == L[a]
           l == Len(s)
           x == s[m]
           g == cJSON_DetachItemViaPointer(h, a, x)
           t == Without(s, m)
           before == h.prev[x]
           after == h.next[x]
<1>1. /\ a \in Nodes /\ h.live \subseteq Nodes
      /\ s \in Seq(Nodes) /\ Distinct(s) /\ IsList(h.next, h.prev, h.child[a], s)
      /\ \A k \in 1 .. l : s[k] \in Nodes /\ s[k] # 0 /\ Placed(L, s[k]) /\ In(s, s[k])
  BY ListOf
<1>2. /\ t \in Seq(Nodes) /\ Len(t) = l - 1 /\ Distinct(t)
      /\ \A k \in 1 .. m - 1 : t[k] = s[k]
      /\ \A k \in m .. l - 1 : t[k] = s[k + 1]
      /\ \A n : In(t, n) <=> In(s, n) /\ n # x
  BY <1>1, WithoutIs
<1>3. l \in Nat /\ m \in 1 .. l /\ l \in 1 .. l /\ 1 \in 1 .. l
  BY <1>1
<1>4. h.next \in Link /\ h.prev \in Link /\ h.child \in Link
  BY DEF Heap, Link
<1>5. /\ \A k \in 1 .. l : /\ h.next[s[k]] = IF k = l THEN 0 ELSE s[k + 1]
                           /\ h.prev[s[k]] = IF k = 1 THEN s[l] ELSE s[k - 1]
      /\ h.child[a] = s[1]
  BY <1>1, <1>3 DEF IsList, After, Before
<1>6. \A j, k \in 1 .. l : s[j] = s[k] => j = k
  BY <1>1 DEF Distinct
<1>7. /\ x \in Nodes /\ before \in Nodes /\ (m = l => after = 0) /\ (m # l => after = s[m + 1])
      /\ (m = 1 => before = s[l]) /\ (m # 1 => before = s[m - 1])
      /\ (h.child[a] = x <=> m = 1) /\ (after = 0 <=> m = l) /\ (m # l => after \in Nodes)
      /\ (m # l => m + 1 \in 1 .. l) /\ (m # 1 => m - 1 \in 1 .. l)
  <2>1. (m # l => m + 1 \in 1 .. l) /\ (m # 1 => m - 1 \in 1 .. l)
    BY <1>3
  <2>2. QED
    BY <1>1, <1>3, <1>5, <1>6, <2>1
<1> HIDE DEF g, t, l, x, s, before, after
<1>8. /\ g \in Heap /\ SameRest(g, h)
      /\ \A n \in Nodes : g.next[n] = IF n = x THEN 0 ELSE IF m # 1 /\ n = s[m - 1] THEN after ELSE h.next[n]
      /\ \A n \in Nodes : g.prev[n] = IF n = x THEN 0
                                      ELSE IF (m # l /\ n = s[m + 1]) \/ (m = l /\ m # 1 /\ n = s[1])
                                      THEN before ELSE h.prev[n]
      /\ \A n \in Nodes : g.child[n] = IF n = a /\ m = 1 THEN after ELSE h.child[n]
  <2>1. s[1] \in Nodes /\ x # 0
    BY <1>1, <1>3 DEF x
  <2>2. CASE m = 1 /\ m = l
    <3>1. g = [h EXCEPT !.child[a] = 0, !.prev[x] = 0, !.next[x] = 0]
      BY <1>7, <2>2 DEF g, cJSON_DetachItemViaPointer, after, before
    <3>2. g \in Heap /\ SameRest(g, h)
      BY <1>1, <1>7, <3>1 DEF Heap, SameRest
    <3>3. /\ g.child = [h.child EXCEPT ![a] = 0] /\ g.prev = [h.prev EXCEPT ![x] = 0]
          /\ g.next = [h.next EXCEPT ![x] = 0]
      BY <3>1 DEF Heap
    <3>4. QED
      BY <1>4, <1>7, <2>2, <3>2, <3>3 DEF Link
  <2>3. CASE m = 1 /\ m # l
    <3>1. g = [h EXCEPT !.prev[after] = before, !.child[a] = after, !.prev[x] = 0, !.next[x] = 0]
      BY <1>7, <2>3 DEF g, cJSON_DetachItemViaPointer, after, before
    <3>2. g \in Heap /\ SameRest(g, h)
      BY <1>1, <1>7, <2>3, <3>1 DEF Heap, SameRest
    <3>3. /\ g.child = [h.child EXCEPT ![a] = after]
          /\ g.prev = [[h.prev EXCEPT ![after] = before] EXCEPT ![x] = 0]
          /\ g.next = [h.next EXCEPT ![x] = 0]
      BY <3>1 DEF Heap
    <3>4. QED
      BY <1>4, <1>7, <2>3, <3>2, <3>3 DEF Link
  <2>4. CASE m # 1 /\ m = l
    <3>1. g = [h EXCEPT !.next[before] = 0, !.prev[h.child[a]] = before, !.prev[x] = 0, !.next[x] = 0]
      <4>1. [h EXCEPT !.next[before] = after].child = h.child
        BY DEF Heap
      <4>2. after = 0 /\ h.child[a] # x
        BY <1>7, <2>4
      <4>3. QED
        BY <4>1, <4>2 DEF g, cJSON_DetachItemViaPointer, after, before
    <3>2. g \in Heap /\ SameRest(g, h)
      BY <1>1, <1>7, <2>4, <3>1 DEF Heap, SameRest
    <3>3. /\ g.child = h.child
          /\ g.prev = [[h.prev EXCEPT ![s[1]] = before] EXCEPT ![x] = 0]
          /\ g.next = [[h.next EXCEPT ![before] = 0] EXCEPT ![x] = 0]
      BY <1>5, <3>1 DEF Heap
    <3>4. QED
      BY <1>4, <1>7, <2>1, <2>4, <3>2, <3>3 DEF Link
  <2>5. CASE m # 1 /\ m # l
    <3>1. g = [h EXCEPT !.next[before] = after, !.prev[after] = before, !.prev[x] = 0, !.next[x] = 0]
      BY <1>7, <2>5 DEF g, cJSON_DetachItemViaPointer, after, before
    <3>2. g \in Heap /\ SameRest(g, h)
      BY <1>1, <1>7, <2>5, <3>1 DEF Heap, SameRest
    <3>3. /\ g.child = h.child
          /\ g.prev = [[h.prev EXCEPT ![after] = before] EXCEPT ![x] = 0]
          /\ g.next = [[h.next EXCEPT ![before] = after] EXCEPT ![x] = 0]
      BY <3>1 DEF Heap
    <3>4. QED
      BY <1>4, <1>7, <2>5, <3>2, <3>3 DEF Link
  <2>6. QED
    BY <2>2, <2>3, <2>4, <2>5
<1>9. ASSUME NEW j \in 1 .. l, j # m
      PROVE  /\ g.next[s[j]] = IF j = l \/ (j = m - 1 /\ m = l) THEN 0 ELSE IF j = m - 1 THEN s[m + 1] ELSE s[j + 1]
             /\ g.prev[s[j]] = IF j = m + 1 \/ (m = l /\ j = 1)
                               THEN IF m = 1 THEN s[l] ELSE s[m - 1]
                               ELSE IF j = 1 THEN s[l] ELSE s[j - 1]
  <2>1. s[j] \in Nodes /\ s[j] # x
    BY <1>1, <1>3, <1>6, <1>9 DEF x, s, l
  <2>2. m # 1 => (s[j] = s[m - 1] <=> j = m - 1)
    BY <1>6, <1>7
  <2>3. m # l => (s[j] = s[m + 1] <=> j = m + 1)
    BY <1>6, <1>7
  <2>4. s[j] = s[1] <=> j = 1
    BY <1>3, <1>6
  <2>5. g.next[s[j]] = IF j = l \/ (j = m - 1 /\ m = l) THEN 0 ELSE IF j = m - 1 THEN s[m + 1] ELSE s[j + 1]
    <3>1. h.next[s[j]] = IF j = l THEN 0 ELSE s[j + 1]
      BY <1>5
    <3>2. QED
      BY <1>3, <1>7, <1>8, <2>1, <2>2, <3>1
  <2>6. g.prev[s[j]] = IF j = m + 1 \/ (m = l /\ j = 1)
                       THEN IF m = 1 THEN s[l] ELSE s[m - 1]
                       ELSE IF j = 1 THEN s[l] ELSE s[j - 1]
    <3>1. h.prev[s[j]] = IF j = 1 THEN s[l] ELSE s[j - 1]
      BY <1>5
    <3>2. QED
      BY <1>3, <1>7, <1>8, <1>9, <2>1, <2>3, <2>4, <3>1
  <2>7. QED
    BY <2>5, <2>6
<1>10. IsList(g.next, g.prev, g.child[a], t)
  <2>1. ASSUME NEW k \in 1 .. l - 1
        PROVE  g.next[t[k]] = After(t, k) /\ g.prev[t[k]] = Before(t, k)
    <3>1. /\ (k < m => k \in 1 .. m - 1 /\ k \in 1 .. l /\ t[k] = s[k])
          /\ (~(k < m) => k \in m .. l - 1 /\ k + 1 \in 1 .. l /\ t[k] = s[k + 1])
      BY <1>2, <1>3
    <3>2. After(t, k) = IF k = l - 1 THEN 0 ELSE IF k + 1 < m THEN s[k + 1] ELSE s[k + 2]
      <4>1. k # l - 1 => /\ (k + 1 < m => k + 1 \in 1 .. m - 1)
                         /\ (~(k + 1 < m) => k + 1 \in m .. l - 1 /\ (k + 1) + 1 = k + 2)
        BY <1>3
      <4>2. QED
        BY <1>2, <4>1 DEF After
    <3>3. Before(t, k) = IF k = 1 THEN (IF l - 1 < m THEN s[l - 1] ELSE s[l])
                         ELSE IF k - 1 < m THEN s[k - 1] ELSE s[k]
      <4>1. /\ (l - 1 < m => l - 1 \in 1 .. m - 1) /\ (~(l - 1 < m) => l - 1 \in m .. l - 1 /\ (l - 1) + 1 = l)
            /\ (k # 1 => /\ (k - 1 < m => k - 1 \in 1 .. m - 1)
                         /\ (~(k - 1 < m) => k - 1 \in m .. l - 1 /\ (k - 1) + 1 = k))
        BY <1>3
      <4>2. QED
        BY <1>2, <4>1 DEF Before
    <3>4. CASE k < m
      <4>1. k # m /\ g.next[s[k]] = (IF k = l \/ (k = m - 1 /\ m = l) THEN 0 ELSE IF k = m - 1 THEN s[m + 1] ELSE s[k + 1])
            /\ g.prev[s[k]] = IF k = m + 1 \/ (m = l /\ k = 1)
                               THEN IF m = 1 THEN s[l] ELSE s[m - 1]
                               ELSE IF k = 1 THEN s[l] ELSE s[k - 1]
        BY <1>3, <1>9, <3>1, <3>4
      <4>2. g.next[t[k]] = After(t, k)
        BY <1>3, <3>1, <3>2, <3>4, <4>1
      <4>3. g.prev[t[k]] = Before(t, k)
        BY <1>3, <3>1, <3>3, <3>4, <4>1
      <4>4. QED
        BY <4>2, <4>3
    <3>5. CASE ~(k < m)
      <4> DEFINE j == k + 1
      <4>1. j \in 1 .. l /\ j # m /\ j - 1 = k /\ k \in Int
        BY <1>3, <3>1, <3>5
      <4>2. g.next[s[j]] = (IF j = l \/ (j = m - 1 /\ m = l) THEN 0 ELSE IF j = m - 1 THEN s[m + 1] ELSE s[j + 1])
            /\ g.prev[s[j]] = IF j = m + 1 \/ (m = l /\ j = 1)
                               THEN IF m = 1 THEN s[l] ELSE s[m - 1]
                               ELSE IF j = 1 THEN s[l] ELSE s[j - 1]
        <5> HIDE DEF j
        <5>1. QED
          BY <1>9, <4>1
      <4>3. g.next[t[k]] = After(t, k)
        BY <1>3, <3>1, <3>2, <3>5, <4>2
      <4>4. g.prev[t[k]] = Before(t, k)
        BY <1>3, <3>1, <3>3, <3>5, <4>2
      <4>5. QED
        BY <4>3, <4>4
    <3>6. QED
      BY <3>4, <3>5
  <2>2. g.child[a] = IF l - 1 = 0 THEN 0 ELSE t[1]
    <3>1. CASE m = 1
      <4>1. l - 1 # 0 => m # l /\ 1 \in m .. l - 1
        BY <1>3, <3>1
      <4>2. QED
        BY <1>1, <1>2, <1>3, <1>7, <1>8, <3>1, <4>1
    <3>2. CASE m # 1
      <4>1. l - 1 # 0 /\ 1 \in 1 .. m - 1
        BY <1>3, <3>2
      <4>2. QED
        BY <1>1, <1>2, <1>5, <1>8, <3>2, <4>1
    <3>3. QED
      BY <3>1, <3>2
  <2>3. QED
    BY <1>2, <2>1, <2>2 DEF IsList
<1>11. Changed(h, g, L, a, t)
  <2>1. Containers(g) = Containers(h)
    BY <1>8 DEF SameRest, Containers
  <2>2. ASSUME NEW n \in Nodes, ~In(L[a], n) PROVE g.next[n] = h.next[n] /\ g.prev[n] = h.prev[n]
    <3>1. \A k \in 1 .. l : n # s[k]
      BY <2>2 DEF In, s, l
    <3>2. n # x /\ (m # 1 => n # s[m - 1]) /\ (m # l => n # s[m + 1]) /\ n # s[1]
      BY <1>3, <1>7, <3>1 DEF x
    <3>3. QED
      BY <1>8, <3>2
  <2>3. \A n \in Nodes : In(t, n) => In(L[a], n)
    BY <1>2 DEF s
  <2>4. \A n \in Nodes : In(L[a], n) /\ ~In(t, n) => n = x
    BY <1>2 DEF s
  <2>5. \A b \in Nodes : b # a => g.child[b] = h.child[b]
    BY <1>8
  <2>6. g.next[x] = 0 /\ g.prev[x] = 0
    BY <1>7, <1>8
  <2>7. QED
    BY <1>1, <1>2, <1>10, <2>1, <2>2, <2>3, <2>4, <2>5, <2>6 DEF Changed
<1>12. LET M == [L EXCEPT ![a] = t]
       IN  /\ Represents(g, M)
           /\ \A n \in Nodes : Placed(M, n) <=> (Placed(L, n) /\ ~In(L[a], n)) \/ In(t, n)
  BY <1>11, OneList
<1>13. \A n \in Nodes : (Placed(L, n) /\ ~In(L[a], n)) \/ In(t, n) <=> Placed(L, n) /\ n # x
  <2>1. In(L[a], x) /\ \A n \in Nodes : In(L[a], n) => Placed(L, n)
    BY <1>1, <1>3 DEF Placed, x, s, l
  <2>2. QED
    BY <1>2, <2>1 DEF s
<1>14. QED
  BY <1>8, <1>12, <1>13 DEF g, t, x, s, SameChildren

LEMMA InsertIs ==
  ASSUME NEW h \in Heap, NEW L, Represents(h, L), NEW a \in Containers(h), NEW m \in 1 .. Len(L[a]),
         NEW x \in Nodes, ~Placed(L, x)
  PROVE  LET g == Inserted(h, a, L[a][m], x)
             M == [L EXCEPT ![a] = With(L[a], m, x)]
         IN  /\ g \in Heap /\ Represents(g, M) /\ SameRest(g, h) /\ SameChildren(g, h, a)
             /\ \A n \in Nodes : Placed(M, n) <=> Placed(L, n) \/ n = x
<1> DEFINE s == L[a]
           l == Len(s)
           after == s[m]
           g == Inserted(h, a, after, x)
           t == With(s, m, x)
           before == h.prev[after]
<1>1. /\ a \in Nodes /\ h.live \subseteq Nodes
      /\ s \in Seq(Nodes) /\ Distinct(s) /\ IsList(h.next, h.prev, h.child[a], s)
      /\ \A k \in 1 .. l : s[k] \in Nodes /\ s[k] # 0 /\ Placed(L, s[k]) /\ In(s, s[k])
  BY ListOf
<1>2. ~In(s, x)
  BY <1>1 DEF Placed
<1>3. /\ t \in Seq(Nodes) /\ Len(t) = l + 1 /\ Distinct(t)
      /\ \A k \in 1 .. m - 1 : t[k] = s[k]
      /\ t[m] = x
      /\ \A k \in m .. l : t[k + 1] = s[k]
      /\ \A n : In(t, n) <=> In(s, n) \/ n = x
  BY <1>1, <1>2, WithIs
<1>4. l \in Nat /\ m \in 1 .. l /\ l \in 1 .. l /\ 1 \in 1 .. l
  BY <1>1
<1>5. h.next \in Link /\ h.prev \in Link /\ h.child \in Link
  BY DEF Heap, Link
<1>6. /\ \A k \in 1 .. l : /\ h.next[s[k]] = IF k = l THEN 0 ELSE s[k + 1]
                           /\ h.prev[s[k]] = IF k = 1 THEN s[l] ELSE s[k - 1]
                           /\ s[k] # x
      /\ h.child[a] = s[1]
  BY <1>1, <1>2, <1>4 DEF IsList, After, Before
<1>7. \A j, k \in 1 .. l : s[j] = s[k] => j = k
  BY <1>1 DEF Distinct
<1>8. /\ after \in Nodes /\ before \in Nodes /\ after # x /\ before # x
      /\ (m = 1 => before = s[l]) /\ (m # 1 => before = s[m - 1] /\ m - 1 \in 1 .. l)
      /\ (after = h.child[a] <=> m = 1)
  <2>1. m # 1 => m - 1 \in 1 .. l
    BY <1>4
  <2>2. QED
    BY <1>1, <1>4, <1>6, <1>7, <2>1
<1> HIDE DEF g, t, l, s, before, after
<1>9. /\ g \in Heap /\ SameRest(g, h)
      /\ \A n \in Nodes : g.next[n] = IF m # 1 /\ n = s[m - 1] THEN x ELSE IF n = x THEN after ELSE h.next[n]
      /\ \A n \in Nodes : g.prev[n] = IF n = after THEN x ELSE IF n = x THEN before ELSE h.prev[n]
      /\ \A n \in Nodes : g.child[n] = IF n = a /\ m = 1 THEN x ELSE h.child[n]
  <2>1. CASE m = 1
    <3>1. g = [h EXCEPT !.next[x] = after, !.prev[x] = before, !.prev[after] = x, !.child[a] = x]
      BY <1>8, <2>1 DEF g, Inserted, before
    <3>2. g \in Heap /\ SameRest(g, h)
      BY <1>1, <1>8, <3>1 DEF Heap, SameRest
    <3>3. /\ g.child = [h.child EXCEPT ![a] = x]
          /\ g.prev = [[h.prev EXCEPT ![x] = before] EXCEPT ![after] = x]
          /\ g.next = [h.next EXCEPT ![x] = after]
      BY <3>1 DEF Heap
    <3>4. QED
      BY <1>5, <1>8, <2>1, <3>2, <3>3 DEF Link
  <2>2. CASE m # 1
    <3>1. g = [h EXCEPT !.next[x] = after, !.prev[x] = before, !.prev[after] = x, !.next[before] = x]
      BY <1>8, <2>2 DEF g, Inserted, before
    <3>2. g \in Heap /\ SameRest(g, h)
      BY <1>1, <1>8, <3>1 DEF Heap, SameRest
    <3>3. /\ g.child = h.child
          /\ g.prev = [[h.prev EXCEPT ![x] = before] EXCEPT ![after] = x]
          /\ g.next = [[h.next EXCEPT ![x] = after] EXCEPT ![before] = x]
      BY <3>1 DEF Heap
    <3>4. QED
      BY <1>5, <1>8, <2>2, <3>2, <3>3 DEF Link
  <2>3. QED
    BY <2>1, <2>2
<1>10. ASSUME NEW j \in 1 .. l
       PROVE  /\ g.next[s[j]] = IF j = m - 1 THEN x ELSE IF j = l THEN 0 ELSE s[j + 1]
              /\ g.prev[s[j]] = IF j = m THEN x ELSE IF j = 1 THEN s[l] ELSE s[j - 1]
  <2>1. s[j] \in Nodes /\ s[j] # x
    BY <1>1, <1>6 DEF s, l
  <2>2. m # 1 => (s[j] = s[m - 1] <=> j = m - 1)
    BY <1>7, <1>8
  <2>3. s[j] = after <=> j = m
    BY <1>4, <1>7 DEF after
  <2>4. j = m - 1 => m # 1
    BY <1>4
  <2>5. QED
    BY <1>6, <1>9, <2>1, <2>2, <2>3, <2>4
<1>11. IsList(g.next, g.prev, g.child[a], t)
  <2>1. ASSUME NEW k \in 1 .. l + 1
        PROVE  g.next[t[k]] = After(t, k) /\ g.prev[t[k]] = Before(t, k)
    <3>1. After(t, k) = IF k = l + 1 THEN 0
                        ELSE IF k + 1 < m THEN s[k + 1] ELSE IF k + 1 = m THEN x ELSE s[k]
      <4>1. k # l + 1 => /\ (k + 1 < m => k + 1 \in 1 .. m - 1)
                         /\ (k + 1 # m /\ ~(k + 1 < m) => k \in m .. l)
        BY <1>4
      <4>2. QED
        BY <1>3, <4>1 DEF After
    <3>2. Before(t, k) = IF k = 1 THEN s[l]
                         ELSE IF k - 1 < m THEN s[k - 1] ELSE IF k - 1 = m THEN x ELSE s[k - 2]
      <4>1. /\ l \in m .. l
            /\ (k # 1 => /\ (k - 1 < m => k - 1 \in 1 .. m - 1)
                         /\ (k - 1 # m /\ ~(k - 1 < m) => k - 2 \in m .. l /\ (k - 2) + 1 = k - 1))
        BY <1>4
      <4>2. QED
        BY <1>3, <4>1 DEF Before
    <3>3. CASE k < m
      <4>1. k \in 1 .. m - 1 /\ k \in 1 .. l /\ k # m
        BY <1>4, <3>3
      <4>2. /\ t[k] = s[k]
            /\ g.next[s[k]] = IF k = m - 1 THEN x ELSE IF k = l THEN 0 ELSE s[k + 1]
            /\ g.prev[s[k]] = IF k = 1 THEN s[l] ELSE s[k - 1]
        BY <1>3, <1>10, <4>1
      <4>3. QED
        BY <1>4, <3>1, <3>2, <3>3, <4>1, <4>2
    <3>4. CASE k = m
      <4>1. t[k] = x /\ g.next[x] = s[m] /\ g.prev[x] = before
        <5>1. m # 1 => s[m - 1] # x
          BY <1>6, <1>8
        <5>2. QED
          BY <1>3, <1>8, <1>9, <3>4, <5>1 DEF after
      <4>2. QED
        BY <1>4, <1>8, <3>1, <3>2, <3>4, <4>1
    <3>5. CASE m < k
      <4> DEFINE j == k - 1
      <4>1. j \in m .. l /\ j \in 1 .. l /\ j + 1 = k /\ j # m - 1 /\ j \in Int
        BY <1>4, <3>5
      <4>2. /\ t[k] = s[j]
            /\ g.next[s[j]] = (IF j = l THEN 0 ELSE s[j + 1])
            /\ g.prev[s[j]] = IF j = m THEN x ELSE IF j = 1 THEN s[l] ELSE s[j - 1]
        <5> HIDE DEF j
        <5>1. QED
          BY <1>3, <1>10, <4>1
      <4>3. QED
        BY <1>4, <3>1, <3>2, <3>5, <4>2
    <3>6. QED
      BY <1>4, <3>3, <3>4, <3>5
  <2>2. g.child[a] = t[1]
    <3>1. m # 1 => 1 \in 1 .. m - 1
      BY <1>4
    <3>2. QED
      BY <1>1, <1>3, <1>6, <1>9, <3>1
  <2>3. Len(t) # 0
    BY <1>3, <1>4
  <2>4. QED
    BY <1>3, <2>1, <2>2, <2>3 DEF IsList
<1>12. Changed(h, g, L, a, t)
  <2>1. Containers(g) = Containers(h)
    BY <1>9 DEF SameRest, Containers
  <2>2. ASSUME NEW n \in Nodes, ~In(L[a], n), ~In(t, n)
        PROVE  g.next[n] = h.next[n] /\ g.prev[n] = h.prev[n]
    <3>1. (\A k \in 1 .. l : n # s[k]) /\ n # x
      BY <1>3, <2>2 DEF In, s, l
    <3>2. (m # 1 => n # s[m - 1]) /\ n # after
      BY <1>4, <1>8, <3>1 DEF after
    <3>3. QED
      BY <1>9, <3>1, <3>2
  <2>3. \A n \in Nodes : In(t, n) => In(L[a], n) \/ ~Placed(L, n)
    BY <1>3 DEF s
  <2>4. \A n \in Nodes : In(L[a], n) => In(t, n)
    BY <1>3 DEF s
  <2>5. \A b \in Nodes : b # a => g.child[b] = h.child[b]
    BY <1>9
  <2>6. QED
    BY <1>1, <1>3, <1>11, <2>1, <2>2, <2>3, <2>4, <2>5 DEF Changed
<1>13. LET M == [L EXCEPT ![a] = t]
       IN  /\ Represents(g, M)
           /\ \A n \in Nodes : Placed(M, n) <=> (Placed(L, n) /\ ~In(L[a], n)) \/ In(t, n)
  BY <1>12, OneList
<1>14. \A n \in Nodes : (Placed(L, n) /\ ~In(L[a], n)) \/ In(t, n) <=> Placed(L, n) \/ n = x
  <2>1. \A n \in Nodes : In(L[a], n) => Placed(L, n)
    BY <1>1 DEF Placed
  <2>2. QED
    BY <1>3, <2>1 DEF s
<1>15. QED
  BY <1>9, <1>13, <1>14 DEF g, t, s, after, SameChildren

LEMMA ReplacedIs ==
  ASSUME NEW h \in Heap, NEW L, Represents(h, L), NEW a \in Containers(h), NEW m \in 1 .. Len(L[a]),
         NEW x \in Nodes, ~Placed(L, x)
  PROVE  LET item == L[a][m]
             g == Replaced(h, a, item, x)
             M == [L EXCEPT ![a] = Instead(L[a], m, x)]
         IN  /\ g \in Heap /\ Represents(g, M) /\ SameRest(g, h) /\ SameChildren(g, h, a)
             /\ \A n \in Nodes : Placed(M, n) <=> (Placed(L, n) /\ n # item) \/ n = x
<1> DEFINE s == L[a]
           l == Len(s)
           item == s[m]
           g == Replaced(h, a, item, x)
           t == Instead(s, m, x)
           before == h.prev[item]
           after == h.next[item]
<1>1. /\ a \in Nodes /\ h.live \subseteq Nodes
      /\ s \in Seq(Nodes) /\ Distinct(s) /\ IsList(h.next, h.prev, h.child[a], s)
      /\ \A k \in 1 .. l : s[k] \in Nodes /\ s[k] # 0 /\ Placed(L, s[k]) /\ In(s, s[k])
  BY ListOf
<1>2. ~In(s, x)
  BY <1>1 DEF Placed
<1>3. /\ t \in Seq(Nodes) /\ Len(t) = l /\ Distinct(t)
      /\ \A k \in 1 .. l : k # m => t[k] = s[k]
      /\ t[m] = x
      /\ \A n : In(t, n) <=> (In(s, n) /\ n # item) \/ n = x
  <2> HIDE DEF g, before, after, s
  <2>1. m \in 1 .. Len(s)
    BY DEF s
  <2>2. s \in Seq(Nodes) /\ Distinct(s) /\ ~In(s, x)
    BY <1>1, <1>2
  <2>3. QED
    BY <2>1, <2>2, InsteadIs
<1>4. l \in Nat /\ m \in 1 .. l /\ l \in 1 .. l /\ 1 \in 1 .. l
  BY <1>1
<1>5. h.next \in Link /\ h.prev \in Link /\ h.child \in Link
  BY DEF Heap, Link
<1>6. /\ \A k \in 1 .. l : /\ h.next[s[k]] = IF k = l THEN 0 ELSE s[k + 1]
                           /\ h.prev[s[k]] = IF k = 1 THEN s[l] ELSE s[k - 1]
                           /\ s[k] # x
      /\ h.child[a] = s[1]
  BY <1>1, <1>2, <1>4 DEF IsList, After, Before
<1>7. \A j, k \in 1 .. l : s[j] = s[k] => j = k
  BY <1>1 DEF Distinct
<1>8. /\ item \in Nodes /\ before \in Nodes /\ item # x /\ before # x /\ after # x
      /\ (m = l => after = 0) /\ (m # l => after = s[m + 1] /\ after \in Nodes /\ after # item)
      /\ (m = 1 => before = s[l]) /\ (m # 1 => before = s[m - 1] /\ before # item)
      /\ (h.child[a] = item <=> m = 1) /\ (after = 0 <=> m = l) /\ (before = item <=> l = 1)
      /\ (m # l => m + 1 \in 1 .. l) /\ (m # 1 => m - 1 \in 1 .. l)
  <2>1. (m # l => m + 1 \in 1 .. l) /\ (m # 1 => m - 1 \in 1 .. l)
    BY <1>4
  <2>2. x # 0 /\ after = (IF m = l THEN 0 ELSE s[m + 1]) /\ before = IF m = 1 THEN s[l] ELSE s[m - 1]
    BY <1>4, <1>6, NodesAssumption
  <2>3. /\ item \in Nodes /\ before \in Nodes /\ item # x /\ before # x /\ after # x
        /\ (m = l => after = 0) /\ (m # l => after = s[m + 1] /\ after \in Nodes /\ after # item)
        /\ (after = 0 <=> m = l)
    <3>1. item \in Nodes /\ item # x /\ (m # l => s[m + 1] \in Nodes /\ s[m + 1] # x /\ s[m + 1] # 0)
      BY <1>1, <1>4, <1>6, <2>1
    <3>2. m # l => s[m + 1] # item
      BY <1>4, <1>7, <2>1
    <3>3. before \in Nodes /\ before # x
      BY <1>1, <1>4, <1>6, <2>1, <2>2
    <3> HIDE DEF before, after, item
    <3>4. QED
      BY <2>2, <3>1, <3>2, <3>3
  <2>4. (m = 1 => before = s[l]) /\ (m # 1 => before = s[m - 1] /\ before # item)
    BY <1>4, <1>7, <2>1, <2>2
  <2>5. (h.child[a] = item <=> m = 1) /\ (before = item <=> l = 1)
    <3>1. h.child[a] = item <=> m = 1
      BY <1>4, <1>6, <1>7
    <3>2. before = item <=> (IF m = 1 THEN l = m ELSE m - 1 = m)
      BY <1>4, <1>7, <2>1, <2>2
    <3>3. (IF m = 1 THEN l = m ELSE m - 1 = m) <=> l = 1
      <4> HIDE DEF l
      <4>1. QED
        BY <1>4
    <3> HIDE DEF l, before, item
    <3>4. QED
      BY <3>1, <3>2, <3>3
  <2>6. QED
    BY <2>1, <2>3, <2>4, <2>5
<1> HIDE DEF g, t, l, s, item, before, after
<1>9. /\ g \in Heap /\ SameRest(g, h)
      /\ \A n \in Nodes : g.next[n] = IF n = item THEN 0 ELSE IF m # 1 /\ n = s[m - 1] THEN x
                                      ELSE IF n = x THEN after ELSE h.next[n]
      /\ \A n \in Nodes : g.prev[n] = IF n = item THEN 0
                                      ELSE IF (m # l /\ n = s[m + 1]) \/ (m = l /\ m # 1 /\ n = s[1]) THEN x
                                      ELSE IF n = x THEN (IF l = 1 THEN x ELSE before) ELSE h.prev[n]
      /\ \A n \in Nodes : g.child[n] = IF n = a /\ m = 1 THEN x ELSE h.child[n]
  <2>1. s[1] \in Nodes /\ s[1] # x
    BY <1>1, <1>4, <1>6 DEF s, l
  <2> DEFINE h1 == [h EXCEPT !.next[x] = after, !.prev[x] = before]
  <2>2. h1 \in Heap /\ h1.child = h.child /\ h1.prev = [h.prev EXCEPT ![x] = before]
        /\ h1.next = [h.next EXCEPT ![x] = after] /\ SameRest(h1, h)
    <3>1. after \in Nodes \cup {0}
      BY <1>8
    <3>2. QED
      BY <1>8, <3>1 DEF Heap, SameRest
  <2>3. CASE m = 1 /\ m = l
    <3> DEFINE h3 == [h1 EXCEPT !.child[a] = x, !.prev[x] = x]
    <3>1. h1.prev[item] = item /\ l = 1
      BY <1>5, <1>8, <2>2, <2>3 DEF Link, before
    <3>2. g = [h3 EXCEPT !.next[item] = 0, !.prev[item] = 0]
      BY <1>8, <2>3, <3>1 DEF g, Replaced, before, after
    <3> HIDE DEF h1
    <3>3. h3 \in Heap /\ SameRest(h3, h) /\ h3.next = h1.next /\ h3.prev = [h1.prev EXCEPT ![x] = x]
          /\ h3.child = [h1.child EXCEPT ![a] = x]
      BY <1>1, <2>2 DEF Heap, SameRest
    <3> HIDE DEF h3
    <3>4. g \in Heap /\ SameRest(g, h) /\ g.next = [h3.next EXCEPT ![item] = 0]
          /\ g.prev = [h3.prev EXCEPT ![item] = 0] /\ g.child = h3.child
      BY <1>8, <3>2, <3>3 DEF Heap, SameRest
    <3>5. QED
      BY <1>5, <1>8, <2>2, <2>3, <3>1, <3>3, <3>4 DEF Link
  <2>4. CASE m = 1 /\ m # l
    <3> DEFINE h2 == [h1 EXCEPT !.prev[after] = x]
               h3 == [h2 EXCEPT !.child[a] = x]
    <3>1. h2 \in Heap /\ SameRest(h2, h) /\ h2.next = h1.next /\ h2.child = h1.child
          /\ h2.prev = [h1.prev EXCEPT ![after] = x]
      BY <1>8, <2>2, <2>4 DEF Heap, SameRest
    <3>2. l # 1 /\ h2.prev[item] # item
      BY <1>5, <1>8, <2>2, <2>4, <3>1 DEF Link, before
    <3>3. g = [[h2 EXCEPT !.child[a] = x, !.prev[x] = @] EXCEPT !.next[item] = 0, !.prev[item] = 0]
      BY <1>8, <2>4, <3>2 DEF g, Replaced, before, after
    <3> HIDE DEF h2, h1
    <3>4. [h2 EXCEPT !.child[a] = x, !.prev[x] = @] = h3
      BY <3>1 DEF Heap
    <3>5. h3 \in Heap /\ SameRest(h3, h) /\ h3.next = h2.next /\ h3.prev = h2.prev
          /\ h3.child = [h2.child EXCEPT ![a] = x]
      BY <1>1, <3>1 DEF Heap, SameRest
    <3> HIDE DEF h3
    <3>6. g \in Heap /\ SameRest(g, h) /\ g.next = [h3.next EXCEPT ![item] = 0]
          /\ g.prev = [h3.prev EXCEPT ![item] = 0] /\ g.child = h3.child
      BY <1>8, <3>3, <3>4, <3>5 DEF Heap, SameRest
    <3>7. QED
      BY <1>5, <1>8, <2>2, <2>4, <3>1, <3>2, <3>5, <3>6 DEF Link
  <2>5. CASE m # 1 /\ m = l
    <3> DEFINE h4 == [h1 EXCEPT !.next[before] = x]
               h3 == [h4 EXCEPT !.prev[s[1]] = x]
    <3>1. h4 \in Heap /\ SameRest(h4, h) /\ h4.prev = h1.prev /\ h4.child = h1.child
          /\ h4.next = [h1.next EXCEPT ![before] = x]
      BY <1>8, <2>2 DEF Heap, SameRest
    <3>2. h4.child[a] = s[1] /\ l # 1
      BY <1>6, <1>8, <2>2, <2>5, <3>1
    <3>3. g = [h3 EXCEPT !.next[item] = 0, !.prev[item] = 0]
      BY <1>8, <2>5, <3>2 DEF g, Replaced, before, after
    <3> HIDE DEF h4, h1
    <3>4. h3 \in Heap /\ SameRest(h3, h) /\ h3.next = h4.next /\ h3.child = h4.child
          /\ h3.prev = [h4.prev EXCEPT ![s[1]] = x]
      BY <2>1, <3>1 DEF Heap, SameRest
    <3> HIDE DEF h3
    <3>5. g \in Heap /\ SameRest(g, h) /\ g.next = [h3.next EXCEPT ![item] = 0]
          /\ g.prev = [h3.prev EXCEPT ![item] = 0] /\ g.child = h3.child
      BY <1>8, <3>3, <3>4 DEF Heap, SameRest
    <3>6. QED
      BY <1>5, <1>8, <2>1, <2>2, <2>5, <3>1, <3>2, <3>4, <3>5 DEF Link
  <2>6. CASE m # 1 /\ m # l
    <3> DEFINE h2 == [h1 EXCEPT !.prev[after] = x]
               h3 == [h2 EXCEPT !.next[before] = x]
    <3>1. h2 \in Heap /\ SameRest(h2, h) /\ h2.next = h1.next /\ h2.child = h1.child
          /\ h2.prev = [h1.prev EXCEPT ![after] = x]
      BY <1>8, <2>2, <2>6 DEF Heap, SameRest
    <3>2. l # 1
      BY <1>4, <2>6
    <3>3. g = [h3 EXCEPT !.next[item] = 0, !.prev[item] = 0]
      BY <1>8, <2>6, <3>2 DEF g, Replaced, before, after
    <3> HIDE DEF h2, h1
    <3>4. h3 \in Heap /\ SameRest(h3, h) /\ h3.prev = h2.prev /\ h3.child = h2.child
          /\ h3.next = [h2.next EXCEPT ![before] = x]
      BY <1>8, <3>1 DEF Heap, SameRest
    <3> HIDE DEF h3
    <3>5. g \in Heap /\ SameRest(g, h) /\ g.next = [h3.next EXCEPT ![item] = 0]
          /\ g.prev = [h3.prev EXCEPT ![item] = 0] /\ g.child = h3.child
      BY <1>8, <3>3, <3>4 DEF Heap, SameRest
    <3>6. QED
      BY <1>5, <1>8, <2>2, <2>6, <3>1, <3>2, <3>4, <3>5 DEF Link
  <2>7. QED
    BY <2>3, <2>4, <2>5, <2>6
<1>10. ASSUME NEW j \in 1 .. l, j # m
       PROVE  /\ g.next[s[j]] = IF j = m - 1 THEN x ELSE IF j = l THEN 0 ELSE s[j + 1]
              /\ g.prev[s[j]] = IF j = m + 1 \/ (m = l /\ j = 1) THEN x ELSE IF j = 1 THEN s[l] ELSE s[j - 1]
  <2>1. s[j] \in Nodes /\ s[j] # x /\ s[j] # item
    BY <1>1, <1>4, <1>6, <1>7, <1>10 DEF s, l, item
  <2>2. m # 1 => (s[j] = s[m - 1] <=> j = m - 1)
    BY <1>7, <1>8
  <2>3. m # l => (s[j] = s[m + 1] <=> j = m + 1)
    BY <1>7, <1>8
  <2>4. (s[j] = s[1] <=> j = 1) /\ (j = m - 1 => m # 1) /\ (j = m + 1 => m # l)
    BY <1>4, <1>7
  <2>5. (m = l /\ j = 1) => m # 1
    BY <1>4, <1>10
  <2>6. g.next[s[j]] = IF j = m - 1 THEN x ELSE IF j = l THEN 0 ELSE s[j + 1]
    BY <1>6, <1>9, <2>1, <2>2, <2>4
  <2>7. g.prev[s[j]] = IF j = m + 1 \/ (m = l /\ j = 1) THEN x ELSE IF j = 1 THEN s[l] ELSE s[j - 1]
    BY <1>6, <1>9, <2>1, <2>3, <2>4, <2>5
  <2>8. QED
    BY <2>6, <2>7
<1>11. g.next[x] = (IF m = l THEN 0 ELSE s[m + 1]) /\ g.prev[x] = IF l = 1 THEN x ELSE IF m = 1 THEN s[l] ELSE s[m - 1]
  <2>1. (m # 1 => s[m - 1] # x) /\ (m # l => s[m + 1] # x) /\ s[1] # x
    BY <1>4, <1>6, <1>8
  <2>2. QED
    BY <1>8, <1>9, <2>1
<1>12. IsList(g.next, g.prev, g.child[a], t)
  <2>1. ASSUME NEW k \in 1 .. l
        PROVE  g.next[t[k]] = After(t, k) /\ g.prev[t[k]] = Before(t, k)
    <3>1. After(t, k) = IF k = l THEN 0 ELSE IF k + 1 = m THEN x ELSE s[k + 1]
      <4>1. k # l => k + 1 \in 1 .. l
        BY <1>4
      <4>2. QED
        BY <1>3, <4>1 DEF After
    <3>2. Before(t, k) = IF k = 1 THEN (IF l = m THEN x ELSE s[l])
                         ELSE IF k - 1 = m THEN x ELSE s[k - 1]
      <4>1. k # 1 => k - 1 \in 1 .. l
        BY <1>4
      <4>2. QED
        BY <1>3, <1>4, <4>1 DEF Before
    <3>3. CASE k # m
      <4>1. t[k] = s[k]
        BY <1>3, <3>3
      <4>2. k = m - 1 => k # l /\ k + 1 = m
        BY <1>4
      <4>3. k = m + 1 => k # 1 /\ k - 1 = m
        BY <1>4
      <4>4. g.next[t[k]] = After(t, k)
        BY <1>4, <1>10, <3>1, <3>3, <4>1, <4>2
      <4>5. g.prev[t[k]] = Before(t, k)
        BY <1>4, <1>10, <3>2, <3>3, <4>1, <4>3
      <4>6. QED
        BY <4>4, <4>5
    <3>4. CASE k = m
      <4>1. t[k] = x
        BY <1>3, <3>4
      <4>2. QED
        BY <1>4, <1>11, <3>1, <3>2, <3>4, <4>1
    <3>5. QED
      BY <3>3, <3>4
  <2>2. g.child[a] = t[1]
    BY <1>1, <1>3, <1>4, <1>6, <1>9
  <2>3. Len(t) # 0
    BY <1>3, <1>4
  <2>4. QED
    BY <1>3, <2>1, <2>2, <2>3 DEF IsList
<1>13. Changed(h, g, L, a, t)
  <2>1. Containers(g) = Containers(h)
    BY <1>9 DEF SameRest, Containers
  <2>2. ASSUME NEW n \in Nodes, ~In(L[a], n), ~In(t, n)
        PROVE  g.next[n] = h.next[n] /\ g.prev[n] = h.prev[n]
    <3>1. (\A k \in 1 .. l : n # s[k]) /\ n # x
      BY <1>3, <2>2 DEF In, s, l
    <3>2. n # item /\ (m # 1 => n # s[m - 1]) /\ (m # l => n # s[m + 1]) /\ n # s[1]
      BY <1>4, <1>8, <3>1 DEF item
    <3>3. QED
      BY <1>9, <3>1, <3>2
  <2>3. \A n \in Nodes : In(t, n) => In(L[a], n) \/ ~Placed(L, n)
    BY <1>3 DEF s
  <2>4. \A n \in Nodes : In(L[a], n) /\ ~In(t, n) => n = item
    BY <1>3 DEF s
  <2>5. \A b \in Nodes : b # a => g.child[b] = h.child[b]
    BY <1>9
  <2>6. g.next[item] = 0 /\ g.prev[item] = 0
    BY <1>8, <1>9
  <2>7. QED
    BY <1>1, <1>3, <1>12, <2>1, <2>2, <2>3, <2>4, <2>5, <2>6 DEF Changed
<1>14. LET M == [L EXCEPT ![a] = t]
       IN  /\ Represents(g, M)
           /\ \A n \in Nodes : Placed(M, n) <=> (Placed(L, n) /\ ~In(L[a], n)) \/ In(t, n)
  BY <1>13, OneList
<1>15. \A n \in Nodes : (Placed(L, n) /\ ~In(L[a], n)) \/ In(t, n) <=> (Placed(L, n) /\ n # item) \/ n = x
  <2>1. In(L[a], item) /\ \A n \in Nodes : In(L[a], n) => Placed(L, n)
    BY <1>1, <1>4 DEF Placed, item, s, l
  <2>2. QED
    BY <1>3, <2>1 DEF s
<1>16. QED
  BY <1>9, <1>14, <1>15 DEF g, t, s, item, SameChildren

-----------------------------------------------------------------------------
(* What is found along the links.                                            *)

N == Cardinality(Nodes)

LEMMA Sizes == N \in Nat /\ IsFiniteSet(Nodes)
BY NodesAssumption, FS_CardinalityType DEF N

\* A list without repetition is not longer than there are items.
LEMMA NotTooLong ==
  ASSUME NEW s \in Seq(Nodes), Distinct(s)
  PROVE  Len(s) \in 0 .. N
<1>1. s \in [1 .. Len(s) -> Nodes] /\ Len(s) \in Nat
  OBVIOUS
<1>2. s \in Injection(1 .. Len(s), Nodes)
  BY <1>1 DEF Injection, IsInjective, Distinct
<1>3. Cardinality(1 .. Len(s)) <= Cardinality(Nodes)
  BY <1>2, Sizes, FS_Injection
<1>4. Cardinality(1 .. Len(s)) = Len(s)
  <2>1. 1 \in Int /\ Len(s) \in Int
    BY <1>1
  <2>2. Cardinality(1 .. Len(s)) = IF 1 > Len(s) THEN 0 ELSE Len(s) - 1 + 1
    BY <2>1, FS_Interval
  <2>3. QED
    BY <1>1, <2>2
<1>5. QED
  BY <1>1, <1>3, <1>4, Sizes DEF N

\* Chain is what its recursion says.
Follows(h, f) ==
  /\ f[0] = [n \in Nodes \cup {0} |-> << >>]
  /\ \A k \in 0 .. N : f[k + 1] = Onward(h, f[k])

LEMMA ChainIs ==
  ASSUME NEW h \in Heap
  PROVE  \E f \in [0 .. N + 1 -> [Nodes \cup {0} -> Seq(Nodes)]] :
           Follows(h, f) /\ \A first : Chain(h, first) = f[N + 1][first]
<1> DEFINE V == [Nodes \cup {0} -> Seq(Nodes)]
           v == [n \in Nodes \cup {0} |-> << >>]
           m == N + 1
           G == [p \in V \X (1 .. m) |-> Onward(h, p[1])]
           from == CHOOSE f : f = [k \in 0 .. m |-> IF k = 0 THEN v ELSE Onward(h, f[k - 1])]
<1>1. m \in Nat /\ v \in V
  BY Sizes
<1>2. \A p \in V : Onward(h, p) \in V
  <2>1. SUFFICES ASSUME NEW p \in V, NEW n \in Nodes, TRUE PROVE <<n>> \o p[h.next[n]] \in Seq(Nodes)
    BY DEF Onward
  <2>2. h.next[n] \in Nodes \cup {0} /\ <<n>> \in Seq(Nodes)
    BY DEF Heap
  <2>3. QED
    BY <2>2
<1>3. G \in [V \X (1 .. m) -> V]
  <2> HIDE DEF V
  <2>1. QED
    BY <1>2
<1> HIDE DEF V, v, m
<1>4. PICK f \in [0 .. m -> V] : Recursive(f, v, G, m)
  <2> HIDE DEF G
  <2>1. QED
    BY <1>1, <1>3, Recursion
<1>5. f = [k \in 0 .. m |-> IF k = 0 THEN v ELSE Onward(h, f[k - 1])]
  <2>1. \A k \in 1 .. m : f[k - 1] \in V /\ G[<<f[k - 1], k>>] = Onward(h, f[k - 1])
    BY <1>1, <1>4
  <2>2. f = [k \in 0 .. m |-> IF k = 0 THEN v ELSE G[<<f[k - 1], k>>]]
    BY <1>4 DEF Recursive
  <2>3. \A k \in 0 .. m : k # 0 => k \in 1 .. m
    BY <1>1
  <2> HIDE DEF G
  <2>4. QED
    BY <2>1, <2>2, <2>3
<1>6. from = [k \in 0 .. m |-> IF k = 0 THEN v ELSE Onward(h, from[k - 1])]
  BY <1>5
<1>7. from \in [0 .. m -> V]
  <2>1. 0 \in {k \in 0 .. m : from[k] \in V}
    <3>1. 0 \in 0 .. m
      BY <1>1
    <3> HIDE DEF from
    <3>2. QED
      BY <1>1, <1>6, <3>1
  <2>2. ASSUME NEW k \in 0 .. m - 1, from[k] \in V PROVE from[k + 1] \in V
    <3>1. k + 1 \in 0 .. m /\ k + 1 # 0 /\ (k + 1) - 1 = k
      BY <1>1
    <3> HIDE DEF from
    <3>2. QED
      BY <1>2, <1>6, <2>2, <3>1
  <2> DEFINE T == {k \in 0 .. m : from[k] \in V}
  <2>3. \A k \in 0 .. m - 1 : k \in T => k + 1 \in T
    BY <1>1, <2>2
  <2>4. 0 \in T
    BY <2>1
  <2> HIDE DEF T
  <2>5. \A k \in 0 .. m : k \in T
    BY <1>1, <2>3, <2>4, Inductively
  <2> HIDE DEF from
  <2>6. QED
    BY <1>6, <2>5 DEF T
<1>8. Follows(h, from)
  <2>1. 0 \in 0 .. m /\ \A k \in 0 .. N : k + 1 \in 0 .. m /\ k + 1 # 0 /\ (k + 1) - 1 = k
    BY Sizes DEF m
  <2> HIDE DEF from
  <2>2. QED
    BY <1>6, <2>1 DEF Follows, v
<1>9. \A first : Chain(h, first) = from[N + 1][first]
  BY DEF Chain, N, m, v
<1>10. QED
  BY <1>7, <1>8, <1>9 DEF m, V

\* A part of a list.
Piece(s, j, k) == [i \in 1 .. k |-> s[i + (j - 1)]]

LEMMA PieceIs ==
  ASSUME NEW s \in Seq(Nodes), NEW j \in 1 .. Len(s), NEW k \in 0 .. Len(s) - j
  PROVE  <<s[j]>> \o Piece(s, j + 1, k) = Piece(s, j, k + 1)
<1> DEFINE p == Piece(s, j + 1, k)
           q == <<s[j]>> \o p
<1>1. j \in Int /\ k \in Nat /\ Len(s) \in Nat
  OBVIOUS
<1>2. p \in Seq(Nodes) /\ Len(p) = k
  <2>1. \A i \in 1 .. k : s[i + ((j + 1) - 1)] \in Nodes
    BY <1>1
  <2>2. QED
    BY <1>1, <2>1, IsASeq DEF Piece
<1>3. <<s[j]>> \in Seq(Nodes) /\ Len(<<s[j]>>) = 1
  OBVIOUS
<1>4. q \in Seq(Nodes) /\ Len(q) = k + 1
  BY <1>1, <1>2, <1>3
<1>5. \A i \in 1 .. k + 1 : q[i] = s[i + (j - 1)]
  <2>1. ASSUME NEW i \in 1 .. k + 1 PROVE q[i] = s[i + (j - 1)]
    <3>1. CASE i = 1
      BY <1>1, <1>2, <1>3, <3>1
    <3>2. CASE i # 1
      <4>1. i - 1 \in 1 .. k /\ (i - 1) + ((j + 1) - 1) = i + (j - 1)
        BY <1>1, <3>2
      <4>2. q[i] = p[i - 1]
        BY <1>2, <1>3, <3>2, <4>1
      <4>3. QED
        BY <4>1, <4>2 DEF Piece
    <3>3. QED
      BY <3>1, <3>2
  <2>2. QED
    BY <2>1
<1>6. q = [i \in 1 .. k + 1 |-> q[i]]
  BY <1>4
<1>7. QED
  BY <1>5, <1>6 DEF Piece

\* From an item of a list, the rest of the list; from one that points nowhere, that one.
LEMMA ChainFrom ==
  ASSUME NEW h \in Heap, NEW s \in Seq(Nodes), Distinct(s),
         \A k \in 1 .. Len(s) : h.next[s[k]] = After(s, k), NEW j \in 1 .. Len(s)
  PROVE  Chain(h, s[j]) = Piece(s, j, Len(s) - j + 1)
<1> DEFINE l == Len(s)
           least(k, i) == IF k <= i THEN k ELSE i
           m == N + 1
<1>1. l \in Nat /\ l <= N /\ N \in Nat /\ \A i \in 1 .. l : s[i] \in Nodes /\ s[i] # 0
  BY NotTooLong, Sizes, NodesAssumption
<1>2. PICK f \in [0 .. N + 1 -> [Nodes \cup {0} -> Seq(Nodes)]] :
        Follows(h, f) /\ \A first : Chain(h, first) = f[N + 1][first]
  BY ChainIs
<1>3. \A k \in 0 .. N : /\ f[k + 1][0] = << >>
                        /\ \A n \in Nodes : f[k + 1][n] = <<n>> \o f[k][h.next[n]]
  <2>1. \A k \in 0 .. N : f[k + 1] = Onward(h, f[k])
    BY <1>2 DEF Follows
  <2>2. 0 \notin Nodes
    BY NodesAssumption
  <2>3. ASSUME NEW g PROVE Onward(h, g)[0] = << >> /\ \A n \in Nodes : Onward(h, g)[n] = <<n>> \o g[h.next[n]]
    BY <2>2 DEF Onward
  <2>4. QED
    BY <2>1, <2>3
<1>4. \A k \in 0 .. N : f[k][0] = << >>
  <2>1. f[0][0] = << >>
    BY <1>2 DEF Follows
  <2>2. \A k \in 0 .. N : k = 0 \/ (k - 1 \in 0 .. N /\ (k - 1) + 1 = k)
    BY <1>1
  <2>3. \A k \in 0 .. N : k = 0 \/ f[(k - 1) + 1][0] = << >>
    BY <1>3, <2>2
  <2>4. ASSUME NEW k \in 0 .. N PROVE f[k][0] = << >>
    <3>1. CASE k = 0
      BY <2>1, <3>1
    <3>2. CASE k # 0
      <4>1. (k - 1) + 1 = k
        BY <2>2, <3>2
      <4>2. QED
        BY <2>3, <3>2, <4>1
    <3>3. QED
      BY <3>1, <3>2
  <2>5. QED
    BY <2>4
<1> DEFINE T == {k \in 0 .. m : \A i \in 1 .. l : f[k][s[i]] = Piece(s, i, least(k, l - i + 1))}
<1> HIDE DEF l
<1>5. 0 \in T
  <2>1. ASSUME NEW i \in 1 .. l PROVE f[0][s[i]] = Piece(s, i, least(0, l - i + 1))
    <3>1. least(0, l - i + 1) = 0
      BY <1>1
    <3>2. Piece(s, i, 0) = << >>
      BY DEF Piece
    <3>3. f[0][s[i]] = << >>
      BY <1>1, <1>2 DEF Follows
    <3>4. QED
      BY <3>1, <3>2, <3>3
  <2>2. QED
    BY <1>1, <2>1
<1>6. ASSUME NEW k \in 0 .. m - 1, k \in T PROVE k + 1 \in T
  <2>1. k \in 0 .. N /\ k + 1 \in 0 .. m
    BY <1>1
  <2>2. ASSUME NEW i \in 1 .. l PROVE f[k + 1][s[i]] = Piece(s, i, least(k + 1, l - i + 1))
    <3>1. f[k + 1][s[i]] = <<s[i]>> \o f[k][h.next[s[i]]]
      <4>1. s[i] \in Nodes
        BY <1>1
      <4>2. QED
        BY <1>3, <2>1, <4>1
    <3>2. h.next[s[i]] = IF i = l THEN 0 ELSE s[i + 1]
      BY DEF After, l
    <3>3. CASE i = l
      <4>1. least(k + 1, l - i + 1) = 1 /\ <<s[i]>> \in Seq(Nodes)
        BY <1>1, <2>1, <3>3
      <4>2. f[k + 1][s[i]] = <<s[i]>>
        <5>1. f[k][0] = << >>
          BY <1>4, <2>1
        <5>2. f[k + 1][s[i]] = <<s[i]>> \o << >>
          BY <3>1, <3>2, <3>3, <5>1
        <5>3. QED
          BY <4>1, <5>2
      <4>3. Piece(s, i, 1) = [n \in 1 .. 1 |-> s[i]]
        <5>1. \A n \in 1 .. 1 : n + (i - 1) = i
          BY <1>1
        <5>2. QED
          BY <5>1 DEF Piece
      <4>4. Piece(s, i, 1) = <<s[i]>>
        BY <4>3
      <4>5. QED
        BY <4>1, <4>2, <4>4
    <3>4. CASE i # l
      <4>1. i + 1 \in 1 .. l /\ least(k, l - (i + 1) + 1) \in 0 .. l - i
            /\ least(k, l - (i + 1) + 1) + 1 = least(k + 1, l - i + 1)
        BY <1>1, <2>1, <3>4
      <4>2. f[k][s[i + 1]] = Piece(s, i + 1, least(k, l - (i + 1) + 1))
        BY <1>6, <4>1
      <4> HIDE DEF least
      <4>3. <<s[i]>> \o Piece(s, i + 1, least(k, l - (i + 1) + 1)) = Piece(s, i, least(k + 1, l - i + 1))
        BY <4>1, PieceIs DEF l
      <4>4. QED
        BY <3>1, <3>2, <3>4, <4>2, <4>3
    <3>5. QED
      BY <3>3, <3>4
  <2>3. QED
    BY <2>1, <2>2
<1>7. \A k \in 0 .. m : k \in T
  <2>1. m \in Nat
    BY <1>1
  <2> HIDE DEF T, m
  <2>2. QED
    BY <1>5, <1>6, <2>1, Inductively
<1>8. N + 1 \in T
  BY <1>1, <1>7
<1>9. least(N + 1, l - j + 1) = l - j + 1
  BY <1>1 DEF l
<1>10. QED
  BY <1>2, <1>8, <1>9 DEF l

LEMMA ChainAlone ==
  ASSUME NEW h \in Heap, NEW n \in Nodes, h.next[n] = 0
  PROVE  Chain(h, n) = <<n>>
<1> DEFINE s == <<n>>
<1>1. s \in Seq(Nodes) /\ Len(s) = 1 /\ s[1] = n
  OBVIOUS
<1>2. Distinct(s) /\ \A k \in 1 .. Len(s) : h.next[s[k]] = After(s, k)
  BY <1>1 DEF Distinct, After
<1>3. Piece(s, 1, 1) = s
  <2>1. \A i \in 1 .. 1 : i + (1 - 1) = 1
    OBVIOUS
  <2>2. Piece(s, 1, 1) = [i \in 1 .. 1 |-> n]
    BY <1>1, <2>1 DEF Piece
  <2>3. QED
    BY <2>2
<1>4. Chain(h, s[1]) = Piece(s, 1, Len(s) - 1 + 1)
  <2> HIDE DEF s
  <2>1. 1 \in 1 .. Len(s)
    BY <1>1
  <2>2. QED
    BY <1>1, <1>2, <2>1, ChainFrom
<1>5. Len(s) - 1 + 1 = 1
  BY <1>1
<1>6. QED
  BY <1>1, <1>3, <1>4, <1>5

LEMMA ChainNone ==
  ASSUME NEW h \in Heap
  PROVE  Chain(h, 0) = << >>
<1>1. PICK f \in [0 .. N + 1 -> [Nodes \cup {0} -> Seq(Nodes)]] :
        Follows(h, f) /\ \A first : Chain(h, first) = f[N + 1][first]
  BY ChainIs
<1>2. N \in 0 .. N
  BY Sizes
<1>3. f[N + 1] = Onward(h, f[N])
  BY <1>1, <1>2 DEF Follows
<1>4. QED
  BY <1>1, <1>3 DEF Onward

\* The items of an array are its list.
LEMMA ItemsIs ==
  ASSUME NEW h \in Heap, NEW L, Represents(h, L), NEW a \in Containers(h)
  PROVE  Items(h, a) = L[a]
<1>1. /\ L[a] \in Seq(Nodes) /\ Distinct(L[a]) /\ IsList(h.next, h.prev, h.child[a], L[a])
      /\ h.child[a] = 0 <=> Len(L[a]) = 0
  BY ListOf
<1> DEFINE s == L[a]
           l == Len(s)
<1>2. CASE l = 0
  <2>1. s = << >>
    BY <1>1, <1>2
  <2>2. QED
    BY <1>1, <1>2, <2>1, ChainNone DEF Items
<1>3. CASE l # 0
  <2>1. l \in Nat /\ 1 \in 1 .. l /\ h.child[a] = s[1]
    BY <1>1, <1>3 DEF IsList
  <2>2. \A k \in 1 .. Len(s) : h.next[s[k]] = After(s, k)
    BY <1>1 DEF IsList
  <2>3. Chain(h, s[1]) = Piece(s, 1, l - 1 + 1)
    <3> HIDE DEF s
    <3>1. QED
      BY <1>1, <2>1, <2>2, ChainFrom DEF s
  <2>4. Piece(s, 1, l - 1 + 1) = s
    <3>1. l - 1 + 1 = l /\ \A i \in 1 .. l : i + (1 - 1) = i
      BY <2>1
    <3>2. s = [i \in 1 .. l |-> s[i]]
      BY <1>1
    <3> HIDE DEF s, l
    <3>3. QED
      BY <3>1, <3>2 DEF Piece
  <2>5. QED
    BY <2>1, <2>3, <2>4 DEF Items
<1>4. QED
  BY <1>2, <1>3

-----------------------------------------------------------------------------
(* What is below an item.                                                    *)

\* f grows from n by what goes has.
Grows(f, n, goes) ==
  /\ f \in [0 .. N -> SUBSET Nodes] /\ f[0] = {n}
  /\ \A k \in 0 .. N - 1 : f[k + 1] = Reached(f[k], goes)

\* There is such a growth, and whatever says that it is one is.
LEMMA GrowsExists ==
  ASSUME NEW n \in Nodes, NEW goes \in [Nodes -> SUBSET Nodes]
  PROVE  \E f : f = [k \in 0 .. N |-> IF k = 0 THEN {n} ELSE Reached(f[k - 1], goes)] /\ Grows(f, n, goes)
<1> DEFINE V == SUBSET Nodes
           m == N
           G == [p \in V \X (1 .. m) |-> Reached(p[1], goes)]
<1>1. m \in Nat /\ {n} \in V
  BY Sizes
<1>2. \A S \in V : Reached(S, goes) \in V
  BY DEF Reached
<1>3. G \in [V \X (1 .. m) -> V]
  <2> HIDE DEF V
  <2>1. QED
    BY <1>2
<1> HIDE DEF V, m
<1>4. PICK f \in [0 .. m -> V] : Recursive(f, {n}, G, m)
  <2> HIDE DEF G
  <2>1. QED
    BY <1>1, <1>3, Recursion
<1>5. \A k \in 1 .. m : f[k - 1] \in V /\ G[<<f[k - 1], k>>] = Reached(f[k - 1], goes)
  BY <1>1, <1>4
<1>6. f = [k \in 0 .. m |-> IF k = 0 THEN {n} ELSE G[<<f[k - 1], k>>]]
  BY <1>4 DEF Recursive
<1>7. \A k \in 0 .. m : k # 0 => k \in 1 .. m
  BY <1>1
<1> HIDE DEF G
<1>8. f = [k \in 0 .. m |-> IF k = 0 THEN {n} ELSE Reached(f[k - 1], goes)]
  BY <1>5, <1>6, <1>7
<1>9. 0 \in 0 .. m /\ \A k \in 0 .. m - 1 : k + 1 \in 0 .. m /\ k + 1 # 0 /\ (k + 1) - 1 = k
  BY <1>1
<1>10. f[0] = {n} /\ \A k \in 0 .. m - 1 : f[k + 1] = Reached(f[k], goes)
  BY <1>8, <1>9
<1>11. QED
  BY <1>4, <1>8, <1>10 DEF Grows, V, m

LEMMA GrowsSo ==
  ASSUME NEW n \in Nodes, NEW goes \in [Nodes -> SUBSET Nodes], NEW f,
         f = [k \in 0 .. N |-> IF k = 0 THEN {n} ELSE Reached(f[k - 1], goes)]
  PROVE  Grows(f, n, goes)
<1>1. N \in Nat
  BY Sizes
<1>2. 0 \in 0 .. N /\ \A k \in 0 .. N - 1 : k + 1 \in 0 .. N /\ k + 1 # 0 /\ (k + 1) - 1 = k
  BY <1>1
<1>3. f[0] = {n} /\ \A k \in 0 .. N - 1 : f[k + 1] = Reached(f[k], goes)
  BY <1>2
<1> DEFINE T == {k \in 0 .. N : f[k] \in SUBSET Nodes}
<1>4. 0 \in T
  BY <1>2, <1>3
<1>5. \A k \in 0 .. N - 1 : k \in T => k + 1 \in T
  <2>1. \A S \in SUBSET Nodes : Reached(S, goes) \in SUBSET Nodes
    BY DEF Reached
  <2>2. QED
    BY <1>2, <1>3, <2>1
<1> HIDE DEF T
<1>6. \A k \in 0 .. N : k \in T
  BY <1>1, <1>4, <1>5, Inductively
<1>7. \A k \in 0 .. N : f[k] \in SUBSET Nodes
  BY <1>6 DEF T
<1>8. f \in [0 .. N -> SUBSET Nodes]
  BY <1>7
<1>9. QED
  BY <1>3, <1>8 DEF Grows

\* n and the least that it reaches.
Least(C, n, goes) ==
  /\ C \subseteq Nodes /\ n \in C
  /\ \A m \in C : goes[m] \subseteq C
  /\ \A X : n \in X /\ (\A m \in X \cap Nodes : goes[m] \subseteq X) => C \subseteq X

\* It is reached in as many steps as there are items: until then every step adds one.
LEMMA GrownIs ==
  ASSUME NEW n \in Nodes, NEW goes \in [Nodes -> SUBSET Nodes], NEW f, Grows(f, n, goes)
  PROVE  Least(f[N], n, goes)
<1> DEFINE m == N
           Closed(S) == \A x \in S : goes[x] \subseteq S
           T == {k \in 0 .. m : Closed(f[k]) \/ Cardinality(f[k]) >= k + 1}
           U == {k \in 0 .. m : n \in f[k]}
<1>1. N \in Nat /\ m \in Nat /\ IsFiniteSet(Nodes)
  BY Sizes
<1>2. /\ \A k \in 0 .. m : f[k] \subseteq Nodes
      /\ f[0] = {n} /\ \A k \in 0 .. m - 1 : k \in 0 .. m /\ k + 1 \in 0 .. m /\ f[k + 1] = Reached(f[k], goes)
  BY <1>1 DEF Grows
<1>3. \A k \in 0 .. m - 1 : f[k] \subseteq f[k + 1]
  BY <1>2 DEF Reached
<1>4. \A k \in 0 .. m : IsFiniteSet(f[k]) /\ Cardinality(f[k]) \in Nat
  BY <1>1, <1>2, FS_Subset, FS_CardinalityType
<1>5. 0 \in T
  <2>1. Cardinality(f[0]) = 1
    BY <1>2, FS_Singleton
  <2>2. QED
    BY <1>1, <2>1
<1>6. ASSUME NEW k \in 0 .. m - 1, k \in T PROVE k + 1 \in T
  <2>1. k \in 0 .. m /\ k + 1 \in 0 .. m /\ f[k] \subseteq f[k + 1] /\ f[k + 1] = Reached(f[k], goes)
    BY <1>2, <1>3
  <2>2. CASE Closed(f[k])
    <3>1. f[k + 1] = f[k]
      BY <2>1, <2>2 DEF Reached
    <3>2. QED
      BY <2>1, <2>2, <3>1
  <2>3. CASE f[k + 1] = f[k]
    <3>1. Closed(f[k])
      BY <2>1, <2>3 DEF Reached
    <3>2. QED
      BY <2>1, <2>3, <3>1
  <2>4. CASE Cardinality(f[k]) >= k + 1 /\ f[k + 1] # f[k]
    <3>1. Cardinality(f[k]) <= Cardinality(f[k + 1]) /\ Cardinality(f[k]) # Cardinality(f[k + 1])
      BY <1>4, <2>1, <2>4, FS_Subset
    <3>2. Cardinality(f[k + 1]) >= (k + 1) + 1
      BY <1>1, <1>4, <2>1, <2>4, <3>1
    <3>3. QED
      BY <2>1, <3>2
  <2>5. QED
    BY <1>6, <2>2, <2>3, <2>4
<1>7. m \in T
  <2> HIDE DEF T
  <2>1. \A k \in 0 .. m : k \in T
    BY <1>1, <1>5, <1>6, Inductively
  <2>2. QED
    BY <1>1, <2>1
<1>8. Closed(f[m])
  <2>1. Cardinality(f[m]) <= N
    BY <1>1, <1>2, FS_Subset DEF N
  <2>2. QED
    BY <1>1, <1>4, <1>7, <2>1
<1>9. n \in f[m]
  <2>1. 0 \in U /\ \A k \in 0 .. m - 1 : k \in U => k + 1 \in U
    BY <1>1, <1>2, <1>3
  <2> HIDE DEF U
  <2>2. \A k \in 0 .. m : k \in U
    BY <1>1, <2>1, Inductively
  <2>3. QED
    BY <1>1, <2>2 DEF U
<1>10. ASSUME NEW X, n \in X, \A x \in X \cap Nodes : goes[x] \subseteq X PROVE f[m] \subseteq X
  <2> DEFINE W == {k \in 0 .. m : f[k] \subseteq X}
  <2>1. 0 \in W /\ \A k \in 0 .. m - 1 : k \in W => k + 1 \in W
    BY <1>1, <1>2, <1>10 DEF Reached
  <2> HIDE DEF W
  <2>2. \A k \in 0 .. m : k \in W
    BY <1>1, <2>1, Inductively
  <2>3. QED
    BY <1>1, <2>2 DEF W
<1>11. f[m] \subseteq Nodes
  BY <1>1, <1>2
<1>12. QED
  BY <1>8, <1>9, <1>10, <1>11 DEF Least

LEMMA ClosureIs ==
  ASSUME NEW n \in Nodes, NEW goes \in [Nodes -> SUBSET Nodes]
  PROVE  Least(Closure(n, goes), n, goes)
<1> DEFINE after == CHOOSE f : f = [k \in 0 .. N |-> IF k = 0 THEN {n} ELSE Reached(f[k - 1], goes)]
<1>1. after = [k \in 0 .. N |-> IF k = 0 THEN {n} ELSE Reached(after[k - 1], goes)]
  <2>1. \E f : f = [k \in 0 .. N |-> IF k = 0 THEN {n} ELSE Reached(f[k - 1], goes)]
    BY GrowsExists
  <2>2. QED
    BY <2>1
<1>2. Closure(n, goes) = after[N]
  BY DEF Closure, N
<1> HIDE DEF after
<1>3. Grows(after, n, goes)
  BY <1>1, GrowsSo
<1>4. QED
  BY <1>2, <1>3, GrownIs

-----------------------------------------------------------------------------
(* A sound heap: its links are lists, and what is allocated has one owner.   *)

\* The live items are those in a list and, apart from these, those in O.
Owned(h, L, O) ==
  /\ O \subseteq Nodes
  /\ \A n \in Nodes : n \in h.live <=> Placed(L, n) \/ n \in O
  /\ \A n \in O : ~Placed(L, n)

\* Nothing is left in what is not allocated.
Blank(h) ==
  \A n \in Nodes \ h.live :
    h.child[n] = 0 /\ h.string[n] = NULL /\ n \notin h.reference /\ n \notin h.const

Keys(h) == {n \in h.live : OwnsKey(h, n)}
Counted(h) == h.strings = Cardinality(Keys(h))

Sound(h, L, O) == h \in Heap /\ Represents(h, L) /\ Owned(h, L, O) /\ Blank(h) /\ Counted(h)

\* Changing the links of a list leaves the keys alone.
LEMMA SoundLinks ==
  ASSUME NEW h, NEW L, NEW O, Sound(h, L, O), NEW g \in Heap, NEW M, Represents(g, M), SameRest(g, h),
         NEW a \in h.live, SameChildren(g, h, a),
         NEW P, Owned(g, M, P)
  PROVE  Sound(g, M, P)
<1>1. Blank(g)
  BY DEF Blank, SameRest, SameChildren, Sound
<1>2. Keys(g) = Keys(h)
  BY DEF Keys, OwnsKey, SameRest
<1>3. Counted(g)
  BY <1>2 DEF Counted, SameRest, Sound
<1>4. QED
  BY <1>1, <1>3 DEF Sound

LEMMA AddSound ==
  ASSUME NEW h, NEW L, NEW O, Sound(h, L, O), NEW a \in Containers(h), NEW x \in O
  PROVE  Sound(add_item_to_array(h, a, x), [L EXCEPT ![a] = Longer(L[a], x)], O \ {x})
<1> DEFINE g == add_item_to_array(h, a, x)
           M == [L EXCEPT ![a] = Longer(L[a], x)]
<1>1. h \in Heap /\ Represents(h, L) /\ x \in Nodes /\ ~Placed(L, x) /\ a \in h.live
  BY DEF Sound, Owned, Containers
<1>2. /\ g \in Heap /\ Represents(g, M) /\ SameRest(g, h)
      /\ SameChildren(g, h, a)
      /\ \A n \in Nodes : Placed(M, n) <=> Placed(L, n) \/ n = x
  BY <1>1, AddIs
<1> HIDE DEF g, M
<1>3. Owned(g, M, O \ {x})
  BY <1>2 DEF Sound, Owned, SameRest
<1>4. Sound(g, M, O \ {x})
  BY <1>1, <1>2, <1>3, SoundLinks
<1>5. QED
  BY <1>4 DEF g, M

LEMMA InsertSound ==
  ASSUME NEW h, NEW L, NEW O, Sound(h, L, O), NEW a \in Containers(h), NEW m \in 1 .. Len(L[a]), NEW x \in O
  PROVE  Sound(Inserted(h, a, L[a][m], x), [L EXCEPT ![a] = With(L[a], m, x)], O \ {x})
<1> DEFINE g == Inserted(h, a, L[a][m], x)
           M == [L EXCEPT ![a] = With(L[a], m, x)]
<1>1. h \in Heap /\ Represents(h, L) /\ x \in Nodes /\ ~Placed(L, x) /\ a \in h.live
  BY DEF Sound, Owned, Containers
<1>2. /\ g \in Heap /\ Represents(g, M) /\ SameRest(g, h)
      /\ SameChildren(g, h, a)
      /\ \A n \in Nodes : Placed(M, n) <=> Placed(L, n) \/ n = x
  BY <1>1, InsertIs
<1> HIDE DEF g, M
<1>3. Owned(g, M, O \ {x})
  BY <1>2 DEF Sound, Owned, SameRest
<1>4. Sound(g, M, O \ {x})
  BY <1>1, <1>2, <1>3, SoundLinks
<1>5. QED
  BY <1>4 DEF g, M

LEMMA DetachSound ==
  ASSUME NEW h, NEW L, NEW O, Sound(h, L, O), NEW a \in Containers(h), NEW m \in 1 .. Len(L[a])
  PROVE  LET x == L[a][m]
         IN  /\ Sound(cJSON_DetachItemViaPointer(h, a, x), [L EXCEPT ![a] = Without(L[a], m)], O \cup {x})
             /\ x \in h.live /\ x \notin O /\ Containers(cJSON_DetachItemViaPointer(h, a, x)) = Containers(h)
<1> DEFINE x == L[a][m]
           g == cJSON_DetachItemViaPointer(h, a, x)
           M == [L EXCEPT ![a] = Without(L[a], m)]
<1>1. h \in Heap /\ Represents(h, L) /\ a \in h.live
  BY DEF Sound, Owned, Containers
<1>2. /\ g \in Heap /\ Represents(g, M) /\ SameRest(g, h)
      /\ SameChildren(g, h, a)
      /\ \A n \in Nodes : Placed(M, n) <=> Placed(L, n) /\ n # x
  <2>1. g \in Heap /\ SameRest(g, h)
    BY <1>1, DetachIs
  <2>2. Represents(g, M)
    BY <1>1, DetachIs
  <2>3. SameChildren(g, h, a)
    BY <1>1, DetachIs
  <2>4. \A n \in Nodes : Placed(M, n) <=> Placed(L, n) /\ n # x
    BY <1>1, DetachIs
  <2> HIDE DEF g, M
  <2>5. QED
    BY <2>1, <2>2, <2>3, <2>4
<1>3. x \in Nodes /\ Placed(L, x)
  BY <1>1, ListOf
<1> HIDE DEF g, M, x
<1>4. x \in h.live /\ x \notin O
  BY <1>3 DEF Sound, Owned
<1>5. Owned(g, M, O \cup {x})
  <2>1. O \subseteq Nodes /\ (\A n \in Nodes : n \in h.live <=> Placed(L, n) \/ n \in O) /\ \A n \in O : ~Placed(L, n)
    BY DEF Sound, Owned
  <2>2. g.live = h.live
    BY <1>2 DEF SameRest
  <2>3. QED
    BY <1>2, <1>3, <2>1, <2>2 DEF Owned
<1>6. Sound(g, M, O \cup {x})
  BY <1>1, <1>2, <1>5, SoundLinks
<1>7. Containers(g) = Containers(h)
  BY <1>2 DEF SameRest, Containers
<1>8. QED
  BY <1>4, <1>6, <1>7 DEF g, M, x

LEMMA ReplacedSound ==
  ASSUME NEW h, NEW L, NEW O, Sound(h, L, O), NEW a \in Containers(h), NEW m \in 1 .. Len(L[a]), NEW x \in O
  PROVE  LET item == L[a][m]
         IN  /\ Sound(Replaced(h, a, item, x), [L EXCEPT ![a] = Instead(L[a], m, x)], (O \ {x}) \cup {item})
             /\ item \in h.live /\ item \notin O
<1> DEFINE item == L[a][m]
           g == Replaced(h, a, item, x)
           M == [L EXCEPT ![a] = Instead(L[a], m, x)]
<1>1. h \in Heap /\ Represents(h, L) /\ x \in Nodes /\ ~Placed(L, x) /\ a \in h.live
  BY DEF Sound, Owned, Containers
<1>2. /\ g \in Heap /\ Represents(g, M) /\ SameRest(g, h)
      /\ SameChildren(g, h, a)
      /\ \A n \in Nodes : Placed(M, n) <=> (Placed(L, n) /\ n # item) \/ n = x
  <2>1. g \in Heap /\ SameRest(g, h)
    BY <1>1, ReplacedIs
  <2>2. Represents(g, M)
    BY <1>1, ReplacedIs
  <2>3. SameChildren(g, h, a)
    BY <1>1, ReplacedIs
  <2>4. \A n \in Nodes : Placed(M, n) <=> (Placed(L, n) /\ n # item) \/ n = x
    BY <1>1, ReplacedIs
  <2> HIDE DEF g, M
  <2>5. QED
    BY <2>1, <2>2, <2>3, <2>4
<1>3. item \in Nodes /\ Placed(L, item)
  BY <1>1, ListOf
<1> HIDE DEF g, M, item
<1>4. item \in h.live /\ item \notin O
  BY <1>3 DEF Sound, Owned
<1>5. Owned(g, M, (O \ {x}) \cup {item})
  <2>1. O \subseteq Nodes /\ (\A n \in Nodes : n \in h.live <=> Placed(L, n) \/ n \in O) /\ \A n \in O : ~Placed(L, n)
    BY DEF Sound, Owned
  <2>2. g.live = h.live /\ item # x
    BY <1>1, <1>2, <1>3 DEF SameRest
  <2>3. QED
    BY <1>2, <1>3, <2>1, <2>2 DEF Owned
<1>6. Sound(g, M, (O \ {x}) \cup {item})
  BY <1>1, <1>2, <1>5, SoundLinks
<1>7. QED
  BY <1>4, <1>6 DEF g, M, item

-----------------------------------------------------------------------------
(* Deleting.                                                                 *)

\* The items that each item has in its list.
Under(L) == [m \in Nodes |-> {n \in Nodes : In(L[m], n)}]

\* What cJSON_Delete finds along the links is what is below the item.
LEMMA DeletedIs ==
  ASSUME NEW h \in Heap, NEW L, Represents(h, L), Blank(h), NEW x \in Nodes, ~Placed(L, x)
  PROVE  Least(Deleted(h, x), x, Under(L))
<1> DEFINE goes == [n \in Nodes |-> {h.next[n], IF n \in h.reference THEN 0 ELSE h.child[n]} \ {0}]
           C == Deleted(h, x)
<1>1. goes \in [Nodes -> SUBSET Nodes]
  <2>1. \A n \in Nodes : h.next[n] \in Nodes \cup {0} /\ h.child[n] \in Nodes \cup {0}
    BY DEF Heap
  <2>2. QED
    BY <2>1
<1>2. /\ C \subseteq Nodes /\ x \in C
      /\ \A m \in C : goes[m] \subseteq C
      /\ \A X : x \in X /\ (\A m \in X \cap Nodes : goes[m] \subseteq X) => C \subseteq X
  <2>1. C = Closure(x, goes)
    BY DEF Deleted
  <2> HIDE DEF goes, C
  <2>2. QED
    BY <1>1, <2>1, ClosureIs DEF Least
<1> HIDE DEF C
<1>3. L \in [Nodes -> Seq(Nodes)] /\ \A a \in Nodes : a \notin Containers(h) => \A n : ~In(L[a], n)
  BY DEF Represents, In
<1>4. ASSUME NEW a \in C, NEW n \in Nodes, In(L[a], n) PROVE n \in C
  <2> DEFINE s == L[a]
             l == Len(s)
             T == {k \in 0 .. l : k = 0 \/ s[k] \in C}
  <2>1. a \in Nodes /\ a \in Containers(h)
    BY <1>2, <1>3, <1>4
  <2>2. /\ s \in Seq(Nodes) /\ IsList(h.next, h.prev, h.child[a], s)
        /\ \A k \in 1 .. l : s[k] \in Nodes /\ s[k] # 0
    BY <2>1, ListOf
  <2>3. /\ l # 0 => h.child[a] = s[1]
        /\ \A k \in 1 .. l : h.next[s[k]] = IF k = l THEN 0 ELSE s[k + 1]
    BY <2>2 DEF IsList, After
  <2>4. l \in Nat /\ a \notin h.reference
    BY <2>1, <2>2 DEF Containers
  <2> HIDE DEF s, l
  <2>5. 0 \in T
    BY <2>4
  <2>6. ASSUME NEW k \in 0 .. l - 1, k \in T PROVE k + 1 \in T
    <3>1. k + 1 \in 1 .. l /\ k + 1 \in 0 .. l
      BY <2>4
    <3>2. CASE k = 0
      <4>1. h.child[a] = s[1] /\ s[1] \in Nodes /\ s[1] # 0
        BY <2>2, <2>3, <2>4, <3>1, <3>2
      <4>2. s[1] \in goes[a]
        BY <2>1, <2>4, <4>1
      <4>3. QED
        BY <1>2, <3>1, <3>2, <4>2
    <3>3. CASE k # 0
      <4>1. k \in 1 .. l /\ k # l
        BY <2>4, <3>3
      <4>2. s[k] \in C /\ s[k] \in Nodes /\ h.next[s[k]] = s[k + 1] /\ s[k + 1] # 0
        BY <2>2, <2>3, <2>6, <3>1, <3>3, <4>1
      <4>3. s[k + 1] \in goes[s[k]]
        BY <4>2
      <4>4. QED
        BY <1>2, <3>1, <4>2, <4>3
    <3>4. QED
      BY <3>2, <3>3
  <2> HIDE DEF T
  <2>7. \A k \in 0 .. l : k \in T
    BY <2>4, <2>5, <2>6, Inductively
  <2>8. PICK k \in 1 .. l : s[k] = n
    BY <1>4 DEF In, s, l
  <2>9. k \in 0 .. l /\ k # 0
    BY <2>4
  <2>10. QED
    BY <2>7, <2>8, <2>9 DEF T
<1>5. ASSUME NEW X, x \in X, \A m \in X \cap Nodes : Under(L)[m] \subseteq X
      PROVE  C \subseteq X
  <2> DEFINE Y == {m \in C \cap X : m = x \/ \E b \in X \cap Nodes : In(L[b], m)}
  <2>1. x \in Y
    BY <1>2, <1>5
  <2>2. \A m \in X \cap Nodes, n \in Nodes : In(L[m], n) => n \in X
    BY <1>5 DEF Under
  <2>3. ASSUME NEW m \in Y \cap Nodes, NEW n \in goes[m] PROVE n \in Y
    <3>1. m \in Nodes /\ m \in C /\ m \in X /\ n \in C /\ n \in Nodes /\ n # 0
      BY <1>1, <1>2, <2>3
    <3>2. SUFFICES \E b \in X \cap Nodes : In(L[b], n)
      BY <2>2, <3>1
    <3>3. n = h.next[m] \/ (m \notin h.reference /\ n = h.child[m])
      BY <2>3, <3>1
    <3>4. CASE m \notin h.reference /\ n = h.child[m]
      <4>1. m \in Containers(h)
        BY <3>1, <3>4 DEF Blank, Containers
      <4>2. L[m] \in Seq(Nodes) /\ IsList(h.next, h.prev, h.child[m], L[m])
        BY <4>1, ListOf
      <4>3. Len(L[m]) # 0 /\ n = L[m][1] /\ 1 \in 1 .. Len(L[m])
        BY <3>1, <3>4, <4>2 DEF IsList
      <4>4. In(L[m], n)
        BY <4>3 DEF In
      <4>5. QED
        BY <3>1, <4>4
    <3>5. CASE n = h.next[m]
      <4>1. Placed(L, m) /\ m # x
        BY <3>1, <3>5 DEF Represents
      <4>2. PICK b \in X \cap Nodes : In(L[b], m)
        BY <4>1
      <4>3. b \in Containers(h)
        BY <1>3, <4>2
      <4>4. L[b] \in Seq(Nodes) /\ IsList(h.next, h.prev, h.child[b], L[b])
        BY <4>3, ListOf
      <4>5. PICK k \in 1 .. Len(L[b]) : L[b][k] = m
        BY <4>2 DEF In
      <4>6. n = IF k = Len(L[b]) THEN 0 ELSE L[b][k + 1]
        BY <3>5, <4>4, <4>5 DEF IsList, After
      <4>7. k + 1 \in 1 .. Len(L[b]) /\ L[b][k + 1] = n
        BY <3>1, <4>4, <4>6
      <4>8. QED
        BY <4>2, <4>7 DEF In
    <3>6. QED
      BY <3>3, <3>4, <3>5
  <2> HIDE DEF goes, Y
  <2>4. C \subseteq Y
    BY <1>2, <2>1, <2>3
  <2>5. QED
    BY <2>4 DEF Y
<1>6. \A m \in C : Under(L)[m] \subseteq C
  BY <1>2, <1>4 DEF Under
<1>7. QED
  BY <1>2, <1>5, <1>6 DEF Least, C

\* Every item of what is least but the first is in the list of another.
LEMMA LeastFrom ==
  ASSUME NEW L, NEW C, NEW x, Least(C, x, Under(L)), NEW n \in C, n # x
  PROVE  \E a \in C : In(L[a], n)
<1> DEFINE X == {m \in C : m = x \/ \E a \in C : In(L[a], m)}
<1>1. C \subseteq Nodes /\ x \in C /\ \A m \in C : Under(L)[m] \subseteq C
  BY DEF Least
<1>2. x \in X /\ \A m \in X \cap Nodes : Under(L)[m] \subseteq X
  BY <1>1 DEF Under
<1>3. C \subseteq X
  <2> HIDE DEF X
  <2>1. QED
    BY <1>2 DEF Least
<1>4. QED
  BY <1>3

Emptied(L, gone) == [a \in Nodes |-> IF a \in gone THEN << >> ELSE L[a]]

LEMMA DeleteSound ==
  ASSUME NEW h, NEW L, NEW O, Sound(h, L, O), NEW x \in O
  PROVE  LET gone == Deleted(h, x)
         IN  /\ Sound(cJSON_Delete(h, x), Emptied(L, gone), O \ {x})
             /\ Least(gone, x, Under(L))
             /\ gone \subseteq h.live /\ gone \cap O = {x} /\ cJSON_Delete(h, x).live = h.live \ gone
<1> DEFINE gone == Deleted(h, x)
           g == cJSON_Delete(h, x)
           M == Emptied(L, gone)
<1>1. /\ h \in Heap /\ Represents(h, L) /\ Blank(h) /\ O \subseteq Nodes /\ x \in Nodes
      /\ \A n \in Nodes : n \in h.live <=> Placed(L, n) \/ n \in O
      /\ \A n \in O : ~Placed(L, n)
      /\ h.live \subseteq Nodes
  BY DEF Sound, Owned, Heap
<1>2. Least(gone, x, Under(L))
  BY <1>1, DeletedIs
<1>3. g = [next |-> [n \in Nodes |-> IF n \in gone THEN 0 ELSE h.next[n]],
           prev |-> [n \in Nodes |-> IF n \in gone THEN 0 ELSE h.prev[n]],
           child |-> [n \in Nodes |-> IF n \in gone THEN 0 ELSE h.child[n]],
           string |-> [n \in Nodes |-> IF n \in gone THEN NULL ELSE h.string[n]],
           reference |-> h.reference \ gone, const |-> h.const \ gone,
           live |-> h.live \ gone,
           strings |-> h.strings - Cardinality({n \in gone : OwnsKey(h, n)})]
  BY DEF cJSON_Delete
<1> HIDE DEF gone, g, M
<1>4. /\ \A a \in gone, n \in Nodes : In(L[a], n) => n \in gone
      /\ gone \subseteq Nodes /\ x \in gone
  BY <1>2 DEF Least, Under
<1>5. \A n \in gone : n # x => \E a \in gone : In(L[a], n)
  BY <1>2, LeastFrom
<1>6. gone \subseteq h.live /\ gone \cap O = {x}
  BY <1>1, <1>4, <1>5 DEF Placed
<1>7. \A b, n \in Nodes : In(L[b], n) /\ n \in gone => b \in gone
  <2>1. \A a, b \in Nodes : \A n \in Nodes : In(L[a], n) /\ In(L[b], n) => a = b
    BY <1>1 DEF Represents
  <2>2. ~Placed(L, x)
    BY <1>1
  <2>3. QED
    BY <1>4, <1>5, <2>1, <2>2 DEF Placed
<1>8. /\ M \in [Nodes -> Seq(Nodes)] /\ \A a \in gone : M[a] = << >>
      /\ \A a \in Nodes \ gone : M[a] = L[a]
  <2>1. L \in [Nodes -> Seq(Nodes)]
    BY <1>1 DEF Represents
  <2>2. QED
    BY <1>4, <2>1 DEF M, Emptied
<1>9. \A n \in Nodes, a \in Nodes : In(M[a], n) <=> In(L[a], n) /\ a \notin gone
  BY <1>8 DEF In
<1>10. \A n \in Nodes : Placed(M, n) <=> Placed(L, n) /\ n \notin gone
  BY <1>4, <1>7, <1>9 DEF Placed
<1>11. Represents(g, M)
  <2>1. \A a \in Nodes : a \notin Containers(g) => Len(M[a]) = 0
    <3>1. ASSUME NEW a \in Nodes, a \notin Containers(g), a \notin gone PROVE Len(M[a]) = 0
      <4>1. a \notin Containers(h)
        BY <1>3, <3>1 DEF Containers
      <4>2. QED
        BY <1>1, <1>8, <3>1, <4>1 DEF Represents
    <3>2. QED
      BY <1>8, <3>1
  <2>2. ASSUME NEW a \in Containers(g) PROVE IsList(g.next, g.prev, g.child[a], M[a])
    <3>1. a \in Containers(h) /\ a \notin gone /\ a \in Nodes
      BY <1>1, <1>3, <1>6 DEF Containers
    <3>2. L[a] \in Seq(Nodes) /\ IsList(h.next, h.prev, h.child[a], L[a])
      BY <1>1, <3>1, ListOf
    <3>3. \A n \in Nodes : In(L[a], n) => g.next[n] = h.next[n] /\ g.prev[n] = h.prev[n]
      BY <1>3, <1>7, <3>1
    <3>4. IsList(g.next, g.prev, h.child[a], L[a])
      BY <3>2, <3>3, ListFrame
    <3>5. g.child[a] = h.child[a] /\ M[a] = L[a]
      BY <1>3, <1>8, <3>1
    <3>6. QED
      BY <3>4, <3>5
  <2>3. \A a \in Nodes : Distinct(M[a])
    <3>1. \A a \in Nodes : Distinct(L[a])
      BY <1>1 DEF Represents
    <3>2. Distinct(<< >>)
      BY DEF Distinct
    <3>3. QED
      BY <1>8, <3>1, <3>2
  <2>4. \A a, b \in Nodes : \A n \in Nodes : In(M[a], n) /\ In(M[b], n) => a = b
    BY <1>1, <1>9 DEF Represents
  <2>5. \A n \in Nodes : ~Placed(M, n) => g.next[n] = 0 /\ g.prev[n] = 0
    <3>1. \A n \in Nodes : ~Placed(L, n) => h.next[n] = 0 /\ h.prev[n] = 0
      BY <1>1 DEF Represents
    <3>2. QED
      BY <1>3, <1>10, <3>1
  <2>6. QED
    BY <1>8, <2>1, <2>2, <2>3, <2>4, <2>5 DEF Represents
<1>12. Owned(g, M, O \ {x})
  BY <1>1, <1>3, <1>4, <1>6, <1>10 DEF Owned
<1>13. Blank(g)
  BY <1>1, <1>3 DEF Blank
<1> DEFINE freed == {n \in gone : OwnsKey(h, n)}
<1>14. IsFiniteSet(Keys(h)) /\ freed \subseteq Keys(h) /\ h.strings = Cardinality(Keys(h)) /\ Keys(g) = Keys(h) \ freed
  <2>1. IsFiniteSet(Keys(h))
    BY <1>1, Sizes, FS_Subset DEF Keys
  <2>2. h.strings = Cardinality(Keys(h))
    BY DEF Sound, Counted
  <2>3. \A n \in Nodes \ gone : OwnsKey(g, n) <=> OwnsKey(h, n)
    BY <1>3 DEF OwnsKey
  <2>4. g.live = h.live \ gone
    BY <1>3
  <2>5. QED
    BY <1>1, <1>6, <2>1, <2>2, <2>3, <2>4 DEF Keys
<1>15. Cardinality(Keys(g)) = Cardinality(Keys(h)) - Cardinality(freed) /\ Cardinality(Keys(g)) \in Nat
  <2>1. Keys(h) \cap freed = freed
    BY <1>14
  <2> HIDE DEF freed
  <2>2. /\ IsFiniteSet(Keys(h) \ freed)
        /\ Cardinality(Keys(h) \ freed) = Cardinality(Keys(h)) - Cardinality(Keys(h) \cap freed)
    BY <1>14, FS_Difference
  <2>3. Cardinality(Keys(h) \ freed) \in Nat
    BY <2>2, FS_CardinalityType
  <2>4. QED
    BY <1>14, <2>1, <2>2, <2>3
<1>16. Counted(g) /\ g.strings \in Nat
  BY <1>3, <1>14, <1>15 DEF Counted
<1>17. g \in Heap
  <2>1. /\ h.next \in [Nodes -> Nodes \cup {0}] /\ h.prev \in [Nodes -> Nodes \cup {0}]
        /\ h.child \in [Nodes -> Nodes \cup {0}] /\ h.string \in [Nodes -> Names \cup {NULL}]
        /\ h.reference \subseteq Nodes /\ h.const \subseteq Nodes
    BY <1>1 DEF Heap
  <2>2. QED
    BY <1>1, <1>3, <1>16, <2>1 DEF Heap
<1>18. Sound(g, M, O \ {x})
  BY <1>11, <1>12, <1>13, <1>16, <1>17 DEF Sound
<1>19. g.live = h.live \ gone
  BY <1>3
<1>20. QED
  BY <1>2, <1>6, <1>18, <1>19 DEF gone, g, M

-----------------------------------------------------------------------------
(* New items and keys.                                                       *)

LEMMA NewIs ==
  ASSUME NEW h \in Heap, HasMemory(h)
  PROVE  NewAddress(h) \in Nodes \ h.live
<1> DEFINE S == Nodes \ h.live
<1>1. S \subseteq Nat /\ S # {}
  BY NodesAssumption DEF Heap, HasMemory
<1> HIDE DEF S
<1>2. \E x \in S : \A y \in S : x <= y
  BY <1>1, Smallest
<1>3. Min(S) \in S
  BY <1>2 DEF Min
<1>4. QED
  BY <1>3 DEF NewAddress, S

\* Lists are a matter of the links.
LEMMA SameLinks ==
  ASSUME NEW h, NEW L, Represents(h, L), NEW g, g.next = h.next, g.prev = h.prev,
         \A a \in Nodes : a \in Containers(h) => a \in Containers(g) /\ g.child[a] = h.child[a],
         Containers(g) \subseteq Nodes,
         \A a \in Containers(g) : a \notin Containers(h) => g.child[a] = 0
  PROVE  Represents(g, L)
<1>1. \A a \in Containers(g) : IsList(g.next, g.prev, g.child[a], L[a])
  <2>1. ASSUME NEW a \in Containers(g), a \in Containers(h)
        PROVE  IsList(g.next, g.prev, g.child[a], L[a])
    BY <2>1 DEF Represents
  <2>2. ASSUME NEW a \in Containers(g), a \notin Containers(h)
        PROVE  IsList(g.next, g.prev, g.child[a], L[a])
    <3>1. Len(L[a]) = 0 /\ g.child[a] = 0
      BY <2>2 DEF Represents
    <3>2. QED
      BY <3>1 DEF IsList
  <2>3. QED
    BY <2>1, <2>2
<1>2. QED
  BY <1>1 DEF Represents

\* From h to g the item n is made; it has no items, or refers to those of others.
Made(h, g, n) ==
  /\ g \in Heap /\ n \in Nodes \ h.live
  /\ g.next = h.next /\ g.prev = h.prev /\ g.live = h.live \cup {n}
  /\ g.string = h.string /\ g.strings = h.strings
  /\ \A b \in Nodes : b # n => /\ g.child[b] = h.child[b]
                               /\ b \in g.reference <=> b \in h.reference
                               /\ b \in g.const <=> b \in h.const
  /\ n \notin g.reference => g.child[n] = 0

LEMMA MadeSound ==
  ASSUME NEW h, NEW L, NEW O, Sound(h, L, O), NEW g, NEW n, Made(h, g, n)
  PROVE  /\ Sound(g, L, O \cup {n}) /\ n \notin O /\ ~Placed(L, n)
         /\ \A a \in Nodes : a \in Containers(h) => a \in Containers(g)
<1>1. /\ h \in Heap /\ Represents(h, L) /\ Blank(h) /\ h.live \subseteq Nodes /\ O \subseteq Nodes
      /\ \A m \in Nodes : m \in h.live <=> Placed(L, m) \/ m \in O
      /\ \A m \in O : ~Placed(L, m)
      /\ h.strings = Cardinality(Keys(h))
  BY DEF Sound, Owned, Heap, Counted
<1>2. n \in Nodes /\ n \notin h.live /\ n \notin O /\ ~Placed(L, n)
  BY <1>1 DEF Made
<1>3. /\ \A a \in Nodes : a \in Containers(h) => a \in Containers(g) /\ g.child[a] = h.child[a]
      /\ Containers(g) \subseteq Nodes
      /\ \A a \in Containers(g) : a \notin Containers(h) => g.child[a] = 0
  BY <1>1 DEF Made, Containers
<1>4. Represents(g, L)
  <2>1. g.next = h.next /\ g.prev = h.prev
    BY DEF Made
  <2>2. QED
    BY <1>1, <1>3, <2>1, SameLinks
<1>5. Owned(g, L, O \cup {n})
  BY <1>1, <1>2 DEF Owned, Made
<1>6. Blank(g)
  BY <1>1, <1>2 DEF Blank, Made
<1>7. Keys(g) = Keys(h)
  <2>1. ~OwnsKey(g, n)
    BY <1>1, <1>2 DEF OwnsKey, Made, Blank
  <2>2. \A m \in Nodes : m # n => (OwnsKey(g, m) <=> OwnsKey(h, m))
    BY DEF OwnsKey, Made
  <2>3. QED
    BY <1>1, <1>2, <2>1, <2>2 DEF Keys, Made
<1>8. Counted(g)
  BY <1>1, <1>7 DEF Counted, Made
<1>9. g \in Heap
  BY DEF Made
<1>10. Sound(g, L, O \cup {n})
  BY <1>4, <1>5, <1>6, <1>8, <1>9 DEF Sound
<1>11. QED
  BY <1>2, <1>3, <1>10

LEMMA NewMade ==
  ASSUME NEW h \in Heap, Blank(h), HasMemory(h)
  PROVE  Made(h, cJSON_New_Item(h), NewAddress(h)) /\ NewAddress(h) \notin cJSON_New_Item(h).reference
<1> DEFINE n == NewAddress(h)
           g == cJSON_New_Item(h)
<1>1. n \in Nodes /\ n \notin h.live
  BY NewIs
<1>2. g = [h EXCEPT !.live = @ \cup {n}]
  BY DEF cJSON_New_Item
<1> HIDE DEF n, g
<1>3. g \in Heap /\ g.live = h.live \cup {n} /\ g.next = h.next /\ g.prev = h.prev /\ g.child = h.child
      /\ g.string = h.string /\ g.strings = h.strings /\ g.reference = h.reference /\ g.const = h.const
  BY <1>1, <1>2 DEF Heap
<1>4. h.child[n] = 0 /\ n \notin h.reference
  BY <1>1 DEF Blank
<1>5. QED
  BY <1>1, <1>3, <1>4 DEF Made, n, g

LEMMA ReferenceMade ==
  ASSUME NEW h \in Heap, Blank(h), HasMemory(h), NEW item \in Nodes
  PROVE  Made(h, create_reference(h, item), NewAddress(h)) /\ NewAddress(h) \in create_reference(h, item).reference
<1> DEFINE n == NewAddress(h)
           g == create_reference(h, item)
           new == cJSON_New_Item(h)
<1>1. n \in Nodes /\ n \notin h.live
  BY NewIs
<1>2. new = [h EXCEPT !.live = @ \cup {n}]
  BY DEF cJSON_New_Item
<1>3. g = [new EXCEPT !.child[n] = h.child[item], !.reference = @ \cup {n},
                      !.const = IF item \in @ THEN @ \cup {n} ELSE @]
  BY DEF create_reference
<1> HIDE DEF n, g, new
<1>4. new \in Heap /\ new.live = h.live \cup {n} /\ new.next = h.next /\ new.prev = h.prev /\ new.child = h.child
      /\ new.string = h.string /\ new.strings = h.strings /\ new.reference = h.reference /\ new.const = h.const
  BY <1>1, <1>2 DEF Heap
<1>5. h.child[item] \in Nodes \cup {0}
  BY DEF Heap
<1>6. /\ g \in Heap /\ g.live = new.live /\ g.next = new.next /\ g.prev = new.prev
      /\ g.child = [new.child EXCEPT ![n] = h.child[item]]
      /\ g.string = new.string /\ g.strings = new.strings /\ g.reference = new.reference \cup {n}
      /\ g.const = IF item \in new.const THEN new.const \cup {n} ELSE new.const
  BY <1>1, <1>3, <1>4, <1>5 DEF Heap
<1>7. \A b \in Nodes : b # n => g.child[b] = h.child[b]
  BY <1>4, <1>6 DEF Heap
<1>8. QED
  BY <1>1, <1>4, <1>6, <1>7 DEF Made, n, g

LEMMA RefersMade ==
  ASSUME NEW h \in Heap, Blank(h), HasMemory(h), NEW first \in Nodes
  PROVE  Made(h, [cJSON_New_Item(h) EXCEPT !.child[NewAddress(h)] = first,
                                           !.reference = @ \cup {NewAddress(h)}], NewAddress(h))
<1> DEFINE n == NewAddress(h)
           new == cJSON_New_Item(h)
           g == [new EXCEPT !.child[n] = first, !.reference = @ \cup {n}]
<1>1. n \in Nodes /\ n \notin h.live
  BY NewIs
<1>2. new = [h EXCEPT !.live = @ \cup {n}]
  BY DEF cJSON_New_Item
<1> HIDE DEF n, new
<1>3. new \in Heap /\ new.live = h.live \cup {n} /\ new.next = h.next /\ new.prev = h.prev /\ new.child = h.child
      /\ new.string = h.string /\ new.strings = h.strings /\ new.reference = h.reference /\ new.const = h.const
  BY <1>1, <1>2 DEF Heap
<1>4. /\ g \in Heap /\ g.live = new.live /\ g.next = new.next /\ g.prev = new.prev
      /\ g.child = [new.child EXCEPT ![n] = first]
      /\ g.string = new.string /\ g.strings = new.strings /\ g.reference = new.reference \cup {n}
      /\ g.const = new.const
  BY <1>1, <1>3 DEF Heap
<1> HIDE DEF g
<1>5. \A b \in Nodes : b # n => g.child[b] = h.child[b]
  BY <1>3, <1>4 DEF Heap
<1>6. QED
  BY <1>1, <1>3, <1>4, <1>5 DEF Made, n, g, new

\* Only the key of item changes, and those who own one are counted.
Rekeyed(h, g, item) ==
  /\ item \in h.live
  /\ g.next = h.next /\ g.prev = h.prev /\ g.child = h.child
  /\ g.reference = h.reference /\ g.live = h.live
  /\ \A n \in Nodes : n # item => g.string[n] = h.string[n] /\ (n \in g.const <=> n \in h.const)
  /\ g.string \in [Nodes -> Names \cup {NULL}] /\ g.const \subseteq Nodes
  /\ g \in [next : {g.next}, prev : {g.prev}, child : {g.child}, string : {g.string}, reference : {g.reference},
            const : {g.const}, live : {g.live}, strings : {g.strings}]
  /\ g.strings = Released(h, item) + (IF OwnsKey(g, item) THEN 1 ELSE 0)

LEMMA RekeyedSound ==
  ASSUME NEW h, NEW L, NEW O, Sound(h, L, O), NEW g, NEW item, Rekeyed(h, g, item)
  PROVE  Sound(g, L, O)
<1>1. /\ h \in Heap /\ Represents(h, L) /\ Blank(h) /\ Owned(h, L, O) /\ h.live \subseteq Nodes /\ item \in h.live
      /\ h.strings = Cardinality(Keys(h))
  BY DEF Sound, Heap, Counted, Rekeyed
<1>2. Represents(g, L)
  <2>1. g.next = h.next /\ g.prev = h.prev /\ g.child = h.child /\ Containers(g) = Containers(h)
    BY DEF Rekeyed, Containers
  <2>2. Containers(g) \subseteq Nodes
    BY <1>1, <2>1 DEF Containers
  <2>3. QED
    BY <1>1, <2>1, <2>2, SameLinks
<1>3. Owned(g, L, O) /\ Blank(g)
  BY <1>1 DEF Owned, Blank, Rekeyed
<1> DEFINE others == Keys(h) \ {item}
<1>4. \A n \in Nodes : n # item => (OwnsKey(g, n) <=> OwnsKey(h, n))
  BY DEF OwnsKey, Rekeyed
<1>5. /\ Keys(g) = IF OwnsKey(g, item) THEN others \cup {item} ELSE others
      /\ Keys(h) = IF OwnsKey(h, item) THEN others \cup {item} ELSE others
  <2>1. g.live = h.live
    BY DEF Rekeyed
  <2>2. QED
    BY <1>1, <1>4, <2>1 DEF Keys
<1>6. IsFiniteSet(others) /\ item \notin others
  <2>1. others \subseteq Nodes
    BY <1>1 DEF Keys
  <2>2. QED
    BY <2>1, Sizes, FS_Subset
<1> HIDE DEF others
<1>7. Cardinality(others \cup {item}) = Cardinality(others) + 1 /\ Cardinality(others) \in Nat
  BY <1>6, FS_AddElement, FS_CardinalityType
<1>8. Released(h, item) = Cardinality(others)
  BY <1>1, <1>5, <1>7 DEF Released
<1>9. g.strings = Cardinality(Keys(g)) /\ g.strings \in Nat
  BY <1>5, <1>7, <1>8 DEF Rekeyed
<1>10. g \in Heap
  BY <1>1, <1>9 DEF Rekeyed, Heap
<1>11. QED
  BY <1>2, <1>3, <1>9, <1>10 DEF Sound, Counted

LEMMA KeyedSound ==
  ASSUME NEW h, NEW L, NEW O, Sound(h, L, O), NEW item \in h.live, NEW name \in Names, NEW constant \in BOOLEAN
  PROVE  /\ Sound(Keyed(h, item, name, constant), L, O)
         /\ Keyed(h, item, name, constant).live = h.live
         /\ Containers(Keyed(h, item, name, constant)) = Containers(h)
<1> DEFINE g == Keyed(h, item, name, constant)
<1>1. h \in Heap /\ item \in Nodes
  BY DEF Sound, Heap
<1>2. g = [h EXCEPT !.strings = Released(h, item) + (IF constant THEN 0 ELSE 1), !.string[item] = name,
                    !.const = IF constant THEN @ \cup {item} ELSE @ \ {item}]
  BY DEF Keyed
<1> HIDE DEF g
<1>3. /\ g.next = h.next /\ g.prev = h.prev /\ g.child = h.child
      /\ g.reference = h.reference /\ g.live = h.live
      /\ g.string = [h.string EXCEPT ![item] = name]
      /\ g.const = IF constant THEN h.const \cup {item} ELSE h.const \ {item}
      /\ g.strings = Released(h, item) + (IF constant THEN 0 ELSE 1)
      /\ g \in [next : {g.next}, prev : {g.prev}, child : {g.child}, string : {g.string}, reference : {g.reference},
                const : {g.const}, live : {g.live}, strings : {g.strings}]
  BY <1>1, <1>2 DEF Heap
<1>4. /\ g.string[item] = name /\ \A n \in Nodes : n # item => g.string[n] = h.string[n]
      /\ g.string \in [Nodes -> Names \cup {NULL}] /\ g.const \subseteq Nodes
      /\ \A n \in Nodes : n # item => (n \in g.const <=> n \in h.const)
      /\ item \in g.const <=> constant
  BY <1>1, <1>3 DEF Heap
<1>5. OwnsKey(g, item) <=> ~constant
  BY <1>4, FoldAssumption DEF OwnsKey
<1>6. Rekeyed(h, g, item)
  BY <1>3, <1>4, <1>5 DEF Rekeyed
<1>7. Sound(g, L, O)
  BY <1>6, RekeyedSound
<1>8. QED
  BY <1>3, <1>7 DEF g, Containers

LEMMA UnkeyedSound ==
  ASSUME NEW h, NEW L, NEW O, Sound(h, L, O), NEW item \in h.live
  PROVE  Sound([h EXCEPT !.strings = Released(h, item), !.string[item] = NULL], L, O)
<1> DEFINE g == [h EXCEPT !.strings = Released(h, item), !.string[item] = NULL]
<1>1. h \in Heap /\ item \in Nodes
  BY DEF Sound, Heap
<1>2. g = [h EXCEPT !.strings = Released(h, item), !.string[item] = NULL]
  OBVIOUS
<1> HIDE DEF g
<1>3. /\ g.next = h.next /\ g.prev = h.prev /\ g.child = h.child
      /\ g.reference = h.reference /\ g.live = h.live /\ g.const = h.const
      /\ g.string = [h.string EXCEPT ![item] = NULL]
      /\ g.strings = Released(h, item)
      /\ g \in [next : {g.next}, prev : {g.prev}, child : {g.child}, string : {g.string}, reference : {g.reference},
                const : {g.const}, live : {g.live}, strings : {g.strings}]
  BY <1>1, <1>2 DEF Heap
<1>4. /\ g.string[item] = NULL /\ \A n \in Nodes : n # item => g.string[n] = h.string[n]
      /\ g.string \in [Nodes -> Names \cup {NULL}] /\ g.const \subseteq Nodes
  BY <1>1, <1>3 DEF Heap
<1>5. ~OwnsKey(g, item)
  BY <1>4 DEF OwnsKey
<1>6. Released(h, item) = Released(h, item) + 0
  <2>1. h.strings \in Nat
    BY <1>1 DEF Heap
  <2>2. QED
    BY <2>1 DEF Released
<1>7. Rekeyed(h, g, item)
  BY <1>3, <1>4, <1>5, <1>6 DEF Rekeyed
<1>8. Sound(g, L, O)
  BY <1>7, RekeyedSound
<1>9. QED
  BY <1>8 DEF g

-----------------------------------------------------------------------------
(* An array that is made with its items.                                     *)

LEMMA SubsetOfSize ==
  ASSUME NEW S, IsFiniteSet(S), NEW k \in 0 .. Cardinality(S)
  PROVE  \E T \in SUBSET S : Cardinality(T) = k
<1>1. Cardinality(S) \in Nat /\ ExistsBijection(1 .. Cardinality(S), S)
  BY FS_CardinalityType
<1>2. PICK f : f \in Bijection(1 .. Cardinality(S), S)
  BY <1>1 DEF ExistsBijection
<1>3. f \in [1 .. Cardinality(S) -> S] /\ \A i, j \in 1 .. Cardinality(S) : f[i] = f[j] => i = j
  BY <1>2 DEF Bijection, Injection, IsInjective
<1> DEFINE T == {f[i] : i \in 1 .. k}
           g == [i \in 1 .. k |-> f[i]]
<1>4. k \in Nat /\ \A i \in 1 .. k : i \in 1 .. Cardinality(S)
  BY <1>1
<1>5. T \subseteq S
  BY <1>3, <1>4
<1>6. g \in Bijection(1 .. k, T)
  <2>1. g \in [1 .. k -> T] /\ \A i, j \in 1 .. k : g[i] = g[j] => i = j
    BY <1>3, <1>4
  <2>2. \A t \in T : \E i \in 1 .. k : g[i] = t
    OBVIOUS
  <2> HIDE DEF g, T
  <2>3. QED
    BY <2>1, <2>2 DEF Bijection, Injection, Surjection, IsInjective
<1>7. Cardinality(T) = k
  <2>1. ExistsBijection(1 .. k, T)
    BY <1>6 DEF ExistsBijection
  <2> HIDE DEF T
  <2>2. QED
    BY <1>4, <2>1, FS_CountingElements
<1>8. QED
  BY <1>5, <1>7

\* The addresses that CreateArrayOf takes: one for the array and some for its items.
LEMMA TakenIs ==
  ASSUME NEW h \in Heap, NEW count \in 0 .. Cardinality(Nodes \ h.live) - 1
  PROVE  LET taken == CHOOSE S \in SUBSET (Nodes \ h.live) : Cardinality(S) = count + 1
             list == SetToSeq(taken \ {Min(taken)})
         IN  /\ Min(taken) \in Nodes \ h.live
             /\ list \in Seq(Nodes) /\ Distinct(list)
             /\ \A n : In(list, n) => n \in Nodes \ h.live /\ n # Min(taken)
<1> DEFINE free == Nodes \ h.live
           taken == CHOOSE S \in SUBSET free : Cardinality(S) = count + 1
           rest == taken \ {Min(taken)}
           list == SetToSeq(rest)
<1>1. IsFiniteSet(free) /\ Cardinality(free) \in Nat
  BY Sizes, FS_Difference, FS_CardinalityType
<1>2. taken \in SUBSET free /\ Cardinality(taken) = count + 1
  <2>1. count + 1 \in 0 .. Cardinality(free)
    BY <1>1
  <2> HIDE DEF free
  <2>2. \E T \in SUBSET free : Cardinality(T) = count + 1
    BY <1>1, <2>1, SubsetOfSize
  <2>3. QED
    BY <2>2
<1> HIDE DEF free, taken
<1>3. IsFiniteSet(taken) /\ taken # {}
  <2>1. IsFiniteSet(taken)
    BY <1>1, <1>2, FS_Subset
  <2>2. count + 1 # 0
    BY <1>1
  <2>3. QED
    BY <1>2, <2>1, <2>2, FS_EmptySet
<1>4. Min(taken) \in taken
  <2>1. taken \subseteq Nat
    BY <1>2, NodesAssumption DEF free
  <2>2. \E x \in taken : \A y \in taken : x <= y
    BY <1>3, <2>1, Smallest
  <2>3. QED
    BY <2>2 DEF Min
<1> HIDE DEF rest
<1>5. IsFiniteSet(rest)
  BY <1>3, FS_RemoveElement DEF rest
<1>6. Cardinality(rest) \in Nat /\ ExistsBijection(1 .. Cardinality(rest), rest)
  BY <1>5, FS_CardinalityType
<1>7. list \in [1 .. Cardinality(rest) -> rest] /\ IsInjective(list)
  <2>1. PICK f : f \in Bijection(1 .. Cardinality(rest), rest)
    BY <1>6 DEF ExistsBijection
  <2>2. f \in [1 .. Cardinality(rest) -> rest] /\ IsInjective(f)
    BY <2>1 DEF Bijection, Injection
  <2>3. \E g \in [1 .. Cardinality(rest) -> rest] : IsInjective(g)
    BY <2>2
  <2>4. QED
    BY <2>3 DEF SetToSeq
<1> HIDE DEF list
<1>8. rest \subseteq free /\ Min(taken) \notin rest
  BY <1>2 DEF rest
<1>9. list \in Seq(rest) /\ Len(list) = Cardinality(rest)
  BY <1>6, <1>7
<1>10. list \in Seq(Nodes)
  BY <1>8, <1>9 DEF free
<1>11. Distinct(list)
  BY <1>7, <1>9 DEF Distinct, IsInjective
<1>12. \A n : In(list, n) => n \in rest
  BY <1>7, <1>9 DEF In
<1>13. QED
  BY <1>2, <1>4, <1>8, <1>10, <1>11, <1>12 DEF list, rest, taken, free

LEMMA LinkedSound ==
  ASSUME NEW h, NEW L, NEW O, Sound(h, L, O), NEW a \in Nodes \ h.live, NEW list \in Seq(Nodes), Distinct(list),
         \A n : In(list, n) => n \in Nodes \ h.live /\ n # a
  PROVE  /\ Sound(Linked(h, a, list), [L EXCEPT ![a] = list], O \cup {a})
         /\ \A n \in Nodes : n \in Linked(h, a, list).live <=> n \in h.live \/ n = a \/ In(list, n)
<1> DEFINE g == Linked(h, a, list)
           l == Len(list)
           M == [L EXCEPT ![a] = list]
           more == {a} \cup {n \in Nodes : In(list, n)}
           h1 == [h EXCEPT !.live = @ \cup more]
<1>1. /\ h \in Heap /\ Represents(h, L) /\ Blank(h) /\ h.live \subseteq Nodes /\ O \subseteq Nodes
      /\ \A m \in Nodes : m \in h.live <=> Placed(L, m) \/ m \in O
      /\ \A m \in O : ~Placed(L, m)
      /\ h.strings = Cardinality(Keys(h))
  BY DEF Sound, Owned, Heap, Counted
<1>2. l \in Nat /\ \A k \in 1 .. l : list[k] \in Nodes /\ list[k] # 0 /\ In(list, list[k])
  BY NodesAssumption DEF In
<1>3. Range(list) = {n \in Nodes : In(list, n)}
  <2>1. DOMAIN list = 1 .. l
    OBVIOUS
  <2>2. QED
    BY <1>2, <2>1 DEF Range, In
<1>4. \A j, k \in 1 .. l : list[j] = list[k] => j = k
  BY DEF Distinct
<1>5. \A n \in more : n \in Nodes /\ n \notin h.live /\ ~Placed(L, n) /\ n \notin O /\ h.child[n] = 0 /\ h.string[n] = NULL
                      /\ n \notin h.reference /\ h.next[n] = 0 /\ h.prev[n] = 0
  BY <1>1 DEF Blank, Represents
<1> DEFINE first == IF l = 0 THEN 0 ELSE list[1]
           next == [n \in Nodes |-> IF \E k \in 1 .. l - 1 : list[k] = n
                                    THEN list[1 + CHOOSE k \in 1 .. l : list[k] = n] ELSE h.next[n]]
           prev == [n \in Nodes |-> IF \E k \in 1 .. l : list[k] = n
                                    THEN LET k == CHOOSE k \in 1 .. l : list[k] = n
                                         IN list[IF k = 1 THEN l ELSE k - 1] ELSE h.prev[n]]
<1>6. /\ h.next \in Link /\ h.prev \in Link /\ h.child \in Link
  BY <1>1 DEF Heap, Link
<1>7. /\ \A k \in 1 .. l : next[list[k]] = After(list, k) /\ prev[list[k]] = Before(list, k)
      /\ \A n \in Nodes : ~In(list, n) => next[n] = h.next[n] /\ prev[n] = h.prev[n]
  <2>1. ASSUME NEW k \in 1 .. l PROVE next[list[k]] = After(list, k) /\ prev[list[k]] = Before(list, k)
    <3>1. list[k] \in Nodes /\ (CHOOSE j \in 1 .. l : list[j] = list[k]) = k
      BY <1>2, <1>4
    <3>2. (\E j \in 1 .. l - 1 : list[j] = list[k]) <=> k # l
      BY <1>2, <1>4
    <3>3. h.next[list[k]] = 0
      BY <1>2, <1>5
    <3>4. next[list[k]] = After(list, k)
      <4>1. next[list[k]] = IF k # l THEN list[1 + k] ELSE h.next[list[k]]
        BY <3>1, <3>2
      <4>2. 1 + k = k + 1
        BY <1>2
      <4>3. QED
        BY <3>3, <4>1, <4>2 DEF After
    <3>5. prev[list[k]] = Before(list, k)
      BY <1>2, <3>1 DEF Before
    <3>6. QED
      BY <3>4, <3>5
  <2>2. ASSUME NEW n \in Nodes, ~In(list, n) PROVE next[n] = h.next[n] /\ prev[n] = h.prev[n]
    <3>1. ~\E k \in 1 .. l : list[k] = n
      BY <2>2 DEF In
    <3>2. ~\E k \in 1 .. l - 1 : list[k] = n
      BY <1>2, <3>1
    <3>3. QED
      BY <3>1, <3>2
  <2>3. QED
    BY <2>1, <2>2
<1>8. next \in Link /\ prev \in Link /\ first \in Nodes \cup {0}
  <2>1. \A n \in Nodes : In(list, n) \/ ~In(list, n)
    OBVIOUS
  <2>2. \A k \in 1 .. l : After(list, k) \in Nodes \cup {0} /\ Before(list, k) \in Nodes \cup {0}
    BY <1>2 DEF After, Before
  <2>3. first \in Nodes \cup {0}
    BY <1>2
  <2>4. \A n \in Nodes : next[n] \in Nodes \cup {0} /\ prev[n] \in Nodes \cup {0}
    <3> HIDE DEF next, prev, first
    <3>1. ASSUME NEW n \in Nodes, In(list, n) PROVE next[n] \in Nodes \cup {0} /\ prev[n] \in Nodes \cup {0}
      <4>1. PICK k \in 1 .. l : list[k] = n
        BY <3>1 DEF In
      <4>2. QED
        BY <1>7, <2>2, <4>1
    <3>2. ASSUME NEW n \in Nodes, ~In(list, n) PROVE next[n] \in Nodes \cup {0} /\ prev[n] \in Nodes \cup {0}
      BY <1>6, <1>7, <3>2 DEF Link
    <3>3. QED
      BY <3>1, <3>2
  <2>5. QED
    BY <2>3, <2>4 DEF Link
<1>9. g = [h EXCEPT !.live = @ \cup {a} \cup Range(list), !.child[a] = first, !.next = next, !.prev = prev]
  <2>1. /\ next = [n \in Nodes |-> IF \E k \in 1 .. Len(list) - 1 : list[k] = n
                                    THEN list[1 + CHOOSE k \in 1 .. Len(list) : list[k] = n] ELSE h.next[n]]
        /\ prev = [n \in Nodes |-> IF \E k \in 1 .. Len(list) : list[k] = n
                                    THEN LET k == CHOOSE k \in 1 .. Len(list) : list[k] = n
                                         IN list[IF k = 1 THEN Len(list) ELSE k - 1] ELSE h.prev[n]]
        /\ first = IF Len(list) = 0 THEN 0 ELSE list[1]
    OBVIOUS
  <2> HIDE DEF next, prev, first
  <2>2. QED
    BY <2>1 DEF Linked
<1> HIDE DEF g, next, prev, first, M
<1>10. /\ g.live = h.live \cup more /\ g.next = next /\ g.prev = prev /\ g.child = [h.child EXCEPT ![a] = first]
       /\ g.string = h.string /\ g.reference = h.reference /\ g.const = h.const /\ g.strings = h.strings
       /\ g \in Heap
  BY <1>1, <1>3, <1>5, <1>8, <1>9 DEF Heap, Link
<1>11. h1.live = h.live \cup more /\ h1.next = h.next /\ h1.prev = h.prev /\ h1.child = h.child
       /\ h1.reference = h.reference
  BY <1>1 DEF Heap
<1> HIDE DEF h1
<1>12. Represents(h1, L)
  <2>1. /\ \A b \in Nodes : b \in Containers(h) => b \in Containers(h1) /\ h1.child[b] = h.child[b]
        /\ Containers(h1) \subseteq Nodes
        /\ \A b \in Containers(h1) : b \notin Containers(h) => h1.child[b] = 0
    BY <1>1, <1>5, <1>11 DEF Containers
  <2>2. QED
    BY <1>1, <1>11, <2>1, SameLinks
<1>13. Containers(g) = Containers(h1) /\ a \in Containers(h1)
  BY <1>5, <1>10, <1>11 DEF Containers
<1>14. Len(L[a]) = 0 /\ \A n : ~In(L[a], n)
  <2>1. a \notin Containers(h) /\ a \in Nodes
    BY DEF Containers
  <2>2. QED
    BY <1>1, <2>1 DEF Represents, In
<1>15. Changed(h1, g, L, a, list)
  <2>1. IsList(g.next, g.prev, g.child[a], list)
    <3>1. g.child[a] = first
      BY <1>6, <1>10 DEF Link
    <3>2. QED
      BY <1>7, <1>10, <3>1 DEF IsList, first, l
  <2>2. \A b \in Nodes : b # a => g.child[b] = h1.child[b]
    BY <1>6, <1>10, <1>11 DEF Link
  <2>3. \A n \in Nodes : ~In(list, n) => g.next[n] = h1.next[n] /\ g.prev[n] = h1.prev[n]
    BY <1>7, <1>10, <1>11
  <2>4. \A n \in Nodes : In(list, n) => ~Placed(L, n)
    BY <1>5
  <2>5. h1.live \subseteq Nodes
    BY <1>1, <1>11
  <2>6. QED
    BY <1>13, <1>14, <2>1, <2>2, <2>3, <2>4, <2>5 DEF Changed
<1>16. /\ Represents(g, M)
       /\ \A n \in Nodes : Placed(M, n) <=> (Placed(L, n) /\ ~In(L[a], n)) \/ In(list, n)
  BY <1>12, <1>15, OneList DEF M
<1>17. Owned(g, M, O \cup {a})
  BY <1>1, <1>5, <1>10, <1>14, <1>16 DEF Owned
<1>18. Blank(g)
  <2>1. \A n \in Nodes \ g.live : n # a /\ n \notin h.live
    BY <1>10
  <2>2. QED
    BY <1>1, <1>6, <1>10, <2>1 DEF Blank, Link
<1>19. Counted(g)
  <2>1. \A n \in more : ~OwnsKey(g, n)
    BY <1>5, <1>10 DEF OwnsKey
  <2>2. Keys(g) = Keys(h)
    BY <1>10, <2>1 DEF Keys, OwnsKey
  <2>3. QED
    BY <1>1, <1>10, <2>2 DEF Counted
<1>20. Sound(g, M, O \cup {a})
  BY <1>10, <1>16, <1>17, <1>18, <1>19 DEF Sound
<1>21. \A n \in Nodes : n \in g.live <=> n \in h.live \/ n = a \/ In(list, n)
  BY <1>10
<1>22. QED
  BY <1>20, <1>21 DEF g, M

-----------------------------------------------------------------------------
(* Duplicating: the ways down from an item.                                  *)

\* Whatever the child points to, the items from there on are a sequence of its own.
LEMMA ItemsAre ==
  ASSUME NEW h \in Heap, NEW L, Represents(h, L), NEW x \in Nodes
  PROVE  /\ Items(h, x) \in Seq(Nodes) /\ Distinct(Items(h, x))
         /\ h.child[x] = 0 <=> Len(Items(h, x)) = 0
         /\ h.child[x] # 0 => Items(h, x)[1] = h.child[x]
<1> DEFINE c == h.child[x]
<1>1. c \in Nodes \cup {0} /\ Items(h, x) = Chain(h, c) /\ 0 \notin Nodes
  BY NodesAssumption DEF Heap, Items
<1> HIDE DEF c
<1>2. CASE c = 0
  <2>1. Items(h, x) = << >>
    BY <1>1, <1>2, ChainNone
  <2>2. << >> \in Seq(Nodes) /\ Len(<< >>) = 0 /\ Distinct(<< >>)
    BY DEF Distinct
  <2>3. QED
    BY <1>2, <2>1, <2>2 DEF c
<1>3. CASE c # 0 /\ ~Placed(L, c)
  <2>1. c \in Nodes /\ h.next[c] = 0
    BY <1>1, <1>3 DEF Represents
  <2>2. Items(h, x) = <<c>>
    BY <1>1, <2>1, ChainAlone
  <2>3. <<c>> \in Seq(Nodes) /\ Len(<<c>>) = 1 /\ <<c>>[1] = c
    BY <2>1
  <2>4. Distinct(<<c>>)
    BY <2>3 DEF Distinct
  <2>5. QED
    BY <1>3, <2>2, <2>3, <2>4 DEF c
<1>4. CASE c # 0 /\ Placed(L, c)
  <2>a. PICK b \in Nodes : In(L[b], c)
    BY <1>4 DEF Placed
  <2>1. PICK j \in 1 .. Len(L[b]) : L[b][j] = c
    BY <2>a DEF In
  <2> DEFINE s == L[b]
             k == Len(s) - j + 1
             p == Piece(s, j, k)
  <2>2. s \in Seq(Nodes) /\ Distinct(s) /\ b \in Containers(h)
    BY <2>1 DEF Represents
  <2>3. \A i \in 1 .. Len(s) : h.next[s[i]] = After(s, i)
    BY <2>2 DEF Represents, IsList
  <2>4. Items(h, x) = p
    <3> HIDE DEF s
    <3>1. j \in 1 .. Len(s) /\ s[j] = c
      BY <2>1 DEF s
    <3>2. QED
      BY <1>1, <2>2, <2>3, <3>1, ChainFrom
  <2>5. k \in Nat /\ k >= 1 /\ \A i \in 1 .. k : i + (j - 1) \in 1 .. Len(s)
    BY <2>1, <2>2
  <2>6. \A i \in 1 .. k : s[i + (j - 1)] \in Nodes
    BY <2>2, <2>5
  <2> HIDE DEF s, k
  <2>7. p \in Seq(Nodes) /\ Len(p) = k
    BY <2>5, <2>6, IsASeq DEF Piece
  <2>8. Distinct(p)
    <3>1. ASSUME NEW i \in 1 .. k, NEW o \in 1 .. k, p[i] = p[o] PROVE i = o
      <4>1. s[i + (j - 1)] = s[o + (j - 1)]
        BY <3>1 DEF Piece
      <4>2. i + (j - 1) = o + (j - 1)
        BY <2>2, <2>5, <4>1 DEF Distinct
      <4>3. j \in Int
        OBVIOUS
      <4>4. QED
        BY <4>2, <4>3
    <3>2. QED
      BY <2>7, <3>1 DEF Distinct
  <2>9. p[1] = c
    <3>1. 1 \in 1 .. k /\ 1 + (j - 1) = j
      BY <2>5
    <3>2. QED
      BY <2>1, <3>1 DEF Piece, s
  <2>10. QED
    BY <1>4, <2>4, <2>5, <2>7, <2>8, <2>9 DEF c
<1>5. QED
  BY <1>2, <1>3, <1>4

LEMMA AppendIs ==
  ASSUME NEW u \in Seq(Nodes), Len(u) >= 1, NEW n \in Nodes
  PROVE  LET w == Append(u, n)
         IN  /\ w \in Seq(Nodes) /\ Len(w) = Len(u) + 1 /\ Last(w) = n
             /\ w[Len(w) - 1] = Last(u) /\ Front(w) = u /\ w[1] = u[1]
<1> DEFINE w == Append(u, n)
<1>1. /\ w \in Seq(Nodes) /\ Len(w) = Len(u) + 1 /\ w[Len(u) + 1] = n /\ Len(u) \in Nat
      /\ \A k \in 1 .. Len(u) : w[k] = u[k]
  OBVIOUS
<1> HIDE DEF w
<1>2. Last(w) = n /\ w[Len(w) - 1] = Last(u) /\ w[1] = u[1]
  <2>1. Len(u) \in 1 .. Len(u) /\ 1 \in 1 .. Len(u) /\ Len(w) - 1 = Len(u)
    BY <1>1
  <2>2. QED
    BY <1>1, <2>1 DEF Last
<1>3. Front(w) = u
  <2>1. Len(w) - 1 = Len(u)
    BY <1>1
  <2>2. Front(w) = SubSeq(w, 1, Len(u))
    BY <2>1 DEF Front
  <2>3. SubSeq(w, 1, Len(u)) = [i \in 1 .. Len(u) |-> w[i]]
    BY <1>1
  <2>4. u = [i \in 1 .. Len(u) |-> u[i]]
    OBVIOUS
  <2>5. QED
    BY <1>1, <2>2, <2>3, <2>4
<1>4. QED
  BY <1>1, <1>2, <1>3 DEF w

\* W has the ways down from x: it and, with recurse, each way to an item of a way's last.
Kid(h, u, k) == Append(u, Items(h, Last(u))[k])
Kids(h, u) == 1 .. Len(Items(h, Last(u)))
Down(W, h, x, recurse) ==
  /\ W \subseteq Seq(Nodes) /\ <<x>> \in W
  /\ \A w \in W : Len(w) >= 1 /\ (Len(w) = 1 => w = <<x>>)
  /\ \A w \in W : Len(w) > 1 => recurse /\ \E u \in W : \E k \in Kids(h, u) : w = Kid(h, u, k)
  /\ recurse => \A u \in W : \A k \in Kids(h, u) : Kid(h, u, k) \in W

\* Ways is what its recursion says.
Levels(S, depth, f) ==
  /\ f[0] = S /\ \A k \in 0 .. depth - 1 : f[k + 1] = Further(f[k])

LEMMA WaysIs ==
  ASSUME TypeOK, NEW L, Represents(heap, L), NEW S, S \subseteq {w \in Seq(Nodes) : Len(w) >= 1}, NEW depth \in Nat
  PROVE  \E f \in [0 .. depth -> SUBSET {w \in Seq(Nodes) : Len(w) >= 1}] :
           Levels(S, depth, f) /\ Ways(S, depth) = UNION {f[k] : k \in 0 .. depth}
<1> DEFINE B == {w \in Seq(Nodes) : Len(w) >= 1}
           V == SUBSET B
           m == depth
           G == [p \in V \X (1 .. m) |-> Further(p[1])]
           level == CHOOSE f : f = [k \in 0 .. m |-> IF k = 0 THEN S ELSE Further(f[k - 1])]
<1>1. m \in Nat /\ S \in V /\ heap \in Heap
  BY DEF TypeOK
<1>2. \A T \in V : Further(T) \in V
  <2>1. SUFFICES ASSUME NEW T \in V, NEW w \in T, NEW n \in Range(Items(heap, Last(w))) PROVE Append(w, n) \in B
    BY DEF Further
  <2>2. w \in Seq(Nodes) /\ Len(w) >= 1 /\ Last(w) \in Nodes
    <3>1. w \in Seq(Nodes) /\ Len(w) >= 1
      OBVIOUS
    <3>2. QED
      BY <3>1 DEF Last
  <2>3. Items(heap, Last(w)) \in Seq(Nodes)
    BY <1>1, <2>2, ItemsAre
  <2>4. n \in Nodes
    BY <2>3 DEF Range
  <2>5. Append(w, n) \in Seq(Nodes) /\ Len(Append(w, n)) = Len(w) + 1
    BY <2>2, <2>4, AppendIs
  <2>6. Len(w) \in Nat
    BY <2>2
  <2>7. QED
    BY <2>2, <2>5, <2>6
<1>3. G \in [V \X (1 .. m) -> V]
  <2> HIDE DEF V
  <2>1. QED
    BY <1>2
<1> HIDE DEF V, m
<1>4. PICK f \in [0 .. m -> V] : Recursive(f, S, G, m)
  <2> HIDE DEF G
  <2>1. QED
    BY <1>1, <1>3, Recursion
<1>5. f = [k \in 0 .. m |-> IF k = 0 THEN S ELSE Further(f[k - 1])]
  <2>1. \A k \in 1 .. m : f[k - 1] \in V /\ G[<<f[k - 1], k>>] = Further(f[k - 1])
    BY <1>1, <1>4
  <2>2. f = [k \in 0 .. m |-> IF k = 0 THEN S ELSE G[<<f[k - 1], k>>]]
    BY <1>4 DEF Recursive
  <2>3. \A k \in 0 .. m : k # 0 => k \in 1 .. m
    BY <1>1
  <2> HIDE DEF G
  <2>4. QED
    BY <2>1, <2>2, <2>3
<1>6. level = [k \in 0 .. m |-> IF k = 0 THEN S ELSE Further(level[k - 1])]
  BY <1>5
<1>7. Ways(S, depth) = UNION {level[k] : k \in 0 .. m}
  BY DEF Ways, m
<1> HIDE DEF level
<1>8. 0 \in 0 .. m /\ \A k \in 0 .. m - 1 : k + 1 \in 0 .. m /\ k + 1 # 0 /\ (k + 1) - 1 = k
  BY <1>1
<1>9. level[0] = S /\ \A k \in 0 .. m - 1 : level[k + 1] = Further(level[k])
  BY <1>6, <1>8
<1> DEFINE T == {k \in 0 .. m : level[k] \in V}
<1>10. 0 \in T /\ \A k \in 0 .. m - 1 : k \in T => k + 1 \in T
  BY <1>1, <1>2, <1>8, <1>9
<1> HIDE DEF T
<1>11. \A k \in 0 .. m : k \in T
  BY <1>1, <1>10, Inductively
<1>12. level \in [0 .. m -> V]
  BY <1>6, <1>11 DEF T
<1>13. QED
  BY <1>7, <1>9, <1>12 DEF Levels, V, m

\* A finite set has finitely many images.
LEMMA FiniteImage ==
  ASSUME NEW S, IsFiniteSet(S), NEW f, DOMAIN f = S, f = [s \in S |-> f[s]]
  PROVE  IsFiniteSet({f[s] : s \in S})
<1> DEFINE T == {f[s] : s \in S}
<1>1. f \in [S -> T] /\ \A t \in T : \E s \in S : f[s] = t
  OBVIOUS
<1> HIDE DEF T
<1>2. f \in Surjection(S, T)
  BY <1>1 DEF Surjection
<1>3. IsFiniteSet(T)
  BY <1>2, FS_Surjection
<1>4. QED
  BY <1>3 DEF T

\* The items of the ways in S, each the way with an item of its last.
LEMMA FurtherIs ==
  ASSUME TypeOK, NEW L, Represents(heap, L), NEW S, S \subseteq {w \in Seq(Nodes) : Len(w) >= 1}
  PROVE  /\ \A w : w \in Further(S) <=> \E u \in S : \E k \in Kids(heap, u) : w = Kid(heap, u, k)
         /\ \A u \in S : \A k \in Kids(heap, u) : Kid(heap, u, k) \in Seq(Nodes) /\ Len(Kid(heap, u, k)) = Len(u) + 1
         /\ IsFiniteSet(S) => IsFiniteSet(Further(S))
<1>1. \A u \in S : u \in Seq(Nodes) /\ Len(u) >= 1 /\ Last(u) \in Nodes
  <2>1. ASSUME NEW u \in S PROVE u \in Seq(Nodes) /\ Len(u) >= 1 /\ Last(u) \in Nodes
    <3>1. u \in Seq(Nodes) /\ Len(u) >= 1
      OBVIOUS
    <3>2. Len(u) \in 1 .. Len(u)
      BY <3>1
    <3>3. QED
      BY <3>1, <3>2 DEF Last
  <2>2. QED
    BY <2>1
<1>2. \A u \in S : Items(heap, Last(u)) \in Seq(Nodes)
  <2>1. heap \in Heap
    BY DEF TypeOK
  <2>2. QED
    BY <1>1, <2>1, ItemsAre
<1> DEFINE List(u) == Items(heap, Last(u))
           F == [u \in S |-> {Append(u, n) : n \in Range(List(u))}]
<1>3. \A u \in S : Range(List(u)) = {List(u)[k] : k \in Kids(heap, u)} /\ Range(List(u)) \subseteq Nodes
  <2>1. ASSUME NEW u \in S PROVE Range(List(u)) = {List(u)[k] : k \in Kids(heap, u)} /\ Range(List(u)) \subseteq Nodes
    <3>1. List(u) \in Seq(Nodes)
      BY <1>2
    <3> HIDE DEF List
    <3>2. DOMAIN List(u) = 1 .. Len(List(u)) /\ \A k \in 1 .. Len(List(u)) : List(u)[k] \in Nodes
      BY <3>1
    <3>3. Kids(heap, u) = 1 .. Len(List(u))
      BY DEF Kids, List
    <3>4. QED
      BY <3>2, <3>3 DEF Range
  <2>2. QED
    BY <2>1
<1>4. ASSUME NEW w PROVE w \in Further(S) <=> \E u \in S : \E k \in Kids(heap, u) : w = Kid(heap, u, k)
  <2>1. w \in Further(S) <=> \E u \in S : \E n \in Range(List(u)) : w = Append(u, n)
    BY DEF Further
  <2>2. QED
    BY <1>3, <2>1 DEF Kid
<1>5. ASSUME NEW u \in S, NEW k \in Kids(heap, u)
      PROVE  Kid(heap, u, k) \in Seq(Nodes) /\ Len(Kid(heap, u, k)) = Len(u) + 1
  <2>1. List(u)[k] \in Nodes
    BY <1>3
  <2>2. QED
    BY <1>1, <2>1, AppendIs DEF Kid
<1>6. ASSUME IsFiniteSet(S) PROVE IsFiniteSet(Further(S))
  <2>1. ASSUME NEW u \in S PROVE IsFiniteSet(F[u])
    <3> DEFINE R == Range(List(u))
               g == [n \in R |-> Append(u, n)]
    <3>1. IsFiniteSet(R)
      <4>1. R \subseteq Nodes
        BY <1>3
      <4> HIDE DEF R
      <4>2. QED
        BY <4>1, Sizes, FS_Subset
    <3>2. IsFiniteSet({g[n] : n \in R})
      <4>1. DOMAIN g = R /\ g = [n \in R |-> g[n]]
        OBVIOUS
      <4> HIDE DEF g, R
      <4>2. QED
        BY <3>1, <4>1, FiniteImage
    <3>3. F[u] = {g[n] : n \in R}
      OBVIOUS
    <3>4. QED
      BY <3>2, <3>3
  <2>2. Further(S) = UNION {F[u] : u \in S}
    BY DEF Further
  <2>3. IsFiniteSet({F[u] : u \in S})
    <3>1. DOMAIN F = S /\ F = [u \in S |-> F[u]]
      OBVIOUS
    <3> HIDE DEF F
    <3>2. QED
      BY <1>6, <3>1, FiniteImage
  <2> HIDE DEF F
  <2>4. QED
    BY <2>1, <2>2, <2>3, FS_UNION
<1>7. QED
  BY <1>4, <1>5, <1>6

LEMMA DownIs ==
  ASSUME TypeOK, NEW L, Represents(heap, L), NEW x \in Nodes,
         \A way \in Ways({<<x>>}, CJSON_CIRCULAR_LIMIT) :
           Len(way) > CJSON_CIRCULAR_LIMIT => heap.child[Last(way)] = 0
  PROVE  LET W == Ways({<<x>>}, CJSON_CIRCULAR_LIMIT)
         IN  IsFiniteSet(W) /\ Down(W, heap, x, TRUE)
<1> DEFINE m == CJSON_CIRCULAR_LIMIT
           S == {<<x>>}
           W == Ways(S, m)
           B == {w \in Seq(Nodes) : Len(w) >= 1}
<1>1. m \in Nat /\ heap \in Heap
  BY LimitAssumption DEF TypeOK
<1>2. <<x>> \in Seq(Nodes) /\ Len(<<x>>) = 1
  OBVIOUS
<1>3. S \subseteq B
  BY <1>2
<1>4. PICK f \in [0 .. m -> SUBSET B] : Levels(S, m, f) /\ W = UNION {f[k] : k \in 0 .. m}
  BY <1>1, <1>3, WaysIs
<1>5. f[0] = S /\ \A k \in 0 .. m - 1 : f[k + 1] = Further(f[k]) /\ k \in 0 .. m /\ k + 1 \in 0 .. m /\ f[k] \subseteq B
  BY <1>1, <1>4 DEF Levels
<1>6. \A k \in 0 .. m - 1 : \A w : w \in f[k + 1] <=> \E u \in f[k] : \E i \in Kids(heap, u) : w = Kid(heap, u, i)
  BY <1>5, FurtherIs
<1>7. \A k \in 0 .. m - 1 : \A u \in f[k] : \A i \in Kids(heap, u) : Len(Kid(heap, u, i)) = Len(u) + 1
  BY <1>5, FurtherIs
<1> HIDE DEF W, B
<1> DEFINE T == {k \in 0 .. m : IsFiniteSet(f[k]) /\ \A w \in f[k] : Len(w) = k + 1}
<1>8. \A k \in 0 .. m : IsFiniteSet(f[k]) /\ \A w \in f[k] : Len(w) = k + 1
  <2>1. 0 \in T
    <3>1. IsFiniteSet(f[0])
      BY <1>5, FS_Singleton
    <3>2. QED
      BY <1>1, <1>2, <1>5, <3>1
  <2>2. ASSUME NEW k \in 0 .. m - 1, k \in T PROVE k + 1 \in T
    <3>1. IsFiniteSet(f[k]) /\ \A w \in f[k] : Len(w) = k + 1
      BY <2>2
    <3>2. f[k + 1] = Further(f[k]) /\ f[k] \subseteq B
      BY <1>5
    <3>3. IsFiniteSet(f[k + 1])
      <4>1. f[k] \subseteq {w \in Seq(Nodes) : Len(w) >= 1}
        BY <3>2 DEF B
      <4> HIDE DEF T
      <4>2. QED
        BY <3>1, <3>2, <4>1, FurtherIs
    <3>4. \A w \in f[k + 1] : Len(w) = (k + 1) + 1
      BY <1>6, <1>7, <3>1
    <3>5. QED
      BY <1>5, <3>3, <3>4
  <2> HIDE DEF T
  <2>3. \A k \in 0 .. m : k \in T
    BY <1>1, <2>1, <2>2, Inductively
  <2>4. QED
    BY <2>3 DEF T
<1>9. IsFiniteSet(W)
  <2>1. IsFiniteSet(0 .. m)
    BY <1>1, FS_Interval
  <2>2. DOMAIN f = 0 .. m /\ f = [k \in 0 .. m |-> f[k]]
    BY <1>4
  <2>3. IsFiniteSet({f[k] : k \in 0 .. m})
    <3> DEFINE F == {f[k] : k \in 0 .. m}
    <3>1. f \in [0 .. m -> F] /\ \A t \in F : \E k \in 0 .. m : f[k] = t
      BY <2>2
    <3> HIDE DEF F
    <3>2. f \in Surjection(0 .. m, F)
      BY <3>1 DEF Surjection
    <3>3. IsFiniteSet(F)
      BY <2>1, <3>2, FS_Surjection
    <3>4. QED
      BY <3>3 DEF F
  <2>4. \A k \in 0 .. m : IsFiniteSet(f[k])
    BY <1>8
  <2>5. IsFiniteSet(UNION {f[k] : k \in 0 .. m})
    BY <2>3, <2>4, FS_UNION
  <2>6. QED
    BY <1>4, <2>5
<1>10. W \subseteq Seq(Nodes) /\ <<x>> \in W
  <2>1. 0 \in 0 .. m
    BY <1>1
  <2>2. QED
    BY <1>4, <1>5, <2>1 DEF B
<1>11. ASSUME NEW w \in W PROVE Len(w) >= 1 /\ (Len(w) = 1 => w = <<x>>)
  <2>1. PICK k \in 0 .. m : w \in f[k]
    BY <1>4
  <2>2. Len(w) = k + 1
    BY <1>8, <2>1
  <2>3. QED
    BY <1>1, <1>5, <2>1, <2>2
<1>12. ASSUME NEW w \in W, Len(w) > 1 PROVE \E u \in W : \E k \in Kids(heap, u) : w = Kid(heap, u, k)
  <2>1. PICK k \in 0 .. m : w \in f[k]
    BY <1>4
  <2>2. Len(w) = k + 1
    BY <1>8, <2>1
  <2>3. k - 1 \in 0 .. m - 1 /\ (k - 1) + 1 = k
    BY <1>1, <1>12, <2>2
  <2>4. \E u \in f[k - 1] : \E i \in Kids(heap, u) : w = Kid(heap, u, i)
    BY <1>6, <2>1, <2>3
  <2>5. k - 1 \in 0 .. m
    BY <1>5, <2>3
  <2>6. QED
    BY <1>4, <2>4, <2>5
<1>13. ASSUME NEW u \in W, NEW k \in Kids(heap, u) PROVE Kid(heap, u, k) \in W
  <2>1. PICK i \in 0 .. m : u \in f[i]
    BY <1>4
  <2>2. Len(u) = i + 1
    BY <1>8, <2>1
  <2>3. i # m
    <3>1. SUFFICES ASSUME i = m PROVE FALSE
      OBVIOUS
    <3>2. heap.child[Last(u)] = 0
      BY <1>1, <2>2, <3>1 DEF W
    <3>3. Last(u) \in Nodes
      <4>1. u \in Seq(Nodes) /\ Len(u) \in 1 .. Len(u)
        BY <1>1, <1>10, <2>2
      <4>2. QED
        BY <4>1 DEF Last
    <3>4. Len(Items(heap, Last(u))) = 0
      BY <1>1, <3>2, <3>3, ItemsAre
    <3>5. QED
      BY <3>4 DEF Kids
  <2>4. i \in 0 .. m - 1
    BY <1>1, <2>3
  <2>5. Kid(heap, u, k) \in f[i + 1]
    BY <1>6, <2>1, <2>4
  <2>6. QED
    BY <1>4, <1>5, <2>4, <2>5
<1>14. Down(W, heap, x, TRUE)
  BY <1>10, <1>11, <1>12, <1>13 DEF Down
<1>15. QED
  BY <1>9, <1>14 DEF W

LEMMA KidIs ==
  ASSUME TypeOK, NEW L, Represents(heap, L), NEW u \in Seq(Nodes), Len(u) >= 1
  PROVE  /\ Last(u) \in Nodes /\ Items(heap, Last(u)) \in Seq(Nodes) /\ Distinct(Items(heap, Last(u)))
         /\ \A k \in Kids(heap, u) :
              /\ Kid(heap, u, k) \in Seq(Nodes) /\ Len(Kid(heap, u, k)) = Len(u) + 1
              /\ Last(Kid(heap, u, k)) = Items(heap, Last(u))[k]
              /\ Kid(heap, u, k)[Len(Kid(heap, u, k)) - 1] = Last(u) /\ Front(Kid(heap, u, k)) = u
<1>1. Last(u) \in Nodes
  <2>1. Len(u) \in 1 .. Len(u)
    OBVIOUS
  <2>2. QED
    BY <2>1 DEF Last
<1> DEFINE list == Items(heap, Last(u))
<1>2. list \in Seq(Nodes) /\ Distinct(list)
  <2>1. heap \in Heap
    BY DEF TypeOK
  <2>2. QED
    BY <1>1, <2>1, ItemsAre
<1>3. ASSUME NEW k \in Kids(heap, u)
      PROVE  LET w == Kid(heap, u, k)
             IN  w \in Seq(Nodes) /\ Len(w) = Len(u) + 1 /\ Last(w) = list[k] /\ w[Len(w) - 1] = Last(u) /\ Front(w) = u
  <2> HIDE DEF list
  <2>1. list[k] \in Nodes
    <3>1. k \in 1 .. Len(list)
      BY DEF Kids, list
    <3>2. QED
      BY <1>2, <3>1
  <2>2. Kid(heap, u, k) = Append(u, list[k])
    BY DEF Kid, list
  <2>3. QED
    BY <2>1, <2>2, AppendIs
<1>4. QED
  BY <1>1, <1>2, <1>3

\* The copies of the items of the last of u.
CopyList(f, u, recurse) == IF recurse THEN [k \in Kids(heap, u) |-> f[Kid(heap, u, k)]] ELSE << >>

\* What a duplicate is made of.
Duplicates(f, W, L, x, recurse) ==
  /\ TypeOK /\ Represents(heap, L) /\ Down(W, heap, x, recurse) /\ recurse \in BOOLEAN
  /\ f \in [W -> Nodes \ heap.live] /\ \A u, v \in W : f[u] = f[v] => u = v

LEMMA CopyListIs ==
  ASSUME NEW W, NEW L, NEW x, NEW recurse, NEW f, Duplicates(f, W, L, x, recurse), NEW u \in W
  PROVE  LET s == CopyList(f, u, recurse)
         IN  /\ s \in Seq(Nodes) /\ Distinct(s)
             /\ \A k \in 1 .. Len(s) : /\ recurse /\ k \in Kids(heap, u) /\ Kid(heap, u, k) \in W
                                       /\ s[k] = f[Kid(heap, u, k)]
             /\ recurse => Len(s) = Len(Items(heap, Last(u)))
             /\ ~recurse => Len(s) = 0
<1> DEFINE s == CopyList(f, u, recurse)
           list == Items(heap, Last(u))
<1>1. /\ u \in Seq(Nodes) /\ Len(u) >= 1 /\ TypeOK /\ Represents(heap, L) /\ recurse \in BOOLEAN
      /\ recurse => \A k \in Kids(heap, u) : Kid(heap, u, k) \in W
      /\ \A w \in W : f[w] \in Nodes
      /\ \A v, w \in W : f[v] = f[w] => v = w
  BY DEF Duplicates, Down
<1>2. /\ list \in Seq(Nodes) /\ Distinct(list)
      /\ \A k \in Kids(heap, u) : Last(Kid(heap, u, k)) = list[k]
  BY <1>1, KidIs
<1>3. CASE ~recurse
  <2>1. s = << >>
    BY <1>3 DEF CopyList
  <2>2. << >> \in Seq(Nodes) /\ Len(<< >>) = 0 /\ Distinct(<< >>)
    BY DEF Distinct
  <2>3. QED
    BY <1>3, <2>1, <2>2
<1>4. CASE recurse
  <2>1. s = [k \in 1 .. Len(list) |-> f[Kid(heap, u, k)]] /\ Kids(heap, u) = 1 .. Len(list)
    BY <1>4 DEF CopyList, Kids
  <2>2. Len(list) \in Nat /\ \A k \in 1 .. Len(list) : f[Kid(heap, u, k)] \in Nodes
    BY <1>1, <1>2, <1>4, <2>1
  <2> HIDE DEF s, list
  <2>3. s \in Seq(Nodes) /\ Len(s) = Len(list)
    BY <2>1, <2>2, IsASeq
  <2>4. Distinct(s)
    <3>1. ASSUME NEW i \in 1 .. Len(list), NEW j \in 1 .. Len(list), s[i] = s[j] PROVE i = j
      <4>1. Kid(heap, u, i) = Kid(heap, u, j)
        BY <1>1, <1>4, <2>1, <3>1
      <4>2. list[i] = list[j]
        BY <1>2, <2>1, <4>1
      <4>3. QED
        BY <1>2, <4>2 DEF Distinct
    <3>2. QED
      BY <2>3, <3>1 DEF Distinct
  <2>5. QED
    BY <1>1, <1>4, <2>1, <2>3, <2>4 DEF s, list
<1>5. QED
  BY <1>1, <1>3, <1>4

\* Where the copy of an item is among those of its array.
LEMMA CopiesIs ==
  ASSUME NEW W, NEW L, NEW x, NEW recurse, NEW f, Duplicates(f, W, L, x, recurse), NEW u \in W,
         NEW k \in 1 .. Len(CopyList(f, u, recurse))
  PROVE  /\ Copies(f, Kid(heap, u, k)) = CopyList(f, u, recurse)
         /\ PlaceOf(f, Kid(heap, u, k)) = k
<1> DEFINE s == CopyList(f, u, recurse)
           w == Kid(heap, u, k)
           list == Items(heap, Last(u))
<1>1. /\ s \in Seq(Nodes) /\ Distinct(s) /\ recurse /\ k \in Kids(heap, u) /\ s[k] = f[w] /\ Len(s) = Len(list)
      /\ k \in 1 .. Len(s)
  BY CopyListIs
<1>2. u \in Seq(Nodes) /\ Len(u) >= 1 /\ TypeOK /\ Represents(heap, L)
  BY DEF Duplicates, Down
<1>3. w[Len(w) - 1] = Last(u) /\ Front(w) = u /\ Len(w) = Len(u) + 1 /\ list \in Seq(Nodes)
  BY <1>1, <1>2, KidIs
<1>4. Len(w) # 1
  BY <1>2, <1>3
<1>5. DOMAIN list = Kids(heap, u)
  BY <1>3 DEF Kids
<1>6. s = [i \in Kids(heap, u) |-> f[Append(u, list[i])]]
  BY <1>1 DEF CopyList, Kid
<1> HIDE DEF w, list, s
<1>7. Copies(f, w) = s
  BY <1>3, <1>4, <1>5, <1>6 DEF Copies, list
<1>8. DOMAIN s = 1 .. Len(s)
  BY <1>1
<1>9. (CHOOSE i \in DOMAIN s : s[i] = f[w]) = k
  BY <1>1, <1>8 DEF Distinct
<1>10. PlaceOf(f, w) = k
  BY <1>7, <1>9 DEF PlaceOf
<1>11. QED
  BY <1>7, <1>10 DEF w, s

\* What Copied makes of each copy, and leaves of the rest.
AfterCopy(f, u) ==
  LET s == Copies(f, u) IN IF s = << >> \/ Last(s) = f[u] THEN 0 ELSE s[PlaceOf(f, u) + 1]
BeforeCopy(f, u) ==
  LET s == Copies(f, u)
  IN IF s = << >> THEN 0 ELSE IF s[1] = f[u] THEN Last(s) ELSE s[PlaceOf(f, u) - 1]
BelowCopy(f, u, recurse) ==
  IF recurse /\ heap.child[Last(u)] # 0 THEN f[Append(u, heap.child[Last(u)])] ELSE 0
New(f) == {f[w] : w \in DOMAIN f}
CopiesSo(g, f, recurse) ==
  /\ \A u \in DOMAIN f : /\ g.next[f[u]] = AfterCopy(f, u) /\ g.prev[f[u]] = BeforeCopy(f, u)
                         /\ g.child[f[u]] = BelowCopy(f, u, recurse)
                         /\ g.string[f[u]] = heap.string[Last(u)]
                         /\ f[u] \in g.const <=> Last(u) \in heap.const
  /\ \A n \in Nodes \ New(f) : /\ g.next[n] = heap.next[n] /\ g.prev[n] = heap.prev[n]
                               /\ g.child[n] = heap.child[n] /\ g.string[n] = heap.string[n]
                               /\ n \in g.const <=> n \in heap.const
  /\ g.reference = heap.reference /\ g.live = heap.live \cup New(f)
  /\ g.next = [n \in Nodes |-> g.next[n]] /\ g.prev = [n \in Nodes |-> g.prev[n]]
  /\ g.child = [n \in Nodes |-> g.child[n]] /\ g.string = [n \in Nodes |-> g.string[n]]
  /\ g.const \subseteq Nodes
  /\ g.strings = heap.strings
       + Cardinality({n \in New(f) : \E u \in DOMAIN f : n = f[u] /\ OwnsKey(heap, Last(u))})
  /\ g = [next |-> g.next, prev |-> g.prev, child |-> g.child, string |-> g.string,
          reference |-> g.reference, const |-> g.const, live |-> g.live, strings |-> g.strings]

LEMMA CopiedIs ==
  ASSUME NEW W, NEW L, NEW x, NEW recurse, NEW f, Duplicates(f, W, L, x, recurse), Blank(heap)
  PROVE  CopiesSo(Copied(f, recurse), f, recurse)
<1> DEFINE g == Copied(f, recurse)
           new == {f[way] : way \in DOMAIN f}
           of(n) == CHOOSE way \in DOMAIN f : f[way] = n
           original(n) == Last(of(n))
           after(n) == LET list == Copies(f, of(n))
                       IN IF list = << >> \/ Last(list) = n THEN 0 ELSE list[PlaceOf(f, of(n)) + 1]
           before(n) == LET list == Copies(f, of(n))
                        IN IF list = << >> THEN 0
                           ELSE IF list[1] = n THEN Last(list) ELSE list[PlaceOf(f, of(n)) - 1]
           below(n) == IF recurse /\ heap.child[original(n)] # 0
                       THEN f[Append(of(n), heap.child[original(n)])] ELSE 0
           next == [n \in Nodes |-> IF n \in new THEN after(n) ELSE heap.next[n]]
           prev == [n \in Nodes |-> IF n \in new THEN before(n) ELSE heap.prev[n]]
           child == [n \in Nodes |-> IF n \in new THEN below(n) ELSE heap.child[n]]
           string == [n \in Nodes |-> IF n \in new THEN heap.string[original(n)] ELSE heap.string[n]]
           const == heap.const \cup {n \in new : original(n) \in heap.const}
           strings == heap.strings + Cardinality({n \in new : OwnsKey(heap, original(n))})
<1>1. g = [next |-> next, prev |-> prev, child |-> child, string |-> string, reference |-> heap.reference,
           const |-> const, live |-> heap.live \cup new, strings |-> strings]
  BY DEF Copied
<1>2. /\ DOMAIN f = W /\ heap \in Heap /\ \A u \in W : f[u] \in Nodes \ heap.live
      /\ \A u, v \in W : f[u] = f[v] => u = v
  BY DEF Duplicates, TypeOK
<1>3. \A u \in W : f[u] \in new /\ of(f[u]) = u
  BY <1>2
<1>4. new \subseteq Nodes /\ \A n \in new : n \notin heap.const
  BY <1>2 DEF Blank
<1>5. \A n \in new : of(n) \in W /\ f[of(n)] = n
  BY <1>2
<1> HIDE DEF of
<1>6. \A u \in W : /\ next[f[u]] = AfterCopy(f, u) /\ prev[f[u]] = BeforeCopy(f, u)
  BY <1>3, <1>4 DEF AfterCopy, BeforeCopy
<1>7. \A u \in W : child[f[u]] = BelowCopy(f, u, recurse) /\ string[f[u]] = heap.string[Last(u)]
  BY <1>3, <1>4 DEF BelowCopy
<1>8. \A u \in W : f[u] \in const <=> Last(u) \in heap.const
  BY <1>3, <1>4
<1>9. \A n \in Nodes \ new : /\ next[n] = heap.next[n] /\ prev[n] = heap.prev[n]
                             /\ child[n] = heap.child[n] /\ string[n] = heap.string[n]
                             /\ n \in const <=> n \in heap.const
  BY <1>4
<1>10. const \subseteq Nodes
  BY <1>2, <1>4 DEF Heap
<1>11. {n \in new : OwnsKey(heap, original(n))} = {n \in new : \E u \in W : n = f[u] /\ OwnsKey(heap, Last(u))}
  <2>1. \A n \in new : \A u \in W : n = f[u] => u = of(n)
    BY <1>3
  <2>2. QED
    BY <1>5, <2>1
<1>12. next = [n \in Nodes |-> next[n]] /\ prev = [n \in Nodes |-> prev[n]]
       /\ child = [n \in Nodes |-> child[n]] /\ string = [n \in Nodes |-> string[n]]
  OBVIOUS
<1>13. new = New(f)
  BY DEF New
<1> HIDE DEF g, next, prev, child, string, const, new
<1>14. /\ g.next = next /\ g.prev = prev /\ g.child = child /\ g.string = string /\ g.reference = heap.reference
       /\ g.const = const /\ g.live = heap.live \cup new
       /\ g.strings = heap.strings + Cardinality({n \in new : \E u \in W : n = f[u] /\ OwnsKey(heap, Last(u))})
  BY <1>1, <1>11
<1>15. g = [next |-> g.next, prev |-> g.prev, child |-> g.child, string |-> g.string,
            reference |-> g.reference, const |-> g.const, live |-> g.live, strings |-> g.strings]
  BY <1>1
<1>16. CopiesSo(g, f, recurse)
  BY <1>2, <1>6, <1>7, <1>8, <1>9, <1>10, <1>12, <1>13, <1>14, <1>15 DEF CopiesSo
<1>17. QED
  BY <1>16 DEF g

\* The copies of an array's items are a list as those are.
LEMMA CopyLinks ==
  ASSUME NEW W, NEW L, NEW x, NEW recurse, NEW f, Duplicates(f, W, L, x, recurse), NEW g, CopiesSo(g, f, recurse),
         NEW u \in W
  PROVE  IsList(g.next, g.prev, g.child[f[u]], CopyList(f, u, recurse))
<1> DEFINE s == CopyList(f, u, recurse)
           list == Items(heap, Last(u))
           c == heap.child[Last(u)]
<1>1. /\ s \in Seq(Nodes) /\ Distinct(s)
      /\ \A k \in 1 .. Len(s) : Kid(heap, u, k) \in W /\ s[k] = f[Kid(heap, u, k)] /\ recurse
      /\ recurse => Len(s) = Len(list)
      /\ ~recurse => Len(s) = 0
  BY CopyListIs
<1>2. /\ u \in Seq(Nodes) /\ Len(u) >= 1 /\ TypeOK /\ heap \in Heap /\ Represents(heap, L) /\ DOMAIN f = W
      /\ recurse \in BOOLEAN
  BY DEF Duplicates, Down, TypeOK
<1>3. Last(u) \in Nodes
  BY <1>2, KidIs
<1>4. (c = 0 <=> Len(list) = 0) /\ (c # 0 => list[1] = c)
  BY <1>2, <1>3, ItemsAre
<1>5. \A k \in 1 .. Len(s) : Copies(f, Kid(heap, u, k)) = s /\ PlaceOf(f, Kid(heap, u, k)) = k
  BY CopiesIs
<1>6. \A v \in W : g.next[f[v]] = AfterCopy(f, v) /\ g.prev[f[v]] = BeforeCopy(f, v)
                   /\ g.child[f[v]] = BelowCopy(f, v, recurse)
  BY <1>2 DEF CopiesSo
<1>7. Kid(heap, u, 1) = Append(u, list[1])
  BY DEF Kid
<1> HIDE DEF s, list, c
<1>8. ASSUME NEW k \in 1 .. Len(s) PROVE g.next[s[k]] = After(s, k) /\ g.prev[s[k]] = Before(s, k)
  <2> DEFINE w == Kid(heap, u, k)
  <2>1. w \in W /\ s[k] = f[w] /\ Copies(f, w) = s /\ PlaceOf(f, w) = k
    BY <1>1, <1>5
  <2> HIDE DEF w
  <2>2. s # << >> /\ Last(s) = s[Len(s)] /\ Len(s) \in 1 .. Len(s) /\ 1 \in 1 .. Len(s)
    BY <1>1 DEF Last
  <2>3. g.next[s[k]] = IF s[Len(s)] = s[k] THEN 0 ELSE s[k + 1]
    BY <1>6, <2>1, <2>2 DEF AfterCopy
  <2>4. g.prev[s[k]] = IF s[1] = s[k] THEN s[Len(s)] ELSE s[k - 1]
    BY <1>6, <2>1, <2>2 DEF BeforeCopy
  <2>5. (s[Len(s)] = s[k] <=> k = Len(s)) /\ (s[1] = s[k] <=> k = 1)
    BY <1>1, <2>2 DEF Distinct
  <2>6. QED
    BY <2>3, <2>4, <2>5 DEF After, Before
<1>9. g.child[f[u]] = IF Len(s) = 0 THEN 0 ELSE s[1]
  <2>1. g.child[f[u]] = IF recurse /\ c # 0 THEN f[Append(u, c)] ELSE 0
    BY <1>6 DEF BelowCopy, c
  <2>2. CASE recurse /\ c # 0
    <3>1. Len(s) # 0 /\ 1 \in 1 .. Len(s)
      BY <1>1, <1>4, <2>2
    <3>2. s[1] = f[Append(u, list[1])]
      BY <1>1, <1>7, <3>1
    <3>3. QED
      BY <1>4, <2>1, <2>2, <3>1, <3>2
  <2>3. CASE ~(recurse /\ c # 0)
    <3>1. Len(s) = 0
      BY <1>1, <1>2, <1>4, <2>3
    <3>2. QED
      BY <2>1, <2>3, <3>1
  <2>4. QED
    BY <2>2, <2>3
<1>10. QED
  BY <1>8, <1>9 DEF IsList, s

\* The lists of a heap with the copies.
WithCopies(f, L, recurse) ==
  [a \in Nodes |-> IF a \in New(f) THEN CopyList(f, CHOOSE u \in DOMAIN f : f[u] = a, recurse) ELSE L[a]]

\* Whose list a copy is in.
LEMMA CopyPlaces ==
  ASSUME NEW W, NEW L, NEW x, NEW recurse, NEW f, Duplicates(f, W, L, x, recurse), Owned(heap, L, {n \in heap.live : ~Placed(L, n)})
  PROVE  LET M == WithCopies(f, L, recurse)
         IN  /\ M \in [Nodes -> Seq(Nodes)] /\ New(f) \subseteq Nodes \ heap.live
             /\ \A n \in New(f) : \E u \in W : n = f[u]
             /\ \A u \in W : f[u] \in New(f) /\ M[f[u]] = CopyList(f, u, recurse)
             /\ \A a \in Nodes \ New(f) : M[a] = L[a]
             /\ \A a \in New(f) : L[a] = << >> /\ ~Placed(L, a)
             /\ \A a, n \in Nodes : In(M[a], n) /\ n \notin New(f) => a \notin New(f) /\ In(L[a], n)
             /\ \A a, n \in Nodes : In(M[a], n) /\ n \in New(f) =>
                  \E u \in W : \E k \in 1 .. Len(CopyList(f, u, recurse)) :
                    a = f[u] /\ Kid(heap, u, k) \in W /\ n = f[Kid(heap, u, k)]
             /\ \A u \in W : u # <<x>> => Placed(M, f[u])
<1> DEFINE M == WithCopies(f, L, recurse)
           new == New(f)
<1>1. /\ DOMAIN f = W /\ heap \in Heap /\ heap.live \subseteq Nodes /\ \A u \in W : f[u] \in Nodes \ heap.live
      /\ \A u, v \in W : f[u] = f[v] => u = v
      /\ Represents(heap, L) /\ L \in [Nodes -> Seq(Nodes)]
  BY DEF Duplicates, TypeOK, Heap, Represents
<1>2. new \subseteq Nodes \ heap.live /\ (\A n \in new : \E u \in W : n = f[u]) /\ \A u \in W : f[u] \in new
  BY <1>1 DEF New
<1> HIDE DEF new
<1>3. \A u \in W : (CHOOSE v \in DOMAIN f : f[v] = f[u]) = u
  BY <1>1
<1>4. \A u \in W : M[f[u]] = CopyList(f, u, recurse)
  BY <1>1, <1>2, <1>3 DEF WithCopies, new
<1>5. \A a \in Nodes \ new : M[a] = L[a]
  BY DEF WithCopies, new
<1>6. \A u \in W : CopyList(f, u, recurse) \in Seq(Nodes)
  BY CopyListIs
<1>7. M \in [Nodes -> Seq(Nodes)]
  <2>1. \A a \in Nodes : M[a] \in Seq(Nodes)
    BY <1>1, <1>2, <1>4, <1>5, <1>6
  <2>2. M = [a \in Nodes |-> M[a]]
    BY DEF WithCopies
  <2> HIDE DEF M
  <2>3. QED
    BY <2>1, <2>2
<1> HIDE DEF M
<1>8. \A a \in new : L[a] = << >> /\ ~Placed(L, a)
  <2>1. ASSUME NEW a \in new PROVE L[a] = << >> /\ ~Placed(L, a)
    <3>1. a \in Nodes /\ a \notin heap.live /\ a \notin Containers(heap)
      BY <1>2 DEF Containers
    <3>2. Len(L[a]) = 0 /\ L[a] \in Seq(Nodes)
      BY <1>1, <3>1 DEF Represents
    <3>3. QED
      BY <3>1, <3>2 DEF Owned
  <2>2. QED
    BY <2>1
<1>9. \A n \in Nodes : Placed(L, n) => n \notin new
  BY <1>8
<1>10. ASSUME NEW u \in W, NEW n, In(CopyList(f, u, recurse), n)
       PROVE  n \in new /\ \E k \in 1 .. Len(CopyList(f, u, recurse)) : Kid(heap, u, k) \in W /\ n = f[Kid(heap, u, k)]
  <2>1. PICK k \in 1 .. Len(CopyList(f, u, recurse)) : CopyList(f, u, recurse)[k] = n
    BY <1>10 DEF In
  <2>2. Kid(heap, u, k) \in W /\ CopyList(f, u, recurse)[k] = f[Kid(heap, u, k)]
    BY CopyListIs
  <2>3. QED
    BY <1>2, <2>1, <2>2
<1>11. ASSUME NEW a \in Nodes, NEW n \in Nodes, In(M[a], n), n \notin new PROVE a \notin new /\ In(L[a], n)
  <2>1. ASSUME a \in new PROVE FALSE
    <3>1. PICK u \in W : a = f[u]
      BY <1>2, <2>1
    <3>2. QED
      BY <1>4, <1>10, <1>11, <3>1
  <2>2. QED
    BY <1>5, <1>11, <2>1
<1>12. ASSUME NEW a \in Nodes, NEW n \in Nodes, In(M[a], n), n \in new
       PROVE  \E u \in W : \E k \in 1 .. Len(CopyList(f, u, recurse)) :
                a = f[u] /\ Kid(heap, u, k) \in W /\ n = f[Kid(heap, u, k)]
  <2>1. a \in new
    <3>1. SUFFICES ASSUME a \notin new PROVE FALSE
      OBVIOUS
    <3>2. In(L[a], n)
      BY <1>5, <1>12, <3>1
    <3>3. QED
      BY <1>9, <1>12, <3>2 DEF Placed
  <2>2. PICK u \in W : a = f[u]
    BY <1>2, <2>1
  <2>3. QED
    BY <1>4, <1>10, <1>12, <2>2
<1>13. ASSUME NEW u \in W, u # <<x>> PROVE Placed(M, f[u])
  <2>1. /\ u \in Seq(Nodes) /\ Len(u) >= 1 /\ (Len(u) = 1 => u = <<x>>)
        /\ Len(u) > 1 => recurse /\ \E v \in W : \E k \in Kids(heap, v) : u = Kid(heap, v, k)
    BY DEF Duplicates, Down
  <2>2. recurse /\ \E v \in W : \E k \in Kids(heap, v) : u = Kid(heap, v, k)
    <3>1. Len(u) \in Nat /\ Len(u) >= 1 /\ Len(u) # 1
      BY <1>13, <2>1
    <3>2. Len(u) > 1
      BY <3>1
    <3>3. QED
      BY <2>1, <3>2
  <2>3. PICK v \in W : \E k \in Kids(heap, v) : u = Kid(heap, v, k)
    BY <2>2
  <2>4. PICK k \in Kids(heap, v) : u = Kid(heap, v, k)
    BY <2>3
  <2> DEFINE s == CopyList(f, v, recurse)
  <2>a. /\ s \in Seq(Nodes) /\ Distinct(s)
        /\ recurse => Len(s) = Len(Items(heap, Last(v)))
    BY CopyListIs
  <2>5. s = [i \in Kids(heap, v) |-> f[Kid(heap, v, i)]]
    BY <2>2 DEF CopyList
  <2>6. Len(s) = Len(Items(heap, Last(v)))
    BY <2>2, <2>a
  <2>7. k \in 1 .. Len(s) /\ s[k] = f[u]
    BY <2>4, <2>5, <2>6 DEF Kids
  <2>8. In(M[f[v]], f[u])
    BY <1>4, <2>7 DEF In
  <2>9. QED
    BY <1>1, <2>8 DEF Placed
<1>14. QED
  BY <1>2, <1>4, <1>5, <1>7, <1>8, <1>11, <1>12, <1>13 DEF M, new

LEMMA CopiedRepresents ==
  ASSUME NEW W, NEW L, NEW x, NEW recurse, NEW f, Duplicates(f, W, L, x, recurse),
         NEW O, Sound(heap, L, O)
  PROVE  Represents(Copied(f, recurse), WithCopies(f, L, recurse))
<1> DEFINE g == Copied(f, recurse)
           M == WithCopies(f, L, recurse)
           new == New(f)
<1>1. /\ DOMAIN f = W /\ heap \in Heap /\ heap.live \subseteq Nodes /\ heap.reference \subseteq Nodes
      /\ \A u \in W : f[u] \in Nodes \ heap.live
      /\ \A u, v \in W : f[u] = f[v] => u = v
      /\ Represents(heap, L) /\ Blank(heap) /\ TypeOK
      /\ \A u \in W : u \in Seq(Nodes) /\ Len(u) >= 1
      /\ (\A n \in Nodes : Placed(L, n) => n \in heap.live)
  BY DEF Duplicates, TypeOK, Heap, Sound, Owned, Down
<1>2. CopiesSo(g, f, recurse)
  BY <1>1, CopiedIs
<1>3. Owned(heap, L, {n \in heap.live : ~Placed(L, n)})
  BY <1>1 DEF Owned
<1>4. M \in [Nodes -> Seq(Nodes)] /\ new \subseteq Nodes \ heap.live
  BY <1>3, CopyPlaces
<1>5. \A n \in new : \E u \in W : n = f[u]
  BY <1>3, CopyPlaces
<1>6. \A u \in W : f[u] \in new /\ M[f[u]] = CopyList(f, u, recurse)
  BY <1>3, CopyPlaces
<1>7. \A a \in Nodes \ new : M[a] = L[a]
  BY <1>3, CopyPlaces
<1>8. \A a \in new : L[a] = << >> /\ ~Placed(L, a)
  BY <1>3, CopyPlaces
<1>9. \A a, n \in Nodes : In(M[a], n) /\ n \notin new => a \notin new /\ In(L[a], n)
  BY <1>3, CopyPlaces
<1>10. \A a, n \in Nodes : In(M[a], n) /\ n \in new =>
         \E u \in W : \E k \in 1 .. Len(CopyList(f, u, recurse)) :
           a = f[u] /\ Kid(heap, u, k) \in W /\ n = f[Kid(heap, u, k)]
  BY <1>3, CopyPlaces
<1>11. \A u \in W : u # <<x>> => Placed(M, f[u])
  BY <1>3, CopyPlaces
<1>12. /\ \A n \in Nodes \ new : /\ g.next[n] = heap.next[n] /\ g.prev[n] = heap.prev[n]
                                 /\ g.child[n] = heap.child[n]
       /\ g.reference = heap.reference /\ g.live = heap.live \cup new
  BY <1>2 DEF CopiesSo
<1>13. \A u \in W : g.next[f[u]] = AfterCopy(f, u) /\ g.prev[f[u]] = BeforeCopy(f, u)
  BY <1>1, <1>2 DEF CopiesSo
<1>14. Containers(g) = Containers(heap) \cup new
  BY <1>1, <1>4, <1>12 DEF Containers, Blank
<1>15. \A u \in W : IsList(g.next, g.prev, g.child[f[u]], CopyList(f, u, recurse))
  BY <1>2, CopyLinks
<1>16. \A u \in W : Distinct(CopyList(f, u, recurse))
  BY CopyListIs
<1> HIDE DEF g, M, new
<1>17. \A a \in Nodes : a \notin Containers(g) => Len(M[a]) = 0
  BY <1>1, <1>7, <1>14 DEF Represents
<1>18. ASSUME NEW a \in Containers(g) PROVE IsList(g.next, g.prev, g.child[a], M[a])
  <2>1. CASE a \in new
    BY <1>5, <1>6, <1>15, <2>1
  <2>2. CASE a \notin new
    <3>1. a \in Containers(heap) /\ a \in Nodes /\ M[a] = L[a]
      BY <1>1, <1>7, <1>14, <2>2 DEF Containers
    <3>2. L[a] \in Seq(Nodes) /\ IsList(heap.next, heap.prev, heap.child[a], L[a])
      BY <1>1, <3>1 DEF Represents
    <3>3. \A n \in Nodes : In(L[a], n) => g.next[n] = heap.next[n] /\ g.prev[n] = heap.prev[n]
      BY <1>1, <1>4, <1>12, <3>1 DEF Placed
    <3>4. IsList(g.next, g.prev, heap.child[a], L[a])
      BY <3>2, <3>3, ListFrame
    <3>5. QED
      BY <1>12, <2>2, <3>1, <3>4
  <2>3. QED
    BY <2>1, <2>2
<1>19. \A a \in Nodes : Distinct(M[a])
  BY <1>1, <1>5, <1>6, <1>7, <1>16 DEF Represents
<1>20. ASSUME NEW a \in Nodes, NEW b \in Nodes, NEW n \in Nodes, In(M[a], n), In(M[b], n) PROVE a = b
  <2>1. CASE n \notin new
    BY <1>1, <1>9, <1>20, <2>1 DEF Represents
  <2>2. CASE n \in new
    <3>1. PICK u \in W : \E k \in 1 .. Len(CopyList(f, u, recurse)) :
                           a = f[u] /\ Kid(heap, u, k) \in W /\ n = f[Kid(heap, u, k)]
      BY <1>10, <1>20, <2>2
    <3>2. PICK k \in 1 .. Len(CopyList(f, u, recurse)) : a = f[u] /\ Kid(heap, u, k) \in W /\ n = f[Kid(heap, u, k)]
      BY <3>1
    <3>3. PICK v \in W : \E j \in 1 .. Len(CopyList(f, v, recurse)) :
                           b = f[v] /\ Kid(heap, v, j) \in W /\ n = f[Kid(heap, v, j)]
      BY <1>10, <1>20, <2>2
    <3>4. PICK j \in 1 .. Len(CopyList(f, v, recurse)) : b = f[v] /\ Kid(heap, v, j) \in W /\ n = f[Kid(heap, v, j)]
      BY <3>3
    <3>5. Kid(heap, u, k) = Kid(heap, v, j)
      BY <1>1, <3>2, <3>4
    <3>6. k \in Kids(heap, u) /\ j \in Kids(heap, v)
      BY CopyListIs
    <3>7. Front(Kid(heap, u, k)) = u
      BY <1>1, <3>6, KidIs
    <3>8. Front(Kid(heap, v, j)) = v
      BY <1>1, <3>6, KidIs
    <3>9. QED
      BY <3>2, <3>4, <3>5, <3>7, <3>8
  <2>3. QED
    BY <2>1, <2>2
<1>21. ASSUME NEW n \in Nodes, ~Placed(M, n) PROVE g.next[n] = 0 /\ g.prev[n] = 0
  <2>1. CASE n \notin new
    <3>1. ~Placed(L, n)
      <4>1. SUFFICES ASSUME NEW a \in Nodes, In(L[a], n) PROVE FALSE
        BY DEF Placed
      <4>2. a \notin new
        BY <1>8, <4>1 DEF In
      <4>3. QED
        BY <1>7, <1>21, <4>1, <4>2 DEF Placed
    <3>2. QED
      BY <1>1, <1>12, <2>1, <3>1 DEF Represents
  <2>2. CASE n \in new
    <3>1. PICK u \in W : n = f[u]
      BY <1>5, <2>2
    <3>2. u = <<x>>
      BY <1>11, <1>21, <3>1
    <3>3. Copies(f, u) = << >>
      BY <3>2 DEF Copies
    <3>4. QED
      BY <1>13, <3>1, <3>3 DEF AfterCopy, BeforeCopy
  <2>3. QED
    BY <2>1, <2>2
<1>22. Represents(g, M)
  BY <1>4, <1>17, <1>18, <1>19, <1>20, <1>21 DEF Represents
<1>23. QED
  BY <1>22 DEF g, M

LEMMA CopiedSound ==
  ASSUME NEW W, NEW L, NEW x, NEW recurse, NEW f, Duplicates(f, W, L, x, recurse), IsFiniteSet(W),
         NEW O, Sound(heap, L, O)
  PROVE  /\ Sound(Copied(f, recurse), WithCopies(f, L, recurse), O \cup {f[<<x>>]})
         /\ Copied(f, recurse).live = heap.live \cup New(f)
         /\ New(f) \subseteq Nodes \ heap.live /\ f[<<x>>] \in New(f)
<1> DEFINE g == Copied(f, recurse)
           M == WithCopies(f, L, recurse)
           new == New(f)
           keyed == {n \in new : \E u \in W : n = f[u] /\ OwnsKey(heap, Last(u))}
<1>1. /\ DOMAIN f = W /\ heap \in Heap /\ heap.live \subseteq Nodes /\ heap.reference \subseteq Nodes
      /\ \A u \in W : f[u] \in Nodes \ heap.live
      /\ \A u, v \in W : f[u] = f[v] => u = v
      /\ Represents(heap, L) /\ Blank(heap) /\ TypeOK /\ <<x>> \in W /\ O \subseteq Nodes
      /\ \A u \in W : u \in Seq(Nodes) /\ Len(u) >= 1
      /\ \A n \in Nodes : n \in heap.live <=> Placed(L, n) \/ n \in O
      /\ \A n \in O : ~Placed(L, n)
      /\ heap.strings = Cardinality(Keys(heap))
  BY DEF Duplicates, TypeOK, Heap, Sound, Owned, Down, Counted
<1>2. CopiesSo(g, f, recurse)
  BY <1>1, CopiedIs
<1>3. Owned(heap, L, {n \in heap.live : ~Placed(L, n)})
  BY <1>1 DEF Owned
<1>4. new \subseteq Nodes \ heap.live
  BY <1>3, CopyPlaces
<1>5. \A n \in new : \E u \in W : n = f[u]
  BY <1>3, CopyPlaces
<1>6. \A u \in W : f[u] \in new /\ M[f[u]] = CopyList(f, u, recurse)
  BY <1>3, CopyPlaces
<1>7. \A a \in Nodes \ new : M[a] = L[a]
  BY <1>3, CopyPlaces
<1>8. \A a \in new : L[a] = << >> /\ ~Placed(L, a)
  BY <1>3, CopyPlaces
<1>9. \A a, n \in Nodes : In(M[a], n) /\ n \notin new => a \notin new /\ In(L[a], n)
  BY <1>3, CopyPlaces
<1>10. \A a, n \in Nodes : In(M[a], n) /\ n \in new =>
         \E u \in W : \E k \in 1 .. Len(CopyList(f, u, recurse)) :
           a = f[u] /\ Kid(heap, u, k) \in W /\ n = f[Kid(heap, u, k)]
  BY <1>3, CopyPlaces
<1>11. \A u \in W : u # <<x>> => Placed(M, f[u])
  BY <1>3, CopyPlaces
<1>12. Represents(g, M)
  BY CopiedRepresents
<1>13. \A u \in W : g.child[f[u]] = BelowCopy(f, u, recurse)
  BY <1>1, <1>2 DEF CopiesSo
<1>b. \A u \in W : g.string[f[u]] = heap.string[Last(u)]
  BY <1>1, <1>2 DEF CopiesSo
<1>c. \A u \in W : g.next[f[u]] = AfterCopy(f, u) /\ g.prev[f[u]] = BeforeCopy(f, u)
  BY <1>1, <1>2 DEF CopiesSo
<1>d. \A u \in W : f[u] \in g.const <=> Last(u) \in heap.const
  BY <1>1, <1>2 DEF CopiesSo
<1>14. \A n \in Nodes \ new : /\ g.next[n] = heap.next[n] /\ g.prev[n] = heap.prev[n]
                              /\ g.child[n] = heap.child[n] /\ g.string[n] = heap.string[n]
                              /\ n \in g.const <=> n \in heap.const
  BY <1>2 DEF CopiesSo
<1>15. g.reference = heap.reference /\ g.live = heap.live \cup new /\ g.const \subseteq Nodes
  BY <1>2 DEF CopiesSo
<1>16. g.strings = heap.strings + Cardinality(keyed)
  BY <1>1, <1>2 DEF CopiesSo
<1> HIDE DEF g, M, new
<1>17. /\ \A u \in W : \A k \in 1 .. Len(CopyList(f, u, recurse)) : Kid(heap, u, k) # <<x>>
  <2>1. ASSUME NEW u \in W, NEW k \in 1 .. Len(CopyList(f, u, recurse)) PROVE Kid(heap, u, k) # <<x>>
    <3>1. k \in Kids(heap, u)
      BY CopyListIs
    <3>2. u \in Seq(Nodes) /\ Len(u) >= 1
      BY <1>1
    <3>3. Len(Kid(heap, u, k)) = Len(u) + 1
      BY <1>1, <3>1, <3>2, KidIs
    <3>4. Len(<<x>>) = 1 /\ Len(u) \in Nat
      BY <3>2
    <3>5. QED
      BY <3>2, <3>3, <3>4
  <2>2. QED
    BY <2>1
<1>18. Owned(g, M, O \cup {f[<<x>>]})
  <2>1. ASSUME NEW n \in Nodes, Placed(M, n) PROVE n \in g.live /\ n \notin O /\ n # f[<<x>>]
    <3>1. PICK a \in Nodes : In(M[a], n)
      BY <2>1 DEF Placed
    <3>2. CASE n \notin new
      <4>1. Placed(L, n)
        BY <1>9, <3>1, <3>2 DEF Placed
      <4>2. QED
        BY <1>1, <1>6, <1>14, <1>15, <3>2, <4>1
    <3>3. CASE n \in new
      <4>1. PICK u \in W : \E k \in 1 .. Len(CopyList(f, u, recurse)) :
                             a = f[u] /\ Kid(heap, u, k) \in W /\ n = f[Kid(heap, u, k)]
        BY <1>10, <3>1, <3>3
      <4>2. n # f[<<x>>]
        BY <1>1, <1>17, <4>1
      <4>3. QED
        BY <1>1, <1>4, <1>14, <1>15, <3>3, <4>2
    <3>4. QED
      BY <3>2, <3>3
  <2>2. ASSUME NEW n \in heap.live PROVE Placed(M, n) \/ n \in O
    <3>1. n \in Nodes /\ (Placed(L, n) \/ n \in O)
      BY <1>1
    <3>2. ASSUME Placed(L, n) PROVE Placed(M, n)
      <4>1. PICK a \in Nodes : In(L[a], n)
        BY <3>2 DEF Placed
      <4>2. a \notin new
        BY <1>8, <4>1 DEF In
      <4>3. QED
        BY <1>7, <4>1, <4>2 DEF Placed
    <3>3. QED
      BY <3>1, <3>2
  <2>3. ASSUME NEW n \in new PROVE Placed(M, n) \/ n = f[<<x>>]
    BY <1>5, <1>11
  <2>4. f[<<x>>] \in new
    BY <1>1, <1>6
  <2>5. O \cup {f[<<x>>]} \subseteq Nodes
    BY <1>1, <1>4, <2>4
  <2>6. \A n \in Nodes : n \in g.live <=> Placed(M, n) \/ n \in O \cup {f[<<x>>]}
    BY <1>1, <1>4, <1>14, <1>15, <2>1, <2>2, <2>3, <2>4
  <2>7. \A n \in O \cup {f[<<x>>]} : ~Placed(M, n)
    BY <2>1, <2>5
  <2>8. QED
    BY <2>5, <2>6, <2>7 DEF Owned
<1>19. Blank(g)
  BY <1>1, <1>14, <1>15 DEF Blank
<1>20. Counted(g)
  <2>1. ASSUME NEW u \in W PROVE OwnsKey(g, f[u]) <=> OwnsKey(heap, Last(u))
    BY <1>b, <1>d DEF OwnsKey
  <2>2. \A n \in Nodes \ new : OwnsKey(g, n) <=> OwnsKey(heap, n)
    BY <1>14, <1>15 DEF OwnsKey
  <2>3. Keys(g) = Keys(heap) \cup keyed
    <3>1. \A n \in new : OwnsKey(g, n) <=> n \in keyed
      <4>1. ASSUME NEW n \in new PROVE OwnsKey(g, n) <=> n \in keyed
        <5>1. PICK u \in W : n = f[u]
          BY <1>5
        <5>2. n \in keyed <=> OwnsKey(heap, Last(u))
          BY <1>1, <5>1
        <5>3. QED
          BY <2>1, <5>1, <5>2
      <4>2. QED
        BY <4>1
    <3> HIDE DEF keyed
    <3>2. keyed \subseteq new
      BY DEF keyed
    <3>3. QED
      BY <1>1, <1>4, <1>14, <1>15, <2>2, <3>1, <3>2 DEF Keys
  <2>4. Keys(heap) \cap keyed = {}
    BY <1>4 DEF Keys
  <2> HIDE DEF keyed
  <2>5. Keys(heap) \subseteq Nodes /\ keyed \subseteq Nodes
    BY <1>1, <1>4 DEF Keys, keyed
  <2>6. IsFiniteSet(Keys(heap)) /\ IsFiniteSet(keyed)
    BY <2>5, Sizes, FS_Subset
  <2>7. Cardinality(Keys(heap) \cup keyed) = Cardinality(Keys(heap)) + Cardinality(keyed) - Cardinality(Keys(heap) \cap keyed)
    BY <2>6, FS_Union
  <2>8. Cardinality(Keys(heap) \cap keyed) = 0
    BY <2>4, FS_EmptySet
  <2>9. Cardinality(Keys(heap)) \in Nat /\ Cardinality(keyed) \in Nat
    BY <2>6, FS_CardinalityType
  <2>10. QED
    BY <1>1, <1>16, <2>3, <2>7, <2>8, <2>9 DEF Counted
<1>21. g \in Heap
  <2>1. ASSUME NEW u \in W
        PROVE  /\ AfterCopy(f, u) \in Nodes \cup {0} /\ BeforeCopy(f, u) \in Nodes \cup {0}
               /\ BelowCopy(f, u, recurse) \in Nodes \cup {0}
               /\ heap.string[Last(u)] \in Names \cup {NULL}
    <3>1. IsList(g.next, g.prev, g.child[f[u]], CopyList(f, u, recurse))
      BY <1>2, CopyLinks DEF g
    <3>2. Last(u) \in Nodes
      BY <1>1, KidIs
    <3>3. heap.string[Last(u)] \in Names \cup {NULL}
      BY <1>1, <3>2 DEF Heap
    <3>4. BelowCopy(f, u, recurse) \in Nodes \cup {0}
      <4>1. CopyList(f, u, recurse) \in Seq(Nodes)
        BY CopyListIs
      <4>2. g.child[f[u]] \in Nodes \cup {0}
        BY <3>1, <4>1 DEF IsList
      <4>3. QED
        BY <1>13, <4>2
    <3>5. CASE u = <<x>>
      <4>1. Copies(f, u) = << >>
        BY <3>5 DEF Copies
      <4>2. AfterCopy(f, u) = 0 /\ BeforeCopy(f, u) = 0
        BY <4>1 DEF AfterCopy, BeforeCopy
      <4>3. QED
        BY <3>3, <3>4, <4>2
    <3>6. CASE u # <<x>>
      <4>1. PICK a \in Nodes : In(M[a], f[u])
        BY <1>11, <3>6 DEF Placed
      <4>2. f[u] \in Nodes /\ f[u] \in new
        BY <1>1, <1>6
      <4>3. PICK v \in W : \E k \in 1 .. Len(CopyList(f, v, recurse)) :
                             a = f[v] /\ Kid(heap, v, k) \in W /\ f[u] = f[Kid(heap, v, k)]
        BY <1>10, <4>1, <4>2
      <4> DEFINE s == CopyList(f, v, recurse)
      <4>4. PICK k \in 1 .. Len(s) : In(M[a], f[u]) /\ s[k] = f[u]
        <5>1. In(s, f[u])
          BY <1>6, <4>1, <4>3
        <5>2. QED
          BY <4>1, <5>1 DEF In
      <4>5. s \in Seq(Nodes)
        BY CopyListIs
      <4>6. IsList(g.next, g.prev, g.child[f[v]], s)
        BY <1>2, CopyLinks DEF g
      <4> HIDE DEF s
      <4>7. g.next[f[u]] = After(s, k) /\ g.prev[f[u]] = Before(s, k)
        BY <4>4, <4>6 DEF IsList
      <4>8. After(s, k) \in Nodes \cup {0} /\ Before(s, k) \in Nodes \cup {0}
        BY <4>4, <4>5 DEF After, Before
      <4>9. QED
        BY <1>c, <3>3, <3>4, <4>7, <4>8
    <3>7. QED
      BY <3>5, <3>6
  <2>2. ASSUME NEW n \in Nodes
        PROVE  /\ g.next[n] \in Nodes \cup {0} /\ g.prev[n] \in Nodes \cup {0}
               /\ g.child[n] \in Nodes \cup {0} /\ g.string[n] \in Names \cup {NULL}
    <3>1. CASE n \in new
      BY <1>5, <1>13, <1>b, <1>c, <2>1, <3>1
    <3>2. CASE n \notin new
      BY <1>1, <1>14, <3>2 DEF Heap
    <3>3. QED
      BY <3>1, <3>2
  <2>3. /\ g.next \in [Nodes -> Nodes \cup {0}] /\ g.prev \in [Nodes -> Nodes \cup {0}]
        /\ g.child \in [Nodes -> Nodes \cup {0}] /\ g.string \in [Nodes -> Names \cup {NULL}]
    BY <1>2, <2>2 DEF CopiesSo
  <2>4. g.live \subseteq Nodes /\ g.reference \subseteq Nodes /\ g.const \subseteq Nodes
    BY <1>1, <1>4, <1>15
  <2>5. g.strings \in Nat
    <3>1. Keys(g) \subseteq Nodes
      BY <2>4 DEF Keys
    <3>2. Cardinality(Keys(g)) \in Nat
      BY <3>1, Sizes, FS_Subset, FS_CardinalityType
    <3>3. QED
      BY <1>20, <3>2 DEF Counted
  <2>6. QED
    BY <1>2, <2>3, <2>4, <2>5 DEF Heap, CopiesSo
<1>22. Sound(g, M, O \cup {f[<<x>>]})
  BY <1>12, <1>18, <1>19, <1>20, <1>21 DEF Sound
<1>23. QED
  BY <1>1, <1>4, <1>6, <1>14, <1>15, <1>22 DEF g, M, new

\* With as many addresses as ways, each way can have one of its own.
LEMMA AddressesExist ==
  ASSUME NEW W, IsFiniteSet(W), NEW free, IsFiniteSet(free), Cardinality(W) <= Cardinality(free)
  PROVE  \E f \in [W -> free] : IsInjective(f)
<1> DEFINE n == Cardinality(W)
           m == Cardinality(free)
<1>1. n \in Nat /\ m \in Nat /\ ExistsBijection(1 .. n, W) /\ ExistsBijection(1 .. m, free)
  BY FS_CardinalityType
<1>2. PICK b : b \in Bijection(1 .. n, W)
  BY <1>1 DEF ExistsBijection
<1>3. PICK c : c \in Bijection(1 .. m, free)
  BY <1>1 DEF ExistsBijection
<1>4. b \in [1 .. n -> W] /\ \A w \in W : \E k \in 1 .. n : b[k] = w
  BY <1>2 DEF Bijection, Surjection
<1>5. c \in [1 .. m -> free] /\ \A i, j \in 1 .. m : c[i] = c[j] => i = j
  BY <1>3 DEF Bijection, Injection, IsInjective
<1> DEFINE place(w) == CHOOSE k \in 1 .. n : b[k] = w
           f == [w \in W |-> c[place(w)]]
<1>6. \A w \in W : place(w) \in 1 .. n /\ b[place(w)] = w
  BY <1>4
<1> HIDE DEF place
<1>7. n <= m
  OBVIOUS
<1> HIDE DEF n, m
<1>8. \A w \in W : place(w) \in 1 .. m
  BY <1>1, <1>6, <1>7
<1>9. f \in [W -> free]
  BY <1>5, <1>8
<1>10. \A v, w \in W : f[v] = f[w] => v = w
  <2>1. ASSUME NEW v \in W, NEW w \in W, f[v] = f[w] PROVE v = w
    <3>1. c[place(v)] = c[place(w)]
      BY <2>1
    <3>2. place(v) = place(w)
      BY <1>5, <1>8, <3>1
    <3>3. QED
      BY <1>6, <3>2
  <2>2. QED
    BY <2>1
<1>11. IsInjective(f)
  <2>1. DOMAIN f = W
    OBVIOUS
  <2> HIDE DEF f
  <2>2. QED
    BY <1>10, <2>1 DEF IsInjective
<1>12. QED
  BY <1>9, <1>11

\* The addresses that the copies get.
Addresses(W) == CHOOSE f \in {f \in [W -> Nodes \ heap.live] : IsInjective(f)} : TRUE

\* The duplicate of the action is one.
LEMMA DuplicateSound ==
  ASSUME TypeOK, NEW L, NEW O, Sound(heap, L, O), NEW x \in heap.live, NEW recurse \in BOOLEAN, NEW W,
         W = IF recurse THEN Ways({<<x>>}, CJSON_CIRCULAR_LIMIT) ELSE {<<x>>},
         Cardinality(W) <= Cardinality(Nodes \ heap.live),
         recurse => \A way \in W : Len(way) > CJSON_CIRCULAR_LIMIT => heap.child[Last(way)] = 0
  PROVE  IsFiniteSet(W) /\ Duplicates(Addresses(W), W, L, x, recurse)
<1> DEFINE free == Nodes \ heap.live
           f == CHOOSE f \in {f \in [W -> free] : IsInjective(f)} : TRUE
<1>1. heap \in Heap /\ Represents(heap, L) /\ x \in Nodes
  BY DEF Sound, Heap
<1>2. IsFiniteSet(W) /\ Down(W, heap, x, recurse)
  <2>1. CASE recurse
    <3>1. W = Ways({<<x>>}, CJSON_CIRCULAR_LIMIT)
      BY <2>1
    <3>2. \A way \in Ways({<<x>>}, CJSON_CIRCULAR_LIMIT) :
            Len(way) > CJSON_CIRCULAR_LIMIT => heap.child[Last(way)] = 0
      BY <2>1, <3>1
    <3>3. LET V == Ways({<<x>>}, CJSON_CIRCULAR_LIMIT) IN IsFiniteSet(V) /\ Down(V, heap, x, TRUE)
      BY <1>1, <3>2, DownIs
    <3>4. recurse = TRUE
      BY <2>1
    <3>5. QED
      BY <3>1, <3>3, <3>4
  <2>2. CASE ~recurse
    <3>1. W = {<<x>>} /\ <<x>> \in Seq(Nodes) /\ Len(<<x>>) = 1
      BY <1>1, <2>2
    <3>2. IsFiniteSet(W)
      BY <3>1, FS_Singleton
    <3>3. \A w \in W : w = <<x>> /\ w \in Seq(Nodes) /\ Len(w) >= 1 /\ ~(Len(w) > 1)
      BY <3>1
    <3>4. W \subseteq Seq(Nodes) /\ <<x>> \in W
      BY <3>1, <3>3
    <3>5. QED
      BY <2>2, <3>2, <3>3, <3>4 DEF Down
  <2>3. QED
    BY <2>1, <2>2
<1>3. IsFiniteSet(free)
  BY Sizes, FS_Subset
<1>4. \E g \in [W -> free] : IsInjective(g)
  BY <1>2, <1>3, AddressesExist
<1>5. f \in [W -> free] /\ IsInjective(f)
  BY <1>4
<1> HIDE DEF f
<1>6. f \in [W -> Nodes \ heap.live] /\ \A u, v \in W : f[u] = f[v] => u = v
  BY <1>5 DEF IsInjective
<1>7. Duplicates(f, W, L, x, recurse)
  BY <1>1, <1>2, <1>6 DEF Duplicates
<1>8. QED
  BY <1>2, <1>7 DEF f, Addresses

-----------------------------------------------------------------------------
(* Looking up.                                                               *)

\* What is found is an item of the array.
LEMMA ArrayItemIs ==
  ASSUME NEW h \in Heap, NEW L, Represents(h, L), NEW a \in Containers(h), NEW which \in Nat,
         get_array_item(h, a, which) # 0
  PROVE  which + 1 \in 1 .. Len(L[a]) /\ get_array_item(h, a, which) = L[a][which + 1]
<1>1. Items(h, a) = L[a] /\ L[a] \in Seq(Nodes)
  BY ItemsIs, ListOf
<1>2. QED
  BY <1>1 DEF get_array_item

LEMMA ObjectItemIs ==
  ASSUME NEW h \in Heap, NEW L, Represents(h, L), NEW a \in Containers(h), NEW name, NEW case_sensitive,
         get_object_item(h, a, name, case_sensitive) # 0
  PROVE  \E m \in 1 .. Len(L[a]) : get_object_item(h, a, name, case_sensitive) = L[a][m]
<1> DEFINE list == L[a]
           fits(n) == \/ case_sensitive /\ h.string[list[n]] = NULL
                      \/ SameKey(name, h.string[list[n]], case_sensitive)
           found == {n \in DOMAIN list : fits(n)}
<1>1. Items(h, a) = list /\ list \in Seq(Nodes)
  BY ItemsIs, ListOf
<1>2. found \subseteq 1 .. Len(list)
  BY <1>1
<1>3. get_object_item(h, a, name, case_sensitive) =
        IF found = {} THEN 0 ELSE IF h.string[list[Min(found)]] = NULL THEN 0 ELSE list[Min(found)]
  BY <1>1 DEF get_object_item
<1> HIDE DEF found
<1>4. found # {} /\ get_object_item(h, a, name, case_sensitive) = list[Min(found)]
  BY <1>3
<1>5. found \subseteq Nat
  BY <1>1, <1>2
<1>6. \E n \in found : \A k \in found : n <= k
  BY <1>4, <1>5, Smallest
<1>7. Min(found) \in found
  BY <1>6 DEF Min
<1>8. QED
  BY <1>2, <1>4, <1>7

LEMMA InRange ==
  ASSUME NEW h \in Heap, NEW L, Represents(h, L), NEW a \in Containers(h), NEW item \in Range(Items(h, a))
  PROVE  \E m \in 1 .. Len(L[a]) : item = L[a][m]
<1>1. Items(h, a) = L[a] /\ L[a] \in Seq(Nodes)
  BY ItemsIs, ListOf
<1>2. QED
  BY <1>1 DEF Range

-----------------------------------------------------------------------------
(* The steps.  Each makes a sound heap of a sound one, and does to the       *)
(* lists what one action of JsonLists does.                                  *)

Together(L) == TypeOK /\ roots \cap lost = {} /\ Sound(heap, L, roots \cup lost)

\* What the actions do to the lists, what is live and what is owned: from L, V and O to M, W and P.
Goes(L, x, a) == \E C : Least(C, x, Under(L)) /\ a \notin C
Drops(L, M, V, W, x) == \E C : Least(C, x, Under(L)) /\ W = V \ C /\ M = Emptied(L, C)
Inserts(L, M, V, W, O, P) ==
  \E x \in O \cup (Nodes \ V) :
    /\ P = O \ {x} /\ W = V \cup {x}
    /\ \E a \in V : /\ Goes(L, x, a)
                    /\ \E m \in 1 .. Len(L[a]) + 1 : M = [L EXCEPT ![a] = With(L[a], m, x)]
Detaches(L, M, V, W, O, P) ==
  \E a \in V : \E m \in 1 .. Len(L[a]) :
    P = O \cup {L[a][m]} /\ W = V /\ M = [L EXCEPT ![a] = Without(L[a], m)]
DeletesItem(L, M, V, W, O, P) ==
  \E a \in V : \E m \in 1 .. Len(L[a]) :
    P = O /\ Drops([L EXCEPT ![a] = Without(L[a], m)], M, V, W, L[a][m])
Replaces(L, M, V, W, O, P) ==
  \E x \in O : /\ P = O \ {x}
               /\ \E a \in V : /\ Goes(L, x, a)
                               /\ \E m \in 1 .. Len(L[a]) :
                                    Drops([L EXCEPT ![a] = Instead(L[a], m, x)], M, V, W, L[a][m])
Deletes(L, M, V, W, O, P) == \E x \in O : P = O \ {x} /\ Drops(L, M, V, W, x)
Creates(L, M, V, W, O, P) ==
  \E x \in Nodes \ V : /\ P = O \cup {x}
                       /\ \E C : Least(C, x, Under(M)) /\ W = V \cup C /\ C \cap V = {}
                       /\ \A a \in V : M[a] = L[a]
Stays(L, M, V, W, O, P) == M = L /\ W = V /\ P = O

Moves(L, M, V, W, O, P) ==
  \/ Inserts(L, M, V, W, O, P) \/ Detaches(L, M, V, W, O, P) \/ DeletesItem(L, M, V, W, O, P)
  \/ Replaces(L, M, V, W, O, P) \/ Deletes(L, M, V, W, O, P) \/ Creates(L, M, V, W, O, P)
  \/ Stays(L, M, V, W, O, P)

Steps(L) ==
  /\ roots' \cap lost' = {}
  /\ \E M : /\ Sound(heap', M, roots' \cup lost')
            /\ Moves(L, M, heap.live, heap'.live, roots \cup lost, roots' \cup lost')

LEMMA LongerWith ==
  ASSUME NEW s \in Seq(Nodes), NEW x
  PROVE  Longer(s, x) = With(s, Len(s) + 1, x)
<1>1. Len(s) \in Nat
  OBVIOUS
<1>2. \A k \in 1 .. Len(s) + 1 : (k <= Len(s) <=> k < Len(s) + 1) /\ (~(k <= Len(s)) => k = Len(s) + 1)
  BY <1>1
<1>3. QED
  BY <1>2 DEF Longer, With

\* An item that is not in use has nothing below it.
LEMMA Alone ==
  ASSUME NEW h, NEW L, NEW O, Sound(h, L, O), NEW n \in Nodes \ h.live
  PROVE  Least({n}, n, Under(L)) /\ n \notin O /\ ~Placed(L, n) /\ \A m : ~In(L[n], m)
<1>1. h \in Heap /\ Represents(h, L) /\ n \notin Containers(h)
  BY DEF Sound, Containers
<1>2. L[n] \in Seq(Nodes) /\ Len(L[n]) = 0
  BY <1>1 DEF Represents
<1>3. \A m : ~In(L[n], m)
  BY <1>2 DEF In
<1>4. Under(L)[n] = {}
  BY <1>3 DEF Under
<1>5. Least({n}, n, Under(L))
  BY <1>4 DEF Least
<1>6. QED
  BY <1>3, <1>5 DEF Sound, Owned

\* Adding an item at the end of an array.
LEMMA AddMove ==
  ASSUME NEW h, NEW L, NEW O, Sound(h, L, O), NEW a \in Containers(h), NEW x \in O
  PROVE  /\ Sound(add_item_to_array(h, a, x), [L EXCEPT ![a] = With(L[a], Len(L[a]) + 1, x)], O \ {x})
         /\ add_item_to_array(h, a, x).live = h.live
         /\ Len(L[a]) + 1 \in 1 .. Len(L[a]) + 1 /\ a \in h.live
<1> DEFINE g == add_item_to_array(h, a, x)
<1>1. h \in Heap /\ Represents(h, L) /\ x \in Nodes /\ ~Placed(L, x) /\ a \in h.live
  BY DEF Sound, Owned, Containers
<1>2. L[a] \in Seq(Nodes)
  BY <1>1, ListOf
<1>3. Longer(L[a], x) = With(L[a], Len(L[a]) + 1, x)
  BY <1>2, LongerWith
<1>4. Sound(g, [L EXCEPT ![a] = Longer(L[a], x)], O \ {x})
  BY AddSound
<1>5. SameRest(g, h)
  BY <1>1, AddIs
<1>6. Len(L[a]) + 1 \in 1 .. Len(L[a]) + 1
  BY <1>2
<1> HIDE DEF g
<1>7. QED
  BY <1>1, <1>3, <1>4, <1>5, <1>6 DEF g, SameRest

\* An item that may be added is the caller's and the array is not below it.
LEMMA MayAddIs ==
  ASSUME NEW L, Together(L), NEW a, NEW x, MayAdd(a, x)
  PROVE  /\ x \in roots /\ x \in roots \cup lost /\ Goes(L, x, a)
         /\ (roots \ {x}) \cup lost = (roots \cup lost) \ {x}
         /\ (roots \ {x}) \cap lost = {}
         /\ x \in heap.live /\ x \notin lost
<1>1. /\ heap \in Heap /\ Represents(heap, L) /\ Blank(heap) /\ x \in Nodes /\ ~Placed(L, x) /\ x \in roots
      /\ x \notin lost /\ x \in heap.live
  BY DEF Together, Sound, Owned, MayAdd
<1>2. Least(Deleted(heap, x), x, Under(L))
  BY <1>1, DeletedIs
<1>3. Goes(L, x, a)
  BY <1>2 DEF Goes, MayAdd
<1>4. QED
  BY <1>1, <1>3 DEF Together

LEMMA AddItemToArraySteps ==
  ASSUME NEW L, Together(L), AddItemToArray
  PROVE  Steps(L)
<1> DEFINE O == roots \cup lost
<1>1. PICK a \in Containers(heap), x \in roots :
        /\ MayAdd(a, x)
        /\ heap' = add_item_to_array(heap, a, x)
        /\ roots' = roots \ {x}
        /\ lost' = lost
  BY DEF AddItemToArray
<1>2. x \in O /\ Goes(L, x, a) /\ roots' \cup lost' = O \ {x} /\ roots' \cap lost' = {} /\ x \in heap.live
  BY <1>1, MayAddIs
<1> DEFINE m == Len(L[a]) + 1
           M == [L EXCEPT ![a] = With(L[a], m, x)]
<1>3. Sound(heap', M, O \ {x}) /\ heap'.live = heap.live /\ m \in 1 .. Len(L[a]) + 1 /\ a \in heap.live
  <2>1. Sound(heap, L, O)
    BY DEF Together
  <2>2. /\ Sound(add_item_to_array(heap, a, x), M, O \ {x})
        /\ add_item_to_array(heap, a, x).live = heap.live
        /\ m \in 1 .. Len(L[a]) + 1 /\ a \in heap.live
    BY <1>2, <2>1, AddMove
  <2>3. QED
    BY <1>1, <2>2
<1>4. Inserts(L, M, heap.live, heap'.live, O, roots' \cup lost')
  BY <1>2, <1>3 DEF Inserts
<1> HIDE DEF M, O
<1>5. Sound(heap', M, roots' \cup lost')
  BY <1>2, <1>3
<1>6. Moves(L, M, heap.live, heap'.live, roots \cup lost, roots' \cup lost')
  BY <1>4 DEF Moves, O
<1>7. QED
  BY <1>2, <1>5, <1>6 DEF Steps

LEMMA AddItemToObjectSteps ==
  ASSUME NEW L, Together(L), AddItemToObject
  PROVE  Steps(L)
<1> DEFINE O == roots \cup lost
<1>1. PICK a \in Containers(heap), x \in roots, name \in Names, constant \in BOOLEAN :
        /\ MayAdd(a, x)
        /\ heap' = add_item_to_object(heap, a, name, x, constant)
        /\ roots' = roots \ {x}
        /\ lost' = lost
  BY DEF AddItemToObject
<1>2. x \in O /\ Goes(L, x, a) /\ roots' \cup lost' = O \ {x} /\ roots' \cap lost' = {} /\ x \in heap.live
  BY <1>1, MayAddIs
<1> DEFINE h == Keyed(heap, x, name, constant)
           m == Len(L[a]) + 1
           M == [L EXCEPT ![a] = With(L[a], m, x)]
<1>3. Sound(h, L, O) /\ h.live = heap.live /\ a \in Containers(h)
  BY <1>1, <1>2, KeyedSound DEF Together
<1>4. heap' = add_item_to_array(h, a, x)
  BY <1>1 DEF add_item_to_object
<1> HIDE DEF h
<1>5. Sound(heap', M, O \ {x}) /\ heap'.live = heap.live /\ m \in 1 .. Len(L[a]) + 1 /\ a \in heap.live
  <2>1. /\ Sound(add_item_to_array(h, a, x), M, O \ {x})
        /\ add_item_to_array(h, a, x).live = h.live
        /\ m \in 1 .. Len(L[a]) + 1 /\ a \in h.live
    BY <1>2, <1>3, AddMove
  <2>2. QED
    BY <1>3, <1>4, <2>1
<1>6. Inserts(L, M, heap.live, heap'.live, O, roots' \cup lost')
  BY <1>2, <1>5 DEF Inserts
<1> HIDE DEF M, O
<1>7. Sound(heap', M, roots' \cup lost')
  BY <1>2, <1>5
<1>8. Moves(L, M, heap.live, heap'.live, roots \cup lost, roots' \cup lost')
  BY <1>6 DEF Moves, O
<1>9. QED
  BY <1>2, <1>7, <1>8 DEF Steps

LEMMA InsertItemInArraySteps ==
  ASSUME NEW L, Together(L), InsertItemInArray
  PROVE  Steps(L)
<1> DEFINE O == roots \cup lost
<1>1. PICK a \in Containers(heap), x \in roots, which \in 0 .. Cardinality(Nodes) - 1 :
        LET after == get_array_item(heap, a, which)
        IN /\ MayAdd(a, x)
           /\ heap' = IF after = 0 THEN add_item_to_array(heap, a, x) ELSE Inserted(heap, a, after, x)
           /\ roots' = roots \ {x}
           /\ lost' = lost
  BY DEF InsertItemInArray
<1> DEFINE after == get_array_item(heap, a, which)
<1>2. x \in O /\ Goes(L, x, a) /\ roots' \cup lost' = O \ {x} /\ roots' \cap lost' = {} /\ x \in heap.live
  BY <1>1, MayAddIs
<1>3. heap \in Heap /\ Represents(heap, L) /\ Sound(heap, L, O) /\ a \in heap.live
  BY DEF Together, Sound, Containers
<1>4. \E m \in 1 .. Len(L[a]) + 1 : Sound(heap', [L EXCEPT ![a] = With(L[a], m, x)], O \ {x}) /\ heap'.live = heap.live
  <2>1. CASE after = 0
    <3>1. heap' = add_item_to_array(heap, a, x)
      BY <1>1, <2>1
    <3> DEFINE m == Len(L[a]) + 1
               M == [L EXCEPT ![a] = With(L[a], m, x)]
    <3> HIDE DEF after
    <3>a. Sound(heap, L, O) /\ x \in O
      BY <1>2, <1>3
    <3>2. /\ Sound(add_item_to_array(heap, a, x), M, O \ {x})
          /\ add_item_to_array(heap, a, x).live = heap.live
          /\ m \in 1 .. Len(L[a]) + 1 /\ a \in heap.live
      BY <3>a, AddMove
    <3>3. m \in 1 .. Len(L[a]) + 1 /\ Sound(heap', [L EXCEPT ![a] = With(L[a], m, x)], O \ {x})
      BY <3>1, <3>2
    <3> HIDE DEF O, m, M
    <3>4. QED
      BY <3>1, <3>2, <3>3
  <2>2. CASE after # 0
    <3>1. heap' = Inserted(heap, a, after, x)
      BY <1>1, <2>2
    <3> DEFINE m == which + 1
    <3>2. m \in 1 .. Len(L[a]) /\ after = L[a][m]
      BY <1>3, <2>2, ArrayItemIs
    <3> HIDE DEF m, after
    <3>3. Sound(Inserted(heap, a, L[a][m], x), [L EXCEPT ![a] = With(L[a], m, x)], O \ {x})
      BY <1>2, <1>3, <3>2, InsertSound
    <3>4. x \in Nodes /\ ~Placed(L, x)
      BY <1>2, <1>3 DEF Sound, Owned
    <3>5. SameRest(Inserted(heap, a, L[a][m], x), heap)
      BY <1>3, <3>2, <3>4, InsertIs
    <3>6. heap'.live = heap.live
      BY <3>1, <3>2, <3>5 DEF SameRest
    <3>7. m \in 1 .. Len(L[a]) + 1
      <4>1. L[a] \in Seq(Nodes)
        BY <1>3, ListOf
      <4>2. QED
        BY <3>2, <4>1
    <3> HIDE DEF O
    <3>8. Sound(heap', [L EXCEPT ![a] = With(L[a], m, x)], O \ {x})
      BY <3>1, <3>2, <3>3
    <3>9. QED
      BY <3>6, <3>7, <3>8
  <2>3. QED
    BY <2>1, <2>2
<1>5. PICK m \in 1 .. Len(L[a]) + 1 :
        Sound(heap', [L EXCEPT ![a] = With(L[a], m, x)], O \ {x}) /\ heap'.live = heap.live
  BY <1>4
<1> DEFINE M == [L EXCEPT ![a] = With(L[a], m, x)]
<1>6. Inserts(L, M, heap.live, heap'.live, O, roots' \cup lost')
  BY <1>2, <1>3, <1>5 DEF Inserts
<1>7. Sound(heap', M, roots' \cup lost')
  BY <1>2, <1>5
<1> HIDE DEF M, O
<1>8. Moves(L, M, heap.live, heap'.live, roots \cup lost, roots' \cup lost')
  BY <1>6 DEF Moves, O
<1>9. QED
  BY <1>2, <1>7, <1>8 DEF Steps

\* A new item n goes to the end of a, and has no more been in use.
LEMMA NewSteps ==
  ASSUME NEW L, Together(L), NEW a \in Containers(heap), NEW n, NEW h, h.live = heap.live \cup {n},
         n \in Nodes \ heap.live, Sound(h, L, (roots \cup lost) \cup {n}), a \in Containers(h),
         heap' = add_item_to_array(h, a, n), UNCHANGED <<roots, lost>>
  PROVE  Steps(L)
<1> DEFINE O == roots \cup lost
           m == Len(L[a]) + 1
           M == [L EXCEPT ![a] = With(L[a], m, n)]
<1>1. Sound(heap, L, O) /\ roots' \cup lost' = O /\ roots' \cap lost' = {} /\ a \in heap.live
  BY DEF Together, Containers
<1>2. Least({n}, n, Under(L)) /\ n \notin O
  BY <1>1, Alone
<1>3. a # n /\ Goes(L, n, a) /\ O = O \ {n}
  BY <1>1, <1>2 DEF Goes
<1>4. (O \cup {n}) \ {n} = O
  BY <1>2
<1>5. /\ Sound(add_item_to_array(h, a, n), M, (O \cup {n}) \ {n})
      /\ add_item_to_array(h, a, n).live = h.live
      /\ m \in 1 .. Len(L[a]) + 1 /\ a \in h.live
  BY AddMove
<1>6. Sound(heap', M, O) /\ heap'.live = heap.live \cup {n}
  BY <1>4, <1>5
<1>7. Inserts(L, M, heap.live, heap'.live, O, roots' \cup lost')
  BY <1>1, <1>3, <1>5, <1>6 DEF Inserts
<1>8. Sound(heap', M, roots' \cup lost')
  BY <1>1, <1>6
<1> HIDE DEF M, O
<1>9. Moves(L, M, heap.live, heap'.live, roots \cup lost, roots' \cup lost')
  BY <1>7 DEF Moves, O
<1>10. QED
  BY <1>1, <1>8, <1>9 DEF Steps

LEMMA AddItemReferenceToArraySteps ==
  ASSUME NEW L, Together(L), AddItemReferenceToArray
  PROVE  Steps(L)
<1> DEFINE n == NewAddress(heap)
<1>1. PICK a \in Containers(heap), item \in heap.live :
        /\ HasMemory(heap)
        /\ heap' = add_item_to_array(create_reference(heap, item), a, n)
        /\ UNCHANGED <<roots, lost>>
  BY DEF AddItemReferenceToArray
<1> DEFINE h == create_reference(heap, item)
<1>2. heap \in Heap /\ Blank(heap) /\ item \in Nodes /\ a \in Nodes /\ Sound(heap, L, roots \cup lost)
  BY DEF Together, Sound, Heap, Containers
<1>3. Made(heap, h, n)
  BY <1>1, <1>2, ReferenceMade
<1> HIDE DEF h, n
<1>4. Sound(h, L, (roots \cup lost) \cup {n}) /\ n \notin roots \cup lost /\ a \in Containers(h)
  BY <1>2, <1>3, MadeSound
<1>5. n \in Nodes \ heap.live /\ h.live = heap.live \cup {n}
  BY <1>3 DEF Made
<1>6. heap' = add_item_to_array(h, a, n)
  BY <1>1 DEF h
<1>7. QED
  BY <1>1, <1>4, <1>5, <1>6, NewSteps

\* An item is made, or a reference, that the caller gets or nobody does.
LEMMA MadeSteps ==
  ASSUME NEW L, Together(L), NEW n, Made(heap, heap', n),
         roots' \cup lost' = (roots \cup lost) \cup {n}, roots' \subseteq roots \cup {n}, lost' \subseteq lost \cup {n},
         n \in roots' => lost' = lost
  PROVE  Steps(L)
<1> DEFINE O == roots \cup lost
<1>1. Sound(heap, L, O) /\ roots \cap lost = {}
  BY DEF Together
<1>2. Sound(heap', L, O \cup {n}) /\ n \notin O
  BY <1>1, MadeSound
<1>3. n \in Nodes \ heap.live /\ heap'.live = heap.live \cup {n}
  BY DEF Made
<1>4. Least({n}, n, Under(L))
  BY <1>1, <1>3, Alone
<1>5. Creates(L, L, heap.live, heap'.live, O, roots' \cup lost')
  BY <1>3, <1>4 DEF Creates
<1>6. Moves(L, L, heap.live, heap'.live, O, roots' \cup lost')
  BY <1>5 DEF Moves
<1>7. roots' \cap lost' = {}
  BY <1>1, <1>2
<1>8. Sound(heap', L, roots' \cup lost')
  BY <1>2
<1>9. QED
  BY <1>6, <1>7, <1>8 DEF Steps

LEMMA CreateSteps ==
  ASSUME NEW L, Together(L), Create
  PROVE  Steps(L)
<1> DEFINE n == NewAddress(heap)
<1>1. heap \in Heap /\ Blank(heap)
  BY DEF Together, Sound
<1>2. Made(heap, cJSON_New_Item(heap), n)
  BY <1>1, NewMade DEF Create
<1>3. Made(heap, heap', n)
  BY <1>2 DEF Create
<1>4. roots' = roots \cup {n} /\ lost' = lost
  BY DEF Create
<1> HIDE DEF n
<1>5. QED
  BY <1>3, <1>4, MadeSteps

LEMMA CreateReferenceSteps ==
  ASSUME NEW L, Together(L), CreateReference
  PROVE  Steps(L)
<1> DEFINE n == NewAddress(heap)
<1>1. PICK first \in heap.live :
        /\ HasMemory(heap)
        /\ heap' = [cJSON_New_Item(heap) EXCEPT !.child[NewAddress(heap)] = first, !.reference = @ \cup {NewAddress(heap)}]
        /\ roots' = roots \cup {n}
        /\ lost' = lost
  BY DEF CreateReference
<1>2. heap \in Heap /\ Blank(heap) /\ first \in Nodes
  BY DEF Together, Sound, Heap
<1>3. Made(heap, [cJSON_New_Item(heap) EXCEPT !.child[NewAddress(heap)] = first,
                                              !.reference = @ \cup {NewAddress(heap)}], NewAddress(heap))
  BY <1>1, <1>2, RefersMade
<1>4. Made(heap, heap', n)
  BY <1>1, <1>3
<1> HIDE DEF n
<1>5. QED
  BY <1>1, <1>4, MadeSteps

LEMMA AddItemReferenceToObjectSteps ==
  ASSUME NEW L, Together(L), AddItemReferenceToObject
  PROVE  Steps(L)
<1> DEFINE n == NewAddress(heap)
<1>1. PICK a \in Containers(heap), item \in heap.live, name \in Names :
        /\ HasMemory(heap)
        /\ \/ /\ heap' = add_item_to_object(create_reference(heap, item), a, name, n, FALSE)
              /\ lost' = lost
           \/ /\ heap' = create_reference(heap, item)
              /\ lost' = lost \cup {n}
        /\ UNCHANGED roots
  BY DEF AddItemReferenceToObject
<1> DEFINE h == create_reference(heap, item)
           g == Keyed(h, n, name, FALSE)
<1>2. heap \in Heap /\ Blank(heap) /\ item \in Nodes /\ a \in Nodes /\ Sound(heap, L, roots \cup lost)
  BY DEF Together, Sound, Heap, Containers
<1>3. Made(heap, h, n)
  BY <1>1, <1>2, ReferenceMade
<1> HIDE DEF h, n
<1>4. Sound(h, L, (roots \cup lost) \cup {n}) /\ n \notin roots \cup lost /\ a \in Containers(h)
  BY <1>2, <1>3, MadeSound
<1>5. n \in Nodes \ heap.live /\ h.live = heap.live \cup {n}
  BY <1>3 DEF Made
<1>6. CASE heap' = add_item_to_object(h, a, name, n, FALSE) /\ lost' = lost
  <2>1. heap' = add_item_to_array(g, a, n)
    BY <1>6 DEF add_item_to_object
  <2>2. Sound(g, L, (roots \cup lost) \cup {n}) /\ g.live = h.live /\ Containers(g) = Containers(h)
    BY <1>4, <1>5, KeyedSound
  <2> HIDE DEF g
  <2>3. g.live = heap.live \cup {n} /\ a \in Containers(g) /\ UNCHANGED <<roots, lost>>
    BY <1>1, <1>4, <1>5, <1>6, <2>2
  <2>4. QED
    BY <1>5, <2>1, <2>2, <2>3, NewSteps
<1>7. CASE heap' = h /\ lost' = lost \cup {n}
  <2>1. Made(heap, heap', n)
    BY <1>3, <1>7
  <2>2. roots' = roots /\ n \notin roots
    BY <1>1, <1>4
  <2>3. QED
    BY <1>7, <2>1, <2>2, MadeSteps
<1>8. QED
  BY <1>1, <1>6, <1>7 DEF h

LEMMA AddNewToObjectSteps ==
  ASSUME NEW L, Together(L), AddNewToObject
  PROVE  Steps(L)
<1> DEFINE n == NewAddress(heap)
           h == cJSON_New_Item(heap)
<1>1. PICK a \in Containers(heap), name \in Names :
        /\ HasMemory(heap)
        /\ heap' = add_item_to_object(h, a, name, n, FALSE)
        /\ UNCHANGED <<roots, lost>>
  BY DEF AddNewToObject
<1> DEFINE g == Keyed(h, n, name, FALSE)
<1>2. heap \in Heap /\ Blank(heap) /\ a \in Nodes /\ Sound(heap, L, roots \cup lost)
  BY DEF Together, Sound, Heap, Containers
<1>3. Made(heap, h, n)
  BY <1>1, <1>2, NewMade
<1> HIDE DEF h, n
<1>4. Sound(h, L, (roots \cup lost) \cup {n}) /\ n \notin roots \cup lost /\ a \in Containers(h)
  BY <1>2, <1>3, MadeSound
<1>5. n \in Nodes \ heap.live /\ h.live = heap.live \cup {n}
  BY <1>3 DEF Made
<1>6. heap' = add_item_to_array(g, a, n)
  BY <1>1 DEF add_item_to_object
<1>7. Sound(g, L, (roots \cup lost) \cup {n}) /\ g.live = h.live /\ Containers(g) = Containers(h)
  BY <1>4, <1>5, KeyedSound
<1> HIDE DEF g
<1>8. g.live = heap.live \cup {n} /\ a \in Containers(g)
  BY <1>4, <1>5, <1>7
<1>9. QED
  BY <1>1, <1>5, <1>6, <1>7, <1>8, NewSteps

\* The item at m of a is detached and the caller gets it.
LEMMA DetachedSteps ==
  ASSUME NEW L, Together(L), NEW a \in Containers(heap), NEW m \in 1 .. Len(L[a]), NEW x, x = L[a][m],
         heap' = cJSON_DetachItemViaPointer(heap, a, x), roots' = roots \cup {x}, lost' = lost
  PROVE  Steps(L)
<1> DEFINE O == roots \cup lost
           M == [L EXCEPT ![a] = Without(L[a], m)]
<1>1. Sound(heap, L, O) /\ heap \in Heap /\ Represents(heap, L) /\ a \in heap.live /\ roots \cap lost = {}
  BY DEF Together, Sound, Containers
<1>2. Sound(cJSON_DetachItemViaPointer(heap, a, L[a][m]), M, O \cup {L[a][m]}) /\ L[a][m] \notin O
  BY <1>1, DetachSound
<1>3. SameRest(cJSON_DetachItemViaPointer(heap, a, L[a][m]), heap)
  BY <1>1, DetachIs
<1> HIDE DEF M
<1>4. Sound(heap', M, O \cup {x}) /\ x \notin O /\ heap'.live = heap.live
  BY <1>2, <1>3 DEF SameRest
<1>5. roots' \cup lost' = O \cup {x} /\ roots' \cap lost' = {}
  BY <1>1, <1>4
<1>6. Detaches(L, M, heap.live, heap'.live, O, roots' \cup lost')
  BY <1>1, <1>4, <1>5 DEF Detaches, M
<1> HIDE DEF O
<1>7. Moves(L, M, heap.live, heap'.live, roots \cup lost, roots' \cup lost')
  BY <1>6 DEF Moves, O
<1>8. QED
  BY <1>4, <1>5, <1>7 DEF Steps

LEMMA DetachItemSteps ==
  ASSUME NEW L, Together(L), DetachItem
  PROVE  Steps(L)
<1>1. PICK a \in Containers(heap) : \E item \in Range(Items(heap, a)) :
        /\ heap' = cJSON_DetachItemViaPointer(heap, a, item)
        /\ roots' = roots \cup {item}
        /\ lost' = lost
  BY DEF DetachItem
<1>2. PICK item \in Range(Items(heap, a)) :
        /\ heap' = cJSON_DetachItemViaPointer(heap, a, item)
        /\ roots' = roots \cup {item}
        /\ lost' = lost
  BY <1>1
<1>3. heap \in Heap /\ Represents(heap, L)
  BY DEF Together, Sound
<1>4. PICK m \in 1 .. Len(L[a]) : item = L[a][m]
  BY <1>3, InRange
<1>5. QED
  BY <1>2, <1>4, DetachedSteps

LEMMA DetachItemFromObjectSteps ==
  ASSUME NEW L, Together(L), DetachItemFromObject
  PROVE  Steps(L)
<1>1. PICK a \in Containers(heap), name \in Names, case_sensitive \in BOOLEAN :
        LET item == get_object_item(heap, a, name, case_sensitive)
        IN /\ item # 0
           /\ heap' = cJSON_DetachItemViaPointer(heap, a, item)
           /\ roots' = roots \cup {item}
           /\ lost' = lost
  BY DEF DetachItemFromObject
<1> DEFINE item == get_object_item(heap, a, name, case_sensitive)
<1>2. heap \in Heap /\ Represents(heap, L)
  BY DEF Together, Sound
<1>3. PICK m \in 1 .. Len(L[a]) : item = L[a][m]
  BY <1>1, <1>2, ObjectItemIs
<1>4. heap' = cJSON_DetachItemViaPointer(heap, a, item) /\ roots' = roots \cup {item} /\ lost' = lost
  BY <1>1
<1> HIDE DEF item
<1>5. QED
  BY <1>3, <1>4, DetachedSteps

LEMMA DeleteItemFromArraySteps ==
  ASSUME NEW L, Together(L), DeleteItemFromArray
  PROVE  Steps(L)
<1> DEFINE O == roots \cup lost
<1>1. PICK a \in Containers(heap), which \in 0 .. Cardinality(Nodes) - 1 :
        LET item == get_array_item(heap, a, which)
        IN /\ item # 0
           /\ heap' = cJSON_Delete(cJSON_DetachItemViaPointer(heap, a, item), item)
           /\ UNCHANGED <<roots, lost>>
  BY DEF DeleteItemFromArray
<1> DEFINE x == get_array_item(heap, a, which)
           m == which + 1
           g == cJSON_DetachItemViaPointer(heap, a, x)
           K == [L EXCEPT ![a] = Without(L[a], m)]
           gone == Deleted(g, x)
           M == Emptied(K, gone)
<1>2. Sound(heap, L, O) /\ heap \in Heap /\ Represents(heap, L) /\ a \in heap.live /\ roots \cap lost = {}
  BY DEF Together, Sound, Containers
<1>3. m \in 1 .. Len(L[a]) /\ x = L[a][m]
  BY <1>1, <1>2, ArrayItemIs
<1>4. heap' = cJSON_Delete(g, x) /\ roots' \cup lost' = O /\ roots' \cap lost' = {}
  BY <1>1, <1>2
<1> HIDE DEF x, m
<1>5. Sound(cJSON_DetachItemViaPointer(heap, a, L[a][m]), K, O \cup {L[a][m]}) /\ L[a][m] \notin O
  BY <1>2, <1>3, DetachSound
<1>6. SameRest(cJSON_DetachItemViaPointer(heap, a, L[a][m]), heap)
  BY <1>2, <1>3, DetachIs
<1> HIDE DEF K, gone, M
<1>7. Sound(g, K, O \cup {x}) /\ x \notin O /\ g.live = heap.live
  BY <1>3, <1>5, <1>6 DEF SameRest
<1> HIDE DEF g
<1>8. x \in O \cup {x}
  OBVIOUS
<1>9. /\ Sound(cJSON_Delete(g, x), M, (O \cup {x}) \ {x})
      /\ Least(gone, x, Under(K))
      /\ cJSON_Delete(g, x).live = g.live \ gone
  BY <1>7, <1>8, DeleteSound DEF M, gone
<1>10. Sound(heap', M, O) /\ heap'.live = heap.live \ gone
  <2>1. (O \cup {x}) \ {x} = O
    BY <1>7
  <2>2. QED
    BY <1>4, <1>7, <1>9, <2>1
<1>11. Drops(K, M, heap.live, heap'.live, x)
  BY <1>9, <1>10 DEF Drops, M
<1>12. DeletesItem(L, M, heap.live, heap'.live, O, roots' \cup lost')
  BY <1>2, <1>3, <1>4, <1>11 DEF DeletesItem, K
<1> HIDE DEF O
<1>13. Moves(L, M, heap.live, heap'.live, roots \cup lost, roots' \cup lost')
  BY <1>12 DEF Moves, O
<1>14. QED
  BY <1>4, <1>10, <1>13 DEF Steps

LEMMA DropMove ==
  ASSUME NEW g, NEW K, NEW P, Sound(g, K, P), NEW x \in P
  PROVE  \E M : Sound(cJSON_Delete(g, x), M, P \ {x}) /\ Drops(K, M, g.live, cJSON_Delete(g, x).live, x)
<1> DEFINE gone == Deleted(g, x)
           M == Emptied(K, gone)
<1>1. /\ Sound(cJSON_Delete(g, x), M, P \ {x})
      /\ Least(gone, x, Under(K))
      /\ cJSON_Delete(g, x).live = g.live \ gone
  BY DeleteSound
<1>2. Drops(K, M, g.live, cJSON_Delete(g, x).live, x)
  BY <1>1 DEF Drops
<1>3. QED
  BY <1>1, <1>2

LEMMA ReplacedMove ==
  ASSUME NEW h, NEW L, NEW O, Sound(h, L, O), NEW a \in Containers(h), NEW m \in 1 .. Len(L[a]), NEW x \in O
  PROVE  \E M : /\ Sound(cJSON_ReplaceItemViaPointer(h, a, L[a][m], x), M, O \ {x})
               /\ Drops([L EXCEPT ![a] = Instead(L[a], m, x)], M, h.live,
                        cJSON_ReplaceItemViaPointer(h, a, L[a][m], x).live, L[a][m])
<1> DEFINE item == L[a][m]
           g == Replaced(h, a, item, x)
           K == [L EXCEPT ![a] = Instead(L[a], m, x)]
           P == (O \ {x}) \cup {item}
<1>1. h \in Heap /\ Represents(h, L) /\ x \in Nodes /\ ~Placed(L, x)
  BY DEF Sound, Owned
<1>2. Sound(g, K, P) /\ item \notin O
  BY ReplacedSound
<1>3. SameRest(g, h)
  BY <1>1, ReplacedIs
<1>4. item \in P /\ P \ {item} = O \ {x}
  BY <1>2
<1>5. cJSON_ReplaceItemViaPointer(h, a, item, x) = cJSON_Delete(g, item)
  BY DEF cJSON_ReplaceItemViaPointer
<1> HIDE DEF g, K, P, item
<1>6. \E M : Sound(cJSON_Delete(g, item), M, P \ {item}) /\ Drops(K, M, g.live, cJSON_Delete(g, item).live, item)
  BY <1>2, <1>4, DropMove
<1>7. g.live = h.live
  BY <1>3 DEF SameRest
<1>8. \E M : /\ Sound(cJSON_ReplaceItemViaPointer(h, a, item, x), M, O \ {x})
             /\ Drops(K, M, h.live, cJSON_ReplaceItemViaPointer(h, a, item, x).live, item)
  BY <1>4, <1>5, <1>6, <1>7
<1>9. QED
  BY <1>8 DEF item, K

\* x takes the place m of a, in h, where it may have another key than in heap.
LEMMA ReplacedSteps ==
  ASSUME NEW L, Together(L), NEW a, NEW x, MayAdd(a, x),
         NEW h, Sound(h, L, roots \cup lost), h.live = heap.live, a \in Containers(h),
         NEW m \in 1 .. Len(L[a]), NEW item, item = L[a][m],
         heap' = cJSON_ReplaceItemViaPointer(h, a, item, x), roots' = roots \ {x}, lost' = lost
  PROVE  Steps(L)
<1> DEFINE O == roots \cup lost
           K == [L EXCEPT ![a] = Instead(L[a], m, x)]
<1>1. x \in O /\ Goes(L, x, a) /\ roots' \cup lost' = O \ {x} /\ roots' \cap lost' = {}
  BY MayAddIs
<1>2. \E M : /\ Sound(cJSON_ReplaceItemViaPointer(h, a, L[a][m], x), M, O \ {x})
             /\ Drops(K, M, h.live, cJSON_ReplaceItemViaPointer(h, a, L[a][m], x).live, L[a][m])
  BY <1>1, ReplacedMove
<1>3. PICK M : Sound(heap', M, O \ {x}) /\ Drops(K, M, heap.live, heap'.live, item)
  BY <1>2
<1>4. a \in heap.live
  BY DEF Containers
<1>5. Replaces(L, M, heap.live, heap'.live, O, roots' \cup lost')
  BY <1>1, <1>3, <1>4 DEF Replaces
<1> HIDE DEF O
<1>6. Moves(L, M, heap.live, heap'.live, roots \cup lost, roots' \cup lost')
  BY <1>5 DEF Moves, O
<1>7. QED
  BY <1>1, <1>3, <1>6 DEF Steps

LEMMA ReplaceItemSteps ==
  ASSUME NEW L, Together(L), ReplaceItem
  PROVE  Steps(L)
<1>1. PICK a \in Containers(heap), x \in roots : \E item \in Range(Items(heap, a)) :
        /\ MayAdd(a, x)
        /\ heap' = cJSON_ReplaceItemViaPointer(heap, a, item, x)
        /\ roots' = roots \ {x}
        /\ lost' = lost
  BY DEF ReplaceItem
<1>2. PICK item \in Range(Items(heap, a)) :
        /\ MayAdd(a, x)
        /\ heap' = cJSON_ReplaceItemViaPointer(heap, a, item, x)
        /\ roots' = roots \ {x}
        /\ lost' = lost
  BY <1>1
<1>3. heap \in Heap /\ Represents(heap, L) /\ Sound(heap, L, roots \cup lost)
  BY DEF Together, Sound
<1>4. PICK m \in 1 .. Len(L[a]) : item = L[a][m]
  BY <1>3, InRange
<1>5. QED
  BY <1>2, <1>3, <1>4, ReplacedSteps

\* A key is all that changes.
LEMMA KeySteps ==
  ASSUME NEW L, Together(L), Sound(heap', L, roots \cup lost), heap'.live = heap.live,
         roots' = roots, lost' = lost
  PROVE  Steps(L)
<1>1. roots' \cap lost' = {} /\ roots' \cup lost' = roots \cup lost
  BY DEF Together
<1>2. Moves(L, L, heap.live, heap'.live, roots \cup lost, roots' \cup lost')
  BY <1>1 DEF Moves, Stays
<1>3. QED
  BY <1>1, <1>2 DEF Steps

LEMMA ReplaceItemInObjectSteps ==
  ASSUME NEW L, Together(L), ReplaceItemInObject
  PROVE  Steps(L)
<1>1. PICK a \in Containers(heap), x \in roots, name \in Names, case_sensitive \in BOOLEAN :
        LET keyed == Keyed(heap, x, name, FALSE)
            item == get_object_item(keyed, a, name, case_sensitive)
        IN /\ MayAdd(a, x)
           /\ \/ /\ heap' = [heap EXCEPT !.strings = Released(heap, x), !.string[x] = NULL]
                 /\ roots' = roots
              \/ /\ item = 0
                 /\ heap' = keyed
                 /\ roots' = roots
              \/ /\ item # 0
                 /\ heap' = cJSON_ReplaceItemViaPointer(keyed, a, item, x)
                 /\ roots' = roots \ {x}
           /\ lost' = lost
  BY DEF ReplaceItemInObject
<1> DEFINE h == Keyed(heap, x, name, FALSE)
           item == get_object_item(h, a, name, case_sensitive)
           u == [heap EXCEPT !.strings = Released(heap, x), !.string[x] = NULL]
<1>2. Sound(heap, L, roots \cup lost) /\ MayAdd(a, x) /\ lost' = lost
  BY <1>1 DEF Together
<1>3. x \in heap.live
  BY <1>2, MayAddIs
<1>4. Sound(h, L, roots \cup lost) /\ h.live = heap.live /\ Containers(h) = Containers(heap)
  BY <1>2, <1>3, KeyedSound
<1>5. Sound(u, L, roots \cup lost) /\ u.live = heap.live
  <2>1. Sound(u, L, roots \cup lost)
    BY <1>2, <1>3, UnkeyedSound
  <2>2. u.live = heap.live
    BY <1>2 DEF Sound, Heap
  <2>3. QED
    BY <2>1, <2>2
<1>6. \/ heap' = u /\ roots' = roots
      \/ heap' = h /\ roots' = roots
      \/ item # 0 /\ heap' = cJSON_ReplaceItemViaPointer(h, a, item, x) /\ roots' = roots \ {x}
  BY <1>1
<1> HIDE DEF h, u
<1>7. CASE heap' = u /\ roots' = roots
  BY <1>2, <1>5, <1>7, KeySteps
<1>8. CASE heap' = h /\ roots' = roots
  BY <1>2, <1>4, <1>8, KeySteps
<1>9. CASE item # 0 /\ heap' = cJSON_ReplaceItemViaPointer(h, a, item, x) /\ roots' = roots \ {x}
  <2>1. h \in Heap /\ Represents(h, L) /\ a \in Containers(h)
    BY <1>4 DEF Sound
  <2>2. PICK m \in 1 .. Len(L[a]) : item = L[a][m]
    BY <1>9, <2>1, ObjectItemIs
  <2> HIDE DEF item
  <2>3. QED
    BY <1>2, <1>4, <1>9, <2>1, <2>2, ReplacedSteps
<1>10. QED
  BY <1>6, <1>7, <1>8, <1>9

LEMMA DeleteSteps ==
  ASSUME NEW L, Together(L), Delete
  PROVE  Steps(L)
<1> DEFINE O == roots \cup lost
<1>1. PICK x \in roots : heap' = cJSON_Delete(heap, x) /\ roots' = roots \ {x} /\ lost' = lost
  BY DEF Delete
<1> DEFINE gone == Deleted(heap, x)
           M == Emptied(L, gone)
<1>2. /\ Sound(heap, L, O) /\ x \in O /\ roots' \cap lost' = {}
      /\ roots' \cup lost' = O \ {x}
  BY <1>1 DEF Together
<1>3. /\ Sound(cJSON_Delete(heap, x), M, O \ {x})
      /\ Least(gone, x, Under(L))
      /\ cJSON_Delete(heap, x).live = heap.live \ gone
  BY <1>2, DeleteSound
<1> HIDE DEF M, gone
<1>4. Drops(L, M, heap.live, heap'.live, x)
  BY <1>1, <1>3 DEF Drops, M
<1>5. Deletes(L, M, heap.live, heap'.live, O, roots' \cup lost')
  BY <1>2, <1>4 DEF Deletes
<1>6. Sound(heap', M, roots' \cup lost')
  BY <1>1, <1>2, <1>3
<1> HIDE DEF O
<1>7. Moves(L, M, heap.live, heap'.live, roots \cup lost, roots' \cup lost')
  BY <1>5 DEF Moves, O
<1>8. QED
  BY <1>2, <1>6, <1>7 DEF Steps

LEMMA CreateArrayOfSteps ==
  ASSUME NEW L, Together(L), CreateArrayOf
  PROVE  Steps(L)
<1> DEFINE O == roots \cup lost
<1>1. PICK count \in 0 .. Cardinality(Nodes \ heap.live) - 1 :
        LET taken == CHOOSE S \in SUBSET (Nodes \ heap.live) : Cardinality(S) = count + 1
        IN /\ heap' = Linked(heap, Min(taken), SetToSeq(taken \ {Min(taken)}))
           /\ roots' = roots \cup {Min(taken)}
           /\ lost' = lost
  BY DEF CreateArrayOf
<1> DEFINE taken == CHOOSE S \in SUBSET (Nodes \ heap.live) : Cardinality(S) = count + 1
           a == Min(taken)
           list == SetToSeq(taken \ {Min(taken)})
           M == [L EXCEPT ![a] = list]
           C == {a} \cup {n \in Nodes : In(list, n)}
<1>2. Sound(heap, L, O) /\ heap \in Heap /\ L \in [Nodes -> Seq(Nodes)] /\ roots \cap lost = {} /\ heap.live \subseteq Nodes
  BY DEF Together, Sound, Represents, Heap
<1>3. /\ a \in Nodes \ heap.live /\ list \in Seq(Nodes) /\ Distinct(list)
      /\ \A n : In(list, n) => n \in Nodes \ heap.live /\ n # a
  BY <1>2, TakenIs
<1>4. heap' = Linked(heap, a, list) /\ roots' = roots \cup {a} /\ lost' = lost
  BY <1>1
<1> HIDE DEF taken, a, list
<1>5. /\ Sound(Linked(heap, a, list), M, O \cup {a})
      /\ \A n \in Nodes : n \in Linked(heap, a, list).live <=> n \in heap.live \/ n = a \/ In(list, n)
  <2>1. Sound(heap, L, O)
    BY <1>2
  <2> HIDE DEF O
  <2>2. QED
    BY <1>3, <2>1, LinkedSound
<1>6. a \notin O
  BY <1>2, <1>3, Alone
<1>7. roots' \cup lost' = O \cup {a} /\ roots' \cap lost' = {}
  BY <1>2, <1>4, <1>6
<1>8. M[a] = list /\ \A n \in Nodes : n # a => M[n] = L[n]
  BY <1>2, <1>3
<1>9. \A n \in Nodes \ heap.live : \A k : ~In(L[n], k)
  BY <1>2, Alone
<1> HIDE DEF M
<1>10. Under(M)[a] = {n \in Nodes : In(list, n)} /\ \A n \in Nodes : In(list, n) => Under(M)[n] = {}
  <2>1. Under(M)[a] = {n \in Nodes : In(list, n)}
    BY <1>3, <1>8 DEF Under
  <2>2. ASSUME NEW n \in Nodes, In(list, n) PROVE Under(M)[n] = {}
    <3>1. M[n] = L[n] /\ \A k : ~In(L[n], k)
      BY <1>3, <1>8, <1>9, <2>2
    <3>2. QED
      BY <3>1 DEF Under
  <2>3. QED
    BY <2>1, <2>2
<1>11. Least(C, a, Under(M))
  <2>1. C \subseteq Nodes /\ a \in C /\ \A n \in C : Under(M)[n] \subseteq C
    BY <1>3, <1>10
  <2>2. ASSUME NEW X, a \in X, \A n \in X \cap Nodes : Under(M)[n] \subseteq X PROVE C \subseteq X
    BY <1>3, <1>10, <2>2
  <2>3. QED
    BY <2>1, <2>2 DEF Least
<1>12. heap'.live = heap.live \cup C /\ C \cap heap.live = {}
  <2>1. heap'.live \subseteq Nodes
    BY <1>4, <1>5 DEF Sound, Heap
  <2>2. QED
    BY <1>2, <1>3, <1>4, <1>5, <2>1
<1>13. \A n \in heap.live : M[n] = L[n]
  BY <1>2, <1>3, <1>8
<1> HIDE DEF C
<1>14. Creates(L, M, heap.live, heap'.live, O, roots' \cup lost')
  BY <1>3, <1>7, <1>11, <1>12, <1>13 DEF Creates
<1>15. Sound(heap', M, roots' \cup lost')
  BY <1>4, <1>5, <1>7
<1> HIDE DEF O
<1>16. Moves(L, M, heap.live, heap'.live, roots \cup lost, roots' \cup lost')
  BY <1>14 DEF Moves, O
<1>17. QED
  BY <1>7, <1>15, <1>16 DEF Steps

PlacedLive(L) == \A n \in Nodes : Placed(L, n) => n \in heap.live
KeepsLists(L, M) == \A a \in heap.live : M[a] = L[a]

\* All copies are below the copy of the original.
LEMMA CopiesBelow ==
  ASSUME NEW W, NEW L, NEW x, NEW recurse, NEW f, Duplicates(f, W, L, x, recurse), PlacedLive(L)
  PROVE  /\ Least(New(f), f[<<x>>], Under(WithCopies(f, L, recurse)))
         /\ KeepsLists(L, WithCopies(f, L, recurse))
<1> DEFINE M == WithCopies(f, L, recurse)
           new == New(f)
<1>1. /\ \A n \in Nodes : Placed(L, n) => n \in heap.live
      /\ heap.live \subseteq Nodes /\ <<x>> \in W
      /\ \A w \in W : w \in Seq(Nodes) /\ Len(w) >= 1 /\ (Len(w) = 1 => w = <<x>>)
      /\ \A w \in W : Len(w) > 1 => recurse /\ \E u \in W : \E k \in Kids(heap, u) : w = Kid(heap, u, k)
      /\ TypeOK /\ Represents(heap, L)
  BY DEF Duplicates, Down, PlacedLive, Heap, TypeOK
<1>2. Owned(heap, L, {n \in heap.live : ~Placed(L, n)})
  BY <1>1 DEF Owned
<1>3. new \subseteq Nodes \ heap.live
  BY <1>2, CopyPlaces
<1>4. \A n \in new : \E u \in W : n = f[u]
  BY <1>2, CopyPlaces
<1>5. \A u \in W : f[u] \in new /\ M[f[u]] = CopyList(f, u, recurse)
  BY <1>2, CopyPlaces
<1>6. \A a \in Nodes \ new : M[a] = L[a]
  BY <1>2, CopyPlaces
<1> HIDE DEF M, new
<1>7. ASSUME NEW u \in W, NEW n \in Nodes
      PROVE  n \in Under(M)[f[u]] <=> \E k \in 1 .. Len(CopyList(f, u, recurse)) : n = f[Kid(heap, u, k)]
  <2> DEFINE s == CopyList(f, u, recurse)
  <2>1. f[u] \in Nodes /\ M[f[u]] = s
    BY <1>3, <1>5
  <2>2. \A k \in 1 .. Len(s) : s[k] = f[Kid(heap, u, k)]
    BY CopyListIs
  <2> HIDE DEF s
  <2>3. n \in Under(M)[f[u]] <=> \E k \in 1 .. Len(s) : s[k] = n
    BY <2>1 DEF Under, In
  <2>4. QED
    BY <2>2, <2>3 DEF s
<1>8. ASSUME NEW n \in new PROVE Under(M)[n] \subseteq new
  <2>1. PICK u \in W : n = f[u]
    BY <1>4
  <2>2. \A k \in 1 .. Len(CopyList(f, u, recurse)) : Kid(heap, u, k) \in W
    BY CopyListIs
  <2>3. Under(M)[n] \subseteq Nodes
    BY <1>3 DEF Under
  <2>4. QED
    BY <1>5, <1>7, <2>1, <2>2, <2>3
<1>9. ASSUME NEW X, f[<<x>>] \in X, \A n \in X \cap Nodes : Under(M)[n] \subseteq X, NEW w \in W
      PROVE  f[w] \in X
  <2> DEFINE m == Len(w)
             T == {k \in 0 .. m : \A u \in W : Len(u) = k + 1 => f[u] \in X}
  <2>1. m \in Nat /\ m >= 1
    BY <1>1
  <2>2. 0 \in T
    BY <1>1, <1>9, <2>1
  <2>3. ASSUME NEW k \in 0 .. m - 1, k \in T PROVE k + 1 \in T
    <3>1. SUFFICES ASSUME NEW u \in W, Len(u) = (k + 1) + 1 PROVE f[u] \in X
      BY <2>1
    <3>2. Len(u) > 1
      BY <2>1, <3>1
    <3>a. recurse /\ \E v \in W : \E i \in Kids(heap, v) : u = Kid(heap, v, i)
      BY <1>1, <3>2
    <3>3. PICK v \in W : \E i \in Kids(heap, v) : u = Kid(heap, v, i)
      BY <3>a
    <3>4. PICK i \in Kids(heap, v) : u = Kid(heap, v, i)
      BY <3>3
    <3>5. v \in Seq(Nodes) /\ Len(v) >= 1
      BY <1>1
    <3>6. Len(u) = Len(v) + 1
      BY <1>1, <3>4, <3>5, KidIs
    <3>7. Len(v) = k + 1
      BY <2>1, <3>1, <3>5, <3>6
    <3>8. f[v] \in X
      BY <2>3, <3>7
    <3> DEFINE s == CopyList(f, v, recurse)
    <3>9. /\ s \in Seq(Nodes) /\ Distinct(s)
          /\ recurse => Len(s) = Len(Items(heap, Last(v)))
      BY CopyListIs
    <3>10. i \in 1 .. Len(s)
      BY <3>a, <3>9 DEF Kids
    <3>11. f[v] \in Nodes /\ f[u] \in Nodes
      BY <1>3, <1>5
    <3>12. f[u] \in Under(M)[f[v]]
      BY <1>7, <3>4, <3>10, <3>11
    <3>13. QED
      BY <1>9, <3>8, <3>11, <3>12
  <2> HIDE DEF T, m
  <2>4. \A k \in 0 .. m : k \in T
    BY <2>1, <2>2, <2>3, Inductively
  <2>5. m - 1 \in 0 .. m /\ (m - 1) + 1 = Len(w)
    BY <2>1 DEF m
  <2>6. QED
    BY <2>4, <2>5 DEF T
<1>10. Least(new, f[<<x>>], Under(M))
  <2>1. new \subseteq Nodes /\ f[<<x>>] \in new
    BY <1>1, <1>3, <1>5
  <2>2. ASSUME NEW X, f[<<x>>] \in X, \A n \in X \cap Nodes : Under(M)[n] \subseteq X PROVE new \subseteq X
    BY <1>4, <1>9, <2>2
  <2>3. QED
    BY <1>8, <2>1, <2>2 DEF Least
<1>11. \A a \in heap.live : M[a] = L[a]
  BY <1>1, <1>3, <1>6
<1>12. QED
  BY <1>10, <1>11 DEF M, new, KeepsLists

LEMMA DuplicateSteps ==
  ASSUME NEW L, Together(L), Duplicate
  PROVE  Steps(L)
<1> DEFINE O == roots \cup lost
<1>1. PICK x \in heap.live, recurse \in BOOLEAN :
        LET ways == IF recurse THEN Ways({<<x>>}, CJSON_CIRCULAR_LIMIT) ELSE {<<x>>}
            free == Nodes \ heap.live
            addresses == {f \in [ways -> free] : IsInjective(f)}
        IN /\ \A way \in ways : Last(way) \in heap.live
           /\ Cardinality(ways) <= Cardinality(free)
           /\ recurse => \A way \in ways :
                Len(way) > CJSON_CIRCULAR_LIMIT => heap.child[Last(way)] = 0
           /\ LET f == CHOOSE f \in addresses : TRUE
              IN /\ heap' = Copied(f, recurse)
                 /\ roots' = roots \cup {f[<<x>>]}
           /\ lost' = lost
  BY DEF Duplicate
<1> DEFINE W == IF recurse THEN Ways({<<x>>}, CJSON_CIRCULAR_LIMIT) ELSE {<<x>>}
           f == Addresses(W)
           M == WithCopies(f, L, recurse)
<1>2. /\ Cardinality(W) <= Cardinality(Nodes \ heap.live)
      /\ recurse => \A way \in W : Len(way) > CJSON_CIRCULAR_LIMIT => heap.child[Last(way)] = 0
  BY <1>1
<1>a. heap' = Copied(f, recurse) /\ roots' = roots \cup {f[<<x>>]} /\ lost' = lost
  BY <1>1 DEF Addresses
<1>3. W = IF recurse THEN Ways({<<x>>}, CJSON_CIRCULAR_LIMIT) ELSE {<<x>>}
  OBVIOUS
<1>4. Sound(heap, L, O) /\ TypeOK
  BY DEF Together
<1>b. roots \cap lost = {}
  BY DEF Together
<1> HIDE DEF W, M
<1>5. IsFiniteSet(W) /\ Duplicates(f, W, L, x, recurse)
  <2> HIDE DEF O
  <2>1. QED
    BY <1>2, <1>3, <1>4, DuplicateSound
<1> HIDE DEF f
<1>6. /\ Sound(Copied(f, recurse), M, O \cup {f[<<x>>]})
      /\ Copied(f, recurse).live = heap.live \cup New(f)
      /\ New(f) \subseteq Nodes \ heap.live /\ f[<<x>>] \in New(f)
  BY <1>4, <1>5, CopiedSound DEF M
<1>7. Least(New(f), f[<<x>>], Under(M)) /\ \A a \in heap.live : M[a] = L[a]
  <2>1. Duplicates(f, W, L, x, recurse) /\ PlacedLive(L)
    BY <1>4, <1>5 DEF Sound, Owned, PlacedLive
  <2>2. Least(New(f), f[<<x>>], Under(WithCopies(f, L, recurse)))
    BY <2>1, CopiesBelow
  <2>3. KeepsLists(L, WithCopies(f, L, recurse))
    BY <2>1, CopiesBelow
  <2>4. QED
    BY <2>2, <2>3 DEF M, KeepsLists
<1>8. f[<<x>>] \notin O
  BY <1>4, <1>6, Alone
<1>9. roots' \cup lost' = O \cup {f[<<x>>]} /\ roots' \cap lost' = {}
  BY <1>a, <1>b, <1>8
<1>10. Sound(heap', M, roots' \cup lost') /\ heap'.live = heap.live \cup New(f)
  BY <1>a, <1>6, <1>9
<1>11. Creates(L, M, heap.live, heap'.live, O, roots' \cup lost')
  BY <1>6, <1>7, <1>9, <1>10 DEF Creates
<1> HIDE DEF O
<1>12. Moves(L, M, heap.live, heap'.live, roots \cup lost, roots' \cup lost')
  BY <1>11 DEF Moves, O
<1>13. QED
  BY <1>9, <1>10, <1>12 DEF Steps

-----------------------------------------------------------------------------
(* The invariant: some lists are the heap's, and it is sound.                *)

IInv == TypeOK /\ roots \cap lost = {} /\ \E L : Sound(heap, L, roots \cup lost)

LEMMA InitTogether ==
  ASSUME Init
  PROVE  Together([n \in Nodes |-> << >>])
<1> DEFINE L == [n \in Nodes |-> << >>]
<1>1. /\ heap.next = [n \in Nodes |-> 0] /\ heap.prev = [n \in Nodes |-> 0] /\ heap.child = [n \in Nodes |-> 0]
      /\ heap.string = [n \in Nodes |-> NULL] /\ heap.reference = {} /\ heap.const = {} /\ heap.live = {}
      /\ heap.strings = 0 /\ roots = {} /\ lost = {}
  BY DEF Init
<1>2. heap \in Heap
  BY DEF Init, Heap
<1>3. << >> \in Seq(Nodes) /\ Len(<< >>) = 0 /\ Distinct(<< >>) /\ \A n : ~In(<< >>, n)
  BY DEF Distinct, In
<1>4. L \in [Nodes -> Seq(Nodes)] /\ \A a \in Nodes : L[a] = << >>
  BY <1>3
<1> HIDE DEF L
<1>5. \A n \in Nodes : ~Placed(L, n)
  BY <1>3, <1>4 DEF Placed
<1>6. Represents(heap, L)
  <2>1. Containers(heap) = {}
    BY <1>1 DEF Containers
  <2>2. \A a \in Nodes : Len(L[a]) = 0 /\ Distinct(L[a]) /\ \A n : ~In(L[a], n)
    BY <1>3, <1>4
  <2>3. \A n \in Nodes : heap.next[n] = 0 /\ heap.prev[n] = 0
    BY <1>1
  <2>4. QED
    BY <1>4, <2>1, <2>2, <2>3 DEF Represents
<1>7. Owned(heap, L, {})
  BY <1>1, <1>5 DEF Owned
<1>8. Blank(heap)
  BY <1>1 DEF Blank
<1>9. Counted(heap)
  <2>1. Keys(heap) = {}
    BY <1>1 DEF Keys
  <2>2. QED
    BY <1>1, <2>1, FS_EmptySet DEF Counted
<1>10. Sound(heap, L, roots \cup lost)
  <2>1. roots \cup lost = {}
    BY <1>1
  <2>2. QED
    BY <1>2, <1>6, <1>7, <1>8, <1>9, <2>1 DEF Sound
<1>11. TypeOK /\ roots \cap lost = {}
  BY <1>1, <1>2 DEF TypeOK
<1>12. QED
  BY <1>10, <1>11 DEF Together, L

LEMMA NextSteps ==
  ASSUME NEW L, Together(L), [Next]_vars
  PROVE  Steps(L)
<1>1. CASE Create
  BY <1>1, CreateSteps
<1>2. CASE CreateReference
  BY <1>2, CreateReferenceSteps
<1>3. CASE CreateArrayOf
  BY <1>3, CreateArrayOfSteps
<1>4. CASE AddItemToArray
  BY <1>4, AddItemToArraySteps
<1>5. CASE AddItemToObject
  BY <1>5, AddItemToObjectSteps
<1>6. CASE AddItemReferenceToArray
  BY <1>6, AddItemReferenceToArraySteps
<1>7. CASE AddItemReferenceToObject
  BY <1>7, AddItemReferenceToObjectSteps
<1>8. CASE AddNewToObject
  BY <1>8, AddNewToObjectSteps
<1>9. CASE DetachItem
  BY <1>9, DetachItemSteps
<1>10. CASE DetachItemFromObject
  BY <1>10, DetachItemFromObjectSteps
<1>11. CASE DeleteItemFromArray
  BY <1>11, DeleteItemFromArraySteps
<1>12. CASE InsertItemInArray
  BY <1>12, InsertItemInArraySteps
<1>13. CASE ReplaceItem
  BY <1>13, ReplaceItemSteps
<1>14. CASE ReplaceItemInObject
  BY <1>14, ReplaceItemInObjectSteps
<1>15. CASE Delete
  BY <1>15, DeleteSteps
<1>16. CASE Duplicate
  BY <1>16, DuplicateSteps
<1>17. CASE UNCHANGED vars
  <2>1. heap' = heap /\ roots' = roots /\ lost' = lost
    BY <1>17 DEF vars
  <2>2. Sound(heap', L, roots \cup lost)
    BY <2>1 DEF Together
  <2>3. QED
    BY <2>1, <2>2, KeySteps
<1>18. QED
  BY <1>1, <1>2, <1>3, <1>4, <1>5, <1>6, <1>7, <1>8, <1>9, <1>10, <1>11, <1>12, <1>13, <1>14, <1>15, <1>16, <1>17
  DEF Next

\* After a step there are lists again.
LEMMA StepsKeep ==
  ASSUME NEW L, Steps(L)
  PROVE  IInv'
<1>1. PICK M : Sound(heap', M, roots' \cup lost')
  BY DEF Steps
<1>2. heap' \in Heap /\ roots' \cup lost' \subseteq Nodes
  BY <1>1 DEF Sound, Owned
<1>3. QED
  BY <1>1, <1>2 DEF IInv, TypeOK, Steps

LEMMA IInvHas ==
  ASSUME IInv
  PROVE  \E L : Together(L)
BY DEF IInv, Together

\* From any state that can be reached, every call makes a sound heap of a sound one
\* (cJSON.c:241-262, 1861-2374, 2696-2782).
THEOREM HeapStaysSound == Spec => []IInv
<1>1. Init => IInv
  <2>1. SUFFICES ASSUME Init PROVE IInv
    OBVIOUS
  <2>2. Together([n \in Nodes |-> << >>])
    BY <2>1, InitTogether
  <2>3. QED
    BY <2>2 DEF IInv, Together
<1>2. IInv /\ [Next]_vars => IInv'
  <2>1. SUFFICES ASSUME IInv, [Next]_vars PROVE IInv'
    OBVIOUS
  <2>2. PICK L : Together(L)
    BY <2>1, IInvHas
  <2>3. Steps(L)
    BY <2>1, <2>2, NextSteps
  <2>4. QED
    BY <2>3, StepsKeep
<1>3. QED
  BY <1>1, <1>2, PTL DEF Spec

LEMMA ListsLinkedSo ==
  ASSUME IInv
  PROVE  ListsLinked
<1>1. PICK L : Together(L)
  BY IInvHas
<1>2. TypeOK /\ heap \in Heap /\ Represents(heap, L)
  BY <1>1 DEF Together, Sound
<1>3. ASSUME NEW a \in Containers(heap), Items(heap, a) # << >>
      PROVE  LET list == Items(heap, a)
             IN  /\ heap.next[Last(list)] = 0 /\ heap.prev[list[1]] = Last(list)
                 /\ \A k \in 2 .. Len(list) : heap.prev[list[k]] = list[k - 1]
  <2> DEFINE s == L[a]
  <2>1. Items(heap, a) = s
    BY <1>2, ItemsIs
  <2>2. s \in Seq(Nodes) /\ IsList(heap.next, heap.prev, heap.child[a], s)
    BY <1>2, ListOf
  <2> HIDE DEF s
  <2>3. s # << >>
    BY <1>3, <2>1
  <2>4. 1 \in 1 .. Len(s) /\ Len(s) \in 1 .. Len(s) /\ Last(s) = s[Len(s)]
    BY <2>2, <2>3 DEF Last
  <2>5. heap.next[Last(s)] = 0 /\ heap.prev[s[1]] = Last(s)
    BY <2>2, <2>4 DEF IsList, After, Before
  <2>6. ASSUME NEW k \in 2 .. Len(s) PROVE heap.prev[s[k]] = s[k - 1]
    <3>1. k \in 1 .. Len(s) /\ k # 1
      BY <2>2
    <3>2. QED
      BY <2>2, <3>1 DEF IsList, Before
  <2>7. QED
    BY <2>1, <2>5, <2>6
<1>4. \A n \in roots : heap.next[n] = 0 /\ heap.prev[n] = 0
  BY <1>1 DEF Together, Sound, Owned, Represents
<1>5. QED
  BY <1>2, <1>3, <1>4 DEF ListsLinked

LEMMA OwnedOnceSo ==
  ASSUME IInv
  PROVE  OwnedOnce
<1>1. PICK L : Together(L)
  BY IInvHas
<1>2. /\ heap \in Heap /\ Represents(heap, L) /\ roots \cap lost = {} /\ Counted(heap)
      /\ roots \subseteq Nodes /\ lost \subseteq Nodes
      /\ \A n \in Nodes : n \in heap.live <=> Placed(L, n) \/ n \in roots \cup lost
      /\ \A n \in roots \cup lost : ~Placed(L, n)
  BY <1>1 DEF Together, Sound, Owned, TypeOK
<1>3. \A a \in Containers(heap) : a \in Nodes /\ Items(heap, a) = L[a] /\ L[a] \in Seq(Nodes) /\ Distinct(L[a])
  BY <1>2, ItemsIs, ListOf
<1>4. \A a \in Containers(heap) : Len(L[a]) \in 0 .. Cardinality(Nodes)
  BY <1>3, NotTooLong DEF N
<1>5. \A a \in Nodes : a \notin Containers(heap) => \A n : ~In(L[a], n)
  <2>1. ASSUME NEW a \in Nodes, a \notin Containers(heap), NEW n PROVE ~In(L[a], n)
    <3>1. Len(L[a]) = 0
      BY <1>2, <2>1 DEF Represents
    <3>2. QED
      BY <3>1 DEF In
  <2>2. QED
    BY <2>1
<1>6. ASSUME NEW n \in Nodes
      PROVE  Cardinality(Places(n)) + (IF n \in roots THEN 1 ELSE 0) + (IF n \in lost THEN 1 ELSE 0)
               = (IF n \in heap.live THEN 1 ELSE 0)
  <2>1. CASE ~Placed(L, n)
    <3>1. ASSUME NEW p \in Places(n) PROVE FALSE
      <4>1. /\ p[1] \in Containers(heap) /\ p[2] \in 1 .. Cardinality(Nodes)
            /\ p[2] <= Len(Items(heap, p[1])) /\ Items(heap, p[1])[p[2]] = n
        BY <3>1 DEF Places
      <4>2. Items(heap, p[1]) = L[p[1]] /\ p[1] \in Nodes /\ Len(L[p[1]]) \in Nat
        BY <1>3, <4>1
      <4>3. p[2] \in 1 .. Len(L[p[1]]) /\ L[p[1]][p[2]] = n
        BY <4>1, <4>2, Sizes DEF N
      <4>4. QED
        BY <2>1, <4>2, <4>3 DEF Placed, In
    <3>2. Places(n) = {}
      BY <3>1
    <3>3. Cardinality(Places(n)) = 0
      BY <3>2, FS_EmptySet
    <3>4. QED
      BY <1>2, <2>1, <3>3
  <2>2. CASE Placed(L, n)
    <3>1. PICK a \in Nodes : In(L[a], n)
      BY <2>2 DEF Placed
    <3>2. a \in Containers(heap)
      BY <1>5, <3>1
    <3>3. PICK k \in 1 .. Len(L[a]) : L[a][k] = n
      BY <3>1 DEF In
    <3>4. <<a, k>> \in Places(n)
      <4>1. k \in 1 .. Cardinality(Nodes) /\ k <= Len(L[a])
        BY <1>3, <1>4, <3>2, <3>3, Sizes DEF N
      <4>2. <<a, k>> \in Containers(heap) \X (1 .. Cardinality(Nodes))
        BY <3>2, <4>1
      <4>3. Items(heap, a) = L[a]
        BY <1>3, <3>2
      <4>4. QED
        BY <3>3, <4>1, <4>2, <4>3 DEF Places
    <3>5. ASSUME NEW p \in Places(n) PROVE p = <<a, k>>
      <4>1. /\ p \in Containers(heap) \X (1 .. Cardinality(Nodes))
            /\ p[2] <= Len(Items(heap, p[1])) /\ Items(heap, p[1])[p[2]] = n
        BY <3>5 DEF Places
      <4>2. p[1] \in Containers(heap) /\ p[2] \in 1 .. Cardinality(Nodes) /\ p = <<p[1], p[2]>>
        BY <4>1
      <4>3. Items(heap, p[1]) = L[p[1]] /\ p[1] \in Nodes /\ Len(L[p[1]]) \in Nat
        BY <1>3, <4>2
      <4>4. p[2] \in 1 .. Len(L[p[1]]) /\ L[p[1]][p[2]] = n
        BY <4>1, <4>2, <4>3, Sizes DEF N
      <4>5. In(L[p[1]], n)
        BY <4>4 DEF In
      <4>6. p[1] = a
        BY <1>2, <3>1, <4>3, <4>5 DEF Represents
      <4>7. p[2] = k
        BY <1>3, <3>2, <3>3, <4>4, <4>6 DEF Distinct
      <4>8. QED
        BY <4>2, <4>6, <4>7
    <3>6. Places(n) = {<<a, k>>}
      BY <3>4, <3>5
    <3>7. Cardinality(Places(n)) = 1
      BY <3>6, FS_Singleton
    <3>8. QED
      BY <1>2, <2>2, <3>7
  <2>3. QED
    BY <2>1, <2>2
<1>7. heap.strings = Cardinality({n \in heap.live : OwnsKey(heap, n)})
  BY <1>2 DEF Counted, Keys
<1>8. QED
  BY <1>6, <1>7 DEF OwnedOnce

\* After every call, whatever came before, the items of an array are linked both
\* ways and the first points back to the last (cJSON.c:1861-2374).
THEOREM ListsStayLinked == Spec => []ListsLinked
<1>1. IInv => ListsLinked
  BY ListsLinkedSo
<1>2. QED
  BY <1>1, HeapStaysSound, PTL

\* Every item and every key is freed once and by one owner; nothing is left behind but
\* the reference for whose key there is no memory (cJSON.c:241-262, 2041-2106).
THEOREM EveryItemOwnedOnce == Spec => []OwnedOnce
<1>1. IInv => OwnedOnce
  BY OwnedOnceSo
<1>2. QED
  BY <1>1, HeapStaysSound, PTL

-----------------------------------------------------------------------------
(* The heap implements JsonLists.                                            *)

ListsOf(h) == [n \in Nodes |-> IF n \in Containers(h) THEN Items(h, n) ELSE << >>]

LEMMA ListsAre ==
  ASSUME NEW h, NEW L, NEW O, Sound(h, L, O)
  PROVE  ListsOf(h) = L
<1>1. h \in Heap /\ Represents(h, L) /\ L \in [Nodes -> Seq(Nodes)]
  BY DEF Sound, Represents
<1>2. ASSUME NEW n \in Nodes PROVE (IF n \in Containers(h) THEN Items(h, n) ELSE << >>) = L[n]
  <2>1. CASE n \in Containers(h)
    BY <1>1, <2>1, ItemsIs
  <2>2. CASE n \notin Containers(h)
    <3>1. Len(L[n]) = 0 /\ L[n] \in Seq(Nodes)
      BY <1>1, <2>2 DEF Represents
    <3>2. QED
      BY <2>2, <3>1
  <2>3. QED
    BY <2>1, <2>2
<1>3. QED
  BY <1>1, <1>2 DEF ListsOf

\* There is one least set.
LEMMA LeastIsOne ==
  ASSUME NEW C, NEW D, NEW n, NEW goes, Least(C, n, goes), Least(D, n, goes)
  PROVE  C = D
<1>1. n \in C /\ n \in D /\ (\A m \in C \cap Nodes : goes[m] \subseteq C) /\ (\A m \in D \cap Nodes : goes[m] \subseteq D)
  BY DEF Least
<1>2. C \subseteq D
  BY <1>1 DEF Least
<1>3. D \subseteq C
  BY <1>1 DEF Least
<1>4. QED
  BY <1>2, <1>3

\* What JsonLists finds below an item is that set.
LEMMA BelowIs ==
  ASSUME NEW n \in Nodes, NEW L \in [Nodes -> Seq(Nodes)]
  PROVE  Least(Lists!Below(n, L), n, Under(L))
<1> DEFINE C == Lists!Below(n, L)
<1>1. ASSUME NEW m \in Nodes PROVE Lists!Range(L[m]) = Under(L)[m]
  <2>1. L[m] \in Seq(Nodes) /\ DOMAIN L[m] = 1 .. Len(L[m])
    OBVIOUS
  <2>2. \A k \in 1 .. Len(L[m]) : L[m][k] \in Nodes
    BY <2>1
  <2>3. QED
    BY <2>1, <2>2 DEF Lists!Range, Under, In
<1>2. C = {m \in Nodes : \A S \in {S \in SUBSET Nodes : n \in S /\ \A k \in S : Lists!Range(L[k]) \subseteq S} : m \in S}
  BY DEF Lists!Below
<1> HIDE DEF C
<1>3. \A m : m \in C <=> /\ m \in Nodes
                       /\ \A S \in SUBSET Nodes : n \in S /\ (\A k \in S : Under(L)[k] \subseteq S) => m \in S
  <2> DEFINE Shut(S) == \A k \in S : Lists!Range(L[k]) \subseteq S
             Kept(S) == \A k \in S : Under(L)[k] \subseteq S
  <2>1. \A S \in SUBSET Nodes : Shut(S) <=> Kept(S)
    BY <1>1
  <2>2. \A m : m \in C <=> /\ m \in Nodes
                         /\ \A S \in SUBSET Nodes : n \in S /\ Shut(S) => m \in S
    BY <1>2
  <2> HIDE DEF Shut, Kept
  <2>3. \A m : m \in C <=> /\ m \in Nodes
                         /\ \A S \in SUBSET Nodes : n \in S /\ Kept(S) => m \in S
    BY <2>1, <2>2
  <2>4. QED
    BY <2>3 DEF Kept
<1>4. n \in C /\ C \subseteq Nodes
  BY <1>3
<1>5. ASSUME NEW m \in C PROVE Under(L)[m] \subseteq C
  BY <1>3, <1>5 DEF Under
<1>6. ASSUME NEW X, n \in X, \A m \in X \cap Nodes : Under(L)[m] \subseteq X PROVE C \subseteq X
  <2> DEFINE S == X \cap Nodes
  <2>1. S \in SUBSET Nodes /\ n \in S /\ \A k \in S : Under(L)[k] \subseteq S
    BY <1>6 DEF Under
  <2> HIDE DEF S
  <2>2. C \subseteq S
    BY <1>3, <2>1
  <2>3. QED
    BY <2>2 DEF S
<1>7. QED
  BY <1>4, <1>5, <1>6 DEF Least, C

\* The operators on sequences that JsonLists uses are those on lists.
LEMMA InsertAtIs ==
  ASSUME NEW s \in Seq(Nodes), NEW m \in 1 .. Len(s) + 1, NEW x \in Nodes
  PROVE  Lists!InsertAt(s, m, x) = With(s, m, x)
<1> DEFINE a == SubSeq(s, 1, m - 1)
           b == SubSeq(s, m, Len(s))
           t == With(s, m, x)
<1>1. /\ a \in Seq(Nodes) /\ Len(a) = m - 1 /\ \A k \in 1 .. m - 1 : a[k] = s[k]
      /\ Len(s) \in Nat
  OBVIOUS
<1>2. /\ b \in Seq(Nodes) /\ Len(b) = Len(s) + 1 - m /\ \A k \in 1 .. Len(s) + 1 - m : b[k] = s[(k - 1) + m]
  <2>1. b = [k \in 1 .. Len(s) + 1 - m |-> s[(k - 1) + m]]
    OBVIOUS
  <2>2. \A k \in 1 .. Len(s) + 1 - m : s[(k - 1) + m] \in Nodes
    OBVIOUS
  <2>3. Len(s) + 1 - m \in Nat
    BY <1>1
  <2> HIDE DEF b
  <2>4. b \in Seq(Nodes) /\ Len(b) = Len(s) + 1 - m
    BY <2>1, <2>2, <2>3, IsASeq
  <2>5. QED
    BY <2>1, <2>4
<1>3. Lists!InsertAt(s, m, x) = a \o <<x>> \o b
  BY DEF Lists!InsertAt
<1> HIDE DEF a, b
<1> DEFINE c == a \o <<x>>
<1>4. c \in Seq(Nodes) /\ Len(c) = m /\ \A k \in 1 .. m : c[k] = IF k < m THEN s[k] ELSE x
  BY <1>1
<1> HIDE DEF c
<1> DEFINE d == c \o b
<1>5. d \in Seq(Nodes) /\ Len(d) = Len(s) + 1
      /\ \A k \in 1 .. Len(s) + 1 : d[k] = IF k <= m THEN c[k] ELSE b[k - m]
  <2>0. c \in Seq(Nodes) /\ b \in Seq(Nodes)
    BY <1>2, <1>4
  <2>1. d \in Seq(Nodes) /\ Len(d) = Len(c) + Len(b)
    BY <2>0, ConcatProperties
  <2>2. \A k \in 1 .. Len(c) + Len(b) : d[k] = IF k <= Len(c) THEN c[k] ELSE b[k - Len(c)]
    BY <1>2, <1>4
  <2>3. Len(c) + Len(b) = Len(s) + 1 /\ Len(c) = m
    BY <1>1, <1>2, <1>4
  <2> HIDE DEF d
  <2>4. QED
    BY <2>1, <2>2, <2>3
<1>6. d = Lists!InsertAt(s, m, x)
  BY <1>3 DEF c
<1> HIDE DEF d
<1>7. ASSUME NEW k \in 1 .. Len(s) + 1 PROVE d[k] = IF k < m THEN s[k] ELSE IF k = m THEN x ELSE s[k - 1]
  <2>1. CASE k <= m
    BY <1>1, <1>4, <1>5, <2>1
  <2>2. CASE k > m
    <3>1. k - m \in 1 .. Len(s) + 1 - m /\ (k - m - 1) + m = k - 1
      BY <1>1, <2>2
    <3>2. QED
      BY <1>1, <1>2, <1>5, <2>2, <3>1
  <2>3. QED
    BY <1>1, <2>1, <2>2
<1>8. d = [k \in 1 .. Len(s) + 1 |-> d[k]]
  BY <1>5
<1>9. d = t
  BY <1>7, <1>8 DEF With
<1>10. QED
  BY <1>6, <1>9

LEMMA RemoveAtIs ==
  ASSUME NEW s \in Seq(Nodes), NEW m \in 1 .. Len(s)
  PROVE  Lists!RemoveAt(s, m) = Without(s, m)
<1> DEFINE a == SubSeq(s, 1, m - 1)
           b == SubSeq(s, m + 1, Len(s))
           t == Without(s, m)
<1>1. /\ a \in Seq(Nodes) /\ Len(a) = m - 1 /\ \A k \in 1 .. m - 1 : a[k] = s[k]
      /\ Len(s) \in Nat
  OBVIOUS
<1>2. /\ b \in Seq(Nodes) /\ Len(b) = Len(s) - m /\ \A k \in 1 .. Len(s) - m : b[k] = s[k + m]
  <2>1. b = [k \in 1 .. Len(s) - m |-> s[k + m]]
    OBVIOUS
  <2>2. \A k \in 1 .. Len(s) - m : s[k + m] \in Nodes
    OBVIOUS
  <2>3. Len(s) - m \in Nat
    BY <1>1
  <2> HIDE DEF b
  <2>4. b \in Seq(Nodes) /\ Len(b) = Len(s) - m
    BY <2>1, <2>2, <2>3, IsASeq
  <2>5. QED
    BY <2>1, <2>4
<1>3. Lists!RemoveAt(s, m) = a \o b
  BY DEF Lists!RemoveAt
<1> HIDE DEF a, b
<1> DEFINE d == a \o b
<1>4. d \in Seq(Nodes) /\ Len(d) = Len(s) - 1
      /\ \A k \in 1 .. Len(s) - 1 : d[k] = IF k <= m - 1 THEN a[k] ELSE b[k - (m - 1)]
  <2>0. a \in Seq(Nodes) /\ b \in Seq(Nodes)
    BY <1>1, <1>2
  <2>1. d \in Seq(Nodes) /\ Len(d) = Len(a) + Len(b)
    BY <2>0, ConcatProperties
  <2>2. \A k \in 1 .. Len(a) + Len(b) : d[k] = IF k <= Len(a) THEN a[k] ELSE b[k - Len(a)]
    BY <1>1, <1>2
  <2>3. Len(a) + Len(b) = Len(s) - 1 /\ Len(a) = m - 1
    BY <1>1, <1>2
  <2> HIDE DEF d
  <2>4. QED
    BY <2>1, <2>2, <2>3
<1> HIDE DEF d
<1>5. ASSUME NEW k \in 1 .. Len(s) - 1 PROVE d[k] = IF k < m THEN s[k] ELSE s[k + 1]
  <2>1. CASE k < m
    BY <1>1, <1>4, <2>1
  <2>2. CASE ~(k < m)
    <3>1. k - (m - 1) \in 1 .. Len(s) - m /\ (k - (m - 1)) + m = k + 1
      BY <1>1, <2>2
    <3>2. QED
      BY <1>1, <1>2, <1>4, <2>2, <3>1
  <2>3. QED
    BY <2>1, <2>2
<1>6. d = [k \in 1 .. Len(s) - 1 |-> d[k]]
  BY <1>4
<1>7. d = t
  BY <1>5, <1>6 DEF Without
<1>8. QED
  BY <1>3, <1>7 DEF d

LEMMA ReplaceAtIs ==
  ASSUME NEW s \in Seq(Nodes), NEW m \in 1 .. Len(s), NEW x \in Nodes
  PROVE  Lists!ReplaceAt(s, m, x) = Instead(s, m, x)
<1>1. s \in [1 .. Len(s) -> Nodes]
  OBVIOUS
<1>2. [s EXCEPT ![m] = x] = [k \in 1 .. Len(s) |-> IF k = m THEN x ELSE s[k]]
  BY <1>1
<1>3. QED
  BY <1>2 DEF Lists!ReplaceAt, Instead

\* With and Without of JsonLists, and what a deletion leaves.
LEMMA DropsIs ==
  ASSUME NEW L \in [Nodes -> Seq(Nodes)], NEW M, NEW V, NEW W, NEW x \in Nodes, Drops(L, M, V, W, x)
  PROVE  /\ W = V \ Lists!Below(x, L)
         /\ M = [m \in Nodes |-> IF m \in Lists!Below(x, L) THEN << >> ELSE L[m]]
<1> DEFINE B == Lists!Below(x, L)
<1>1. Least(B, x, Under(L))
  BY BelowIs
<1> HIDE DEF B
<1>2. PICK C : Least(C, x, Under(L)) /\ W = V \ C /\ M = Emptied(L, C)
  BY DEF Drops
<1>3. C = B
  BY <1>1, <1>2, LeastIsOne
<1>4. QED
  BY <1>2, <1>3 DEF Emptied, B

LEMMA GoesIs ==
  ASSUME NEW L \in [Nodes -> Seq(Nodes)], NEW x \in Nodes, NEW a, Goes(L, x, a)
  PROVE  a \notin Lists!Below(x, L)
<1> DEFINE B == Lists!Below(x, L)
<1>1. Least(B, x, Under(L))
  BY BelowIs
<1> HIDE DEF B
<1>2. PICK C : Least(C, x, Under(L)) /\ a \notin C
  BY DEF Goes
<1>3. C = B
  BY <1>1, <1>2, LeastIsOne
<1>4. QED
  BY <1>2, <1>3 DEF B

\* What the actions do to the lists is what the actions of JsonLists do.
Meets(L, M) ==
  /\ L \in [Nodes -> Seq(Nodes)] /\ Sequences = L /\ Sequences' = M
  /\ heap.live \subseteq Nodes /\ roots \cup lost \subseteq Nodes

LEMMA InsertsImplement ==
  ASSUME NEW L, NEW M, Meets(L, M), Inserts(L, M, heap.live, heap'.live, roots \cup lost, roots' \cup lost')
  PROVE  Lists!Insert
<1>1. PICK x \in (roots \cup lost) \cup (Nodes \ heap.live) :
        /\ roots' \cup lost' = (roots \cup lost) \ {x} /\ heap'.live = heap.live \cup {x}
        /\ \E a \in heap.live :
             /\ Goes(L, x, a)
             /\ \E m \in 1 .. Len(L[a]) + 1 : M = [L EXCEPT ![a] = With(L[a], m, x)]
  BY DEF Inserts
<1>2. PICK a \in heap.live :
        /\ Goes(L, x, a)
        /\ \E m \in 1 .. Len(L[a]) + 1 : M = [L EXCEPT ![a] = With(L[a], m, x)]
  BY <1>1
<1>3. PICK m \in 1 .. Len(L[a]) + 1 : M = [L EXCEPT ![a] = With(L[a], m, x)]
  BY <1>2
<1>4. /\ L \in [Nodes -> Seq(Nodes)] /\ Sequences = L /\ Sequences' = M /\ x \in Nodes /\ a \in Nodes
  BY DEF Meets
<1>5. L[a] \in Seq(Nodes)
  BY <1>4
<1>6. Lists!InsertAt(Sequences[a], m, x) = With(L[a], m, x) /\ m \in 1 .. Len(Sequences[a]) + 1
  BY <1>4, <1>5, InsertAtIs
<1>7. a \in heap.live \ Lists!Below(x, Sequences)
  BY <1>2, <1>4, GoesIs
<1>8. Sequences' = Lists!With(a, Lists!InsertAt(Sequences[a], m, x))
  BY <1>3, <1>4, <1>6 DEF Lists!With
<1>9. (roots \cup lost)' = (roots \cup lost) \ {x} /\ (heap.live)' = heap.live \cup {x}
  BY <1>1
<1>10. QED
  BY <1>6, <1>7, <1>8, <1>9 DEF Lists!Insert

LEMMA DetachesImplement ==
  ASSUME NEW L, NEW M, Meets(L, M), Detaches(L, M, heap.live, heap'.live, roots \cup lost, roots' \cup lost')
  PROVE  Lists!Detach
<1>1. PICK a \in heap.live : \E m \in 1 .. Len(L[a]) :
        /\ roots' \cup lost' = (roots \cup lost) \cup {L[a][m]} /\ heap'.live = heap.live
        /\ M = [L EXCEPT ![a] = Without(L[a], m)]
  BY DEF Detaches
<1>2. PICK m \in 1 .. Len(L[a]) :
        /\ roots' \cup lost' = (roots \cup lost) \cup {L[a][m]} /\ heap'.live = heap.live
        /\ M = [L EXCEPT ![a] = Without(L[a], m)]
  BY <1>1
<1>3. /\ L \in [Nodes -> Seq(Nodes)] /\ Sequences = L /\ Sequences' = M /\ a \in Nodes
  BY DEF Meets
<1>4. L[a] \in Seq(Nodes) /\ DOMAIN Sequences[a] = 1 .. Len(L[a])
  BY <1>3
<1>5. Lists!RemoveAt(Sequences[a], m) = Without(L[a], m)
  BY <1>3, <1>4, RemoveAtIs
<1>6. Sequences' = Lists!With(a, Lists!RemoveAt(Sequences[a], m)) /\ m \in DOMAIN Sequences[a]
  BY <1>2, <1>3, <1>4, <1>5 DEF Lists!With
<1>7. (roots \cup lost)' = (roots \cup lost) \cup {Sequences[a][m]} /\ (heap.live)' = heap.live
  BY <1>2, <1>3
<1>8. QED
  BY <1>6, <1>7 DEF Lists!Detach

\* What is dropped is what JsonLists deletes.
LEMMA DropsImplement ==
  ASSUME NEW L, NEW M, Meets(L, M), NEW K \in [Nodes -> Seq(Nodes)], NEW x \in Nodes,
         Drops(K, M, heap.live, heap'.live, x)
  PROVE  Lists!DeletedFrom(x, K)
<1>1. /\ heap'.live = heap.live \ Lists!Below(x, K)
      /\ M = [m \in Nodes |-> IF m \in Lists!Below(x, K) THEN << >> ELSE K[m]]
  BY DropsIs
<1>2. Sequences' = M
  BY DEF Meets
<1>3. QED
  BY <1>1, <1>2 DEF Lists!DeletedFrom

LEMMA DeletesItemImplement ==
  ASSUME NEW L, NEW M, Meets(L, M), DeletesItem(L, M, heap.live, heap'.live, roots \cup lost, roots' \cup lost')
  PROVE  Lists!DeleteItem
<1>1. PICK a \in heap.live : \E m \in 1 .. Len(L[a]) :
        /\ roots' \cup lost' = roots \cup lost
        /\ Drops([L EXCEPT ![a] = Without(L[a], m)], M, heap.live, heap'.live, L[a][m])
  BY DEF DeletesItem
<1>2. PICK m \in 1 .. Len(L[a]) :
        /\ roots' \cup lost' = roots \cup lost
        /\ Drops([L EXCEPT ![a] = Without(L[a], m)], M, heap.live, heap'.live, L[a][m])
  BY <1>1
<1>3. /\ L \in [Nodes -> Seq(Nodes)] /\ Sequences = L /\ Sequences' = M /\ a \in Nodes
  BY DEF Meets
<1>4. L[a] \in Seq(Nodes) /\ DOMAIN Sequences[a] = 1 .. Len(L[a]) /\ L[a][m] \in Nodes
  BY <1>3
<1>5. Lists!RemoveAt(Sequences[a], m) = Without(L[a], m) /\ Without(L[a], m) \in Seq(Nodes)
  <2>1. Lists!RemoveAt(Sequences[a], m) = Without(L[a], m)
    BY <1>3, <1>4, RemoveAtIs
  <2>2. /\ Len(L[a]) - 1 \in Nat
        /\ \A k \in 1 .. Len(L[a]) - 1 : (IF k < m THEN L[a][k] ELSE L[a][k + 1]) \in Nodes
    BY <1>3, <1>4
  <2>3. Without(L[a], m) \in Seq(Nodes)
    BY <2>2, IsASeq DEF Without
  <2>4. QED
    BY <2>1, <2>3
<1> DEFINE K == [L EXCEPT ![a] = Without(L[a], m)]
<1>6. K \in [Nodes -> Seq(Nodes)] /\ Lists!With(a, Lists!RemoveAt(Sequences[a], m)) = K
  BY <1>3, <1>5 DEF Lists!With
<1> HIDE DEF K
<1>7. Lists!DeletedFrom(L[a][m], K)
  BY <1>2, <1>4, <1>6, DropsImplement DEF K
<1>8. Lists!DeletedFrom(Sequences[a][m], Lists!With(a, Lists!RemoveAt(Sequences[a], m)))
  BY <1>3, <1>6, <1>7
<1>9. (roots \cup lost)' = roots \cup lost /\ m \in DOMAIN Sequences[a]
  BY <1>2, <1>4
<1>10. QED
  BY <1>8, <1>9 DEF Lists!DeleteItem

LEMMA ReplacesImplement ==
  ASSUME NEW L, NEW M, Meets(L, M), Replaces(L, M, heap.live, heap'.live, roots \cup lost, roots' \cup lost')
  PROVE  Lists!Replace
<1>1. PICK x \in roots \cup lost :
        /\ roots' \cup lost' = (roots \cup lost) \ {x}
        /\ \E a \in heap.live :
             /\ Goes(L, x, a)
             /\ \E m \in 1 .. Len(L[a]) :
                  Drops([L EXCEPT ![a] = Instead(L[a], m, x)], M, heap.live, heap'.live, L[a][m])
  BY DEF Replaces
<1>2. PICK a \in heap.live :
        /\ Goes(L, x, a)
        /\ \E m \in 1 .. Len(L[a]) :
             Drops([L EXCEPT ![a] = Instead(L[a], m, x)], M, heap.live, heap'.live, L[a][m])
  BY <1>1
<1>3. PICK m \in 1 .. Len(L[a]) :
        Drops([L EXCEPT ![a] = Instead(L[a], m, x)], M, heap.live, heap'.live, L[a][m])
  BY <1>2
<1>4. /\ L \in [Nodes -> Seq(Nodes)] /\ Sequences = L /\ Sequences' = M /\ x \in Nodes /\ a \in Nodes
  BY DEF Meets
<1>5. L[a] \in Seq(Nodes) /\ DOMAIN Sequences[a] = 1 .. Len(L[a]) /\ L[a][m] \in Nodes
  BY <1>4
<1>6. Lists!ReplaceAt(Sequences[a], m, x) = Instead(L[a], m, x) /\ Instead(L[a], m, x) \in Seq(Nodes)
  <2>1. Lists!ReplaceAt(Sequences[a], m, x) = Instead(L[a], m, x)
    BY <1>4, <1>5, ReplaceAtIs
  <2>2. Len(L[a]) \in Nat /\ \A k \in 1 .. Len(L[a]) : (IF k = m THEN x ELSE L[a][k]) \in Nodes
    BY <1>4, <1>5
  <2>3. Instead(L[a], m, x) \in Seq(Nodes)
    BY <2>2, IsASeq DEF Instead
  <2>4. QED
    BY <2>1, <2>3
<1> DEFINE K == [L EXCEPT ![a] = Instead(L[a], m, x)]
<1>7. K \in [Nodes -> Seq(Nodes)] /\ Lists!With(a, Lists!ReplaceAt(Sequences[a], m, x)) = K
  BY <1>4, <1>6 DEF Lists!With
<1> HIDE DEF K
<1>8. Lists!DeletedFrom(L[a][m], K)
  BY <1>3, <1>5, <1>7, DropsImplement DEF K
<1>9. Lists!DeletedFrom(Sequences[a][m], Lists!With(a, Lists!ReplaceAt(Sequences[a], m, x)))
  BY <1>4, <1>7, <1>8
<1>10. a \in heap.live \ Lists!Below(x, Sequences)
  BY <1>2, <1>4, GoesIs
<1>11. (roots \cup lost)' = (roots \cup lost) \ {x} /\ m \in DOMAIN Sequences[a]
  BY <1>1, <1>5
<1>12. QED
  BY <1>9, <1>10, <1>11 DEF Lists!Replace

LEMMA DeletesImplement ==
  ASSUME NEW L, NEW M, Meets(L, M), Deletes(L, M, heap.live, heap'.live, roots \cup lost, roots' \cup lost')
  PROVE  Lists!Delete
<1>1. PICK x \in roots \cup lost :
        roots' \cup lost' = (roots \cup lost) \ {x} /\ Drops(L, M, heap.live, heap'.live, x)
  BY DEF Deletes
<1>2. L \in [Nodes -> Seq(Nodes)] /\ Sequences = L /\ x \in Nodes
  BY DEF Meets
<1>3. Lists!DeletedFrom(x, L)
  BY <1>1, <1>2, DropsImplement
<1>4. Lists!DeletedFrom(x, Sequences)
  BY <1>2, <1>3
<1>5. (roots \cup lost)' = (roots \cup lost) \ {x}
  BY <1>1
<1>6. QED
  BY <1>4, <1>5 DEF Lists!Delete

LEMMA CreatesImplement ==
  ASSUME NEW L, NEW M, Meets(L, M), M \in [Nodes -> Seq(Nodes)],
         Creates(L, M, heap.live, heap'.live, roots \cup lost, roots' \cup lost')
  PROVE  Lists!Create
<1>1. PICK x \in Nodes \ heap.live :
        /\ roots' \cup lost' = (roots \cup lost) \cup {x}
        /\ \E C : Least(C, x, Under(M)) /\ heap'.live = heap.live \cup C /\ C \cap heap.live = {}
        /\ \A a \in heap.live : M[a] = L[a]
  BY DEF Creates
<1>2. PICK C : Least(C, x, Under(M)) /\ heap'.live = heap.live \cup C /\ C \cap heap.live = {}
  BY <1>1
<1>3. Sequences = L /\ Sequences' = M
  BY DEF Meets
<1>4. Least(Lists!Below(x, M), x, Under(M))
  BY BelowIs
<1>5. C = Lists!Below(x, M)
  BY <1>2, <1>4, LeastIsOne
<1>6. /\ (heap.live)' = heap.live \cup Lists!Below(x, Sequences')
      /\ Lists!Below(x, Sequences') \cap heap.live = {}
  BY <1>2, <1>3, <1>5
<1>7. /\ (roots \cup lost)' = (roots \cup lost) \cup {x}
      /\ \A a \in heap.live : Sequences'[a] = Sequences[a]
  BY <1>1, <1>3
<1>8. QED
  BY <1>6, <1>7 DEF Lists!Create

LEMMA StepsImplement ==
  ASSUME NEW L, Together(L), Steps(L)
  PROVE  Lists!Next \/ UNCHANGED <<Sequences, heap.live, roots \cup lost>>
<1>1. PICK M : /\ Sound(heap', M, roots' \cup lost')
               /\ Moves(L, M, heap.live, heap'.live, roots \cup lost, roots' \cup lost')
  BY DEF Steps
<1>2. Sound(heap, L, roots \cup lost)
  BY DEF Together
<1>3. ListsOf(heap) = L /\ ListsOf(heap') = M
  BY <1>1, <1>2, ListsAre
<1>4. Sequences = L
  BY <1>3 DEF Sequences, ListsOf
<1>5. Sequences' = M
  BY <1>3 DEF Sequences, ListsOf
<1>6. L \in [Nodes -> Seq(Nodes)] /\ M \in [Nodes -> Seq(Nodes)]
  BY <1>1, <1>2 DEF Sound, Represents
<1>7. heap.live \subseteq Nodes /\ roots \cup lost \subseteq Nodes
  BY DEF Together, TypeOK, Heap
<1>8. Meets(L, M)
  BY <1>4, <1>5, <1>6, <1>7 DEF Meets
<1>9. CASE Inserts(L, M, heap.live, heap'.live, roots \cup lost, roots' \cup lost')
  BY <1>8, <1>9, InsertsImplement DEF Lists!Next
<1>10. CASE Detaches(L, M, heap.live, heap'.live, roots \cup lost, roots' \cup lost')
  BY <1>8, <1>10, DetachesImplement DEF Lists!Next
<1>11. CASE DeletesItem(L, M, heap.live, heap'.live, roots \cup lost, roots' \cup lost')
  BY <1>8, <1>11, DeletesItemImplement DEF Lists!Next
<1>12. CASE Replaces(L, M, heap.live, heap'.live, roots \cup lost, roots' \cup lost')
  BY <1>8, <1>12, ReplacesImplement DEF Lists!Next
<1>13. CASE Deletes(L, M, heap.live, heap'.live, roots \cup lost, roots' \cup lost')
  BY <1>8, <1>13, DeletesImplement DEF Lists!Next
<1>14. CASE Creates(L, M, heap.live, heap'.live, roots \cup lost, roots' \cup lost')
  BY <1>6, <1>8, <1>14, CreatesImplement DEF Lists!Next
<1>15. CASE Stays(L, M, heap.live, heap'.live, roots \cup lost, roots' \cup lost')
  <2>1. M = L /\ heap'.live = heap.live /\ roots' \cup lost' = roots \cup lost
    BY <1>15 DEF Stays
  <2>2. QED
    BY <1>4, <1>5, <2>1
<1>16. QED
  BY <1>1, <1>9, <1>10, <1>11, <1>12, <1>13, <1>14, <1>15 DEF Moves

\* The links are the sequences of items that JsonLists has: each call does to them one
\* step of JsonLists, or none (cJSON.c:1861-2374, 2696-2782).
THEOREM HeapImplementsLists == Spec => Implements
<1>1. Init => Lists!Init
  <2>1. SUFFICES ASSUME Init PROVE Lists!Init
    OBVIOUS
  <2> DEFINE L == [n \in Nodes |-> << >>]
  <2>2. Sound(heap, L, roots \cup lost)
    BY <2>1, InitTogether DEF Together
  <2>3. ListsOf(heap) = L
    BY <2>2, ListsAre
  <2>4. Sequences = L
    BY <2>3 DEF Sequences, ListsOf
  <2> HIDE DEF L
  <2>5. heap.live = {} /\ roots \cup lost = {}
    BY <2>1 DEF Init
  <2>6. QED
    BY <2>4, <2>5 DEF Lists!Init, L
<1>2. IInv /\ [Next]_vars => [Lists!Next]_<<Sequences, heap.live, roots \cup lost>>
  <2>1. SUFFICES ASSUME IInv, [Next]_vars
                 PROVE  Lists!Next \/ UNCHANGED <<Sequences, heap.live, roots \cup lost>>
    OBVIOUS
  <2>2. PICK L : Together(L)
    BY <2>1, IInvHas
  <2>3. Steps(L)
    BY <2>1, <2>2, NextSteps
  <2>4. QED
    BY <2>2, <2>3, StepsImplement
<1>3. QED
  BY <1>1, <1>2, HeapStaysSound, PTL DEF Spec, Implements, Lists!Spec
=============================================================================
