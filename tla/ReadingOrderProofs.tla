------------------------- MODULE ReadingOrderProofs -------------------------
(***************************************************************************)
(* Proofs about the order of a page and its outline, for any documents,    *)
(* pages and texts: the comparator of ReadingOrder is an order, the heap   *)
(* of applyPrecedence is one and makes the least extension of it, what is  *)
(* read from a page (PageOrder) reaches it as relations that are obeyed,   *)
(* a page of two columns can always be ordered, and the headings are       *)
(* nested as they stand in the result.                                     *)
(*                                                                         *)
(* The sort, the heap and the merger are recursive: a recursive function   *)
(* is unfolded by Recursion, and what holds of all its values is shown     *)
(* with least counterexamples (Induction, Growing).                        *)
(***************************************************************************)
EXTENDS TableGrid, NaturalsInduction, WellFoundedInduction, FiniteSetTheorems, SequenceTheorems, TLAPS


(* A set of numbers has a least one.                                       *)
LEMMA LeastElement == ASSUME NEW T, T \subseteq Nat, T # {} PROVE \E x \in T : \A y \in T : x <= y
<1>1. IsWellFoundedOn(OpToRel(<, Nat), Nat)
  BY NatLessThanWellFounded, ZenonT(40)
<1>2. PICK x \in T : \A y \in T : ~(<<y, x>> \in OpToRel(<, Nat))
  BY <1>1, WFMin, ZenonT(40)
<1>3. \A y \in T : ~(y < x)
  BY <1>2 DEF OpToRel
<1> QED
  BY <1>3

(* Induction, over a set instead of a predicate.                           *)
LEMMA Induction ==
  ASSUME NEW S, 0 \in S, \A n \in Nat : n \in S => n + 1 \in S PROVE \A n \in Nat : n \in S
<1> SUFFICES ASSUME Nat \ S # {} PROVE FALSE
  OBVIOUS
<1>1. PICK x \in Nat \ S : \A y \in Nat \ S : x <= y
  BY LeastElement
<1>2. x # 0 /\ x - 1 \in Nat /\ ~(x <= x - 1)
  OBVIOUS
<1>3. x - 1 \in S
  BY <1>1, <1>2
<1> QED
  BY <1>2, <1>3

(* A recursive definition: each value is given, or found from an earlier   *)
(* one.                                                                    *)
Grounded(X, Y, bound, m, before, stop, base, then) ==
  /\ bound \in Nat /\ m \in [X -> 0..bound]
  /\ before \in [X -> X] /\ base \in [X -> Y] /\ then \in [X \X Y -> Y]
  /\ \A x \in X \ stop : m[before[x]] < m[x]

(* Such a definition has a function that satisfies it.                     *)
LEMMA Recursion ==
  ASSUME NEW X, NEW Y, NEW bound, NEW m, NEW before, NEW stop, NEW base, NEW then,
         Grounded(X, Y, bound, m, before, stop, base, then)
  PROVE  \E f \in [X -> Y] : \A x \in X : f[x] = IF x \in stop THEN base[x] ELSE then[<<x, f[before[x]]>>]
<1> USE DEF Grounded
<1> DEFINE Step(f, x) == IF x \in stop THEN base[x] ELSE then[<<x, f[before[x]]>>]
           S == {k \in Nat : \E f \in [X -> Y] : \A x \in X : m[x] < k => f[x] = Step(f, x)}
<1>1. 0 \in S
  <2>1. \A x \in X : ~(m[x] < 0)
    OBVIOUS
  <2> QED
    BY <2>1
<1>2. ASSUME NEW k \in Nat, k \in S PROVE k + 1 \in S
  <2>1. PICK f \in [X -> Y] : \A x \in X : m[x] < k => f[x] = Step(f, x)
    BY <1>2
  <2> DEFINE g == [x \in X |-> IF m[x] < k THEN f[x] ELSE Step(f, x)]
  <2>2. \A x \in X : Step(f, x) \in Y
    OBVIOUS
  <2>3. g \in [X -> Y]
    BY <2>2
  <2>4. ASSUME NEW x \in X, m[x] < k + 1 PROVE g[x] = Step(g, x)
    <3>1. CASE x \in stop
      BY <2>1, <3>1
    <3>2. CASE x \notin stop
      <4>1. before[x] \in X /\ m[before[x]] < m[x] /\ m[x] \in Nat /\ m[before[x]] \in Nat
        BY <3>2
      <4>2. g[before[x]] = f[before[x]]
        BY <2>4, <4>1
      <4>3. g[x] = Step(f, x)
        BY <2>1
      <4> QED
        BY <3>2, <4>2, <4>3
    <3> QED
      BY <3>1, <3>2
  <2> HIDE DEF g, Step
  <2> QED
    BY <2>3, <2>4
<1>3. bound + 1 \in S
  <2> HIDE DEF S
  <2> QED
    BY <1>1, <1>2, Induction
<1>4. \A x \in X : m[x] < bound + 1
  OBVIOUS
<1> QED
  BY <1>3, <1>4

(* The parent of a place in a heap, and its children.                      *)
LEMMA Halves ==
  /\ \A i \in Nat \ {0, 1} : i \div 2 \in Nat \ {0} /\ i \div 2 < i
  /\ \A i, j \in Nat \ {0} : j \div 2 = i => j = 2 * i \/ j = 2 * i + 1
  /\ \A i \in Nat : (2 * i) \div 2 = i /\ (2 * i + 1) \div 2 = i
OBVIOUS

RanksAreNumbers == \A n \in Nodes : RankOf(n) \in Int

(* What the heap is: no node is in it twice, and parents come first.       *)
Values(f, k) == {f[i] : i \in 1..k}
Elements(h) == Values(h, Len(h))
Distinct(h) == \A i, j \in 1..Len(h) : h[i] = h[j] => i = j
Ordered(h) == \A j \in 2..Len(h) : RankOf(h[j \div 2]) <= RankOf(h[j])
HeapOK(h) == h \in Seq(Nodes) /\ Distinct(h) /\ Ordered(h)

(* The hole that push moves up: f[i] is the heap with the node at i or     *)
(* above, and base without what was there.                                 *)
Rises(f, heap, n) ==
  LET last == Len(heap) + 1
  IN  \A i \in 1..last :
        f[i] = IF i = 1 \/ RankOf(heap[i \div 2]) <= RankOf(n) THEN [Append(heap, n) EXCEPT ![i] = n]
               ELSE [f[i \div 2] EXCEPT ![i] = heap[i \div 2]]

(* push computes such a family of heaps.                                   *)
LEMMA PushRises ==
  ASSUME NEW heap \in Seq(Nodes), NEW n \in Nodes
  PROVE  \E f \in [1..(Len(heap) + 1) -> [1..(Len(heap) + 1) -> Nodes]] :
            Rises(f, heap, n) /\ Pushed(heap, n) = f[Len(heap) + 1]
<1> DEFINE last == Len(heap) + 1
           X == 1..last
           Y == [X -> Nodes]
           stop == {i \in X : i = 1 \/ RankOf(heap[i \div 2]) <= RankOf(n)}
           before == [i \in X |-> IF i \in stop THEN i ELSE i \div 2]
           m == [i \in X |-> i]
           base == [i \in X |-> [Append(heap, n) EXCEPT ![i] = n]]
           value == [i \in X |-> IF i \in stop THEN n ELSE heap[i \div 2]]
           then == [z \in X \X Y |-> [z[2] EXCEPT ![z[1]] = value[z[1]]]]
<1>1. last \in Nat \ {0} /\ Append(heap, n) \in Y /\ \A i \in 1..Len(heap) : heap[i] \in Nodes
  <2>1. Len(heap) \in Nat /\ \A i \in 1..Len(heap) : heap[i] \in Nodes
    OBVIOUS
  <2>2. Append(heap, n) \in Seq(Nodes) /\ Len(Append(heap, n)) = last
    OBVIOUS
  <2>3. Append(heap, n) \in Y
    BY <2>2, LenProperties
  <2> QED
    BY <2>1, <2>3
<1>2. \A i \in X \ stop : i \div 2 \in X /\ i \div 2 \in 1..Len(heap) /\ i \div 2 < i
  <2> SUFFICES ASSUME NEW i \in X \ stop
               PROVE  i \div 2 \in X /\ i \div 2 \in 1..Len(heap) /\ i \div 2 < i
    OBVIOUS
  <2>1. i \in Nat \ {0, 1} /\ i <= last /\ Len(heap) \in Nat
    BY <1>1
  <2>2. i \div 2 \in Nat \ {0} /\ i \div 2 < i
    BY <2>1, Halves
  <2> QED
    BY <2>1, <2>2
<1>3. m \in [X -> 0..last] /\ base \in [X -> Y]
  BY <1>1
<1>4. before \in [X -> X] /\ \A i \in X \ stop : before[i] = i \div 2 /\ m[before[i]] < m[i]
  BY <1>2
<1>5. then \in [X \X Y -> Y]
  <2> SUFFICES ASSUME NEW i \in X, NEW h \in Y PROVE [h EXCEPT ![i] = value[i]] \in Y
    OBVIOUS
  <2>1. value[i] \in Nodes
    BY <1>1, <1>2
  <2> QED
    BY <2>1
<1>6. \E f \in [X -> Y] : \A i \in X : f[i] = IF i \in stop THEN base[i] ELSE then[<<i, f[before[i]]>>]
  <2>1. last \in Nat /\ m \in [X -> 0..last] /\ before \in [X -> X] /\ base \in [X -> Y]
    BY <1>1, <1>3, <1>4
  <2>2. \A i \in X \ stop : m[before[i]] < m[i]
    BY <1>4
  <2>3. Grounded(X, Y, last, m, before, stop, base, then)
    BY <1>5, <2>1, <2>2 DEF Grounded
  <2> HIDE DEF last, X, Y, stop, before, m, base, then
  <2> QED
    BY <2>3, Recursion
<1>7. PICK f \in [X -> Y] : \A i \in X : f[i] = IF i \in stop THEN base[i] ELSE then[<<i, f[before[i]]>>]
  BY <1>6
<1>8. \A i \in X : f[i] = IF i = 1 \/ RankOf(heap[i \div 2]) <= RankOf(n) THEN [Append(heap, n) EXCEPT ![i] = n]
                           ELSE [f[i \div 2] EXCEPT ![i] = heap[i \div 2]]
  <2> SUFFICES ASSUME NEW i \in X
               PROVE  f[i] = IF i = 1 \/ RankOf(heap[i \div 2]) <= RankOf(n)
                             THEN [Append(heap, n) EXCEPT ![i] = n]
                             ELSE [f[i \div 2] EXCEPT ![i] = heap[i \div 2]]
    OBVIOUS
  <2>1. CASE i \in stop
    BY <1>7, <2>1
  <2>2. CASE i \notin stop
    <3>1. f[i] = then[<<i, f[i \div 2]>>] /\ f[i \div 2] \in Y
      BY <1>2, <1>4, <1>7, <2>2
    <3>2. then[<<i, f[i \div 2]>>] = [f[i \div 2] EXCEPT ![i] = heap[i \div 2]]
      BY <2>2, <3>1
    <3> QED
      BY <2>2, <3>1, <3>2
  <2> QED
    BY <2>1, <2>2
<1> DEFINE Up(g) == [i \in X |-> IF i = 1 \/ RankOf(heap[i \div 2]) <= RankOf(n)
                                THEN [Append(heap, n) EXCEPT ![i] = n]
                                ELSE [g[i \div 2] EXCEPT ![i] = heap[i \div 2]]]
           up == CHOOSE g : g = Up(g)
<1>9. f = Up(f)
  BY <1>8
<1>10. up = Up(up)
  <2> HIDE DEF Up
  <2> QED
    BY <1>9
<1>11. Pushed(heap, n) = up[last]
  BY DEF Pushed
<1>12. \A i \in X : up[i] = f[i]
  <2> SUFFICES ASSUME {i \in X : up[i] # f[i]} # {} PROVE FALSE
    OBVIOUS
  <2>1. PICK i \in X : up[i] # f[i] /\ \A j \in X : up[j] # f[j] => i <= j
    <3> DEFINE T == {i \in X : up[i] # f[i]}
    <3>0. X \subseteq Nat
      BY <1>1
    <3>1. T \subseteq Nat /\ T # {}
      <4> HIDE DEF X, up
      <4> QED
        BY <3>0
    <3>2. \E i \in T : \A j \in T : i <= j
      <4> HIDE DEF T
      <4> QED
        BY <3>1, LeastElement
    <3> QED
      BY <3>2
  <2>2. up[i] = IF i = 1 \/ RankOf(heap[i \div 2]) <= RankOf(n) THEN [Append(heap, n) EXCEPT ![i] = n]
                ELSE [up[i \div 2] EXCEPT ![i] = heap[i \div 2]]
    BY <1>10
  <2> HIDE DEF up
  <2>3. CASE i \in stop
    BY <1>8, <2>1, <2>2, <2>3
  <2>4. CASE i \notin stop
    <3>1. i \div 2 \in X /\ ~(i <= i \div 2)
      BY <1>2, <2>4
    <3>2. up[i \div 2] = f[i \div 2]
      BY <2>1, <3>1
    <3> QED
      BY <1>8, <2>1, <2>2, <2>4, <3>2
  <2> QED
    BY <2>3, <2>4
<1>13. Pushed(heap, n) = f[last]
  <2>1. last \in X
    BY <1>1
  <2> HIDE DEF up, X, last
  <2> QED
    BY <2>1, <1>11, <1>12
<1>14. Rises(f, heap, n)
  BY <1>8 DEF Rises
<1> QED
  BY <1>13, <1>14

(* What holds of each x when it holds of all that are smaller holds of     *)
(* all.                                                                    *)
Grows(X, bound, m, G) ==
  /\ bound \in Nat /\ m \in [X -> 0..bound]
  /\ \A x \in X : (\A y \in X : m[y] < m[x] => y \in G) => x \in G

LEMMA Growing == ASSUME NEW X, NEW bound, NEW m, NEW G, Grows(X, bound, m, G) PROVE X \subseteq G
<1> USE DEF Grows
<1> SUFFICES ASSUME X \ G # {} PROVE FALSE
  OBVIOUS
<1> DEFINE T == {m[x] : x \in X \ G}
<1>1. T \subseteq Nat /\ T # {}
  OBVIOUS
<1>2. PICK k \in T : \A j \in T : k <= j
  <2> HIDE DEF T
  <2> QED
    BY <1>1, LeastElement
<1>3. PICK x \in X \ G : k = m[x]
  BY <1>2
<1>4. ASSUME NEW y \in X, m[y] < m[x] PROVE y \in G
  <2>1. m[y] \in Nat /\ m[x] \in Nat /\ ~(m[x] <= m[y])
    BY <1>4
  <2> QED
    BY <1>2, <1>3, <2>1
<1> QED
  BY <1>3, <1>4

(* A sequence in which all of the different values of another one of the   *)
(* same length occur is a permutation of it.                               *)
Rearranges(k, Y, f, g) ==
  /\ k \in Nat /\ f \in [1..k -> Y] /\ g \in [1..k -> Y]
  /\ \A i, j \in 1..k : f[i] = f[j] => i = j
  /\ \A i \in 1..k : \E j \in 1..k : g[j] = f[i]

LEMMA Rearranged ==
  ASSUME NEW k, NEW Y, NEW f, NEW g, Rearranges(k, Y, f, g)
  PROVE  /\ \A i, j \in 1..k : g[i] = g[j] => i = j
         /\ Values(g, k) = Values(f, k)
<1> USE DEF Rearranges, Values
<1> DEFINE F == {f[i] : i \in 1..k}
           G == {g[i] : i \in 1..k}
<1>1. IsFiniteSet(1..k) /\ Cardinality(1..k) = k
  BY FS_Interval
<1>2. IsFiniteSet(F) /\ Cardinality(F) = k
  <2>1. f \in Bijection(1..k, F)
    BY DEF Bijection, Injection, IsInjective, Surjection
  <2> HIDE DEF F
  <2> QED
    BY <1>1, <2>1, FS_Bijection DEF ExistsBijection
<1>3. g \in Surjection(1..k, G)
  BY DEF Surjection
<1>4. IsFiniteSet(G) /\ Cardinality(G) <= k
  <2> HIDE DEF G
  <2> QED
    BY <1>1, <1>3, FS_Surjection
<1>5. F \subseteq G
  OBVIOUS
<1>6. F = G
  <2>1. Cardinality(F) <= Cardinality(G) /\ (Cardinality(F) = Cardinality(G) => F = G)
    <3> HIDE DEF F, G
    <3> QED
      BY <1>4, <1>5, FS_Subset
  <2>2. Cardinality(G) \in Nat
    <3> HIDE DEF G
    <3> QED
      BY <1>4, FS_CardinalityType
  <2> HIDE DEF F, G
  <2> QED
    BY <1>2, <1>4, <2>1, <2>2
<1>7. g \in Injection(1..k, G)
  <2> HIDE DEF F, G
  <2> QED
    BY <1>1, <1>2, <1>3, <1>6, FS_Surjection
<1> QED
  BY <1>6, <1>7 DEF Injection, IsInjective

(* The hole at i, when the node is above it: only places up to i differ    *)
(* from base, which has the node at its end, none of them ranks higher     *)
(* than there, and nothing but what was at i is missing.                   *)
Risen(g, i, base, n) ==
  /\ \A k \in DOMAIN base : k > i => g[k] = base[k]
  /\ \A k \in DOMAIN base : k <= i /\ k # Len(base) => RankOf(g[k]) <= RankOf(base[k])
  /\ \A j \in 2..i : RankOf(g[j \div 2]) <= RankOf(g[j])
  /\ \E k \in 1..i : g[k] = n
  /\ \A l \in DOMAIN base : l # i => \E k \in DOMAIN base : g[k] = base[l]

(* Every one of them is a heap once the node is in it, with the same       *)
(* nodes: what moves down goes where only larger ones are below.           *)
LEMMA HoleRises ==
  ASSUME RanksAreNumbers, NEW heap, HeapOK(heap), NEW n \in Nodes, n \notin Elements(heap),
         NEW f \in [1..(Len(heap) + 1) -> [1..(Len(heap) + 1) -> Nodes]], Rises(f, heap, n),
         NEW i \in 1..(Len(heap) + 1), i <= Len(heap) => RankOf(n) <= RankOf(heap[i]),
         i > 1 /\ ~(RankOf(heap[i \div 2]) <= RankOf(n)) => Risen(f[i \div 2], i \div 2, Append(heap, n), n)
  PROVE  Risen(f[i], i, Append(heap, n), n)
<1> DEFINE L == Len(heap) + 1
           base == Append(heap, n)
           p == i \div 2
<1>1. /\ heap \in Seq(Nodes) /\ Len(heap) \in Nat /\ L \in Nat /\ DOMAIN base = 1..L
      /\ \A k \in 1..Len(heap) : base[k] = heap[k] /\ heap[k] \in Nodes
      /\ base[L] = n /\ base \in [1..L -> Nodes] /\ Len(base) = L
  <2>1. heap \in Seq(Nodes)
    BY DEF HeapOK
  <2>2. Append(heap, n) \in Seq(Nodes) /\ Len(Append(heap, n)) = L
    BY <2>1
  <2>3. Append(heap, n) \in [1..L -> Nodes]
    BY <2>2, LenProperties
  <2>4. Append(heap, n)[L] = n /\ \A k \in 1..Len(heap) : Append(heap, n)[k] = heap[k] /\ heap[k] \in Nodes
    BY <2>1
  <2> QED
    BY <2>1, <2>2, <2>3, <2>4
<1>2. \A k, l \in 1..L : base[k] = base[l] => k = l
  BY <1>1 DEF HeapOK, Distinct, Elements, Values
<1>3. \A x \in Nodes : RankOf(x) \in Int
  BY DEF RanksAreNumbers
<1>4. \A j \in 2..Len(heap) : RankOf(base[j \div 2]) <= RankOf(base[j])
  <2> SUFFICES ASSUME NEW j \in 2..Len(heap) PROVE RankOf(base[j \div 2]) <= RankOf(base[j])
    OBVIOUS
  <2>1. j \in Nat \ {0, 1} /\ j <= Len(heap)
    BY <1>1
  <2>2. j \div 2 \in 1..Len(heap) /\ j \in 1..Len(heap)
    BY <2>1, <1>1, Halves
  <2>3. RankOf(heap[j \div 2]) <= RankOf(heap[j])
    BY DEF HeapOK, Ordered
  <2> QED
    BY <1>1, <2>2, <2>3
<1>5. /\ i \in Nat \ {0} /\ i <= L /\ i \in 1..L
      /\ i # 1 => p \in Nat \ {0} /\ p < i /\ p \in 1..Len(heap)
  <2>1. i \in Nat \ {0} /\ i <= L
    BY <1>1
  <2> QED
    BY <1>1, <2>1, Halves
<1>6. i # L => RankOf(n) <= RankOf(base[i])
  <2>1. i = L \/ i <= Len(heap)
    BY <1>1, <1>5
  <2> QED
    BY <1>1, <1>3, <2>1
<1>7. f[i] = IF i = 1 \/ RankOf(heap[p]) <= RankOf(n) THEN [base EXCEPT ![i] = n]
             ELSE [f[p] EXCEPT ![i] = heap[p]]
  BY DEF Rises
<1> HIDE DEF L, base, p
<1>8. CASE i = 1 \/ RankOf(heap[p]) <= RankOf(n)
  <2>1. f[i] = [base EXCEPT ![i] = n]
    BY <1>7, <1>8
  <2>2. f[i][i] = n /\ \A k \in 1..L : k # i => f[i][k] = base[k]
    BY <1>1, <1>5, <2>1
  <2>3. \A k \in 1..L : k > i => f[i][k] = base[k]
    BY <1>5, <2>2
  <2>4. \A k \in 1..L : k <= i /\ k # L => RankOf(f[i][k]) <= RankOf(base[k])
    BY <1>1, <1>3, <1>6, <2>2
  <2>5. \A j \in 2..i : RankOf(f[i][j \div 2]) <= RankOf(f[i][j])
    <3> SUFFICES ASSUME NEW j \in 2..i PROVE RankOf(f[i][j \div 2]) <= RankOf(f[i][j])
      OBVIOUS
    <3>1. j \in Nat \ {0, 1} /\ j <= i
      BY <1>5
    <3>2. j \div 2 \in Nat \ {0} /\ j \div 2 < j
      BY <3>1, Halves
    <3>3. j \in 1..L /\ j \div 2 \in 1..L /\ j \div 2 # i
      BY <1>1, <1>5, <3>1, <3>2
    <3>4. CASE j = i
      <4>1. RankOf(heap[p]) <= RankOf(n) /\ p \in 1..Len(heap) /\ p = j \div 2
        BY <1>5, <1>8, <3>1, <3>4 DEF p
      <4> QED
        BY <1>1, <2>2, <3>3, <3>4, <4>1
    <3>5. CASE j # i
      <4>1. j \in 2..Len(heap)
        BY <1>1, <1>5, <3>1, <3>5 DEF L
      <4> QED
        BY <1>4, <2>2, <3>3, <3>5, <4>1
    <3> QED
      BY <3>4, <3>5
  <2>6. (\E k \in 1..i : f[i][k] = n) /\ \A l \in 1..L : l # i => \E k \in 1..L : f[i][k] = base[l]
    BY <1>5, <2>2
  <2> QED
    BY <1>1, <2>3, <2>4, <2>5, <2>6 DEF Risen, base
<1>9. CASE ~(i = 1 \/ RankOf(heap[p]) <= RankOf(n))
  <2>1. Risen(f[p], p, base, n)
    BY <1>5, <1>9 DEF p, base
  <2>2. p \in 1..Len(heap) /\ p < i /\ p \in Nat \ {0} /\ p \in 1..L
    BY <1>1, <1>5, <1>9 DEF L
  <2>3. f[i][i] = base[p] /\ \A k \in 1..L : k # i => f[i][k] = f[p][k]
    <3>1. f[i] = [f[p] EXCEPT ![i] = heap[p]]
      BY <1>7, <1>9
    <3>2. f[p] \in [1..L -> Nodes] /\ i \in 1..L
      BY <2>2 DEF L
    <3> QED
      BY <1>1, <2>2, <3>1, <3>2
  <2>4. /\ \A k \in 1..L : k > p => f[p][k] = base[k]
        /\ \A k \in 1..L : k <= p /\ k # L => RankOf(f[p][k]) <= RankOf(base[k])
        /\ \A j \in 2..p : RankOf(f[p][j \div 2]) <= RankOf(f[p][j])
        /\ \E k \in 1..p : f[p][k] = n
        /\ \A l \in 1..L : l # p => \E k \in 1..L : f[p][k] = base[l]
    <3>1. DOMAIN base = 1..L /\ Len(base) = L
      BY <1>1
    <3> QED
      BY <2>1, <3>1 DEF Risen
  <2>5. \A k \in 1..L : k > i => f[i][k] = base[k]
    BY <1>5, <2>2, <2>3, <2>4
  <2>6. \A k \in 1..L : RankOf(base[k]) \in Int
    BY <1>1, <1>3
  <2>7. \A k \in 1..L : RankOf(f[p][k]) \in Int
    <3>1. f[p] \in [1..L -> Nodes]
      BY <2>2 DEF L
    <3> QED
      BY <1>3, <3>1
  <2>8. i # L => RankOf(base[p]) <= RankOf(base[i])
    <3>1. i # L => i \in 2..Len(heap)
      BY <1>1, <1>5, <1>9 DEF L
    <3> QED
      BY <1>4, <3>1 DEF p
  <2>9. \A k \in 1..L : k <= i /\ k # L => RankOf(f[i][k]) <= RankOf(base[k])
    <3> SUFFICES ASSUME NEW k \in 1..L, k <= i, k # L PROVE RankOf(f[i][k]) <= RankOf(base[k])
      OBVIOUS
    <3>1. CASE k = i
      BY <2>3, <2>8, <3>1
    <3>2. CASE k # i
      <4>1. k \in Int /\ (k <= p \/ k > p)
        BY <1>1, <2>2
      <4>2. f[i][k] = f[p][k]
        BY <2>3, <3>2
      <4>3. CASE k <= p
        BY <2>4, <4>2, <4>3
      <4>4. CASE k > p
        <5>1. f[i][k] = base[k]
          BY <2>4, <4>2, <4>4
        <5> QED
          BY <2>6, <5>1
      <4> QED
        BY <4>1, <4>3, <4>4
    <3> QED
      BY <3>1, <3>2
  <2>10. \A j \in 2..i : RankOf(f[i][j \div 2]) <= RankOf(f[i][j])
    <3> SUFFICES ASSUME NEW j \in 2..i PROVE RankOf(f[i][j \div 2]) <= RankOf(f[i][j])
      OBVIOUS
    <3>1. j \in Nat \ {0, 1} /\ j <= i
      BY <1>5
    <3>2. j \div 2 \in Nat \ {0} /\ j \div 2 < j
      BY <3>1, Halves
    <3>3. j \in 1..L /\ j \div 2 \in 1..L /\ j \div 2 # i /\ j \div 2 # L
      BY <1>1, <1>5, <3>1, <3>2
    <3>4. f[i][j \div 2] = f[p][j \div 2]
      BY <2>3, <3>3
    <3>5. RankOf(f[i][j \div 2]) <= RankOf(base[j \div 2])
      BY <1>5, <2>9, <3>1, <3>2, <3>3
    <3>6. RankOf(f[i][j \div 2]) \in Int
      BY <2>7, <3>3, <3>4
    <3>7. CASE j = i
      <4>1. j \div 2 = p
        BY <3>7 DEF p
      <4> QED
        BY <2>3, <3>5, <3>7, <4>1
    <3>8. CASE j <= p
      <4>1. j \in 2..p /\ j # i
        BY <2>2, <3>1, <3>8
      <4>2. RankOf(f[p][j \div 2]) <= RankOf(f[p][j])
        BY <2>4, <4>1
      <4> QED
        BY <2>3, <3>3, <3>4, <4>1, <4>2
    <3>9. CASE j > p /\ j # i
      <4>1. f[i][j] = base[j]
        BY <2>3, <2>4, <3>3, <3>9
      <4>2. j \in 2..Len(heap)
        BY <1>1, <1>5, <3>1, <3>9 DEF L
      <4>3. RankOf(base[j \div 2]) <= RankOf(base[j])
        BY <1>4, <4>2
      <4>4. RankOf(base[j \div 2]) \in Int /\ RankOf(base[j]) \in Int
        BY <2>6, <3>3
      <4> QED
        BY <3>5, <3>6, <4>1, <4>3, <4>4
    <3>10. j <= p \/ j > p
      BY <2>2, <3>1
    <3> QED
      BY <3>7, <3>8, <3>9, <3>10
  <2>11. \E k \in 1..i : f[i][k] = n
    <3>1. PICK k \in 1..p : f[p][k] = n
      BY <2>4
    <3>2. k \in 1..i /\ k # i /\ k \in 1..L
      BY <1>1, <1>5, <2>2
    <3> QED
      BY <2>3, <3>1, <3>2
  <2>12. ASSUME NEW l \in 1..L, l # i PROVE \E k \in 1..L : f[i][k] = base[l]
    <3>1. CASE l = p
      BY <1>5, <2>3, <3>1
    <3>2. CASE l # p
      <4>1. PICK k \in 1..L : f[p][k] = base[l]
        BY <2>4, <3>2
      <4>2. k # i
        <5>1. f[p][i] = base[i]
          BY <1>5, <2>2, <2>4
        <5> QED
          BY <1>2, <1>5, <2>12, <4>1, <5>1
      <4> QED
        BY <2>3, <4>1, <4>2
    <3> QED
      BY <3>1, <3>2
  <2> QED
    BY <1>1, <2>5, <2>9, <2>10, <2>11, <2>12 DEF Risen, base
<1> QED
  BY <1>8, <1>9

(* push: the heap is a heap with one more node.                            *)
LEMMA PushedIsHeap ==
  ASSUME RanksAreNumbers, NEW heap, HeapOK(heap), NEW n \in Nodes, n \notin Elements(heap)
  PROVE  HeapOK(Pushed(heap, n)) /\ Elements(Pushed(heap, n)) = Elements(heap) \cup {n}
<1> DEFINE L == Len(heap) + 1
           base == Append(heap, n)
<1>1. heap \in Seq(Nodes) /\ Len(heap) \in Nat /\ L \in Nat /\ L \in 1..L
  BY DEF HeapOK
<1>2. PICK f \in [1..L -> [1..L -> Nodes]] : Rises(f, heap, n) /\ Pushed(heap, n) = f[L]
  BY <1>1, PushRises
<1>3. /\ base \in [1..L -> Nodes] /\ DOMAIN base = 1..L
      /\ \A k \in 1..Len(heap) : base[k] = heap[k]
      /\ base[L] = n
  <2>1. Append(heap, n) \in Seq(Nodes) /\ Len(Append(heap, n)) = L
    BY <1>1
  <2>2. Append(heap, n) \in [1..L -> Nodes]
    BY <2>1, LenProperties
  <2>3. Append(heap, n)[L] = n /\ \A k \in 1..Len(heap) : Append(heap, n)[k] = heap[k]
    BY <1>1
  <2> QED
    BY <2>2, <2>3
<1>4. \A k, l \in 1..L : base[k] = base[l] => k = l
  BY <1>1, <1>3 DEF HeapOK, Distinct, Elements, Values
<1>5. \A i \in 1..L : (i <= Len(heap) => RankOf(n) <= RankOf(heap[i])) => Risen(f[i], i, base, n)
  <2> DEFINE m == [i \in 1..L |-> i]
             G == {i \in 1..L : (i <= Len(heap) => RankOf(n) <= RankOf(heap[i])) => Risen(f[i], i, base, n)}
  <2>1. m \in [1..L -> 0..L]
    BY <1>1
  <2>2. ASSUME NEW i \in 1..L, \A j \in 1..L : m[j] < m[i] => j \in G PROVE i \in G
    <3>1. SUFFICES ASSUME i <= Len(heap) => RankOf(n) <= RankOf(heap[i]) PROVE Risen(f[i], i, base, n)
      OBVIOUS
    <3>2. ASSUME i > 1, ~(RankOf(heap[i \div 2]) <= RankOf(n)) PROVE Risen(f[i \div 2], i \div 2, base, n)
      <4>1. i \in Nat \ {0, 1} /\ i <= L
        BY <1>1, <3>2
      <4>2. i \div 2 \in Nat \ {0} /\ i \div 2 < i
        BY <4>1, Halves
      <4>3. i \div 2 \in 1..L /\ i \div 2 \in 1..Len(heap)
        BY <1>1, <4>1, <4>2
      <4>4. i \div 2 \in G
        BY <2>2, <4>2, <4>3
      <4>5. RankOf(n) <= RankOf(heap[i \div 2])
        <5>1. heap[i \div 2] \in Nodes
          BY <1>1, <4>3
        <5>2. RankOf(n) \in Int /\ RankOf(heap[i \div 2]) \in Int
          BY <5>1 DEF RanksAreNumbers
        <5> QED
          BY <3>2, <5>2
      <4> QED
        BY <4>4, <4>5
    <3> HIDE DEF G, m
    <3> QED
      BY <1>2, <3>1, <3>2, HoleRises
  <2>3. 1..L \subseteq G
    <3>1. Grows(1..L, L, m, G)
      <4> HIDE DEF G, m, L
      <4> QED
        BY <1>1, <2>1, <2>2 DEF Grows
    <3> HIDE DEF G, m, L
    <3> QED
      BY <3>1, Growing
  <2> QED
    BY <2>3
<1>6. Risen(f[L], L, base, n)
  BY <1>1, <1>5
<1> DEFINE g == Pushed(heap, n)
<1>7. g \in [1..L -> Nodes] /\ Risen(g, L, base, n)
  BY <1>1, <1>2, <1>6
<1>8. g \in Seq(Nodes) /\ Len(g) = L
  <2> HIDE DEF g, L
  <2> QED
    BY <1>1, <1>7
<1> HIDE DEF g, base, L
<1>9. /\ \A i, j \in 1..L : g[i] = g[j] => i = j
      /\ Values(g, L) = Values(base, L)
  <2>1. \A l \in 1..L : \E k \in 1..L : g[k] = base[l]
    BY <1>1, <1>3, <1>7 DEF Risen
  <2>2. Rearranges(L, Nodes, base, g)
    BY <1>1, <1>3, <1>4, <1>7, <2>1 DEF Rearranges
  <2> HIDE DEF L
  <2> QED
    BY <2>2, Rearranged
<1>10. Elements(g) = Elements(heap) \cup {n}
  <2>1. Values(base, L) = Elements(heap) \cup {n}
    <3>1. \A i \in 1..L : i \in 1..Len(heap) \/ i = L
      BY <1>1 DEF L
    <3>2. \A i \in 1..Len(heap) : i \in 1..L
      BY <1>1 DEF L
    <3> QED
      BY <1>1, <1>3, <3>1, <3>2 DEF Elements, Values
  <2> QED
    BY <1>8, <1>9, <2>1 DEF Elements
<1>11. Ordered(g)
  BY <1>7, <1>8 DEF Ordered, Risen
<1> QED
  BY <1>8, <1>9, <1>10, <1>11 DEF HeapOK, Distinct, g

(* The hole that pop moves down.                                           *)
Falls(f, rest, tail) ==
  \A i \in 1..Len(rest) :
     f[i] = IF 2 * i > Len(rest) \/ RankOf(tail) <= RankOf(rest[Child(rest, i)]) THEN [rest EXCEPT ![i] = tail]
            ELSE [f[Child(rest, i)] EXCEPT ![i] = rest[Child(rest, i)]]

(* A place that has a child has a smaller child.                           *)
LEMMA Children ==
  ASSUME NEW h, NEW i \in 1..Len(h), Len(h) \in Nat, ~(2 * i > Len(h))
  PROVE  /\ Child(h, i) \in 1..Len(h) /\ i < Child(h, i)
         /\ Child(h, i) = 2 * i \/ Child(h, i) = 2 * i + 1
         /\ Child(h, i) \div 2 = i
         /\ RanksAreNumbers /\ h \in Seq(Nodes) =>
               \A j \in 1..Len(h) : j \div 2 = i => RankOf(h[Child(h, i)]) <= RankOf(h[j])
<1>1. i \in Nat \ {0} /\ i <= Len(h) /\ 2 * i <= Len(h)
  OBVIOUS
<1>2. Child(h, i) = 2 * i \/ (Child(h, i) = 2 * i + 1 /\ 2 * i + 1 <= Len(h))
  BY DEF Child
<1>3. Child(h, i) \in 1..Len(h) /\ i < Child(h, i)
  BY <1>1, <1>2
<1>4. (2 * i) \div 2 = i /\ (2 * i + 1) \div 2 = i
  BY <1>1, Halves
<1>5. ASSUME RanksAreNumbers, h \in Seq(Nodes), NEW j \in 1..Len(h), j \div 2 = i
      PROVE  RankOf(h[Child(h, i)]) <= RankOf(h[j])
  <2>1. j = 2 * i \/ j = 2 * i + 1
    BY <1>1, <1>5, Halves
  <2>2. h[j] \in Nodes /\ h[2 * i] \in Nodes
    BY <1>1, <1>5
  <2>3. RankOf(h[j]) \in Int /\ RankOf(h[2 * i]) \in Int
    BY <1>5, <2>2 DEF RanksAreNumbers
  <2>4. CASE j = 2 * i
    <3>1. CASE 2 * i + 1 <= Len(h) /\ RankOf(h[2 * i + 1]) < RankOf(h[2 * i])
      <4>1. h[2 * i + 1] \in Nodes
        BY <1>1, <1>5, <3>1
      <4>2. RankOf(h[2 * i + 1]) \in Int
        BY <1>5, <4>1 DEF RanksAreNumbers
      <4> QED
        BY <2>3, <2>4, <3>1, <4>2 DEF Child
    <3>2. CASE ~(2 * i + 1 <= Len(h) /\ RankOf(h[2 * i + 1]) < RankOf(h[2 * i]))
      BY <2>3, <2>4, <3>2 DEF Child
    <3> QED
      BY <3>1, <3>2
  <2>5. CASE j = 2 * i + 1
    BY <2>3, <2>5 DEF Child
  <2> QED
    BY <2>1, <2>4, <2>5
<1> QED
  BY <1>2, <1>3, <1>4, <1>5

(* pop computes such a family of heaps.                                    *)
LEMMA PopFalls ==
  ASSUME NEW heap \in Seq(Nodes), NEW rest, NEW tail, Len(heap) > 1,
         rest = SubSeq(heap, 1, Len(heap) - 1), tail = heap[Len(heap)]
  PROVE  \E f \in [1..Len(rest) -> [1..Len(rest) -> Nodes]] :
            Falls(f, rest, tail) /\ Popped(heap) = f[1]
<1> DEFINE L == Len(rest)
           X == 1..L
           Y == [X -> Nodes]
           stop == {i \in X : 2 * i > L \/ RankOf(tail) <= RankOf(rest[Child(rest, i)])}
           before == [i \in X |-> IF i \in stop THEN i ELSE Child(rest, i)]
           m == [i \in X |-> L - i]
           base == [i \in X |-> [rest EXCEPT ![i] = tail]]
           value == [i \in X |-> IF i \in stop THEN tail ELSE rest[Child(rest, i)]]
           then == [z \in X \X Y |-> [z[2] EXCEPT ![z[1]] = value[z[1]]]]
<1>1. /\ Len(heap) \in Nat /\ L = Len(heap) - 1 /\ L \in Nat \ {0}
      /\ rest \in Seq(Nodes) /\ rest \in Y /\ tail \in Nodes /\ DOMAIN rest = X /\ rest # << >>
      /\ \A i \in X : rest[i] \in Nodes
  <2>1. Len(heap) \in Nat /\ rest \in Seq(Nodes) /\ Len(rest) = Len(heap) - 1 /\ tail \in Nodes
    OBVIOUS
  <2>2. rest \in Y /\ DOMAIN rest = X
    BY <2>1, LenProperties
  <2>3. L \in Nat \ {0} /\ rest # << >>
    <3>1. L \in Nat \ {0}
      BY <2>1
    <3>2. Len(<< >>) = 0
      OBVIOUS
    <3> QED
      BY <3>1, <3>2
  <2>4. \A i \in X : rest[i] \in Nodes
    BY <2>2
  <2> QED
    BY <2>1, <2>2, <2>3, <2>4
<1>2. \A i \in X \ stop : /\ Child(rest, i) \in X /\ i < Child(rest, i)
                          /\ i \in Int /\ Child(rest, i) \in Int
  <2> SUFFICES ASSUME NEW i \in X \ stop
               PROVE  /\ Child(rest, i) \in X /\ i < Child(rest, i)
                      /\ i \in Int /\ Child(rest, i) \in Int
    OBVIOUS
  <2>1. i \in 1..Len(rest) /\ Len(rest) \in Nat /\ ~(2 * i > Len(rest))
    BY <1>1
  <2>2. Child(rest, i) \in 1..Len(rest) /\ i < Child(rest, i)
    BY <2>1, Children
  <2> QED
    BY <1>1, <2>1, <2>2
<1>3. m \in [X -> 0..L] /\ base \in [X -> Y]
  BY <1>1
<1>4. before \in [X -> X] /\ \A i \in X \ stop : before[i] = Child(rest, i) /\ m[before[i]] < m[i]
  <2>1. before \in [X -> X] /\ \A i \in X \ stop : before[i] = Child(rest, i)
    <3> HIDE DEF X, stop
    <3> QED
      BY <1>2
  <2>2. \A i \in X \ stop : m[before[i]] = L - Child(rest, i) /\ m[i] = L - i
    <3> HIDE DEF X, stop, before
    <3> QED
      BY <1>2, <2>1
  <2> HIDE DEF X, stop, before, m
  <2> QED
    BY <1>1, <1>2, <2>1, <2>2
<1>5. then \in [X \X Y -> Y]
  <2>1. \A i \in X : value[i] \in Nodes
    <3> HIDE DEF X
    <3> QED
      BY <1>1, <1>2
  <2> HIDE DEF X, value
  <2> SUFFICES ASSUME NEW i \in X, NEW h \in Y PROVE [h EXCEPT ![i] = value[i]] \in Y
    OBVIOUS
  <2> QED
    BY <2>1
<1>6. \E f \in [X -> Y] : \A i \in X : f[i] = IF i \in stop THEN base[i] ELSE then[<<i, f[before[i]]>>]
  <2>1. L \in Nat /\ m \in [X -> 0..L] /\ before \in [X -> X] /\ base \in [X -> Y]
    BY <1>1, <1>3, <1>4
  <2>2. \A i \in X \ stop : m[before[i]] < m[i]
    BY <1>4
  <2>3. Grounded(X, Y, L, m, before, stop, base, then)
    BY <1>5, <2>1, <2>2, ZenonT(40) DEF Grounded
  <2> HIDE DEF L, X, Y, stop, before, m, base, then
  <2> QED
    BY <2>3, Recursion
<1>7. PICK f \in [X -> Y] : \A i \in X : f[i] = IF i \in stop THEN base[i] ELSE then[<<i, f[before[i]]>>]
  BY <1>6, ZenonT(40)
<1>8. \A i \in X : f[i] = IF 2 * i > L \/ RankOf(tail) <= RankOf(rest[Child(rest, i)]) THEN [rest EXCEPT ![i] = tail]
                           ELSE [f[Child(rest, i)] EXCEPT ![i] = rest[Child(rest, i)]]
  <2> SUFFICES ASSUME NEW i \in X
               PROVE  f[i] = IF 2 * i > L \/ RankOf(tail) <= RankOf(rest[Child(rest, i)])
                             THEN [rest EXCEPT ![i] = tail]
                             ELSE [f[Child(rest, i)] EXCEPT ![i] = rest[Child(rest, i)]]
    BY ZenonT(40)
  <2>1. CASE i \in stop
    BY <1>7, <2>1, ZenonT(40)
  <2>2. CASE i \notin stop
    <3>1. f[i] = then[<<i, f[Child(rest, i)]>>] /\ f[Child(rest, i)] \in Y
      BY <1>2, <1>4, <1>7, <2>2, ZenonT(40)
    <3>2. then[<<i, f[Child(rest, i)]>>] = [f[Child(rest, i)] EXCEPT ![i] = rest[Child(rest, i)]]
      BY <2>2, <3>1
    <3> QED
      BY <2>2, <3>1, <3>2, ZenonT(40)
  <2> QED
    BY <2>1, <2>2
<1> DEFINE Down(g) == [i \in DOMAIN rest |->
                          IF 2 * i > Len(rest) \/ RankOf(tail) <= RankOf(rest[Child(rest, i)])
                          THEN [rest EXCEPT ![i] = tail]
                          ELSE [g[Child(rest, i)] EXCEPT ![i] = rest[Child(rest, i)]]]
           down == CHOOSE g : g = Down(g)
<1>9. f = Down(f)
  BY <1>1, <1>8
<1>10. down = Down(down)
  <2> HIDE DEF Down
  <2> QED
    BY <1>9
<1>11. Popped(heap) = down[1]
  BY <1>1 DEF Popped
<1>12. \A i \in X : down[i] = f[i]
  <2> DEFINE G == {i \in X : down[i] = f[i]}
  <2>1. ASSUME NEW i \in X, \A j \in X : m[j] < m[i] => j \in G PROVE i \in G
    <3>1. down[i] = IF 2 * i > L \/ RankOf(tail) <= RankOf(rest[Child(rest, i)]) THEN [rest EXCEPT ![i] = tail]
                    ELSE [down[Child(rest, i)] EXCEPT ![i] = rest[Child(rest, i)]]
      BY <1>1, <1>10, ZenonT(40)
    <3>2. CASE i \in stop
      <4> HIDE DEF down
      <4> QED
        BY <1>8, <3>1, <3>2
    <3>3. CASE i \notin stop
      <4>1. Child(rest, i) \in G
        <5>1. Child(rest, i) \in X /\ m[Child(rest, i)] < m[i]
          BY <1>2, <1>4, <3>3
        <5> QED
          BY <2>1, <5>1
      <4>2. down[Child(rest, i)] = f[Child(rest, i)]
        BY <4>1
      <4> HIDE DEF down
      <4> QED
        BY <1>8, <3>1, <3>3, <4>2
    <3> QED
      BY <3>2, <3>3
  <2>2. Grows(X, L, m, G)
    <3> HIDE DEF G, m
    <3> QED
      BY <1>1, <1>3, <2>1 DEF Grows
  <2>3. X \subseteq G
    <3> HIDE DEF G, m, X, L
    <3> QED
      BY <2>2, Growing
  <2> HIDE DEF down
  <2> QED
    BY <2>3
<1>13. Popped(heap) = f[1]
  <2>1. 1 \in X
    BY <1>1
  <2> HIDE DEF down, X, L
  <2> QED
    BY <2>1, <1>11, <1>12
<1>14. Falls(f, rest, tail)
  BY <1>8 DEF Falls
<1> QED
  BY <1>13, <1>14

(* The places of a heap hold nodes.                                        *)
LEMMA HeapIsTyped ==
  ASSUME RanksAreNumbers, NEW h \in Seq(Nodes)
  PROVE  Len(h) \in Nat /\ \A i \in 1..Len(h) : h[i] \in Nodes /\ RankOf(h[i]) \in Int
<1>1. Len(h) \in Nat /\ \A i \in 1..Len(h) : h[i] \in Nodes
  OBVIOUS
<1> QED
  BY <1>1 DEF RanksAreNumbers

(* The first node of a heap is the least of them.                          *)
LEMMA HeapMin ==
  ASSUME RanksAreNumbers, NEW heap, heap \in Seq(Nodes), Ordered(heap), NEW i \in 1..Len(heap)
  PROVE  RankOf(heap[1]) <= RankOf(heap[i])
<1> DEFINE X == 1..Len(heap)
           m == [k \in X |-> k]
           G == {k \in X : RankOf(heap[1]) <= RankOf(heap[k])}
<1>1. Len(heap) \in Nat /\ \A k \in X : heap[k] \in Nodes /\ RankOf(heap[k]) \in Int
  BY HeapIsTyped
<1>2. ASSUME NEW k \in X, \A j \in X : m[j] < m[k] => j \in G PROVE k \in G
  <2>1. CASE k = 1
    BY <1>1, <2>1
  <2>2. CASE k # 1
    <3>1. k \in Nat \ {0, 1} /\ k <= Len(heap)
      BY <1>1, <2>2
    <3>2. k \div 2 \in Nat \ {0} /\ k \div 2 < k
      BY <3>1, Halves
    <3>3. k \div 2 \in X /\ k \in 2..Len(heap) /\ 1 \in X
      BY <1>1, <3>1, <3>2
    <3>4. k \div 2 \in G
      BY <1>2, <3>2, <3>3
    <3>5. RankOf(heap[k \div 2]) <= RankOf(heap[k])
      BY <3>3 DEF Ordered
    <3>6. RankOf(heap[k \div 2]) \in Int /\ RankOf(heap[k]) \in Int /\ RankOf(heap[1]) \in Int
      BY <1>1, <3>3
    <3> QED
      BY <3>4, <3>5, <3>6
  <2> QED
    BY <2>1, <2>2
<1>3. Grows(X, Len(heap), m, G)
  <2>1. m \in [X -> 0..Len(heap)]
    BY <1>1
  <2> HIDE DEF G, m, X
  <2> QED
    BY <1>1, <1>2, <2>1 DEF Grows
<1>4. X \subseteq G
  <2> HIDE DEF G, m, X
  <2> QED
    BY <1>3, Growing
<1> QED
  BY <1>4

(* The hole at i, when the last node is below it.                          *)
Fallen(g, i, rest, tail) ==
  /\ \A k \in 1..Len(rest) : k < i => g[k] = rest[k]
  /\ \A k \in 1..Len(rest) : k >= i => RankOf(rest[k]) <= RankOf(g[k])
  /\ \A j \in 2..Len(rest) : j \div 2 >= i => RankOf(g[j \div 2]) <= RankOf(g[j])
  /\ \E k \in i..Len(rest) : g[k] = tail
  /\ \A l \in 1..Len(rest) : l # i => \E k \in 1..Len(rest) : g[k] = rest[l]

(* Every one of them is a heap once the tail is in it.                     *)
LEMMA HoleFalls ==
  ASSUME RanksAreNumbers, NEW rest, HeapOK(rest), NEW tail \in Nodes,
         NEW f \in [1..Len(rest) -> [1..Len(rest) -> Nodes]], Falls(f, rest, tail),
         NEW i \in 1..Len(rest), RankOf(rest[i]) <= RankOf(tail),
         ~(2 * i > Len(rest)) /\ ~(RankOf(tail) <= RankOf(rest[Child(rest, i)]))
            => Fallen(f[Child(rest, i)], Child(rest, i), rest, tail)
  PROVE  Fallen(f[i], i, rest, tail)
<1> DEFINE L == Len(rest)
           c == Child(rest, i)
<1>1. /\ rest \in Seq(Nodes) /\ L \in Nat /\ rest \in [1..L -> Nodes]
      /\ i \in 1..L /\ i \in Nat \ {0} /\ i <= L
      /\ \A k \in 1..L : rest[k] \in Nodes /\ RankOf(rest[k]) \in Int
  <2>1. rest \in Seq(Nodes) /\ L \in Nat
    BY DEF HeapOK
  <2>2. \A k \in 1..L : rest[k] \in Nodes /\ RankOf(rest[k]) \in Int
    BY <2>1, HeapIsTyped
  <2>3. rest \in [1..L -> Nodes]
    BY <2>1, LenProperties
  <2> QED
    BY <2>1, <2>2, <2>3
<1>2. \A k, l \in 1..L : rest[k] = rest[l] => k = l
  BY DEF HeapOK, Distinct
<1>3. RankOf(tail) \in Int
  BY DEF RanksAreNumbers
<1>4. \A j \in 2..L : RankOf(rest[j \div 2]) <= RankOf(rest[j])
  BY DEF HeapOK, Ordered
<1>5. f[i] = IF 2 * i > L \/ RankOf(tail) <= RankOf(rest[c]) THEN [rest EXCEPT ![i] = tail]
             ELSE [f[c] EXCEPT ![i] = rest[c]]
  BY DEF Falls
<1>6. \A j \in 2..L : j \in 1..L /\ j \div 2 \in 1..L /\ j \div 2 < j /\ j \in Int
  <2> SUFFICES ASSUME NEW j \in 2..L
               PROVE  j \in 1..L /\ j \div 2 \in 1..L /\ j \div 2 < j /\ j \in Int
    OBVIOUS
  <2>1. j \in Nat \ {0, 1} /\ j <= L
    BY <1>1
  <2>2. j \div 2 \in Nat \ {0} /\ j \div 2 < j
    BY <2>1, Halves
  <2> QED
    BY <1>1, <2>1, <2>2
<1>7. ~(2 * i > L) => /\ c \in 1..L /\ i < c /\ c \in Int /\ c \div 2 = i
                      /\ \A j \in 1..L : j \div 2 = i => RankOf(rest[c]) <= RankOf(rest[j])
  <2> SUFFICES ASSUME ~(2 * i > L)
               PROVE  /\ c \in 1..L /\ i < c /\ c \in Int /\ c \div 2 = i
                      /\ \A j \in 1..L : j \div 2 = i => RankOf(rest[c]) <= RankOf(rest[j])
    OBVIOUS
  <2>1. c \in 1..L /\ i < c /\ c \div 2 = i
    BY <1>1, Children
  <2>2. \A j \in 1..L : j \div 2 = i => RankOf(rest[c]) <= RankOf(rest[j])
    BY <1>1, Children
  <2> QED
    BY <1>1, <2>1, <2>2
<1> HIDE DEF L, c
<1>8. CASE 2 * i > L \/ RankOf(tail) <= RankOf(rest[c])
  <2>1. f[i][i] = tail /\ \A k \in 1..L : k # i => f[i][k] = rest[k]
    <3>1. f[i] = [rest EXCEPT ![i] = tail]
      BY <1>5, <1>8
    <3> QED
      BY <1>1, <3>1
  <2>2. \A k \in 1..L : k < i => f[i][k] = rest[k]
    BY <1>1, <2>1
  <2>3. \A k \in 1..L : RankOf(rest[k]) <= RankOf(f[i][k])
    BY <1>1, <2>1
  <2>4. ASSUME NEW j \in 2..L, j \div 2 >= i PROVE RankOf(f[i][j \div 2]) <= RankOf(f[i][j])
    <3>1. j \in 1..L /\ j # i /\ j \div 2 \in 1..L
      BY <1>1, <1>6, <2>4
    <3>2. CASE j \div 2 = i
      <4>1. ~(2 * i > L)
        <5>1. j \in Nat \ {0} /\ j <= L
          BY <1>1, <3>1
        <5>2. j = 2 * i \/ j = 2 * i + 1
          BY <1>1, <3>2, <5>1, Halves
        <5> QED
          BY <1>1, <5>1, <5>2
      <4>2. RankOf(tail) <= RankOf(rest[c]) /\ RankOf(rest[c]) <= RankOf(rest[j])
        BY <1>7, <1>8, <3>1, <3>2, <4>1
      <4>3. RankOf(rest[c]) \in Int /\ RankOf(rest[j]) \in Int
        BY <1>1, <1>7, <3>1, <4>1
      <4> QED
        BY <1>3, <2>1, <3>1, <3>2, <4>2, <4>3, SMTT(30)
    <3>3. CASE j \div 2 # i
      BY <1>4, <2>1, <3>1, <3>3
    <3> QED
      BY <3>2, <3>3
  <2>5. \E k \in i..L : f[i][k] = tail
    BY <1>1, <2>1
  <2> QED
    BY <2>1, <2>2, <2>3, <2>4, <2>5 DEF Fallen, L
<1>9. CASE ~(2 * i > L \/ RankOf(tail) <= RankOf(rest[c]))
  <2>1. /\ c \in 1..L /\ i < c /\ c \in Int /\ c \div 2 = i
        /\ \A j \in 1..L : j \div 2 = i => RankOf(rest[c]) <= RankOf(rest[j])
    BY <1>7, <1>9
  <2>2. Fallen(f[c], c, rest, tail)
    BY <1>9 DEF c, L
  <2>3. /\ \A k \in 1..L : k < c => f[c][k] = rest[k]
        /\ \A k \in 1..L : k >= c => RankOf(rest[k]) <= RankOf(f[c][k])
        /\ \A j \in 2..L : j \div 2 >= c => RankOf(f[c][j \div 2]) <= RankOf(f[c][j])
        /\ \E k \in c..L : f[c][k] = tail
        /\ \A l \in 1..L : l # c => \E k \in 1..L : f[c][k] = rest[l]
    BY <2>2 DEF Fallen, L
  <2>4. f[c] \in [1..L -> Nodes] /\ \A k \in 1..L : RankOf(f[c][k]) \in Int
    <3>1. f[c] \in [1..L -> Nodes]
      BY <2>1 DEF L
    <3> QED
      BY <3>1 DEF RanksAreNumbers
  <2>5. f[i][i] = rest[c] /\ \A k \in 1..L : k # i => f[i][k] = f[c][k]
    <3>1. f[i] = [f[c] EXCEPT ![i] = rest[c]]
      BY <1>5, <1>9
    <3> QED
      BY <1>1, <2>4, <3>1
  <2>6. ASSUME NEW k \in 1..L, k < i PROVE f[i][k] = rest[k]
    <3>1. k # i /\ k < c
      BY <1>1, <2>1, <2>6
    <3> QED
      BY <2>3, <2>5, <3>1
  <2>7. ASSUME NEW k \in 1..L, k >= i PROVE RankOf(rest[k]) <= RankOf(f[i][k])
    <3>1. CASE k = i
      <4>1. c \in 2..L
        BY <1>1, <2>1
      <4> QED
        BY <1>4, <2>1, <2>5, <3>1, <4>1
    <3>2. CASE k # i /\ k >= c
      BY <2>3, <2>5, <3>2
    <3>3. CASE k # i /\ ~(k >= c)
      <4>1. f[i][k] = rest[k]
        <5>1. k < c
          BY <1>1, <2>1, <3>3
        <5> QED
          BY <2>3, <2>5, <3>3, <5>1
      <4> QED
        BY <1>1, <4>1
    <3> QED
      BY <3>1, <3>2, <3>3
  <2>8. ASSUME NEW j \in 2..L, j \div 2 >= i PROVE RankOf(f[i][j \div 2]) <= RankOf(f[i][j])
    <3>1. j \in 1..L /\ j # i /\ j \div 2 \in 1..L /\ j >= i /\ j \in Int /\ j \div 2 \in Int
      BY <1>1, <1>6, <2>8
    <3>2. RankOf(rest[j]) <= RankOf(f[i][j]) /\ f[i][j] = f[c][j]
      BY <2>5, <2>7, <3>1
    <3>3. RankOf(rest[j]) \in Int /\ RankOf(rest[j \div 2]) \in Int /\ RankOf(f[c][j]) \in Int /\ RankOf(rest[c]) \in Int
      BY <1>1, <2>1, <2>4, <3>1
    <3>4. CASE j \div 2 = i
      <4>1. RankOf(rest[c]) <= RankOf(rest[j])
        BY <2>1, <3>1, <3>4
      <4> QED
        BY <2>5, <3>2, <3>3, <3>4, <4>1
    <3>5. CASE j \div 2 # i /\ j \div 2 >= c
      BY <2>3, <2>5, <3>1, <3>5
    <3>6. CASE j \div 2 # i /\ ~(j \div 2 >= c)
      <4>1. f[i][j \div 2] = rest[j \div 2]
        BY <2>1, <2>3, <2>5, <3>1, <3>6
      <4>2. RankOf(rest[j \div 2]) <= RankOf(rest[j])
        BY <1>4
      <4> QED
        BY <3>2, <3>3, <4>1, <4>2
    <3> QED
      BY <3>4, <3>5, <3>6
  <2>9. \E k \in i..L : f[i][k] = tail
    <3>1. PICK k \in c..L : f[c][k] = tail
      BY <2>3
    <3>2. k \in i..L /\ k \in 1..L /\ k # i
      BY <1>1, <2>1
    <3> QED
      BY <2>5, <3>1, <3>2
  <2>10. ASSUME NEW l \in 1..L, l # i PROVE \E k \in 1..L : f[i][k] = rest[l]
    <3>1. CASE l = c
      BY <1>1, <2>5, <3>1
    <3>2. CASE l # c
      <4>1. PICK k \in 1..L : f[c][k] = rest[l]
        BY <2>3, <3>2
      <4>2. k # i
        <5>1. f[c][i] = rest[i]
          BY <1>1, <2>1, <2>3
        <5> QED
          BY <1>1, <1>2, <2>10, <4>1, <5>1
      <4> QED
        BY <2>5, <4>1, <4>2
    <3> QED
      BY <3>1, <3>2
  <2> QED
    BY <2>6, <2>7, <2>8, <2>9, <2>10 DEF Fallen, L
<1> QED
  BY <1>8, <1>9

(* pop: the heap is a heap without its first node.                         *)
LEMMA PoppedIsHeap ==
  ASSUME RanksAreNumbers, NEW heap, HeapOK(heap), heap # << >>
  PROVE  HeapOK(Popped(heap)) /\ Elements(Popped(heap)) = Elements(heap) \ {heap[1]}
<1> DEFINE L == Len(heap) - 1
           rest == SubSeq(heap, 1, L)
           tail == heap[Len(heap)]
<1>1. /\ heap \in Seq(Nodes) /\ Len(heap) \in Nat \ {0}
      /\ rest \in Seq(Nodes) /\ Len(rest) = L /\ L \in Nat
      /\ tail \in Nodes
      /\ \A k \in 1..L : rest[k] = heap[k]
  <2>1. heap \in Seq(Nodes) /\ Len(heap) \in Nat \ {0}
    BY DEF HeapOK
  <2>2. rest \in Seq(Nodes) /\ Len(rest) = L /\ L \in Nat
    <3>1. L \in Nat /\ L \in 0..Len(heap)
      BY <2>1
    <3> HIDE DEF L
    <3> QED
      BY <2>1, <3>1, SubSeqProperties
  <2>3. tail \in Nodes
    BY <2>1
  <2>4. \A k \in 1..L : rest[k] = heap[k]
    BY <2>1
  <2> QED
    BY <2>1, <2>2, <2>3, <2>4
<1>2. \A i, j \in 1..Len(heap) : heap[i] = heap[j] => i = j
  BY DEF HeapOK, Distinct
<1>3. CASE L = 0
  <2>1. rest = << >>
    <3>1. rest \in Seq(Nodes) /\ Len(rest) = 0
      BY <1>1, <1>3
    <3> HIDE DEF rest
    <3> QED
      BY <3>1
  <2>2. Popped(heap) = << >>
    BY <2>1 DEF Popped
  <2>3. Elements(heap) = {heap[1]}
    <3>1. 1..Len(heap) = {1}
      <4>1. Len(heap) = 1
        BY <1>1, <1>3
      <4> QED
        BY <4>1
    <3> QED
      BY <3>1 DEF Elements, Values
  <2>4. Len(<< >>) = 0 /\ << >> \in Seq(Nodes)
    OBVIOUS
  <2> QED
    BY <2>2, <2>3, <2>4 DEF HeapOK, Distinct, Ordered, Elements, Values
<1>4. CASE L # 0
  <2>1. Len(heap) > 1 /\ L \in Nat \ {0} /\ 1 \in 1..L
    BY <1>1, <1>4
  <2>2. PICK f \in [1..Len(rest) -> [1..Len(rest) -> Nodes]] : Falls(f, rest, tail) /\ Popped(heap) = f[1]
    BY <1>1, <2>1, PopFalls
  <2> HIDE DEF rest, tail
  <2>3. \A i \in 1..Len(heap) : RankOf(heap[1]) <= RankOf(heap[i])
    BY HeapMin DEF HeapOK
  <2>4. HeapOK(rest)
    <3>1. Distinct(rest)
      BY <1>1, <1>2 DEF Distinct
    <3>2. Ordered(rest)
      <4> SUFFICES ASSUME NEW j \in 2..L PROVE RankOf(rest[j \div 2]) <= RankOf(rest[j])
        BY <1>1 DEF Ordered
      <4>1. j \in Nat \ {0, 1} /\ j <= L
        BY <1>1
      <4>2. j \div 2 \in Nat \ {0} /\ j \div 2 < j
        BY <4>1, Halves
      <4>3. j \in 1..L /\ j \div 2 \in 1..L /\ j \in 2..Len(heap)
        BY <1>1, <4>1, <4>2
      <4>4. RankOf(heap[j \div 2]) <= RankOf(heap[j])
        BY <4>3 DEF HeapOK, Ordered
      <4> QED
        BY <1>1, <4>3, <4>4
    <3> QED
      BY <1>1, <3>1, <3>2 DEF HeapOK
  <2>5. \A i \in 1..L : RankOf(rest[i]) <= RankOf(tail) => Fallen(f[i], i, rest, tail)
    <3> DEFINE m == [i \in 1..L |-> L - i]
               G == {i \in 1..L : RankOf(rest[i]) <= RankOf(tail) => Fallen(f[i], i, rest, tail)}
    <3>1. ASSUME NEW i \in 1..L, \A j \in 1..L : m[j] < m[i] => j \in G PROVE i \in G
      <4>1. SUFFICES ASSUME RankOf(rest[i]) <= RankOf(tail) PROVE Fallen(f[i], i, rest, tail)
        OBVIOUS
      <4>2. ASSUME ~(2 * i > Len(rest)), ~(RankOf(tail) <= RankOf(rest[Child(rest, i)]))
            PROVE  Fallen(f[Child(rest, i)], Child(rest, i), rest, tail)
        <5>1. i \in 1..Len(rest) /\ Len(rest) \in Nat
          BY <1>1
        <5>2. Child(rest, i) \in 1..L /\ i < Child(rest, i) /\ i \in Int /\ Child(rest, i) \in Int
          BY <1>1, <4>2, <5>1, Children
        <5>3. m[Child(rest, i)] < m[i]
          BY <1>1, <5>2
        <5>4. Child(rest, i) \in G
          BY <3>1, <5>2, <5>3
        <5>5. RankOf(rest[Child(rest, i)]) \in Int /\ RankOf(tail) \in Int
          <6>1. rest[Child(rest, i)] \in Nodes
            BY <1>1, <5>2
          <6> QED
            BY <1>1, <6>1 DEF RanksAreNumbers
        <5>6. RankOf(rest[Child(rest, i)]) <= RankOf(tail)
          BY <4>2, <5>5
        <5> QED
          BY <5>4, <5>6
      <4> HIDE DEF G, m, L
      <4> QED
        BY <1>1, <2>2, <2>4, <4>1, <4>2, HoleFalls
    <3>2. Grows(1..L, L, m, G)
      <4>1. m \in [1..L -> 0..L]
        BY <1>1
      <4> HIDE DEF G, m, L
      <4> QED
        BY <1>1, <3>1, <4>1 DEF Grows
    <3>3. 1..L \subseteq G
      <4> HIDE DEF G, m, L
      <4> QED
        BY <3>2, Growing
    <3> QED
      BY <3>3
  <2> DEFINE g == Popped(heap)
             base == [rest EXCEPT ![1] = tail]
  <2>6. Fallen(g, 1, rest, tail)
    <3>1. RankOf(rest[1]) <= RankOf(tail)
      BY <1>1, <2>1, <2>3 DEF tail
    <3> QED
      BY <2>1, <2>2, <2>5, <3>1
  <2>7. rest \in [1..L -> Nodes] /\ g \in [1..L -> Nodes]
    <3>1. rest \in [1..L -> Nodes]
      BY <1>1, LenProperties
    <3> QED
      BY <1>1, <2>1, <2>2, <3>1
  <2>8. g \in Seq(Nodes) /\ Len(g) = L
    <3> HIDE DEF g, L
    <3> QED
      BY <1>1, <2>7
  <2>9. base \in [1..L -> Nodes] /\ base[1] = tail /\ \A k \in 1..L : k # 1 => base[k] = rest[k]
    BY <1>1, <2>1, <2>7
  <2> HIDE DEF base, g
  <2>10. Values(base, L) = Elements(heap) \ {heap[1]}
    <3>1. tail \in Elements(heap) /\ tail # heap[1]
      BY <1>1, <1>2, <2>1 DEF Elements, Values, tail
    <3>2. ASSUME NEW k \in 1..L, k # 1 PROVE base[k] \in Elements(heap) /\ base[k] # heap[1]
      <4>1. k \in 1..Len(heap) /\ 1 \in 1..Len(heap)
        BY <1>1, <2>1
      <4>2. base[k] = heap[k]
        BY <1>1, <2>9, <3>2
      <4> QED
        BY <1>2, <3>2, <4>1, <4>2 DEF Elements, Values
    <3>3. ASSUME NEW k \in 1..Len(heap), heap[k] # heap[1] PROVE heap[k] \in Values(base, L)
      <4>1. k = Len(heap) \/ (k \in 1..L /\ k # 1)
        BY <1>1, <3>3
      <4>2. CASE k = Len(heap)
        BY <2>1, <2>9, <4>2 DEF Values, tail
      <4>3. CASE k \in 1..L /\ k # 1
        BY <1>1, <2>9, <4>3 DEF Values
      <4> QED
        BY <4>1, <4>2, <4>3
    <3> QED
      BY <2>9, <3>1, <3>2, <3>3 DEF Elements, Values
  <2>11. \A i, j \in 1..L : base[i] = base[j] => i = j
    <3>1. \A k \in 1..L : k # 1 => base[k] = heap[k] /\ k \in 1..Len(heap) /\ k # Len(heap)
      BY <1>1, <2>9
    <3>2. base[1] = heap[Len(heap)] /\ Len(heap) \in 1..Len(heap)
      BY <1>1, <2>9 DEF tail
    <3> QED
      BY <1>2, <3>1, <3>2
  <2>12. (\A i, j \in 1..L : g[i] = g[j] => i = j) /\ Values(g, L) = Values(base, L)
    <3>1. \A l \in 1..L : \E k \in 1..L : g[k] = base[l]
      <4> SUFFICES ASSUME NEW l \in 1..L PROVE \E k \in 1..L : g[k] = base[l]
        OBVIOUS
      <4>1. CASE l = 1
        BY <1>1, <2>6, <2>9, <4>1 DEF Fallen
      <4>2. CASE l # 1
        BY <1>1, <2>6, <2>9, <4>2 DEF Fallen
      <4> QED
        BY <4>1, <4>2
    <3>2. Rearranges(L, Nodes, base, g)
      BY <1>1, <2>7, <2>9, <2>11, <3>1 DEF Rearranges
    <3> HIDE DEF L
    <3> QED
      BY <3>2, Rearranged
  <2>13. Ordered(g)
    <3> SUFFICES ASSUME NEW j \in 2..L PROVE RankOf(g[j \div 2]) <= RankOf(g[j])
      BY <2>8 DEF Ordered
    <3>1. j \in Nat \ {0, 1}
      BY <1>1
    <3>2. j \div 2 >= 1
      BY <3>1, Halves
    <3> QED
      BY <1>1, <2>6, <3>2 DEF Fallen
  <2> QED
    BY <2>8, <2>10, <2>12, <2>13 DEF HeapOK, Distinct, Elements, g
<1> QED
  BY <1>3, <1>4

(* push leaves nodes in the heap.                                          *)
LEMMA PushedIsTyped == ASSUME NEW h \in Seq(Nodes), NEW n \in Nodes PROVE Pushed(h, n) \in Seq(Nodes)
<1> DEFINE L == Len(h) + 1
<1>1. L \in Nat /\ L \in 1..L
  OBVIOUS
<1>2. PICK f \in [1..L -> [1..L -> Nodes]] : Rises(f, h, n) /\ Pushed(h, n) = f[L]
  BY PushRises
<1> HIDE DEF L
<1>3. Pushed(h, n) \in [1..L -> Nodes]
  BY <1>1, <1>2
<1> QED
  BY <1>1, <1>3

(* The nodes at the first i places of a sequence.                          *)
AtPlaces(nodes, places, i) == {nodes[k] : k \in {p \in places : p <= i}}
Chosen(nodes, places) == {nodes[i] : i \in places}

(* The nodes that are pushed differ, and none is in the heap already.      *)
Pushable(heap, nodes, places) ==
  /\ HeapOK(heap) /\ Len(nodes) \in Nat /\ places \subseteq 1..Len(nodes)
  /\ \A i \in places : nodes[i] \in Nodes /\ nodes[i] \notin Elements(heap)
  /\ \A i, j \in places : nodes[i] = nodes[j] => i = j

(* Pushing them one after another adds them all.                           *)
LEMMA PushedAtIsHeap ==
  ASSUME RanksAreNumbers, NEW heap, NEW nodes, NEW places, Pushable(heap, nodes, places)
  PROVE  /\ HeapOK(PushedAt(heap, nodes, places))
         /\ Elements(PushedAt(heap, nodes, places)) = Elements(heap) \cup Chosen(nodes, places)
<1> USE DEF Pushable
<1> DEFINE L == Len(nodes)
           X == 0..L
           Y == Seq(Nodes)
           stop == {0}
           before == [i \in X |-> IF i = 0 THEN 0 ELSE i - 1]
           m == [i \in X |-> i]
           base == [i \in X |-> heap]
           then == [z \in X \X Y |-> IF z[1] \in places THEN Pushed(z[2], nodes[z[1]]) ELSE z[2]]
<1>1. L \in Nat /\ heap \in Y
  BY DEF HeapOK
<1>2. m \in [X -> 0..L] /\ before \in [X -> X] /\ base \in [X -> Y]
  BY <1>1
<1>3. then \in [X \X Y -> Y]
  <2> SUFFICES ASSUME NEW i \in X, NEW h \in Y
               PROVE  (IF i \in places THEN Pushed(h, nodes[i]) ELSE h) \in Y
    OBVIOUS
  <2> QED
    BY PushedIsTyped
<1>4. \A i \in X \ stop : i - 1 \in X /\ before[i] = i - 1 /\ m[before[i]] < m[i]
  BY <1>1
<1>5. PICK f \in [X -> Y] : \A i \in X : f[i] = IF i \in stop THEN base[i] ELSE then[<<i, f[before[i]]>>]
  <2>1. Grounded(X, Y, L, m, before, stop, base, then)
    <3> HIDE DEF X, Y, L, m, before, stop, base, then
    <3> QED
      BY <1>1, <1>2, <1>3, <1>4 DEF Grounded
  <2> HIDE DEF L, X, Y, stop, before, m, base, then
  <2> QED
    BY <2>1, Recursion
<1>6. \A i \in X : f[i] = IF i = 0 THEN heap
                        ELSE IF i \in places THEN Pushed(f[i - 1], nodes[i]) ELSE f[i - 1]
  <2> SUFFICES ASSUME NEW i \in X
               PROVE  f[i] = IF i = 0 THEN heap
                             ELSE IF i \in places THEN Pushed(f[i - 1], nodes[i]) ELSE f[i - 1]
    OBVIOUS
  <2>1. CASE i = 0
    BY <1>5, <2>1
  <2>2. CASE i # 0
    <3>1. f[i] = then[<<i, f[i - 1]>>] /\ i - 1 \in X
      BY <1>4, <1>5, <2>2
    <3>2. f[i - 1] \in Y
      BY <3>1
    <3> QED
      BY <2>2, <3>1, <3>2
  <2> QED
    BY <2>1, <2>2
<1> DEFINE All(g) == [i \in 0..Len(nodes) |->
                         IF i = 0 THEN heap
                         ELSE IF i \in places THEN Pushed(g[i - 1], nodes[i]) ELSE g[i - 1]]
           all == CHOOSE g : g = All(g)
<1>7. f = All(f)
  BY <1>6
<1>8. all = All(all)
  <2> HIDE DEF All
  <2> QED
    BY <1>7
<1>9. PushedAt(heap, nodes, places) = all[L]
  BY DEF PushedAt
<1> DEFINE OK(i) == HeapOK(all[i]) /\ Elements(all[i]) = Elements(heap) \cup AtPlaces(nodes, places, i)
           G == {i \in X : OK(i)}
<1>10. ASSUME NEW i \in X, \A j \in X : m[j] < m[i] => j \in G PROVE i \in G
  <2>1. all[i] = IF i = 0 THEN heap
                 ELSE IF i \in places THEN Pushed(all[i - 1], nodes[i]) ELSE all[i - 1]
    BY <1>8
  <2> HIDE DEF all
  <2>2. CASE i = 0
    <3>1. AtPlaces(nodes, places, i) = {}
      BY <1>1, <2>2 DEF AtPlaces
    <3> QED
      BY <2>1, <2>2, <3>1
  <2>3. CASE i # 0
    <3>1. i - 1 \in X /\ OK(i - 1)
      <4>1. i - 1 \in X /\ m[i - 1] < m[i]
        BY <1>4, <2>3
      <4> HIDE DEF OK, m
      <4> QED
        BY <1>10, <4>1
    <3>2. CASE i \in places
      <4>1. all[i] = Pushed(all[i - 1], nodes[i]) /\ nodes[i] \in Nodes
        BY <2>1, <2>3, <3>2
      <4>2. nodes[i] \notin Elements(all[i - 1])
        <5>1. nodes[i] \notin AtPlaces(nodes, places, i - 1)
          <6>1. \A p \in places : p <= i - 1 => p # i
            BY <1>1
          <6> QED
            BY <3>2, <6>1 DEF AtPlaces
        <5> QED
          BY <3>1, <3>2, <5>1
      <4>3. HeapOK(all[i]) /\ Elements(all[i]) = Elements(all[i - 1]) \cup {nodes[i]}
        BY <3>1, <4>1, <4>2, PushedIsHeap
      <4>4. AtPlaces(nodes, places, i) = AtPlaces(nodes, places, i - 1) \cup {nodes[i]}
        <5>1. \A p \in places : p <= i <=> p <= i - 1 \/ p = i
          BY <1>1
        <5> QED
          BY <3>2, <5>1 DEF AtPlaces
      <4> QED
        BY <3>1, <4>3, <4>4
    <3>3. CASE i \notin places
      <4>1. AtPlaces(nodes, places, i) = AtPlaces(nodes, places, i - 1)
        <5>1. \A p \in places : p <= i <=> p <= i - 1
          BY <1>1, <3>3
        <5> QED
          BY <5>1 DEF AtPlaces
      <4> QED
        BY <2>1, <2>3, <3>1, <3>3, <4>1
    <3> QED
      BY <3>2, <3>3
  <2> QED
    BY <2>2, <2>3
<1>11. L \in G
  <2>1. Grows(X, L, m, G)
    <3> HIDE DEF X, L, m, G
    <3> QED
      BY <1>1, <1>2, <1>10 DEF Grows
  <2>2. X \subseteq G
    <3> HIDE DEF X, L, m, G
    <3> QED
      BY <2>1, Growing
  <2>3. L \in X
    BY <1>1
  <2> HIDE DEF G
  <2> QED
    BY <2>2, <2>3
<1>12. AtPlaces(nodes, places, L) = Chosen(nodes, places)
  <2>1. \A p \in places : p <= L
    BY <1>1
  <2> QED
    BY <2>1 DEF AtPlaces, Chosen
<1> HIDE DEF all
<1> QED
  BY <1>9, <1>11, <1>12

-----------------------------------------------------------------------------
(* Putting a finite set in order by counting what comes before.            *)
OrdersSet(R, S) ==
  /\ IsFiniteSet(S)
  /\ \A x, y \in S : ~(<<x, y>> \in R /\ <<y, x>> \in R)
  /\ \A x, y \in S : x # y => <<x, y>> \in R \/ <<y, x>> \in R
  /\ \A x, y, z \in S : <<x, y>> \in R /\ <<y, z>> \in R => <<x, z>> \in R

(* What comes before an element, and how much of it there is.              *)
Earlier(R, S, x) == {y \in S : <<y, x>> \in R}
Count(R, S, x) == Cardinality(Earlier(R, S, x))

LEMMA CountsGrow ==
  ASSUME NEW R, NEW S, OrdersSet(R, S)
  PROVE  /\ Cardinality(S) \in Nat
         /\ \A x \in S : Count(R, S, x) \in Nat /\ Count(R, S, x) < Cardinality(S)
         /\ \A x, y \in S : <<x, y>> \in R => Count(R, S, x) < Count(R, S, y)
<1>1. IsFiniteSet(S) /\ Cardinality(S) \in Nat
  BY FS_CardinalityType DEF OrdersSet
<1>2. ASSUME NEW x \in S
      PROVE  /\ IsFiniteSet(Earlier(R, S, x)) /\ Earlier(R, S, x) \subseteq S
             /\ Count(R, S, x) \in Nat /\ Count(R, S, x) < Cardinality(S)
  <2>1. Earlier(R, S, x) \subseteq S /\ x \notin Earlier(R, S, x)
    BY DEF Earlier, OrdersSet
  <2>2. /\ IsFiniteSet(Earlier(R, S, x)) /\ Cardinality(Earlier(R, S, x)) <= Cardinality(S)
        /\ Cardinality(S) # Cardinality(Earlier(R, S, x))
    BY <1>1, <2>1, FS_Subset
  <2>3. Cardinality(Earlier(R, S, x)) \in Nat
    BY <2>2, FS_CardinalityType
  <2> QED
    BY <1>1, <2>1, <2>2, <2>3 DEF Count
<1>3. ASSUME NEW x \in S, NEW y \in S, <<x, y>> \in R PROVE Count(R, S, x) < Count(R, S, y)
  <2>1. Earlier(R, S, x) \subseteq Earlier(R, S, y)
    BY <1>3 DEF Earlier, OrdersSet
  <2>2. x \in Earlier(R, S, y) /\ x \notin Earlier(R, S, x)
    BY <1>3 DEF Earlier, OrdersSet
  <2>3. /\ Cardinality(Earlier(R, S, x)) <= Cardinality(Earlier(R, S, y))
        /\ Cardinality(Earlier(R, S, y)) # Cardinality(Earlier(R, S, x))
    <3>1. IsFiniteSet(Earlier(R, S, y))
      BY <1>2
    <3> QED
      BY <2>1, <2>2, <3>1, FS_Subset
  <2>4. Count(R, S, x) \in Nat /\ Count(R, S, y) \in Nat
    BY <1>2
  <2> QED
    BY <2>3, <2>4 DEF Count
<1> QED
  BY <1>1, <1>2, <1>3

(* A sequence that lists a set in its order.                               *)
InOrder(s, R, S) ==
  /\ s \in [1..Cardinality(S) -> S]
  /\ \A x \in S : \E i \in 1..Cardinality(S) : s[i] = x
  /\ \A i, j \in 1..Cardinality(S) : s[i] = s[j] => i = j
  /\ \A i, j \in 1..Cardinality(S) : i < j => <<s[i], s[j]>> \in R

(* For each place there is an element with that many before it.            *)
LEMMA EveryCountIsTaken ==
  ASSUME NEW R, NEW S, OrdersSet(R, S), NEW i \in 1..Cardinality(S)
  PROVE  \E x \in S : Count(R, S, x) = i - 1
<1> DEFINE N == Cardinality(S)
           T == 0..(N - 1)
           count == [x \in S |-> Count(R, S, x)]
<1>1. /\ N \in Nat
      /\ \A x \in S : Count(R, S, x) \in Nat /\ Count(R, S, x) < N
      /\ \A x, y \in S : <<x, y>> \in R => Count(R, S, x) < Count(R, S, y)
  BY CountsGrow
<1>2. \A x, y \in S : Count(R, S, x) = Count(R, S, y) => x = y
  <2> SUFFICES ASSUME NEW x \in S, NEW y \in S, Count(R, S, x) = Count(R, S, y), x # y PROVE FALSE
    OBVIOUS
  <2>1. <<x, y>> \in R \/ <<y, x>> \in R
    BY DEF OrdersSet
  <2>2. Count(R, S, x) < Count(R, S, y) \/ Count(R, S, y) < Count(R, S, x)
    BY <1>1, <2>1
  <2>3. Count(R, S, x) \in Nat
    BY <1>1
  <2> QED
    BY <2>2, <2>3
<1>3. IsFiniteSet(T) /\ Cardinality(T) = N
  <2>1. 0 \in Int /\ N - 1 \in Int
    BY <1>1
  <2>2. Cardinality(T) = IF 0 > N - 1 THEN 0 ELSE (N - 1) - 0 + 1
    BY <2>1, FS_Interval
  <2> QED
    BY <1>1, <2>1, <2>2, FS_Interval
<1> HIDE DEF N
<1>4. count \in [S -> T]
  BY <1>1
<1>5. count \in Injection(S, T)
  BY <1>2, <1>4 DEF Injection, IsInjective
<1>6. count \in Surjection(S, T)
  <2> HIDE DEF count, T
  <2> QED
    BY <1>3, <1>5, FS_Injection DEF N
<1>7. i - 1 \in T
  BY <1>1 DEF N
<1>8. PICK x \in S : count[x] = i - 1
  <2> HIDE DEF count, T
  <2> QED
    BY <1>6, <1>7 DEF Surjection
<1> QED
  BY <1>8

(* So a sequence by these counts lists the set in its order.               *)
LEMMA Counting ==
  ASSUME NEW R, NEW S, OrdersSet(R, S), NEW s \in [1..Cardinality(S) -> S],
         \A i \in 1..Cardinality(S) : Count(R, S, s[i]) = i - 1
  PROVE  InOrder(s, R, S)
<1> DEFINE N == Cardinality(S)
<1>1. /\ N \in Nat
      /\ \A x \in S : Count(R, S, x) \in Nat /\ Count(R, S, x) < N
      /\ \A x, y \in S : <<x, y>> \in R => Count(R, S, x) < Count(R, S, y)
  BY CountsGrow
<1>2. \A x, y \in S : Count(R, S, x) = Count(R, S, y) => x = y
  <2> SUFFICES ASSUME NEW x \in S, NEW y \in S, Count(R, S, x) = Count(R, S, y), x # y PROVE FALSE
    OBVIOUS
  <2>1. <<x, y>> \in R \/ <<y, x>> \in R
    BY DEF OrdersSet
  <2>2. Count(R, S, x) < Count(R, S, y) \/ Count(R, S, y) < Count(R, S, x)
    BY <1>1, <2>1
  <2>3. Count(R, S, x) \in Nat
    BY <1>1
  <2> QED
    BY <2>2, <2>3
<1> HIDE DEF N
<1>8. \A i \in 1..N : s[i] \in S /\ Count(R, S, s[i]) = i - 1
  BY DEF N
<1>9. s \in [1..N -> S]
  BY <1>8 DEF N
<1>10. \A x \in S : \E i \in 1..N : s[i] = x
  <2> SUFFICES ASSUME NEW x \in S PROVE \E i \in 1..N : s[i] = x
    OBVIOUS
  <2>1. Count(R, S, x) + 1 \in 1..N /\ (Count(R, S, x) + 1) - 1 = Count(R, S, x)
    BY <1>1
  <2> QED
    BY <1>2, <1>8, <2>1
<1>11. \A i, j \in 1..N : s[i] = s[j] => i = j
  <2> SUFFICES ASSUME NEW i \in 1..N, NEW j \in 1..N, s[i] = s[j] PROVE i = j
    OBVIOUS
  <2>1. i \in Int /\ j \in Int
    BY <1>1
  <2>2. Count(R, S, s[i]) = i - 1 /\ Count(R, S, s[j]) = j - 1
    BY <1>8
  <2>3. i - 1 = j - 1
    BY <2>2
  <2> QED
    BY <2>1, <2>3
<1>12. ASSUME NEW i \in 1..N, NEW j \in 1..N, i < j PROVE <<s[i], s[j]>> \in R
  <2>0. i \in Int /\ j \in Int
    BY <1>1
  <2>1. s[i] \in S /\ s[j] \in S /\ s[i] # s[j]
    BY <2>0, <1>8, <1>11, <1>12
  <2>2. ~(Count(R, S, s[j]) < Count(R, S, s[i]))
    <3>1. Count(R, S, s[i]) = i - 1 /\ Count(R, S, s[j]) = j - 1
      BY <1>8
    <3> QED
      BY <2>0, <1>12, <3>1
  <2> QED
    BY <1>1, <2>1, <2>2 DEF OrdersSet
<1> QED
  BY <1>9, <1>10, <1>11, <1>12 DEF InOrder, N

(* The order of the numbers.                                               *)
Less == {p \in Int \X Int : p[1] < p[2]}

LEMMA LessOrders == ASSUME NEW S, IsFiniteSet(S), S \subseteq Int PROVE OrdersSet(Less, S)
<1>1. \A x, y \in Int : <<x, y>> \in Less <=> x < y
  BY DEF Less
<1> QED
  BY <1>1 DEF OrdersSet

(* A finite set of numbers has a largest one.                              *)
LEMMA Greatest ==
  ASSUME NEW S, IsFiniteSet(S), S \subseteq Int, S # {}
  PROVE  Max(S) \in S /\ \A y \in S : y <= Max(S)
<1> DEFINE N == Cardinality(S)
           count == [x \in S |-> Count(Less, S, x)]
           T == {N - count[x] : x \in S}
<1>1. /\ N \in Nat
      /\ \A x \in S : count[x] \in Nat /\ count[x] < N
      /\ \A x, y \in S : x < y => count[x] < count[y]
  <2>1. OrdersSet(Less, S)
    BY LessOrders
  <2>2. \A x, y \in S : x < y => <<x, y>> \in Less
    BY DEF Less
  <2> QED
    BY <2>1, <2>2, CountsGrow
<1> HIDE DEF N, count
<1>2. T \subseteq Nat /\ T # {}
  <2>1. \A x \in S : N - count[x] \in Nat
    BY <1>1
  <2> QED
    BY <2>1
<1>3. PICK k \in T : \A l \in T : k <= l
  <2> HIDE DEF T
  <2> QED
    BY <1>2, LeastElement
<1>4. PICK x \in S : k = N - count[x]
  BY <1>3
<1>5. \A y \in S : x >= y
  <2> SUFFICES ASSUME NEW y \in S PROVE x >= y
    OBVIOUS
  <2>1. N - count[x] <= N - count[y]
    BY <1>3, <1>4
  <2>2. ~(count[x] < count[y])
    BY <1>1, <2>1
  <2>3. x \in Int /\ y \in Int
    OBVIOUS
  <2> QED
    BY <1>1, <2>2, <2>3
<1>6. Max(S) \in S /\ \A y \in S : Max(S) >= y
  BY <1>5 DEF Max
<1>7. Max(S) \in Int /\ \A y \in S : y \in Int
  BY <1>6
<1> QED
  BY <1>6, <1>7

-----------------------------------------------------------------------------
(* The lines.                                                              *)
Above(tops, t) == {s \in tops : s < t}

(* The anchors of the lines, from the tops of a column alone.              *)
Anchors(tops) ==
    LET above(t) == {s \in tops : s < t}
        anchor[t \in tops] ==
            IF above(t) = {} \/ t - anchor[Max(above(t))] >= Epsilon THEN t ELSE anchor[Max(above(t))]
    IN  anchor

(* What the recursion says of them.                                        *)
Anchored(a, tops) ==
  \A t \in tops : a[t] = IF Above(tops, t) = {} \/ t - a[Max(Above(tops, t))] >= Epsilon THEN t
                         ELSE a[Max(Above(tops, t))]

(* The nearest top above another.                                          *)
LEMMA NearestAbove ==
  ASSUME NEW tops, IsFiniteSet(tops), tops \subseteq Int, NEW t \in tops, Above(tops, t) # {}
  PROVE  /\ Max(Above(tops, t)) \in tops /\ Max(Above(tops, t)) < t
         /\ \A s \in tops : s < t => s <= Max(Above(tops, t))
<1>1. Above(tops, t) \subseteq tops /\ Above(tops, t) \subseteq Int
  BY DEF Above
<1>2. IsFiniteSet(Above(tops, t))
  BY <1>1, FS_Subset
<1>3. Max(Above(tops, t)) \in Above(tops, t) /\ \A s \in Above(tops, t) : s <= Max(Above(tops, t))
  BY <1>1, <1>2, Greatest
<1> QED
  BY <1>3 DEF Above

(* The recursion over the tops from above to below has a solution.         *)
LEMMA AnchorsExist ==
  ASSUME NEW tops, IsFiniteSet(tops), tops \subseteq Int
  PROVE  Anchored(Anchors(tops), tops)
<1> DEFINE N == Cardinality(tops)
           m == [t \in tops |-> Count(Less, tops, t)]
           stop == {t \in tops : Above(tops, t) = {}}
           before == [t \in tops |-> IF t \in stop THEN t ELSE Max(Above(tops, t))]
           base == [t \in tops |-> t]
           then == [z \in tops \X Int |-> IF z[1] - z[2] >= Epsilon THEN z[1] ELSE z[2]]
<1>1. \A t \in tops \ stop : Max(Above(tops, t)) \in tops /\ Max(Above(tops, t)) < t
  BY NearestAbove
<1>2. before \in [tops -> tops] /\ \A t \in tops \ stop : before[t] = Max(Above(tops, t))
  BY <1>1
<1>3. base \in [tops -> Int] /\ then \in [tops \X Int -> Int]
  BY ReadingOrderAssumption
<1>4. /\ N \in Nat /\ m \in [tops -> 0..N]
      /\ \A t \in tops \ stop : m[before[t]] < m[t]
  <2>1. OrdersSet(Less, tops)
    BY LessOrders
  <2>2. /\ N \in Nat
        /\ \A t \in tops : Count(Less, tops, t) \in Nat /\ Count(Less, tops, t) < N
        /\ \A s, t \in tops : <<s, t>> \in Less => Count(Less, tops, s) < Count(Less, tops, t)
    BY <2>1, CountsGrow
  <2>3. m \in [tops -> 0..N]
    <3> HIDE DEF N
    <3> QED
      BY <2>2
  <2>4. \A t \in tops \ stop : <<before[t], t>> \in Less /\ before[t] \in tops
    BY <1>1, <1>2 DEF Less
  <2> HIDE DEF N, before, stop
  <2> QED
    BY <2>2, <2>3, <2>4
<1>5. Grounded(tops, Int, N, m, before, stop, base, then)
  <2> HIDE DEF N, m, before, stop, base, then
  <2> QED
    BY <1>2, <1>3, <1>4 DEF Grounded
<1>6. PICK a \in [tops -> Int] : \A t \in tops : a[t] = IF t \in stop THEN base[t] ELSE then[<<t, a[before[t]]>>]
  <2> HIDE DEF N, m, before, stop, base, then
  <2> QED
    BY <1>5, Recursion
<1> DEFINE Anc(g) == [t \in tops |-> IF {s \in tops : s < t} = {} \/ t - g[Max({s \in tops : s < t})] >= Epsilon
                                    THEN t ELSE g[Max({s \in tops : s < t})]]
           anchor == CHOOSE g : g = Anc(g)
<1>7. \A t \in tops : a[t] = IF Above(tops, t) = {} \/ t - a[Max(Above(tops, t))] >= Epsilon THEN t
                             ELSE a[Max(Above(tops, t))]
  <2> SUFFICES ASSUME NEW t \in tops
               PROVE  a[t] = IF Above(tops, t) = {} \/ t - a[Max(Above(tops, t))] >= Epsilon THEN t
                             ELSE a[Max(Above(tops, t))]
    OBVIOUS
  <2>1. CASE t \in stop
    BY <1>6, <2>1
  <2>2. CASE t \notin stop
    <3>1. a[t] = then[<<t, a[Max(Above(tops, t))]>>] /\ a[Max(Above(tops, t))] \in Int
      BY <1>1, <1>2, <1>6, <2>2
    <3> QED
      BY <2>2, <3>1
  <2> QED
    BY <2>1, <2>2
<1>8. a = Anc(a)
  BY <1>7 DEF Above
<1>9. anchor = Anc(anchor)
  <2> HIDE DEF Anc
  <2> QED
    BY <1>8
<1>10. Anchors(tops) = anchor
  BY DEF Anchors
<1>11. Anchored(anchor, tops)
  BY <1>9 DEF Anchored, Above
<1> QED
  BY <1>10, <1>11

(* Anchors do not cross: what is lower is not on a higher line.            *)
LEMMA AnchorsAreOrdered ==
  ASSUME NEW tops, IsFiniteSet(tops), tops \subseteq Int, NEW a, Anchored(a, tops)
  PROVE  \A t \in tops : /\ a[t] \in Int /\ a[t] <= t
                         /\ \A s \in tops : s <= t => a[s] <= a[t]
<1> DEFINE N == Cardinality(tops)
           m == [t \in tops |-> Count(Less, tops, t)]
           OK(t) == a[t] \in Int /\ a[t] <= t /\ \A s \in tops : s <= t => a[s] <= a[t]
           G == {t \in tops : OK(t)}
<1>1. /\ N \in Nat /\ m \in [tops -> 0..N]
      /\ \A s, t \in tops : s < t => m[s] < m[t]
  <2>1. OrdersSet(Less, tops)
    BY LessOrders
  <2>2. /\ N \in Nat
        /\ \A t \in tops : Count(Less, tops, t) \in Nat /\ Count(Less, tops, t) < N
        /\ \A s, t \in tops : <<s, t>> \in Less => Count(Less, tops, s) < Count(Less, tops, t)
    BY <2>1, CountsGrow
  <2>3. \A s, t \in tops : s < t => <<s, t>> \in Less
    BY DEF Less
  <2> HIDE DEF N
  <2>4. m \in [tops -> 0..N]
    BY <2>2
  <2>5. \A s, t \in tops : s < t => m[s] < m[t]
    BY <2>2, <2>3
  <2> QED
    BY <2>2, <2>4, <2>5
<1>2. ASSUME NEW t \in tops, \A s \in tops : m[s] < m[t] => s \in G PROVE t \in G
  <2>1. \A s \in tops : s < t => OK(s)
    <3> HIDE DEF OK, m
    <3> QED
      BY <1>1, <1>2
  <2>2. a[t] = IF Above(tops, t) = {} \/ t - a[Max(Above(tops, t))] >= Epsilon THEN t
               ELSE a[Max(Above(tops, t))]
    BY DEF Anchored
  <2>3. CASE Above(tops, t) = {}
    <3>1. \A s \in tops : s <= t => s = t
      BY <2>3 DEF Above
    <3> QED
      BY <2>2, <2>3, <3>1
  <2>4. CASE Above(tops, t) # {}
    <3> DEFINE p == Max(Above(tops, t))
    <3>1. p \in tops /\ p < t /\ \A s \in tops : s < t => s <= p
      BY <2>4, NearestAbove
    <3> HIDE DEF p
    <3>2. a[p] \in Int /\ a[p] <= p /\ \A s \in tops : s <= p => a[s] <= a[p]
      BY <2>1, <3>1
    <3>3. a[t] = t \/ a[t] = a[p]
      BY <2>2 DEF p
    <3>4. a[t] \in Int /\ a[t] <= t /\ a[p] <= a[t]
      <4>1. t \in Int /\ p \in Int
        BY <3>1
      <4> QED
        BY <3>1, <3>2, <3>3, <4>1
    <3>5. ASSUME NEW s \in tops, s <= t PROVE a[s] <= a[t]
      <4>1. CASE s = t
        BY <3>4, <4>1
      <4>2. CASE s # t
        <5>1. s \in Int /\ t \in Int
          OBVIOUS
        <5>2. s < t
          BY <3>5, <4>2, <5>1
        <5>3. a[s] <= a[p] /\ a[s] \in Int
          BY <2>1, <3>1, <3>2, <5>2
        <5> QED
          BY <3>2, <3>4, <5>3
      <4> QED
        BY <4>1, <4>2
    <3> QED
      BY <3>4, <3>5
  <2> QED
    BY <2>3, <2>4
<1>3. tops \subseteq G
  <2>1. Grows(tops, N, m, G)
    <3> HIDE DEF N, m, G
    <3> QED
      BY <1>1, <1>2 DEF Grows
  <2> HIDE DEF N, m, G
  <2> QED
    BY <2>1, Growing
<1> QED
  BY <1>3

-----------------------------------------------------------------------------
(* The comparator.                                                         *)
Tops(n) == {Unit(m).top : m \in Peers(n)}

(* The units of a document.                                                *)
LEMMA UnitsAreTyped ==
  ASSUME DocumentOK(doc)
  PROVE  /\ IsFiniteSet(Nodes) /\ Nodes \subseteq Int
         /\ \A n \in Nodes : /\ Unit(n).phase \in Int /\ Unit(n).column \in Int /\ Unit(n).top \in Int
                             /\ Unit(n).left \in Int /\ Unit(n).priority \in Int
BY DEF DocumentOK, Nodes, Unit

LEMMA TopsAreFinite ==
  ASSUME DocumentOK(doc), NEW n \in Nodes
  PROVE  IsFiniteSet(Tops(n)) /\ Tops(n) \subseteq Int
<1> DEFINE top == [m \in Peers(n) |-> Unit(m).top]
<1>1. Peers(n) \subseteq Nodes
  BY DEF Peers
<1>2. IsFiniteSet(Peers(n)) /\ \A m \in Peers(n) : Unit(m).top \in Int
  BY <1>1, UnitsAreTyped, FS_Subset
<1>3. top \in Surjection(Peers(n), Tops(n))
  BY DEF Surjection, Tops
<1>4. IsFiniteSet(Tops(n))
  <2> HIDE DEF top
  <2> QED
    BY <1>2, <1>3, FS_Surjection
<1> QED
  BY <1>2, <1>4 DEF Tops

(* Units that are told apart by their lines.                               *)
SameColumn(m, n) == Unit(m).phase = Unit(n).phase /\ Unit(m).column = Unit(n).column

(* A unit that is not above another is on no higher line.                  *)
LEMMA LinesAreOrdered ==
  ASSUME DocumentOK(doc), line = [n \in Nodes |-> Anchor(n)], NEW m \in Nodes, NEW n \in Nodes, SameColumn(m, n)
  PROVE  line[m] \in Int /\ line[n] \in Int /\ (Unit(m).top <= Unit(n).top => line[m] <= line[n])
<1>1. Peers(m) = Peers(n) /\ m \in Peers(n) /\ n \in Peers(n)
  BY DEF Peers, SameColumn
<1>2. Tops(m) = Tops(n) /\ Unit(m).top \in Tops(n) /\ Unit(n).top \in Tops(n)
  BY <1>1 DEF Tops
<1>3. line[m] = Anchors(Tops(n))[Unit(m).top] /\ line[n] = Anchors(Tops(n))[Unit(n).top]
  <2>1. \A k \in Nodes : Anchor(k) = Anchors(Tops(k))[Unit(k).top]
    BY DEF Anchor, Anchors, Tops
  <2> QED
    BY <1>2, <2>1
<1>4. IsFiniteSet(Tops(n)) /\ Tops(n) \subseteq Int
  BY TopsAreFinite
<1>5. Anchored(Anchors(Tops(n)), Tops(n))
  BY <1>4, AnchorsExist
<1> QED
  BY <1>2, <1>3, <1>4, <1>5, AnchorsAreOrdered

(* Two units of one column: the lower line, or the place in the line.      *)
InLine(m, n) == \/ Unit(m).left # Unit(n).left /\ Directed(LineIsRtl(m), Unit(m).left, Unit(n).left)
                \/ Unit(m).left = Unit(n).left /\ Unit(m).priority < Unit(n).priority
                \/ Unit(m).left = Unit(n).left /\ Unit(m).priority = Unit(n).priority /\ m < n

InColumn(m, n) == IF line[m] = line[n] THEN InLine(m, n) ELSE Unit(m).top < Unit(n).top

(* The comparator, by phase, column and what lies in a column.             *)
LEMMA BeforeIs ==
  \A m, n : Before(m, n) <=>
     \/ Unit(m).phase < Unit(n).phase
     \/ /\ Unit(m).phase = Unit(n).phase /\ Unit(m).column # Unit(n).column
        /\ Directed(PageIsRtl, Unit(m).column, Unit(n).column)
     \/ SameColumn(m, n) /\ InColumn(m, n)
BY DEF Before, SameColumn, InColumn, InLine, SameLine

(* The units of a line agree on its direction.                             *)
LEMMA LinesAreRtlAsAWhole ==
  ASSUME NEW m \in Nodes, NEW n \in Nodes, SameColumn(m, n), line[m] = line[n]
  PROVE  LineIsRtl(m) = LineIsRtl(n)
<1>1. Peers(m) = Peers(n)
  BY DEF Peers, SameColumn
<1>2. \A k : SameLine(k, m) <=> SameLine(k, n)
  BY DEF SameLine
<1> QED
  BY <1>1, <1>2 DEF LineIsRtl

(* The comparator as a relation.                                           *)
BeforePairs == {p \in Nodes \X Nodes : Before(p[1], p[2])}

(* compareUnits is a strict total order: within a column a unit on a       *)
(* higher line has the smaller top, because anchors do not cross.          *)
LEMMA BeforeOrders ==
  ASSUME DocumentOK(doc), line = [n \in Nodes |-> Anchor(n)]
  PROVE  OrdersSet(BeforePairs, Nodes)
<1>1. \A m, n \in Nodes : <<m, n>> \in BeforePairs <=> Before(m, n)
  BY DEF BeforePairs
<1>2. /\ IsFiniteSet(Nodes) /\ Nodes \subseteq Int
      /\ \A n \in Nodes : /\ Unit(n).phase \in Int /\ Unit(n).column \in Int /\ Unit(n).top \in Int
                          /\ Unit(n).left \in Int /\ Unit(n).priority \in Int /\ n \in Int
  BY UnitsAreTyped
<1>3. \A m, n \in Nodes : SameColumn(m, n) =>
         line[m] \in Int /\ line[n] \in Int /\ (Unit(m).top <= Unit(n).top => line[m] <= line[n])
  BY LinesAreOrdered
<1>4. \A m, n, p \in Nodes : SameColumn(m, n) /\ SameColumn(n, p) => SameColumn(m, p) /\ SameColumn(n, m)
  BY DEF SameColumn
<1>5. ASSUME NEW m \in Nodes, NEW n \in Nodes, SameColumn(m, n), line[m] = line[n]
      PROVE  /\ ~(InLine(m, n) /\ InLine(n, m))
             /\ m # n => InLine(m, n) \/ InLine(n, m)
             /\ \A p \in Nodes : SameColumn(n, p) /\ line[n] = line[p] /\ InLine(m, n) /\ InLine(n, p)
                               => InLine(m, p)
  <2>1. LineIsRtl(m) = LineIsRtl(n)
    BY <1>5, LinesAreRtlAsAWhole
  <2>2. ~(InLine(m, n) /\ InLine(n, m)) /\ (m # n => InLine(m, n) \/ InLine(n, m))
    <3>1. CASE LineIsRtl(m)
      BY <1>2, <2>1, <3>1 DEF InLine, Directed
    <3>2. CASE ~LineIsRtl(m)
      BY <1>2, <2>1, <3>2 DEF InLine, Directed
    <3> QED
      BY <3>1, <3>2
  <2>3. ASSUME NEW p \in Nodes, SameColumn(n, p), line[n] = line[p], InLine(m, n), InLine(n, p) PROVE InLine(m, p)
    <3>1. CASE LineIsRtl(m)
      BY <1>2, <2>1, <2>3, <3>1 DEF InLine, Directed
    <3>2. CASE ~LineIsRtl(m)
      BY <1>2, <2>1, <2>3, <3>2 DEF InLine, Directed
    <3> QED
      BY <3>1, <3>2
  <2> QED
    BY <2>2, <2>3
<1>6. ASSUME NEW m \in Nodes, NEW n \in Nodes, SameColumn(m, n)
      PROVE  /\ ~(InColumn(m, n) /\ InColumn(n, m))
             /\ m # n => InColumn(m, n) \/ InColumn(n, m)
             /\ \A p \in Nodes : SameColumn(n, p) /\ InColumn(m, n) /\ InColumn(n, p) => InColumn(m, p)
  <2>1. Unit(m).top \in Int /\ Unit(n).top \in Int /\ line[m] \in Int /\ line[n] \in Int
    BY <1>2, <1>3, <1>6
  <2>2. SameColumn(n, m)
    BY <1>6 DEF SameColumn
  <2>3. line[m] # line[n] => Unit(m).top # Unit(n).top
    BY <1>3, <1>6, <2>1, <2>2
  <2>4. ~(InColumn(m, n) /\ InColumn(n, m)) /\ (m # n => InColumn(m, n) \/ InColumn(n, m))
    <3>1. CASE line[m] = line[n]
      BY <1>5, <1>6, <3>1 DEF InColumn
    <3>2. CASE line[m] # line[n]
      BY <2>1, <2>3, <3>2 DEF InColumn
    <3> QED
      BY <3>1, <3>2
  <2>5. ASSUME NEW p \in Nodes, SameColumn(n, p), InColumn(m, n), InColumn(n, p) PROVE InColumn(m, p)
    <3>1. SameColumn(m, p) /\ SameColumn(p, m) /\ SameColumn(p, n)
      BY <1>6, <2>5 DEF SameColumn
    <3>2. Unit(p).top \in Int /\ line[p] \in Int
      BY <1>2, <1>3, <2>5
    <3>3. (Unit(p).top <= Unit(m).top => line[p] <= line[m])
      BY <1>3, <3>1
    <3>4. (Unit(p).top <= Unit(n).top => line[p] <= line[n]) /\ (Unit(n).top <= Unit(p).top => line[n] <= line[p])
      BY <1>3, <2>5, <3>1
    <3>5. Unit(m).top <= Unit(n).top => line[m] <= line[n]
      BY <1>3, <1>6
    <3>6. CASE line[m] = line[n] /\ line[n] = line[p]
      BY <1>5, <1>6, <2>5, <3>6 DEF InColumn
    <3>7. CASE ~(line[m] = line[n] /\ line[n] = line[p])
      <4>1. line[m] # line[n] => Unit(m).top < Unit(n).top /\ line[m] < line[n]
        BY <2>1, <2>5, <3>5 DEF InColumn
      <4>2. line[n] # line[p] => Unit(n).top < Unit(p).top /\ line[n] < line[p]
        BY <2>1, <2>5, <3>2, <3>4 DEF InColumn
      <4>3. line[m] < line[p]
        BY <2>1, <3>2, <3>7, <4>1, <4>2
      <4>4. Unit(m).top < Unit(p).top
        BY <2>1, <3>2, <3>3, <4>3
      <4> QED
        BY <2>1, <3>2, <4>3, <4>4 DEF InColumn
    <3> QED
      BY <3>6, <3>7
  <2> QED
    BY <2>4, <2>5
<1>7. ASSUME NEW m \in Nodes, NEW n \in Nodes PROVE ~(Before(m, n) /\ Before(n, m))
  <2>1. CASE PageIsRtl
    BY <1>2, <1>4, <1>6, <2>1, BeforeIs DEF SameColumn, Directed
  <2>2. CASE ~PageIsRtl
    BY <1>2, <1>4, <1>6, <2>2, BeforeIs DEF SameColumn, Directed
  <2> QED
    BY <2>1, <2>2
<1>8. ASSUME NEW m \in Nodes, NEW n \in Nodes, m # n PROVE Before(m, n) \/ Before(n, m)
  <2>1. CASE PageIsRtl
    BY <1>2, <1>4, <1>6, <1>8, <2>1, BeforeIs DEF SameColumn, Directed
  <2>2. CASE ~PageIsRtl
    BY <1>2, <1>4, <1>6, <1>8, <2>2, BeforeIs DEF SameColumn, Directed
  <2> QED
    BY <2>1, <2>2
<1>9. ASSUME NEW m \in Nodes, NEW n \in Nodes, NEW p \in Nodes, Before(m, n), Before(n, p)
      PROVE  Before(m, p)
  <2>1. SameColumn(m, n) /\ SameColumn(n, p) /\ InColumn(m, n) /\ InColumn(n, p) => SameColumn(m, p) /\ InColumn(m, p)
    BY <1>4, <1>6
  <2>2. CASE PageIsRtl
    BY <1>2, <1>9, <2>1, <2>2, BeforeIs DEF SameColumn, Directed
  <2>3. CASE ~PageIsRtl
    BY <1>2, <1>9, <2>1, <2>3, BeforeIs DEF SameColumn, Directed
  <2> QED
    BY <2>2, <2>3
<1> QED
  BY <1>1, <1>2, <1>7, <1>8, <1>9 DEF OrdersSet

(* The sort lists every node once, in this order.                          *)
LEMMA NodesAreRanked ==
  ASSUME DocumentOK(doc), line = [n \in Nodes |-> Anchor(n)]
  PROVE  InOrder(Sorted(Nodes, Before), BeforePairs, Nodes)
<1> DEFINE N == Cardinality(Nodes)
           s == Sorted(Nodes, Before)
<1>1. OrdersSet(BeforePairs, Nodes)
  BY BeforeOrders
<1>2. ASSUME NEW x \in Nodes
      PROVE  Cardinality({y \in Nodes : Before(y, x)}) = Count(BeforePairs, Nodes, x)
  <2>1. {y \in Nodes : Before(y, x)} = Earlier(BeforePairs, Nodes, x)
    BY DEF Earlier, BeforePairs
  <2> QED
    BY <2>1 DEF Count
<1>3. ASSUME NEW i \in 1..N PROVE s[i] \in Nodes /\ Count(BeforePairs, Nodes, s[i]) = i - 1
  <2>1. \E x \in Nodes : Count(BeforePairs, Nodes, x) = i - 1
    BY <1>1, EveryCountIsTaken
  <2>2. \E x \in Nodes : Cardinality({y \in Nodes : Before(y, x)}) = i - 1
    BY <1>2, <2>1
  <2>3. s[i] = CHOOSE x \in Nodes : Cardinality({y \in Nodes : Before(y, x)}) = i - 1
    BY DEF Sorted
  <2>4. s[i] \in Nodes /\ Cardinality({y \in Nodes : Before(y, s[i])}) = i - 1
    <3> HIDE DEF s
    <3> QED
      BY <2>2, <2>3
  <2> QED
    BY <1>2, <2>4
<1>4. s \in [1..N -> Nodes]
  BY <1>3 DEF Sorted
<1> HIDE DEF s
<1> QED
  BY <1>1, <1>3, <1>4, Counting DEF s

-----------------------------------------------------------------------------
(* The topological sort.                                                   *)
Ranked ==
  /\ rank \in [1..Cardinality(Nodes) -> Nodes]
  /\ \A n \in Nodes : \E i \in 1..Cardinality(Nodes) : rank[i] = n
  /\ \A i, j \in 1..Cardinality(Nodes) : rank[i] = rank[j] => i = j

LEMMA RanksAre ==
  ASSUME DocumentOK(doc), Ranked
  PROVE  /\ \A n \in Nodes : RankOf(n) \in 1..Cardinality(Nodes) /\ rank[RankOf(n)] = n
         /\ RanksAreNumbers
<1>1. Cardinality(Nodes) \in Nat
  BY UnitsAreTyped, FS_CardinalityType
<1>2. ASSUME NEW n \in Nodes PROVE RankOf(n) \in 1..Cardinality(Nodes) /\ rank[RankOf(n)] = n
  <2>1. DOMAIN rank = 1..Cardinality(Nodes)
    BY DEF Ranked
  <2>2. \E i \in DOMAIN rank : rank[i] = n
    BY <2>1 DEF Ranked
  <2> QED
    BY <2>1, <2>2 DEF RankOf
<1> QED
  BY <1>1, <1>2 DEF RanksAreNumbers

(* What a node waits for when the nodes P are placed.                      *)
Waits(P, n) == {m \in Nodes \ P : <<m, n>> \in Related}

(* applyPrecedence, between two nodes that are placed: the heap holds what *)
(* no longer waits and is not placed; what was placed waited for nothing   *)
(* then, and everything of a smaller rank that was left did wait.          *)
PlacedOK ==
  /\ result \in Seq(Nodes) /\ Distinct(result)
  /\ HeapOK(ready)
  /\ waiting = [n \in Nodes |-> Cardinality(Waits(Elements(result), n))]
  /\ \A n \in Nodes : n \in Elements(ready) <=> n \notin Elements(result) /\ Waits(Elements(result), n) = {}
  /\ \A i \in 1..Len(result) : Waits(Values(result, i - 1), result[i]) = {}
  /\ \A i \in 1..Len(result) : \A n \in Nodes \ Values(result, i) :
        RankOf(n) < RankOf(result[i]) => Waits(Values(result, i - 1), n) # {}

LEMMA WaitsAreFinite ==
  ASSUME DocumentOK(doc), NEW P, NEW n
  PROVE  /\ IsFiniteSet(Waits(P, n)) /\ Cardinality(Waits(P, n)) \in Nat
         /\ Cardinality(Waits(P, n)) = 0 <=> Waits(P, n) = {}
<1>1. IsFiniteSet(Nodes) /\ Waits(P, n) \subseteq Nodes
  BY UnitsAreTyped DEF Waits
<1>2. IsFiniteSet(Waits(P, n))
  BY <1>1, FS_Subset
<1> QED
  BY <1>2, FS_CardinalityType, FS_EmptySet

(* The relations of a document that is not refused.                        *)
LEMMA RelationsAreTyped ==
  ASSUME DocumentOK(doc), ~Invalid
  PROVE  /\ doc.relations \in Seq(Int \X Int) /\ Len(doc.relations) \in Nat
         /\ DOMAIN doc.relations = 1..Len(doc.relations)
         /\ \A i \in 1..Len(doc.relations) :
               /\ doc.relations[i] \in Related /\ doc.relations[i] = <<doc.relations[i][1], doc.relations[i][2]>>
               /\ doc.relations[i][1] \in Nodes /\ doc.relations[i][2] \in Nodes
               /\ doc.relations[i][1] # doc.relations[i][2]
         /\ \A r \in Related : \E i \in 1..Len(doc.relations) : doc.relations[i] = r
<1>1. doc.relations \in Seq(Int \X Int)
  BY DEF DocumentOK
<1>2. Len(doc.relations) \in Nat /\ DOMAIN doc.relations = 1..Len(doc.relations)
  BY <1>1
<1>3. ASSUME NEW i \in 1..Len(doc.relations)
      PROVE  /\ doc.relations[i] \in Related /\ doc.relations[i] = <<doc.relations[i][1], doc.relations[i][2]>>
             /\ doc.relations[i][1] \in Nodes /\ doc.relations[i][2] \in Nodes
             /\ doc.relations[i][1] # doc.relations[i][2]
  <2>1. doc.relations[i] \in Related
    BY <1>2 DEF Related, Range
  <2>2. doc.relations[i] \in Int \X Int
    BY <1>1
  <2>3. /\ doc.relations[i][1] \in Nodes /\ doc.relations[i][2] \in Nodes
        /\ doc.relations[i][1] # doc.relations[i][2]
    BY <2>1 DEF Invalid
  <2> QED
    BY <2>1, <2>2, <2>3
<1>4. \A r \in Related : \E i \in 1..Len(doc.relations) : doc.relations[i] = r
  BY <1>2 DEF Related, Range
<1> QED
  BY <1>1, <1>2, <1>3, <1>4

(* The heap starts with the nodes that wait for nothing.                   *)
LEMMA FillStarts ==
  ASSUME DocumentOK(doc), Ranked, Fill, result = << >>
  PROVE  PlacedOK'
<1> DEFINE N == Cardinality(Nodes)
           places == {i \in DOMAIN rank : Indegree(rank[i]) = 0}
           heap == PushedAt(<< >>, rank, places)
<1>1. UNCHANGED <<doc, line, rank, result>> /\ ready' = heap /\ waiting' = [n \in Nodes |-> Indegree(n)]
  BY DEF Fill
<1>2. N \in Nat
  BY UnitsAreTyped, FS_CardinalityType
<1>3. RanksAreNumbers /\ \A n \in Nodes : RankOf(n) \in 1..N /\ rank[RankOf(n)] = n
  BY RanksAre
<1>4. Elements(<< >>) = {} /\ HeapOK(<< >>)
  <2>1. Len(<< >>) = 0 /\ << >> \in Seq(Nodes)
    OBVIOUS
  <2> QED
    BY <2>1 DEF Elements, Values, HeapOK, Distinct, Ordered
<1>5. \A n : Indegree(n) = Cardinality(Waits({}, n)) /\ (Indegree(n) = 0 <=> Waits({}, n) = {})
  <2> SUFFICES ASSUME NEW n
               PROVE  Indegree(n) = Cardinality(Waits({}, n)) /\ (Indegree(n) = 0 <=> Waits({}, n) = {})
    OBVIOUS
  <2>1. Indegree(n) = Cardinality(Waits({}, n))
    <3>1. {m \in Nodes : <<m, n>> \in Related} = Waits({}, n)
      BY DEF Waits
    <3> QED
      BY <3>1 DEF Indegree
  <2> QED
    BY <2>1, WaitsAreFinite
<1>6. /\ DOMAIN rank = 1..N /\ Len(rank) = N /\ places \subseteq 1..N
      /\ \A i \in places : rank[i] \in Nodes
      /\ \A i, j \in places : rank[i] = rank[j] => i = j
  <2>1. rank \in Seq(Nodes)
    BY <1>2 DEF Ranked
  <2>2. DOMAIN rank = 1..N /\ Len(rank) = N
    BY <1>2, <2>1 DEF Ranked
  <2> HIDE DEF N
  <2> QED
    BY <2>2 DEF Ranked, N
<1>7. HeapOK(heap) /\ Elements(heap) = Chosen(rank, places)
  <2>1. \A i \in places : rank[i] \in Nodes /\ rank[i] \notin Elements(<< >>)
    BY <1>4, <1>6
  <2>2. Pushable(<< >>, rank, places)
    <3> HIDE DEF places, N
    <3> QED
      BY <1>2, <1>4, <1>6, <2>1 DEF Pushable
  <2>3. HeapOK(heap) /\ Elements(heap) = Elements(<< >>) \cup Chosen(rank, places)
    <3> HIDE DEF places
    <3> QED
      BY <1>3, <2>2, PushedAtIsHeap
  <2> HIDE DEF heap, places
  <2> QED
    BY <1>4, <2>3
<1>8. \A n \in Nodes : n \in Elements(heap) <=> Waits({}, n) = {}
  BY <1>3, <1>5, <1>6, <1>7 DEF Chosen
<1> HIDE DEF heap
<1>9. Nodes' = Nodes /\ \A n : RankOf(n)' = RankOf(n)
  BY <1>1 DEF Nodes, RankOf
<1>10. \A P, n : Waits(P, n)' = Waits(P, n)
  BY <1>1, <1>9 DEF Waits, Related
<1>11. HeapOK(ready)'
  BY <1>1, <1>7, <1>9 DEF HeapOK, Distinct, Ordered
<1>12. Elements(result)' = {} /\ Len(result') = 0 /\ result' = << >>
  BY <1>1, <1>4 DEF Elements
<1>13. Elements(ready)' = Elements(heap)
  BY <1>1 DEF Elements, Values
<1>14. waiting' = [n \in Nodes |-> Cardinality(Waits({}, n))]
  BY <1>1, <1>5
<1>15. (waiting = [n \in Nodes |-> Cardinality(Waits(Elements(result), n))])'
  BY <1>9, <1>10, <1>12, <1>14
<1>16. (\A n \in Nodes : n \in Elements(ready) <=> n \notin Elements(result) /\ Waits(Elements(result), n) = {})'
  BY <1>8, <1>9, <1>10, <1>12, <1>13
<1>17. (result \in Seq(Nodes) /\ Distinct(result))'
  BY <1>9, <1>12 DEF Distinct
<1>18. 1..(Len(result)') = {}
  BY <1>12
<1>19. (\A i \in 1..Len(result) : Waits(Values(result, i - 1), result[i]) = {})'
  BY <1>18
<1>20. (\A i \in 1..Len(result) : \A n \in Nodes \ Values(result, i) :
          RankOf(n) < RankOf(result[i]) => Waits(Values(result, i - 1), n) # {})'
  BY <1>18
<1> QED
  BY <1>11, <1>15, <1>16, <1>17, <1>19, <1>20 DEF PlacedOK

(* The successors that wait for nothing else are those whose relations were*)
(* first read, without the repeated ones.                                  *)
Released(P, h) == {m \in Nodes : <<h, m>> \in Related /\ Waits(P, m) = {}}

(* Where they are found among the relations: at the first of equals.       *)
NewPlaces(h, left) ==
  {i \in DOMAIN doc.relations :
     /\ doc.relations[i][1] = h /\ left[Targets[i]] = 0
     /\ \A j \in 1..(i - 1) : doc.relations[j] # doc.relations[i]}

LEMMA NewAreReleased ==
  ASSUME DocumentOK(doc), ~Invalid, NEW h \in Nodes, NEW P, NEW left,
         \A m \in Nodes : left[m] = 0 <=> Waits(P, m) = {},
         NEW new, new = NewPlaces(h, left)
  PROVE  /\ Len(Targets) \in Nat /\ new \subseteq 1..Len(Targets)
         /\ \A i \in new : Targets[i] \in Released(P, h)
         /\ \A i, j \in new : Targets[i] = Targets[j] => i = j
         /\ Chosen(Targets, new) = Released(P, h)
<1> DEFINE L == Len(doc.relations)
<1>1. /\ L \in Nat /\ DOMAIN doc.relations = 1..L
      /\ \A i \in 1..L :
            /\ doc.relations[i] \in Related /\ doc.relations[i] = <<doc.relations[i][1], doc.relations[i][2]>>
            /\ doc.relations[i][1] \in Nodes /\ doc.relations[i][2] \in Nodes
      /\ \A r \in Related : \E i \in 1..L : doc.relations[i] = r
  BY RelationsAreTyped
<1>2. Len(Targets) = L /\ \A i \in 1..L : Targets[i] = doc.relations[i][2]
  <2>1. Targets \in Seq(Nodes)
    BY <1>1 DEF Targets
  <2> QED
    BY <1>1, <2>1 DEF Targets
<1> HIDE DEF L
<1>3. \A i \in new : /\ i \in 1..L /\ i \in Int /\ doc.relations[i] = <<h, Targets[i]>>
                     /\ Targets[i] \in Released(P, h)
                     /\ \A j \in 1..(i - 1) : doc.relations[j] # doc.relations[i]
  <2> SUFFICES ASSUME NEW i \in new
               PROVE  /\ i \in 1..L /\ i \in Int /\ doc.relations[i] = <<h, Targets[i]>>
                      /\ Targets[i] \in Released(P, h)
                      /\ \A j \in 1..(i - 1) : doc.relations[j] # doc.relations[i]
    OBVIOUS
  <2>1. /\ i \in 1..L /\ doc.relations[i][1] = h /\ left[Targets[i]] = 0
        /\ \A j \in 1..(i - 1) : doc.relations[j] # doc.relations[i]
    BY <1>1 DEF NewPlaces
  <2>2. doc.relations[i] = <<h, Targets[i]>> /\ Targets[i] \in Nodes /\ doc.relations[i] \in Related
    BY <1>1, <1>2, <2>1
  <2>3. Waits(P, Targets[i]) = {} /\ <<h, Targets[i]>> \in Related
    BY <2>1, <2>2
  <2>4. Targets[i] \in Released(P, h)
    BY <2>2, <2>3 DEF Released
  <2>5. i \in Int
    BY <1>1, <2>1
  <2> QED
    BY <2>1, <2>2, <2>4, <2>5
<1>4. ASSUME NEW i \in new, NEW j \in new, Targets[i] = Targets[j] PROVE i = j
  <2>1. doc.relations[i] = doc.relations[j]
    BY <1>3, <1>4
  <2>2. /\ i \in 1..L /\ j \in 1..L /\ j \notin 1..(i - 1) /\ i \notin 1..(j - 1)
    BY <1>3, <2>1
  <2> QED
    BY <1>1, <2>2
<1>5. ASSUME NEW m \in Released(P, h) PROVE \E i \in new : Targets[i] = m
  <2> DEFINE T == {i \in 1..L : doc.relations[i] = <<h, m>>}
  <2>1. T \subseteq Nat /\ T # {}
    BY <1>1 DEF Released
  <2>2. PICK i \in T : \A j \in T : i <= j
    <3> HIDE DEF T
    <3> QED
      BY <2>1, LeastElement
  <2>3. \A j \in 1..(i - 1) : doc.relations[j] # doc.relations[i]
    <3> SUFFICES ASSUME NEW j \in 1..(i - 1), doc.relations[j] = doc.relations[i] PROVE FALSE
      OBVIOUS
    <3>1. j \in 1..L /\ ~(i <= j)
      BY <1>1, <2>2
    <3> QED
      BY <2>2, <3>1
  <2>4. i \in 1..L /\ doc.relations[i][1] = h /\ Targets[i] = m
    BY <1>2, <2>2
  <2>5. left[Targets[i]] = 0
    BY <2>4 DEF Released
  <2> QED
    BY <1>1, <2>3, <2>4, <2>5 DEF NewPlaces
<1>6. Chosen(Targets, new) = Released(P, h)
  BY <1>3, <1>5 DEF Chosen
<1> QED
  BY <1>1, <1>2, <1>3, <1>4, <1>6

(* Placing the first node of the heap keeps this up.                       *)
LEMMA PlaceKeeps ==
  ASSUME DocumentOK(doc), ~Invalid, Ranked, PlacedOK, Place
  PROVE  PlacedOK'
<1> DEFINE h == ready[1]
           P == Elements(result)
           Q == P \cup {h}
           left == [m \in Nodes |-> waiting[m] - (IF <<h, m>> \in Related THEN 1 ELSE 0)]
           new == {i \in DOMAIN doc.relations :
                     /\ doc.relations[i][1] = h /\ left[Targets[i]] = 0
                     /\ \A j \in 1..(i - 1) : doc.relations[j] # doc.relations[i]}
           heap == PushedAt(Popped(ready), Targets, new)
<1>1. /\ UNCHANGED <<doc, line, rank>> /\ ready # << >>
      /\ result' = Append(result, h) /\ waiting' = left /\ ready' = heap
  BY DEF Place
<1>2. RanksAreNumbers
  BY RanksAre
<1>3. /\ h \in Nodes /\ h \in Elements(ready) /\ h \notin P /\ Waits(P, h) = {}
      /\ \A n \in Elements(ready) : RankOf(h) <= RankOf(n)
  <2>1. ready \in Seq(Nodes) /\ Ordered(ready)
    BY DEF PlacedOK, HeapOK
  <2>2. 1 \in 1..Len(ready) /\ h \in Nodes
    BY <1>1, <2>1
  <2>3. \A n \in Elements(ready) : RankOf(h) <= RankOf(n)
    BY <1>2, <2>1, HeapMin DEF Elements, Values
  <2> QED
    BY <2>2, <2>3 DEF PlacedOK, Elements, Values
<1>4. /\ Len(result) \in Nat /\ Len(result') = Len(result) + 1 /\ result' \in Seq(Nodes)
      /\ result'[Len(result) + 1] = h
      /\ \A i \in 1..Len(result) : result'[i] = result[i] /\ result[i] \in P
  <2>1. result \in Seq(Nodes)
    BY DEF PlacedOK
  <2> QED
    BY <1>1, <1>3, <2>1 DEF Elements, Values
<1>5. \A i \in 0..Len(result) : Values(result', i) = Values(result, i)
  BY <1>4 DEF Values
<1>6. Elements(result') = Q
  BY <1>4, SMTT(30) DEF Elements, Values
<1>7. \A m : /\ Waits(Q, m) = Waits(P, m) \ {h}
             /\ h \in Waits(P, m) <=> <<h, m>> \in Related
  BY <1>3 DEF Waits
<1>8. ASSUME NEW m \in Nodes
      PROVE  left[m] = Cardinality(Waits(Q, m)) /\ (left[m] = 0 <=> Waits(Q, m) = {})
  <2>1. Cardinality(Waits(Q, m)) = IF h \in Waits(P, m) THEN Cardinality(Waits(P, m)) - 1
                                   ELSE Cardinality(Waits(P, m))
    <3>1. IsFiniteSet(Waits(P, m)) /\ Waits(Q, m) = Waits(P, m) \ {h}
      BY <1>7, WaitsAreFinite
    <3> HIDE DEF P, Q, h
    <3> QED
      BY <3>1, FS_RemoveElement
  <2>2. waiting[m] = Cardinality(Waits(P, m)) /\ Cardinality(Waits(P, m)) \in Nat
    BY WaitsAreFinite DEF PlacedOK
  <2>3. left[m] = Cardinality(Waits(Q, m))
    <3>1. h \in Waits(P, m) <=> <<h, m>> \in Related
      BY <1>7
    <3>2. left[m] = waiting[m] - (IF <<h, m>> \in Related THEN 1 ELSE 0)
      OBVIOUS
    <3> HIDE DEF P, Q, h, left
    <3> QED
      BY <2>1, <2>2, <3>1, <3>2
  <2> QED
    BY <2>3, WaitsAreFinite
<1> HIDE DEF left, Q
<1>9. /\ Len(Targets) \in Nat /\ new \subseteq 1..Len(Targets)
      /\ \A i \in new : Targets[i] \in Released(Q, h)
      /\ \A i, j \in new : Targets[i] = Targets[j] => i = j
      /\ Chosen(Targets, new) = Released(Q, h)
  <2>1. \A m \in Nodes : left[m] = 0 <=> Waits(Q, m) = {}
    BY <1>8
  <2>2. new = NewPlaces(h, left)
    BY DEF NewPlaces
  <2> HIDE DEF h, new
  <2> QED
    BY <1>3, <2>1, <2>2, NewAreReleased
<1> HIDE DEF new
<1>10. HeapOK(Popped(ready)) /\ Elements(Popped(ready)) = Elements(ready) \ {h}
  BY <1>1, <1>2, PoppedIsHeap DEF PlacedOK
<1>11. \A m \in Released(Q, h) : m \in Nodes /\ m \notin Elements(ready) /\ m \notin P /\ m # h
  <2> SUFFICES ASSUME NEW m \in Released(Q, h)
               PROVE  m \in Nodes /\ m \notin Elements(ready) /\ m \notin P /\ m # h
    OBVIOUS
  <2>1. m \in Nodes /\ <<h, m>> \in Related
    BY DEF Released
  <2>2. h \in Waits(P, m)
    BY <1>7, <2>1
  <2>3. m \notin Elements(ready)
    BY <2>1, <2>2 DEF PlacedOK
  <2>4. m \notin P
    <3> SUFFICES ASSUME NEW i \in 1..Len(result), m = result[i] PROVE FALSE
      BY DEF Elements, Values
    <3>1. Waits(Values(result, i - 1), m) = {}
      BY DEF PlacedOK
    <3>2. Values(result, i - 1) \subseteq P
      BY <1>4 DEF Elements, Values
    <3> QED
      BY <2>2, <3>1, <3>2 DEF Waits
  <2>5. m # h
    BY <1>3, <2>2
  <2> QED
    BY <2>1, <2>3, <2>4, <2>5
<1>12. HeapOK(heap) /\ Elements(heap) = (Elements(ready) \ {h}) \cup Released(Q, h)
  <2>1. Pushable(Popped(ready), Targets, new)
    BY <1>9, <1>10, <1>11 DEF Pushable
  <2> QED
    BY <1>2, <1>9, <1>10, <2>1, PushedAtIsHeap
<1> HIDE DEF heap
<1>13. ASSUME NEW n \in Nodes PROVE n \in Elements(heap) <=> n \notin Q /\ Waits(Q, n) = {}
  <2>1. n \in Elements(ready) <=> n \notin P /\ Waits(P, n) = {}
    BY DEF PlacedOK
  <2>2. n \in Released(Q, h) <=> <<h, n>> \in Related /\ Waits(Q, n) = {}
    BY DEF Released
  <2>3. <<h, n>> \notin Related => Waits(Q, n) = Waits(P, n)
    <3>1. Waits(Q, n) = Waits(P, n) \ {h} /\ (h \in Waits(P, n) <=> <<h, n>> \in Related)
      BY <1>7
    <3> HIDE DEF P, Q, h
    <3> QED
      BY <3>1
  <2> HIDE DEF P, h
  <2> QED
    BY <1>7, <1>11, <1>12, <2>1, <2>2, <2>3 DEF Q
<1>14. Nodes' = Nodes /\ \A n : RankOf(n)' = RankOf(n)
  BY <1>1 DEF Nodes, RankOf
<1>15. \A S, n : Waits(S, n)' = Waits(S, n)
  BY <1>1, <1>14 DEF Waits, Related
<1>16. HeapOK(ready)' /\ Elements(ready)' = Elements(heap)
  BY <1>1, <1>12, <1>14 DEF HeapOK, Distinct, Ordered, Elements, Values
<1>17. Elements(result)' = Q
  BY <1>6 DEF Elements, Values
<1>18. (result \in Seq(Nodes) /\ Distinct(result))'
  <2>1. \A i, j \in 1..(Len(result) + 1) : result'[i] = result'[j] => i = j
    <3> SUFFICES ASSUME NEW i \in 1..(Len(result) + 1), NEW j \in 1..(Len(result) + 1), result'[i] = result'[j]
                 PROVE  i = j
      OBVIOUS
    <3>1. (i \in 1..Len(result) \/ i = Len(result) + 1) /\ (j \in 1..Len(result) \/ j = Len(result) + 1)
      BY <1>4
    <3>2. \A k, l \in 1..Len(result) : result[k] = result[l] => k = l
      BY DEF PlacedOK, Distinct
    <3> HIDE DEF P
    <3> QED
      BY <1>3, <1>4, <3>1, <3>2
  <2> QED
    BY <1>4, <1>14, <2>1 DEF Distinct
<1>19. (waiting = [n \in Nodes |-> Cardinality(Waits(Elements(result), n))])'
  <2>1. waiting' = [n \in Nodes |-> Cardinality(Waits(Q, n))]
    BY <1>1, <1>8 DEF left
  <2> QED
    BY <1>14, <1>15, <1>17, <2>1
<1>20. (\A n \in Nodes : n \in Elements(ready) <=> n \notin Elements(result) /\ Waits(Elements(result), n) = {})'
  BY <1>13, <1>14, <1>15, <1>16, <1>17
<1>21. \A i \in 1..(Len(result) + 1) : Waits(Values(result', i - 1), result'[i]) = {}
  <2> SUFFICES ASSUME NEW i \in 1..(Len(result) + 1) PROVE Waits(Values(result', i - 1), result'[i]) = {}
    OBVIOUS
  <2>1. Values(result', i - 1) = Values(result, i - 1)
    BY <1>4, <1>5
  <2>2. CASE i = Len(result) + 1
    <3>1. Values(result, i - 1) = P
      BY <1>4, <2>2 DEF Elements
    <3> QED
      BY <1>3, <1>4, <2>1, <2>2, <3>1
  <2>3. CASE i # Len(result) + 1
    <3>1. i \in 1..Len(result)
      BY <1>4, <2>3
    <3> QED
      BY <1>4, <2>1, <3>1 DEF PlacedOK
  <2> QED
    BY <2>2, <2>3
<1>22. ASSUME NEW i \in 1..(Len(result) + 1), NEW n \in Nodes \ Values(result', i), RankOf(n) < RankOf(result'[i])
       PROVE  Waits(Values(result', i - 1), n) # {}
  <2>1. Values(result', i - 1) = Values(result, i - 1)
    BY <1>4, <1>5
  <2>2. CASE i = Len(result) + 1
    <3>1. Values(result, i - 1) = P /\ Values(result', i) = Q
      BY <1>4, <1>6, <2>2 DEF Elements
    <3>2. RankOf(n) \in Int /\ RankOf(h) \in Int
      BY <1>2, <1>3 DEF RanksAreNumbers
    <3>3. n \notin P /\ n \notin Elements(ready)
      BY <1>3, <1>4, <1>22, <2>2, <3>1, <3>2 DEF Q
    <3> QED
      BY <2>1, <3>1, <3>3 DEF PlacedOK
  <2>3. CASE i # Len(result) + 1
    <3>1. i \in 1..Len(result) /\ Values(result', i) = Values(result, i)
      BY <1>4, <1>5, <2>3
    <3> QED
      BY <1>4, <1>22, <2>1, <3>1 DEF PlacedOK
  <2> QED
    BY <2>2, <2>3
<1>23. \A i : (i \in 1..Len(result))' <=> i \in 1..(Len(result) + 1)
  BY <1>4
<1>24. \A i : Values(result, i)' = Values(result', i)
  BY DEF Values
<1>25. (\A i \in 1..Len(result) : Waits(Values(result, i - 1), result[i]) = {})'
  BY <1>15, <1>21, <1>23, <1>24
<1>26. (\A i \in 1..Len(result) : \A n \in Nodes \ Values(result, i) :
          RankOf(n) < RankOf(result[i]) => Waits(Values(result, i - 1), n) # {})'
  BY <1>14, <1>15, <1>22, <1>23, <1>24
<1> QED
  BY <1>16, <1>18, <1>19, <1>20, <1>25, <1>26 DEF PlacedOK

(* No node is placed before one that it waits for.                         *)
LEMMA ResultIsAnOrder ==
  ASSUME DocumentOK(doc), PlacedOK
  PROVE  /\ Len(result) \in Nat /\ DOMAIN result = 1..Len(result)
         /\ \A i \in 1..Len(result) : result[i] \in Nodes
         /\ \A i, j \in 1..Len(result) : <<result[i], result[j]>> \in Related => i < j
<1>1. /\ Len(result) \in Nat /\ DOMAIN result = 1..Len(result)
      /\ \A i \in 1..Len(result) : result[i] \in Nodes
  BY DEF PlacedOK
<1>2. ASSUME NEW i \in 1..Len(result), NEW j \in 1..Len(result), <<result[i], result[j]>> \in Related
      PROVE  i < j
  <2>1. result[i] \in Values(result, j - 1)
    BY <1>1, <1>2 DEF PlacedOK, Waits
  <2>2. PICK k \in 1..(j - 1) : result[i] = result[k]
    BY <2>1 DEF Values
  <2>3. k \in 1..Len(result) /\ k < j
    BY <1>1
  <2> QED
    BY <2>2, <2>3 DEF PlacedOK, Distinct
<1> QED
  BY <1>1, <1>2

(* An order of full length holds every node.                               *)
LEMMA EveryNodeIsPlaced ==
  ASSUME DocumentOK(doc), PlacedOK, Len(result) = Cardinality(Nodes)
  PROVE  Range(result) = Nodes
<1>1. Len(result) \in Nat /\ DOMAIN result = 1..Len(result)
  BY ResultIsAnOrder
<1>2. IsFiniteSet(1..Len(result)) /\ Cardinality(1..Len(result)) = Len(result)
  BY <1>1, FS_Interval
<1>3. result \in Injection(1..Len(result), Nodes)
  BY <1>1, ResultIsAnOrder DEF PlacedOK, Distinct, Injection, IsInjective
<1>4. result \in Surjection(1..Len(result), Nodes)
  <2>1. IsFiniteSet(Nodes)
    BY UnitsAreTyped
  <2> QED
    BY <1>2, <1>3, <2>1, FS_Injection
<1> QED
  BY <1>1, <1>4 DEF Surjection, Range

(* The places of a sequence are as many as its length.                     *)
LEMMA PlacesAreFinite == ASSUME NEW k \in Nat PROVE IsFiniteSet(1..k) /\ Cardinality(1..k) = k
BY FS_Interval

(* An order that holds every node holds it once.                           *)
LEMMA AllPlaced ==
  ASSUME DocumentOK(doc), PlacedOK, Nodes \subseteq Elements(result)
  PROVE  Len(result) = Cardinality(Nodes)
<1>1. Len(result) \in Nat /\ DOMAIN result = 1..Len(result)
  BY ResultIsAnOrder
<1>2. IsFiniteSet(1..Len(result)) /\ Cardinality(1..Len(result)) = Len(result)
  BY <1>1, PlacesAreFinite
<1>3. result \in Injection(1..Len(result), Nodes)
  BY <1>1, ResultIsAnOrder DEF PlacedOK, Distinct, Injection, IsInjective
<1>4. result \in Surjection(1..Len(result), Nodes)
  <2>1. result \in [1..Len(result) -> Nodes]
    BY <1>3 DEF Injection
  <2>2. \A n \in Nodes : \E i \in 1..Len(result) : result[i] = n
    BY DEF Elements, Values
  <2> QED
    BY <2>1, <2>2 DEF Surjection
<1>5. result \in Bijection(1..Len(result), Nodes)
  BY <1>3, <1>4 DEF Bijection
<1> QED
  BY <1>2, <1>5, FS_Bijection DEF ExistsBijection

(* The geometric order decides between two nodes unless the later one had  *)
(* to wait.                                                                *)
LEMMA OrderIsLeast ==
  ASSUME DocumentOK(doc), PlacedOK, NEW i \in 1..Len(result), NEW j \in 1..Len(result), i < j,
         RankOf(result[j]) < RankOf(result[i])
  PROVE  \E k \in i..(j - 1) : <<result[k], result[j]>> \in Related
<1>1. /\ Len(result) \in Nat /\ i \in Int /\ j \in Int
      /\ \A k \in 1..Len(result) : result[k] \in Nodes
      /\ \A k, l \in 1..Len(result) : result[k] = result[l] => k = l
  BY ResultIsAnOrder DEF PlacedOK, Distinct
<1>2. result[j] \notin Values(result, i)
  <2> SUFFICES ASSUME NEW k \in 1..i, result[k] = result[j] PROVE FALSE
    BY DEF Values
  <2>1. k \in 1..Len(result) /\ k # j
    BY <1>1
  <2> QED
    BY <1>1, <2>1
<1>3. Waits(Values(result, i - 1), result[j]) # {}
  BY <1>1, <1>2 DEF PlacedOK
<1>4. PICK m \in Nodes \ Values(result, i - 1) : <<m, result[j]>> \in Related
  BY <1>3 DEF Waits
<1>5. m \in Values(result, j - 1)
  BY <1>4 DEF PlacedOK, Waits
<1>6. PICK k \in 1..(j - 1) : m = result[k]
  BY <1>5 DEF Values
<1>7. k \notin 1..(i - 1)
  BY <1>4, <1>6 DEF Values
<1>8. k \in i..(j - 1)
  BY <1>1, <1>7
<1> QED
  BY <1>4, <1>6, <1>8

(* When nothing is left in the heap, only the length decides how it ended. *)
Finished ==
  /\ DocumentOK(doc) /\ PlacedOK /\ ready = << >>
  /\ step \in {"nesting", "ordered"} => Len(result) = Cardinality(Nodes)
  /\ step = "conflict" => Len(result) # Cardinality(Nodes)

(* A full order is the least extension; in another one, the nodes that are *)
(* left all wait for each other.                                           *)
LEMMA FinishedIsLeast == ASSUME Finished PROVE LeastExtension
<1> USE DEF Finished
<1>1. ASSUME step \in {"nesting", "ordered"}
      PROVE  LET related == Related
                 at == [n \in Nodes |-> RankOf(n)]
             IN  /\ Range(result) = Nodes /\ Len(result) = Cardinality(Nodes)
                 /\ \A i, j \in DOMAIN result :
                       /\ <<result[i], result[j]>> \in related => i < j
                       /\ i < j /\ at[result[j]] < at[result[i]] =>
                            \E k \in i..(j - 1) : <<result[k], result[j]>> \in related
  <2>1. Range(result) = Nodes /\ Len(result) = Cardinality(Nodes)
    BY <1>1, EveryNodeIsPlaced
  <2> SUFFICES ASSUME NEW i \in DOMAIN result, NEW j \in DOMAIN result
               PROVE  /\ <<result[i], result[j]>> \in Related => i < j
                      /\ i < j /\ [n \in Nodes |-> RankOf(n)][result[j]] < [n \in Nodes |-> RankOf(n)][result[i]] =>
                           \E k \in i..(j - 1) : <<result[k], result[j]>> \in Related
    BY <2>1
  <2>2. i \in 1..Len(result) /\ j \in 1..Len(result) /\ result[i] \in Nodes /\ result[j] \in Nodes
    BY ResultIsAnOrder
  <2>3. <<result[i], result[j]>> \in Related => i < j
    BY <2>2, ResultIsAnOrder
  <2>4. i < j /\ RankOf(result[j]) < RankOf(result[i]) => \E k \in i..(j - 1) : <<result[k], result[j]>> \in Related
    BY <2>2, OrderIsLeast
  <2> QED
    BY <2>2, <2>3, <2>4
<1>2. ASSUME step = "conflict" PROVE \E S \in SUBSET Nodes : S # {} /\ Precede(S)
  <2> DEFINE S == Nodes \ Elements(result)
  <2>1. S # {}
    <3> SUFFICES ASSUME Nodes \subseteq Elements(result) PROVE FALSE
      OBVIOUS
    <3>1. Len(result) = Cardinality(Nodes)
      BY AllPlaced
    <3> QED
      BY <1>2, <3>1
  <2>2. \A n \in S : n \notin Elements(ready)
    <3>1. Len(<< >>) = 0
      OBVIOUS
    <3> QED
      BY <3>1 DEF Elements, Values
  <2>3. \A n \in S : Waits(Elements(result), n) # {}
    BY <2>2 DEF PlacedOK
  <2>4. Precede(S)
    BY <2>3 DEF Precede, Waits
  <2> QED
    BY <2>1, <2>4
<1> QED
  BY <1>1, <1>2 DEF LeastExtension

-----------------------------------------------------------------------------
(* The page.                                                               *)
LEMMA LinesAreTyped ==
  ASSUME PageOK(page)
  PROVE  /\ IsFiniteSet(Lines) /\ Lines \subseteq Int
         /\ \A n \in Lines : /\ n \in Int /\ Top(n) \in Int /\ Left(n) \in Int /\ Row(n) \in Int
                             /\ Node(n).role \in {"H", "P", "T"}
         /\ \A role : Is(role) \subseteq Lines /\ IsFiniteSet(Is(role))
<1>1. page.nodes \in Seq([role : {"H", "P", "T"}, top : Int, left : Int, width : Nat \ {0}])
  BY DEF PageOK
<1>2. Len(page.nodes) \in Nat /\ Lines = 1..Len(page.nodes)
  BY <1>1 DEF Lines
<1>3. IsFiniteSet(Lines) /\ Lines \subseteq Int
  BY <1>2, PlacesAreFinite
<1>4. ASSUME NEW n \in Lines
      PROVE  /\ n \in Int /\ Top(n) \in Int /\ Left(n) \in Int /\ Row(n) \in Int
             /\ Node(n).role \in {"H", "P", "T"}
  <2> DEFINE Kinds == [role : {"H", "P", "T"}, top : Int, left : Int, width : Nat \ {0}]
  <2>1. Node(n) \in Kinds
    <3>1. page.nodes \in Seq(Kinds)
      BY <1>1
    <3> HIDE DEF Kinds
    <3> QED
      BY <1>2, <3>1 DEF Node
  <2>2. Top(n) \in Int /\ Left(n) \in Int /\ Node(n).role \in {"H", "P", "T"}
    BY <2>1 DEF Top, Left
  <2>3. RowHeight \in Nat \ {0}
    BY PageOrderAssumption
  <2>4. Row(n) \in Int
    BY <2>2, <2>3 DEF Row
  <2> QED
    BY <1>3, <2>2, <2>4
<1>5. \A role : Is(role) \subseteq Lines
  BY DEF Is
<1>6. ASSUME NEW role PROVE IsFiniteSet(Is(role))
  BY <1>3, <1>5, FS_Subset
<1> QED
  BY <1>3, <1>4, <1>5, <1>6

(* Numbers are sorted upwards.                                             *)
LEMMA SortedUpwards ==
  ASSUME NEW S, IsFiniteSet(S), S \subseteq Int PROVE InOrder(Sorted(S, <), Less, S)
<1> DEFINE N == Cardinality(S)
           s == Sorted(S, <)
<1>1. OrdersSet(Less, S)
  BY LessOrders
<1>2. ASSUME NEW x \in S PROVE Cardinality({y \in S : y < x}) = Count(Less, S, x)
  <2>1. {y \in S : y < x} = Earlier(Less, S, x)
    BY DEF Earlier, Less
  <2> QED
    BY <2>1 DEF Count
<1>3. ASSUME NEW i \in 1..N PROVE s[i] \in S /\ Count(Less, S, s[i]) = i - 1
  <2>1. \E x \in S : Count(Less, S, x) = i - 1
    BY <1>1, EveryCountIsTaken
  <2>2. \E x \in S : Cardinality({y \in S : y < x}) = i - 1
    BY <1>2, <2>1
  <2>3. s[i] = CHOOSE x \in S : Cardinality({y \in S : y < x}) = i - 1
    BY DEF Sorted
  <2>4. s[i] \in S /\ Cardinality({y \in S : y < s[i]}) = i - 1
    <3> HIDE DEF s
    <3> QED
      BY <2>2, <2>3
  <2> QED
    BY <1>2, <2>4, ZenonT(40)
<1>4. s \in [1..N -> S]
  BY <1>3 DEF Sorted
<1> HIDE DEF s
<1> QED
  BY <1>1, <1>3, <1>4, Counting, ZenonT(40) DEF s

(* Pairs are sorted by their ends.                                         *)
PairsBefore == {p \in (Int \X Int) \X (Int \X Int) : PairBefore(p[1], p[2])}

LEMMA PairsAreListed ==
  ASSUME NEW S, IsFiniteSet(S), S \subseteq Int \X Int PROVE InOrder(Sorted(S, PairBefore), PairsBefore, S)
<1> DEFINE N == Cardinality(S)
           s == Sorted(S, PairBefore)
<1>1. OrdersSet(PairsBefore, S)
  <2>1. \A x, y \in S : <<x, y>> \in PairsBefore <=> PairBefore(x, y)
    BY DEF PairsBefore
  <2>2. \A x \in S : x[1] \in Int /\ x[2] \in Int /\ x = <<x[1], x[2]>>
    OBVIOUS
  <2> QED
    BY <2>1, <2>2 DEF OrdersSet, PairBefore
<1>2. ASSUME NEW x \in S PROVE Cardinality({y \in S : PairBefore(y, x)}) = Count(PairsBefore, S, x)
  <2>1. {y \in S : PairBefore(y, x)} = Earlier(PairsBefore, S, x)
    BY DEF Earlier, PairsBefore
  <2> QED
    BY <2>1 DEF Count
<1>3. ASSUME NEW i \in 1..N PROVE s[i] \in S /\ Count(PairsBefore, S, s[i]) = i - 1
  <2>1. \E x \in S : Count(PairsBefore, S, x) = i - 1
    BY <1>1, EveryCountIsTaken
  <2>2. \E x \in S : Cardinality({y \in S : PairBefore(y, x)}) = i - 1
    BY <1>2, <2>1
  <2>3. s[i] = CHOOSE x \in S : Cardinality({y \in S : PairBefore(y, x)}) = i - 1
    BY DEF Sorted
  <2>4. s[i] \in S /\ Cardinality({y \in S : PairBefore(y, s[i])}) = i - 1
    <3> HIDE DEF s
    <3> QED
      BY <2>2, <2>3
  <2> QED
    BY <1>2, <2>4
<1>4. s \in [1..N -> S]
  BY <1>3 DEF Sorted
<1> HIDE DEF s
<1> QED
  BY <1>1, <1>3, <1>4, Counting DEF s

(* The lines of text are sorted by rows.                                   *)
RowPairs == {p \in Lines \X Lines : RowBefore(p[1], p[2])}

LEMMA RowsAreListed == ASSUME PageOK(page) PROVE InOrder(RowByRow, RowPairs, Is("P"))
<1> DEFINE S == Is("P")
           N == Cardinality(S)
           s == RowByRow
<1>1. OrdersSet(RowPairs, S)
  <2>1. IsFiniteSet(S) /\ S \subseteq Lines
    BY LinesAreTyped
  <2>2. \A x, y \in Lines : <<x, y>> \in RowPairs <=> RowBefore(x, y)
    BY DEF RowPairs
  <2>3. \A x \in Lines : x \in Int /\ Row(x) \in Int /\ Left(x) \in Int
    BY LinesAreTyped
  <2>4. \A x, y \in Lines : ~(RowBefore(x, y) /\ RowBefore(y, x)) /\ (x # y => RowBefore(x, y) \/ RowBefore(y, x))
    BY <2>3 DEF RowBefore
  <2>5. \A x, y, z \in Lines : RowBefore(x, y) /\ RowBefore(y, z) => RowBefore(x, z)
    BY <2>3 DEF RowBefore
  <2> HIDE DEF S
  <2> QED
    BY <2>1, <2>2, <2>4, <2>5 DEF OrdersSet
<1>2. ASSUME NEW x \in S PROVE Cardinality({y \in S : RowBefore(y, x)}) = Count(RowPairs, S, x)
  <2>1. {y \in S : RowBefore(y, x)} = Earlier(RowPairs, S, x)
    BY DEF Earlier, RowPairs, Is
  <2> QED
    BY <2>1 DEF Count
<1>3. ASSUME NEW i \in 1..N PROVE s[i] \in S /\ Count(RowPairs, S, s[i]) = i - 1
  <2>1. \E x \in S : Count(RowPairs, S, x) = i - 1
    BY <1>1, EveryCountIsTaken
  <2>2. \E x \in S : Cardinality({y \in S : RowBefore(y, x)}) = i - 1
    BY <1>2, <2>1
  <2>3. s[i] = CHOOSE x \in S : Cardinality({y \in S : RowBefore(y, x)}) = i - 1
    BY DEF Sorted, RowByRow
  <2>4. s[i] \in S /\ Cardinality({y \in S : RowBefore(y, s[i])}) = i - 1
    <3> HIDE DEF s, S
    <3> QED
      BY <2>2, <2>3
  <2> QED
    BY <1>2, <2>4
<1>4. s \in [1..N -> S]
  BY <1>3 DEF Sorted, RowByRow
<1> HIDE DEF s
<1> QED
  BY <1>1, <1>3, <1>4, Counting DEF s

(* Each relation that is read from a page is between two of its nodes.     *)
LEMMA RelationsAreOfThePage ==
  ASSUME PageOK(page)
  PROVE  ContextRelations \cup HeadingRelations \cup BandRelations \cup Continuations \subseteq Lines \X Lines
<1>1. ASSUME NEW r \in ContextRelations PROVE r \in Lines \X Lines
  <2>1. PICK h \in Is("H") :
          r \in LET below == {n \in Lines : Top(n) >= Bottom(h) /\ Within(n, h)}
                    above == {n \in Lines : Bottom(n) <= Top(h) /\ Within(n, h)}
                IN  IF Cardinality({hint[n] : n \in below}) < 2 THEN {}
                    ELSE (above \X {h}) \cup ({h} \X below)
    BY DEF ContextRelations
  <2>2. h \in Lines
    BY DEF Is
  <2> QED
    BY <2>1, <2>2
<1>2. ASSUME NEW r \in HeadingRelations PROVE r \in Lines \X Lines
  BY DEF HeadingRelations, Is
<1>3. ASSUME NEW r \in BandRelations PROVE r \in Lines \X Lines
  <2> DEFINE spans == Sorted(Spans, <)
             starts(b, n) == b > 0 => Top(n) >= Bottom(spans[b])
             ends(b, n) == b < Len(spans) => Bottom(n) <= Top(spans[b + 1])
             band(b) == {n \in Lines \ Spans : starts(b, n) /\ ends(b, n)}
  <2>1. PICK b \in DOMAIN spans : r \in ({spans[b]} \X band(b)) \cup (band(b - 1) \X {spans[b]})
    BY ZenonT(40) DEF BandRelations
  <2>2. Spans \subseteq Lines
    BY ZenonT(40) DEF Spans
  <2>3. IsFiniteSet(Spans) /\ Spans \subseteq Int
    BY <2>2, LinesAreTyped, FS_Subset, ZenonT(40)
  <2>4. InOrder(spans, Less, Spans)
    BY <2>3, SortedUpwards, ZenonT(40)
  <2>5. spans[b] \in Lines
    <3> HIDE DEF spans
    <3> QED
      BY <2>2, <2>4 DEF InOrder
  <2>6. band(b) \subseteq Lines /\ band(b - 1) \subseteq Lines
    BY ZenonT(40)
  <2> HIDE DEF band, spans
  <2> QED
    BY <2>1, <2>5, <2>6
<1>4. Continuations \subseteq Lines \X Lines
  BY DEF Continuations
<1> QED
  BY <1>1, <1>2, <1>3, <1>4

(* A line begins a paragraph, or is joined to the line before.             *)
Begins(i) == \/ i = 1
             \/ ProtectedBoundary(RowByRow[i - 1], RowByRow[i])
             \/ \E x \in Lines \ Is("P") : Intervenes(x, RowByRow[i - 1], RowByRow[i])
             \/ Separated(RowByRow[i - 1], RowByRow[i], MedianGap, BodyMargin)

(* What is true of any merge: a paragraph is one in its column and region, *)
(* nothing but text stands between its lines in their column, and no other *)
(* line of text does between them in the order of the rows.                *)
MergeOK(leads) ==
  /\ leads \in [Lines -> Lines]
  /\ \A n \in Lines : /\ leads[leads[n]] = leads[n]
                      /\ IF n \in Is("P") THEN leads[n] \in Is("P") ELSE leads[n] = n
  /\ \A m, n \in Lines : leads[m] = leads[n] => hint[m] = hint[n] /\ region[m] = region[n]
  /\ \A m, n \in Lines : leads[m] = leads[n] /\ RowBefore(m, n) =>
        /\ \A x \in Lines \ Is("P") : ~Intervenes(x, m, n)
        /\ \A c \in Is("P") : RowBefore(m, c) /\ RowBefore(c, n) => leads[c] = leads[m]

(* The recursion of the merger.                                            *)
LEMMA LeadsAreRuns ==
  ASSUME PageOK(page)
  PROVE  LET N == Cardinality(Is("P"))
         IN  \E led \in [1..N -> Is("P")] :
                /\ \A i \in 1..N : led[i] = IF Begins(i) THEN RowByRow[i] ELSE led[i - 1]
                /\ Leads = [n \in Lines |-> IF n \in Is("P") THEN led[CHOOSE i \in 1..N : RowByRow[i] = n] ELSE n]
<1> DEFINE rows == RowByRow
           N == Cardinality(Is("P"))
           Led(f) == [i \in DOMAIN rows |-> IF Begins(i) THEN rows[i] ELSE f[i - 1]]
           led == CHOOSE f : f = Led(f)
<1>1. Leads = [n \in Lines |-> IF n \in Is("P") THEN led[CHOOSE i \in DOMAIN rows : rows[i] = n] ELSE n]
  BY DEF Leads, Begins
<1>2. N \in Nat /\ Is("P") \subseteq Lines
  BY LinesAreTyped, FS_CardinalityType
<1>3. rows \in [1..N -> Is("P")] /\ DOMAIN rows = 1..N
  <2>1. InOrder(rows, RowPairs, Is("P"))
    BY RowsAreListed
  <2> HIDE DEF rows
  <2> QED
    BY <2>1 DEF InOrder
<1> HIDE DEF rows, N
<1>4. \E f \in [1..N -> Is("P")] : f = Led(f)
  <2> DEFINE m == [i \in 1..N |-> i]
             before == [i \in 1..N |-> IF i = 1 THEN 1 ELSE i - 1]
             stop == {i \in 1..N : Begins(i)}
             then == [z \in (1..N) \X Is("P") |-> z[2]]
  <2>1. m \in [1..N -> 0..N] /\ before \in [1..N -> 1..N] /\ then \in [(1..N) \X Is("P") -> Is("P")]
    BY <1>2
  <2>2. \A i \in (1..N) \ stop : i # 1 /\ before[i] = i - 1 /\ m[before[i]] < m[i]
    BY <1>2 DEF Begins
  <2>3. Grounded(1..N, Is("P"), N, m, before, stop, rows, then)
    <3> HIDE DEF m, before, stop, then
    <3> QED
      BY <1>2, <1>3, <2>1, <2>2 DEF Grounded
  <2>4. PICK f \in [1..N -> Is("P")] :
           \A i \in 1..N : f[i] = IF i \in stop THEN rows[i] ELSE then[<<i, f[before[i]]>>]
    <3> DEFINE X == 1..N
               Y == Is("P")
    <3>1. Grounded(X, Y, N, m, before, stop, rows, then)
      BY <2>3
    <3> HIDE DEF m, before, stop, then, X, Y
    <3>2. \E f \in [X -> Y] : \A i \in X : f[i] = IF i \in stop THEN rows[i] ELSE then[<<i, f[before[i]]>>]
      BY <3>1, Recursion
    <3> QED
      BY <3>2 DEF X, Y
  <2>5. \A i \in 1..N : f[i] = IF Begins(i) THEN rows[i] ELSE f[i - 1]
    <3> SUFFICES ASSUME NEW i \in 1..N PROVE f[i] = IF Begins(i) THEN rows[i] ELSE f[i - 1]
      OBVIOUS
    <3>1. i \in stop <=> Begins(i)
      OBVIOUS
    <3>2. CASE i \in stop
      BY <2>4, <3>1, <3>2
    <3>3. CASE i \notin stop
      <4>1. before[i] = i - 1 /\ before[i] \in 1..N
        BY <2>1, <2>2, <3>3
      <4>2. then[<<i, f[before[i]]>>] = f[i - 1]
        BY <4>1
      <4> HIDE DEF stop, then, before
      <4> QED
        BY <2>4, <3>1, <3>3, <4>2
    <3> QED
      BY <3>2, <3>3
  <2>6. f = Led(f)
    BY <1>3, <2>5
  <2> QED
    BY <2>6
<1>5. led = Led(led) /\ led \in [1..N -> Is("P")]
  <2>1. led = Led(led)
    <3> HIDE DEF Led
    <3> QED
      BY <1>4
  <2>2. \A i \in 1..N : led[i] = IF Begins(i) THEN rows[i] ELSE led[i - 1]
    <3> HIDE DEF led
    <3> QED
      BY <1>3, <2>1
  <2> DEFINE S == {k \in Nat : k \in 1..N => led[k] \in Is("P")}
  <2>3. 0 \in S
    OBVIOUS
  <2>4. ASSUME NEW k \in Nat, k \in S PROVE k + 1 \in S
    <3> SUFFICES ASSUME k + 1 \in 1..N PROVE led[k + 1] \in Is("P")
      OBVIOUS
    <3>1. rows[k + 1] \in Is("P")
      BY <1>3
    <3>2. ~Begins(k + 1) => k \in 1..N /\ (k + 1) - 1 = k
      BY <1>2 DEF Begins
    <3>3. led[k + 1] = IF Begins(k + 1) THEN rows[k + 1] ELSE led[(k + 1) - 1]
      BY <2>2
    <3> QED
      BY <2>4, <3>1, <3>2, <3>3
  <2>5. \A k \in Nat : k \in S
    <3> HIDE DEF S
    <3> QED
      BY <2>3, <2>4, Induction
  <2>6. \A i \in 1..N : led[i] \in Is("P")
    BY <1>2, <2>5
  <2>7. DOMAIN led = 1..N
    <3> HIDE DEF led
    <3> QED
      BY <1>3, <2>1
  <2>8. led = [i \in 1..N |-> led[i]]
    <3> HIDE DEF led
    <3> QED
      BY <1>3, <2>1
  <2> HIDE DEF led
  <2> QED
    BY <2>1, <2>6, <2>8
<1> HIDE DEF led
<1>6. \A i \in 1..N : led[i] = IF Begins(i) THEN rows[i] ELSE led[i - 1]
  BY <1>3, <1>5
<1>7. Leads = [n \in Lines |-> IF n \in Is("P") THEN led[CHOOSE i \in 1..N : rows[i] = n] ELSE n]
  BY <1>1, <1>3
<1> QED
  BY <1>5, <1>6, <1>7 DEF rows, N

(* The merger of an analyzed page.                                         *)
LEMMA LeadsMerge == ASSUME PageOK(page) PROVE MergeOK(Leads)
<1> DEFINE rows == RowByRow
           N == Cardinality(Is("P"))
<1>1. N \in Nat /\ Is("P") \subseteq Lines
  BY LinesAreTyped, FS_CardinalityType
<1>2. InOrder(rows, RowPairs, Is("P"))
  BY RowsAreListed
<1>3. PICK led \in [1..N -> Is("P")] :
         /\ \A i \in 1..N : led[i] = IF Begins(i) THEN rows[i] ELSE led[i - 1]
         /\ Leads = [n \in Lines |-> IF n \in Is("P") THEN led[CHOOSE i \in 1..N : rows[i] = n] ELSE n]
  BY LeadsAreRuns
<1> DEFINE at(n) == CHOOSE i \in 1..N : rows[i] = n
<1>4. /\ rows \in [1..N -> Is("P")]
      /\ \A n \in Is("P") : at(n) \in 1..N /\ rows[at(n)] = n
      /\ \A i, j \in 1..N : rows[i] = rows[j] => i = j
      /\ \A i, j \in 1..N : i < j => RowBefore(rows[i], rows[j])
  <2> HIDE DEF rows, N
  <2>1. /\ rows \in [1..N -> Is("P")]
        /\ \A n \in Is("P") : \E i \in 1..N : rows[i] = n
        /\ \A i, j \in 1..N : rows[i] = rows[j] => i = j
        /\ \A i, j \in 1..N : i < j => <<rows[i], rows[j]>> \in RowPairs
    BY <1>2 DEF InOrder, N
  <2> QED
    BY <2>1 DEF RowPairs
<1>5. ASSUME NEW i \in 1..N, ~Begins(i)
      PROVE  /\ i # 1 /\ i - 1 \in 1..N
             /\ hint[rows[i - 1]] = hint[rows[i]] /\ region[rows[i - 1]] = region[rows[i]]
             /\ \A x \in Lines \ Is("P") : ~Intervenes(x, rows[i - 1], rows[i])
  BY <1>1, <1>5 DEF Begins, ProtectedBoundary
<1> HIDE DEF rows, N
<1> DEFINE Run(j, i) == /\ j <= i /\ led[i] = rows[j] /\ led[j] = rows[j]
                        /\ \A k \in (j + 1)..i : ~Begins(k)
                        /\ hint[rows[j]] = hint[rows[i]] /\ region[rows[j]] = region[rows[i]]
<1>6. \A i \in 1..N : \E j \in 1..N : Run(j, i)
  <2> DEFINE S == {i \in Nat : i \in 1..N => \E j \in 1..N : Run(j, i)}
  <2>1. 0 \in S
    OBVIOUS
  <2>2. ASSUME NEW i \in Nat, i \in S PROVE i + 1 \in S
    <3> SUFFICES ASSUME i + 1 \in 1..N PROVE \E j \in 1..N : Run(j, i + 1)
      OBVIOUS
    <3>0. led[i + 1] = IF Begins(i + 1) THEN rows[i + 1] ELSE led[(i + 1) - 1]
      BY <1>3
    <3>1. CASE Begins(i + 1)
      <4>1. Run(i + 1, i + 1)
        BY <3>0, <3>1
      <4> QED
        BY <4>1
    <3>2. CASE ~Begins(i + 1)
      <4>1. (i + 1) - 1 = i /\ i \in 1..N /\ hint[rows[i]] = hint[rows[i + 1]] /\ region[rows[i]] = region[rows[i + 1]]
        BY <1>5, <3>2
      <4>2. PICK j \in 1..N : Run(j, i)
        BY <2>2, <4>1
      <4>3. \A k \in (j + 1)..(i + 1) : k = i + 1 \/ k \in (j + 1)..i
        BY <1>1
      <4>4. Run(j, i + 1)
        BY <1>1, <3>0, <3>2, <4>1, <4>2, <4>3
      <4> QED
        BY <4>4
    <3> QED
      BY <3>1, <3>2
  <2>3. \A i \in Nat : i \in S
    <3> HIDE DEF S
    <3> QED
      BY <2>1, <2>2, Induction
  <2> QED
    BY <1>1, <2>3
<1>7. ASSUME NEW i \in 1..N, NEW k \in 1..N, i < k, led[i] = led[k]
      PROVE  \A x \in (i + 1)..k : ~Begins(x)
  <2>1. PICK j \in 1..N : Run(j, i)
    BY <1>6
  <2>2. PICK l \in 1..N : Run(l, k)
    BY <1>6
  <2>3. rows[j] = rows[l]
    BY <1>7, <2>1, <2>2
  <2>5. j = l
    BY <1>4, <2>3
  <2>4. \A x \in (i + 1)..k : x \in (j + 1)..k
    BY <1>1, <2>1
  <2> QED
    BY <2>2, <2>5, <2>4
<1>8. ASSUME NEW i \in 1..N, NEW k \in 1..N, led[i] = led[k]
      PROVE  hint[rows[i]] = hint[rows[k]] /\ region[rows[i]] = region[rows[k]]
  <2>1. PICK j \in 1..N : Run(j, i)
    BY <1>6
  <2>2. PICK l \in 1..N : Run(l, k)
    BY <1>6
  <2>3. rows[j] = rows[l]
    BY <1>8, <2>1, <2>2
  <2>4. j = l
    BY <1>4, <2>3
  <2> QED
    BY <2>1, <2>2, <2>4
<1>16. ASSUME NEW i \in 1..N, NEW k \in 1..N, i < k, led[i] = led[k]
       PROVE  \A y \in i..k : led[y] = led[i]
  <2> DEFINE S == {y \in Nat : y \in i..k => led[y] = led[i]}
  <2>1. 0 \in S
    BY <1>1
  <2>2. ASSUME NEW y \in Nat, y \in S PROVE y + 1 \in S
    <3> SUFFICES ASSUME y + 1 \in i..k PROVE led[y + 1] = led[i]
      OBVIOUS
    <3>1. CASE y + 1 = i
      BY <3>1
    <3>2. CASE y + 1 # i
      <4>1. y + 1 \in (i + 1)..k /\ y \in i..k /\ y + 1 \in 1..N /\ (y + 1) - 1 = y
        BY <1>1, <3>2
      <4>2. led[y + 1] = led[y]
        BY <1>3, <1>7, <1>16, <4>1
      <4> QED
        BY <2>2, <4>1, <4>2
    <3> QED
      BY <3>1, <3>2
  <2>3. \A y \in Nat : y \in S
    <3> HIDE DEF S
    <3> QED
      BY <2>1, <2>2, Induction
  <2>4. i..k \subseteq Nat
    BY <1>1
  <2> QED
    BY <2>3, <2>4
<1>9. /\ Leads \in [Lines -> Lines]
      /\ \A n \in Lines \ Is("P") : Leads[n] = n
      /\ \A n \in Is("P") : Leads[n] = led[at(n)] /\ Leads[n] \in Is("P") /\ at(n) \in 1..N /\ rows[at(n)] = n
  <2>1. \A n \in Is("P") : led[at(n)] \in Is("P") /\ at(n) \in 1..N /\ rows[at(n)] = n
    BY <1>4
  <2> HIDE DEF at
  <2>2. Leads = [n \in Lines |-> IF n \in Is("P") THEN led[at(n)] ELSE n]
    BY <1>3 DEF at
  <2> QED
    BY <1>1, <2>1, <2>2
<1> HIDE DEF at
<1>10. ASSUME NEW n \in Is("P") PROVE Leads[Leads[n]] = Leads[n]
  <2>1. PICK j \in 1..N : Run(j, at(n))
    BY <1>6, <1>9
  <2>2. Leads[n] = rows[j] /\ led[j] = rows[j]
    BY <1>9, <2>1
  <2>3. at(rows[j]) = j
    BY <1>4, <1>9
  <2> QED
    BY <1>9, <2>2, <2>3
<1>11. ASSUME NEW m \in Lines, NEW n \in Lines, Leads[m] = Leads[n]
       PROVE  m = n \/ (m \in Is("P") /\ n \in Is("P") /\ led[at(m)] = led[at(n)])
  BY <1>9, <1>11
<1>12. ASSUME NEW m \in Lines, NEW n \in Lines, Leads[m] = Leads[n]
       PROVE  hint[m] = hint[n] /\ region[m] = region[n]
  <2>1. CASE m = n
    BY <2>1
  <2>2. CASE m \in Is("P") /\ n \in Is("P") /\ led[at(m)] = led[at(n)]
    BY <1>8, <1>9, <2>2
  <2> QED
    BY <1>11, <1>12, <2>1, <2>2
<1>13. ASSUME NEW m \in Lines, NEW n \in Lines, Leads[m] = Leads[n], RowBefore(m, n)
       PROVE  /\ m \in Is("P") /\ n \in Is("P") /\ at(m) < at(n) /\ led[at(m)] = led[at(n)]
  <2>1. m # n /\ ~RowBefore(n, m)
    BY <1>13, LinesAreTyped DEF RowBefore
  <2>2. m \in Is("P") /\ n \in Is("P") /\ led[at(m)] = led[at(n)]
    BY <1>11, <1>13, <2>1
  <2>3. at(m) \in Int /\ at(n) \in Int /\ at(m) # at(n) /\ ~(at(n) < at(m))
    BY <1>1, <1>4, <1>9, <2>1, <2>2
  <2> QED
    BY <2>2, <2>3
<1>14. ASSUME NEW m \in Lines, NEW n \in Lines, Leads[m] = Leads[n], RowBefore(m, n), NEW x \in Lines \ Is("P"),
              Intervenes(x, m, n)
       PROVE  FALSE
  <2> DEFINE i == at(m)
             k == at(n)
             T == {l \in (i + 1)..k : Top(x) <= Top(rows[l])}
  <2>1. /\ i \in 1..N /\ k \in 1..N /\ i < k /\ led[i] = led[k] /\ rows[i] = m /\ rows[k] = n
        /\ \A l \in (i + 1)..k : ~Begins(l)
    BY <1>7, <1>9, <1>13, <1>14
  <2> HIDE DEF i, k
  <2>2. Top(x) > Top(m) /\ Top(x) <= Top(n) /\ hint[x] = hint[n]
    BY <1>14 DEF Intervenes
  <2>3. T \subseteq Nat /\ T # {}
    BY <1>1, <2>1, <2>2
  <2>4. PICK l \in T : \A y \in T : l <= y
    <3> HIDE DEF T
    <3> QED
      BY <2>3, LeastElement
  <2>5. /\ l \in 1..N /\ l - 1 \in 1..N /\ ~Begins(l)
        /\ l - 1 = i \/ l - 1 \in (i + 1)..k
    BY <1>1, <2>1, <2>4
  <2>6. ~(Top(x) <= Top(rows[l - 1]))
    <3>1. CASE l - 1 = i
      <4>1. Top(m) \in Int /\ Top(x) \in Int
        BY LinesAreTyped
      <4> QED
        BY <2>1, <2>2, <3>1, <4>1
    <3>2. CASE l - 1 \in (i + 1)..k
      <4>1. ~(l <= l - 1)
        BY <2>5
      <4> QED
        BY <2>4, <3>2, <4>1
    <3> QED
      BY <2>5, <3>1, <3>2
  <2>7. led[l] = led[k]
    <3>1. l \in i..k
      BY <1>1, <2>1, <2>4
    <3> QED
      BY <1>16, <2>1, <3>1
  <2>8. hint[rows[l]] = hint[x]
    BY <1>8, <2>1, <2>2, <2>5, <2>7
  <2>9. rows[l - 1] \in Lines /\ rows[l] \in Lines
    BY <1>1, <1>4, <2>5
  <2>10. Intervenes(x, rows[l - 1], rows[l])
    <3>1. Top(rows[l - 1]) \in Int /\ Top(x) \in Int /\ Top(rows[l]) \in Int
      BY <2>9, LinesAreTyped
    <3> QED
      BY <2>4, <2>6, <2>8, <3>1 DEF Intervenes
  <2> QED
    BY <1>5, <2>5, <2>10
<1>15. ASSUME NEW m \in Lines, NEW n \in Lines, Leads[m] = Leads[n], RowBefore(m, n),
              NEW c \in Is("P"), RowBefore(m, c), RowBefore(c, n)
       PROVE  Leads[c] = Leads[m]
  <2> DEFINE i == at(m)
             k == at(n)
             l == at(c)
  <2>1. /\ i \in 1..N /\ k \in 1..N /\ i < k /\ led[i] = led[k] /\ rows[i] = m /\ rows[k] = n
        /\ \A y \in (i + 1)..k : ~Begins(y)
        /\ l \in 1..N /\ rows[l] = c /\ Leads[c] = led[l] /\ Leads[m] = led[i]
    BY <1>7, <1>9, <1>13, <1>15
  <2> HIDE DEF i, k, l
  <2>2. i < l /\ l < k
    <3>1. ~RowBefore(c, m) /\ ~RowBefore(n, c) /\ m # c /\ n # c
      BY <1>1, <1>15, LinesAreTyped, SMTT(30) DEF RowBefore
    <3>2. ~(l < i) /\ ~(k < l) /\ l # i /\ l # k
      BY <1>4, <2>1, <3>1
    <3> QED
      BY <1>1, <2>1, <3>2
  <2>3. l \in i..k
    BY <1>1, <2>1, <2>2
  <2> QED
    BY <1>16, <2>1, <2>3
<1> QED
  BY <1>1, <1>9, <1>10, <1>12, <1>14, <1>15 DEF MergeOK

(* What the merger writes is a document, and every relation of the page is *)
(* in it unless both of its ends became one node.                          *)
Rebinds == \A r \in relations : lead[r[1]] = lead[r[2]] \/ <<lead[r[1]], lead[r[2]]>> \in Related

(* A finite set of numbers has a smallest one.                             *)
LEMMA LowestOf == ASSUME NEW S, IsFiniteSet(S), S \subseteq Int, S # {} PROVE \E x \in S : \A y \in S : x <= y
<1>1. PICK x \in S : Count(Less, S, x) = 1 - 1
  <2>1. OrdersSet(Less, S)
    BY LessOrders
  <2>2. 1 \in 1..Cardinality(S)
    BY FS_CardinalityType, FS_EmptySet
  <2> QED
    BY <2>1, <2>2, EveryCountIsTaken
<1>2. \A y \in S : x <= y
  <2> SUFFICES ASSUME NEW y \in S, ~(x <= y) PROVE FALSE
    OBVIOUS
  <2>1. <<y, x>> \in Less
    BY DEF Less
  <2>2. Count(Less, S, y) < Count(Less, S, x) /\ Count(Less, S, y) \in Nat
    BY <2>1, LessOrders, CountsGrow
  <2> QED
    BY <1>1, <2>2
<1> QED
  BY <1>2

LEMMA LeastOf ==
  ASSUME NEW S, IsFiniteSet(S), S \subseteq Int, S # {}
  PROVE  Smallest(S) \in S
BY LowestOf DEF Smallest

(* A unit of the merged page is placed where its topmost and its leftmost  *)
(* line are.                                                               *)
LEMMA UnitsOfThePage ==
  ASSUME PageOK(page), hint \in [Lines -> Int], NEW leads \in [Lines -> Lines], NEW n \in Range(leads)
  PROVE  /\ {UnitOf(leads, n).phase, UnitOf(leads, n).column, UnitOf(leads, n).top,
             UnitOf(leads, n).left, UnitOf(leads, n).priority} \subseteq Int
         /\ UnitOf(leads, n).phase = 1 /\ UnitOf(leads, n).level \in Nat
<1> DEFINE members == {m \in Lines : leads[m] = n}
           tops == {Top(m) : m \in members}
           lefts == {Left(m) : m \in members}
           top == [m \in members |-> Top(m)]
           left == [m \in members |-> Left(m)]
<1>1. n \in Lines /\ members # {} /\ members \subseteq Lines
  BY DEF Range
<1>2. IsFiniteSet(members) /\ \A m \in members : Top(m) \in Int /\ Left(m) \in Int
  BY <1>1, LinesAreTyped, FS_Subset
<1>3. top \in Surjection(members, tops) /\ left \in Surjection(members, lefts)
  BY DEF Surjection
<1>4. IsFiniteSet(tops) /\ IsFiniteSet(lefts)
  <2> HIDE DEF members, tops, lefts, top, left
  <2> QED
    BY <1>2, <1>3, FS_Surjection
<1>5. tops \subseteq Int /\ tops # {} /\ lefts \subseteq Int /\ lefts # {}
  BY <1>1, <1>2
<1>6. Smallest(tops) \in Int /\ Smallest(lefts) \in Int
  <2> HIDE DEF tops, lefts
  <2> QED
    BY <1>4, <1>5, LeastOf
<1>7. UnitOf(leads, n).top = Smallest(tops) /\ UnitOf(leads, n).left = Smallest(lefts)
  BY DEF UnitOf
<1>8. UnitOf(leads, n).phase = 1 /\ UnitOf(leads, n).column = hint[n]
  BY DEF UnitOf
<1>9. UnitOf(leads, n).priority \in Int
  <2>1. Node(n).role \in {"H", "P", "T"}
    BY <1>1, LinesAreTyped
  <2>2. UnitOf(leads, n).priority = CASE Node(n).role = "H" -> 0 [] Node(n).role = "P" -> 2 [] Node(n).role = "T" -> 3
    BY DEF UnitOf
  <2> QED
    BY <2>1, <2>2
<1>10. hint[n] \in Int
  BY <1>1
<1>11. UnitOf(leads, n).level \in Nat
  BY DEF UnitOf
<1> QED
  BY <1>6, <1>7, <1>8, <1>9, <1>10, <1>11

LEMMA MergedIsADocument ==
  ASSUME PageOK(page), hint \in [Lines -> Int], relations \subseteq Lines \X Lines,
         NEW leads \in [Lines -> Lines], Merge(leads)
  PROVE  DocumentOK(doc)' /\ Rebinds'
<1> DEFINE bound == Rebound(leads)
           rebind == [q \in relations |-> <<leads[q[1]], leads[q[2]]>>]
           units == [n \in Range(leads) |-> UnitOf(leads, n)]
<1>1. /\ doc' = [units |-> units, relations |-> Sorted(bound, PairBefore)]
      /\ lead' = leads /\ relations' = relations
  BY DEF Merge
<1>2. IsFiniteSet(Lines) /\ Lines \subseteq Int
  BY LinesAreTyped
<1>3. IsFiniteSet(Range(leads)) /\ Range(leads) \subseteq Int
  <2>1. Range(leads) \subseteq Lines
    BY DEF Range
  <2> QED
    BY <1>2, <2>1, FS_Subset
<1>4. IsFiniteSet(bound) /\ bound \subseteq Int \X Int
  <2>1. IsFiniteSet(Lines \X Lines)
    BY <1>2, FS_Product
  <2>2. bound \subseteq Lines \X Lines
    BY DEF Rebound
  <2> HIDE DEF bound
  <2> QED
    BY <1>2, <2>1, <2>2, FS_Subset
<1>5. InOrder(Sorted(bound, PairBefore), PairsBefore, bound)
  <2> HIDE DEF bound
  <2> QED
    BY <1>4, PairsAreListed
<1> DEFINE s == Sorted(bound, PairBefore)
<1>6. s \in Seq(Int \X Int) /\ \A r \in bound : \E i \in DOMAIN s : s[i] = r
  <2>1. Cardinality(bound) \in Nat
    BY <1>4, FS_CardinalityType
  <2> HIDE DEF s, bound
  <2>2. s \in [1..Cardinality(bound) -> bound] /\ \A r \in bound : \E i \in 1..Cardinality(bound) : s[i] = r
    BY <1>5 DEF InOrder, s
  <2>3. s \in [1..Cardinality(bound) -> Int \X Int]
    BY <1>4, <2>2
  <2>4. s \in Seq(Int \X Int)
    <3> DEFINE Pairs == Int \X Int
    <3> HIDE DEF Pairs
    <3>1. s \in [1..Cardinality(bound) -> Pairs]
      BY <2>3 DEF Pairs
    <3>2. s \in Seq(Pairs)
      BY <2>1, <3>1, SeqDef
    <3> QED
      BY <3>2 DEF Pairs
  <2> QED
    BY <2>2, <2>4
<1>7. DOMAIN units = Range(leads) /\ \A n \in Range(leads) : units[n] = UnitOf(leads, n)
  OBVIOUS
<1>8. \A n \in Range(leads) :
        /\ {units[n].phase, units[n].column, units[n].top, units[n].left, units[n].priority} \subseteq Int
        /\ units[n].level \in Nat /\ (units[n].phase # 1 => units[n].level = 0)
  BY <1>7, UnitsOfThePage
<1> HIDE DEF units, s
<1>9. DocumentOK(doc)'
  <2>1. doc'.units = units /\ doc'.relations = s
    BY <1>1 DEF s
  <2> HIDE DEF bound
  <2> QED
    BY <1>3, <1>6, <1>7, <1>8, <2>1 DEF DocumentOK
<1>10. Rebinds'
  <2>1. \A r \in relations : leads[r[1]] = leads[r[2]] \/ <<leads[r[1]], leads[r[2]]>> \in bound
    BY DEF Rebound
  <2>2. bound \subseteq Related'
    <3>1. Related' = Range(s)
      BY <1>1 DEF Related, s
    <3> HIDE DEF bound
    <3> QED
      BY <1>6, <3>1 DEF Range
  <2> HIDE DEF bound
  <2> QED
    BY <1>1, <2>1, <2>2 DEF Rebinds
<1> QED
  BY <1>9, <1>10

-----------------------------------------------------------------------------
(* The pipeline.                                                           *)
OnPage == {"page", "layout", "semantic"}
Sorting == {"lines", "sort", "filling", "placing", "nesting", "ordered", "conflict", "invalid"}
orderVars == <<doc, line, rank, waiting, ready, result>>

(* The page until it is a document, and what is left of its relations.     *)
PageInv ==
  /\ step \in OnPage => PageOK(page)
  /\ step \in {"layout", "semantic"} => hint \in [Lines -> Int]
  /\ step = "semantic" => relations \subseteq Lines \X Lines
  /\ step \notin OnPage /\ page # NoPage => Rebinds
  /\ step = "fallback" => doc.relations = << >>

(* The document through the stages of its order.                           *)
SortInv ==
  /\ step \in OnPage \cup {"lines", "sort", "filling"} => result = << >>
  /\ step \in Sorting => DocumentOK(doc)
  /\ step = "sort" => line = [n \in Nodes |-> Anchor(n)]
  /\ step \in Sorting \ {"lines", "sort", "invalid"} => ~Invalid /\ Ranked
  /\ step \in {"placing", "nesting", "ordered", "conflict"} => PlacedOK
  /\ step \in {"nesting", "ordered", "conflict"} => Finished

(* Steps that leave the order alone.                                       *)
LEMMA OrderUntouched ==
  ASSUME UNCHANGED orderVars
  PROVE  /\ DocumentOK(doc)' <=> DocumentOK(doc)
         /\ Invalid' <=> Invalid
         /\ Ranked' <=> Ranked
         /\ PlacedOK' <=> PlacedOK
<1>1. UNCHANGED <<doc, line, rank, waiting, ready, result>>
  BY DEF orderVars
<1>2. Nodes' = Nodes /\ Related' = Related /\ \A n : Unit(n)' = Unit(n) /\ RankOf(n)' = RankOf(n)
  BY <1>1 DEF Nodes, Related, Unit, RankOf
<1>3. DocumentOK(doc)' <=> DocumentOK(doc)
  BY <1>1 DEF DocumentOK
<1>4. Invalid' <=> Invalid
  BY <1>2 DEF Invalid
<1>5. Ranked' <=> Ranked
  BY <1>1, <1>2 DEF Ranked
<1>6. \A P, n : Waits(P, n)' = Waits(P, n)
  BY <1>2 DEF Waits
<1>7. /\ Elements(result)' = Elements(result) /\ Elements(ready)' = Elements(ready)
      /\ \A i : Values(result, i)' = Values(result, i)
  BY <1>1 DEF Elements, Values
<1>8. HeapOK(ready)' <=> HeapOK(ready)
  BY <1>1, <1>2 DEF HeapOK, Distinct, Ordered
<1>9. Distinct(result)' <=> Distinct(result)
  BY <1>1 DEF Distinct
<1>10. PlacedOK' <=> PlacedOK
  BY <1>1, <1>2, <1>6, <1>7, <1>8, <1>9, ZenonT(40) DEF PlacedOK
<1> QED
  BY <1>3, <1>4, <1>5, <1>10

LEMMA PipelineStarts == PageInit => PageInv /\ SortInv
<1> SUFFICES ASSUME PageInit PROVE PageInv /\ SortInv
  OBVIOUS
<1>1. CASE page \in Pages /\ step = "page"
  BY <1>1, PageOrderAssumption DEF PageInit, NothingInferred, PageInv, SortInv, OnPage, Sorting
<1>2. CASE page = NoPage /\ step = "lines" /\ doc \in Documents
  BY <1>2, ReadingOrderAssumption DEF PageInit, NothingInferred, PageInv, SortInv, OnPage, Sorting
<1> QED
  BY <1>1, <1>2 DEF PageInit

(* Merged or, when the merger failed, copied: a document is written.       *)
LEMMA MergesAreDocuments ==
  ASSUME PageInv, MergeParagraphs \/ MergeFails
  PROVE  DocumentOK(doc)' /\ Rebinds'
<1>1. PageOK(page) /\ hint \in [Lines -> Int] /\ relations \subseteq Lines \X Lines
  BY DEF PageInv, OnPage, MergeParagraphs, MergeFails, Merge
<1>2. CASE MergeParagraphs
  BY <1>1, <1>2, LeadsMerge, MergedIsADocument DEF MergeParagraphs, MergeOK
<1>3. CASE MergeFails
  <2>1. [n \in Lines |-> n] \in [Lines -> Lines]
    OBVIOUS
  <2> QED
    BY <1>1, <1>3, <2>1, MergedIsADocument DEF MergeFails
<1> QED
  BY <1>2, <1>3

LEMMA PageInvIsKept ==
  ASSUME PageInv, [PageNext]_<<readingVars, pageVars>>
  PROVE  PageInv'
<1>1. ASSUME UNCHANGED <<page, hint, relations, lead, doc>>
      PROVE  /\ PageOK(page)' <=> PageOK(page)
             /\ (hint \in [Lines -> Int])' <=> hint \in [Lines -> Int]
             /\ (relations \subseteq Lines \X Lines)' <=> relations \subseteq Lines \X Lines
             /\ (page # NoPage)' <=> page # NoPage
             /\ Rebinds' <=> Rebinds
             /\ (doc.relations = << >>)' <=> doc.relations = << >>
  BY <1>1 DEF PageOK, Lines, Rebinds, Related, NoPage
<1>2. CASE UNCHANGED <<readingVars, pageVars>>
  BY <1>1, <1>2 DEF PageInv, readingVars, pageVars
<1>3. CASE AnalyzePage
  <2>1. step = "page" /\ step' = "layout" /\ page' = page
    BY <1>3 DEF AnalyzePage
  <2>2. PageOK(page)' /\ Lines' = Lines
    BY <2>1 DEF PageInv, OnPage, PageOK, Lines
  <2>3. (hint \in [Lines -> Int])'
    <3>1. hint' = [n \in Lines |-> IF split' = None \/ 2 * Middle(n) < split' THEN 0 ELSE 1]
      BY <1>3 DEF AnalyzePage
    <3> QED
      BY <2>2, <3>1
  <2> QED
    BY <2>1, <2>2, <2>3 DEF PageInv, OnPage
<1>4. CASE InferDocument
  <2>1. step = "layout" /\ step' = "semantic" /\ UNCHANGED <<page, hint>>
    BY <1>4 DEF InferDocument
  <2>2. PageOK(page) /\ PageOK(page)' /\ Lines' = Lines /\ (hint \in [Lines -> Int])'
    BY <2>1 DEF PageInv, OnPage, PageOK, Lines
  <2>3. (relations \subseteq Lines \X Lines)'
    <3>1. relations' = ContextRelations \cup HeadingRelations \cup BandRelations \cup Continuations
      BY <1>4 DEF InferDocument
    <3> QED
      BY <2>2, <3>1, RelationsAreOfThePage
  <2> QED
    BY <2>1, <2>2, <2>3 DEF PageInv, OnPage
<1>5. CASE MergeParagraphs \/ MergeFails
  <2>1. step' = "lines"
    BY <1>5 DEF MergeParagraphs, MergeFails, Merge
  <2>2. Rebinds'
    BY <1>5, MergesAreDocuments
  <2> QED
    BY <2>1, <2>2 DEF PageInv, OnPage
<1>6. CASE Order
  <2>1. /\ step \notin OnPage /\ step' \notin OnPage \cup {"fallback"}
        /\ UNCHANGED <<page, hint, relations, lead, doc>>
    BY <1>6 DEF Order, Next, AssignLines, Sort, Fill, Place, Finish, Nest, Write, OnPage, pageVars
  <2> QED
    BY <1>1, <2>1 DEF PageInv, OnPage
<1>7. CASE OrderFails
  <2>1. /\ step \notin OnPage /\ step' \notin OnPage \cup {"fallback"}
        /\ UNCHANGED <<page, hint, relations, lead, doc>>
    BY <1>7 DEF OrderFails, OnPage, pageVars
  <2> QED
    BY <1>1, <2>1 DEF PageInv, OnPage
<1>8. CASE Recover
  <2>1. /\ step \notin OnPage /\ step' \in {"failed", "fallback"}
        /\ step' = "fallback" => doc.relations = << >>
        /\ UNCHANGED <<page, hint, relations, lead, doc>>
    BY <1>8 DEF Recover, Constrained, OnPage, pageVars
  <2> QED
    BY <1>1, <2>1 DEF PageInv, OnPage
<1> QED
  BY <1>2, <1>3, <1>4, <1>5, <1>6, <1>7, <1>8 DEF PageNext

(* The sort ranks the nodes.                                               *)
LEMMA SortRanks ==
  ASSUME SortInv, Sort
  PROVE  Ranked' /\ Invalid' = Invalid /\ DocumentOK(doc)'
<1>1. DocumentOK(doc) /\ line = [n \in Nodes |-> Anchor(n)]
  BY DEF SortInv, Sort, Sorting
<1>2. doc' = doc /\ rank' = Sorted(Nodes, Before)
  BY DEF Sort
<1>3. Nodes' = Nodes /\ Related' = Related
  BY <1>2 DEF Nodes, Related
<1>4. InOrder(rank', BeforePairs, Nodes)
  BY <1>1, <1>2, NodesAreRanked
<1>5. Ranked'
  BY <1>3, <1>4 DEF Ranked, InOrder
<1>6. Invalid' = Invalid
  BY <1>3 DEF Invalid
<1>7. DocumentOK(doc)'
  BY <1>1, <1>2 DEF DocumentOK
<1> QED
  BY <1>5, <1>6, <1>7

(* The lines of a document depend on nothing else.                         *)
LEMMA AnchorIs == \A n : Anchor(n) = Anchors(Tops(n))[Unit(n).top]
BY DEF Anchor, Anchors, Tops

LEMMA AnchorsStand ==
  ASSUME doc' = doc PROVE Nodes' = Nodes /\ \A n : Anchor(n)' = Anchor(n)
<1>1. Nodes' = Nodes /\ \A n : Unit(n)' = Unit(n)
  BY DEF Nodes, Unit
<1>2. \A n : Peers(n)' = Peers(n)
  BY <1>1 DEF Peers
<1>3. \A n : Tops(n)' = Tops(n)
  BY <1>1, <1>2 DEF Tops
<1>4. (\A n : Anchor(n) = Anchors(Tops(n))[Unit(n).top])'
  BY AnchorIs, PTL
<1>5. \A n : Anchor(n)' = Anchors(Tops(n)')[Unit(n)'.top]
  BY <1>4
<1> QED
  BY <1>1, <1>3, <1>5, AnchorIs

LEMMA SortInvIsKept ==
  ASSUME PageInv, SortInv, [PageNext]_<<readingVars, pageVars>>
  PROVE  SortInv'
<1>1. ASSUME UNCHANGED <<orderVars, step>> PROVE SortInv'
  <2>1. UNCHANGED <<line, result, step, ready, doc>>
    BY <1>1 DEF orderVars
  <2>2. /\ DocumentOK(doc)' <=> DocumentOK(doc)
        /\ Invalid' <=> Invalid
        /\ Ranked' <=> Ranked
        /\ PlacedOK' <=> PlacedOK
    BY <1>1, OrderUntouched
  <2>3. Nodes' = Nodes /\ \A n : Anchor(n)' = Anchor(n)
    BY <2>1, AnchorsStand
  <2>4. Finished' <=> Finished
    BY <2>1, <2>2, <2>3 DEF Finished
  <2> QED
    BY <2>1, <2>2, <2>3, <2>4 DEF SortInv
<1>2. CASE UNCHANGED <<readingVars, pageVars>>
  BY <1>1, <1>2 DEF readingVars, orderVars
<1>3. CASE AnalyzePage \/ InferDocument
  BY <1>3 DEF AnalyzePage, InferDocument, SortInv, OnPage, Sorting
<1>4. CASE MergeParagraphs \/ MergeFails
  <2>1. step = "semantic" /\ step' = "lines" /\ result' = result
    BY <1>4 DEF MergeParagraphs, MergeFails, Merge
  <2>2. DocumentOK(doc)'
    BY <1>4, MergesAreDocuments
  <2> QED
    BY <2>1, <2>2 DEF SortInv, OnPage, Sorting
<1>5. CASE AssignLines
  <2>1. step = "lines" /\ step' = "sort" /\ UNCHANGED <<doc, result>> /\ line' = [n \in Nodes |-> Anchor(n)]
    BY <1>5 DEF AssignLines
  <2>2. Nodes' = Nodes /\ \A n : Anchor(n)' = Anchor(n)
    BY <2>1, AnchorsStand
  <2>3. DocumentOK(doc)'
    BY <2>1 DEF SortInv, Sorting, DocumentOK
  <2> QED
    BY <2>1, <2>2, <2>3 DEF SortInv, OnPage, Sorting
<1>6. CASE Sort
  <2>1. step = "sort" /\ step' = (IF Invalid THEN "invalid" ELSE "filling") /\ result' = result
    BY <1>6 DEF Sort
  <2>2. Ranked' /\ Invalid' = Invalid /\ DocumentOK(doc)'
    BY <1>6, SortRanks
  <2> QED
    BY <2>1, <2>2 DEF SortInv, OnPage, Sorting
<1>7. CASE Fill
  <2>1. step = "filling" /\ step' = "placing" /\ UNCHANGED <<doc, line, rank, result>>
    BY <1>7 DEF Fill
  <2>2. DocumentOK(doc) /\ ~Invalid /\ Ranked /\ result = << >>
    BY <2>1 DEF SortInv, OnPage, Sorting
  <2>3. PlacedOK'
    BY <1>7, <2>2, FillStarts
  <2>4. DocumentOK(doc)' /\ ~Invalid' /\ Ranked'
    BY <2>1, <2>2 DEF DocumentOK, Invalid, Ranked, Nodes, Related
  <2> QED
    BY <2>1, <2>3, <2>4 DEF SortInv, OnPage, Sorting
<1>8. CASE Place
  <2>1. step = "placing" /\ step' = "placing" /\ UNCHANGED <<doc, line, rank>>
    BY <1>8 DEF Place
  <2>2. DocumentOK(doc) /\ ~Invalid /\ Ranked /\ PlacedOK
    BY <2>1 DEF SortInv, OnPage, Sorting
  <2>3. PlacedOK'
    BY <1>8, <2>2, PlaceKeeps
  <2>4. DocumentOK(doc)' /\ ~Invalid' /\ Ranked'
    BY <2>1, <2>2 DEF DocumentOK, Invalid, Ranked, Nodes, Related
  <2> QED
    BY <2>1, <2>3, <2>4 DEF SortInv, OnPage, Sorting
<1>9. CASE Finish
  <2>1. /\ step = "placing" /\ ready = << >> /\ UNCHANGED <<doc, line, rank, waiting, ready, result>>
        /\ step' = IF Len(result) # Cardinality(Nodes) THEN "conflict" ELSE "nesting"
    BY <1>9 DEF Finish
  <2>2. DocumentOK(doc) /\ ~Invalid /\ Ranked /\ PlacedOK
    BY <2>1 DEF SortInv, OnPage, Sorting
  <2>3. DocumentOK(doc)' /\ ~Invalid' /\ Ranked' /\ PlacedOK' /\ Nodes' = Nodes
    BY <2>1, <2>2, OrderUntouched DEF orderVars, Nodes
  <2>4. Finished'
    BY <2>1, <2>3 DEF Finished
  <2> QED
    BY <2>1, <2>3, <2>4 DEF SortInv, OnPage, Sorting
<1>10. CASE Nest
  BY <1>1, <1>10 DEF Nest, orderVars
<1>11. CASE Write
  <2>1. step = "nesting" /\ step' = "ordered" /\ UNCHANGED <<doc, line, rank, waiting, ready, result>>
    BY <1>11 DEF Write
  <2>2. DocumentOK(doc) /\ ~Invalid /\ Ranked /\ PlacedOK /\ Finished
    BY <2>1 DEF SortInv, OnPage, Sorting
  <2>3. DocumentOK(doc)' /\ ~Invalid' /\ Ranked' /\ PlacedOK' /\ Nodes' = Nodes
    BY <2>1, <2>2, OrderUntouched DEF orderVars, Nodes
  <2>4. Finished'
    BY <2>1, <2>2, <2>3 DEF Finished
  <2> QED
    BY <2>1, <2>3, <2>4 DEF SortInv, OnPage, Sorting
<1>12. CASE OrderFails \/ Recover
  <2>1. step' \in {"broken", "failed", "fallback"}
    BY <1>12 DEF OrderFails, Recover
  <2> QED
    BY <2>1 DEF SortInv, OnPage, Sorting
<1> QED
  BY <1>2, <1>3, <1>4, <1>5, <1>6, <1>7, <1>8, <1>9, <1>10, <1>11, <1>12 DEF PageNext, Order, Next

(* What the invariant says of an order.                                    *)
LEMMA SortedByAnOrder == SortInv => ComparatorIsAnOrder
<1> SUFFICES ASSUME SortInv, step = "sort" PROVE ComparatorIsAnOrder
  BY ZenonT(40) DEF ComparatorIsAnOrder
<1>1. OrdersSet(BeforePairs, Nodes)
  BY BeforeOrders DEF SortInv, Sorting
<1>2. ComparatorIsAnOrder <=>
        \A m, n \in Nodes :
           /\ ~(<<m, n>> \in BeforePairs /\ <<n, m>> \in BeforePairs)
           /\ m # n => <<m, n>> \in BeforePairs \/ <<n, m>> \in BeforePairs
           /\ <<m, n>> \in BeforePairs => \A p \in Nodes : <<n, p>> \in BeforePairs => <<m, p>> \in BeforePairs
  BY DEF ComparatorIsAnOrder, BeforePairs
<1> QED
  BY <1>1, <1>2 DEF OrdersSet

(* Each relation is there when the nodes are ordered; without any relation *)
(* there is nothing to obey, whatever the fallback does.                   *)
LEMMA ObeyedAsMerged == PageInv /\ SortInv => RelationsAreObeyed
<1> SUFFICES ASSUME PageInv, SortInv, step \in {"ordered", "fallback"}, page # NoPage,
                    NEW r \in relations, lead[r[1]] # lead[r[2]]
             PROVE  \E i, j \in DOMAIN result : i < j /\ result[i] = lead[r[1]] /\ result[j] = lead[r[2]]
  BY DEF RelationsAreObeyed
<1>1. <<lead[r[1]], lead[r[2]]>> \in Related
  BY DEF PageInv, Rebinds, OnPage
<1>2. CASE step = "fallback"
  <2>1. doc.relations = << >>
    BY <1>2 DEF PageInv
  <2>2. Related = {}
    BY <2>1 DEF Related, Range
  <2> QED
    BY <1>1, <2>2
<1>3. CASE step = "ordered"
  <2>1. ~Invalid /\ Finished /\ PlacedOK /\ DocumentOK(doc)
    BY <1>3 DEF SortInv, Sorting
  <2>2. lead[r[1]] \in Nodes /\ lead[r[2]] \in Nodes
    <3>1. \A q \in Related : q[1] \in Nodes /\ q[2] \in Nodes
      BY <2>1 DEF Invalid
    <3> QED
      BY <1>1, <3>1
  <2>3. Range(result) = Nodes
    BY <1>3, <2>1, EveryNodeIsPlaced DEF Finished
  <2>4. PICK i \in DOMAIN result, j \in DOMAIN result : result[i] = lead[r[1]] /\ result[j] = lead[r[2]]
    BY <2>2, <2>3 DEF Range
  <2>5. i < j
    BY <1>1, <2>1, <2>4, ResultIsAnOrder
  <2> QED
    BY <2>4, <2>5
<1> QED
  BY <1>2, <1>3

LEMMA PipelineInvariants ==
  /\ PageInit => PageInv /\ SortInv
  /\ PageInv /\ SortInv /\ [PageNext]_<<readingVars, pageVars>> => (PageInv /\ SortInv)'
BY PipelineStarts, PageInvIsKept, SortInvIsKept

(* The comparator is a strict total order on the units of every document.  *)
THEOREM ComparatorOrders == PageSpec => []ComparatorIsAnOrder
<1>1. SortInv => ComparatorIsAnOrder
  BY SortedByAnOrder
<1> QED
  BY <1>1, PipelineInvariants, PTL DEF PageSpec

(* The order that is reached is the least one, by geometry, of those that  *)
(* obey every relation, and only a cycle is refused.                       *)
THEOREM OrderIsLeastExtension == PageSpec => []LeastExtension
<1>1. SortInv => LeastExtension
  <2>1. CASE step \in {"nesting", "ordered", "conflict"}
    BY <2>1, FinishedIsLeast DEF SortInv
  <2>2. CASE step \notin {"nesting", "ordered", "conflict"}
    BY <2>2 DEF LeastExtension
  <2> QED
    BY <2>1, <2>2
<1> QED
  BY <1>1, PipelineInvariants, PTL DEF PageSpec

(* Whatever the merger joined, and whether it failed or not, the order of  *)
(* a page obeys each relation that was read from it.                       *)
THEOREM PageIsObeyed == PageSpec => []RelationsAreObeyed
<1>1. PageInv /\ SortInv => RelationsAreObeyed
  BY ObeyedAsMerged
<1> QED
  BY <1>1, PipelineInvariants, PTL DEF PageSpec

-----------------------------------------------------------------------------
(* A page of two columns.                                                  *)
(* The hints are those of the columns.                                     *)
Hints == [n \in Lines |-> IF split = None \/ 2 * Middle(n) < split THEN 0 ELSE 1]

LEMMA BoxesAreTyped ==
  ASSUME PageOK(page)
  PROVE  /\ \A n \in Lines : /\ Bottom(n) \in Int /\ Right(n) \in Int /\ Middle(n) \in Int /\ Node(n).width \in Nat \ {0}
                             /\ Bottom(n) > Top(n) /\ 2 * Left(n) < Middle(n) /\ Middle(n) < 2 * Right(n)
         /\ \A m, n \in Lines : m < n => Top(m) <= Top(n)
<1> DEFINE Kinds == [role : {"H", "P", "T"}, top : Int, left : Int, width : Nat \ {0}]
<1>1. page.nodes \in Seq(Kinds) /\ \A m, n \in Lines : m < n => Top(m) <= Top(n)
  BY DEF PageOK, Lines, Top, Node
<1>2. ASSUME NEW n \in Lines PROVE Node(n) \in Kinds
  <2> HIDE DEF Kinds
  <2> QED
    BY <1>1 DEF Node, Lines
<1>3. LineHeight \in Nat \ {0}
  BY PageOrderAssumption
<1>4. ASSUME NEW n \in Lines
      PROVE  /\ Bottom(n) \in Int /\ Right(n) \in Int /\ Middle(n) \in Int /\ Node(n).width \in Nat \ {0}
             /\ Bottom(n) > Top(n) /\ 2 * Left(n) < Middle(n) /\ Middle(n) < 2 * Right(n)
  <2>1. Node(n).top \in Int /\ Node(n).left \in Int /\ Node(n).width \in Nat \ {0}
    BY <1>2
  <2> QED
    BY <1>3, <2>1 DEF Bottom, Top, Right, Left, Middle
<1> QED
  BY <1>1, <1>4

LEMMA BlocksAreLines ==
  ASSUME PageOK(page)
  PROVE  Blocks \in Seq(Lines \ Is("T"))
<1> DEFINE S == Lines \ Is("T")
           Before_(m, n) == Middle(m) < Middle(n) \/ (Middle(m) = Middle(n) /\ m < n)
           R == {p \in Lines \X Lines : Before_(p[1], p[2])}
           N == Cardinality(S)
           s == Blocks
<1>1. OrdersSet(R, S)
  <2>1. IsFiniteSet(S) /\ S \subseteq Lines
    BY LinesAreTyped, FS_Subset
  <2>2. \A x, y \in Lines : <<x, y>> \in R <=> Before_(x, y)
    OBVIOUS
  <2>3. \A x \in Lines : x \in Int /\ Middle(x) \in Int
    BY LinesAreTyped, BoxesAreTyped
  <2>4. \A x, y \in Lines : ~(Before_(x, y) /\ Before_(y, x)) /\ (x # y => Before_(x, y) \/ Before_(y, x))
    BY <2>3
  <2>5. \A x, y, z \in Lines : Before_(x, y) /\ Before_(y, z) => Before_(x, z)
    BY <2>3
  <2> HIDE DEF S, R, Before_
  <2> QED
    BY <2>1, <2>2, <2>4, <2>5 DEF OrdersSet
<1>2. ASSUME NEW x \in S PROVE Cardinality({y \in S : Before_(y, x)}) = Count(R, S, x)
  <2>1. {y \in S : Before_(y, x)} = Earlier(R, S, x)
    BY DEF Earlier
  <2> QED
    BY <2>1 DEF Count
<1>3. ASSUME NEW i \in 1..N PROVE s[i] \in S
  <2>1. \E x \in S : Count(R, S, x) = i - 1
    <3> HIDE DEF S, R
    <3> QED
      BY <1>1, EveryCountIsTaken
  <2>2. \E x \in S : Cardinality({y \in S : Before_(y, x)}) = i - 1
    BY <1>2, <2>1
  <2>3. s[i] = CHOOSE x \in S : Cardinality({y \in S : Before_(y, x)}) = i - 1
    BY DEF Sorted, Blocks
  <2> QED
    <3> HIDE DEF s, S
    <3> QED
      BY <2>2, <2>3
<1>4. N \in Nat
  BY <1>1, FS_CardinalityType DEF OrdersSet
<1>5. s \in [1..N -> S]
  BY <1>3 DEF Sorted, Blocks
<1>6. s \in Seq(S)
  <2> HIDE DEF s, S, N
  <2> QED
    BY <1>4, <1>5
<1> QED
  BY <1>6

(* The gutter is a number.                                                 *)
LEMMA GutterIsTyped == ASSUME PageOK(page) PROVE Gutter \in Int
<1> DEFINE blocks == Blocks
           L == Len(blocks)
           gap == [i \in 1..(L - 1) |-> Middle(blocks[i + 1]) - Middle(blocks[i])]
           largest == CHOOSE i \in DOMAIN gap : /\ \A j \in DOMAIN gap : gap[j] <= gap[i]
                                                /\ \A j \in 1..(i - 1) : gap[j] < gap[i]
<1>0. Gutter \in {Middle(blocks[largest]) + Middle(blocks[largest + 1]), None} /\ (L < 4 => Gutter = None)
  <2>1. L \in Nat
    BY BlocksAreLines
  <2>2. L < 4 => ~(L >= 4)
    BY <2>1
  <2> HIDE DEF largest
  <2> QED
    BY <2>2 DEF Gutter, largest
<1>1. blocks \in Seq(Lines) /\ L \in Nat
  BY BlocksAreLines
<1>2. \A i \in 1..L : Middle(blocks[i]) \in Int
  <2>1. \A i \in 1..L : blocks[i] \in Lines
    BY <1>1
  <2> QED
    BY <2>1, BoxesAreTyped
<1> HIDE DEF blocks, L
<1>3. CASE L < 4
  BY <1>0, <1>3 DEF None
<1>4. CASE L >= 4
  <2> DEFINE I == 1..(L - 1)
             V == {gap[i] : i \in I}
  <2>1. gap \in [I -> Int] /\ DOMAIN gap = I
    BY <1>1, <1>2
  <2>2. IsFiniteSet(I) /\ I \subseteq Nat /\ 1 \in I
    BY <1>1, <1>4, PlacesAreFinite
  <2> HIDE DEF gap, I
  <2>3. IsFiniteSet(V) /\ V \subseteq Int /\ V # {}
    <3>1. gap \in Surjection(I, V)
      BY <2>1 DEF Surjection
    <3> HIDE DEF V
    <3>2. IsFiniteSet(V)
      BY <2>2, <3>1, FS_Surjection
    <3> QED
      BY <2>1, <2>2, <3>2 DEF V
  <2>4. Max(V) \in V /\ \A v \in V : v <= Max(V)
    <3> HIDE DEF V
    <3> QED
      BY <2>3, Greatest
  <2> DEFINE T == {i \in I : gap[i] = Max(V)}
  <2>5. PICK i \in T : \A j \in T : i <= j
    <3>1. T \subseteq Nat /\ T # {}
      BY <2>2, <2>4
    <3> HIDE DEF T
    <3> QED
      BY <3>1, LeastElement
  <2>6. i \in I /\ \A j \in I : gap[j] <= gap[i]
    BY <2>4, <2>5
  <2>7. \A j \in 1..(i - 1) : gap[j] < gap[i]
    <3> SUFFICES ASSUME NEW j \in 1..(i - 1) PROVE gap[j] < gap[i]
      OBVIOUS
    <3>1. j \in I /\ ~(i <= j)
      BY <1>1, <2>6 DEF I
    <3>2. gap[j] # Max(V)
      BY <2>5, <3>1
    <3> QED
      BY <2>1, <2>5, <2>6, <3>1, <3>2
  <2>8. largest \in I
    <3> HIDE DEF V, T
    <3> QED
      BY <2>1, <2>6, <2>7
  <2>9. largest \in 1..L /\ largest + 1 \in 1..L
    <3> HIDE DEF largest
    <3> QED
      BY <1>1, <2>8 DEF I
  <2> HIDE DEF largest
  <2> QED
    BY <1>0, <1>2, <2>9 DEF None
<1> QED
  BY <1>1, <1>3, <1>4

(* The merger failed.                                                      *)
LEMMA NothingMerged == ASSUME PageOK(page) PROVE MergeOK([n \in Lines |-> n])
<1>1. \A m \in Lines : ~RowBefore(m, m)
  BY LinesAreTyped DEF RowBefore
<1>2. Is("P") \subseteq Lines
  BY LinesAreTyped
<1> QED
  BY <1>1, <1>2 DEF MergeOK

(* How a relation comes about, on a page with text in both columns: a node *)
(* is above a span or below one, follows its heading in the column, or     *)
(* continues a line.                                                       *)
AboveSpan(q) == q[2] \in Spans /\ Bottom(q[1]) <= Top(q[2])
BelowSpan(q) == q[1] \in Spans /\ Bottom(q[1]) <= Top(q[2])
AfterHeading(q) == q[1] \in Is("H") /\ q[2] = q[1] + 1 /\ hint[q[1]] = hint[q[2]]
Continuing(q) == q[1] \in Is("P") /\ q[2] \in Is("P") /\ Bottom(q[1]) <= Top(q[2])

LEMMA Bits == IsFiniteSet({0, 1})
<1>1. {0, 1} = 0..1
  OBVIOUS
<1>2. IsFiniteSet(0..1)
  <2>1. 0 \in Int /\ 1 \in Int
    OBVIOUS
  <2> QED
    BY <2>1, FS_Interval
<1> QED
  BY <1>1, <1>2

LEMMA TwoHints ==
  ASSUME NEW S, NEW h, Cardinality({h[n] : n \in S}) >= 2, \A n \in S : h[n] \in {0, 1}
  PROVE  \E m, n \in S : h[m] = 0 /\ h[n] = 1
<1> DEFINE V == {h[n] : n \in S}
<1>1. IsFiniteSet({0, 1}) /\ V \subseteq {0, 1}
  BY Bits
<1>2. \A x : IsFiniteSet({x}) /\ Cardinality({x}) = 1
  BY FS_Singleton
<1>3. ~(V \subseteq {0}) /\ ~(V \subseteq {1})
  <2> SUFFICES ASSUME NEW x, V \subseteq {x} PROVE FALSE
    OBVIOUS
  <2>1. Cardinality(V) <= 1 /\ Cardinality(V) >= 2
    <3> HIDE DEF V
    <3>1. Cardinality(V) <= Cardinality({x})
      BY <1>2, FS_Subset
    <3> QED
      BY <1>2, <3>1 DEF V
  <2>2. Cardinality(V) \in Nat
    <3> HIDE DEF V
    <3>1. IsFiniteSet(V)
      BY <1>1, FS_Subset
    <3> QED
      BY <3>1, FS_CardinalityType
  <2> QED
    BY <2>1, <2>2
<1> QED
  BY <1>3

LEMMA RelationsAreRead ==
  ASSUME PageOK(page), split \in Int, hint = Hints, TextInBothColumns,
         NEW q \in ContextRelations \cup HeadingRelations \cup BandRelations \cup Continuations
  PROVE  AboveSpan(q) \/ BelowSpan(q) \/ AfterHeading(q) \/ Continuing(q)
<1>1. \A n \in Lines : hint[n] \in {0, 1}
  BY DEF Hints
<1>2. split # None
  <2> SUFFICES ASSUME split = None PROVE FALSE
    OBVIOUS
  <2>1. \A n \in Is("P") : hint[n] = 0
    BY DEF Hints, Is
  <2>2. Cardinality({hint[n] : n \in Is("P")}) >= 2
    <3> DEFINE V == {hint[n] : n \in Is("P")}
    <3>1. V \subseteq {0}
      BY <2>1
    <3> HIDE DEF V
    <3>2. IsFiniteSet(V)
      BY <3>1, FS_Singleton, FS_Subset
    <3>3. Cardinality(V) \in Nat
      BY <3>2, FS_CardinalityType
    <3> QED
      BY <3>3 DEF V, TextInBothColumns
  <2>3. \A n \in Is("P") : hint[n] \in {0, 1}
    BY <2>1
  <2>4. \E m, n \in Is("P") : hint[m] = 0 /\ hint[n] = 1
    BY <2>2, <2>3, TwoHints
  <2> QED
    BY <2>1, <2>4
<1>3. CASE q \in ContextRelations
  <2>1. PICK h \in Is("H") :
          q \in LET below == {n \in Lines : Top(n) >= Bottom(h) /\ Within(n, h)}
                    above == {n \in Lines : Bottom(n) <= Top(h) /\ Within(n, h)}
                IN  IF Cardinality({hint[n] : n \in below}) < 2 THEN {}
                    ELSE (above \X {h}) \cup ({h} \X below)
    BY <1>3 DEF ContextRelations
  <2> DEFINE below == {n \in Lines : Top(n) >= Bottom(h) /\ Within(n, h)}
             above == {n \in Lines : Bottom(n) <= Top(h) /\ Within(n, h)}
  <2>2. ~(Cardinality({hint[n] : n \in below}) < 2) /\ q \in (above \X {h}) \cup ({h} \X below)
    BY <2>1
  <2>3. h \in Lines /\ Node(h).role = "H"
    BY DEF Is
  <2>4. Cardinality({hint[n] : n \in below}) >= 2
    <3> DEFINE V == {hint[n] : n \in below}
    <3>1. V \subseteq {0, 1}
      BY <1>1
    <3>2. Cardinality(V) \in Nat
      <4> HIDE DEF V
      <4>1. IsFiniteSet({0, 1})
        BY Bits
      <4>2. IsFiniteSet(V)
        BY <3>1, <4>1, FS_Subset
      <4> QED
        BY <4>2, FS_CardinalityType
    <3> QED
      BY <2>2, <3>2
  <2>5. PICK m \in below, n \in below : hint[m] = 0 /\ hint[n] = 1
    <3>1. \A k \in below : hint[k] \in {0, 1}
      BY <1>1
    <3> HIDE DEF below
    <3> QED
      BY <2>4, <3>1, TwoHints
  <2>6. 2 * Middle(m) < split /\ ~(2 * Middle(n) < split)
    BY <1>2, <2>5 DEF Hints
  <2>7. 4 * Left(h) < split /\ 4 * Right(h) > split
    <3>1. Left(m) >= Left(h) /\ Right(n) <= Right(h)
      BY <2>5 DEF Within
    <3>2. /\ Left(m) \in Int /\ Left(h) \in Int /\ Right(n) \in Int /\ Right(h) \in Int
          /\ Middle(m) \in Int /\ Middle(n) \in Int
          /\ 2 * Left(m) < Middle(m) /\ Middle(n) < 2 * Right(n)
      BY <2>3, <2>5, LinesAreTyped, BoxesAreTyped
    <3> QED
      BY <2>6, <3>1, <3>2
  <2>8. h \in Spans
    BY <2>3, <2>7 DEF Spans, Is
  <2>9. CASE q \in above \X {h}
    BY <2>8, <2>9 DEF AboveSpan
  <2>10. CASE q \in {h} \X below
    <3>1. q[2] \in Lines /\ q[1] = h /\ Top(q[2]) >= Bottom(h)
      BY <2>10
    <3>2. Top(q[2]) \in Int /\ Bottom(h) \in Int
      BY <2>3, <3>1, LinesAreTyped, BoxesAreTyped
    <3> QED
      BY <2>8, <3>1, <3>2 DEF BelowSpan
  <2> QED
    BY <2>2, <2>9, <2>10
<1>4. CASE q \in HeadingRelations
  BY <1>4 DEF HeadingRelations, AfterHeading
<1>5. CASE q \in BandRelations
  <2> DEFINE spans == Sorted(Spans, <)
             starts(b, n) == b > 0 => Top(n) >= Bottom(spans[b])
             ends(b, n) == b < Len(spans) => Bottom(n) <= Top(spans[b + 1])
             band(b) == {n \in Lines \ Spans : starts(b, n) /\ ends(b, n)}
  <2>1. PICK b \in DOMAIN spans : q \in ({spans[b]} \X band(b)) \cup (band(b - 1) \X {spans[b]})
    BY <1>5, ZenonT(40) DEF BandRelations
  <2>2. Spans \subseteq Lines
    BY ZenonT(40) DEF Spans
  <2>3. IsFiniteSet(Spans) /\ Spans \subseteq Int
    BY <2>2, LinesAreTyped, FS_Subset, ZenonT(40)
  <2>4. InOrder(spans, Less, Spans)
    BY <2>3, SortedUpwards, ZenonT(40)
  <2>5. spans[b] \in Spans /\ b \in Int /\ b > 0 /\ b - 1 < Len(spans) /\ (b - 1) + 1 = b
    <3>1. Cardinality(Spans) \in Nat
      BY <2>3, FS_CardinalityType, ZenonT(40)
    <3> HIDE DEF spans
    <3> QED
      BY <2>1, <2>4, <3>1 DEF InOrder
  <2>6. ASSUME q \in {spans[b]} \X band(b) PROVE BelowSpan(q)
    <3>1. q[1] = spans[b] /\ q[2] \in Lines /\ Top(q[2]) >= Bottom(spans[b])
      BY <2>5, <2>6, ZenonT(40)
    <3>2. Top(q[2]) \in Int /\ Bottom(spans[b]) \in Int
      BY <2>2, <2>5, <3>1, LinesAreTyped, BoxesAreTyped, ZenonT(40)
    <3> HIDE DEF spans
    <3> QED
      BY <2>5, <3>1, <3>2 DEF BelowSpan
  <2>7. ASSUME q \in band(b - 1) \X {spans[b]} PROVE AboveSpan(q)
    BY <2>5, <2>7, ZenonT(40) DEF AboveSpan
  <2> HIDE DEF band, spans
  <2> QED
    BY <2>1, <2>6, <2>7
<1>6. CASE q \in Continuations
  <2>1. q \in Lines \X Lines /\ Continues(q[1], q[2])
    BY <1>6 DEF Continuations
  <2>2. q[1] \in Is("P") /\ q[2] \in Is("P") /\ Top(q[2]) >= Bottom(q[1])
    BY <2>1 DEF Continues
  <2>3. Top(q[2]) \in Int /\ Bottom(q[1]) \in Int
    BY <2>1, LinesAreTyped, BoxesAreTyped
  <2> QED
    BY <2>2, <2>3 DEF Continuing
<1> QED
  BY <1>3, <1>4, <1>5, <1>6

(* How many spans are over a node.                                         *)
SpansOver(n) == Cardinality({s \in Spans : Bottom(s) <= Top(n)})

LEMMA SpansOverGrow ==
  ASSUME PageOK(page)
  PROVE  /\ Spans \subseteq Lines \ Is("T") /\ IsFiniteSet(Spans)
         /\ \A n \in Lines : SpansOver(n) \in Nat
         /\ \A m, n \in Lines : Top(m) <= Top(n) => SpansOver(m) <= SpansOver(n)
         /\ \A s \in Spans, n \in Lines : Bottom(s) <= Top(n) => SpansOver(s) < SpansOver(n)
<1> DEFINE Over(n) == {s \in Spans : Bottom(s) <= Top(n)}
<1>1. Spans \subseteq Lines \ Is("T") /\ IsFiniteSet(Spans)
  <2>1. Spans \subseteq Lines \ Is("T")
    BY DEF Spans
  <2> QED
    BY <2>1, LinesAreTyped, FS_Subset
<1>2. \A n : IsFiniteSet(Over(n)) /\ Cardinality(Over(n)) \in Nat
  <2> SUFFICES ASSUME NEW n PROVE IsFiniteSet(Over(n)) /\ Cardinality(Over(n)) \in Nat
    OBVIOUS
  <2>1. Over(n) \subseteq Spans
    OBVIOUS
  <2> HIDE DEF Over
  <2> QED
    BY <1>1, <2>1, FS_Subset, FS_CardinalityType
<1>3. \A n \in Lines : Top(n) \in Int /\ Bottom(n) \in Int /\ Top(n) < Bottom(n)
  BY LinesAreTyped, BoxesAreTyped
<1>4. ASSUME NEW m \in Lines, NEW n \in Lines, Top(m) <= Top(n)
      PROVE  Over(m) \subseteq Over(n) /\ SpansOver(m) <= SpansOver(n)
  <2>1. Over(m) \subseteq Over(n)
    BY <1>1, <1>3, <1>4
  <2>2. Cardinality(Over(m)) <= Cardinality(Over(n))
    <3> HIDE DEF Over
    <3> QED
      BY <1>2, <2>1, FS_Subset
  <2> QED
    BY <2>1, <2>2 DEF SpansOver
<1>5. ASSUME NEW s \in Spans, NEW n \in Lines, Bottom(s) <= Top(n)
      PROVE  SpansOver(s) < SpansOver(n)
  <2>1. s \in Lines /\ Top(s) <= Top(n) /\ s \in Over(n) /\ s \notin Over(s)
    BY <1>1, <1>3, <1>5
  <2>2. Over(s) \subseteq Over(n) /\ Over(s) # Over(n)
    BY <1>4, <2>1
  <2>3. Cardinality(Over(s)) < Cardinality(Over(n))
    <3> HIDE DEF Over
    <3>1. Cardinality(Over(s)) <= Cardinality(Over(n)) /\ Cardinality(Over(s)) # Cardinality(Over(n))
      BY <1>2, <2>2, FS_Subset
    <3> QED
      BY <1>2, <3>1
  <2> QED
    BY <2>3 DEF SpansOver
<1> QED
  BY <1>1, <1>2, <1>4, <1>5 DEF SpansOver

(* The page as it was merged: what the order's relations come from.        *)
MergedOK ==
  /\ PageOK(page) /\ region = [n \in Lines |-> RegionOf(n)]
  /\ relations \subseteq Lines \X Lines
  /\ TextInBothColumns => \A q \in relations : AboveSpan(q) \/ BelowSpan(q) \/ AfterHeading(q) \/ Continuing(q)
  /\ MergeOK(lead)

(* The lines of one node are in one band; a span is alone.                 *)
LEMMA LinesOfANode ==
  ASSUME MergedOK, NEW m \in Lines, NEW n \in Lines, lead[m] = lead[n]
  PROVE  /\ m \in Spans => n = m
         /\ SpansOver(m) = SpansOver(n)
         /\ hint[m] = hint[n]
<1>1. hint[m] = hint[n] /\ RegionOf(m) = RegionOf(n)
  BY DEF MergedOK, MergeOK
<1>2. \A k \in Spans : RegionOf(k) = <<"span", k>>
  BY DEF RegionOf
<1>3. \A k : k \notin Spans => RegionOf(k) = <<"band", SpansOver(k), hint[k]>>
  BY DEF RegionOf, SpansOver
<1>4. m \in Spans <=> n \in Spans
  BY <1>1, <1>2, <1>3
<1>5. m \in Spans => n = m
  BY <1>1, <1>2, <1>4
<1>6. m \notin Spans => SpansOver(m) = SpansOver(n)
  BY <1>1, <1>3, <1>4
<1> QED
  BY <1>1, <1>5, <1>6

(* The relations do not turn back: nodes of which each comes after another *)
(* one do not exist.                                                       *)
LEMMA NoCycle ==
  ASSUME MergedOK, TextInBothColumns, NEW S, S # {},
         \A n \in S : n \in Lines /\ lead[n] = n,
         \A n \in S : \E q \in relations : lead[q[1]] \in S /\ lead[q[2]] = n /\ lead[q[1]] # n
  PROVE  FALSE
<1>1. /\ PageOK(page) /\ relations \subseteq Lines \X Lines
      /\ \A q \in relations : AboveSpan(q) \/ BelowSpan(q) \/ AfterHeading(q) \/ Continuing(q)
      /\ lead \in [Lines -> Lines]
      /\ \A n \in Lines : IF n \in Is("P") THEN lead[n] \in Is("P") ELSE lead[n] = n
  BY DEF MergedOK, MergeOK
<1>2. \A n \in Lines : n \in Int /\ Top(n) \in Int /\ Bottom(n) \in Int /\ Top(n) < Bottom(n) /\ Row(n) \in Int /\ Left(n) \in Int
  BY <1>1, LinesAreTyped, BoxesAreTyped
<1>3. \A m, n \in Lines : m < n => Top(m) <= Top(n)
  BY <1>1, BoxesAreTyped
<1>4. /\ Spans \subseteq Lines \ Is("T") /\ IsFiniteSet(Spans)
      /\ \A n \in Lines : SpansOver(n) \in Nat
      /\ \A m, n \in Lines : Top(m) <= Top(n) => SpansOver(m) <= SpansOver(n)
      /\ \A s \in Spans, n \in Lines : Bottom(s) <= Top(n) => SpansOver(s) < SpansOver(n)
  BY <1>1, SpansOverGrow
<1>5. /\ IsFiniteSet(Lines) /\ Is("P") \subseteq Lines /\ Is("H") \subseteq Lines
      /\ \A n \in Lines : ~(n \in Is("H") /\ n \in Is("P")) /\ (n \in Is("H") \/ n \in Is("P") \/ n \in Is("T"))
      /\ \A n \in Is("T") : n \notin Is("H") /\ n \notin Is("P")
  <2>1. IsFiniteSet(Lines) /\ \A n \in Lines : Node(n).role \in {"H", "P", "T"}
    BY <1>1, LinesAreTyped
  <2> QED
    BY <2>1 DEF Is
<1>6. ASSUME NEW q \in relations
      PROVE  /\ q[1] \in Lines /\ q[2] \in Lines
             /\ SpansOver(q[1]) <= SpansOver(q[2])
             /\ BelowSpan(q) => SpansOver(q[1]) < SpansOver(q[2])
  <2>1. q[1] \in Lines /\ q[2] \in Lines
    BY <1>1
  <2>2. BelowSpan(q) => SpansOver(q[1]) < SpansOver(q[2])
    BY <1>4, <2>1 DEF BelowSpan
  <2>3. Top(q[1]) <= Top(q[2])
    <3>1. CASE AboveSpan(q) \/ BelowSpan(q) \/ Continuing(q)
      BY <1>2, <2>1, <3>1 DEF AboveSpan, BelowSpan, Continuing
    <3>2. CASE AfterHeading(q)
      BY <1>2, <1>3, <2>1, <3>2 DEF AfterHeading
    <3> QED
      BY <1>1, <3>1, <3>2
  <2> QED
    BY <1>4, <2>1, <2>2, <2>3
<1>7. PICK b \in Nat : /\ \E n \in S : SpansOver(n) = b
                       /\ \A n \in S : b <= SpansOver(n)
  <2> DEFINE T == {SpansOver(n) : n \in S}
  <2>1. T \subseteq Nat /\ T # {}
    BY <1>4
  <2>2. PICK b \in T : \A y \in T : b <= y
    <3> HIDE DEF T
    <3> QED
      BY <2>1, LeastElement
  <2> QED
    BY <2>1, <2>2
<1> DEFINE S0 == {n \in S : SpansOver(n) = b}
<1>8. S0 # {} /\ \A n \in S0 : n \in Lines /\ lead[n] = n
  BY <1>7
(* In the topmost band, nothing comes from below a span.                   *)
<1>9. ASSUME NEW n \in S0
      PROVE  \E q \in relations : /\ lead[q[1]] \in S0 /\ lead[q[2]] = n /\ lead[q[1]] # n
                                  /\ AboveSpan(q) \/ AfterHeading(q) \/ Continuing(q)
  <2>1. PICK q \in relations : lead[q[1]] \in S /\ lead[q[2]] = n /\ lead[q[1]] # n
    OBVIOUS
  <2>2. /\ q[1] \in Lines /\ q[2] \in Lines /\ SpansOver(q[1]) <= SpansOver(q[2])
        /\ BelowSpan(q) => SpansOver(q[1]) < SpansOver(q[2])
    BY <1>6
  <2>3. SpansOver(lead[q[1]]) = SpansOver(q[1]) /\ SpansOver(n) = SpansOver(q[2])
    <3>1. lead[q[1]] \in Lines /\ lead[lead[q[1]]] = lead[q[1]] /\ lead[n] = lead[q[2]] /\ n \in Lines
      BY <1>1, <2>1, <2>2
    <3> QED
      BY <2>2, <3>1, LinesOfANode
  <2>4. SpansOver(q[1]) = b /\ SpansOver(q[2]) = b
    <3>1. b <= SpansOver(lead[q[1]]) /\ SpansOver(n) = b
      BY <1>7, <2>1
    <3>2. SpansOver(q[1]) \in Nat /\ SpansOver(q[2]) \in Nat
      BY <1>4, <2>2
    <3> QED
      BY <2>2, <2>3, <3>1, <3>2
  <2> QED
    BY <1>1, <2>1, <2>2, <2>3, <2>4
<1> HIDE DEF S0
<1>10. \A n \in Lines : lead[n] \in Is("P") => n \in Is("P")
  BY <1>1
<1> DEFINE M == {s \in S0 \cap Spans : \E a \in Lines : lead[a] \in S0 /\ Bottom(a) <= Top(s)}
(* Over a heading there is a span that comes after something.              *)
<1>11. ASSUME NEW z \in S0, z \in Is("H")
       PROVE  \E g \in M : g \in Is("H") /\ Top(g) <= Top(z) /\ hint[g] = hint[z]
  <2> DEFINE D == {w \in S0 \cap Is("H") : w <= z /\ hint[w] = hint[z]}
  <2>1. D \subseteq Nat /\ z \in D
    <3>1. Lines \subseteq Nat
      <4>1. page.nodes \in Seq([role : {"H", "P", "T"}, top : Int, left : Int, width : Nat \ {0}])
        BY <1>1 DEF PageOK
      <4>2. Lines = 1..Len(page.nodes)
        BY <4>1 DEF Lines
      <4> QED
        BY <4>2
    <3>2. z \in Int
      BY <1>2, <1>5, <1>11
    <3>3. z \in D
      BY <1>11, <3>2
    <3>4. D \subseteq Nat
      BY <1>5, <3>1
    <3> QED
      BY <3>3, <3>4
  <2>2. PICK w \in D : \A v \in D : w <= v
    <3> HIDE DEF D
    <3> QED
      BY <2>1, LeastElement
  <2>3. PICK q \in relations : /\ lead[q[1]] \in S0 /\ lead[q[2]] = w /\ lead[q[1]] # w
                               /\ AboveSpan(q) \/ AfterHeading(q) \/ Continuing(q)
    BY <1>9
  <2>4. w \in Lines /\ w \notin Is("P") /\ q[1] \in Lines /\ q[2] \in Lines
    BY <1>5, <1>6
  <2>5. q[2] = w
    BY <1>1, <2>3, <2>4
  <2>6. ~Continuing(q)
    BY <2>4, <2>5 DEF Continuing
  <2>7. CASE AboveSpan(q)
    <3>1. w \in M
      BY <2>3, <2>4, <2>5, <2>7 DEF AboveSpan
    <3>2. Top(w) <= Top(z)
      <4>1. w < z \/ w = z
        BY <1>2, <1>5, <1>11, <2>4
      <4> QED
        BY <1>2, <1>3, <1>5, <1>11, <2>4, <4>1
    <3> QED
      BY <3>1, <3>2
  <2>8. CASE AfterHeading(q)
    <3>1. q[1] \in Is("H") /\ w = q[1] + 1 /\ hint[q[1]] = hint[w]
      BY <2>5, <2>8 DEF AfterHeading
    <3>2. q[1] \in S0
      BY <1>1, <1>5, <2>3, <2>4, <3>1
    <3>3. q[1] \in Int /\ w \in Int /\ z \in Int
      BY <1>2, <1>5, <2>4, <1>11
    <3>4. q[1] \in D
      BY <3>1, <3>2, <3>3
    <3> QED
      BY <2>2, <3>1, <3>3, <3>4
  <2> QED
    BY <2>3, <2>6, <2>7, <2>8
(* And so there is over anything else.                                     *)
<1>12. ASSUME NEW a \in Lines, lead[a] \in S0
       PROVE  \E g \in M : Top(g) < Bottom(a)
  <2>1. CASE a \in Is("H")
    <3>1. a \in S0
      BY <1>1, <1>5, <1>12, <2>1
    <3>2. PICK g \in M : Top(g) <= Top(a)
      BY <1>11, <2>1, <3>1
    <3>3. g \in Lines
      BY <1>4
    <3> QED
      BY <1>2, <3>2, <3>3
  <2>2. CASE a \in Is("T")
    <3>1. lead[a] = a /\ a \in S0 /\ a \notin Is("P")
      BY <1>1, <1>5, <1>12, <2>2
    <3>2. PICK q \in relations : /\ lead[q[1]] \in S0 /\ lead[q[2]] = a /\ lead[q[1]] # a
                                 /\ AboveSpan(q) \/ AfterHeading(q) \/ Continuing(q)
      BY <1>9, <3>1
    <3>3. q[1] \in Lines /\ q[2] = a
      BY <1>1, <1>6, <3>1, <3>2
    <3>4. AfterHeading(q)
      BY <1>4, <2>2, <3>1, <3>2, <3>3 DEF AboveSpan, Continuing
    <3>5. q[1] \in Is("H") /\ a = q[1] + 1
      BY <3>3, <3>4 DEF AfterHeading
    <3>6. q[1] \in S0
      BY <1>1, <1>5, <3>2, <3>3, <3>5
    <3>7. PICK g \in M : Top(g) <= Top(q[1])
      BY <1>11, <3>5, <3>6
    <3>8. g \in Lines /\ Top(q[1]) <= Top(a)
      <4>1. q[1] < a
        <5>1. q[1] \in Int
          BY <1>2, <3>3
        <5> QED
          BY <3>5, <5>1
      <4> QED
        BY <1>3, <1>4, <3>3, <4>1
    <3> QED
      BY <1>2, <3>3, <3>7, <3>8
  <2>3. CASE a \in Is("P")
    <3> DEFINE W == {c \in Is("P") : lead[c] \in S0 /\ (RowBefore(c, a) \/ lead[c] = lead[a])}
    <3>1. PICK c \in W : \A d \in W : d = c \/ RowBefore(c, d)
      <4> DEFINE R == {p \in Lines \X Lines : RowBefore(p[1], p[2])}
      <4>1. OrdersSet(R, W)
        <5>1. W \subseteq Lines /\ IsFiniteSet(W)
          BY <1>5, FS_Subset
        <5>2. \A x, y \in Lines : <<x, y>> \in R <=> RowBefore(x, y)
          OBVIOUS
        <5>3. \A x, y \in Lines : ~(RowBefore(x, y) /\ RowBefore(y, x)) /\ (x # y => RowBefore(x, y) \/ RowBefore(y, x))
          BY <1>2 DEF RowBefore
        <5>4. \A x, y, z \in Lines : RowBefore(x, y) /\ RowBefore(y, z) => RowBefore(x, z)
          BY <1>2 DEF RowBefore
        <5> HIDE DEF W, R
        <5> QED
          BY <5>1, <5>2, <5>3, <5>4 DEF OrdersSet
      <4>2. a \in W
        BY <1>12, <2>3
      <4>3. W \subseteq Lines
        BY <1>5
      <4> HIDE DEF W
      <4>4. Cardinality(W) \in Nat /\ Cardinality(W) # 0
        BY <4>1, <4>2, FS_CardinalityType, FS_EmptySet DEF OrdersSet
      <4>5. 1 \in 1..Cardinality(W)
        BY <4>4
      <4>6. PICK c \in W : Count(R, W, c) = 1 - 1
        <5> HIDE DEF R
        <5> QED
          BY <4>1, <4>5, EveryCountIsTaken
      <4>7. \A d \in W : ~(<<d, c>> \in R)
        <5> HIDE DEF R
        <5>1. \A x, y \in W : <<x, y>> \in R => Count(R, W, x) < Count(R, W, y)
          BY <4>1, CountsGrow
        <5>2. \A x \in W : Count(R, W, x) \in Nat
          BY <4>1, CountsGrow
        <5> QED
          BY <4>6, <5>1, <5>2
      <4>8. \A d \in W : d = c \/ <<c, d>> \in R
        <5> HIDE DEF R
        <5> QED
          BY <4>1, <4>7 DEF OrdersSet
      <4> QED
        BY <4>3, <4>8
    <3>2. c \in Lines /\ c \in Is("P") /\ lead[c] \in S0 /\ (c = a \/ RowBefore(c, a))
      <4>1. a \in W
        BY <1>12, <2>3
      <4> QED
        BY <1>5, <3>1, <4>1
    <3>3. PICK q \in relations : /\ lead[q[1]] \in S0 /\ lead[q[2]] = lead[c] /\ lead[q[1]] # lead[c]
                                 /\ AboveSpan(q) \/ AfterHeading(q) \/ Continuing(q)
      BY <1>9, <3>2
    <3>4. q[1] \in Lines /\ q[2] \in Lines /\ q[2] \in Is("P") /\ lead[q[2]] \in S0
      BY <1>1, <1>6, <1>10, <3>2, <3>3
    <3>5. \A m, n \in Lines : lead[m] = lead[n] /\ RowBefore(m, n) =>
             /\ \A x \in Lines \ Is("P") : ~Intervenes(x, m, n)
             /\ \A d \in Is("P") : RowBefore(m, d) /\ RowBefore(d, n) => lead[d] = lead[m]
      BY DEF MergedOK, MergeOK
    <3>6. \A m, n \in Lines : RowBefore(m, n) \/ RowBefore(n, m) \/ m = n
      BY <1>2 DEF RowBefore
    <3>7. q[2] \in W /\ (q[2] = c \/ RowBefore(c, q[2]))
      <4>1. ~(RowBefore(a, q[2]) /\ lead[q[2]] # lead[a])
        <5> SUFFICES ASSUME RowBefore(a, q[2]), lead[q[2]] # lead[a] PROVE FALSE
          OBVIOUS
        <5>1. RowBefore(c, a) /\ lead[c] = lead[q[2]]
          BY <3>2, <3>3
        <5>2. RowBefore(c, q[2])
          BY <1>2, <3>2, <3>4, <5>1 DEF RowBefore
        <5> QED
          BY <2>3, <3>2, <3>4, <3>5, <5>1, <5>2
      <4>2. RowBefore(q[2], a) \/ lead[q[2]] = lead[a]
        BY <3>4, <3>6, <4>1
      <4>3. q[2] \in W
        BY <3>4, <4>2
      <4> QED
        BY <3>1, <4>3
    <3>8. Top(c) < Bottom(a)
      <4>1. Row(c) <= Row(a)
        BY <1>2, <3>2 DEF RowBefore
      <4>2. RowHeight \in Nat \ {0} /\ LineHeight \in Nat /\ LineHeight >= RowHeight
        BY PageOrderAssumption
      <4>3. Top(c) < Top(a) + RowHeight
        <5>1. Top(c) \in Int /\ Top(a) \in Int
          BY <1>2, <3>2
        <5>2. Top(c) = (RowHeight * (Top(c) \div RowHeight)) + (Top(c) % RowHeight)
          BY <4>2, <5>1
        <5> DEFINE i == Top(c) \div RowHeight
                   j == Top(a) \div RowHeight
        <5>3. i \in Int /\ j \in Int /\ i <= j
          BY <4>1, <4>2, <5>1 DEF Row
        <5>4. RowHeight * i <= RowHeight * j
          <6> HIDE DEF i, j
          <6> QED
            BY <4>2, <5>3
        <5>5. Top(a) = (RowHeight * j) + (Top(a) % RowHeight) /\ Top(a) % RowHeight \in 0..(RowHeight - 1)
          BY <4>2, <5>1
        <5>6. Top(c) % RowHeight \in 0..(RowHeight - 1)
          BY <4>2, <5>1
        <5>7. RowHeight * i \in Int /\ RowHeight * j \in Int
          BY <4>2, <5>3
        <5> DEFINE u == RowHeight * i
                   v == RowHeight * j
        <5>8. /\ Top(c) = u + (Top(c) % RowHeight) /\ Top(a) = v + (Top(a) % RowHeight)
              /\ u <= v /\ u \in Int /\ v \in Int
          BY <5>2, <5>4, <5>5, <5>7
        <5> HIDE DEF u, v
        <5> QED
          BY <4>2, <5>1, <5>5, <5>6, <5>8
      <4> QED
        BY <1>2, <3>2, <4>2, <4>3 DEF Bottom
    <3>9. CASE AboveSpan(q)
      <4>1. q[2] \in Spans /\ Bottom(q[1]) <= Top(q[2])
        BY <3>9 DEF AboveSpan
      <4>2. lead[c] \in Lines /\ lead[lead[c]] = lead[c]
        BY <1>8, <3>2
      <4>3. q[2] = c /\ q[2] = lead[c]
        BY <3>2, <3>3, <3>4, <4>1, <4>2, LinesOfANode
      <4>4. c \in M
        BY <3>2, <3>3, <3>4, <4>1, <4>3
      <4> QED
        BY <3>8, <4>4
    <3>10. CASE Continuing(q)
      <4>1. q[1] \in Is("P") /\ Bottom(q[1]) <= Top(q[2])
        BY <3>10 DEF Continuing
      <4>2. RowBefore(q[1], q[2])
        <5>1. RowHeight \in Nat \ {0} /\ LineHeight \in Nat /\ LineHeight >= RowHeight
          BY PageOrderAssumption
        <5>2. Top(q[1]) + RowHeight <= Top(q[2]) /\ Top(q[1]) \in Int /\ Top(q[2]) \in Int
          BY <1>2, <3>4, <4>1, <5>1 DEF Bottom
        <5>3. Row(q[1]) < Row(q[2])
          BY <5>1, <5>2 DEF Row
        <5> QED
          BY <5>3 DEF RowBefore
      <4>3. ~RowBefore(q[1], c) /\ q[1] # c
        <5> SUFFICES ASSUME RowBefore(q[1], c) PROVE FALSE
          BY <3>3
        <5>1. RowBefore(q[1], a)
          BY <1>2, <3>2, <3>4 DEF RowBefore
        <5>2. q[1] \in W
          BY <3>3, <4>1, <5>1
        <5> QED
          BY <1>2, <3>1, <3>2, <3>4, <5>2 DEF RowBefore
      <4>4. RowBefore(c, q[1]) /\ RowBefore(c, q[2])
        BY <1>2, <3>2, <3>4, <3>6, <4>2, <4>3 DEF RowBefore
      <4>5. lead[q[1]] = lead[c]
        BY <3>2, <3>3, <3>4, <3>5, <4>1, <4>2, <4>4
      <4> QED
        BY <3>3, <4>5
    <3>11. CASE AfterHeading(q)
      <4>1. q[1] \in Is("H") /\ q[2] = q[1] + 1 /\ hint[q[1]] = hint[q[2]]
        BY <3>11 DEF AfterHeading
      <4>2. q[1] \in S0
        BY <1>1, <1>5, <3>3, <3>4, <4>1
      <4>3. PICK g \in M : g \in Is("H") /\ Top(g) <= Top(q[1]) /\ hint[g] = hint[q[1]]
        BY <1>11, <4>1, <4>2
      <4>4. g \in Lines /\ g \notin Is("P") /\ Top(q[1]) <= Top(q[2])
        BY <1>2, <1>3, <1>5, <3>4, <4>1, <4>3
      <4>5. Top(g) <= Top(c)
        <5>1. CASE q[2] = c
          BY <1>2, <3>2, <3>4, <4>3, <4>4, <5>1
        <5>2. CASE RowBefore(c, q[2])
          <6>1. ~Intervenes(g, c, q[2])
            BY <3>2, <3>3, <3>4, <3>5, <4>4, <5>2
          <6> QED
            BY <1>2, <3>2, <3>4, <4>1, <4>3, <4>4, <6>1 DEF Intervenes
        <5> QED
          BY <3>7, <5>1, <5>2
      <4> QED
        BY <1>2, <3>2, <3>8, <4>3, <4>4, <4>5
    <3> QED
      BY <3>3, <3>9, <3>10, <3>11
  <2> QED
    BY <1>5, <2>1, <2>2, <2>3
<1>13. M # {} /\ M \subseteq Lines
  <2>1. PICK z \in S0 : TRUE
    BY <1>8
  <2>2. z \in Lines /\ lead[z] \in S0
    BY <1>8, <2>1
  <2> QED
    BY <1>4, <1>12, <2>2
(* The topmost of these spans comes after something over it, and so after  *)
(* another one that is over that.                                          *)
<1>14. PICK s \in M : \A g \in M : Top(s) <= Top(g)
  <2> DEFINE T == {Top(n) : n \in M}
             top == [n \in M |-> Top(n)]
  <2>1. IsFiniteSet(T) /\ T \subseteq Int /\ T # {}
    <3>1. T \subseteq Int /\ T # {}
      BY <1>2, <1>13
    <3>2. top \in Surjection(M, T)
      BY DEF Surjection
    <3>3. IsFiniteSet(M)
      BY <1>5, <1>13, FS_Subset
    <3> HIDE DEF M, T, top
    <3>4. IsFiniteSet(T)
      BY <3>2, <3>3, FS_Surjection
    <3> QED
      BY <3>1, <3>4
  <2>2. \E x \in T : \A y \in T : x <= y
    <3> HIDE DEF T
    <3>1. Smallest(T) \in T
      BY <2>1, LeastOf
    <3> QED
      BY <2>1, LowestOf
  <2> QED
    BY <2>2
<1>15. PICK a \in Lines : lead[a] \in S0 /\ Bottom(a) <= Top(s)
  BY <1>14
<1>16. PICK g \in M : Top(g) < Bottom(a)
  BY <1>12, <1>15
<1> QED
  BY <1>2, <1>4, <1>14, <1>15, <1>16

(* How the document was read from the page.                                *)
Read == /\ region = [n \in Lines |-> RegionOf(n)]
        /\ TextInBothColumns => \A q \in relations : AboveSpan(q) \/ BelowSpan(q) \/ AfterHeading(q) \/ Continuing(q)

Bound == /\ \A n \in Nodes : n \in Lines /\ lead[n] = n
         /\ \A r \in Related : r[1] # r[2] /\ \E q \in relations : r = <<lead[q[1]], lead[q[2]]>>

ColumnInv ==
  /\ step = "layout" => split \in Int /\ hint = Hints
  /\ step = "semantic" => Read
  /\ step \notin OnPage /\ page # NoPage => MergedOK /\ Bound

LEMMA PageStands ==
  ASSUME UNCHANGED <<page, split, hint>>
  PROVE  /\ Lines' = Lines /\ Spans' = Spans /\ Hints' = Hints /\ (TextInBothColumns' <=> TextInBothColumns)
         /\ \A n : Top(n)' = Top(n) /\ Bottom(n)' = Bottom(n) /\ RegionOf(n)' = RegionOf(n)
         /\ \A role : Is(role)' = Is(role)
         /\ \A m, n : RowBefore(m, n)' <=> RowBefore(m, n)
         /\ \A x, m, n : Intervenes(x, m, n)' <=> Intervenes(x, m, n)
         /\ \A q : /\ AboveSpan(q)' <=> AboveSpan(q)
                   /\ BelowSpan(q)' <=> BelowSpan(q)
                   /\ AfterHeading(q)' <=> AfterHeading(q)
                   /\ Continuing(q)' <=> Continuing(q)
         /\ PageOK(page)' <=> PageOK(page)
         /\ (page # NoPage)' <=> page # NoPage
<1>1. Lines' = Lines /\ \A n : Node(n)' = Node(n)
  BY DEF Lines, Node
<1>2. \A n : Top(n)' = Top(n) /\ Bottom(n)' = Bottom(n) /\ Left(n)' = Left(n) /\ Right(n)' = Right(n) /\ Middle(n)' = Middle(n)
  BY <1>1 DEF Top, Bottom, Left, Right, Middle
<1>3. \A role : Is(role)' = Is(role)
  BY <1>1 DEF Is
<1>4. TextInBothColumns' <=> TextInBothColumns
  BY <1>3 DEF TextInBothColumns
<1>5. Spans' = Spans
  BY <1>1, <1>2, <1>3, <1>4 DEF Spans
<1>6. \A n : RegionOf(n)' = RegionOf(n)
  BY <1>2, <1>5 DEF RegionOf
<1>7. Hints' = Hints
  BY <1>1, <1>2 DEF Hints
<1>8. \A m, n : RowBefore(m, n)' <=> RowBefore(m, n)
  BY <1>2 DEF RowBefore, Row
<1>9. \A x, m, n : Intervenes(x, m, n)' <=> Intervenes(x, m, n)
  BY <1>2 DEF Intervenes
<1>10. \A q : /\ AboveSpan(q)' <=> AboveSpan(q)
              /\ BelowSpan(q)' <=> BelowSpan(q)
              /\ AfterHeading(q)' <=> AfterHeading(q)
              /\ Continuing(q)' <=> Continuing(q)
  BY <1>2, <1>3, <1>5 DEF AboveSpan, BelowSpan, AfterHeading, Continuing
<1>11. PageOK(page)' <=> PageOK(page)
  BY DEF PageOK
<1>12. (page # NoPage)' <=> page # NoPage
  BY DEF NoPage
<1> QED
  BY <1>1, <1>2, <1>3, <1>4, <1>5, <1>6, <1>7, <1>8, <1>9, <1>10, <1>11, <1>12

LEMMA MergedStands ==
  ASSUME UNCHANGED <<pageVars, doc>>
  PROVE  (MergedOK' <=> MergedOK) /\ (Bound' <=> Bound)
<1>1. UNCHANGED <<page, split, hint, region, relations, lead, doc>>
  BY DEF pageVars
<1>2. Nodes' = Nodes /\ Related' = Related
  BY <1>1 DEF Nodes, Related
<1>3. Bound' <=> Bound
  BY <1>1, <1>2, PageStands DEF Bound
<1>4. MergeOK(lead)' <=> MergeOK(lead)
  BY <1>1, PageStands DEF MergeOK
<1>5. MergedOK' <=> MergedOK
  BY <1>1, <1>4, PageStands DEF MergedOK
<1> QED
  BY <1>3, <1>5

LEMMA MergeReads ==
  ASSUME PageInv, ColumnInv, MergeParagraphs \/ MergeFails
  PROVE  (MergedOK /\ Bound)'
<1>1. /\ step = "semantic" /\ UNCHANGED <<page, split, hint, region, relations>>
      /\ lead' = Leads \/ lead' = [n \in Lines |-> n]
      /\ doc' = [units |-> [n \in Range(lead') |-> UnitOf(lead', n)],
                 relations |-> Sorted(Rebound(lead'), PairBefore)]
  BY DEF MergeParagraphs, MergeFails, Merge
<1>2. PageOK(page) /\ hint \in [Lines -> Int] /\ relations \subseteq Lines \X Lines /\ Read
  BY <1>1 DEF PageInv, ColumnInv, OnPage
<1>3. MergeOK(lead')
  BY <1>1, <1>2, LeadsMerge, NothingMerged
<1>4. MergeOK(lead)'
  BY <1>1, <1>3, PageStands DEF MergeOK
<1>5. MergedOK'
  BY <1>1, <1>2, <1>4, PageStands DEF MergedOK, Read
<1>6. Nodes' = Range(lead')
  BY <1>1 DEF Nodes
<1>7. lead' \in [Lines -> Lines] /\ \A n \in Lines : lead'[lead'[n]] = lead'[n]
  BY <1>3 DEF MergeOK
<1>8. \A n \in Nodes' : n \in Lines /\ lead'[n] = n
  BY <1>6, <1>7 DEF Range
<1>9. Related' \subseteq Rebound(lead')
  <2> DEFINE S == Rebound(lead')
             s == Sorted(S, PairBefore)
  <2>1. IsFiniteSet(S) /\ S \subseteq Int \X Int
    <3>1. S \subseteq Lines \X Lines
      BY <1>2, <1>7 DEF Rebound
    <3>2. IsFiniteSet(Lines) /\ Lines \subseteq Int
      BY <1>2, LinesAreTyped
    <3>3. IsFiniteSet(Lines \X Lines)
      BY <3>2, FS_Product
    <3>4. Lines \X Lines \subseteq Int \X Int
      BY <3>2
    <3> HIDE DEF S
    <3> QED
      BY <3>1, <3>3, <3>4, FS_Subset
  <2>2. InOrder(s, PairsBefore, S)
    <3> HIDE DEF S
    <3> QED
      BY <2>1, PairsAreListed
  <2>3. Related' = Range(s)
    BY <1>1 DEF Related
  <2> HIDE DEF s, S
  <2>4. Range(s) \subseteq S
    BY <2>2 DEF InOrder, Range
  <2> QED
    BY <2>3, <2>4 DEF S
<1>10. ASSUME NEW r \in Related'
       PROVE  r[1] # r[2] /\ \E q \in relations' : r = <<lead'[q[1]], lead'[q[2]]>>
  BY <1>1, <1>9 DEF Rebound
<1>11. Bound'
  BY <1>1, <1>8, <1>10, PageStands DEF Bound
<1> QED
  BY <1>5, <1>11

LEMMA ColumnInvIsKept ==
  ASSUME PageInv, ColumnInv, [PageNext]_<<readingVars, pageVars>>
  PROVE  ColumnInv'
<1>1. CASE UNCHANGED <<readingVars, pageVars>>
  <2>1. UNCHANGED <<pageVars, doc, step, page, split, hint, relations, region>>
    BY <1>1 DEF readingVars, pageVars
  <2> QED
    BY <2>1, PageStands, MergedStands DEF ColumnInv, Read
<1>2. CASE AnalyzePage
  <2>1. /\ step = "page" /\ step' = "layout" /\ page' = page /\ split' = Gutter
        /\ hint' = [n \in Lines |-> IF split' = None \/ 2 * Middle(n) < split' THEN 0 ELSE 1]
    BY <1>2 DEF AnalyzePage
  <2>2. split' \in Int
    BY <2>1, GutterIsTyped DEF PageInv, OnPage
  <2>3. Lines' = Lines /\ \A n : Middle(n)' = Middle(n)
    BY <2>1 DEF Lines, Middle, Left, Right, Node
  <2>4. hint' = Hints'
    BY <2>1, <2>3 DEF Hints
  <2> QED
    BY <2>1, <2>2, <2>4 DEF ColumnInv, OnPage
<1>3. CASE InferDocument
  <2>1. /\ step = "layout" /\ step' = "semantic" /\ UNCHANGED <<page, split, hint>>
        /\ region' = [n \in Lines |-> RegionOf(n)]
        /\ relations' = ContextRelations \cup HeadingRelations \cup BandRelations \cup Continuations
    BY <1>3 DEF InferDocument
  <2>2. PageOK(page) /\ split \in Int /\ hint = Hints
    BY <2>1 DEF PageInv, ColumnInv, OnPage
  <2>3. TextInBothColumns => \A q \in relations' : AboveSpan(q) \/ BelowSpan(q) \/ AfterHeading(q) \/ Continuing(q)
    BY <2>1, <2>2, RelationsAreRead
  <2>4. Read'
    BY <2>1, <2>3, PageStands DEF Read
  <2> QED
    BY <2>1, <2>4 DEF ColumnInv, OnPage
<1>4. CASE MergeParagraphs \/ MergeFails
  <2>1. step' = "lines"
    BY <1>4 DEF MergeParagraphs, MergeFails, Merge
  <2> QED
    BY <1>4, <2>1, MergeReads DEF ColumnInv, OnPage
<1>5. CASE Order \/ OrderFails \/ Recover
  <2>1. step \notin OnPage /\ step' \notin OnPage /\ UNCHANGED <<pageVars, doc>>
    BY <1>5 DEF Order, OrderFails, Recover, Next, AssignLines, Sort, Fill, Place, Finish, Nest, Write, OnPage
  <2>2. (page # NoPage)' <=> page # NoPage
    BY <2>1 DEF pageVars, NoPage
  <2> QED
    BY <2>1, <2>2, MergedStands DEF ColumnInv, OnPage
<1> QED
  BY <1>1, <1>2, <1>3, <1>4, <1>5 DEF PageNext

LEMMA NoConflict == ColumnInv /\ LeastExtension => TwoColumnsAreOrderable
<1> SUFFICES ASSUME ColumnInv, LeastExtension, page # NoPage, step = "conflict", TextInBothColumns PROVE FALSE
  BY DEF TwoColumnsAreOrderable
<1>1. MergedOK /\ Bound
  BY DEF ColumnInv, OnPage
<1>2. PICK S \in SUBSET Nodes : S # {} /\ Precede(S)
  BY DEF LeastExtension
<1>3. \A n \in S : n \in Lines /\ lead[n] = n
  BY <1>1, <1>2 DEF Bound
<1>4. ASSUME NEW n \in S
      PROVE  \E q \in relations : lead[q[1]] \in S /\ lead[q[2]] = n /\ lead[q[1]] # n
  <2>1. PICK m \in S : <<m, n>> \in Related
    BY <1>2 DEF Precede
  <2>2. PICK q \in relations : m # n /\ <<m, n>> = <<lead[q[1]], lead[q[2]]>>
    BY <1>1, <2>1 DEF Bound
  <2>3. m = lead[q[1]] /\ n = lead[q[2]]
    BY <2>2
  <2> QED
    BY <2>2, <2>3
<1> QED
  BY <1>1, <1>2, <1>3, <1>4, NoCycle

(* A page with text in both columns can be ordered, however many lines,    *)
(* headings and tables it has and wherever they stand: no chain of the     *)
(* relations that layout and semantics found comes back to a node, even    *)
(* through the paragraphs that lines were merged into.                     *)
THEOREM ColumnsAreOrderable == PageSpec => []TwoColumnsAreOrderable
<1>1. PageInit => ColumnInv
  BY DEF PageInit, ColumnInv, OnPage
<1>2. SortInv => LeastExtension
  <2>1. CASE step \in {"nesting", "ordered", "conflict"}
    BY <2>1, FinishedIsLeast DEF SortInv
  <2>2. CASE step \notin {"nesting", "ordered", "conflict"}
    BY <2>2 DEF LeastExtension
  <2> QED
    BY <2>1, <2>2
<1>3. ColumnInv /\ LeastExtension => TwoColumnsAreOrderable
  BY NoConflict
<1>4. PageInv /\ ColumnInv /\ [PageNext]_<<readingVars, pageVars>> => ColumnInv'
  BY ColumnInvIsKept
<1> QED
  BY <1>1, <1>2, <1>3, <1>4, PipelineInvariants, PTL DEF PageSpec

-----------------------------------------------------------------------------
(* The headings before n that are of a higher rank, and the nearest one.   *)
Higher(n) == {m \in HeadingsAt : m < n /\ Level(m) < Level(n)}
Nearest(S) == IF S = {} THEN None ELSE CHOOSE m \in S : \A k \in S : k <= m

(* The open headings stand in the order in which they were read, and each  *)
(* heading that was read is open, or was closed by a later one that is     *)
(* open itself or was closed in turn: the open one is of no lower rank.    *)
StackOK ==
  /\ stack \in Seq(HeadingsAt)
  /\ \A i, j \in 1..Len(stack) : i < j => stack[i] < stack[j]
  /\ \A n \in HeadingsAt \ Unread : \E i \in 1..Len(stack) :
        n <= stack[i] /\ Level(stack[i]) <= Level(n)

(* What was read is under its nearest higher heading.                      *)
OutlineOK == outline = [n \in HeadingsAt \ Unread |-> Nearest(Higher(n))]

(* The steps before the first heading is read.                             *)
Ordering == {"page", "layout", "semantic", "lines", "sort", "filling", "placing"}

(* The outline until it is written.                                        *)
NestInv ==
  /\ step \in Ordering => stack = << >> /\ outline = << >>
  /\ step = "nesting" => StackOK /\ OutlineOK
  /\ OutlineNests

outlineVars == <<doc, step, result, stack, outline>>

-----------------------------------------------------------------------------
LEMMA LevelsAreNumbers == \A n \in HeadingsAt : n \in Int /\ Level(n) \in Int
BY DEF HeadingsAt

(* Nothing is open and nothing nested at first.                            *)
LEMMA NothingReadYet == ASSUME stack = << >>, outline = << >> PROVE StackOK /\ OutlineOK
<1>1. Unread = HeadingsAt
  BY DEF Unread
<1>2. StackOK
  BY <1>1 DEF StackOK
<1>3. OutlineOK
  <2>1. HeadingsAt \ Unread = {}
    BY <1>1
  <2>2. [n \in {} |-> Nearest(Higher(n))] = << >>
    OBVIOUS
  <2> QED
    BY <2>1, <2>2 DEF OutlineOK
<1> QED
  BY <1>2, <1>3

(* The nearest higher heading is where the stack is cut.                   *)
LEMMA TopIsNearest ==
  ASSUME StackOK, NEW n \in Unread, NEW kept \in 0..Len(stack),
         \A m \in Unread : n <= m,
         \A i \in (kept + 1)..Len(stack) : Closes(stack[i], n),
         kept > 0 => ~Closes(stack[kept], n)
  PROVE  Nearest(Higher(n)) = IF kept = 0 THEN None ELSE stack[kept]
<1>1. n \in HeadingsAt /\ n \in Int /\ Level(n) \in Int
  BY LevelsAreNumbers DEF Unread
<1>2. Len(stack) \in Nat /\ \A i \in 1..Len(stack) : stack[i] \in HeadingsAt
  BY DEF StackOK
<1>3. \A m \in Higher(n) : \E i \in 1..kept : m <= stack[i]
  <2> SUFFICES ASSUME NEW m \in Higher(n) PROVE \E i \in 1..kept : m <= stack[i]
    OBVIOUS
  <2>1. m \in HeadingsAt /\ m < n /\ Level(m) < Level(n)
    BY DEF Higher
  <2>2. m \in HeadingsAt \ Unread
    BY <1>1, <2>1, LevelsAreNumbers
  <2>3. PICK i \in 1..Len(stack) : m <= stack[i] /\ Level(stack[i]) <= Level(m)
    BY <2>2 DEF StackOK
  <2>4. ~Closes(stack[i], n)
    <3>1. Level(stack[i]) \in Int /\ Level(m) \in Int
      BY <1>2, <2>1, LevelsAreNumbers
    <3>2. Level(stack[i]) < Level(n)
      BY <1>1, <2>1, <2>3, <3>1
    <3> QED
      BY <1>1, <3>1, <3>2 DEF Closes
  <2>5. i \in 1..kept
    BY <2>4, <1>2
  <2> QED
    BY <2>3, <2>5
<1>4. CASE kept = 0
  BY <1>3, <1>4 DEF Nearest
<1>5. CASE kept > 0
  <2>1. kept \in 1..Len(stack) /\ stack[kept] \in HeadingsAt
    BY <1>2, <1>5
  <2>2. \A m \in Higher(n) : m <= stack[kept]
    <3> SUFFICES ASSUME NEW m \in Higher(n) PROVE m <= stack[kept]
      OBVIOUS
    <3>1. PICK i \in 1..kept : m <= stack[i]
      BY <1>3
    <3>2. i = kept \/ stack[i] < stack[kept]
      BY <1>2, <2>1, <3>1 DEF StackOK
    <3>3. m \in Int /\ stack[i] \in Int /\ stack[kept] \in Int
      BY <1>2, <2>1, <3>1, LevelsAreNumbers DEF Higher
    <3> QED
      BY <3>1, <3>2, <3>3
  <2>3. stack[kept] < n
    <3>1. n > stack[Len(stack)]
      BY <1>2, <2>1 DEF Unread, Last
    <3>2. kept = Len(stack) \/ stack[kept] < stack[Len(stack)]
      BY <1>2, <2>1 DEF StackOK
    <3>3. stack[kept] \in Int /\ stack[Len(stack)] \in Int
      BY <1>2, <2>1, LevelsAreNumbers
    <3> QED
      BY <1>1, <3>1, <3>2, <3>3
  <2>4. stack[kept] \in Higher(n)
    <3>1. Level(stack[kept]) \in Int
      BY <2>1, LevelsAreNumbers
    <3>2. ~(Level(stack[kept]) >= Level(n))
      BY <1>5 DEF Closes
    <3>3. Level(stack[kept]) < Level(n)
      BY <1>1, <3>1, <3>2
    <3> QED
      BY <2>1, <2>3, <3>3 DEF Higher
  <2>5. \A m \in Higher(n) : m \in Int
    BY LevelsAreNumbers DEF Higher
  <2>6. ASSUME NEW m \in Higher(n), \A k \in Higher(n) : k <= m PROVE m = stack[kept]
    BY <2>2, <2>4, <2>5, <2>6
  <2> QED
    BY <1>5, <2>2, <2>4, <2>6 DEF Nearest
<1> QED
  BY <1>4, <1>5

(* The next heading is put under its nearest higher one, and the stack     *)
(* stays what it has to be.                                                *)
LEMMA NestKeeps == ASSUME StackOK, OutlineOK, Nest PROVE StackOK' /\ OutlineOK'
<1>1. PICK n \in Unread, kept \in 0..Len(stack) :
        /\ \A m \in Unread : n <= m
        /\ \A i \in (kept + 1)..Len(stack) : Closes(stack[i], n)
        /\ kept > 0 => ~Closes(stack[kept], n)
        /\ outline' = [m \in DOMAIN outline \cup {n} |->
                          IF m # n THEN outline[m]
                          ELSE IF kept = 0 THEN None ELSE stack[kept]]
        /\ stack' = Append(SubSeq(stack, 1, kept), n)
  BY DEF Nest
<1>2. result' = result /\ doc' = doc
  BY DEF Nest
<1>3. HeadingsAt' = HeadingsAt /\ \A m : Level(m)' = Level(m)
  BY <1>2 DEF HeadingsAt, Level, Unit
<1>4. n \in HeadingsAt /\ n \in Int /\ Level(n) \in Int
  BY LevelsAreNumbers DEF Unread
<1>5. Len(stack) \in Nat /\ stack \in Seq(HeadingsAt)
  BY DEF StackOK
<1>6. /\ stack' \in Seq(HeadingsAt)
      /\ Len(stack') = kept + 1
      /\ \A i \in 1..kept : stack'[i] = stack[i]
      /\ stack'[kept + 1] = n
  BY <1>1, <1>4, <1>5
<1>7. Unread' = {m \in HeadingsAt : m > n}
  BY <1>3, <1>6 DEF Unread, Last
<1>8. HeadingsAt \ Unread' = (HeadingsAt \ Unread) \cup {n}
  <2>1. \A m \in HeadingsAt : m \in Unread <=> m >= n
    <3>1. \A m \in HeadingsAt : m >= n => m \in Unread
      <4>1. CASE stack = << >>
        BY <4>1 DEF Unread
      <4>2. CASE stack # << >>
        <5>1. Last(stack) \in HeadingsAt
          BY <1>5, <4>2 DEF Last
        <5>2. Last(stack) \in Int /\ n > Last(stack)
          BY <4>2, <5>1, LevelsAreNumbers DEF Unread
        <5>3. \A m \in HeadingsAt : m >= n => m > Last(stack)
          BY <1>4, <5>2, LevelsAreNumbers
        <5> QED
          BY <5>3 DEF Unread
      <4> QED
        BY <4>1, <4>2
    <3> QED
      BY <1>1, <1>4, <3>1, LevelsAreNumbers
  <2>2. \A m \in HeadingsAt : m \notin Unread' <=> m \notin Unread \/ m = n
    <3> SUFFICES ASSUME NEW m \in HeadingsAt
                 PROVE  m \notin Unread' <=> m \notin Unread \/ m = n
      OBVIOUS
    <3>1. m \in Int
      BY LevelsAreNumbers
    <3>2. m \in Unread' <=> m > n
      BY <1>7
    <3>3. m \in Unread <=> m >= n
      BY <2>1
    <3> QED
      BY <1>4, <3>1, <3>2, <3>3
  <2> QED
    BY <1>4, <2>2
<1>9. StackOK'
  <2>1. \A i \in 1..kept : stack[i] < n
    <3> SUFFICES ASSUME NEW i \in 1..kept PROVE stack[i] < n
      OBVIOUS
    <3>1. n > stack[Len(stack)]
      BY <1>5 DEF Unread, Last
    <3>2. i = Len(stack) \/ stack[i] < stack[Len(stack)]
      BY <1>5 DEF StackOK
    <3>3. stack[i] \in Int /\ stack[Len(stack)] \in Int
      BY <1>5, LevelsAreNumbers
    <3> QED
      BY <1>4, <3>1, <3>2, <3>3
  <2>2. \A i, j \in 1..Len(stack') : i < j => stack'[i] < stack'[j]
    <3> SUFFICES ASSUME NEW i \in 1..(kept + 1), NEW j \in 1..(kept + 1), i < j
                 PROVE  stack'[i] < stack'[j]
      BY <1>6
    <3>1. CASE j = kept + 1
      BY <1>6, <2>1, <3>1
    <3>2. CASE j # kept + 1
      BY <1>5, <1>6, <3>2 DEF StackOK
    <3> QED
      BY <3>1, <3>2
  <2>3. ASSUME NEW m \in (HeadingsAt \ Unread) \cup {n}
        PROVE  \E i \in 1..(kept + 1) : m <= stack'[i] /\ Level(stack'[i]) <= Level(m)
    <3>1. CASE m = n
      BY <1>4, <1>6, <3>1
    <3>2. CASE m # n
      <4>1. m \in HeadingsAt \ Unread
        BY <2>3, <3>2
      <4>2. PICK i \in 1..Len(stack) : m <= stack[i] /\ Level(stack[i]) <= Level(m)
        BY <4>1 DEF StackOK
      <4>3. CASE i <= kept
        BY <1>6, <4>2, <4>3
      <4>4. CASE i > kept
        <5>1. Closes(stack[i], n)
          BY <1>1, <1>5, <4>4
        <5>2. Level(n) <= Level(m)
          <6>1. Level(n) <= Level(stack[i])
            BY <5>1, <1>4, <1>5, LevelsAreNumbers DEF Closes
          <6>2. Level(stack[i]) \in Int /\ Level(m) \in Int
            BY <1>5, <4>1, LevelsAreNumbers
          <6> QED
            BY <1>4, <4>2, <6>1, <6>2
        <5>3. m <= n
          BY <1>4, <4>1, LevelsAreNumbers, <1>8, <1>7
        <5> QED
          BY <1>6, <5>2, <5>3
      <4> QED
        BY <1>5, <4>3, <4>4
    <3> QED
      BY <3>1, <3>2
  <2> QED
    BY <1>3, <1>6, <1>8, <2>2, <2>3 DEF StackOK
<1>10. OutlineOK'
  <2>1. \A m : Higher(m)' = Higher(m)
    BY <1>3 DEF Higher
  <2>2. outline' = [m \in (HeadingsAt \ Unread) \cup {n} |-> Nearest(Higher(m))]
    BY <1>1, TopIsNearest DEF OutlineOK
  <2>3. ASSUME NEW m PROVE Nearest(Higher(m))' = Nearest(Higher(m))
    BY <2>1
  <2> QED
    BY <1>3, <1>8, <2>2, <2>3 DEF OutlineOK
<1> QED
  BY <1>9, <1>10

LEMMA NestedIs == OutlineNests <=> (step = "ordered" => outline = [n \in HeadingsAt |-> Nearest(Higher(n))])
BY DEF OutlineNests, Nearest, Higher

(* When the last heading was read the outline is complete.                 *)
LEMMA WriteNests == ASSUME OutlineOK, Write PROVE OutlineNests'
<1>1. outline = [n \in HeadingsAt |-> Nearest(Higher(n))]
  BY DEF OutlineOK, Write
<1>2. result' = result /\ doc' = doc /\ outline' = outline
  BY DEF Write
<1>3. (outline = [n \in HeadingsAt |-> Nearest(Higher(n))])'
  <2>1. HeadingsAt' = HeadingsAt /\ \A n : Higher(n)' = Higher(n)
    BY <1>2 DEF HeadingsAt, Higher, Level, Unit
  <2> QED
    BY <1>1, <1>2, <2>1
<1> QED
  BY <1>3, NestedIs, PTL

-----------------------------------------------------------------------------
(* The pipeline: what its steps do to the outline.                         *)
LEMMA StartHasNoOutline == GridInit => NestInv
BY DEF GridInit, TagInit, PageInit, NothingInferred, NestInv, OutlineNests, Ordering

(* What the steps of the pipeline do to the outline.                       *)
LEMMA StepsOfTheOutline ==
  ASSUME [GridNext]_<<pipelineVars, tagVars, tables>>
  PROVE  \/ Nest \/ Write \/ Finish
         \/ UNCHANGED outlineVars
         \/ step' \notin Ordering \cup {"nesting", "ordered"}
         \/ step \in Ordering /\ step' \in Ordering /\ UNCHANGED <<stack, outline>>
<1>1. CASE UNCHANGED <<pipelineVars, tagVars, tables>>
  BY <1>1 DEF outlineVars, pipelineVars, readingVars
<1>2. CASE MergeFragments \/ AssignSections \/ NormalizeRegularity \/ FinishTables
  BY <1>2 DEF MergeFragments, AssignSections, NormalizeRegularity, FinishTables, Pass, Ordering
<1>3. CASE AnalyzePage \/ InferDocument \/ MergeParagraphs \/ MergeFails
  BY <1>3 DEF AnalyzePage, InferDocument, MergeParagraphs, MergeFails, Merge, Ordering
<1>4. CASE OrderFails \/ Recover \/ BeginTagging
  BY <1>4 DEF OrderFails, Recover, BeginTagging, Ordering
<1>5. CASE Order
  BY <1>5 DEF Order, Next, AssignLines, Sort, Fill, Place, Ordering
<1>6. CASE SkipArtifact \/ TagLabel \/ TagHeading \/ ContinueItem \/ TagItem
           \/ TagTable \/ TagCell \/ TagParagraph
  <2>1. step = "tagging" /\ UNCHANGED <<doc, result, stack, outline>>
    BY <1>6, ZenonT(40) DEF SkipArtifact, TagLabel, TagHeading, ContinueItem, TagItem, TagTable, TagCell,
                TagParagraph, Reads
  <2>2. step' \in {"tagging", "review"}
    BY <1>6, <2>1, ZenonT(40) DEF SkipArtifact, TagLabel, TagHeading, ContinueItem, TagItem, TagTable,
                TagCell, TagParagraph, Continue, Refuse
  <2> QED
    BY <2>1, <2>2, SMTT(30) DEF outlineVars, Ordering
<1> QED
  BY <1>1, <1>2, <1>3, <1>4, <1>5, <1>6 DEF GridNext, TagNext, PageNext

LEMMA NestInvIsKept ==
  ASSUME NestInv, [GridNext]_<<pipelineVars, tagVars, tables>>
  PROVE  NestInv'
<1>1. CASE Nest
  <2>1. step = "nesting" /\ step' = "nesting"
    BY <1>1 DEF Nest
  <2>2. StackOK' /\ OutlineOK'
    BY <1>1, <2>1, NestKeeps DEF NestInv
  <2> QED
    BY <2>1, <2>2 DEF NestInv, OutlineNests, Ordering
<1>2. CASE Write
  <2>1. OutlineNests'
    BY <1>2, WriteNests DEF NestInv, Write
  <2> QED
    BY <1>2, <2>1 DEF NestInv, Write, Ordering
<1>3. CASE Finish
  <2>1. (stack = << >> /\ outline = << >>)' /\ step' \in {"conflict", "nesting"}
    BY <1>3 DEF Finish, NestInv, Ordering
  <2>2. (StackOK /\ OutlineOK)'
    BY <2>1, NothingReadYet, PTL
  <2> QED
    BY <2>1, <2>2 DEF NestInv, OutlineNests, Ordering
<1>4. CASE UNCHANGED outlineVars
  <2>1. UNCHANGED <<doc, step, result, stack, outline>>
    BY <1>4 DEF outlineVars
  <2>2. HeadingsAt' = HeadingsAt /\ \A n : Level(n)' = Level(n)
    BY <2>1 DEF HeadingsAt, Level, Unit
  <2>3. Unread' = Unread /\ \A n : Higher(n)' = Higher(n)
    BY <2>1, <2>2 DEF Unread, Higher
  <2>4. StackOK' <=> StackOK
    BY <2>1, <2>2, <2>3 DEF StackOK
  <2>5. OutlineOK' <=> OutlineOK
    BY <2>1, <2>2, <2>3 DEF OutlineOK
  <2>6. OutlineNests' <=> OutlineNests
    <3>1. (step = "ordered" => outline = [n \in HeadingsAt |-> Nearest(Higher(n))])'
            <=> (step = "ordered" => outline = [n \in HeadingsAt |-> Nearest(Higher(n))])
      BY <2>1, <2>2, <2>3
    <3> QED
      BY <3>1, NestedIs, PTL
  <2> QED
    BY <2>1, <2>4, <2>5, <2>6 DEF NestInv
<1>5. CASE step' \notin Ordering \cup {"nesting", "ordered"}
  BY <1>5 DEF NestInv, OutlineNests
<1>6. CASE step \in Ordering /\ step' \in Ordering /\ UNCHANGED <<stack, outline>>
  BY <1>6 DEF NestInv, OutlineNests, Ordering
<1> QED
  BY <1>1, <1>2, <1>3, <1>4, <1>5, <1>6, StepsOfTheOutline

(* However the order came about, the outline that is written has every     *)
(* heading under the nearest one before it that is of a higher rank.       *)
THEOREM OutlineIsNested == GridSpec => []OutlineNests
<1>1. GridInit => NestInv
  BY StartHasNoOutline
<1>2. NestInv /\ [GridNext]_<<pipelineVars, tagVars, tables>> => NestInv'
  BY NestInvIsKept
<1>3. NestInv => OutlineNests
  BY DEF NestInv
<1> QED
  BY <1>1, <1>2, <1>3, PTL DEF GridSpec
=============================================================================
