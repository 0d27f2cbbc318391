-------------------------- MODULE FlowCanvasProofs --------------------------
(***************************************************************************)
(* Proofs about the canvas of the flows section, its history and its files *)
(* for any gestures, texts and lengths of the history.                     *)
(*                                                                         *)
(* Types: whatever is or was on the canvas can be kept, the selection is   *)
(* on the canvas and the list of the sidebar agrees with the files         *)
(* (Fitting).                                                              *)
(*                                                                         *)
(* The drawing: until a scenario comes from elsewhere, whatever was, is or *)
(* may come back onto the canvas can be drawn, its numbers were given out, *)
(* and a file reads back as what was saved (Clean).                        *)
(***************************************************************************)
EXTENDS FlowProofs

-----------------------------------------------------------------------------
(* Lists that are picked out of others.                                    *)

\* Each element of r is one of q, and none is taken twice.
Picks(r, q) ==
    \E g \in [DOMAIN r -> DOMAIN q] : IsInjective(g) /\ \A i \in DOMAIN r : r[i] = q[g[i]]

LEMMA PicksOnce ==
    ASSUME NEW q, NEW r, Picks(r, q)
    PROVE  IsInjective(q) => IsInjective(r)
<1>1. PICK g \in [DOMAIN r -> DOMAIN q] : IsInjective(g) /\ \A i \in DOMAIN r : r[i] = q[g[i]]
  BY DEF Picks
<1> QED
  BY <1>1 DEF IsInjective

LEMMA SelectedPicks ==
    ASSUME NEW q, IsList(q), NEW S
    PROVE  Picks(Selected(q, S), q)
<1>1. PICK T : /\ T[0] = <<>> /\ Selected(q, S) = T[Len(q)]
               /\ \A n \in 1..Len(q) : T[n] = IF q[n] \in S THEN Append(T[n - 1], q[n]) ELSE T[n - 1]
  BY SelectionSteps
<1>2. DOMAIN q = 1..Len(q) /\ Len(q) \in Nat
  BY ListFacts
<1> DEFINE Drawn0(n) == /\ IsList(T[n])
                        /\ \E g \in [1..Len(T[n]) -> 1..n] :
                              IsInjective(g) /\ \A i \in 1..Len(T[n]) : T[n][i] = q[g[i]]
           Done == {n \in Nat : n <= Len(q) => Drawn0(n)}
<1>3. 0 \in Done
  <2>1. IsList(T[0]) /\ Len(T[0]) = 0
    BY <1>1, EmptyList
  <2>2. PICK g : g = [i \in 1..0 |-> i]
    OBVIOUS
  <2>3. g \in [1..Len(T[0]) -> 1..0] /\ IsInjective(g) /\ \A i \in 1..Len(T[0]) : T[0][i] = q[g[i]]
    BY <2>1, <2>2 DEF IsInjective
  <2> QED
    BY <2>1, <2>3
<1>4. ASSUME NEW n \in Nat, n \in Done PROVE n + 1 \in Done
  <2>1. SUFFICES ASSUME n + 1 <= Len(q) PROVE Drawn0(n + 1)
    OBVIOUS
  <2>2. n + 1 \in 1..Len(q) /\ (n + 1) - 1 = n /\ n <= Len(q)
    BY <1>2, <2>1
  <2>3. T[n + 1] = IF q[n + 1] \in S THEN Append(T[n], q[n + 1]) ELSE T[n]
    BY <1>1, <2>2
  <2>4. PICK g \in [1..Len(T[n]) -> 1..n] :
           IsInjective(g) /\ \A i \in 1..Len(T[n]) : T[n][i] = q[g[i]]
    BY <1>4, <2>2
  <2>5. IsList(T[n])
    BY <1>4, <2>2
  <2>6. PICK t : t = T[n]
    OBVIOUS
  <2>7. IsList(t) /\ Len(t) \in Nat /\ t \in Seq(ToSet(t)) /\ g \in [1..Len(t) -> 1..n]
    BY <2>4, <2>5, <2>6, ListFacts
  <2>8. CASE q[n + 1] \in S
    <3>1. PICK u : u = Append(t, q[n + 1])
      OBVIOUS
    <3>2. IsList(u) /\ Len(u) = Len(t) + 1 /\ T[n + 1] = u
      BY <2>3, <2>6, <2>7, <2>8, <3>1, AppendList
    <3>3. /\ \A i \in 1..Len(t) : u[i] = t[i]
          /\ u[Len(t) + 1] = q[n + 1]
      <4>1. t \in Seq(ToSet(t) \cup {q[n + 1]}) /\ q[n + 1] \in ToSet(t) \cup {q[n + 1]}
        BY <2>7
      <4> QED
        BY <3>1, <4>1, AppendProperties
    <3>4. PICK h : h = [i \in 1..(Len(t) + 1) |-> IF i \in 1..Len(t) THEN g[i] ELSE n + 1]
      OBVIOUS
    <3>5. h \in [1..Len(u) -> 1..(n + 1)]
      BY <2>7, <3>2, <3>4
    <3>6. ASSUME NEW i \in 1..Len(u), NEW j \in 1..Len(u), h[i] = h[j] PROVE i = j
      <4>1. /\ i \in 1..Len(t) => h[i] = g[i] /\ g[i] \in 1..n
            /\ i \notin 1..Len(t) => i = Len(t) + 1 /\ h[i] = n + 1
        BY <2>7, <3>2, <3>4
      <4>2. /\ j \in 1..Len(t) => h[j] = g[j] /\ g[j] \in 1..n
            /\ j \notin 1..Len(t) => j = Len(t) + 1 /\ h[j] = n + 1
        BY <2>7, <3>2, <3>4
      <4>3. \A a, b \in 1..Len(t) : g[a] = g[b] => a = b
        BY <2>4, <2>7 DEF IsInjective
      <4>4. n + 1 \notin 1..n
        OBVIOUS
      <4> QED
        BY <3>6, <4>1, <4>2, <4>3, <4>4
    <3>7. IsInjective(h)
      BY <3>5, <3>6 DEF IsInjective
    <3>8. \A i \in 1..Len(u) : u[i] = q[h[i]]
      BY <2>4, <2>6, <2>7, <3>2, <3>3, <3>4
    <3> QED
      BY <3>2, <3>5, <3>7, <3>8
  <2>9. CASE q[n + 1] \notin S
    <3>1. T[n + 1] = t
      BY <2>3, <2>6, <2>9
    <3>2. g \in [1..Len(t) -> 1..(n + 1)]
      BY <2>7
    <3> QED
      BY <2>4, <2>6, <2>7, <3>1, <3>2
  <2> QED
    BY <2>8, <2>9
<1>5. Len(q) \in Done
  <2> HIDE DEF Done
  <2>1. Nat \subseteq Done
    BY <1>3, <1>4, Induction
  <2> QED
    BY <1>2, <2>1
<1>6. Drawn0(Len(q))
  BY <1>2, <1>5
<1>7. DOMAIN T[Len(q)] = 1..Len(T[Len(q)])
  BY <1>6, ListFacts
<1> QED
  BY <1>1, <1>2, <1>6, <1>7 DEF Picks

LEMMA RemoveAtPicks ==
    ASSUME NEW q, IsList(q), NEW i \in 1..Len(q)
    PROVE  Picks(RemoveAt(q, i), q) /\ Len(RemoveAt(q, i)) = Len(q) - 1
<1>1. q \in Seq(ToSet(q)) /\ Len(q) \in Nat /\ DOMAIN q = 1..Len(q)
  BY ListFacts
<1>2. PICK r : r = RemoveAt(q, i)
  OBVIOUS
<1>3. /\ r \in Seq(ToSet(q)) /\ Len(r) = Len(q) - 1
      /\ \A k \in 1..(Len(q) - 1) : r[k] = IF k < i THEN q[k] ELSE q[k + 1]
  BY <1>1, <1>2, RemoveAtProperties
<1>4. DOMAIN r = 1..(Len(q) - 1)
  BY <1>3
<1>5. PICK g : g = [k \in 1..(Len(q) - 1) |-> IF k < i THEN k ELSE k + 1]
  OBVIOUS
<1>6. g \in [DOMAIN r -> DOMAIN q] /\ IsInjective(g)
  BY <1>1, <1>4, <1>5 DEF IsInjective
<1>7. \A k \in DOMAIN r : r[k] = q[g[k]]
  BY <1>3, <1>4, <1>5
<1> QED
  BY <1>2, <1>3, <1>6, <1>7 DEF Picks

-----------------------------------------------------------------------------
(* Numbers that are given out.                                             *)

LEMMA MaxOfNumbers ==
    ASSUME NEW T, T \subseteq Int, T # {}, NEW n \in Int, \A x \in T : x <= n
    PROVE  Max(T) \in T /\ \A x \in T : Max(T) >= x
<1> DEFINE B == {n - x : x \in T}
<1>1. B \subseteq Nat /\ B # {}
  <2>1. \A x \in T : n - x \in Nat
    <3> TAKE x \in T
    <3>1. x \in Int /\ x <= n
      OBVIOUS
    <3> QED
      BY <3>1
  <2>2. \A b \in B : \E x \in T : b = n - x
    OBVIOUS
  <2>3. \A x \in T : n - x \in B
    OBVIOUS
  <2> HIDE DEF B
  <2> QED
    BY <2>1, <2>2, <2>3
<1>2. PICK b \in B : \A k \in B : b <= k
  <2> HIDE DEF B
  <2> QED
    BY <1>1, Least
<1>3. PICK m \in T : b = n - m
  BY <1>2
<1>4. \A y \in T : n - m <= n - y
  BY <1>2, <1>3
<1>5. \A y \in T : m >= y
  BY <1>4
<1>6. \E x \in T : \A y \in T : x >= y
  BY <1>5
<1> QED
  BY <1>6 DEF Max

\* The numbers in a list do not go on for ever.
LEMMA ListBounded ==
    ASSUME NEW q, IsList(q), NEW f, \A i \in 1..Len(q) : f[i] \in Nat
    PROVE  \E n \in Nat : \A i \in 1..Len(q) : f[i] <= n
<1>1. Len(q) \in Nat
  BY ListFacts
<1> DEFINE Done == {k \in Nat : k <= Len(q) => \E n \in Nat : \A i \in 1..k : f[i] <= n}
<1>2. 0 \in Done
  OBVIOUS
<1>3. ASSUME NEW k \in Nat, k \in Done PROVE k + 1 \in Done
  <2>1. SUFFICES ASSUME k + 1 <= Len(q) PROVE \E n \in Nat : \A i \in 1..(k + 1) : f[i] <= n
    OBVIOUS
  <2>2. PICK n \in Nat : \A i \in 1..k : f[i] <= n
    BY <1>1, <1>3, <2>1
  <2>3. f[k + 1] \in Nat
    BY <1>1, <2>1
  <2>4. PICK m \in Nat : m = n + f[k + 1]
    BY <2>3
  <2>5. \A i \in 1..(k + 1) : i \in 1..k \/ i = k + 1
    OBVIOUS
  <2>6. \A i \in 1..k : f[i] \in Nat
    BY <1>1, <2>1
  <2>7. \A i \in 1..(k + 1) : f[i] <= m
    BY <2>2, <2>3, <2>4, <2>5, <2>6
  <2> QED
    BY <2>7
<1>4. Len(q) \in Done
  <2> HIDE DEF Done
  <2>1. Nat \subseteq Done
    BY <1>2, <1>3, Induction
  <2> QED
    BY <1>1, <2>1
<1> QED
  BY <1>1, <1>4

LEMMA IdsOfList ==
    ASSUME NEW q, IsList(q)
    PROVE  IdsOf(q) = {x.id : x \in ToSet(q)}
<1>1. DOMAIN q = 1..Len(q)
  BY ListFacts
<1>2. \A x \in ToSet(q) : \E i \in DOMAIN q : x = q[i]
  BY <1>1, ListFacts
<1>3. \A i \in DOMAIN q : q[i] \in ToSet(q)
  BY <1>1, ListFacts
<1> QED
  BY <1>2, <1>3 DEF IdsOf

LEMMA IdsBounded ==
    ASSUME NEW q, IsList(q), IdsOf(q) \subseteq Nat
    PROVE  \E n \in Nat : \A x \in IdsOf(q) : x <= n
<1>1. DOMAIN q = 1..Len(q)
  BY ListFacts
<1>2. PICK f : f = [i \in 1..Len(q) |-> q[i].id]
  OBVIOUS
<1>3. \A i \in 1..Len(q) : f[i] \in Nat
  BY <1>1, <1>2 DEF IdsOf
<1>4. PICK n \in Nat : \A i \in 1..Len(q) : f[i] <= n
  BY <1>3, ListBounded
<1> QED
  BY <1>1, <1>2, <1>4 DEF IdsOf

LEMMA NumberedIds ==
    ASSUME NEW s, IsScene(s)
    PROVE  /\ IsNumbered(s) <=> s.id \in Nat /\ IdsOf(s.nodes) \subseteq Nat /\ IdsOf(s.edges) \subseteq Nat
           /\ IsList(s.nodes) /\ IsList(s.edges)
<1>1. IsList(s.nodes) /\ IsList(s.edges)
  BY DEF IsScene, NodeList, EdgeList
<1>2. IdsOf(s.nodes) = {n.id : n \in ToSet(s.nodes)} /\ IdsOf(s.edges) = {e.id : e \in ToSet(s.edges)}
  BY <1>1, IdsOfList
<1> QED
  BY <1>1, <1>2 DEF IsNumbered

\* A scenario takes no number back.
LEMMA TakenFacts ==
    ASSUME NEW n \in Nat, NEW s, IsScene(s), IsNumbered(s)
    PROVE  /\ Taken(n, s) \in Nat /\ Taken(n, s) >= n /\ Taken(n, s) >= s.id
           /\ \A x \in IdsOf(s.nodes) \cup IdsOf(s.edges) : Taken(n, s) >= x
<1> DEFINE T == {n, s.id} \cup IdsOf(s.nodes) \cup IdsOf(s.edges)
<1>1. s.id \in Nat /\ IdsOf(s.nodes) \subseteq Nat /\ IdsOf(s.edges) \subseteq Nat
      /\ IsList(s.nodes) /\ IsList(s.edges)
  BY NumberedIds
<1>2. PICK a \in Nat : \A x \in IdsOf(s.nodes) : x <= a
  BY <1>1, IdsBounded
<1>3. PICK b \in Nat : \A x \in IdsOf(s.edges) : x <= b
  BY <1>1, IdsBounded
<1>4. T \subseteq Nat /\ T # {}
  BY <1>1
<1>5. PICK m \in Nat : m = n + s.id + a + b
  BY <1>1
<1>6. \A x \in T : x <= m
  <2>1. \A x \in IdsOf(s.nodes) \cup IdsOf(s.edges) : x \in Nat /\ (x <= a \/ x <= b)
    BY <1>1, <1>2, <1>3
  <2>2. \A x \in IdsOf(s.nodes) \cup IdsOf(s.edges) : x <= m
    BY <1>1, <1>5, <2>1
  <2>3. n <= m /\ s.id <= m
    BY <1>1, <1>5
  <2> QED
    BY <2>2, <2>3
<1>7. Max(T) \in T /\ \A x \in T : Max(T) >= x
  <2>1. T \subseteq Int /\ m \in Int
    BY <1>4
  <2> HIDE DEF T
  <2> QED
    BY <1>4, <1>6, <2>1, MaxOfNumbers
<1>8. Taken(n, s) = Max(T)
  BY DEF Taken
<1> QED
  BY <1>4, <1>7, <1>8

-----------------------------------------------------------------------------
(* Lists without repetitions.                                              *)

\* What every list of a kind needs to be told apart.
Distinct(q) == IsList(q) /\ IsInjective(q)

LEMMA DistinctSelected ==
    ASSUME NEW q, Distinct(q), NEW S
    PROVE  Distinct(Selected(q, S)) /\ ToSet(Selected(q, S)) = ToSet(q) \cap S
<1>1. IsList(Selected(q, S)) /\ ToSet(Selected(q, S)) = ToSet(q) \cap S
  BY SelectedList DEF Distinct
<1>2. Picks(Selected(q, S), q)
  BY SelectedPicks DEF Distinct
<1>3. IsInjective(Selected(q, S))
  BY <1>2, PicksOnce DEF Distinct
<1> QED
  BY <1>1, <1>3 DEF Distinct

LEMMA DistinctConcat ==
    ASSUME NEW p, Distinct(p), NEW q, Distinct(q), ToSet(p) \cap ToSet(q) = {}
    PROVE  Distinct(p \o q) /\ ToSet(p \o q) = ToSet(p) \cup ToSet(q)
<1>1. IsList(p \o q) /\ ToSet(p \o q) = ToSet(p) \cup ToSet(q)
  BY ConcatList DEF Distinct
<1>2. /\ p \in Seq(ToSet(p)) /\ Len(p) \in Nat /\ DOMAIN p = 1..Len(p) /\ \A i \in 1..Len(p) : p[i] \in ToSet(p)
      /\ q \in Seq(ToSet(q)) /\ Len(q) \in Nat /\ DOMAIN q = 1..Len(q) /\ \A i \in 1..Len(q) : q[i] \in ToSet(q)
  BY ListFacts DEF Distinct
<1>3. PICK r : r = p \o q
  OBVIOUS
<1>4. /\ Len(r) = Len(p) + Len(q) /\ DOMAIN r = 1..(Len(p) + Len(q))
      /\ \A i \in 1..(Len(p) + Len(q)) : r[i] = IF i <= Len(p) THEN p[i] ELSE q[i - Len(p)]
  BY <1>2, <1>3
<1>5. \A i, j \in DOMAIN p : p[i] = p[j] => i = j
  BY DEF Distinct, IsInjective
<1>6. \A i, j \in DOMAIN q : q[i] = q[j] => i = j
  BY DEF Distinct, IsInjective
<1>7. ASSUME NEW i \in DOMAIN r, NEW j \in DOMAIN r, r[i] = r[j] PROVE i = j
  <2>1. /\ i <= Len(p) => i \in 1..Len(p) /\ r[i] = p[i] /\ r[i] \in ToSet(p)
        /\ ~(i <= Len(p)) => i - Len(p) \in 1..Len(q) /\ r[i] = q[i - Len(p)] /\ r[i] \in ToSet(q)
    BY <1>2, <1>4
  <2>2. /\ j <= Len(p) => j \in 1..Len(p) /\ r[j] = p[j] /\ r[j] \in ToSet(p)
        /\ ~(j <= Len(p)) => j - Len(p) \in 1..Len(q) /\ r[j] = q[j - Len(p)] /\ r[j] \in ToSet(q)
    BY <1>2, <1>4
  <2>3. CASE i <= Len(p) /\ j <= Len(p)
    BY <1>2, <1>5, <1>7, <2>1, <2>2, <2>3
  <2>4. CASE ~(i <= Len(p)) /\ ~(j <= Len(p))
    <3>1. i - Len(p) = j - Len(p)
      BY <1>2, <1>6, <1>7, <2>1, <2>2, <2>4
    <3>2. i \in Int /\ j \in Int
      BY <1>4
    <3> QED
      BY <1>2, <3>1, <3>2
  <2>5. (i <= Len(p)) <=> (j <= Len(p))
    BY <1>7, <2>1, <2>2
  <2> QED
    BY <2>3, <2>4, <2>5
<1> QED
  BY <1>1, <1>3, <1>7 DEF Distinct, IsInjective

LEMMA DistinctAppend ==
    ASSUME NEW q, Distinct(q), NEW e, e \notin ToSet(q)
    PROVE  Distinct(Append(q, e)) /\ ToSet(Append(q, e)) = ToSet(q) \cup {e}
<1>1. PICK u : u = <<e>>
  OBVIOUS
<1>2. Distinct(u) /\ ToSet(u) = {e}
  <2>1. u \in Seq({e}) /\ Len(u) = 1 /\ DOMAIN u = {1} /\ u[1] = e
    BY <1>1
  <2>2. IsList(u)
    BY <2>1, SeqIsList
  <2> QED
    BY <2>1, <2>2 DEF Distinct, IsInjective, ToSet
<1>3. Append(q, e) = q \o u
  <2>1. q \in Seq(ToSet(q) \cup {e})
    <3>1. q \in Seq(ToSet(q))
      BY ListFacts DEF Distinct
    <3> QED
      BY <3>1
  <2> QED
    BY <1>1, <2>1
<1> QED
  BY <1>2, <1>3, DistinctConcat

LEMMA DistinctReverse ==
    ASSUME NEW q, Distinct(q)
    PROVE  Distinct(Reverse(q)) /\ ToSet(Reverse(q)) = ToSet(q)
<1>1. Len(q) \in Nat /\ DOMAIN q = 1..Len(q) /\ (\A i \in 1..Len(q) : q[i] \in ToSet(q))
      /\ \A e \in ToSet(q) : \E i \in 1..Len(q) : e = q[i]
  BY ListFacts DEF Distinct
<1>2. PICK r : r = [i \in 1..Len(q) |-> q[(Len(q) - i) + 1]]
  OBVIOUS
<1>3. r = Reverse(q)
  BY <1>2 DEF Reverse
<1>4. \A i \in 1..Len(q) : (Len(q) - i) + 1 \in 1..Len(q) /\ r[i] = q[(Len(q) - i) + 1]
  BY <1>1, <1>2
<1>5. IsList(r) /\ ToSet(r) = {r[i] : i \in 1..Len(q)}
  BY <1>1, <1>2, MappedList
<1>6. ToSet(r) = ToSet(q)
  <2>1. ASSUME NEW e \in ToSet(q) PROVE e \in ToSet(r)
    <3>1. PICK i \in 1..Len(q) : e = q[i]
      BY <1>1
    <3>5. PICK n \in Nat : n = Len(q)
      BY <1>1
    <3>6. i \in Int /\ 1 <= i /\ i <= n
      BY <3>1, <3>5
    <3>2. PICK j \in 1..Len(q) : j = (n - i) + 1
      <4>1. (n - i) + 1 \in 1..n
        BY <3>6
      <4> QED
        BY <3>5, <4>1
    <3>3. (Len(q) - j) + 1 = i
      BY <3>2, <3>5, <3>6
    <3>4. r[j] = e
      BY <1>4, <3>1, <3>3
    <3> QED
      BY <1>5, <3>4
  <2>2. \A e \in ToSet(r) : e \in ToSet(q)
    BY <1>1, <1>4, <1>5
  <2> QED
    BY <2>1, <2>2
<1>7. DOMAIN r = 1..Len(q)
  BY <1>2
<1>8. ASSUME NEW i \in DOMAIN r, NEW j \in DOMAIN r, r[i] = r[j] PROVE i = j
  <2>2. PICK a \in 1..Len(q), b \in 1..Len(q) : a = (Len(q) - i) + 1 /\ b = (Len(q) - j) + 1
    BY <1>4, <1>7
  <2>3. q[a] = q[b]
    BY <1>4, <1>7, <1>8, <2>2
  <2>4. a = b
    BY <1>1, <2>3 DEF Distinct, IsInjective
  <2>1. (Len(q) - i) + 1 = (Len(q) - j) + 1
    BY <2>2, <2>4
  <2> QED
    BY <1>1, <1>7, <2>1
<1> QED
  BY <1>3, <1>5, <1>6, <1>8 DEF Distinct, IsInjective

LEMMA DistinctParts ==
    ASSUME NEW q, Distinct(q), NEW i \in 1..(Len(q) + 1)
    PROVE  /\ Distinct(SubSeq(q, 1, i - 1)) /\ Distinct(SubSeq(q, i, Len(q)))
           /\ ToSet(SubSeq(q, 1, i - 1)) \cup ToSet(SubSeq(q, i, Len(q))) = ToSet(q)
           /\ ToSet(SubSeq(q, 1, i - 1)) \cap ToSet(SubSeq(q, i, Len(q))) = {}
<1>1. /\ q \in Seq(ToSet(q)) /\ Len(q) \in Nat /\ DOMAIN q = 1..Len(q) /\ (\A k \in 1..Len(q) : q[k] \in ToSet(q))
      /\ \A e \in ToSet(q) : \E k \in 1..Len(q) : e = q[k]
  BY ListFacts DEF Distinct
<1>2. PICK a : a = SubSeq(q, 1, i - 1)
  OBVIOUS
<1>3. PICK b : b = SubSeq(q, i, Len(q))
  OBVIOUS
<1>4. a \in Seq(ToSet(q)) /\ Len(a) = i - 1 /\ DOMAIN a = 1..(i - 1) /\ \A k \in 1..(i - 1) : a[k] = q[k]
  BY <1>1, <1>2
<1>5. b \in Seq(ToSet(q)) /\ Len(b) = Len(q) - (i - 1) /\ DOMAIN b = 1..(Len(q) - (i - 1))
      /\ \A k \in 1..(Len(q) - (i - 1)) : b[k] = q[k + (i - 1)]
  <2>1. PICK d \in 0..Len(q) : d = i - 1
    BY <1>1
  <2>2. d + 1 = i
    BY <1>1, <2>1
  <2> QED
    BY <1>1, <1>3, <2>1, <2>2, SuffixProperties
<1>6. IsList(a) /\ IsList(b)
  BY <1>4, <1>5, SeqIsList
<1>7. \A k, m \in DOMAIN q : q[k] = q[m] => k = m
  BY DEF Distinct, IsInjective
<1>8. IsInjective(a) /\ IsInjective(b)
  <2>1. ASSUME NEW k \in DOMAIN a, NEW m \in DOMAIN a, a[k] = a[m] PROVE k = m
    BY <1>1, <1>4, <1>7, <2>1
  <2>2. ASSUME NEW k \in DOMAIN b, NEW m \in DOMAIN b, b[k] = b[m] PROVE k = m
    <3>8. PICK n \in Nat : n = Len(q)
      BY <1>1
    <3>9. k \in 1..(n - (i - 1)) /\ m \in 1..(n - (i - 1)) /\ i \in 1..(n + 1)
      BY <1>5, <2>2, <3>8
    <3>7. k + (i - 1) \in 1..n /\ m + (i - 1) \in 1..n
      BY <3>9
    <3>2. PICK c \in 1..Len(q), d \in 1..Len(q) : c = k + (i - 1) /\ d = m + (i - 1)
      BY <3>7, <3>8
    <3>3. q[c] = q[d]
      BY <1>5, <2>2, <3>2
    <3>6. c = d
      BY <1>1, <1>7, <3>3
    <3>1. k + (i - 1) = m + (i - 1)
      BY <3>2, <3>6
    <3>4. k \in 1..(Len(q) - (i - 1)) /\ m \in 1..(Len(q) - (i - 1))
      BY <1>5, <2>2
    <3>5. k \in Int /\ m \in Int /\ i \in Int
      BY <3>4
    <3> QED
      BY <3>1, <3>5
  <2> QED
    BY <2>1, <2>2 DEF IsInjective
<1>9. ToSet(a) = {q[k] : k \in 1..(i - 1)}
  BY <1>4 DEF ToSet
<1>10. ToSet(b) = {q[k] : k \in i..Len(q)}
  <2>3. PICK n \in Nat : n = Len(q)
    BY <1>1
  <2>4. i \in Int /\ i >= 1
    BY <2>3
  <2>1. ASSUME NEW k \in DOMAIN b PROVE k + (i - 1) \in i..Len(q) /\ b[k] = q[k + (i - 1)]
    <3>1. k \in 1..(n - (i - 1)) /\ b[k] = q[k + (i - 1)]
      BY <1>5, <2>3
    <3>2. k + (i - 1) \in i..n
      BY <2>3, <2>4, <3>1
    <3> QED
      BY <2>3, <3>1, <3>2
  <2>2. ASSUME NEW k \in i..Len(q) PROVE \E m \in DOMAIN b : b[m] = q[k]
    <3>1. k - (i - 1) \in DOMAIN b /\ (k - (i - 1)) + (i - 1) = k
      BY <1>1, <1>5
    <3> QED
      BY <1>5, <3>1
  <2> QED
    BY <2>1, <2>2 DEF ToSet
<1>11. ToSet(q) = {q[k] : k \in 1..Len(q)}
  BY <1>1 DEF ToSet
<1>12. \A k : k \in 1..Len(q) <=> k \in 1..(i - 1) \/ k \in i..Len(q)
  BY <1>1
<1>13. ToSet(a) \cup ToSet(b) = ToSet(q)
  BY <1>9, <1>10, <1>11, <1>12
<1>14. ToSet(a) \cap ToSet(b) = {}
  <2>1. \A k \in 1..(i - 1), m \in i..Len(q) : k # m
    BY <1>1
  <2>2. \A k \in 1..(i - 1), m \in i..Len(q) : q[k] # q[m]
    BY <1>1, <1>7, <1>12, <2>1
  <2> QED
    BY <1>9, <1>10, <2>2
<1> QED
  BY <1>2, <1>3, <1>6, <1>8, <1>13, <1>14 DEF Distinct

LEMMA DistinctInsert ==
    ASSUME NEW q, Distinct(q), NEW i \in 1..(Len(q) + 1), NEW e, e \notin ToSet(q)
    PROVE  Distinct(InsertAt(q, i, e)) /\ ToSet(InsertAt(q, i, e)) = ToSet(q) \cup {e}
<1>1. PICK a, b : a = SubSeq(q, 1, i - 1) /\ b = SubSeq(q, i, Len(q))
  OBVIOUS
<1>2. Distinct(a) /\ Distinct(b) /\ ToSet(a) \cup ToSet(b) = ToSet(q) /\ ToSet(a) \cap ToSet(b) = {}
  BY <1>1, DistinctParts
<1>3. PICK u : u = a \o <<e>>
  OBVIOUS
<1>4. Distinct(u) /\ ToSet(u) = ToSet(a) \cup {e}
  <2>1. u = Append(a, e)
    <3>1. a \in Seq(ToSet(a) \cup {e})
      <4>1. a \in Seq(ToSet(a))
        BY <1>2, ListFacts DEF Distinct
      <4> QED
        BY <4>1
    <3> QED
      BY <1>3, <3>1
  <2>2. e \notin ToSet(a)
    BY <1>2
  <2> QED
    BY <1>2, <2>1, <2>2, DistinctAppend
<1>5. ToSet(u) \cap ToSet(b) = {}
  BY <1>2, <1>4
<1>6. Distinct(u \o b) /\ ToSet(u \o b) = ToSet(u) \cup ToSet(b)
  BY <1>2, <1>4, <1>5, DistinctConcat
<1>7. InsertAt(q, i, e) = u \o b
  BY <1>1, <1>3 DEF InsertAt
<1> QED
  BY <1>2, <1>4, <1>6, <1>7

LEMMA DistinctRemove ==
    ASSUME NEW q, Distinct(q), NEW i \in 1..Len(q)
    PROVE  /\ Distinct(RemoveAt(q, i)) /\ Len(RemoveAt(q, i)) = Len(q) - 1
           /\ ToSet(RemoveAt(q, i)) = ToSet(q) \ {q[i]}
<1>1. q \in Seq(ToSet(q)) /\ Len(q) \in Nat /\ DOMAIN q = 1..Len(q)
  BY ListFacts DEF Distinct
<1>2. IsList(RemoveAt(q, i)) /\ Picks(RemoveAt(q, i), q) /\ Len(RemoveAt(q, i)) = Len(q) - 1
  BY RemoveAtList, RemoveAtPicks DEF Distinct
<1>3. IsInjective(RemoveAt(q, i))
  BY <1>2, PicksOnce DEF Distinct
<1>4. \A m : m \in Range(RemoveAt(q, i)) <=> m \in Range(q) /\ m # q[i]
  BY <1>1, RemoveAtMember DEF Distinct
<1>5. Range(RemoveAt(q, i)) = ToSet(RemoveAt(q, i)) /\ Range(q) = ToSet(q)
  BY DEF Range, ToSet
<1> QED
  BY <1>2, <1>3, <1>4, <1>5 DEF Distinct

-----------------------------------------------------------------------------
(* Scenarios that can be kept: their ids are numbers, what has a default    *)
(* has it or something else, and there is a start node.                     *)

Defaulted(n) == (KeptDefaults \ {"wait_ms"}) \cap DOMAIN DefaultFields(n.kind) \subseteq DOMAIN n.f
GoodNode(n) == IsNode(n) /\ n.id \in Nat /\ Defaulted(n)
GoodEdge(e) == IsEdge(e) /\ e.id \in Nat /\ "op" \in DOMAIN e.f
GoodNodes(q) == IsList(q) /\ \A n \in ToSet(q) : GoodNode(n)
GoodEdges(q) == IsList(q) /\ \A e \in ToSet(q) : GoodEdge(e)
HasStart(s) == \E n \in ToSet(s.nodes) : n.kind = "start"
Proper(s) == IsScene(s) /\ s.id \in Nat \ {0} /\ GoodNodes(s.nodes) /\ GoodEdges(s.edges) /\ HasStart(s)

LEMMA JoinedFields ==
    ASSUME NEW f, NEW g
    PROVE  /\ DOMAIN WithDefaults(f, g) = DOMAIN f \cup DOMAIN g
           /\ \A k \in DOMAIN f : WithDefaults(f, g)[k] = f[k]
           /\ \A k \in DOMAIN g \ DOMAIN f : WithDefaults(f, g)[k] = g[k]
  BY DEF WithDefaults

LEMMA OnlyFields ==
    ASSUME NEW f, NEW keys
    PROVE  DOMAIN Only(f, keys) = DOMAIN f \cap keys /\ \A k \in DOMAIN f \cap keys : Only(f, keys)[k] = f[k]
  BY DEF Only

LEMMA GoodNewNode ==
    ASSUME NEW id \in Nat, NEW kind0, NEW x, NEW y, NEW n, n = NewNode(id, kind0, x, y)
    PROVE  GoodNode(n) /\ n.id = id /\ n.kind = kind0
<1>1. n.id = id /\ n.kind = kind0 /\ n.f = DefaultFields(kind0)
  BY DEF NewNode
<1>2. IsNode(n)
  BY NewShapes
<1>3. Defaulted(n)
  BY <1>1 DEF Defaulted
<1> QED
  BY <1>1, <1>2, <1>3 DEF GoodNode

LEMMA GoodNewEdge ==
    ASSUME NEW id \in Nat, NEW a, NEW b, NEW e, e = NewEdge(id, a, b)
    PROVE  GoodEdge(e) /\ e.id = id /\ e.from = a /\ e.to = b
<1>1. e.id = id /\ e.from = a /\ e.to = b /\ e.f = [op |-> ">", count |-> "0"]
  BY DEF NewEdge
<1>2. IsEdge(e)
  BY NewShapes
<1> QED
  BY <1>1, <1>2 DEF GoodEdge

\* What is read from a file has its defaults again.
LEMMA GoodReadNode ==
    ASSUME NEW n, IsNode(n), NEW new \in Nat, NEW m, m = NodeFromDTO(n, new)
    PROVE  /\ IsNode(m) /\ Defaulted(m) /\ (n.id \in Nat => GoodNode(m)) /\ m.id = (IF n.id = NoId THEN new ELSE n.id)
           /\ m.kind = n.kind /\ m.x = n.x /\ m.y = n.y /\ m.w = n.w /\ m.h = n.h
           /\ m.f = WithDefaults(n.f, Only(DefaultFields(n.kind), KeptDefaults))
<1>1. /\ m.id = (IF n.id = NoId THEN new ELSE n.id)
      /\ m.kind = n.kind /\ m.x = n.x /\ m.y = n.y /\ m.w = n.w /\ m.h = n.h
      /\ m.f = WithDefaults(n.f, Only(DefaultFields(n.kind), KeptDefaults))
  BY DEF NodeFromDTO, IsNode
<1>2. IsNode(m)
  BY NodeShapes
<1>3. DOMAIN m.f = DOMAIN n.f \cup (DOMAIN DefaultFields(n.kind) \cap KeptDefaults)
  <2>1. PICK g, d : g = n.f /\ d = Only(DefaultFields(n.kind), KeptDefaults)
    OBVIOUS
  <2>2. DOMAIN d = DOMAIN DefaultFields(n.kind) \cap KeptDefaults
    BY <2>1 DEF Only
  <2>3. m.f = WithDefaults(g, d)
    BY <1>1, <2>1
  <2>4. DOMAIN WithDefaults(g, d) = DOMAIN g \cup DOMAIN d
    BY JoinedFields
  <2> QED
    BY <2>1, <2>2, <2>3, <2>4
<1>4. Defaulted(m)
  BY <1>1, <1>3 DEF Defaulted
<1>5. n.id \in Nat => m.id \in Nat
  BY <1>1
<1> QED
  BY <1>1, <1>2, <1>4, <1>5 DEF GoodNode

LEMMA GoodReadEdge ==
    ASSUME NEW e, IsEdge(e), NEW new \in Nat, NEW o, o = EdgeFromDTO(e, new)
    PROVE  /\ IsEdge(o) /\ "op" \in DOMAIN o.f /\ (e.id \in Nat => GoodEdge(o)) /\ o.id = (IF e.id = NoId THEN new ELSE e.id)
           /\ o.from = e.from /\ o.to = e.to /\ o.cond = e.cond
           /\ o.f = WithDefaults(e.f, [op |-> ">", count |-> "0"])
<1>1. /\ o.id = (IF e.id = NoId THEN new ELSE e.id)
      /\ o.from = e.from /\ o.to = e.to /\ o.cond = e.cond
      /\ o.f = WithDefaults(e.f, [op |-> ">", count |-> "0"])
  BY DEF EdgeFromDTO, IsEdge
<1>2. IsEdge(o)
  BY EdgeShapes
<1>3. PICK d : d = [op |-> ">", count |-> "0"]
  OBVIOUS
<1>4. "op" \in DOMAIN d
  BY <1>3
<1>5. "op" \in DOMAIN o.f
  <2>1. PICK g : g = e.f
    OBVIOUS
  <2>2. o.f = WithDefaults(g, d)
    BY <1>1, <1>3, <2>1
  <2>3. DOMAIN WithDefaults(g, d) = DOMAIN g \cup DOMAIN d
    BY JoinedFields
  <2> QED
    BY <1>4, <2>2, <2>3
<1>6. e.id \in Nat => o.id \in Nat
  BY <1>1
<1> QED
  BY <1>1, <1>2, <1>5, <1>6 DEF GoodEdge

LEMMA PickedPicks ==
    ASSUME NEW q, IsList(q), NEW P
    PROVE  Picks(Picked(q, P), q)
<1>1. PICK n : n = [i \in DOMAIN q |-> i]
  OBVIOUS
<1>2. PICK k : k = Selected(n, P)
  OBVIOUS
<1>3. Distinct(n) /\ DOMAIN n = DOMAIN q
  <2>1. Len(q) \in Nat /\ DOMAIN q = 1..Len(q)
    BY ListFacts
  <2>2. n = [i \in 1..Len(q) |-> n[i]]
    BY <1>1, <2>1
  <2>3. IsList(n)
    BY <2>1, <2>2, MappedList
  <2> QED
    BY <1>1, <2>3 DEF Distinct, IsInjective
<1>4. Distinct(k) /\ ToSet(k) = ToSet(n) \cap P
  BY <1>2, <1>3, DistinctSelected
<1>5. \A i \in DOMAIN k : k[i] \in DOMAIN q
  <2>1. \A x \in ToSet(n) : x \in DOMAIN q
    BY <1>1 DEF ToSet
  <2>2. \A i \in DOMAIN k : k[i] \in ToSet(k)
    BY DEF ToSet
  <2> QED
    BY <1>4, <2>1, <2>2
<1>6. PICK r : r = [i \in DOMAIN k |-> q[k[i]]]
  OBVIOUS
<1>7. r = Picked(q, P)
  BY <1>1, <1>2, <1>6 DEF Picked
<1>8. k \in [DOMAIN r -> DOMAIN q] /\ IsInjective(k) /\ \A i \in DOMAIN r : r[i] = q[k[i]]
  <2>1. k = [i \in DOMAIN k |-> k[i]]
    <3>1. k \in Seq(ToSet(k)) /\ DOMAIN k = 1..Len(k) /\ k = [i \in 1..Len(k) |-> k[i]]
      BY <1>4, ListFacts DEF Distinct
    <3> QED
      BY <3>1
  <2> QED
    BY <1>4, <1>5, <1>6, <2>1 DEF Distinct
<1> QED
  BY <1>7, <1>8 DEF Picks

-----------------------------------------------------------------------------
(* What a change of a scenario leaves of it.                                *)

\* The nodes, or the arrows, of r are those of q as far as soundness goes, and none is there twice.
NodesFrom(r, q) ==
    \E g \in [DOMAIN r -> DOMAIN q] :
       IsInjective(g) /\ \A i \in DOMAIN r : r[i].id = q[g[i]].id /\ r[i].kind = q[g[i]].kind
EdgesFrom(r, q) ==
    \E g \in [DOMAIN r -> DOMAIN q] :
       IsInjective(g) /\ \A i \in DOMAIN r : r[i].id = q[g[i]].id /\ r[i].from = q[g[i]].from /\ r[i].to = q[g[i]].to

\* A node that an arrow needs is still there.
EndsKept(t, s) ==
    \A e \in ToSet(t.edges) : \A n \in ToSet(s.nodes) :
       n.id \in {e.from, e.to} => \E m \in ToSet(t.nodes) : m.id = n.id /\ m.kind = n.kind

Derived(t, s) ==
    /\ NodesFrom(t.nodes, s.nodes) /\ EdgesFrom(t.edges, s.edges) /\ EndsKept(t, s)
    /\ HasStart(s) => HasStart(t)

LEMMA PicksFacts ==
    ASSUME NEW q, NEW r, Picks(r, q)
    PROVE  ToSet(r) \subseteq ToSet(q) /\ NodesFrom(r, q) /\ EdgesFrom(r, q)
<1>1. PICK g \in [DOMAIN r -> DOMAIN q] : IsInjective(g) /\ \A i \in DOMAIN r : r[i] = q[g[i]]
  BY DEF Picks
<1>2. ToSet(r) \subseteq ToSet(q)
  BY <1>1 DEF ToSet
<1>3. NodesFrom(r, q)
  BY <1>1 DEF NodesFrom
<1>4. EdgesFrom(r, q)
  BY <1>1 DEF EdgesFrom
<1> QED
  BY <1>2, <1>3, <1>4

LEMMA PicksSelf == ASSUME NEW q PROVE Picks(q, q)
<1>1. PICK g : g = [i \in DOMAIN q |-> i]
  OBVIOUS
<1>2. g \in [DOMAIN q -> DOMAIN q] /\ IsInjective(g) /\ \A i \in DOMAIN q : q[i] = q[g[i]]
  BY <1>1 DEF IsInjective
<1> QED
  BY <1>2 DEF Picks

LEMMA DerivedSame ==
    ASSUME NEW s, NEW t, t.nodes = s.nodes, t.edges = s.edges
    PROVE  Derived(t, s)
<1>1. NodesFrom(s.nodes, s.nodes) /\ EdgesFrom(s.edges, s.edges)
  BY PicksSelf, PicksFacts
<1>2. EndsKept(t, s) /\ (HasStart(s) => HasStart(t))
  BY DEF EndsKept, HasStart
<1> QED
  BY <1>1, <1>2 DEF Derived

LEMMA ProperFrom ==
    ASSUME NEW s, Proper(s), NEW t, IsScene(t), t.id = s.id, HasStart(s) => HasStart(t),
           \A n \in ToSet(t.nodes) : GoodNode(n), \A e \in ToSet(t.edges) : GoodEdge(e)
    PROVE  Proper(t)
<1>1. IsList(t.nodes) /\ IsList(t.edges)
  BY DEF IsScene, NodeList, EdgeList
<1> QED
  BY <1>1 DEF Proper, GoodNodes, GoodEdges

\* The name and the view of a scenario.
LEMMA LabelsChanged ==
    ASSUME NEW s, Proper(s), NEW x, NEW t, t = [s EXCEPT !.view = x] \/ t = [s EXCEPT !.name = x]
    PROVE  Proper(t) /\ t.id = s.id /\ t.nodes = s.nodes /\ t.edges = s.edges
<1>1. t.id = s.id /\ t.nodes = s.nodes /\ t.edges = s.edges
  BY SceneWith DEF Proper
<1>2. IsScene(t)
  <2>1. IsScene(s)
    BY DEF Proper
  <2>2. IsScene([s EXCEPT !.view = x]) /\ IsScene([s EXCEPT !.name = x])
    BY <2>1, SceneKept
  <2> QED
    BY <2>2
<1>3. HasStart(s) => HasStart(t)
  BY <1>1 DEF HasStart
<1> QED
  BY <1>1, <1>2, <1>3, ProperFrom DEF Proper, GoodNodes, GoodEdges

LEMMA ProperEncoded ==
    ASSUME NEW s, Proper(s), NEW t, t = Encode(s) \/ t = Synced(s)
    PROVE  Proper(t) /\ t.id = s.id /\ t.nodes = s.nodes /\ t.edges = s.edges
  BY LabelsChanged DEF Encode, Synced

\* Nodes that are removed take their arrows along.
LEMMA NodesRemoved ==
    ASSUME NEW s, Proper(s), NEW chosen, NEW t, t = RemoveNodes(s, chosen)
    PROVE  Proper(t) /\ t.id = s.id /\ Derived(t, s)
<1>0. NodeList(s.nodes) /\ EdgeList(s.edges) /\ IsList(s.nodes) /\ IsList(s.edges) /\ IsScene(s)
  BY DEF Proper, IsScene, NodeList, EdgeList
<1>1. PICK gone : gone = {id \in chosen : ~IsStart(s, id)}
  OBVIOUS
<1>2. PICK places : places = DOMAIN s.nodes \ {IndexOf(s.nodes, id) : id \in gone \cap IdsOf(s.nodes)}
  OBVIOUS
<1>3. PICK free : free = {e \in ToSet(s.edges) : {e.from, e.to} \cap gone = {}}
  OBVIOUS
<1>4. PICK ns, es : ns = Picked(s.nodes, places) /\ es = Selected(s.edges, free)
  OBVIOUS
<1>5. t.id = s.id /\ t.nodes = ns /\ t.edges = es
  <2>1. s = [id |-> s.id, name |-> s.name, nodes |-> s.nodes, edges |-> s.edges, view |-> s.view]
    BY <1>0 DEF IsScene
  <2>2. t = [s EXCEPT !.nodes = ns, !.edges = es]
    BY <1>1, <1>2, <1>3, <1>4 DEF RemoveNodes
  <2> QED
    BY <2>1, <2>2
<1>6. ToSet(ns) = {s.nodes[i] : i \in places}
  <2>1. places \cap DOMAIN s.nodes = places
    BY <1>2
  <2> QED
    BY <1>0, <1>4, <2>1, PickedList
<1>7. ToSet(es) = ToSet(s.edges) \cap free
  BY <1>0, <1>4, SelectedList
<1>8. Picks(ns, s.nodes) /\ Picks(es, s.edges)
  BY <1>0, <1>4, SelectedPicks, PickedPicks
<1>9. ASSUME NEW n \in ToSet(s.nodes), n.id \notin gone PROVE n \in ToSet(ns)
  <2>1. PICK i \in DOMAIN s.nodes : n = s.nodes[i]
    BY DEF ToSet
  <2>2. \A id \in gone \cap IdsOf(s.nodes) : s.nodes[IndexOf(s.nodes, id)].id = id
    BY <1>0, IndexFound
  <2>3. i \in places
    BY <1>2, <1>9, <2>1, <2>2
  <2> QED
    BY <1>6, <2>1, <2>3
<1>10. EndsKept(t, s)
  BY <1>3, <1>5, <1>7, <1>9 DEF EndsKept
<1>11. HasStart(s) => HasStart(t)
  <2>1. SUFFICES ASSUME NEW n \in ToSet(s.nodes), n.kind = "start" PROVE \E m \in ToSet(ns) : m.kind = "start"
    BY <1>5 DEF HasStart
  <2>2. PICK i \in DOMAIN s.nodes : n = s.nodes[i]
    BY DEF ToSet
  <2>3. ASSUME NEW id \in gone \cap IdsOf(s.nodes) PROVE IndexOf(s.nodes, id) # i
    <3>1. ~(ById(s.nodes, id).kind = "start")
      BY <1>1, <2>3 DEF IsStart
    <3> QED
      BY <2>1, <2>2, <3>1 DEF ById
  <2>4. i \in places
    BY <1>2, <2>3
  <2> QED
    BY <1>6, <2>1, <2>2, <2>4
<1>12. Derived(t, s)
  BY <1>5, <1>8, <1>10, <1>11, PicksFacts DEF Derived
<1>13. \A n \in ToSet(t.nodes) : n \in ToSet(s.nodes)
  BY <1>5, <1>8, PicksFacts
<1>14. \A e \in ToSet(t.edges) : e \in ToSet(s.edges)
  BY <1>5, <1>7
<1>15. IsScene(t)
  BY <1>0, RemovalScenes
<1> QED
  BY <1>5, <1>11, <1>12, <1>13, <1>14, <1>15, ProperFrom DEF Proper, GoodNodes, GoodEdges

LEMMA RotatedPicks ==
    ASSUME NEW q, IsList(q), NEW i \in 1..Len(q), NEW r, r = Append(RemoveAt(q, i), q[i])
    PROVE  Picks(r, q) /\ IsList(r) /\ ToSet(r) = ToSet(q)
<1>1. PICK p : p = RemoveAt(q, i)
  OBVIOUS
<1>2. q \in Seq(ToSet(q)) /\ Len(q) \in Nat /\ DOMAIN q = 1..Len(q) /\ q[i] \in ToSet(q)
  BY ListFacts
<1>3. /\ p \in Seq(ToSet(q)) /\ Len(p) = Len(q) - 1
      /\ \A k \in 1..(Len(q) - 1) : p[k] = IF k < i THEN q[k] ELSE q[k + 1]
  BY <1>1, <1>2, RemoveAtProperties
<1>4. /\ r \in Seq(ToSet(q)) /\ Len(r) = Len(q) /\ DOMAIN r = 1..Len(q)
      /\ r[Len(q)] = q[i] /\ \A k \in 1..(Len(q) - 1) : r[k] = p[k]
  <2>1. PICK e : e = q[i]
    OBVIOUS
  <2>2. PICK m \in Nat : m = Len(q) - 1
    <3>1. PICK l \in Nat : l = Len(q)
      BY <1>2
    <3>2. l - 1 \in Nat
      BY <3>1
    <3> QED
      BY <3>1, <3>2
  <2>3. e \in ToSet(q) /\ r = Append(p, e) /\ Len(p) = m /\ p \in Seq(ToSet(q))
    BY <1>1, <1>2, <1>3, <2>1, <2>2
  <2>4. /\ r \in Seq(ToSet(q)) /\ Len(r) = m + 1 /\ DOMAIN r = 1..(m + 1)
        /\ r[m + 1] = e /\ \A k \in 1..m : r[k] = p[k]
    BY <2>3
  <2>5. m + 1 = Len(q) /\ Len(q) - 1 = m
    BY <1>2, <2>2
  <2> QED
    BY <2>1, <2>4, <2>5
<1>5. PICK n \in Nat : n = Len(q)
  BY <1>2
<1>6. PICK g : g = [k \in 1..n |-> IF k = n THEN i ELSE IF k < i THEN k ELSE k + 1]
  OBVIOUS
<1>7. g \in [1..n -> 1..n] /\ IsInjective(g)
  <2>1. i \in 1..n
    BY <1>5
  <2> QED
    BY <1>6, <2>1 DEF IsInjective
<1>8. \A k \in 1..n : r[k] = q[g[k]]
  <2>1. ASSUME NEW k \in 1..n, k # n PROVE r[k] = q[g[k]]
    <3>1. k \in 1..(Len(q) - 1)
      BY <1>5, <2>1
    <3> QED
      BY <1>3, <1>4, <1>6, <2>1, <3>1
  <2>2. ASSUME n \in 1..n PROVE r[n] = q[g[n]]
    BY <1>4, <1>5, <1>6, <2>2
  <2> QED
    BY <2>1, <2>2
<1>9. Picks(r, q)
  BY <1>2, <1>4, <1>5, <1>7, <1>8 DEF Picks
<1>10. IsList(p) /\ ToSet(p) \cup {q[i]} = ToSet(q)
  BY <1>1, RemoveAtList
<1>11. IsList(r) /\ ToSet(r) = ToSet(p) \cup {q[i]}
  BY <1>1, <1>10, AppendList
<1> QED
  BY <1>9, <1>10, <1>11

\* An arrow that is removed, or taken off and put back.
LEMMA EdgeRemoved ==
    ASSUME NEW s, Proper(s), NEW id, NEW t, t = RemoveEdge(s, id)
    PROVE  Proper(t) /\ t.id = s.id /\ t.nodes = s.nodes /\ Picks(t.edges, s.edges) /\ Derived(t, s)
<1>0. IsList(s.edges) /\ IsScene(s)
  BY DEF Proper, IsScene, EdgeList
<1>1. CASE id \notin IdsOf(s.edges)
  <2>1. t = s
    BY <1>1 DEF RemoveEdge
  <2> QED
    BY <2>1, DerivedSame, PicksSelf
<1>2. CASE id \in IdsOf(s.edges)
  <2>1. PICK i : i = IndexOf(s.edges, id)
    OBVIOUS
  <2>2. i \in DOMAIN s.edges /\ DOMAIN s.edges = 1..Len(s.edges)
    BY <1>0, <1>2, <2>1, IndexFound, ListFacts
  <2>3. PICK es : es = RemoveAt(s.edges, i)
    OBVIOUS
  <2>4. Picks(es, s.edges)
    BY <1>0, <2>2, <2>3, RemoveAtPicks
  <2>5. t = [s EXCEPT !.edges = es]
    BY <1>2, <2>1, <2>3 DEF RemoveEdge
  <2>6. t.id = s.id /\ t.nodes = s.nodes /\ t.edges = es
    BY <1>0, <2>5, SceneWith
  <2>7. NodesFrom(t.nodes, s.nodes) /\ EdgesFrom(t.edges, s.edges) /\ ToSet(t.edges) \subseteq ToSet(s.edges)
    BY <2>4, <2>6, PicksFacts, PicksSelf
  <2>8. EndsKept(t, s) /\ (HasStart(s) => HasStart(t))
    BY <2>6 DEF EndsKept, HasStart
  <2>9. IsScene(t)
    BY <1>0, RemovalScenes
  <2>10. Proper(t)
    BY <2>6, <2>7, <2>8, <2>9, ProperFrom DEF Proper, GoodNodes, GoodEdges
  <2> QED
    BY <2>4, <2>6, <2>7, <2>8, <2>10 DEF Derived
<1> QED
  BY <1>1, <1>2

\* Nodes and arrows that stay in their places.
LEMMA NodesChanged ==
    ASSUME NEW s, Proper(s), NEW t, IsScene(t), t.id = s.id, t.edges = s.edges, DOMAIN t.nodes = DOMAIN s.nodes,
           \A i \in DOMAIN s.nodes :
              t.nodes[i].id = s.nodes[i].id /\ t.nodes[i].kind = s.nodes[i].kind /\ GoodNode(t.nodes[i])
    PROVE  Proper(t) /\ Derived(t, s)
<1>1. NodesFrom(t.nodes, s.nodes)
  <2>1. PICK g : g = [i \in DOMAIN s.nodes |-> i]
    OBVIOUS
  <2>2. g \in [DOMAIN t.nodes -> DOMAIN s.nodes] /\ IsInjective(g)
    BY <2>1 DEF IsInjective
  <2>3. \A i \in DOMAIN t.nodes : t.nodes[i].id = s.nodes[g[i]].id /\ t.nodes[i].kind = s.nodes[g[i]].kind
    BY <2>1
  <2> QED
    BY <2>2, <2>3 DEF NodesFrom
<1>2. EdgesFrom(t.edges, s.edges)
  BY PicksSelf, PicksFacts
<1>3. \A n \in ToSet(s.nodes) : \E m \in ToSet(t.nodes) : m.id = n.id /\ m.kind = n.kind
  BY DEF ToSet
<1>4. EndsKept(t, s) /\ (HasStart(s) => HasStart(t))
  BY <1>3 DEF EndsKept, HasStart
<1>5. \A n \in ToSet(t.nodes) : GoodNode(n)
  BY DEF ToSet
<1>6. \A e \in ToSet(t.edges) : GoodEdge(e)
  BY DEF Proper, GoodEdges
<1>7. Proper(t)
  BY <1>4, <1>5, <1>6, ProperFrom
<1> QED
  BY <1>1, <1>2, <1>4, <1>7 DEF Derived

LEMMA NodeChanged ==
    ASSUME NEW s, Proper(s), NEW id \in IdsOf(s.nodes), NEW n, GoodNode(n), n.id = id,
           n.kind = ById(s.nodes, id).kind, NEW t, t = WithNode(s, id, n)
    PROVE  Proper(t) /\ t.id = s.id /\ Derived(t, s) /\ IdsOf(t.nodes) = IdsOf(s.nodes) /\ t.edges = s.edges
<1>0. IsScene(s) /\ IsList(s.nodes)
  BY DEF Proper, IsScene, NodeList
<1>1. PICK i, q : i = IndexOf(s.nodes, id) /\ q = [s.nodes EXCEPT ![i] = n]
  OBVIOUS
<1>2. i \in DOMAIN s.nodes /\ s.nodes[i].id = id /\ s.nodes[i] = ById(s.nodes, id)
  BY <1>0, <1>1, IndexFound DEF ById
<1>3. t = [s EXCEPT !.nodes = q]
  BY <1>1 DEF WithNode
<1>4. t.id = s.id /\ t.edges = s.edges /\ t.nodes = q
  BY <1>0, <1>3, SceneWith
<1>5. DOMAIN q = DOMAIN s.nodes /\ \A k \in DOMAIN s.nodes : q[k] = IF k = i THEN n ELSE s.nodes[k]
  BY <1>1
<1>6. \A k \in DOMAIN s.nodes : GoodNode(s.nodes[k])
  BY DEF Proper, GoodNodes, ToSet
<1>7. \A k \in DOMAIN s.nodes : q[k].id = s.nodes[k].id /\ q[k].kind = s.nodes[k].kind /\ GoodNode(q[k])
  BY <1>2, <1>5, <1>6
<1>8. IsScene(t)
  <2>1. IsNode(n)
    BY DEF GoodNode
  <2> QED
    BY <1>0, <2>1, ChangedScenes
<1>9. Proper(t) /\ Derived(t, s)
  BY <1>4, <1>5, <1>7, <1>8, NodesChanged
<1>10. IdsOf(t.nodes) = IdsOf(s.nodes)
  BY <1>4, <1>5, <1>7 DEF IdsOf
<1> QED
  BY <1>4, <1>9, <1>10

LEMMA EdgeChanged ==
    ASSUME NEW s, Proper(s), NEW id \in IdsOf(s.edges), NEW e, GoodEdge(e), e.id = id,
           e.from = ById(s.edges, id).from, e.to = ById(s.edges, id).to, NEW t, t = WithEdge(s, id, e)
    PROVE  Proper(t) /\ t.id = s.id /\ Derived(t, s) /\ IdsOf(t.edges) = IdsOf(s.edges) /\ t.nodes = s.nodes
<1>0. IsScene(s) /\ IsList(s.edges)
  BY DEF Proper, IsScene, EdgeList
<1>1. PICK i, q : i = IndexOf(s.edges, id) /\ q = [s.edges EXCEPT ![i] = e]
  OBVIOUS
<1>2. i \in DOMAIN s.edges /\ s.edges[i].id = id /\ s.edges[i] = ById(s.edges, id)
  BY <1>0, <1>1, IndexFound DEF ById
<1>3. t = [s EXCEPT !.edges = q]
  BY <1>1 DEF WithEdge
<1>4. t.id = s.id /\ t.nodes = s.nodes /\ t.edges = q
  BY <1>0, <1>3, SceneWith
<1>5. DOMAIN q = DOMAIN s.edges /\ \A k \in DOMAIN s.edges : q[k] = IF k = i THEN e ELSE s.edges[k]
  BY <1>1
<1>6. \A k \in DOMAIN s.edges : GoodEdge(s.edges[k])
  BY DEF Proper, GoodEdges, ToSet
<1>7. \A k \in DOMAIN s.edges :
         q[k].id = s.edges[k].id /\ q[k].from = s.edges[k].from /\ q[k].to = s.edges[k].to /\ GoodEdge(q[k])
  BY <1>2, <1>5, <1>6
<1>8. IsScene(t)
  <2>1. IsEdge(e)
    BY DEF GoodEdge
  <2> QED
    BY <1>0, <2>1, ChangedScenes
<1>9. EdgesFrom(q, s.edges)
  <2>1. PICK g : g = [k \in DOMAIN s.edges |-> k]
    OBVIOUS
  <2>2. g \in [DOMAIN q -> DOMAIN s.edges] /\ IsInjective(g)
    BY <1>5, <2>1 DEF IsInjective
  <2>3. \A k \in DOMAIN q : q[k].id = s.edges[g[k]].id /\ q[k].from = s.edges[g[k]].from /\ q[k].to = s.edges[g[k]].to
    BY <1>5, <1>7, <2>1
  <2> QED
    BY <2>2, <2>3 DEF EdgesFrom
<1>10. NodesFrom(t.nodes, s.nodes)
  BY <1>4, PicksSelf, PicksFacts
<1>11. EndsKept(t, s) /\ (HasStart(s) => HasStart(t))
  BY <1>4 DEF EndsKept, HasStart
<1>12. \A o \in ToSet(t.edges) : GoodEdge(o)
  BY <1>4, <1>5, <1>7 DEF ToSet
<1>13. \A n \in ToSet(t.nodes) : GoodNode(n)
  BY <1>4 DEF Proper, GoodNodes
<1>14. Proper(t)
  BY <1>4, <1>8, <1>11, <1>12, <1>13, ProperFrom
<1>15. IdsOf(t.edges) = IdsOf(s.edges)
  BY <1>4, <1>5, <1>7 DEF IdsOf
<1> QED
  BY <1>4, <1>9, <1>10, <1>11, <1>14, <1>15 DEF Derived

LEMMA PutOnTop ==
    ASSUME Proper(sc), NEW id \in NodeIds, NEW t, t = [sc EXCEPT !.nodes = OnTop(id)]
    PROVE  Proper(t) /\ t.id = sc.id /\ Derived(t, sc) /\ IdsOf(t.nodes) = NodeIds /\ t.edges = sc.edges
<1>0. IsScene(sc) /\ IsList(sc.nodes) /\ id \in IdsOf(sc.nodes)
  BY DEF Proper, IsScene, NodeList, NodeIds
<1>1. PICK i : i = IndexOf(sc.nodes, id)
  OBVIOUS
<1>2. i \in 1..Len(sc.nodes)
  BY <1>0, <1>1, IndexFound, ListFacts
<1>3. PICK q : q = Append(RemoveAt(sc.nodes, i), sc.nodes[i])
  OBVIOUS
<1>4. Picks(q, sc.nodes) /\ IsList(q) /\ ToSet(q) = ToSet(sc.nodes)
  BY <1>0, <1>2, <1>3, RotatedPicks
<1>5. t = [sc EXCEPT !.nodes = q]
  BY <1>1, <1>3 DEF OnTop, NodeOf, ById
<1>6. t.id = sc.id /\ t.edges = sc.edges /\ t.nodes = q
  BY <1>0, <1>5, SceneWith
<1>7. NodeList(q)
  BY <1>0, <1>4 DEF IsScene, NodeList
<1>8. IsScene(t)
  <2>1. IsScene([sc EXCEPT !.nodes = q])
    BY <1>0, <1>7, SceneKept
  <2> QED
    BY <1>5, <2>1
<1>9. EndsKept(t, sc) /\ (HasStart(sc) => HasStart(t))
  BY <1>4, <1>6 DEF EndsKept, HasStart
<1>10. NodesFrom(t.nodes, sc.nodes) /\ EdgesFrom(t.edges, sc.edges)
  BY <1>4, <1>6, PicksFacts, PicksSelf
<1>11. Proper(t)
  BY <1>4, <1>6, <1>8, <1>9, ProperFrom DEF Proper, GoodNodes, GoodEdges
<1>12. IdsOf(t.nodes) = NodeIds
  BY <1>0, <1>4, <1>6, IdsOfList DEF NodeIds
<1> QED
  BY <1>6, <1>9, <1>10, <1>11, <1>12 DEF Derived

LEMMA NodesMoved ==
    ASSUME NEW s, Proper(s), NEW q, q = [i \in DOMAIN s.nodes |-> q[i]],
           \A i \in DOMAIN s.nodes : \E dx, dy : q[i] = Moved(s.nodes[i], dx, dy),
           NEW t, t = [s EXCEPT !.nodes = q]
    PROVE  Proper(t) /\ t.id = s.id /\ Derived(t, s) /\ IdsOf(t.nodes) = IdsOf(s.nodes) /\ t.edges = s.edges
<1>0. IsScene(s) /\ IsList(s.nodes) /\ NodeList(s.nodes)
  BY DEF Proper, IsScene, NodeList
<1>1. t.id = s.id /\ t.edges = s.edges /\ t.nodes = q
  BY <1>0, SceneWith
<1>2. ASSUME NEW i \in DOMAIN s.nodes
      PROVE  q[i].id = s.nodes[i].id /\ q[i].kind = s.nodes[i].kind /\ GoodNode(q[i])
  <2>1. PICK n, dx, dy : n = s.nodes[i] /\ q[i] = Moved(n, dx, dy)
    OBVIOUS
  <2>2. GoodNode(n)
    BY <2>1 DEF Proper, GoodNodes, ToSet
  <2>3. PICK m : m = Moved(n, dx, dy)
    OBVIOUS
  <2>4. IsNode(m)
    BY <2>2, <2>3, NodeShapes DEF GoodNode
  <2>5. m.id = n.id /\ m.kind = n.kind /\ m.f = n.f
    BY <2>2, <2>3 DEF Moved, GoodNode, IsNode
  <2> QED
    BY <2>1, <2>2, <2>3, <2>4, <2>5 DEF GoodNode, Defaulted
<1>3. NodeList(q)
  BY <1>0, <1>2, MadeNodes DEF GoodNode
<1>4. IsScene(t)
  BY <1>0, <1>3, SceneKept
<1>5. Proper(t) /\ Derived(t, s)
  BY <1>1, <1>2, <1>4, NodesChanged
<1>6. IdsOf(t.nodes) = IdsOf(s.nodes)
  <2>1. DOMAIN q = DOMAIN s.nodes
    OBVIOUS
  <2>2. \A i \in DOMAIN s.nodes : q[i].id = s.nodes[i].id
    BY <1>2
  <2> QED
    BY <1>1, <2>1, <2>2 DEF IdsOf
<1> QED
  BY <1>1, <1>5, <1>6

\* What comes to a scenario.
LEMMA EdgeAttached ==
    ASSUME NEW s, Proper(s), NEW e, GoodEdge(e), NEW t, t = Attached(s, e)
    PROVE  /\ Proper(t) /\ t.id = s.id /\ t.nodes = s.nodes /\ t.edges = Append(s.edges, e)
           /\ ToSet(t.edges) = ToSet(s.edges) \cup {e} /\ Last(t.edges) = e
<1>0. IsScene(s) /\ IsList(s.edges)
  BY DEF Proper, IsScene, EdgeList
<1>1. PICK q : q = Append(s.edges, e)
  OBVIOUS
<1>2. IsList(q) /\ ToSet(q) = ToSet(s.edges) \cup {e} /\ Last(q) = e
  BY <1>0, <1>1, AppendList
<1>3. t = [s EXCEPT !.edges = q]
  BY <1>1 DEF Attached
<1>4. t.id = s.id /\ t.nodes = s.nodes /\ t.edges = q
  BY <1>0, <1>3, SceneWith
<1>5. IsScene(t)
  <2>1. IsEdge(e)
    BY DEF GoodEdge
  <2> QED
    BY <1>0, <2>1, ChangedScenes
<1>6. HasStart(s) => HasStart(t)
  BY <1>4 DEF HasStart
<1>7. Proper(t)
  BY <1>2, <1>4, <1>5, <1>6, ProperFrom DEF Proper, GoodNodes, GoodEdges
<1> QED
  BY <1>1, <1>2, <1>4, <1>7

LEMMA NodesAdded ==
    ASSUME Proper(sc), NEW q, GoodNodes(q), NEW t, t = WithNew(q)
    PROVE  /\ Proper(t) /\ t.id = sc.id /\ t.nodes = sc.nodes \o q /\ t.edges = sc.edges
           /\ ToSet(t.nodes) = ToSet(sc.nodes) \cup ToSet(q) /\ IdsOf(t.nodes) = NodeIds \cup IdsOf(q)
<1>0. IsScene(sc) /\ IsList(sc.nodes) /\ IsList(q)
  BY DEF Proper, IsScene, NodeList, GoodNodes
<1>1. PICK r : r = sc.nodes \o q
  OBVIOUS
<1>2. IsList(r) /\ ToSet(r) = ToSet(sc.nodes) \cup ToSet(q)
  BY <1>0, <1>1, ConcatList
<1>3. t = [sc EXCEPT !.nodes = r]
  BY <1>1 DEF WithNew
<1>4. t.id = sc.id /\ t.nodes = r /\ t.edges = sc.edges
  BY <1>0, <1>3, SceneWith
<1>5. \A n \in ToSet(r) : GoodNode(n)
  BY <1>2 DEF Proper, GoodNodes
<1>6. NodeList(r)
  BY <1>2, <1>5 DEF NodeList, GoodNode
<1>7. IsScene(t)
  <2>1. IsScene([sc EXCEPT !.nodes = r])
    BY <1>0, <1>6, SceneKept
  <2> QED
    BY <1>3, <2>1
<1>8. HasStart(sc) => HasStart(t)
  BY <1>2, <1>4 DEF HasStart
<1>9. \A e \in ToSet(t.edges) : GoodEdge(e)
  BY <1>4 DEF Proper, GoodEdges
<1>10. Proper(t)
  BY <1>4, <1>5, <1>7, <1>8, <1>9, ProperFrom
<1>11. IdsOf(t.nodes) = NodeIds \cup IdsOf(q)
  <2>1. IdsOf(r) = {x.id : x \in ToSet(r)} /\ IdsOf(q) = {x.id : x \in ToSet(q)}
        /\ NodeIds = {x.id : x \in ToSet(sc.nodes)}
    BY <1>0, <1>2, IdsOfList DEF NodeIds
  <2> QED
    BY <1>2, <1>4, <2>1
<1> QED
  BY <1>1, <1>2, <1>4, <1>10, <1>11

LEMMA PartAdded ==
    ASSUME NEW s, Proper(s), NEW p, IsPart(p), GoodNodes(p.nodes), GoodEdges(p.edges), NEW t, t = WithPart(s, p)
    PROVE  Proper(t) /\ IdsOf(t.nodes) = IdsOf(s.nodes) \cup IdsOf(p.nodes)
<1>0. IsScene(s) /\ IsList(s.nodes) /\ IsList(s.edges) /\ IsList(p.nodes) /\ IsList(p.edges)
  BY DEF Proper, IsScene, NodeList, EdgeList, GoodNodes, GoodEdges
<1>1. PICK ns, es : ns = s.nodes \o p.nodes /\ es = s.edges \o p.edges
  OBVIOUS
<1>2. /\ IsList(ns) /\ ToSet(ns) = ToSet(s.nodes) \cup ToSet(p.nodes)
      /\ IsList(es) /\ ToSet(es) = ToSet(s.edges) \cup ToSet(p.edges)
  BY <1>0, <1>1, ConcatList
<1>3. t.id = s.id /\ t.nodes = ns /\ t.edges = es
  <2>1. s = [id |-> s.id, name |-> s.name, nodes |-> s.nodes, edges |-> s.edges, view |-> s.view]
    BY <1>0 DEF IsScene
  <2>2. t = [s EXCEPT !.nodes = ns, !.edges = es]
    BY <1>1 DEF WithPart
  <2> QED
    BY <2>1, <2>2
<1>4. IsScene(t)
  BY <1>0, ChangedScenes
<1>5. HasStart(s) => HasStart(t)
  BY <1>2, <1>3 DEF HasStart
<1>6. (\A n \in ToSet(t.nodes) : GoodNode(n)) /\ \A e \in ToSet(t.edges) : GoodEdge(e)
  BY <1>2, <1>3 DEF Proper, GoodNodes, GoodEdges
<1>7. Proper(t)
  BY <1>3, <1>4, <1>5, <1>6, ProperFrom
<1>8. IdsOf(t.nodes) = IdsOf(s.nodes) \cup IdsOf(p.nodes)
  <2>1. IdsOf(ns) = {x.id : x \in ToSet(ns)} /\ IdsOf(s.nodes) = {x.id : x \in ToSet(s.nodes)}
        /\ IdsOf(p.nodes) = {x.id : x \in ToSet(p.nodes)}
    BY <1>0, <1>2, IdsOfList
  <2> QED
    BY <1>2, <1>3, <2>1
<1> QED
  BY <1>7, <1>8

LEMMA ProperNew ==
    ASSUME NEW id \in Nat \ {0}, NEW s, s = NewScenario(id)
    PROVE  /\ Proper(s) /\ s.id = id /\ s.edges = <<>> /\ Len(s.nodes) = 1
           /\ s.nodes[1].id = id + 1 /\ s.nodes[1].kind = "start"
<1>1. PICK n : n = NewNode(id + 1, "start", 80, 200)
  OBVIOUS
<1>2. GoodNode(n) /\ n.id = id + 1 /\ n.kind = "start"
  BY <1>1, GoodNewNode
<1>3. PICK q : q = <<n>>
  OBVIOUS
<1>4. Len(q) = 1 /\ q[1] = n /\ ToSet(q) = {n} /\ IsList(q)
  <2>1. q \in Seq({n}) /\ Len(q) = 1 /\ q[1] = n /\ DOMAIN q = {1}
    BY <1>3
  <2>2. ToSet(q) = {n}
    BY <2>1 DEF ToSet
  <2> QED
    BY <2>1, <2>2, SeqIsList
<1>5. s = [id |-> id, name |-> "", nodes |-> q, edges |-> <<>>, view |-> <<>>]
  BY <1>1, <1>3 DEF NewScenario
<1>6. IsScene(s)
  BY NewScene
<1>7. s.id = id /\ s.nodes = q /\ s.edges = <<>>
  <2>1. PICK name, none : name = "" /\ none = <<>>
    OBVIOUS
  <2>2. s = [id |-> id, name |-> name, nodes |-> q, edges |-> none, view |-> none]
    BY <1>5, <2>1
  <2>3. s.id = id /\ s.nodes = q /\ s.edges = none
    BY <2>2
  <2> QED
    BY <2>1, <2>3
<1>8. GoodNodes(s.nodes) /\ HasStart(s)
  BY <1>2, <1>4, <1>7 DEF GoodNodes, HasStart
<1>9. GoodEdges(s.edges)
  BY <1>7, EmptyList DEF GoodEdges
<1> QED
  BY <1>2, <1>4, <1>6, <1>7, <1>8, <1>9 DEF Proper

-----------------------------------------------------------------------------
(* What is read, copied, dropped and sent here.                             *)

LEMMA ReadNodes ==
    ASSUME NEW q, NodeList(q), IdsOf(q) \subseteq Nat, NEW new \in Nat, NEW r, r = NodesFromDTO(q, new)
    PROVE  /\ GoodNodes(r) /\ DOMAIN r = DOMAIN q /\ Len(r) = Len(q)
           /\ \A i \in DOMAIN q : /\ r[i] = NodeFromDTO(q[i], new + i) /\ r[i].kind = q[i].kind
                                  /\ r[i].id = (IF q[i].id = NoId THEN new + i ELSE q[i].id)
<1>0. IsList(q) /\ Len(q) \in Nat /\ DOMAIN q = 1..Len(q)
  BY ListFacts DEF NodeList
<1>1. DOMAIN r = DOMAIN q /\ r = [i \in 1..Len(q) |-> r[i]] /\ \A i \in DOMAIN q : r[i] = NodeFromDTO(q[i], new + i)
  BY <1>0 DEF NodesFromDTO
<1>2. ASSUME NEW i \in DOMAIN q
      PROVE  GoodNode(r[i]) /\ r[i].kind = q[i].kind /\ r[i].id = (IF q[i].id = NoId THEN new + i ELSE q[i].id)
  <2>1. PICK n, m : n = q[i] /\ m = r[i]
    OBVIOUS
  <2>2. PICK k \in Nat : k = new + i
    BY <1>0
  <2>3. IsNode(n) /\ n.id \in Nat
    BY <2>1, NodeLists DEF IdsOf
  <2>4. m = NodeFromDTO(n, k)
    BY <1>1, <2>1, <2>2
  <2>5. GoodNode(m) /\ m.id = (IF n.id = NoId THEN k ELSE n.id) /\ m.kind = n.kind
    BY <2>3, <2>4, GoodReadNode
  <2> QED
    BY <2>1, <2>2, <2>5
<1>3. IsList(r) /\ Len(r) = Len(q) /\ ToSet(r) = {r[i] : i \in 1..Len(q)}
  BY <1>0, <1>1, MappedList
<1>4. GoodNodes(r)
  BY <1>0, <1>2, <1>3 DEF GoodNodes
<1> QED
  BY <1>1, <1>2, <1>3, <1>4

LEMMA ReadEdges ==
    ASSUME NEW q, EdgeList(q), IdsOf(q) \subseteq Nat, NEW known, NEW new \in Nat, NEW r,
           r = EdgesFromDTO(q, known, new), NEW j, j = Selected(q, Joining(q, known))
    PROVE  /\ GoodEdges(r) /\ DOMAIN r = DOMAIN j /\ Len(r) = Len(j)
           /\ \A i \in DOMAIN j : r[i] = EdgeFromDTO(j[i], new + i)
<1>0. IsList(j) /\ Picks(j, q) /\ EdgeList(j)
  BY SelectedList, SelectedPicks, EdgeLists DEF EdgeList
<1>1. Len(j) \in Nat /\ DOMAIN j = 1..Len(j)
  BY <1>0, ListFacts
<1>2. DOMAIN r = DOMAIN j /\ r = [i \in 1..Len(j) |-> r[i]] /\ \A i \in DOMAIN j : r[i] = EdgeFromDTO(j[i], new + i)
  BY <1>1 DEF EdgesFromDTO
<1>3. ASSUME NEW i \in DOMAIN j PROVE GoodEdge(r[i])
  <2>1. PICK e, o : e = j[i] /\ o = r[i]
    OBVIOUS
  <2>2. PICK k \in Nat : k = new + i
    BY <1>1
  <2>3. IsEdge(e)
    BY <1>0, <2>1, EdgeLists
  <2>4. e.id \in Nat
    <3>1. e \in ToSet(q)
      <4>1. e \in ToSet(j)
        BY <1>0, <1>1, <2>1, ListFacts
      <4> QED
        BY <1>0, <4>1, PicksFacts
    <3>2. IdsOf(q) = {x.id : x \in ToSet(q)}
      BY IdsOfList DEF EdgeList
    <3> QED
      BY <3>1, <3>2
  <2>5. o = EdgeFromDTO(e, k)
    BY <1>2, <2>1, <2>2
  <2>6. GoodEdge(o)
    BY <2>3, <2>4, <2>5, GoodReadEdge
  <2> QED
    BY <2>1, <2>6
<1>4. IsList(r) /\ Len(r) = Len(j) /\ ToSet(r) = {r[i] : i \in 1..Len(j)}
  BY <1>1, <1>2, MappedList
<1>5. GoodEdges(r)
  BY <1>1, <1>3, <1>4 DEF GoodEdges
<1> QED
  BY <1>2, <1>4, <1>5

LEMMA StartAdded ==
    ASSUME NEW q, GoodNodes(q), NEW new \in Nat, NEW r, r = WithStart(q, new)
    PROVE  /\ GoodNodes(r) /\ \E n \in ToSet(r) : n.kind = "start"
           /\ (\E n \in ToSet(q) : n.kind = "start") => r = q
<1>1. CASE \E i \in DOMAIN q : q[i].kind = "start"
  <2>1. r = q
    BY <1>1 DEF WithStart
  <2> QED
    BY <1>1, <2>1 DEF ToSet
<1>2. CASE ~\E i \in DOMAIN q : q[i].kind = "start"
  <2>1. PICK n : n = NewNode(new, "start", 80, 200)
    OBVIOUS
  <2>2. GoodNode(n) /\ n.kind = "start"
    BY <2>1, GoodNewNode
  <2>3. PICK u : u = <<n>>
    OBVIOUS
  <2>4. IsList(u) /\ ToSet(u) = {n}
    <3>1. u \in Seq({n}) /\ Len(u) = 1 /\ u[1] = n /\ DOMAIN u = {1}
      BY <2>3
    <3>2. ToSet(u) = {n}
      BY <3>1 DEF ToSet
    <3> QED
      BY <3>1, <3>2, SeqIsList
  <2>5. r = u \o q
    BY <1>2, <2>1, <2>3 DEF WithStart
  <2>6. IsList(q)
    BY DEF GoodNodes
  <2>7. IsList(r) /\ ToSet(r) = {n} \cup ToSet(q)
    BY <2>4, <2>5, <2>6, ConcatList
  <2>8. ~\E m \in ToSet(q) : m.kind = "start"
    BY <1>2 DEF ToSet
  <2> QED
    BY <2>2, <2>7, <2>8 DEF GoodNodes
<1> QED
  BY <1>1, <1>2

LEMMA ProperRead ==
    ASSUME NEW dto, IsScene(dto), IsNumbered(dto), NEW new \in Nat, dto.id # NoId \/ new # 0,
           NEW t, t = ScenarioFromDTO(dto, new)
    PROVE  Proper(t) /\ t.id = (IF dto.id = NoId THEN new ELSE dto.id) /\ t.view = dto.view
<1>0. /\ NodeList(dto.nodes) /\ EdgeList(dto.edges) /\ dto.id \in Nat
      /\ IdsOf(dto.nodes) \subseteq Nat /\ IdsOf(dto.edges) \subseteq Nat
  BY NumberedIds DEF IsScene
<1>1. PICK m \in Nat : m = new + 1
  OBVIOUS
<1>2. PICK ns : ns = NodesFromDTO(dto.nodes, m)
  OBVIOUS
<1>3. GoodNodes(ns)
  BY <1>0, <1>2, ReadNodes
<1>4. PICK ws : ws = WithStart(ns, m)
  OBVIOUS
<1>5. GoodNodes(ws) /\ \E n \in ToSet(ws) : n.kind = "start"
  BY <1>3, <1>4, StartAdded
<1>6. PICK k \in Nat : k = m + Len(ns)
  BY <1>3, ListFacts DEF GoodNodes
<1>7. PICK es : es = EdgesFromDTO(dto.edges, IdsOf(ns), k)
  OBVIOUS
<1>8. GoodEdges(es)
  BY <1>0, <1>7, ReadEdges
<1>9. t = [id |-> IF dto.id = NoId THEN new ELSE dto.id, name |-> dto.name, nodes |-> ws, edges |-> es, view |-> dto.view]
  BY <1>1, <1>2, <1>4, <1>6, <1>7 DEF ScenarioFromDTO
<1>10. t.id = (IF dto.id = NoId THEN new ELSE dto.id) /\ t.nodes = ws /\ t.edges = es /\ t.view = dto.view
  BY <1>9
<1>11. IsScene(t)
  BY SceneFromDTO
<1>12. t.id \in Nat \ {0}
  BY <1>0, <1>10 DEF NoId
<1> QED
  BY <1>5, <1>8, <1>10, <1>11, <1>12 DEF Proper, HasStart

\* Texts and members that are put on a node.
LEMMA RequestMade ==
    ASSUME NEW id \in Nat, NEW r, NEW x, NEW y, NEW n, n = NodeFromRequest(id, r, x, y)
    PROVE  GoodNode(n) /\ n.id = id /\ n.kind \in {"ws", "gql", "request"}
<1>1. PICK m, kind0 : m = NewNode(id, kind0, x, y) /\ kind0 = KindOf(r.method)
  OBVIOUS
<1>2. GoodNode(m) /\ m.id = id /\ m.kind = kind0
  BY <1>1, GoodNewNode
<1>3. PICK own : n = [m EXCEPT !.f = WithDefaults(own, m.f)]
  BY <1>1, Zenon DEF NodeFromRequest
<1>4. PICK f : f = WithDefaults(own, m.f)
  OBVIOUS
<1>5. n.id = id /\ n.kind = kind0 /\ n.f = f
  BY <1>2, <1>3, <1>4 DEF GoodNode, IsNode
<1>6. DOMAIN f = DOMAIN own \cup DOMAIN m.f
  BY <1>4, JoinedFields
<1>7. Defaulted(n)
  BY <1>2, <1>5, <1>6 DEF GoodNode, Defaulted
<1>8. IsNode(n)
  BY RequestNode
<1>9. kind0 \in {"ws", "gql", "request"}
  BY <1>1 DEF KindOf
<1> QED
  BY <1>5, <1>7, <1>8, <1>9 DEF GoodNode

LEMMA ColumnsMade ==
    ASSUME NEW requests, IsList(requests), NEW at, ids \in Nat, NEW q, q = InColumns(requests, at)
    PROVE  /\ GoodNodes(q) /\ Len(q) = Len(requests) /\ DOMAIN q = DOMAIN requests
           /\ \A k \in DOMAIN q : q[k].id = ids + k /\ q[k].kind \in {"ws", "gql", "request"}
<1> DEFINE used == Selected(Methods, {requests[i].method : i \in DOMAIN requests})
           column(i) == CHOOSE c \in DOMAIN used : used[c] = requests[i].method
           row(i) == Cardinality({j \in 1..(i - 1) : requests[j].method = requests[i].method})
           before(i) == Cardinality({j \in DOMAIN requests : column(j) < column(i)}) + row(i)
           node(id, i) == NodeFromRequest(id, requests[i],
                                          at[1] + (column(i) - 1) * (NodeW + 60),
                                          at[2] + row(i) * (NodeH + BodyBoxH + 36))
           pick(k) == CHOOSE i \in DOMAIN requests : before(i) = k - 1
<1>0. Len(requests) \in Nat /\ DOMAIN requests = 1..Len(requests)
  BY ListFacts
<1>1. q = [k \in DOMAIN requests |-> node(ids + k, pick(k))]
  BY DEF InColumns
<1>2. \A id \in Nat : \A i : GoodNode(node(id, i)) /\ node(id, i).id = id /\ node(id, i).kind \in {"ws", "gql", "request"}
  BY RequestMade
<1> HIDE DEF node, pick
<1>3. ASSUME NEW k \in DOMAIN requests
      PROVE  GoodNode(q[k]) /\ q[k].id = ids + k /\ q[k].kind \in {"ws", "gql", "request"}
  <2>1. PICK m \in Nat : m = ids + k
    BY <1>0
  <2> QED
    BY <1>1, <1>2, <2>1
<1>4. DOMAIN q = DOMAIN requests /\ q = [k \in 1..Len(requests) |-> q[k]]
  BY <1>0, <1>1
<1>5. IsList(q) /\ Len(q) = Len(requests) /\ ToSet(q) = {q[k] : k \in 1..Len(requests)}
  BY <1>0, <1>4, MappedList
<1> QED
  BY <1>0, <1>3, <1>4, <1>5 DEF GoodNodes

Place(q, id) == CHOOSE k \in DOMAIN q : q[k].id = id

\* What is copied of a part.
Copied0(dto) == {n \in ToSet(dto.nodes) : n.kind # "start"}

\* A part that is put onto a canvas has numbers of its own: its nodes come first, in their order.
LEMMA InsertedShape ==
    ASSUME NEW dto, IsPart(dto), NEW new \in Nat, NEW dx, NEW dy, NEW p, p = Inserted(dto, new, dx, dy),
           NEW ns, ns = Selected(dto.nodes, Copied0(dto)),
           NEW es, es = Selected(dto.edges, Joining(dto.edges, IdsOf(ns)))
    PROVE  /\ IsPart(p) /\ GoodNodes(p.nodes) /\ GoodEdges(p.edges)
           /\ DOMAIN p.nodes = DOMAIN ns /\ Len(p.nodes) = Len(ns)
           /\ \A i \in DOMAIN ns : p.nodes[i].id = new + i /\ p.nodes[i].kind = ns[i].kind
           /\ DOMAIN p.edges = DOMAIN es
           /\ \A i \in DOMAIN es : /\ p.edges[i].id = new + Len(ns) + i
                                   /\ p.edges[i].from = new + Place(ns, es[i].from) /\ p.edges[i].to = new + Place(ns, es[i].to)
<1> DEFINE copied(i) == [Moved(NodeFromDTO(ns[i], NoId), dx, dy) EXCEPT !.id = new + i]
           joined(i) == [EdgeFromDTO(es[i], NoId) EXCEPT !.id = new + Len(ns) + i,
                                                         !.from = new + Place(ns, @), !.to = new + Place(ns, @)]
           nodesOf(a) ==
              [i \in DOMAIN a |-> [Moved(NodeFromDTO(a[i], NoId), dx, dy) EXCEPT !.id = new + i]]
           edgesOf(a, b) ==
              [i \in DOMAIN b |-> [EdgeFromDTO(b[i], NoId) EXCEPT !.id = new + Len(a) + i,
                                      !.from = new + Place(a, @), !.to = new + Place(a, @)]]
           chosen == Selected(dto.nodes, Copied0(dto))
           between(a) == Selected(dto.edges, Joining(dto.edges, IdsOf(a)))
<1>0. NodeList(dto.nodes) /\ EdgeList(dto.edges)
  BY DEF IsPart
<1>1. NodeList(ns) /\ EdgeList(es)
  BY <1>0, NodeLists, EdgeLists
<1>2. Len(ns) \in Nat /\ DOMAIN ns = 1..Len(ns) /\ Len(es) \in Nat /\ DOMAIN es = 1..Len(es)
  BY <1>1, ListFacts DEF NodeList, EdgeList
<1>3. PICK u, v : u = [i \in DOMAIN ns |-> copied(i)] /\ v = [i \in DOMAIN es |-> joined(i)]
  OBVIOUS
<1>9. p.nodes = u /\ p.edges = v
  <2>1. p = [nodes |-> nodesOf(chosen), edges |-> edgesOf(chosen, between(chosen))]
    BY Zenon DEF Inserted, Place, Copied0
  <2>2. ns = chosen /\ es = between(ns)
    OBVIOUS
  <2>3. u = nodesOf(ns) /\ v = edgesOf(ns, es)
    BY <1>3
  <2> HIDE DEF nodesOf, edgesOf, chosen, between
  <2> QED
    BY <2>1, <2>2, <2>3
<1>4. NoId \in Nat
  BY DEF NoId
<1>5. ASSUME NEW i \in DOMAIN ns
      PROVE  GoodNode(copied(i)) /\ copied(i).id = new + i /\ copied(i).kind = ns[i].kind
  <2>1. PICK n, m, o, k : n = ns[i] /\ m = NodeFromDTO(n, NoId) /\ o = Moved(m, dx, dy) /\ k = new + i
    OBVIOUS
  <2>2. IsNode(n)
    BY <1>1, <2>1, NodeLists
  <2>3. IsNode(m) /\ Defaulted(m) /\ m.kind = n.kind
    BY <1>4, <2>1, <2>2, GoodReadNode
  <2>4. IsNode(o) /\ o.kind = m.kind /\ o.f = m.f
    <3>1. IsNode(Moved(m, dx, dy))
      BY <2>3, NodeShapes
    <3>2. Moved(m, dx, dy).kind = m.kind /\ Moved(m, dx, dy).f = m.f
      BY <2>3 DEF Moved, IsNode
    <3> QED
      BY <2>1, <3>1, <3>2
  <2>5. PICK c : c = [o EXCEPT !.id = k]
    OBVIOUS
  <2>6. c.id = k /\ c.kind = o.kind /\ c.f = o.f
    BY <2>4, <2>5 DEF IsNode
  <2>7. IsNode(c)
    BY <2>4, <2>5, NodeShapes
  <2>8. k \in Nat
    BY <1>2, <2>1
  <2>9. GoodNode(c)
    BY <2>3, <2>4, <2>6, <2>7, <2>8 DEF GoodNode, Defaulted
  <2>10. copied(i) = c
    BY <2>1, <2>5
  <2> HIDE DEF copied
  <2> QED
    BY <2>1, <2>3, <2>4, <2>6, <2>9, <2>10
<1>6. ASSUME NEW i \in DOMAIN es
      PROVE  /\ GoodEdge(joined(i)) /\ joined(i).id = new + Len(ns) + i
             /\ joined(i).from = new + Place(ns, es[i].from) /\ joined(i).to = new + Place(ns, es[i].to)
  <2>1. PICK e, o : e = es[i] /\ o = EdgeFromDTO(e, NoId)
    OBVIOUS
  <2>2. IsEdge(e)
    BY <1>1, <2>1, EdgeLists
  <2>3. IsEdge(o) /\ "op" \in DOMAIN o.f /\ o.from = e.from /\ o.to = e.to
    BY <1>4, <2>1, <2>2, GoodReadEdge
  <2>4. PICK k, a, b : k = new + Len(ns) + i /\ a = new + Place(ns, o.from) /\ b = new + Place(ns, o.to)
    OBVIOUS
  <2>5. PICK c : c = [o EXCEPT !.id = k, !.from = a, !.to = b]
    OBVIOUS
  <2>6. c.id = k /\ c.from = a /\ c.to = b /\ c.f = o.f
    BY <2>3, <2>5 DEF IsEdge
  <2>7. IsEdge(c)
    BY <2>3, <2>5, EdgeShapes
  <2>8. k \in Nat
    BY <1>2, <2>4
  <2>9. GoodEdge(c)
    BY <2>3, <2>6, <2>7, <2>8 DEF GoodEdge
  <2>10. joined(i) = c
    BY <2>1, <2>4, <2>5
  <2> HIDE DEF joined
  <2> QED
    BY <2>1, <2>3, <2>4, <2>6, <2>9, <2>10
<1> HIDE DEF copied, joined
<1>7. /\ u = [i \in 1..Len(ns) |-> u[i]] /\ DOMAIN u = DOMAIN ns
      /\ \A i \in DOMAIN ns : GoodNode(u[i]) /\ u[i].id = new + i /\ u[i].kind = ns[i].kind
  <2>1. /\ u = [i \in DOMAIN ns |-> u[i]] /\ DOMAIN u = DOMAIN ns
        /\ \A i \in DOMAIN ns : u[i] = copied(i)
    BY Zenon, <1>3
  <2>2. DOMAIN ns = 1..Len(ns)
    BY <1>2
  <2>3. ASSUME NEW i \in DOMAIN ns
        PROVE  GoodNode(u[i]) /\ u[i].id = new + i /\ u[i].kind = ns[i].kind
    BY Zenon, <1>5, <2>1
  <2> QED
    BY Zenon, <2>1, <2>2, <2>3
<1>8. /\ v = [i \in 1..Len(es) |-> v[i]] /\ DOMAIN v = DOMAIN es
      /\ \A i \in DOMAIN es :
            /\ GoodEdge(v[i]) /\ v[i].id = new + Len(ns) + i
            /\ v[i].from = new + Place(ns, es[i].from) /\ v[i].to = new + Place(ns, es[i].to)
  <2>1. /\ v = [i \in DOMAIN es |-> v[i]] /\ DOMAIN v = DOMAIN es
        /\ \A i \in DOMAIN es : v[i] = joined(i)
    BY Zenon, <1>3
  <2>2. DOMAIN es = 1..Len(es)
    BY <1>2
  <2>3. ASSUME NEW i \in DOMAIN es
        PROVE  /\ GoodEdge(v[i]) /\ v[i].id = new + Len(ns) + i
               /\ v[i].from = new + Place(ns, es[i].from) /\ v[i].to = new + Place(ns, es[i].to)
    <3>1. v[i] = joined(i)
      BY <2>1
    <3> QED
      BY <1>6, <3>1
  <2> QED
    BY Zenon, <2>1, <2>2, <2>3
<1> HIDE <1>3, <1>9
<1>15. PICK k \in Nat, l \in Nat : k = Len(ns) /\ l = Len(es)
  BY <1>2
<1>16. u = [i \in 1..k |-> u[i]] /\ v = [i \in 1..l |-> v[i]]
  BY Zenon, <1>7, <1>8, <1>15
<1>10. IsList(u) /\ Len(u) = k /\ ToSet(u) = {u[i] : i \in 1..k}
  BY <1>16, MappedList
<1>11. IsList(v) /\ Len(v) = l /\ ToSet(v) = {v[i] : i \in 1..l}
  BY <1>16, MappedList
<1>12. GoodNodes(u)
  <2>1. \A i \in 1..k : GoodNode(u[i])
    BY <1>2, <1>7, <1>15
  <2> QED
    BY <1>10, <2>1 DEF GoodNodes
<1>13. GoodEdges(v)
  <2>1. \A i \in 1..l : GoodEdge(v[i])
    BY <1>2, <1>8, <1>15
  <2> QED
    BY <1>11, <2>1 DEF GoodEdges
<1>14. IsPart(p)
  BY InsertedPart
<1> QED
  BY <1>5, <1>6, <1>7, <1>8, <1>9, <1>10, <1>12, <1>13, <1>14, <1>15

-----------------------------------------------------------------------------
(* What can be drawn stays so.                                              *)

LEMMA IdentifiedParts ==
    ASSUME NEW p, IsList(p), Identified(p), NEW q, IsList(q), Identified(q), IdsOf(p) \cap IdsOf(q) = {}
    PROVE  Identified(p \o q)
<1>1. /\ Len(p) \in Nat /\ DOMAIN p = 1..Len(p) /\ Len(q) \in Nat /\ DOMAIN q = 1..Len(q)
      /\ p \in Seq(ToSet(p)) /\ q \in Seq(ToSet(q))
  BY ListFacts
<1>2. PICK r : r = p \o q
  OBVIOUS
<1>3. PICK m \in Nat, n \in Nat : m = Len(p) /\ n = Len(q)
  BY <1>1
<1>4. /\ DOMAIN r = 1..(m + n)
      /\ \A i \in 1..m : r[i] = p[i]
      /\ \A i \in (m + 1)..(m + n) : r[i] = q[i - m] /\ i - m \in 1..n
  BY <1>1, <1>2, <1>3
<1>5. \A i \in 1..m : p[i].id # NoId /\ p[i].id \in IdsOf(p)
  BY <1>1, <1>3 DEF Identified, IdsOf
<1>6. \A i \in 1..n : q[i].id # NoId /\ q[i].id \in IdsOf(q)
  BY <1>1, <1>3 DEF Identified, IdsOf
<1>7. \A i \in DOMAIN r : r[i].id # NoId
  BY <1>4, <1>5, <1>6
<1>8. ASSUME NEW i \in DOMAIN r, NEW j \in DOMAIN r, r[i].id = r[j].id
      PROVE  i = j
  <2>1. CASE i \in 1..m /\ j \in 1..m
    BY <1>1, <1>3, <1>4, <1>8, <2>1 DEF Identified
  <2>2. CASE i \in (m + 1)..(m + n) /\ j \in (m + 1)..(m + n)
    <3>1. PICK a \in 1..n, b \in 1..n : a = i - m /\ b = j - m
      BY <1>4, <2>2
    <3>2. q[a].id = q[b].id
      BY <1>4, <1>8, <2>2, <3>1
    <3>3. a = b
      BY <1>1, <1>3, <3>2 DEF Identified
    <3> QED
      BY <2>2, <3>1, <3>3
  <2>3. CASE i \in 1..m /\ j \in (m + 1)..(m + n)
    BY <1>4, <1>5, <1>6, <1>8, <2>3
  <2>4. CASE i \in (m + 1)..(m + n) /\ j \in 1..m
    BY <1>4, <1>5, <1>6, <1>8, <2>4
  <2> QED
    BY <1>4, <2>1, <2>2, <2>3, <2>4
<1> QED
  BY <1>2, <1>7, <1>8 DEF Identified

LEMMA IdentifiedOne ==
    ASSUME NEW q, IsList(q), Identified(q), NEW e, e.id # NoId, e.id \notin IdsOf(q)
    PROVE  Identified(Append(q, e))
<1>1. PICK one : one = <<e>>
  OBVIOUS
<1>2. IsList(one) /\ DOMAIN one = {1} /\ one[1] = e
  <2>1. one \in Seq({e}) /\ DOMAIN one = {1} /\ one[1] = e
    BY <1>1
  <2> QED
    BY <2>1, SeqIsList
<1>3. Identified(one) /\ IdsOf(one) = {e.id}
  BY <1>2 DEF Identified, IdsOf
<1>4. Append(q, e) = q \o one
  BY <1>1, ListFacts
<1> QED
  BY <1>2, <1>3, <1>4, IdentifiedParts

\* What is derived from a canvas that can be drawn can be drawn.
LEMMA SoundDerived ==
    ASSUME NEW s, NEW t, Derived(t, s), SoundCanvas(s)
    PROVE  SoundCanvas(t) /\ IdsOf(t.nodes) \subseteq IdsOf(s.nodes) /\ IdsOf(t.edges) \subseteq IdsOf(s.edges)
<1>1. PICK g \in [DOMAIN t.nodes -> DOMAIN s.nodes] :
          IsInjective(g) /\ \A i \in DOMAIN t.nodes : t.nodes[i].id = s.nodes[g[i]].id /\ t.nodes[i].kind = s.nodes[g[i]].kind
  BY DEF Derived, NodesFrom
<1>2. PICK h \in [DOMAIN t.edges -> DOMAIN s.edges] :
          IsInjective(h) /\ \A i \in DOMAIN t.edges :
             /\ t.edges[i].id = s.edges[h[i]].id
             /\ t.edges[i].from = s.edges[h[i]].from /\ t.edges[i].to = s.edges[h[i]].to
  BY DEF Derived, EdgesFrom
<1>3. /\ Identified(s.nodes) /\ Identified(s.edges)
      /\ \A e \in ToSet(s.edges) : Joins(e, s.nodes)
      /\ \A e, o \in ToSet(s.edges) : e # o /\ e.from = o.from =>
            e.to # o.to /\ \E n \in ToSet(s.nodes) : n.id = e.from /\ n.kind = "condition"
      /\ HasStart(s)
  BY DEF SoundCanvas, SoundDrawing, HasStart
<1>4. Identified(t.nodes) /\ IdsOf(t.nodes) \subseteq IdsOf(s.nodes)
  BY <1>1, <1>3 DEF Identified, IsInjective, IdsOf
<1>5. Identified(t.edges) /\ IdsOf(t.edges) \subseteq IdsOf(s.edges)
  BY <1>2, <1>3 DEF Identified, IsInjective, IdsOf
<1>6. ASSUME NEW e \in ToSet(t.edges), NEW n \in ToSet(s.nodes), n.id \in {e.from, e.to}
      PROVE  \E m \in ToSet(t.nodes) : m.id = n.id /\ m.kind = n.kind
  BY <1>6 DEF Derived, EndsKept
<1>7. ASSUME NEW e \in ToSet(t.edges) PROVE Joins(e, t.nodes)
  <2>1. PICK i \in DOMAIN t.edges : e = t.edges[i]
    BY DEF ToSet
  <2>2. PICK o : o = s.edges[h[i]]
    OBVIOUS
  <2>3. o \in ToSet(s.edges) /\ e.from = o.from /\ e.to = o.to
    BY <1>2, <2>1, <2>2 DEF ToSet
  <2>4. PICK a \in ToSet(s.nodes), b \in ToSet(s.nodes) :
            a.id = o.from /\ b.id = o.to /\ HasPorts(a) /\ HasPorts(b) /\ b.kind # "start"
    BY <1>3, <2>3 DEF Joins
  <2>5. PICK c \in ToSet(t.nodes) : c.id = a.id /\ c.kind = a.kind
    BY <1>6, <2>3, <2>4
  <2>6. PICK d \in ToSet(t.nodes) : d.id = b.id /\ d.kind = b.kind
    BY <1>6, <2>3, <2>4
  <2>7. o.from # o.to
    BY <1>3, <2>3 DEF Joins
  <2> QED
    BY <2>3, <2>4, <2>5, <2>6, <2>7 DEF Joins, HasPorts
<1>8. ASSUME NEW e \in ToSet(t.edges), NEW o \in ToSet(t.edges), e # o, e.from = o.from
      PROVE  e.to # o.to /\ \E n \in ToSet(t.nodes) : n.id = e.from /\ n.kind = "condition"
  <2>1. PICK i \in DOMAIN t.edges, j \in DOMAIN t.edges : e = t.edges[i] /\ o = t.edges[j]
    BY DEF ToSet
  <2>2. PICK a, b : a = s.edges[h[i]] /\ b = s.edges[h[j]]
    OBVIOUS
  <2>3. /\ a \in ToSet(s.edges) /\ b \in ToSet(s.edges)
        /\ e.from = a.from /\ e.to = a.to /\ o.from = b.from /\ o.to = b.to
    BY <1>2, <2>1, <2>2 DEF ToSet
  <2>4. h[i] \in DOMAIN s.edges /\ h[j] \in DOMAIN s.edges /\ h[i] # h[j]
    BY <1>2, <1>8, <2>1 DEF IsInjective
  <2>5. a.id # b.id
    BY <1>3, <2>2, <2>4 DEF Identified
  <2>6. a # b
    BY <2>5
  <2>7. a.to # b.to /\ \E n \in ToSet(s.nodes) : n.id = a.from /\ n.kind = "condition"
    BY <1>3, <1>8, <2>3, <2>6
  <2> QED
    BY <1>6, <2>3, <2>7
<1>9. HasStart(t)
  BY <1>3 DEF Derived
<1> QED
  BY <1>4, <1>5, <1>7, <1>8, <1>9 DEF SoundCanvas, SoundDrawing, HasStart

\* An arrow that may be drawn.
Drawable(s, e) ==
    /\ Joins(e, s.nodes) /\ e.id # NoId /\ e.id \notin IdsOf(s.edges)
    /\ \A o \in ToSet(s.edges) : o.from = e.from =>
          o.to # e.to /\ \E n \in ToSet(s.nodes) : n.id = e.from /\ n.kind = "condition"

LEMMA SoundAttached ==
    ASSUME NEW s, IsScene(s), SoundCanvas(s), NEW e, Drawable(s, e), NEW t, t = Attached(s, e)
    PROVE  SoundCanvas(t)
<1>1. IsList(s.edges)
  BY DEF IsScene, EdgeList
<1>2. t.nodes = s.nodes /\ t.edges = Append(s.edges, e)
  BY SceneKept DEF Attached, IsScene
<1>3. ToSet(t.edges) = ToSet(s.edges) \cup {e}
  BY <1>1, <1>2, AppendList
<1>4. Identified(t.edges)
  BY <1>1, <1>2, IdentifiedOne DEF SoundCanvas, SoundDrawing, Drawable
<1>5. ASSUME NEW a \in ToSet(t.edges), NEW b \in ToSet(t.edges), a # b, a.from = b.from
      PROVE  a.to # b.to /\ \E n \in ToSet(t.nodes) : n.id = a.from /\ n.kind = "condition"
  BY <1>2, <1>3, <1>5 DEF SoundCanvas, SoundDrawing, Drawable
<1> QED
  BY <1>2, <1>3, <1>4, <1>5 DEF SoundCanvas, SoundDrawing, Drawable

\* A part with ids of its own is put beside what is there.
LEMMA SoundBeside ==
    ASSUME NEW s, IsList(s.nodes), IsList(s.edges), SoundCanvas(s),
           NEW p, IsList(p.nodes), IsList(p.edges), SoundDrawing(p),
           IdsOf(s.nodes) \cap IdsOf(p.nodes) = {}, IdsOf(s.edges) \cap IdsOf(p.edges) = {},
           NEW t, t.nodes = s.nodes \o p.nodes, t.edges = s.edges \o p.edges
    PROVE  SoundCanvas(t)
<1>1. ToSet(t.nodes) = ToSet(s.nodes) \cup ToSet(p.nodes) /\ ToSet(t.edges) = ToSet(s.edges) \cup ToSet(p.edges)
  BY ConcatList
<1>2. Identified(t.nodes) /\ Identified(t.edges)
  BY IdentifiedParts DEF SoundCanvas, SoundDrawing
<1>3. /\ \A e \in ToSet(s.edges) : Joins(e, s.nodes)
      /\ \A e \in ToSet(p.edges) : Joins(e, p.nodes)
  BY DEF SoundCanvas, SoundDrawing
<1>4. ASSUME NEW e \in ToSet(t.edges) PROVE Joins(e, t.nodes)
  <2>1. CASE e \in ToSet(s.edges)
    BY <1>1, <1>3, <2>1 DEF Joins
  <2>2. CASE e \in ToSet(p.edges)
    BY <1>1, <1>3, <2>2 DEF Joins
  <2> QED
    BY <1>1, <2>1, <2>2
<1>5. IdsOf(s.nodes) = {n.id : n \in ToSet(s.nodes)} /\ IdsOf(p.nodes) = {n.id : n \in ToSet(p.nodes)}
  BY IdsOfList
<1>6. ASSUME NEW e \in ToSet(s.edges), NEW o \in ToSet(p.edges) PROVE e.from # o.from
  <2>1. e.from \in IdsOf(s.nodes)
    BY <1>3, <1>5 DEF Joins
  <2>2. o.from \in IdsOf(p.nodes)
    BY <1>3, <1>5 DEF Joins
  <2> QED
    BY <2>1, <2>2
<1>7. ASSUME NEW e \in ToSet(t.edges), NEW o \in ToSet(t.edges), e # o, e.from = o.from
      PROVE  e.to # o.to /\ \E n \in ToSet(t.nodes) : n.id = e.from /\ n.kind = "condition"
  <2>1. CASE e \in ToSet(s.edges) /\ o \in ToSet(s.edges)
    BY <1>1, <1>7, <2>1 DEF SoundCanvas, SoundDrawing
  <2>2. CASE e \in ToSet(p.edges) /\ o \in ToSet(p.edges)
    BY <1>1, <1>7, <2>2 DEF SoundDrawing
  <2> QED
    BY <1>1, <1>6, <1>7, <2>1, <2>2
<1> QED
  BY <1>1, <1>2, <1>4, <1>7 DEF SoundCanvas, SoundDrawing

\* The nodes and arrows of a part of a drawing.
LEMMA DrawingFrom ==
    ASSUME NEW s, IsList(s.nodes), IsList(s.edges), SoundDrawing(s),
           NEW t, NEW S, t.nodes = Selected(s.nodes, S), t.edges = Selected(s.edges, Joining(s.edges, IdsOf(t.nodes)))
    PROVE  SoundDrawing(t) /\ ToSet(t.nodes) = ToSet(s.nodes) \cap S /\ ToSet(t.edges) \subseteq ToSet(s.edges)
<1>1. Picks(t.nodes, s.nodes) /\ Picks(t.edges, s.edges)
  BY SelectedPicks
<1>2. ToSet(t.nodes) = ToSet(s.nodes) \cap S /\ IsList(t.nodes)
  BY SelectedList
<1>3. ToSet(t.edges) = ToSet(s.edges) \cap Joining(s.edges, IdsOf(t.nodes))
  BY SelectedList
<1>4. /\ Identified(s.nodes) /\ Identified(s.edges)
      /\ \A e \in ToSet(s.edges) : Joins(e, s.nodes)
      /\ \A e, o \in ToSet(s.edges) : e # o /\ e.from = o.from =>
            e.to # o.to /\ \E n \in ToSet(s.nodes) : n.id = e.from /\ n.kind = "condition"
  BY DEF SoundDrawing
<1>5. Identified(t.nodes)
  BY <1>1, <1>4 DEF Identified, Picks, IsInjective
<1>6. Identified(t.edges)
  BY <1>1, <1>4 DEF Identified, Picks, IsInjective
<1>7. IdsOf(t.nodes) = {n.id : n \in ToSet(t.nodes)}
  BY <1>2, IdsOfList
<1>8. ASSUME NEW e \in ToSet(t.edges), NEW n \in ToSet(s.nodes), n.id \in {e.from, e.to}
      PROVE  n \in ToSet(t.nodes)
  <2>1. n.id \in IdsOf(t.nodes)
    BY <1>3, <1>8 DEF Joining
  <2>2. PICK m \in ToSet(t.nodes) : m.id = n.id
    BY <1>7, <2>1
  <2>3. m \in ToSet(s.nodes)
    BY <1>2, <2>2
  <2>4. PICK i \in DOMAIN s.nodes, j \in DOMAIN s.nodes : m = s.nodes[i] /\ n = s.nodes[j]
    BY <2>3 DEF ToSet
  <2>5. i = j
    BY <1>4, <2>2, <2>4 DEF Identified
  <2> QED
    BY <2>2, <2>4, <2>5
<1>9. ASSUME NEW e \in ToSet(t.edges) PROVE Joins(e, t.nodes)
  <2>1. Joins(e, s.nodes)
    BY <1>3, <1>4
  <2> QED
    BY <2>1, <1>8 DEF Joins
<1>10. ASSUME NEW e \in ToSet(t.edges), NEW o \in ToSet(t.edges), e # o, e.from = o.from
       PROVE  e.to # o.to /\ \E n \in ToSet(t.nodes) : n.id = e.from /\ n.kind = "condition"
  <2>1. e.to # o.to /\ \E n \in ToSet(s.nodes) : n.id = e.from /\ n.kind = "condition"
    BY <1>3, <1>4, <1>10
  <2> QED
    BY <2>1, <1>8
<1> QED
  BY <1>2, <1>3, <1>5, <1>6, <1>9, <1>10 DEF SoundDrawing

LEMMA PlaceFound ==
    ASSUME NEW q, NEW id \in IdsOf(q)
    PROVE  Place(q, id) \in DOMAIN q /\ q[Place(q, id)].id = id
<1>1. \E k \in DOMAIN q : q[k].id = id
  BY DEF IdsOf
<1> QED
  BY <1>1 DEF Place

\* A copy of a part can be drawn, and its ids are new.
LEMMA SoundInserted ==
    ASSUME NEW dto, IsPart(dto), SoundDrawing(dto), NEW new \in Nat, NEW dx, NEW dy,
           NEW p, p = Inserted(dto, new, dx, dy)
    PROVE  SoundDrawing(p) /\ \A x \in IdsOf(p.nodes) \cup IdsOf(p.edges) : x \in Nat /\ x > new
<1>1. PICK ns, es : /\ ns = Selected(dto.nodes, Copied0(dto))
                    /\ es = Selected(dto.edges, Joining(dto.edges, IdsOf(ns)))
  OBVIOUS
<1>2. PICK t : t = [nodes |-> ns, edges |-> es]
  OBVIOUS
<1>3. t.nodes = ns /\ t.edges = es
  BY <1>2
<1>4. IsList(dto.nodes) /\ IsList(dto.edges)
  BY DEF IsPart, NodeList, EdgeList
<1>5. /\ SoundDrawing(t) /\ ToSet(ns) = ToSet(dto.nodes) \cap Copied0(dto)
  BY <1>1, <1>3, <1>4, DrawingFrom
<1>6. /\ Identified(ns) /\ Identified(es) /\ \A e \in ToSet(es) : Joins(e, ns)
      /\ \A e, o \in ToSet(es) : e # o /\ e.from = o.from =>
            e.to # o.to /\ \E n \in ToSet(ns) : n.id = e.from /\ n.kind = "condition"
  BY <1>3, <1>5 DEF SoundDrawing
<1>7. PICK pn, pe : pn = p.nodes /\ pe = p.edges
  OBVIOUS
<1>8. /\ IsPart(p) /\ DOMAIN pn = DOMAIN ns
      /\ \A i \in DOMAIN ns : pn[i].id = new + i /\ pn[i].kind = ns[i].kind
      /\ DOMAIN pe = DOMAIN es
      /\ \A i \in DOMAIN es : /\ pe[i].id = new + Len(ns) + i
                              /\ pe[i].from = new + Place(ns, es[i].from) /\ pe[i].to = new + Place(ns, es[i].to)
  <2>1. /\ IsPart(p) /\ DOMAIN p.nodes = DOMAIN ns
        /\ \A i \in DOMAIN ns : p.nodes[i].id = new + i /\ p.nodes[i].kind = ns[i].kind
        /\ DOMAIN p.edges = DOMAIN es
        /\ \A i \in DOMAIN es :
              /\ p.edges[i].id = new + Len(ns) + i
              /\ p.edges[i].from = new + Place(ns, es[i].from) /\ p.edges[i].to = new + Place(ns, es[i].to)
    BY <1>1, InsertedShape
  <2> QED
    BY Zenon, <1>7, <2>1
<1>9. IsList(ns) /\ IsList(es)
  BY <1>1, <1>4, SelectedList
<1>10. PICK k \in Nat, l \in Nat : k = Len(ns) /\ l = Len(es) /\ DOMAIN ns = 1..k /\ DOMAIN es = 1..l
  BY <1>9, ListFacts
<1>11. NoId = 0
  BY DEF NoId
<1>12. Identified(pn) /\ \A x \in IdsOf(pn) : x \in Nat /\ x > new
  BY <1>8, <1>10, <1>11 DEF Identified, IdsOf
<1>13. Identified(pe) /\ \A x \in IdsOf(pe) : x \in Nat /\ x > new
  BY <1>8, <1>10, <1>11 DEF Identified, IdsOf
<1>14. ASSUME NEW id \in IdsOf(ns)
       PROVE  /\ Place(ns, id) \in 1..k /\ ns[Place(ns, id)].id = id
              /\ pn[Place(ns, id)] \in ToSet(pn) /\ pn[Place(ns, id)].id = new + Place(ns, id)
              /\ pn[Place(ns, id)].kind = ns[Place(ns, id)].kind
              /\ \A n \in ToSet(ns) : n.id = id => n = ns[Place(ns, id)]
  <2>1. Place(ns, id) \in DOMAIN ns /\ ns[Place(ns, id)].id = id
    BY PlaceFound
  <2>2. PICK c : c = Place(ns, id)
    OBVIOUS
  <2>3. c \in DOMAIN pn
    BY <1>8, <2>1, <2>2
  <2>4. pn[c] \in ToSet(pn)
    BY <2>3 DEF ToSet
  <2>5. ASSUME NEW n \in ToSet(ns), n.id = id PROVE n = ns[c]
    <3>1. PICK i \in DOMAIN ns : n = ns[i]
      BY DEF ToSet
    <3>2. i = c
      BY <1>6, <2>1, <2>2, <2>5, <3>1 DEF Identified
    <3> QED
      BY <3>1, <3>2
  <2> QED
    BY <1>8, <1>10, <2>1, <2>2, <2>4, <2>5
<1>15. \A e \in ToSet(es) : e.from \in IdsOf(ns) /\ e.to \in IdsOf(ns)
  <2>1. IdsOf(ns) = {n.id : n \in ToSet(ns)}
    BY <1>9, IdsOfList
  <2> QED
    BY <1>6, <2>1 DEF Joins
<1>16. ASSUME NEW i \in DOMAIN es PROVE es[i] \in ToSet(es)
  BY DEF ToSet
<1>17. ASSUME NEW i \in DOMAIN es PROVE Joins(pe[i], pn)
  <2>1. PICK e : e = es[i]
    OBVIOUS
  <2>2. e \in ToSet(es) /\ e.from \in IdsOf(ns) /\ e.to \in IdsOf(ns)
    BY <1>15, <1>16, <2>1
  <2>3. PICK a, b : a = Place(ns, e.from) /\ b = Place(ns, e.to)
    OBVIOUS
  <2>4. /\ a \in 1..k /\ ns[a].id = e.from /\ pn[a] \in ToSet(pn) /\ pn[a].id = new + a /\ pn[a].kind = ns[a].kind
        /\ \A n \in ToSet(ns) : n.id = e.from => n = ns[a]
    BY <1>14, <2>2, <2>3
  <2>5. /\ b \in 1..k /\ ns[b].id = e.to /\ pn[b] \in ToSet(pn) /\ pn[b].id = new + b /\ pn[b].kind = ns[b].kind
        /\ \A n \in ToSet(ns) : n.id = e.to => n = ns[b]
    BY <1>14, <2>2, <2>3
  <2>6. pe[i].from = new + a /\ pe[i].to = new + b
    BY <1>8, <2>1, <2>3
  <2>7. e.from # e.to /\ HasPorts(ns[a]) /\ HasPorts(ns[b]) /\ ns[b].kind # "start"
    BY <1>6, <2>2, <2>4, <2>5 DEF Joins
  <2>8. a # b
    BY <2>4, <2>5, <2>7
  <2>9. HasPorts(pn[a]) /\ HasPorts(pn[b]) /\ pn[b].kind # "start"
    BY <2>4, <2>5, <2>7 DEF HasPorts
  <2>10. new + a # new + b
    BY <2>4, <2>5, <2>8
  <2> QED
    BY <2>4, <2>5, <2>6, <2>9, <2>10 DEF Joins
<1>18. ASSUME NEW i \in DOMAIN es, NEW j \in DOMAIN es, i # j, pe[i].from = pe[j].from
       PROVE  pe[i].to # pe[j].to /\ \E n \in ToSet(pn) : n.id = pe[i].from /\ n.kind = "condition"
  <2>1. PICK e, o : e = es[i] /\ o = es[j]
    OBVIOUS
  <2>2. /\ e \in ToSet(es) /\ e.from \in IdsOf(ns) /\ e.to \in IdsOf(ns)
        /\ o \in ToSet(es) /\ o.from \in IdsOf(ns) /\ o.to \in IdsOf(ns)
    BY <1>15, <1>16, <2>1
  <2>3. PICK a, b, c, d : a = Place(ns, e.from) /\ b = Place(ns, e.to) /\ c = Place(ns, o.from) /\ d = Place(ns, o.to)
    OBVIOUS
  <2>4. /\ a \in 1..k /\ ns[a].id = e.from /\ pn[a] \in ToSet(pn) /\ pn[a].id = new + a /\ pn[a].kind = ns[a].kind
        /\ \A n \in ToSet(ns) : n.id = e.from => n = ns[a]
    BY <1>14, <2>2, <2>3
  <2>5. b \in 1..k /\ ns[b].id = e.to /\ c \in 1..k /\ ns[c].id = o.from /\ d \in 1..k /\ ns[d].id = o.to
    BY <1>14, <2>2, <2>3
  <2>6. pe[i].from = new + a /\ pe[i].to = new + b /\ pe[j].from = new + c /\ pe[j].to = new + d
    BY <1>8, <2>1, <2>3
  <2>7. a = c
    <3>1. new + a = new + c
      BY <1>18, <2>6
    <3>2. a \in Int /\ c \in Int
      BY <2>4, <2>5
    <3> QED
      BY <3>1, <3>2
  <2>8. e.from = o.from
    BY <2>4, <2>5, <2>7
  <2>9. e # o
    BY <1>6, <1>18, <2>1 DEF Identified
  <2>10. e.to # o.to /\ \E n \in ToSet(ns) : n.id = e.from /\ n.kind = "condition"
    BY <1>6, <2>2, <2>8, <2>9
  <2>11. b # d
    BY <2>5, <2>10
  <2>12. pe[i].to # pe[j].to
    BY <2>5, <2>6, <2>11
  <2>13. pn[a].kind = "condition"
    BY <2>4, <2>10
  <2> QED
    BY <2>4, <2>6, <2>12, <2>13
<1>19. \A e \in ToSet(pe) : Joins(e, pn)
  BY <1>8, <1>17 DEF ToSet
<1>20. ASSUME NEW e \in ToSet(pe), NEW o \in ToSet(pe), e # o, e.from = o.from
       PROVE  e.to # o.to /\ \E n \in ToSet(pn) : n.id = e.from /\ n.kind = "condition"
  <2>1. PICK i \in DOMAIN pe, j \in DOMAIN pe : e = pe[i] /\ o = pe[j]
    BY DEF ToSet
  <2> QED
    BY <1>8, <1>18, <1>20, <2>1
<1>21. SoundDrawing(p)
  BY <1>7, <1>12, <1>13, <1>19, <1>20 DEF SoundDrawing
<1> QED
  BY <1>7, <1>12, <1>13, <1>21

LEMMA SoundPart ==
    ASSUME NEW s, IsScene(s), SoundDrawing(s), NEW chosen, NEW p, p = PartOf(s, chosen)
    PROVE  SoundDrawing(p)
<1>1. PICK S : S = {n \in ToSet(s.nodes) : n.id \in chosen /\ n.kind # "start"}
  OBVIOUS
<1>2. p.nodes = Selected(s.nodes, S) /\ p.edges = Selected(s.edges, Joining(s.edges, IdsOf(p.nodes)))
  BY <1>1 DEF PartOf
<1>3. IsList(s.nodes) /\ IsList(s.edges)
  BY DEF IsScene, NodeList, EdgeList
<1> QED
  BY <1>2, <1>3, DrawingFrom

LEMMA SoundNew ==
    ASSUME NEW id \in Nat \ {0}, NEW s, s = NewScenario(id)
    PROVE  SoundCanvas(s) /\ IdsOf(s.nodes) = {id + 1} /\ IdsOf(s.edges) = {}
<1>1. /\ Proper(s) /\ s.edges = <<>> /\ Len(s.nodes) = 1
      /\ s.nodes[1].id = id + 1 /\ s.nodes[1].kind = "start"
  BY ProperNew
<1>2. IsList(s.nodes) /\ DOMAIN s.nodes = 1..1
  BY <1>1, ListFacts DEF Proper, GoodNodes
<1>3. PICK none : none = <<>>
  OBVIOUS
<1>4. DOMAIN none = {} /\ s.edges = none
  BY <1>1, <1>3
<1>5. ToSet(s.edges) = {} /\ IdsOf(s.edges) = {} /\ Identified(s.edges)
  BY <1>4 DEF ToSet, IdsOf, Identified
<1>6. id + 1 # NoId
  BY DEF NoId
<1>7. Identified(s.nodes) /\ IdsOf(s.nodes) = {id + 1} /\ s.nodes[1] \in ToSet(s.nodes)
  BY <1>1, <1>2, <1>6 DEF Identified, IdsOf, ToSet
<1> QED
  BY <1>1, <1>5, <1>7 DEF SoundCanvas, SoundDrawing

-----------------------------------------------------------------------------
(* What is written comes back.                                              *)

LEMMA SelectedAll ==
    ASSUME NEW q, IsList(q), NEW S, ToSet(q) \subseteq S
    PROVE  Selected(q, S) = q
<1>1. PICK T : /\ T[0] = <<>> /\ Selected(q, S) = T[Len(q)]
               /\ \A n \in 1..Len(q) : T[n] = IF q[n] \in S THEN Append(T[n - 1], q[n]) ELSE T[n - 1]
  BY SelectionSteps
<1>2. /\ Len(q) \in Nat /\ q \in Seq(ToSet(q)) /\ q = [i \in 1..Len(q) |-> q[i]]
      /\ \A i \in 1..Len(q) : q[i] \in ToSet(q)
  BY ListFacts
<1> DEFINE Done == {n \in Nat : n <= Len(q) => T[n] = [i \in 1..n |-> q[i]]}
<1>3. 0 \in Done
  <2>1. <<>> = [i \in 1..0 |-> q[i]]
    OBVIOUS
  <2> QED
    BY <1>1, <2>1
<1>4. ASSUME NEW n \in Nat, n \in Done PROVE n + 1 \in Done
  <2>1. SUFFICES ASSUME n + 1 <= Len(q) PROVE T[n + 1] = [i \in 1..(n + 1) |-> q[i]]
    BY DEF Done
  <2>2. n + 1 \in 1..Len(q) /\ (n + 1) - 1 = n /\ n <= Len(q)
    BY <1>2, <2>1
  <2>3. T[n] = [i \in 1..n |-> q[i]]
    BY <1>4, <2>2
  <2>4. T[n + 1] = Append(T[n], q[n + 1])
    BY <1>1, <1>2, <2>2
  <2>5. PICK f : f = [i \in 1..n |-> q[i]]
    OBVIOUS
  <2>6. f \in Seq(ToSet(q)) /\ Len(f) = n
    BY <1>2, <2>2, <2>5
  <2>7. Append(f, q[n + 1]) = [i \in 1..(n + 1) |-> IF i = n + 1 THEN q[n + 1] ELSE f[i]]
    BY <2>6
  <2>8. \A i \in 1..(n + 1) : (IF i = n + 1 THEN q[n + 1] ELSE f[i]) = q[i]
    BY <2>5
  <2> QED
    BY <2>3, <2>4, <2>5, <2>7, <2>8
<1>5. Len(q) \in Done
  <2> HIDE DEF Done
  <2>1. Nat \subseteq Done
    BY <1>3, <1>4, Induction
  <2> QED
    BY <1>2, <2>1
<1>6. T[Len(q)] = [i \in 1..Len(q) |-> q[i]]
  BY <1>2, <1>5
<1> QED
  BY <1>1, <1>2, <1>6

\* Ids that are there are kept, so it does not matter from where new ones are taken.
LEMMA SameRead ==
    ASSUME NEW m \in Nat, NEW n \in Nat
    PROVE  /\ \A x : IsNode(x) /\ x.id # NoId => NodeFromDTO(x, m) = NodeFromDTO(x, n)
           /\ \A x : IsEdge(x) /\ x.id # NoId => EdgeFromDTO(x, m) = EdgeFromDTO(x, n)
<1>1. ASSUME NEW x, IsNode(x), x.id # NoId PROVE NodeFromDTO(x, m) = NodeFromDTO(x, n)
  <2>1. PICK a, b : a = NodeFromDTO(x, m) /\ b = NodeFromDTO(x, n)
    OBVIOUS
  <2>2. /\ IsNode(a) /\ a.id = x.id /\ a.kind = x.kind /\ a.x = x.x /\ a.y = x.y /\ a.w = x.w /\ a.h = x.h
        /\ a.f = WithDefaults(x.f, Only(DefaultFields(x.kind), KeptDefaults))
    BY <1>1, <2>1, GoodReadNode
  <2>3. /\ IsNode(b) /\ b.id = x.id /\ b.kind = x.kind /\ b.x = x.x /\ b.y = x.y /\ b.w = x.w /\ b.h = x.h
        /\ b.f = WithDefaults(x.f, Only(DefaultFields(x.kind), KeptDefaults))
    BY <1>1, <2>1, GoodReadNode
  <2>4. a = b
    BY <2>2, <2>3 DEF IsNode
  <2> QED
    BY <2>1, <2>4
<1>2. ASSUME NEW x, IsEdge(x), x.id # NoId PROVE EdgeFromDTO(x, m) = EdgeFromDTO(x, n)
  <2>1. PICK a, b : a = EdgeFromDTO(x, m) /\ b = EdgeFromDTO(x, n)
    OBVIOUS
  <2>2. /\ IsEdge(a) /\ a.id = x.id /\ a.from = x.from /\ a.to = x.to /\ a.cond = x.cond
        /\ a.f = WithDefaults(x.f, [op |-> ">", count |-> "0"])
    BY <1>2, <2>1, GoodReadEdge
  <2>3. /\ IsEdge(b) /\ b.id = x.id /\ b.from = x.from /\ b.to = x.to /\ b.cond = x.cond
        /\ b.f = WithDefaults(x.f, [op |-> ">", count |-> "0"])
    BY <1>2, <2>1, GoodReadEdge
  <2>4. a = b
    BY <2>2, <2>3 DEF IsEdge
  <2> QED
    BY <2>1, <2>4
<1> QED
  BY <1>1, <1>2

\* A scenario that can be drawn loses no node and no arrow when it is read, and gets none.
LEMMA SoundRead ==
    ASSUME NEW s, IsScene(s), IsNumbered(s), s.id # NoId, SoundCanvas(s), NEW new \in Nat,
           NEW t, t = ScenarioFromDTO(s, new)
    PROVE  /\ Proper(t) /\ t.id = s.id /\ t.name = s.name /\ t.view = s.view
           /\ t.nodes = [i \in DOMAIN s.nodes |-> NodeFromDTO(s.nodes[i], 0)]
           /\ t.edges = [i \in DOMAIN s.edges |-> EdgeFromDTO(s.edges[i], 0)]
           /\ SoundCanvas(t) /\ IdsOf(t.nodes) = IdsOf(s.nodes) /\ IdsOf(t.edges) = IdsOf(s.edges)
<1>1. /\ NodeList(s.nodes) /\ EdgeList(s.edges)
      /\ IdsOf(s.nodes) \subseteq Nat /\ IdsOf(s.edges) \subseteq Nat
      /\ IsList(s.nodes) /\ IsList(s.edges)
  BY NumberedIds DEF IsScene
<1>2. /\ Identified(s.nodes) /\ Identified(s.edges)
      /\ \A e \in ToSet(s.edges) : Joins(e, s.nodes)
      /\ \E n \in ToSet(s.nodes) : n.kind = "start"
  BY DEF SoundCanvas, SoundDrawing
<1>3. PICK m \in Nat : m = new + 1
  OBVIOUS
<1>4. PICK q : q = NodesFromDTO(s.nodes, m)
  OBVIOUS
<1>5. /\ GoodNodes(q) /\ DOMAIN q = DOMAIN s.nodes /\ Len(q) = Len(s.nodes)
      /\ \A i \in DOMAIN s.nodes :
            /\ q[i] = NodeFromDTO(s.nodes[i], m + i) /\ q[i].kind = s.nodes[i].kind
            /\ q[i].id = (IF s.nodes[i].id = NoId THEN m + i ELSE s.nodes[i].id)
  BY <1>1, <1>4, ReadNodes
<1>6. ASSUME NEW i \in DOMAIN s.nodes
      PROVE  /\ NodeFromDTO(s.nodes[i], m + i) = NodeFromDTO(s.nodes[i], 0)
             /\ q[i].id = s.nodes[i].id /\ s.nodes[i].id # NoId
  <2>1. IsNode(s.nodes[i]) /\ s.nodes[i].id # NoId
    BY <1>1, <1>2, NodeLists DEF Identified
  <2>2. DOMAIN s.nodes = 1..Len(s.nodes) /\ Len(s.nodes) \in Nat
    BY <1>1, ListFacts
  <2>3. PICK k \in Nat : k = m + i
    BY <2>2
  <2>4. 0 \in Nat
    OBVIOUS
  <2>5. NodeFromDTO(s.nodes[i], k) = NodeFromDTO(s.nodes[i], 0)
    BY <2>1, <2>4, SameRead
  <2> QED
    BY <1>5, <2>1, <2>3, <2>5
<1>7. q = [i \in DOMAIN s.nodes |-> NodeFromDTO(s.nodes[i], 0)]
  <2>1. q = [i \in DOMAIN s.nodes |-> NodeFromDTO(s.nodes[i], m + i)]
    BY <1>4 DEF NodesFromDTO
  <2> QED
    BY <1>6, <2>1
<1>8. IdsOf(q) = IdsOf(s.nodes)
  BY <1>5, <1>6 DEF IdsOf
<1>9. \E n \in ToSet(q) : n.kind = "start"
  <2>1. PICK i \in DOMAIN s.nodes : s.nodes[i].kind = "start"
    BY <1>2 DEF ToSet
  <2>2. q[i] \in ToSet(q)
    BY <1>5, <2>1 DEF ToSet
  <2> QED
    BY <1>5, <2>1, <2>2
<1>10. WithStart(q, m) = q
  BY <1>5, <1>9, StartAdded
<1>11. ToSet(s.edges) \subseteq Joining(s.edges, IdsOf(q))
  <2>1. IdsOf(s.nodes) = {n.id : n \in ToSet(s.nodes)}
    BY <1>1, IdsOfList
  <2> QED
    BY <1>2, <1>8, <2>1 DEF Joining, Joins
<1>12. Selected(s.edges, Joining(s.edges, IdsOf(q))) = s.edges
  BY <1>1, <1>11, SelectedAll
<1>13. PICK k, r : k \in Nat /\ k = m + Len(q) /\ r = EdgesFromDTO(s.edges, IdsOf(q), k)
  BY <1>1, <1>5, ListFacts
<1>14. /\ GoodEdges(r) /\ DOMAIN r = DOMAIN s.edges
       /\ \A i \in DOMAIN s.edges : r[i] = EdgeFromDTO(s.edges[i], k + i)
  BY <1>1, <1>12, <1>13, ReadEdges
<1>15. ASSUME NEW i \in DOMAIN s.edges
       PROVE  /\ EdgeFromDTO(s.edges[i], k + i) = EdgeFromDTO(s.edges[i], 0)
              /\ r[i].id = s.edges[i].id /\ r[i].from = s.edges[i].from /\ r[i].to = s.edges[i].to
  <2>1. IsEdge(s.edges[i]) /\ s.edges[i].id # NoId
    BY <1>1, <1>2, EdgeLists DEF Identified
  <2>2. DOMAIN s.edges = 1..Len(s.edges) /\ Len(s.edges) \in Nat
    BY <1>1, ListFacts
  <2>3. PICK l \in Nat : l = k + i
    <3>1. k \in Nat /\ i \in Nat
      BY <1>13, <2>2
    <3> QED
      BY <3>1
  <2>4. 0 \in Nat
    OBVIOUS
  <2>5. EdgeFromDTO(s.edges[i], l) = EdgeFromDTO(s.edges[i], 0)
    BY <2>1, <2>4, SameRead
  <2>6. PICK o : o = EdgeFromDTO(s.edges[i], l)
    OBVIOUS
  <2>7. o.id = s.edges[i].id /\ o.from = s.edges[i].from /\ o.to = s.edges[i].to
    BY <2>1, <2>6, GoodReadEdge
  <2> QED
    BY <1>14, <2>3, <2>5, <2>6, <2>7
<1>16. r = [i \in DOMAIN s.edges |-> EdgeFromDTO(s.edges[i], 0)]
  <2>1. r = [i \in DOMAIN s.edges |-> EdgeFromDTO(s.edges[i], k + i)]
    BY <1>12, <1>13 DEF EdgesFromDTO
  <2> QED
    BY <1>15, <2>1
<1>17. IdsOf(r) = IdsOf(s.edges)
  BY <1>14, <1>15 DEF IdsOf
<1>18. t = [id |-> IF s.id = NoId THEN new ELSE s.id, name |-> s.name, nodes |-> q, edges |-> r, view |-> s.view]
  <2>1. /\ NodesFromDTO(s.nodes, new + 1) = q /\ WithStart(q, new + 1) = q
        /\ EdgesFromDTO(s.edges, IdsOf(q), new + 1 + Len(q)) = r
    BY <1>3, <1>4, <1>10, <1>13
  <2> QED
    BY <2>1 DEF ScenarioFromDTO
<1>19. t.id = s.id /\ t.name = s.name /\ t.nodes = q /\ t.edges = r /\ t.view = s.view
  BY <1>18
<1>20. Proper(t)
  BY ProperRead
<1>21. Derived(t, s)
  <2>1. NodesFrom(q, s.nodes)
    <3>1. PICK g : g = [i \in DOMAIN q |-> i]
      OBVIOUS
    <3>2. g \in [DOMAIN q -> DOMAIN s.nodes] /\ IsInjective(g) /\ \A i \in DOMAIN q : g[i] = i
      BY <1>5, <3>1 DEF IsInjective
    <3> QED
      BY <1>5, <1>6, <3>2 DEF NodesFrom
  <2>2. EdgesFrom(r, s.edges)
    <3>1. PICK g : g = [i \in DOMAIN r |-> i]
      OBVIOUS
    <3>2. g \in [DOMAIN r -> DOMAIN s.edges] /\ IsInjective(g) /\ \A i \in DOMAIN r : g[i] = i
      BY <1>14, <3>1 DEF IsInjective
    <3> QED
      BY <1>14, <1>15, <3>2 DEF EdgesFrom
  <2>3. ASSUME NEW n \in ToSet(s.nodes) PROVE \E x \in ToSet(q) : x.id = n.id /\ x.kind = n.kind
    <3>1. PICK i \in DOMAIN s.nodes : n = s.nodes[i]
      BY DEF ToSet
    <3>2. q[i] \in ToSet(q)
      BY <1>5, <3>1 DEF ToSet
    <3> QED
      BY <1>5, <1>6, <3>1, <3>2
  <2>4. HasStart(t)
    BY <1>20 DEF Proper
  <2> QED
    BY <1>19, <2>1, <2>2, <2>3, <2>4 DEF Derived, EndsKept
<1>22. SoundCanvas(t)
  BY <1>21, SoundDerived
<1> QED
  BY <1>7, <1>8, <1>16, <1>17, <1>19, <1>20, <1>22


LEMMA KeptShape ==
    ASSUME NEW s, IsScene(s), NEW t, IsScene(t), t.id = s.id,
           KeptNodes(t.nodes) = KeptNodes(s.nodes), KeptEdges(t.edges) = KeptEdges(s.edges)
    PROVE  Kept(t) = Kept(s)
<1>0. PICK name : name = ""
  OBVIOUS
<1>1. PICK none : none = <<>>
  OBVIOUS
<1>2. ASSUME NEW r, IsScene(r)
      PROVE  Kept(r) = [id |-> r.id, name |-> name, nodes |-> KeptNodes(r.nodes), edges |-> KeptEdges(r.edges), view |-> none]
  <2>1. PICK a, b : a = KeptNodes(r.nodes) /\ b = KeptEdges(r.edges)
    OBVIOUS
  <2>2. Kept(r) = [r EXCEPT !.name = name, !.view = none, !.nodes = a, !.edges = b]
    <3>1. Kept(r) = [r EXCEPT !.name = "", !.view = <<>>, !.nodes = KeptNodes(@), !.edges = KeptEdges(@)]
      BY DEF Kept
    <3>2. [r EXCEPT !.name = "", !.view = <<>>, !.nodes = KeptNodes(@), !.edges = KeptEdges(@)]
             = [r EXCEPT !.name = name, !.view = none, !.nodes = a, !.edges = b]
      BY Zenon, <1>0, <1>1, <2>1
    <3> QED
      BY Zenon, <3>1, <3>2
  <2>3. r = [id |-> r.id, name |-> r.name, nodes |-> r.nodes, edges |-> r.edges, view |-> r.view]
    BY <1>2 DEF IsScene
  <2> QED
    BY <2>1, <2>2, <2>3
<1> QED
  BY <1>2

\* What is read back is what was written, but for texts that come back and labels.
LEMMA KeptBack ==
    ASSUME NEW s, Proper(s), SoundCanvas(s), NEW new \in Nat, NEW t, t = ScenarioFromDTO(s, new)
    PROVE  Kept(t) = Kept(s)
<1>1. /\ IsScene(s) /\ NodeList(s.nodes) /\ EdgeList(s.edges) /\ s.id # NoId
      /\ IsList(s.nodes) /\ IsList(s.edges) /\ IsNumbered(s)
  <2>1. IsNumbered(s)
    BY DEF Proper, IsNumbered, GoodNodes, GoodNode, GoodEdges, GoodEdge
  <2> QED
    BY <2>1 DEF Proper, IsScene, NodeList, EdgeList, NoId
<1>2. /\ Proper(t) /\ t.id = s.id
      /\ t.nodes = [i \in DOMAIN s.nodes |-> NodeFromDTO(s.nodes[i], 0)]
      /\ t.edges = [i \in DOMAIN s.edges |-> EdgeFromDTO(s.edges[i], 0)]
  BY <1>1, SoundRead
<1>3. \A i \in DOMAIN s.nodes : GoodNode(s.nodes[i]) /\ s.nodes[i].id # NoId
  BY DEF Proper, GoodNodes, ToSet, SoundCanvas, SoundDrawing, Identified
<1>4. \A i \in DOMAIN s.edges : GoodEdge(s.edges[i]) /\ s.edges[i].id # NoId
  BY DEF Proper, GoodEdges, ToSet, SoundCanvas, SoundDrawing, Identified
<1>5. ASSUME NEW n, GoodNode(n), n.id # NoId, NEW m, m = NodeFromDTO(n, 0)
      PROVE  [m EXCEPT !.f = Only(@, DOMAIN @ \ {"wait_ms"})] = [n EXCEPT !.f = Only(@, DOMAIN @ \ {"wait_ms"})]
  <2>1. 0 \in Nat /\ IsNode(n) /\ Defaulted(n)
    BY <1>5 DEF GoodNode
  <2>2. /\ IsNode(m) /\ m.id = n.id /\ m.kind = n.kind /\ m.x = n.x /\ m.y = n.y /\ m.w = n.w /\ m.h = n.h
        /\ m.f = WithDefaults(n.f, Only(DefaultFields(n.kind), KeptDefaults))
    BY <1>5, <2>1, GoodReadNode
  <2>3. PICK f, g, d : f = n.f /\ g = m.f /\ d = Only(DefaultFields(n.kind), KeptDefaults)
    OBVIOUS
  <2>4. DOMAIN d = DOMAIN DefaultFields(n.kind) \cap KeptDefaults
    BY <2>3, OnlyFields
  <2>12. g = WithDefaults(f, d)
    BY <2>2, <2>3
  <2>5. DOMAIN g = DOMAIN f \cup DOMAIN d /\ \A k \in DOMAIN f : g[k] = f[k]
    BY <2>12, JoinedFields
  <2>6. DOMAIN g \ {"wait_ms"} = DOMAIN f \ {"wait_ms"}
    BY <2>1, <2>3, <2>4, <2>5 DEF Defaulted
  <2>7. PICK u, v : u = Only(g, DOMAIN g \ {"wait_ms"}) /\ v = Only(f, DOMAIN f \ {"wait_ms"})
    OBVIOUS
  <2>8. u = v
    <3>1. PICK K : K = DOMAIN f \ {"wait_ms"}
      OBVIOUS
    <3>2. u = [k \in DOMAIN g \cap K |-> g[k]] /\ v = [k \in DOMAIN f \cap K |-> f[k]]
      BY <2>6, <2>7, <3>1 DEF Only
    <3>3. DOMAIN g \cap K = DOMAIN f \cap K
      BY <2>5, <3>1, <2>6
    <3> QED
      BY <2>5, <3>2, <3>3
  <2>9. [m EXCEPT !.f = u] = [n EXCEPT !.f = v]
    BY <2>1, <2>2, <2>8 DEF IsNode
  <2>10. [m EXCEPT !.f = Only(@, DOMAIN @ \ {"wait_ms"})] = [m EXCEPT !.f = u]
    BY <2>3, <2>7
  <2>11. [n EXCEPT !.f = Only(@, DOMAIN @ \ {"wait_ms"})] = [n EXCEPT !.f = v]
    BY <2>3, <2>7
  <2> QED
    BY <2>9, <2>10, <2>11
<1>6. ASSUME NEW e, GoodEdge(e), e.id # NoId, NEW o, o = EdgeFromDTO(e, 0)
      PROVE  [o EXCEPT !.f = Only(@, DOMAIN @ \ {"count"})] = [e EXCEPT !.f = Only(@, DOMAIN @ \ {"count"})]
  <2>1. 0 \in Nat /\ IsEdge(e) /\ "op" \in DOMAIN e.f
    BY <1>6 DEF GoodEdge
  <2>2. /\ IsEdge(o) /\ o.id = e.id /\ o.from = e.from /\ o.to = e.to /\ o.cond = e.cond
        /\ o.f = WithDefaults(e.f, [op |-> ">", count |-> "0"])
    BY <1>6, <2>1, GoodReadEdge
  <2>3. PICK f, g, d : f = e.f /\ g = o.f /\ d = [op |-> ">", count |-> "0"]
    OBVIOUS
  <2>4. DOMAIN d = {"op", "count"}
    BY <2>3
  <2>12. g = WithDefaults(f, d)
    BY <2>2, <2>3
  <2>5. DOMAIN g = DOMAIN f \cup DOMAIN d /\ \A k \in DOMAIN f : g[k] = f[k]
    BY <2>12, JoinedFields
  <2>6. DOMAIN g \ {"count"} = DOMAIN f \ {"count"}
    BY <2>1, <2>3, <2>4, <2>5
  <2>7. PICK u, v : u = Only(g, DOMAIN g \ {"count"}) /\ v = Only(f, DOMAIN f \ {"count"})
    OBVIOUS
  <2>8. u = v
    <3>1. PICK K : K = DOMAIN f \ {"count"}
      OBVIOUS
    <3>2. u = [k \in DOMAIN g \cap K |-> g[k]] /\ v = [k \in DOMAIN f \cap K |-> f[k]]
      BY <2>6, <2>7, <3>1 DEF Only
    <3>3. DOMAIN g \cap K = DOMAIN f \cap K
      BY <2>5, <3>1, <2>6
    <3> QED
      BY <2>5, <3>2, <3>3
  <2>9. [o EXCEPT !.f = u] = [e EXCEPT !.f = v]
    BY <2>1, <2>2, <2>8 DEF IsEdge
  <2>10. [o EXCEPT !.f = Only(@, DOMAIN @ \ {"count"})] = [o EXCEPT !.f = u]
    BY <2>3, <2>7
  <2>11. [e EXCEPT !.f = Only(@, DOMAIN @ \ {"count"})] = [e EXCEPT !.f = v]
    BY <2>3, <2>7
  <2> QED
    BY <2>9, <2>10, <2>11
<1>7. KeptNodes(t.nodes) = KeptNodes(s.nodes)
  <2>1. PICK q, r : q = t.nodes /\ r = s.nodes
    OBVIOUS
  <2>2. DOMAIN q = DOMAIN r /\ \A i \in DOMAIN r : q[i] = NodeFromDTO(r[i], 0)
    BY <1>2, <2>1
  <2>3. ASSUME NEW i \in DOMAIN r
        PROVE  [q[i] EXCEPT !.f = Only(@, DOMAIN @ \ {"wait_ms"})] = [r[i] EXCEPT !.f = Only(@, DOMAIN @ \ {"wait_ms"})]
    <3>1. GoodNode(r[i]) /\ r[i].id # NoId /\ q[i] = NodeFromDTO(r[i], 0)
      BY <1>3, <2>1, <2>2
    <3> QED
      BY <3>1, <1>5
  <2> QED
    BY Zenon, <2>1, <2>2, <2>3 DEF KeptNodes
<1>8. KeptEdges(t.edges) = KeptEdges(s.edges)
  <2>1. PICK q, r : q = t.edges /\ r = s.edges
    OBVIOUS
  <2>2. DOMAIN q = DOMAIN r /\ \A i \in DOMAIN r : q[i] = EdgeFromDTO(r[i], 0)
    BY <1>2, <2>1
  <2>3. ASSUME NEW i \in DOMAIN r
        PROVE  [q[i] EXCEPT !.f = Only(@, DOMAIN @ \ {"count"})] = [r[i] EXCEPT !.f = Only(@, DOMAIN @ \ {"count"})]
    <3>1. GoodEdge(r[i]) /\ r[i].id # NoId /\ q[i] = EdgeFromDTO(r[i], 0)
      BY <1>4, <2>1, <2>2
    <3> QED
      BY <3>1, <1>6
  <2> QED
    BY Zenon, <2>1, <2>2, <2>3 DEF KeptEdges
<1>9. IsScene(t)
  BY <1>2 DEF Proper
<1> QED
  BY <1>1, <1>2, <1>7, <1>8, <1>9, KeptShape

-----------------------------------------------------------------------------
(* What holds of the canvas, its history, the selection and the list: every  *)
(* file has one name in the order of time, the order of the sidebar has no   *)
(* scenario and no separator twice, and a separator gets a number that was   *)
(* not given out (Listing).                                                  *)

OnCanvas(s, chosen) ==
    /\ chosen = [node |-> chosen.node, edge |-> chosen.edge, nodes |-> chosen.nodes]
    /\ chosen.node \in IdsOf(s.nodes) \cup {NoId} /\ chosen.nodes \subseteq IdsOf(s.nodes)
    /\ chosen.edge \in IdsOf(s.edges) \cup {NoId}

Pasts == ToSet(undoStack) \cup ToSet(redoStack) \cup ToSet(snap)
Drawings == Proper(sc) /\ (\A s \in Pasts : Proper(s)) /\ \A e \in ToSet(act.edge) : GoodEdge(e)
HistoryFits == Len(undoStack) + Len(redoStack) <= HistoryLimit

\* Every file has one name in the order of time and is named after what it holds; the list has
\* no name twice, and its separators have numbers that were given out.
Listing ==
    /\ ids \in Nat \ {0}
    /\ \A f \in DOMAIN files : IsScene(files[f]) /\ IsNumbered(files[f]) /\ files[f].id = f
    /\ Distinct(mods) /\ ToSet(mods) \ {OrderFile} = DOMAIN files
    /\ order # <<>> => order = <<OrderNow>>
    /\ Distinct(OrderNow) /\ \A x \in ToSet(OrderNow) : x \in Int /\ x >= -ids

Fitting == Drawings /\ HistoryFits /\ OnCanvas(sc, sel) /\ Listing

Below(s, n) == s.id <= n /\ \A x \in IdsOf(s.nodes) \cup IdsOf(s.edges) : x <= n

LEMMA OneList == ASSUME NEW c PROVE ToSet(<<c>>) = {c}
<1>1. PICK one : one = <<c>>
  OBVIOUS
<1>2. DOMAIN one = {1} /\ one[1] = c
  BY <1>1
<1> QED
  BY <1>1, <1>2 DEF ToSet

LEMMA ProperNumbered == ASSUME NEW s, Proper(s) PROVE IsScene(s) /\ IsNumbered(s) /\ s.id # NoId /\ s.id \in Nat
  BY DEF Proper, IsNumbered, GoodNodes, GoodNode, GoodEdges, GoodEdge, NoId

LEMMA PushFits ==
    ASSUME Scenes, Drawings, HistoryFits, NEW c, Proper(c), Push(c)
    PROVE  /\ HistoryFits' /\ \A s \in ToSet(undoStack') \cup ToSet(redoStack') : Proper(s)
           /\ ToSet(undoStack') \subseteq ToSet(undoStack) \cup {c} /\ ToSet(redoStack') \subseteq ToSet(redoStack)
<1>1. CASE undoStack # <<>> /\ Last(undoStack) = c
  <2>1. undoStack' = undoStack /\ redoStack' = redoStack
    BY <1>1 DEF Push
  <2> QED
    BY <2>1 DEF HistoryFits, Drawings, Pasts
<1>2. CASE ~(undoStack # <<>> /\ Last(undoStack) = c)
  <2>1. undoStack' = Recent(Append(undoStack, c)) /\ redoStack' = <<>>
    BY <1>2 DEF Push
  <2>2. IsList(undoStack) /\ IsList(redoStack)
    BY DEF Scenes, Canvases
  <2>3. PICK q : q = Append(undoStack, c)
    OBVIOUS
  <2>4. IsList(q) /\ ToSet(q) = ToSet(undoStack) \cup {c} /\ Len(q) = Len(undoStack) + 1
    BY <2>2, <2>3, AppendList
  <2>5. PICK m \in Nat, k \in Nat, l \in Nat \ {0} : m = Len(undoStack) /\ k = Len(redoStack) /\ l = HistoryLimit
    BY <2>2, ListFacts, EditorAssumption
  <2>6. m <= l
    BY <2>5 DEF HistoryFits
  <2>7. PICK r : r = Recent(q)
    OBVIOUS
  <2>8. Len(r) <= l /\ ToSet(r) \subseteq ToSet(q) /\ Len(r) \in Nat
    <3>1. CASE m + 1 > l
      <4>1. r = Tail(q) /\ q # <<>>
        BY <2>4, <2>5, <2>7, <3>1 DEF Recent
      <4>2. q \in Seq(ToSet(q)) /\ DOMAIN q = 1..(m + 1)
        BY <2>4, <2>5, ListFacts
      <4>3. Len(r) = m /\ \A i \in 1..m : r[i] = q[i + 1]
        BY <2>4, <2>5, <4>1, <4>2
      <4>4. DOMAIN r = 1..m
        BY <4>1, <4>2, <4>3
      <4> QED
        BY <2>5, <2>6, <4>2, <4>3, <4>4 DEF ToSet
    <3>2. CASE m + 1 <= l
      BY <2>4, <2>5, <2>7, <3>2 DEF Recent
    <3> QED
      BY <2>5, <3>1, <3>2
  <2>9. undoStack' = r /\ ToSet(redoStack') = {} /\ Len(redoStack') = 0
    <3>1. PICK none : none = <<>>
      OBVIOUS
    <3>2. ToSet(none) = {} /\ Len(none) = 0
      BY <3>1, EmptyList
    <3> QED
      BY <2>1, <2>3, <2>7, <3>1, <3>2
  <2>10. Len(undoStack') + Len(redoStack') <= HistoryLimit
    BY <2>5, <2>8, <2>9
  <2>11. HistoryFits'
    BY <2>10 DEF HistoryFits
  <2> QED
    BY <2>4, <2>8, <2>9, <2>11 DEF Drawings, Pasts
<1> QED
  BY <1>1, <1>2

LEMMA SameList ==
    ASSUME Listing, UNCHANGED <<files, mods, order>>, ids' \in Nat, ids' >= ids
    PROVE  Listing'
<1>1. OrderNow' = OrderNow
  BY DEF OrderNow
<1>2. ids \in Nat \ {0} /\ \A x \in ToSet(OrderNow) : x \in Int /\ x >= -ids
  BY DEF Listing
<1>3. \A x \in ToSet(OrderNow) : x \in Int /\ x >= -ids'
  BY <1>2
<1>4. ids' \in Nat \ {0}
  BY <1>2
<1> QED
  BY <1>1, <1>3, <1>4 DEF Listing

LEMMA DistinctTouched ==
    ASSUME Distinct(mods), NEW name
    PROVE  Distinct(Touched(name)) /\ ToSet(Touched(name)) = ToSet(mods) \cup {name}
<1>1. PICK q : q = Without(mods, name)
  OBVIOUS
<1>2. Distinct(q) /\ ToSet(q) = ToSet(mods) \cap (ToSet(mods) \ {name})
  BY <1>1, DistinctSelected DEF Without
<1>3. Distinct(Append(q, name)) /\ ToSet(Append(q, name)) = ToSet(q) \cup {name}
  BY <1>2, DistinctAppend
<1> QED
  BY <1>1, <1>2, <1>3 DEF Touched

LEMMA ListWith ==
    ASSUME Listing, NEW s, IsScene(s), IsNumbered(s), s.id # NoId,
           files' = Written(s), mods' = Touched(s.id), UNCHANGED order, ids' \in Nat, ids' >= ids
    PROVE  Listing'
<1>1. /\ DOMAIN files' = DOMAIN files \cup {s.id}
      /\ \A f \in DOMAIN files' : files'[f] = IF f = s.id THEN s ELSE files[f]
  BY DEF Written, Put
<1>2. \A f \in DOMAIN files' : IsScene(files'[f]) /\ IsNumbered(files'[f]) /\ files'[f].id = f
  BY <1>1 DEF Listing
<1>3. Distinct(mods') /\ ToSet(mods') = ToSet(mods) \cup {s.id}
  BY DistinctTouched DEF Listing
<1>4. s.id # OrderFile
  BY DEF OrderFile, NoId
<1>5. ToSet(mods') \ {OrderFile} = DOMAIN files'
  BY <1>1, <1>3, <1>4 DEF Listing
<1>6. OrderNow' = OrderNow
  BY DEF OrderNow
<1>7. ids \in Nat \ {0} /\ \A x \in ToSet(OrderNow) : x \in Int /\ x >= -ids
  BY DEF Listing
<1>8. \A x \in ToSet(OrderNow) : x \in Int /\ x >= -ids'
  BY <1>7
<1>9. ids' \in Nat \ {0}
  BY <1>7
<1> QED
  BY <1>2, <1>3, <1>5, <1>6, <1>8, <1>9 DEF Listing

LEMMA WriteLists ==
    ASSUME Listing, NEW s, IsScene(s), IsNumbered(s), s.id # NoId, Write(s), ids' \in Nat, ids' >= ids
    PROVE  Listing'
  BY ListWith DEF Write

LEMMA EncodedProper == ASSUME NEW s, Proper(s) PROVE Proper(Encode(s))
<1>1. PICK t : t = Encode(s)
  OBVIOUS
<1> QED
  BY <1>1, ProperEncoded

\* A change in one go.
LEMMA ChangedFits ==
    ASSUME Scenes, Fitting, NEW t, Proper(t), NEW c, OnCanvas(t, c), Changing(t, c), UNCHANGED act
    PROVE  /\ Drawings' /\ HistoryFits' /\ OnCanvas(sc', sel')
           /\ ids' \in Nat /\ ids' >= ids /\ Below(t, ids') /\ IsScene(t) /\ IsNumbered(t)
<1>1. sc' = t /\ sel' = c /\ Push(Encode(sc)) /\ snap' = snap /\ ids' = Taken(ids, t)
  BY DEF Changing, PushHistory
<1>2. Proper(Encode(sc))
  BY EncodedProper DEF Fitting, Drawings
<1>3. HistoryFits' /\ \A s \in ToSet(undoStack') \cup ToSet(redoStack') : Proper(s)
  BY <1>1, <1>2, PushFits DEF Fitting
<1>4. Drawings'
  BY <1>1, <1>3 DEF Fitting, Drawings, Pasts
<1>5. IsScene(t) /\ IsNumbered(t) /\ t.id \in Nat
  BY ProperNumbered
<1>6. ids \in Nat
  BY DEF Fitting, Listing
<1>7. /\ ids' \in Nat /\ ids' >= ids /\ ids' >= t.id
      /\ \A x \in IdsOf(t.nodes) \cup IdsOf(t.edges) : ids' >= x
  BY <1>1, <1>5, <1>6, TakenFacts
<1>8. IdsOf(t.nodes) \subseteq Nat /\ IdsOf(t.edges) \subseteq Nat
  BY <1>5, NumberedIds
<1>9. Below(t, ids')
  BY <1>5, <1>7, <1>8 DEF Below
<1> QED
  BY <1>1, <1>3, <1>4, <1>5, <1>7, <1>9

LEMMA ChangeFits ==
    ASSUME Scenes, Fitting, NEW t, Proper(t), NEW c, OnCanvas(t, c), Changing(t, c), UNCHANGED act,
           UNCHANGED <<files, mods, order>>
    PROVE  Fitting'
<1>1. Drawings' /\ HistoryFits' /\ OnCanvas(sc', sel') /\ ids' \in Nat /\ ids' >= ids
  BY ChangedFits
<1>2. Listing'
  BY <1>1, SameList DEF Fitting
<1> QED
  BY <1>1, <1>2 DEF Fitting

LEMMA ListElsewhere == ASSUME Elsewhere PROVE UNCHANGED <<files, mods, order>>
  BY DEF Elsewhere, diskVars

\* The history stays.
LEMMA CalmFits ==
    ASSUME Fitting, Proper(sc'), OnCanvas(sc', sel'), UNCHANGED <<undoStack, redoStack>>,
           ToSet(snap') \subseteq ToSet(snap) \cup {Encode(sc)},
           \A e \in ToSet(act'.edge) : GoodEdge(e), Listing'
    PROVE  Fitting'
<1>1. Proper(Encode(sc))
  BY EncodedProper DEF Fitting, Drawings
<1>2. Drawings'
  BY <1>1 DEF Fitting, Drawings, Pasts
<1>3. HistoryFits'
  BY DEF Fitting, HistoryFits
<1> QED
  BY <1>2, <1>3 DEF Fitting

LEMMA IdleFits == ASSUME NEW g, g = Idle PROVE \A e \in ToSet(g.edge) : GoodEdge(e)
<1>1. g.edge = <<>>
  BY EmptyHands
<1> QED
  BY <1>1, EmptyList

\* A press leaves the list and the ids alone.
LEMMA PressFits ==
    ASSUME Fitting, NEW g, Press(g), g.edge = <<>>, Proper(sc'), OnCanvas(sc', sel'),
           snap' = snap \/ snap' = <<Encode(sc)>>
    PROVE  Fitting'
<1>1. UNCHANGED <<undoStack, redoStack, files, mods, order, ids>> /\ act' = g
  BY DEF Press, diskVars
<1>2. \A e \in ToSet(act'.edge) : GoodEdge(e)
  BY <1>1, EmptyList
<1>3. ToSet(snap') \subseteq ToSet(snap) \cup {Encode(sc)}
  BY OneList
<1>4. Listing'
  BY <1>1, SameList DEF Fitting, Listing
<1> QED
  BY <1>1, <1>2, <1>3, <1>4, CalmFits

\* The end of a gesture.
LEMMA EndFits ==
    ASSUME Fitting, Released, Proper(sc'), OnCanvas(sc', sel'), HistoryFits',
           \A s \in ToSet(undoStack') \cup ToSet(redoStack') : Proper(s), Listing'
    PROVE  Fitting'
<1>1. act' = Idle /\ snap' = <<>>
  BY DEF Released
<1>2. ToSet(snap') = {} /\ \A e \in ToSet(act'.edge) : GoodEdge(e)
  BY <1>1, EmptyList, IdleFits
<1>3. Drawings'
  BY <1>2 DEF Drawings, Pasts
<1> QED
  BY <1>3 DEF Fitting

LEMMA SameHistory ==
    ASSUME Fitting, UNCHANGED <<undoStack, redoStack>>
    PROVE  HistoryFits' /\ \A s \in ToSet(undoStack') \cup ToSet(redoStack') : Proper(s)
  BY DEF Fitting, HistoryFits, Drawings, Pasts

LEMMA SameIds == ASSUME Fitting, UNCHANGED <<files, mods, order, ids>> PROVE Listing'
  BY SameList DEF Fitting, Listing

\* Selections.
LEMMA Selections ==
    ASSUME NEW s, NEW t
    PROVE  /\ OnCanvas(s, NoSelection)
           /\ \A id \in IdsOf(s.nodes) : OnCanvas(s, OnlyNode(id))
           /\ \A id \in IdsOf(s.edges) : OnCanvas(s, OnlyEdge(id))
           /\ \A c : OnCanvas(s, c) => OnCanvas(s, [c EXCEPT !.edge = NoId])
           /\ \A c, id, S : OnCanvas(s, c) /\ id \in IdsOf(s.nodes) \cup {NoId} /\ S \subseteq IdsOf(s.nodes) =>
                 /\ OnCanvas(s, [node |-> id, edge |-> NoId, nodes |-> S])
                 /\ OnCanvas(s, [c EXCEPT !.nodes = S, !.node = id])
                 /\ OnCanvas(s, [c EXCEPT !.node = id, !.edge = NoId])
           /\ \A id \in IdsOf(s.nodes) \cup {NoId}, S \in SUBSET IdsOf(s.nodes) :
                 OnCanvas(s, [node |-> id, edge |-> NoId, nodes |-> S])
           /\ \A c : OnCanvas(s, c) /\ IdsOf(t.nodes) = IdsOf(s.nodes) /\ IdsOf(t.edges) = IdsOf(s.edges) =>
                 OnCanvas(t, c)
<1>1. ASSUME NEW id \in IdsOf(s.nodes) \cup {NoId}, NEW e \in IdsOf(s.edges) \cup {NoId}, NEW S, S \subseteq IdsOf(s.nodes)
      PROVE  OnCanvas(s, [node |-> id, edge |-> e, nodes |-> S])
  <2>1. PICK c : c = [node |-> id, edge |-> e, nodes |-> S]
    OBVIOUS
  <2>2. c.node = id /\ c.edge = e /\ c.nodes = S /\ c = [node |-> c.node, edge |-> c.edge, nodes |-> c.nodes]
    BY <2>1
  <2>3. c.node \in IdsOf(s.nodes) \cup {NoId} /\ c.nodes \subseteq IdsOf(s.nodes) /\ c.edge \in IdsOf(s.edges) \cup {NoId}
    BY <1>1, <2>2
  <2>4. OnCanvas(s, c)
    BY <2>2, <2>3 DEF OnCanvas
  <2> QED
    BY <2>1, <2>4
<1>2. OnCanvas(s, NoSelection)
  BY <1>1 DEF NoSelection
<1>3. ASSUME NEW id \in IdsOf(s.nodes) PROVE OnCanvas(s, OnlyNode(id))
  BY <1>1 DEF OnlyNode
<1>4. ASSUME NEW id \in IdsOf(s.edges) PROVE OnCanvas(s, OnlyEdge(id))
  <2>1. OnlyEdge(id) = [node |-> NoId, edge |-> id, nodes |-> {}]
    BY DEF OnlyEdge, NoSelection
  <2> QED
    BY <1>1, <2>1
<1>5. ASSUME NEW c, OnCanvas(s, c) PROVE OnCanvas(s, [c EXCEPT !.edge = NoId])
  <2>1. c = [node |-> c.node, edge |-> c.edge, nodes |-> c.nodes]
    BY <1>5 DEF OnCanvas
  <2>2. [c EXCEPT !.edge = NoId] = [node |-> c.node, edge |-> NoId, nodes |-> c.nodes]
    BY <2>1
  <2> QED
    BY <1>1, <1>5, <2>2 DEF OnCanvas
<1>6. ASSUME NEW c, NEW id, NEW S, OnCanvas(s, c), id \in IdsOf(s.nodes) \cup {NoId}, S \subseteq IdsOf(s.nodes)
      PROVE  /\ OnCanvas(s, [node |-> id, edge |-> NoId, nodes |-> S])
             /\ OnCanvas(s, [c EXCEPT !.nodes = S, !.node = id])
             /\ OnCanvas(s, [c EXCEPT !.node = id, !.edge = NoId])
  <2>1. PICK a, b, d : a = c.node /\ b = c.edge /\ d = c.nodes /\ c = [node |-> a, edge |-> b, nodes |-> d]
    BY <1>6 DEF OnCanvas
  <2>4. PICK no, r, t1 : no = NoId /\ r = [c EXCEPT !.nodes = S, !.node = id] /\ t1 = [c EXCEPT !.node = id, !.edge = no]
    OBVIOUS
  <2>5. r = [node |-> id, edge |-> b, nodes |-> S]
    BY <2>1, <2>4
  <2>6. t1 = [node |-> id, edge |-> no, nodes |-> d]
    BY <2>1, <2>4
  <2>2. /\ [c EXCEPT !.nodes = S, !.node = id] = [node |-> id, edge |-> c.edge, nodes |-> S]
        /\ [c EXCEPT !.node = id, !.edge = NoId] = [node |-> id, edge |-> NoId, nodes |-> c.nodes]
    BY <2>1, <2>4, <2>5, <2>6, Zenon
  <2>3. c.nodes \subseteq IdsOf(s.nodes) /\ c.edge \in IdsOf(s.edges) \cup {NoId}
    BY <1>6 DEF OnCanvas
  <2> QED
    BY <1>1, <1>6, <2>2, <2>3
<1>7. ASSUME NEW c, OnCanvas(s, c), IdsOf(t.nodes) = IdsOf(s.nodes), IdsOf(t.edges) = IdsOf(s.edges)
      PROVE  OnCanvas(t, c)
  BY <1>7 DEF OnCanvas
<1> QED
  BY <1>1, <1>2, <1>3, <1>4, <1>5, <1>6, <1>7

LEMMA OnMore ==
    ASSUME NEW s, NEW c, OnCanvas(s, c), NEW t, IdsOf(s.nodes) \subseteq IdsOf(t.nodes), IdsOf(s.edges) \subseteq IdsOf(t.edges)
    PROVE  OnCanvas(t, c)
  BY DEF OnCanvas

LEMMA SelectingFits ==
    ASSUME OnCanvas(sc, sel), NEW id \in NodeIds
    PROVE  OnCanvas(sc, Selecting(id))
<1>1. id \in IdsOf(sc.nodes) /\ sel.nodes \subseteq IdsOf(sc.nodes)
  BY DEF NodeIds, OnCanvas
<1>2. OnCanvas(sc, [sel EXCEPT !.node = id, !.edge = NoId]) /\ OnCanvas(sc, OnlyNode(id))
  BY <1>1, Selections
<1> QED
  BY <1>2 DEF Selecting

-----------------------------------------------------------------------------
(* The gestures.                                                            *)

LEMMA PressNodeFits ==
    ASSUME CanvasInv, Fitting, NEW id, PressNode(id)
    PROVE  Fitting' /\ Derived(sc', sc) /\ IdsOf(sc'.nodes) = NodeIds /\ sc'.edges = sc.edges /\ sc'.id = sc.id
<1>1. PICK g : g = [Idle EXCEPT !.mode = "drag", !.id = id, !.members = DragMembers(NodeOf(id), sel')]
  OBVIOUS
<1>2. Press(g) /\ id \in NodeIds /\ snap' = <<Encode(sc)>> /\ sel' = Selecting(id)
  BY <1>1 DEF PressNode
<1>3. g.edge = <<>>
  <2>1. PICK m, k : m = "drag" /\ k = DragMembers(NodeOf(id), sel')
    OBVIOUS
  <2>2. g = [Idle EXCEPT !.mode = m, !.id = id, !.members = k] /\ m # "in"
    BY <1>1, <2>1
  <2>3. Begins(g, m)
    BY <2>2, Presses
  <2> QED
    BY <2>3 DEF Begins
<1>4. Proper(sc) /\ OnCanvas(sc, sel)
  BY DEF Fitting, Drawings
<1>5. Proper(sc') /\ sc'.id = sc.id /\ Derived(sc', sc) /\ IdsOf(sc'.nodes) = NodeIds /\ sc'.edges = sc.edges
  <2>1. CASE sc' = sc
    BY <1>4, <2>1, DerivedSame DEF NodeIds
  <2>2. CASE sc' = [sc EXCEPT !.nodes = OnTop(id)]
    BY <1>2, <1>4, <2>2, PutOnTop
  <2> QED
    BY <2>1, <2>2 DEF PressNode
<1>6. OnCanvas(sc', sel')
  <2>1. OnCanvas(sc, sel')
    BY <1>2, <1>4, SelectingFits
  <2> QED
    BY <1>5, <2>1, OnMore DEF NodeIds
<1>7. Fitting'
  BY <1>2, <1>3, <1>5, <1>6, PressFits
<1> QED
  BY <1>5, <1>7

LEMMA PressToSelectFits == ASSUME CanvasInv, Fitting, NEW id, PressToSelect(id) PROVE Fitting'
<1>1. PICK g : g = Idle
  OBVIOUS
<1>2. Press(g) /\ id \in NodeIds /\ sc' = sc /\ snap' = snap
  BY <1>1 DEF PressToSelect
<1>3. g.edge = <<>>
  BY <1>1, EmptyHands
<1>4. Proper(sc) /\ OnCanvas(sc, sel) /\ id \in IdsOf(sc.nodes)
  BY <1>2 DEF Fitting, Drawings, NodeIds
<1>5. sel.nodes \subseteq IdsOf(sc.nodes) /\ sel.node \in IdsOf(sc.nodes) \cup {NoId}
  BY <1>4 DEF OnCanvas
<1>6. OnCanvas(sc, sel')
  <2>1. CASE sel' = Selecting(id)
    BY <1>2, <1>4, <2>1, SelectingFits
  <2>2. CASE sel' = [sel EXCEPT !.nodes = @ \ {id}, !.node = IF @ = id THEN NoId ELSE @]
    <3>1. PICK S, n : S = sel.nodes \ {id} /\ n = (IF sel.node = id THEN NoId ELSE sel.node)
      OBVIOUS
    <3>2. S \subseteq IdsOf(sc.nodes) /\ n \in IdsOf(sc.nodes) \cup {NoId}
      BY <1>5, <3>1
    <3>3. sel' = [sel EXCEPT !.nodes = S, !.node = n]
      BY <2>2, <3>1
    <3>4. OnCanvas(sc, [sel EXCEPT !.nodes = S, !.node = n])
      BY <1>4, <3>2, Selections
    <3> QED
      BY <3>3, <3>4
  <2>3. CASE sel' = [node |-> id, edge |-> NoId, nodes |-> sel.nodes \cup {id}]
    <3>1. PICK S : S = sel.nodes \cup {id}
      OBVIOUS
    <3>2. S \subseteq IdsOf(sc.nodes) /\ id \in IdsOf(sc.nodes) \cup {NoId}
      BY <1>4, <1>5, <3>1
    <3>3. OnCanvas(sc, [node |-> id, edge |-> NoId, nodes |-> S])
      BY <1>4, <3>2, Selections
    <3> QED
      BY <2>3, <3>1, <3>3
  <2> QED
    BY <2>1, <2>2, <2>3 DEF PressToSelect
<1>7. Proper(sc') /\ OnCanvas(sc', sel')
  BY <1>2, <1>4, <1>6
<1> QED
  BY <1>2, <1>3, <1>7, PressFits

LEMMA PressEdgeFits == ASSUME CanvasInv, Fitting, NEW id, PressEdge(id) PROVE Fitting'
<1>1. PICK g : g = Idle
  OBVIOUS
<1>2. Press(g) /\ id \in IdsOf(sc.edges) /\ sc' = sc /\ snap' = snap /\ sel' = OnlyEdge(id)
  BY <1>1 DEF PressEdge
<1>3. g.edge = <<>>
  BY <1>1, EmptyHands
<1>4. Proper(sc') /\ OnCanvas(sc', sel')
  BY <1>2, Selections DEF Fitting, Drawings
<1> QED
  BY <1>2, <1>3, <1>4, PressFits

\* A press that leaves the canvas and the selection alone.
LEMMA StillFits ==
    ASSUME Fitting, NEW g, Press(g), g.edge = <<>>, UNCHANGED <<sc, sel, snap>>
    PROVE  Fitting'
<1>1. Proper(sc') /\ OnCanvas(sc', sel') /\ snap' = snap
  BY DEF Fitting, Drawings
<1> QED
  BY <1>1, PressFits

LEMMA PressPortFits == ASSUME CanvasInv, Fitting, NEW id, PressPort(id) PROVE Fitting'
<1>1. PICK g, m : m = "out" /\ g = [Idle EXCEPT !.mode = m, !.id = id]
  OBVIOUS
<1>2. Press(g) /\ UNCHANGED <<sc, sel, snap>>
  BY <1>1 DEF PressPort
<1>3. m # "in"
  BY <1>1
<1>4. g.edge = <<>>
  <2>1. Begins([Idle EXCEPT !.mode = m, !.id = id], m)
    BY <1>3, Presses
  <2>2. Begins(g, m)
    BY <1>1, <2>1, Zenon
  <2> QED
    BY <2>2 DEF Begins
<1> QED
  BY <1>2, <1>4, StillFits

LEMMA PressCanvasFits == ASSUME CanvasInv, Fitting, PressCanvas PROVE Fitting'
<1>1. PICK mode \in {"marquee", "pan"} : Press([Idle EXCEPT !.mode = mode])
  BY DEF PressCanvas
<1>2. PICK g : g = [Idle EXCEPT !.mode = mode]
  OBVIOUS
<1>3. Press(g) /\ UNCHANGED <<sc, sel, snap>>
  BY <1>1, <1>2 DEF PressCanvas
<1>4. g.edge = <<>>
  BY <1>2, Presses DEF Begins
<1> QED
  BY <1>3, <1>4, StillFits

LEMMA PressResizeFits == ASSUME CanvasInv, Fitting, NEW id, PressResize(id) PROVE Fitting'
<1>1. PICK f : Press([Idle EXCEPT !.mode = "resize", !.id = id, !.from = f])
  BY DEF PressResize
<1>2. PICK g, m : m = "resize" /\ g = [Idle EXCEPT !.mode = m, !.id = id, !.from = f]
  OBVIOUS
<1>3. Press(g) /\ sc' = sc /\ snap' = <<Encode(sc)>> /\ sel' = OnlyNode(id) /\ id \in IdsOf(sc.nodes)
  BY <1>1, <1>2 DEF PressResize, NodeIds
<1>4. m # "in"
  BY <1>2
<1>5. g.edge = <<>>
  <2>1. Begins([Idle EXCEPT !.mode = m, !.id = id, !.from = f], m)
    BY <1>4, Presses
  <2>2. Begins(g, m)
    BY <1>2, <2>1, Zenon
  <2> QED
    BY <2>2 DEF Begins
<1>6. Proper(sc') /\ OnCanvas(sc', sel')
  BY <1>3, Selections DEF Fitting, Drawings
<1> QED
  BY <1>3, <1>5, <1>6, PressFits

\* An arrow that is taken off leaves the others.
LEMMA OthersLeft ==
    ASSUME NEW s, Proper(s), NEW id, NEW t, t = RemoveEdge(s, id)
    PROVE  IdsOf(s.edges) \ {id} \subseteq IdsOf(t.edges) /\ t.nodes = s.nodes
<1>1. t.nodes = s.nodes
  BY EdgeRemoved
<1>2. CASE id \notin IdsOf(s.edges)
  BY <1>1, <1>2 DEF RemoveEdge
<1>3. CASE id \in IdsOf(s.edges)
  <2>1. IsList(s.edges) /\ IsScene(s)
    BY DEF Proper, GoodEdges
  <2>2. PICK i : i = IndexOf(s.edges, id)
    OBVIOUS
  <2>3. i \in 1..Len(s.edges) /\ s.edges[i].id = id
    BY <1>3, <2>1, <2>2, IndexFound, ListFacts
  <2>4. PICK r : r = RemoveAt(s.edges, i)
    OBVIOUS
  <2>5. IsList(r) /\ ToSet(r) \cup {s.edges[i]} = ToSet(s.edges)
    BY <2>1, <2>3, <2>4, RemoveAtList
  <2>6. t.edges = r
    <3>1. t = [s EXCEPT !.edges = r]
      BY <1>3, <2>2, <2>4 DEF RemoveEdge
    <3> QED
      BY <2>1, <3>1 DEF IsScene
  <2>7. IdsOf(s.edges) = {e.id : e \in ToSet(s.edges)} /\ IdsOf(r) = {e.id : e \in ToSet(r)}
    BY <2>1, <2>5, IdsOfList
  <2> QED
    BY <1>1, <2>3, <2>5, <2>6, <2>7
<1> QED
  BY <1>2, <1>3

LEMMA GrabEdgeFits ==
    ASSUME CanvasInv, Fitting, NEW id, NEW freeTarget \in BOOLEAN, GrabEdge(id, freeTarget)
    PROVE  /\ Fitting' /\ Derived(sc', sc) /\ sc'.id = sc.id
           /\ \E e : e = ById(sc.edges, id) /\ GoodEdge(e) /\ act'.edge = <<e>>
<1>1. Proper(sc) /\ OnCanvas(sc, sel) /\ Scenes
  BY DEF Fitting, Drawings, CanvasInv
<1>2. PICK e : e = ById(sc.edges, id)
  OBVIOUS
<1>3. GoodEdge(e)
  <2>1. IsList(sc.edges) /\ id \in IdsOf(sc.edges)
    BY <1>1 DEF Proper, GoodEdges, GrabEdge
  <2>2. IndexOf(sc.edges, id) \in DOMAIN sc.edges
    BY <2>1, IndexFound
  <2>3. e \in ToSet(sc.edges)
    BY <1>2, <2>2 DEF ById, ToSet
  <2> QED
    BY <1>1, <2>3 DEF Proper, GoodEdges
<1>4. PICK m, i : m = (IF freeTarget THEN "out" ELSE "in") /\ i = (IF freeTarget THEN e.from ELSE e.to)
  OBVIOUS
<1>5. /\ act' = [Idle EXCEPT !.mode = m, !.id = i, !.edge = <<e>>]
      /\ sc' = RemoveEdge(sc, id)
      /\ Push(Encode(sc)) /\ snap' = snap /\ ids' = ids
      /\ sel' = [sel EXCEPT !.edge = IF @ = id THEN NoId ELSE @]
      /\ Elsewhere
  BY <1>2, <1>4 DEF GrabEdge, PushHistory
<1>6. act'.edge = <<e>>
  <2>1. PICK no : Idle = [mode |-> "idle", id |-> NoId, edge |-> <<>>, members |-> {}, moved |-> no, from |-> <<>>]
    BY IdleIs
  <2>2. PICK one : one = <<e>>
    OBVIOUS
  <2>3. act' = [mode |-> m, id |-> i, edge |-> one, members |-> {}, moved |-> no, from |-> <<>>]
    BY <1>5, <2>1, <2>2
  <2> QED
    BY <2>2, <2>3
<1>7. \A x \in ToSet(act'.edge) : GoodEdge(x)
  BY <1>3, <1>6, OneList
<1>8. Proper(sc') /\ sc'.id = sc.id /\ Derived(sc', sc)
  BY <1>1, <1>5, EdgeRemoved
<1>9. OnCanvas(sc', sel')
  <2>1. IdsOf(sc.edges) \ {id} \subseteq IdsOf(sc'.edges) /\ sc'.nodes = sc.nodes
    BY <1>1, <1>5, OthersLeft
  <2>2. sel = [node |-> sel.node, edge |-> sel.edge, nodes |-> sel.nodes]
    BY <1>1 DEF OnCanvas
  <2>3. PICK x : x = (IF sel.edge = id THEN NoId ELSE sel.edge)
    OBVIOUS
  <2>4. sel' = [node |-> sel.node, edge |-> x, nodes |-> sel.nodes]
    BY <1>5, <2>2, <2>3
  <2>5. sel'.node = sel.node /\ sel'.edge = x /\ sel'.nodes = sel.nodes
    BY <2>4
  <2>6. x \in IdsOf(sc'.edges) \cup {NoId}
    BY <1>1, <2>1, <2>3 DEF OnCanvas
  <2> QED
    BY <1>1, <2>1, <2>4, <2>5, <2>6 DEF OnCanvas
<1>10. HistoryFits' /\ \A s \in ToSet(undoStack') \cup ToSet(redoStack') : Proper(s)
  BY <1>1, <1>5, EncodedProper, PushFits DEF Fitting
<1>11. Drawings'
  BY <1>5, <1>7, <1>8, <1>10 DEF Fitting, Drawings, Pasts
<1>12. Listing'
  BY <1>5, ListElsewhere, SameIds
<1> QED
  BY <1>2, <1>3, <1>6, <1>8, <1>9, <1>10, <1>11, <1>12 DEF Fitting

\* The first movement puts what the press kept into the history.
LEMMA MovingFits ==
    ASSUME CanvasInv, Fitting, IF act.moved THEN UNCHANGED history ELSE CommitPending,
           act' = [act EXCEPT !.moved = TRUE], Proper(sc'), OnCanvas(sc', sel'),
           UNCHANGED <<files, mods, order, ids>>
    PROVE  Fitting' /\ act'.edge = act.edge /\ act'.mode = act.mode /\ act'.id = act.id
           /\ ToSet(undoStack') \cup ToSet(redoStack') \cup ToSet(snap') \subseteq Pasts
<1>1. PICK yes : yes = TRUE
  OBVIOUS
<1>2. PICK g, h : g = act /\ h = act'
  OBVIOUS
<1>3. g = [mode |-> g.mode, id |-> g.id, edge |-> g.edge, members |-> g.members, moved |-> g.moved, from |-> g.from]
  BY <1>2 DEF CanvasInv, Held, IsGesture
<1>4. h = [g EXCEPT !.moved = yes]
  BY <1>1, <1>2
<1>5. h.edge = g.edge /\ h.mode = g.mode /\ h.id = g.id
  BY <1>3, <1>4
<1>6. /\ HistoryFits' /\ \A s \in ToSet(undoStack') \cup ToSet(redoStack') : Proper(s)
      /\ ToSet(undoStack') \cup ToSet(redoStack') \cup ToSet(snap') \subseteq Pasts
  <2>1. CASE UNCHANGED history
    <3>1. undoStack' = undoStack /\ redoStack' = redoStack /\ snap' = snap
      BY <2>1 DEF history
    <3> QED
      BY <3>1, SameHistory DEF Pasts
  <2>2. CASE snap # <<>> /\ CommitPending
    <3>1. PICK c : c = snap[1]
      OBVIOUS
    <3>2. Push(c) /\ snap' = <<>>
      BY <2>2, <3>1 DEF CommitPending
    <3>3. c \in ToSet(snap)
      <4>1. IsList(snap) /\ DOMAIN snap = 1..Len(snap) /\ Len(snap) \in Nat /\ snap \in Seq(ToSet(snap))
        BY ListFacts DEF CanvasInv, Scenes, Canvases
      <4>2. 1 \in DOMAIN snap
        BY <2>2, <4>1
      <4> QED
        BY <3>1, <4>2 DEF ToSet
    <3>4. Proper(c) /\ c \in Pasts
      BY <3>3 DEF Fitting, Drawings, Pasts
    <3>5. /\ HistoryFits' /\ \A s \in ToSet(undoStack') \cup ToSet(redoStack') : Proper(s)
          /\ ToSet(undoStack') \subseteq ToSet(undoStack) \cup {c} /\ ToSet(redoStack') \subseteq ToSet(redoStack)
      BY <3>2, <3>4, PushFits DEF Fitting, CanvasInv
    <3>6. ToSet(snap') = {}
      BY <3>2, EmptyList
    <3> QED
      BY <3>4, <3>5, <3>6 DEF Pasts
  <2>3. UNCHANGED history \/ (snap # <<>> /\ CommitPending)
    BY DEF CommitPending
  <2> QED
    BY <2>1, <2>2, <2>3
<1>7. \A s \in ToSet(undoStack') \cup ToSet(redoStack') \cup ToSet(snap') : Proper(s)
  BY <1>6 DEF Fitting, Drawings
<1>8. \A e \in ToSet(act'.edge) : GoodEdge(e)
  BY <1>2, <1>5 DEF Fitting, Drawings
<1>9. Drawings'
  BY <1>7, <1>8 DEF Drawings, Pasts
<1>10. Listing'
  BY SameIds
<1> QED
  BY <1>2, <1>5, <1>6, <1>9, <1>10 DEF Fitting

LEMMA DragFits ==
    ASSUME CanvasInv, Fitting, NEW by, Drag(by)
    PROVE  /\ Fitting' /\ Derived(sc', sc) /\ sc'.id = sc.id /\ act'.edge = act.edge /\ act'.mode = act.mode
           /\ ToSet(undoStack') \cup ToSet(redoStack') \cup ToSet(snap') \subseteq Pasts
<1> DEFINE moved(i) == Moved(sc.nodes[i], by[1] * Shifts(sc.nodes[i].id), by[2] * Shifts(sc.nodes[i].id))
<1>1. PICK q : q = [i \in DOMAIN sc.nodes |-> moved(i)]
  OBVIOUS
<1>2. sc' = [sc EXCEPT !.nodes = q] /\ sel' = sel
  BY <1>1 DEF Drag
<1>3. \A i \in DOMAIN sc.nodes : \E dx, dy : q[i] = Moved(sc.nodes[i], dx, dy)
  BY <1>1
<1> HIDE DEF moved
<1>4. q = [i \in DOMAIN sc.nodes |-> q[i]]
  BY <1>1
<1>5. Proper(sc) /\ OnCanvas(sc, sel)
  BY DEF Fitting, Drawings
<1>6. PICK t : t = [sc EXCEPT !.nodes = q]
  OBVIOUS
<1>7. Proper(t) /\ t.id = sc.id /\ Derived(t, sc) /\ IdsOf(t.nodes) = IdsOf(sc.nodes) /\ t.edges = sc.edges
  BY <1>3, <1>4, <1>5, <1>6, NodesMoved
<1>8. OnCanvas(t, sel')
  BY <1>2, <1>5, <1>7, OnMore
<1>9. sc' = t
  BY <1>2, <1>6
<1>10. UNCHANGED <<files, mods, order, ids>> /\ act' = [act EXCEPT !.moved = TRUE]
  BY ListElsewhere DEF Drag
<1>11. IF act.moved THEN UNCHANGED history ELSE CommitPending
  BY DEF Drag
<1>12. Proper(sc') /\ OnCanvas(sc', sel')
  BY <1>7, <1>8, <1>9
<1> QED
  BY <1>7, <1>9, <1>10, <1>11, <1>12, MovingFits

LEMMA ResizedGood == ASSUME NEW n, GoodNode(n), NEW by, NEW m, m = Resized(n, by) PROVE GoodNode(m) /\ m.id = n.id /\ m.kind = n.kind
<1>1. PICK x, w, y, h : m = [n EXCEPT !.x = x, !.w = w, !.y = y, !.h = h]
  BY DEF Resized
<1>2. IsNode(n) /\ n = [id |-> n.id, kind |-> n.kind, x |-> n.x, y |-> n.y, w |-> n.w, h |-> n.h, f |-> n.f]
  BY DEF GoodNode, IsNode
<1>3. m = [id |-> n.id, kind |-> n.kind, x |-> x, y |-> y, w |-> w, h |-> h, f |-> n.f]
  BY <1>1, <1>2
<1>4. m.id = n.id /\ m.kind = n.kind /\ m.f = n.f /\ IsNode(m)
  BY <1>3 DEF IsNode
<1> QED
  BY <1>4 DEF GoodNode, Defaulted

\* The node with an id of the canvas.
LEMMA NodeFound ==
    ASSUME Proper(sc), NEW id \in NodeIds
    PROVE  GoodNode(NodeOf(id)) /\ NodeOf(id).id = id /\ NodeOf(id) \in ToSet(sc.nodes)
<1>1. IsList(sc.nodes) /\ id \in IdsOf(sc.nodes)
  BY DEF Proper, GoodNodes, NodeIds
<1>2. PICK i : i = IndexOf(sc.nodes, id)
  OBVIOUS
<1>3. i \in DOMAIN sc.nodes /\ sc.nodes[i].id = id
  BY <1>1, <1>2, IndexFound
<1>4. NodeOf(id) = sc.nodes[i]
  BY <1>2 DEF NodeOf, ById
<1>5. NodeOf(id) \in ToSet(sc.nodes)
  BY <1>3, <1>4 DEF ToSet
<1> QED
  BY <1>3, <1>4, <1>5 DEF Proper, GoodNodes

LEMMA EdgeFound ==
    ASSUME Proper(sc), NEW id \in IdsOf(sc.edges)
    PROVE  GoodEdge(ById(sc.edges, id)) /\ ById(sc.edges, id).id = id /\ ById(sc.edges, id) \in ToSet(sc.edges)
<1>1. IsList(sc.edges)
  BY DEF Proper, GoodEdges
<1>2. PICK i : i = IndexOf(sc.edges, id)
  OBVIOUS
<1>3. i \in DOMAIN sc.edges /\ sc.edges[i].id = id
  BY <1>1, <1>2, IndexFound
<1>4. ById(sc.edges, id) = sc.edges[i]
  BY <1>2 DEF ById
<1>5. ById(sc.edges, id) \in ToSet(sc.edges)
  BY <1>3, <1>4 DEF ToSet
<1> QED
  BY <1>3, <1>4, <1>5 DEF Proper, GoodEdges

LEMMA DragResizeFits ==
    ASSUME CanvasInv, Fitting, NEW by, DragResize(by)
    PROVE  /\ Fitting' /\ Derived(sc', sc) /\ sc'.id = sc.id /\ act'.edge = act.edge /\ act'.mode = act.mode
           /\ ToSet(undoStack') \cup ToSet(redoStack') \cup ToSet(snap') \subseteq Pasts
<1>1. PICK id, n, m : id = act.id /\ n = NodeOf(id) /\ m = Resized(n, by)
  OBVIOUS
<1>2. Proper(sc) /\ OnCanvas(sc, sel) /\ id \in IdsOf(sc.nodes) /\ sc' = WithNode(sc, id, m) /\ sel' = sel
  BY <1>1 DEF DragResize, NodeIds, Fitting, Drawings
<1>3. GoodNode(n) /\ n.id = id /\ n = ById(sc.nodes, id)
  BY <1>1, <1>2, NodeFound DEF NodeIds, NodeOf
<1>4. GoodNode(m) /\ m.id = id /\ m.kind = ById(sc.nodes, id).kind
  BY <1>1, <1>3, ResizedGood
<1>5. Proper(sc') /\ sc'.id = sc.id /\ Derived(sc', sc) /\ IdsOf(sc'.nodes) = IdsOf(sc.nodes) /\ sc'.edges = sc.edges
  BY <1>2, <1>4, NodeChanged
<1>6. OnCanvas(sc', sel')
  BY <1>2, <1>5, OnMore
<1>7. UNCHANGED <<files, mods, order, ids>> /\ act' = [act EXCEPT !.moved = TRUE]
  BY ListElsewhere DEF DragResize
<1>8. IF act.moved THEN UNCHANGED history ELSE CommitPending
  BY DEF DragResize
<1> QED
  BY <1>5, <1>6, <1>7, <1>8, MovingFits

\* Nothing of this changes.
LEMMA RestFits ==
    ASSUME Fitting, UNCHANGED <<sc, history, sel, act, files, mods, order, ids>>
    PROVE  Fitting'
<1>1. undoStack' = undoStack /\ redoStack' = redoStack /\ snap' = snap
  BY DEF history
<1>2. Drawings' /\ HistoryFits' /\ OnCanvas(sc', sel')
  BY <1>1 DEF Fitting, Drawings, HistoryFits, Pasts
<1>3. Listing'
  BY SameIds
<1> QED
  BY <1>2, <1>3 DEF Fitting

\* Only the selection changes.
LEMMA ChoiceFits ==
    ASSUME Fitting, UNCHANGED <<sc, history, act, files, mods, order, ids>>, OnCanvas(sc, sel')
    PROVE  Fitting'
<1>1. undoStack' = undoStack /\ redoStack' = redoStack /\ snap' = snap
  BY DEF history
<1>2. Drawings' /\ HistoryFits' /\ OnCanvas(sc', sel')
  BY <1>1 DEF Fitting, Drawings, HistoryFits, Pasts
<1>3. Listing'
  BY SameIds
<1> QED
  BY <1>2, <1>3 DEF Fitting

LEMMA DragViewFits == ASSUME Fitting, NEW v, DragView(v) PROVE Fitting'
<1>1. UNCHANGED <<sc, history, sel, act, files, mods, order, ids>>
  BY DEF DragView, diskVars
<1> QED
  BY <1>1, RestFits

LEMMA MarkedFits ==
    ASSUME Proper(sc), NEW S, S \subseteq NodeIds
    PROVE  OnCanvas(sc, Marked(S))
<1>1. CASE S = {}
  BY <1>1, Selections DEF Marked
<1>2. CASE S # {}
  <2>1. PICK T : T = {i \in DOMAIN sc.nodes : sc.nodes[i].id \in S}
    OBVIOUS
  <2>2. IsList(sc.nodes)
    BY DEF Proper, GoodNodes
  <2>3. PICK n \in Nat : n = Len(sc.nodes) /\ DOMAIN sc.nodes = 1..n
    BY <2>2, ListFacts
  <2>4. T \subseteq 1..n /\ T # {}
    <3>1. PICK id \in S : id \in IdsOf(sc.nodes)
      BY <1>2 DEF NodeIds
    <3> QED
      BY <2>1, <2>3, <3>1 DEF IdsOf
  <2>5. PICK m : m = Max(T)
    OBVIOUS
  <2>6. m \in T
    BY <2>3, <2>4, <2>5, MaxFound
  <2>7. PICK id : id = sc.nodes[m].id
    OBVIOUS
  <2>8. id \in IdsOf(sc.nodes) \cup {NoId} /\ S \in SUBSET IdsOf(sc.nodes)
    BY <2>1, <2>6, <2>7 DEF IdsOf, NodeIds
  <2>9. Marked(S) = [node |-> id, edge |-> NoId, nodes |-> S]
    BY <1>2, <2>1, <2>5, <2>7 DEF Marked
  <2>10. OnCanvas(sc, [node |-> id, edge |-> NoId, nodes |-> S])
    BY <2>8, Selections
  <2> QED
    BY <2>9, <2>10
<1> QED
  BY <1>1, <1>2

LEMMA DragMarqueeFits == ASSUME Fitting, NEW S, DragMarquee(S) PROVE Fitting'
<1>1. OnCanvas(sc, sel')
  BY MarkedFits DEF DragMarquee, Fitting, Drawings
<1>2. UNCHANGED <<sc, history, act, files, mods, order, ids>>
  BY ListElsewhere DEF DragMarquee
<1> QED
  BY <1>1, <1>2, ChoiceFits

LEMMA LetGoFits == ASSUME Fitting, FinishNowhere \/ Release PROVE Fitting'
<1>1. Released /\ UNCHANGED <<sc, sel, undoStack, redoStack, ids, files, mods, order>>
  BY ListElsewhere DEF FinishNowhere, Release
<1>2. Proper(sc') /\ OnCanvas(sc', sel')
  BY <1>1 DEF Fitting, Drawings
<1>3. HistoryFits' /\ \A s \in ToSet(undoStack') \cup ToSet(redoStack') : Proper(s)
  BY <1>1, SameHistory
<1>4. Listing'
  BY <1>1, SameIds
<1> QED
  BY <1>1, <1>2, <1>3, <1>4, EndFits

\* An arrow comes back onto the canvas, or a new one.
LEMMA AttachedOn ==
    ASSUME Proper(sc), OnCanvas(sc, sel), NEW e, GoodEdge(e), NEW t, t = Attached(sc, e), NEW c,
           c = sel \/ c = OnlyEdge(e.id) \/ c = NoSelection
    PROVE  Proper(t) /\ OnCanvas(t, c)
<1>1. /\ Proper(t) /\ t.nodes = sc.nodes /\ ToSet(t.edges) = ToSet(sc.edges) \cup {e}
  BY EdgeAttached
<1>2. IdsOf(t.edges) = {x.id : x \in ToSet(t.edges)} /\ IdsOf(sc.edges) = {x.id : x \in ToSet(sc.edges)}
  BY <1>1, IdsOfList DEF Proper, GoodEdges
<1>3. e.id \in IdsOf(t.edges) /\ IdsOf(sc.edges) \subseteq IdsOf(t.edges)
  BY <1>1, <1>2
<1>4. CASE c = OnlyEdge(e.id)
  BY <1>1, <1>3, <1>4, Selections
<1>5. CASE c = sel
  BY <1>1, <1>3, <1>5, OnMore
<1>6. CASE c = NoSelection
  BY <1>1, <1>6, Selections
<1> QED
  BY <1>1, <1>4, <1>5, <1>6

LEMMA AttachedFits ==
    ASSUME Fitting, NEW e, GoodEdge(e), sc' = Attached(sc, e), sel' = sel \/ sel' = OnlyEdge(e.id), Released,
           HistoryFits', \A s \in ToSet(undoStack') \cup ToSet(redoStack') : Proper(s),
           UNCHANGED <<files, mods, order>>, ids' \in Nat, ids' >= ids
    PROVE  Fitting'
<1>1. Proper(sc') /\ OnCanvas(sc', sel')
  BY AttachedOn DEF Fitting, Drawings
<1>2. Listing'
  BY SameList DEF Fitting
<1> QED
  BY <1>1, <1>2, EndFits

\* The arrow that is held.
LEMMA HandFound ==
    ASSUME CanvasInv, Fitting, act.edge # <<>>
    PROVE  act.edge[1] \in ToSet(act.edge) /\ GoodEdge(act.edge[1])
<1>1. EdgeList(act.edge) /\ DOMAIN act.edge = 1..Len(act.edge) /\ Len(act.edge) \in Nat /\ act.edge \in Seq(ToSet(act.edge))
  BY ListFacts DEF CanvasInv, Held, IsGesture, EdgeList
<1>2. 1 \in DOMAIN act.edge
  BY <1>1
<1>3. act.edge[1] \in ToSet(act.edge)
  BY <1>2 DEF ToSet
<1> QED
  BY <1>3 DEF Fitting, Drawings

\* An arrow with other ends.
LEMMA EndsChanged ==
    ASSUME NEW e, GoodEdge(e), NEW id, NEW o
    PROVE  /\ o = [id |-> e.id, from |-> e.from, to |-> id, cond |-> e.cond, f |-> e.f] => GoodEdge(o)
           /\ o = [id |-> e.id, from |-> id, to |-> e.to, cond |-> e.cond, f |-> e.f] => GoodEdge(o) /\ o.id = e.id
<1>1. ASSUME o = [id |-> e.id, from |-> e.from, to |-> id, cond |-> e.cond, f |-> e.f] PROVE GoodEdge(o)
  <2>1. o.id = e.id /\ o.f = e.f /\ IsEdge(o)
    BY <1>1 DEF IsEdge
  <2> QED
    BY <2>1 DEF GoodEdge
<1>2. ASSUME o = [id |-> e.id, from |-> id, to |-> e.to, cond |-> e.cond, f |-> e.f] PROVE GoodEdge(o) /\ o.id = e.id
  <2>1. o.id = e.id /\ o.f = e.f /\ IsEdge(o)
    BY <1>2 DEF IsEdge
  <2> QED
    BY <2>1 DEF GoodEdge
<1> QED
  BY <1>1, <1>2

LEMMA FinishOutFits == ASSUME CanvasInv, Fitting, NEW id, FinishOut(id) PROVE Fitting'
<1>0. /\ Proper(sc) /\ OnCanvas(sc, sel) /\ ids \in Nat /\ Scenes
      /\ Released /\ UNCHANGED <<files, mods, order>>
  BY ListElsewhere DEF FinishOut, Fitting, Drawings, Listing, CanvasInv
<1>1. CASE sc' = sc /\ UNCHANGED <<sel, undoStack, redoStack, ids>>
  <2>1. Proper(sc') /\ OnCanvas(sc', sel')
    BY <1>0, <1>1
  <2>2. HistoryFits' /\ \A s \in ToSet(undoStack') \cup ToSet(redoStack') : Proper(s)
    BY <1>1, SameHistory
  <2>3. Listing'
    BY <1>0, <1>1, SameIds
  <2> QED
    BY <1>0, <2>1, <2>2, <2>3, EndFits
<1>2. CASE \E e : /\ GoodEdge(e) /\ sc' = Attached(sc, e)
                  /\ UNCHANGED <<undoStack, redoStack>> \/ Push(Encode(sc))
                  /\ (UNCHANGED <<sel, ids>>) \/ (sel' = OnlyEdge(Last(sc'.edges).id) /\ ids' = Taken(ids, sc'))
  <2>1. PICK e : /\ GoodEdge(e) /\ sc' = Attached(sc, e)
                 /\ UNCHANGED <<undoStack, redoStack>> \/ Push(Encode(sc))
                 /\ (UNCHANGED <<sel, ids>>) \/ (sel' = OnlyEdge(Last(sc'.edges).id) /\ ids' = Taken(ids, sc'))
    BY <1>2
  <2>2. Proper(sc') /\ Last(sc'.edges) = e
    BY <1>0, <2>1, EdgeAttached
  <2>3. sel' = sel \/ sel' = OnlyEdge(e.id)
    BY <2>1, <2>2
  <2>4. HistoryFits' /\ \A s \in ToSet(undoStack') \cup ToSet(redoStack') : Proper(s)
    <3>1. CASE UNCHANGED <<undoStack, redoStack>>
      BY <3>1, SameHistory
    <3>2. CASE Push(Encode(sc))
      BY <1>0, <3>2, EncodedProper, PushFits DEF Fitting
    <3> QED
      BY <2>1, <3>1, <3>2
  <2>5. ids' \in Nat /\ ids' >= ids
    <3>1. CASE ids' = ids
      BY <1>0, <3>1
    <3>2. CASE ids' = Taken(ids, sc')
      <4>1. IsScene(sc') /\ IsNumbered(sc')
        BY <2>2, ProperNumbered
      <4> QED
        BY <1>0, <3>2, <4>1, TakenFacts
    <3> QED
      BY <2>1, <3>1, <3>2
  <2> QED
    BY <1>0, <2>1, <2>3, <2>4, <2>5, AttachedFits
<1>3. CASE act.edge = <<>>
  <2>1. PICK e : e = NewEdge(ids + 1, act.id, id)
    OBVIOUS
  <2>2. GoodEdge(e)
    <3>1. PICK new \in Nat : new = ids + 1
      BY <1>0
    <3>2. e = NewEdge(new, act.id, id)
      BY <2>1, <3>1
    <3> QED
      BY <3>2, GoodNewEdge
  <2>3. \/ sc' = sc /\ UNCHANGED <<sel, undoStack, redoStack, ids>>
        \/ /\ sc' = Attached(sc, e) /\ Push(Encode(sc))
           /\ sel' = OnlyEdge(Last(sc'.edges).id) /\ ids' = Taken(ids, sc')
    BY <1>3, <2>1 DEF FinishOut
  <2> QED
    BY <1>1, <1>2, <2>2, <2>3
<1>4. CASE act.edge # <<>>
  <2>1. PICK e, o : e = act.edge[1] /\ o = [act.edge[1] EXCEPT !.to = id]
    OBVIOUS
  <2>2. GoodEdge(e) /\ GoodEdge(o)
    <3>1. GoodEdge(e)
      BY <1>4, <2>1, HandFound, Zenon
    <3>2. e = [id |-> e.id, from |-> e.from, to |-> e.to, cond |-> e.cond, f |-> e.f]
      BY <3>1 DEF GoodEdge, IsEdge
    <3>3. o = [e EXCEPT !.to = id]
      BY <2>1, Zenon
    <3>4. o = [id |-> e.id, from |-> e.from, to |-> id, cond |-> e.cond, f |-> e.f]
      BY <3>2, <3>3
    <3> QED
      BY <3>1, <3>4, EndsChanged
  <2>3. \/ sc' = Attached(sc, e) /\ UNCHANGED <<sel, undoStack, redoStack, ids>>
        \/ /\ sc' = Attached(sc, o) /\ UNCHANGED <<undoStack, redoStack>>
           /\ sel' = OnlyEdge(Last(sc'.edges).id) /\ ids' = Taken(ids, sc')
    BY <1>4, <2>1 DEF FinishOut
  <2> QED
    BY <1>2, <2>2, <2>3
<1> QED
  BY <1>3, <1>4

LEMMA FinishInFits == ASSUME CanvasInv, Fitting, NEW id, FinishIn(id) PROVE Fitting'
<1>0. /\ ids' \in Nat /\ ids' >= ids /\ UNCHANGED <<undoStack, redoStack>>
      /\ Released /\ UNCHANGED <<files, mods, order>>
  BY ListElsewhere DEF FinishIn, Fitting, Listing
<1>1. act.edge # <<>>
  BY DEF FinishIn, CanvasInv, Held, IsGesture
<1>2. PICK e, o : e = act.edge[1] /\ o = [act.edge[1] EXCEPT !.from = id]
  OBVIOUS
<1>3. GoodEdge(e) /\ GoodEdge(o) /\ o.id = e.id
  <2>1. GoodEdge(e)
    BY <1>1, <1>2, HandFound, Zenon
  <2>2. e = [id |-> e.id, from |-> e.from, to |-> e.to, cond |-> e.cond, f |-> e.f]
    BY <2>1 DEF GoodEdge, IsEdge
  <2>3. o = [e EXCEPT !.from = id]
    BY <1>2, Zenon
  <2>4. o = [id |-> e.id, from |-> id, to |-> e.to, cond |-> e.cond, f |-> e.f]
    BY <2>2, <2>3
  <2> QED
    BY <2>1, <2>4, EndsChanged
<1>4. (sc' = Attached(sc, e) /\ sel' = sel) \/ (sc' = Attached(sc, o) /\ sel' = OnlyEdge(e.id))
  BY <1>2 DEF FinishIn
<1>5. HistoryFits' /\ \A s \in ToSet(undoStack') \cup ToSet(redoStack') : Proper(s)
  BY <1>0, SameHistory
<1> QED
  BY <1>0, <1>3, <1>4, <1>5, AttachedFits

-----------------------------------------------------------------------------
(* Keys.                                                                    *)

LEMMA DeleteSelectionFits ==
    ASSUME CanvasInv, Fitting, DeleteSelection
    PROVE  Fitting' /\ (SoundCanvas(sc) => SoundCanvas(sc'))
<1>1. PICK u, t : u = RemoveNodes(sc, sel.nodes) /\ t = RemoveEdge(u, sel.edge)
  OBVIOUS
<1>2. Proper(u) /\ Derived(u, sc)
  BY <1>1, NodesRemoved DEF Fitting, Drawings
<1>3. Proper(t) /\ Derived(t, u)
  BY <1>1, <1>2, EdgeRemoved
<1>4. Changing(t, NoSelection) /\ UNCHANGED act /\ UNCHANGED <<files, mods, order>>
  BY <1>1, ListElsewhere DEF DeleteSelection
<1>5. Fitting'
  BY <1>3, <1>4, Selections, ChangeFits DEF CanvasInv
<1>6. SoundCanvas(sc) => SoundCanvas(t)
  BY <1>2, <1>3, SoundDerived
<1> QED
  BY <1>4, <1>5, <1>6 DEF Changing

LEMMA EscapeFits == ASSUME CanvasInv, Fitting, Escape PROVE Fitting'
<1>0. /\ Proper(sc) /\ OnCanvas(sc, sel) /\ UNCHANGED <<undoStack, redoStack, snap, ids, files, mods, order>>
      /\ sel' \in {sel, NoSelection}
  BY ListElsewhere DEF Escape, Fitting, Drawings, history
<1>1. Proper(sc') /\ OnCanvas(sc', sel')
  <2>1. CASE act.edge = <<>>
    BY <1>0, <2>1, Selections DEF Escape
  <2>2. CASE act.edge # <<>>
    <3>1. PICK e : e = act.edge[1]
      OBVIOUS
    <3>2. GoodEdge(e) /\ sc' = Attached(sc, e)
      BY <2>2, <3>1, HandFound DEF Escape
    <3> QED
      BY <1>0, <3>2, AttachedOn
  <2> QED
    BY <2>1, <2>2
<1>2. \A e \in ToSet(act'.edge) : GoodEdge(e)
  <2>1. CASE act' = Idle
    BY <2>1, IdleFits
  <2>2. CASE act' = act
    BY <2>2 DEF Fitting, Drawings
  <2> QED
    BY <2>1, <2>2 DEF Escape
<1>3. Listing'
  BY <1>0, SameIds
<1> QED
  BY <1>0, <1>1, <1>2, <1>3, CalmFits

LEMMA SelectAllFits == ASSUME CanvasInv, Fitting, SelectAll PROVE Fitting'
<1>1. PICK last, id : last = Last(sc.nodes) /\ id = last.id
  OBVIOUS
<1>2. id \in IdsOf(sc.nodes)
  <2>1. IsList(sc.nodes) /\ sc.nodes \in Seq(ToSet(sc.nodes)) /\ DOMAIN sc.nodes = 1..Len(sc.nodes) /\ Len(sc.nodes) \in Nat
    BY ListFacts DEF Fitting, Drawings, Proper, GoodNodes
  <2>2. PICK n \in Nat : n = Len(sc.nodes)
    BY <2>1
  <2>3. n # 0
    BY <2>1, <2>2 DEF Fitting, Drawings, Proper, HasStart, ToSet
  <2>4. n \in DOMAIN sc.nodes /\ last = sc.nodes[n]
    BY <1>1, <2>1, <2>2, <2>3 DEF Last
  <2> QED
    BY <1>1, <2>4 DEF IdsOf
<1>3. PICK S : S = NodeIds
  OBVIOUS
<1>4. id \in IdsOf(sc.nodes) \cup {NoId} /\ S \in SUBSET IdsOf(sc.nodes)
  BY <1>2, <1>3 DEF NodeIds
<1>5. OnCanvas(sc, [node |-> id, edge |-> NoId, nodes |-> S])
  BY <1>4, Selections
<1>6. sel' = [node |-> id, edge |-> NoId, nodes |-> S]
  BY <1>1, <1>3 DEF SelectAll
<1>7. UNCHANGED <<sc, history, act, files, mods, order, ids>> /\ OnCanvas(sc, sel')
  BY <1>5, <1>6, ListElsewhere DEF SelectAll
<1> QED
  BY <1>7, ChoiceFits

LEMMA CopyFits == ASSUME Fitting, Copy PROVE Fitting'
<1>1. UNCHANGED <<sc, history, sel, act, files, mods, order, ids>>
  BY DEF Copy, diskVars
<1> QED
  BY <1>1, RestFits

\* What is inserted is what is selected.
LEMMA InsertFits ==
    ASSUME CanvasInv, Fitting, NEW dto, IsPart(dto), NEW dx, NEW dy,
           Insert(Inserted(dto, ids, dx, dy)), UNCHANGED act, UNCHANGED <<files, mods, order>>
    PROVE  Fitting'
<1>0. Proper(sc) /\ OnCanvas(sc, sel) /\ ids \in Nat /\ Scenes
  BY DEF Fitting, Drawings, Listing, CanvasInv
<1>1. PICK p : p = Inserted(dto, ids, dx, dy)
  OBVIOUS
<1>2. IsPart(p) /\ GoodNodes(p.nodes) /\ GoodEdges(p.edges)
  <2>1. PICK n \in Nat : n = ids
    BY <1>0
  <2>2. PICK ns, es : /\ ns = Selected(dto.nodes, Copied0(dto))
                      /\ es = Selected(dto.edges, Joining(dto.edges, IdsOf(ns)))
    OBVIOUS
  <2>3. p = Inserted(dto, n, dx, dy)
    BY <1>1, <2>1
  <2> QED
    BY <2>1, <2>2, <2>3, InsertedShape
<1>3. PICK t : t = WithPart(sc, p)
  OBVIOUS
<1>4. Proper(t) /\ IdsOf(t.nodes) = IdsOf(sc.nodes) \cup IdsOf(p.nodes)
  BY <1>0, <1>2, <1>3, PartAdded
<1>5. PICK last, id, S : /\ last = Last(p.nodes) /\ S = IdsOf(p.nodes)
                         /\ id = (IF p.nodes = <<>> THEN sel.node ELSE last.id)
  OBVIOUS
<1>6. id \in IdsOf(t.nodes) \cup {NoId}
  <2>1. CASE p.nodes = <<>>
    BY <1>0, <1>4, <1>5, <2>1 DEF OnCanvas
  <2>2. CASE p.nodes # <<>>
    <3>1. IsList(p.nodes) /\ p.nodes \in Seq(ToSet(p.nodes)) /\ DOMAIN p.nodes = 1..Len(p.nodes) /\ Len(p.nodes) \in Nat
      BY <1>2, ListFacts DEF GoodNodes
    <3>2. PICK n \in Nat : n = Len(p.nodes)
      BY <3>1
    <3>3. n # 0
      BY <2>2, <3>1, <3>2
    <3>4. n \in DOMAIN p.nodes /\ last = p.nodes[n]
      BY <1>5, <3>1, <3>2, <3>3 DEF Last
    <3> QED
      BY <1>4, <1>5, <2>2, <3>4 DEF IdsOf
  <2> QED
    BY <2>1, <2>2
<1>7. S \in SUBSET IdsOf(t.nodes)
  BY <1>4, <1>5
<1>8. OnCanvas(t, [node |-> id, edge |-> NoId, nodes |-> S])
  BY <1>6, <1>7, Selections
<1>9. PICK c : c = [node |-> id, edge |-> NoId, nodes |-> S]
  OBVIOUS
<1>10. Changing(t, c) /\ OnCanvas(t, c)
  BY <1>1, <1>3, <1>5, <1>8, <1>9 DEF Insert
<1> QED
  BY <1>0, <1>4, <1>10, ChangeFits

LEMMA PasteFits == ASSUME CanvasInv, Fitting, NEW from, IsPart(from), Paste(from) PROVE Fitting'
<1>1. Insert(Inserted(from, ids, 28, 28)) /\ UNCHANGED act /\ UNCHANGED <<files, mods, order>>
  BY DEF Paste, diskVars
<1> QED
  BY <1>1, InsertFits

LEMMA AddBlockFits == ASSUME CanvasInv, Fitting, NEW id, NEW at, AddBlock(id, at) PROVE Fitting'
<1>1. PICK b : b = blocks[id]
  OBVIOUS
<1>2. IsPart(b)
  BY <1>1 DEF AddBlock, CanvasInv, Stored
<1>3. PICK dx, dy : Centred(b, at) = Inserted(b, ids, dx, dy)
  BY DEF Centred
<1>4. Insert(Inserted(b, ids, dx, dy)) /\ UNCHANGED act /\ UNCHANGED <<files, mods, order>>
  BY <1>1, <1>3, ListElsewhere DEF AddBlock
<1> QED
  BY <1>2, <1>4, InsertFits

-----------------------------------------------------------------------------
(* The panel.                                                               *)

LEMMA PlacedGood ==
    ASSUME NEW n, GoodNode(n), NEW m, m = Placed(n)
    PROVE  GoodNode(m) /\ m.id = n.id /\ m.kind = n.kind
<1>1. CASE m = n
  BY <1>1
<1>2. CASE m = [n EXCEPT !.w = 422, !.h = 4 * NodeH]
  <2>1. PICK w, h : m = [n EXCEPT !.w = w, !.h = h]
    BY <1>2
  <2>2. IsNode(n) /\ n = [id |-> n.id, kind |-> n.kind, x |-> n.x, y |-> n.y, w |-> n.w, h |-> n.h, f |-> n.f]
    BY DEF GoodNode, IsNode
  <2>3. m = [id |-> n.id, kind |-> n.kind, x |-> n.x, y |-> n.y, w |-> w, h |-> h, f |-> n.f]
    BY <2>1, <2>2
  <2>4. m.id = n.id /\ m.kind = n.kind /\ m.f = n.f /\ IsNode(m)
    BY <2>3 DEF IsNode
  <2> QED
    BY <2>4 DEF GoodNode, Defaulted
<1> QED
  BY <1>1, <1>2 DEF Placed

LEMMA GoodOne == ASSUME NEW n, GoodNode(n) PROVE GoodNodes(<<n>>) /\ IdsOf(<<n>>) = {n.id}
<1>1. PICK one : one = <<n>>
  OBVIOUS
<1>2. DOMAIN one = {1} /\ one[1] = n /\ ToSet(one) = {n}
  BY <1>1, OneList
<1>3. one \in Seq(ToSet(one))
  BY <1>1, <1>2
<1>4. GoodNodes(one) /\ IdsOf(one) = {n.id}
  BY <1>2, <1>3 DEF GoodNodes, IsList, IdsOf
<1> QED
  BY <1>1, <1>4

\* A node that comes to the canvas is what is selected.
LEMMA AddedOn ==
    ASSUME Proper(sc), NEW n, GoodNode(n), NEW t, t = WithNew(<<n>>)
    PROVE  Proper(t) /\ OnCanvas(t, OnlyNode(n.id))
<1>1. PICK q : q = <<n>>
  OBVIOUS
<1>2. GoodNodes(q) /\ IdsOf(q) = {n.id} /\ t = WithNew(q)
  BY <1>1, GoodOne
<1>3. Proper(t) /\ IdsOf(t.nodes) = NodeIds \cup IdsOf(q)
  BY <1>2, NodesAdded
<1>4. n.id \in IdsOf(t.nodes)
  BY <1>2, <1>3
<1> QED
  BY <1>3, <1>4, Selections

LEMMA AddNodeFits == ASSUME CanvasInv, Fitting, NEW kind0, NEW at, AddNode(kind0, at) PROVE Fitting'
<1>0. Proper(sc) /\ ids \in Nat /\ Scenes
  BY DEF Fitting, Drawings, Listing, CanvasInv
<1>1. PICK x, y : x = at[1] - NodeW \div 2 /\ y = at[2] - NodeH \div 2
  OBVIOUS
<1>2. PICK m, n : m = NewNode(ids + 1, kind0, x, y) /\ n = Placed(m)
  OBVIOUS
<1>3. GoodNode(m)
  BY <1>0, <1>2, GoodNewNode
<1>4. GoodNode(n)
  BY <1>2, <1>3, PlacedGood
<1>5. PICK t : t = WithNew(<<n>>)
  OBVIOUS
<1>6. Proper(t) /\ OnCanvas(t, OnlyNode(n.id))
  BY <1>0, <1>4, <1>5, AddedOn
<1>7. Changing(t, OnlyNode(n.id)) /\ UNCHANGED act /\ UNCHANGED <<files, mods, order>>
  BY <1>1, <1>2, <1>5, ListElsewhere DEF AddNode
<1> QED
  BY <1>0, <1>6, <1>7, ChangeFits

LEMMA BlockFilesFits == ASSUME Fitting, NEW id, SaveSelectionAsBlock \/ DeleteBlock(id) PROVE Fitting'
<1>1. CASE SaveSelectionAsBlock
  <2>1. /\ UNCHANGED <<sc, undoStack, redoStack, snap, sel, act, files, mods, order>>
        /\ ids' = ids + 1 /\ ids \in Nat
    BY <1>1 DEF SaveSelectionAsBlock, history, Fitting, Listing
  <2>2. Listing'
    BY <2>1, SameList DEF Fitting
  <2>3. Drawings' /\ HistoryFits' /\ OnCanvas(sc', sel')
    BY <2>1 DEF Fitting, Drawings, HistoryFits, Pasts
  <2> QED
    BY <2>2, <2>3 DEF Fitting
<1>2. CASE DeleteBlock(id)
  <2>1. UNCHANGED <<sc, history, sel, act, files, mods, order, ids>>
    BY <1>2 DEF DeleteBlock
  <2> QED
    BY <2>1, RestFits
<1> QED
  BY <1>1, <1>2

LEMMA DropFits ==
    ASSUME CanvasInv, Fitting, NEW requests \in Dropped, NEW at, DropCollectionNode(requests, at)
    PROVE  Fitting'
<1>0. Proper(sc) /\ ids \in Nat /\ Scenes /\ IsList(requests) /\ requests # <<>>
  BY EditorAssumption DEF Fitting, Drawings, Listing, CanvasInv, DropCollectionNode
<1>1. PICK x, y : x = at[1] - NodeW \div 2 /\ y = at[2] - NodeH \div 2
  OBVIOUS
<1>2. PICK n, q : /\ n = NodeFromRequest(ids + 1, requests[1], x, y)
                  /\ q = (IF Len(requests) = 1 THEN <<n>> ELSE InColumns(requests, at))
  OBVIOUS
<1>3. GoodNodes(q) /\ q # <<>>
  <2>1. CASE Len(requests) = 1
    <3>1. GoodNode(n)
      BY <1>0, <1>2, RequestMade
    <3> QED
      BY <1>2, <2>1, <3>1, GoodOne
  <2>2. CASE Len(requests) # 1
    <3>1. q = InColumns(requests, at)
      BY <1>2, <2>2
    <3>2. GoodNodes(q) /\ DOMAIN q = DOMAIN requests
      BY <1>0, <3>1, ColumnsMade
    <3>3. DOMAIN requests # {} 
      <4>1. requests \in Seq(ToSet(requests)) /\ DOMAIN requests = 1..Len(requests) /\ Len(requests) \in Nat
        BY <1>0, ListFacts
      <4> QED
        BY <1>0, <4>1
    <3> QED
      BY <3>2, <3>3
  <2> QED
    BY <2>1, <2>2
<1>4. PICK t : t = WithNew(q)
  OBVIOUS
<1>5. Proper(t) /\ IdsOf(t.nodes) = NodeIds \cup IdsOf(q)
  BY <1>0, <1>3, <1>4, NodesAdded
<1>6. PICK last, id, S : last = Last(q) /\ id = last.id /\ S = IdsOf(q)
  OBVIOUS
<1>7. id \in S
  <2>1. IsList(q) /\ q \in Seq(ToSet(q)) /\ DOMAIN q = 1..Len(q) /\ Len(q) \in Nat
    BY <1>3, ListFacts DEF GoodNodes
  <2>2. PICK k \in Nat : k = Len(q)
    BY <2>1
  <2>3. k # 0
    BY <1>3, <2>1, <2>2
  <2>4. k \in DOMAIN q /\ last = q[k]
    BY <1>6, <2>1, <2>2, <2>3 DEF Last
  <2> QED
    BY <1>6, <2>4 DEF IdsOf
<1>8. PICK c : c = [node |-> id, edge |-> NoId, nodes |-> S]
  OBVIOUS
<1>9. OnCanvas(t, c)
  <2>1. id \in IdsOf(t.nodes) \cup {NoId} /\ S \in SUBSET IdsOf(t.nodes)
    BY <1>5, <1>6, <1>7
  <2>2. OnCanvas(t, [node |-> id, edge |-> NoId, nodes |-> S])
    BY <2>1, Selections
  <2> QED
    BY <1>8, <2>2
<1>10. Changing(t, c) /\ UNCHANGED act /\ UNCHANGED <<files, mods, order>>
  BY <1>1, <1>2, <1>4, <1>6, <1>8, ListElsewhere DEF DropCollectionNode
<1> QED
  BY <1>0, <1>5, <1>9, <1>10, ChangeFits

\* What is typed or picked leaves the members that have a default in their place.
LEMMA FieldDomain ==
    ASSUME NEW f, NEW key, NEW text, NEW g, g = WithField(f, key, text)
    PROVE  DOMAIN f \ {key} \subseteq DOMAIN g /\ (text # "" => DOMAIN f \subseteq DOMAIN g)
           /\ \A k \in DOMAIN g : k # key => k \in DOMAIN f /\ g[k] = f[k]
<1>1. CASE text = ""
  <2>1. g = Only(f, DOMAIN f \ {key})
    BY <1>1 DEF WithField
  <2>2. DOMAIN g = DOMAIN f \cap (DOMAIN f \ {key}) /\ \A k \in DOMAIN f \cap (DOMAIN f \ {key}) : g[k] = f[k]
    <3>1. PICK S : S = DOMAIN f \ {key}
      OBVIOUS
    <3>2. g = Only(f, S)
      BY <2>1, <3>1
    <3>3. DOMAIN g = DOMAIN f \cap S /\ \A k \in DOMAIN f \cap S : g[k] = f[k]
      BY <3>2 DEF Only
    <3> QED
      BY <3>1, <3>3
  <2> QED
    BY <1>1, <2>2
<1>2. CASE text # ""
  <2>1. g = [k \in DOMAIN f \cup {key} |-> IF k = key THEN text ELSE f[k]]
    BY <1>2 DEF WithField, Put
  <2> QED
    BY <2>1
<1> QED
  BY <1>1, <1>2

Lasting == KeptDefaults \ {"wait_ms"}

LEMMA FieldNode ==
    ASSUME NEW n, GoodNode(n), NEW key, NEW text, text # "" \/ key \notin Lasting,
           NEW g, g = WithField(n.f, key, text),
           NEW m, m = [id |-> n.id, kind |-> n.kind, x |-> n.x, y |-> n.y, w |-> n.w, h |-> n.h, f |-> g]
    PROVE  GoodNode(m) /\ m.id = n.id /\ m.kind = n.kind
<1>1. PICK f : f = n.f /\ g = WithField(f, key, text)
  OBVIOUS
<1>5. m.id = n.id /\ m.kind = n.kind /\ m.f = g
  OBVIOUS
<1>6. IsNode(m)
  BY DEF IsNode
<1>7. DOMAIN f \ {key} \subseteq DOMAIN g /\ (text # "" => DOMAIN f \subseteq DOMAIN g)
  BY <1>1, FieldDomain
<1>8. PICK S : S = Lasting \cap DOMAIN DefaultFields(n.kind)
  OBVIOUS
<1>9. S \subseteq DOMAIN f /\ (key \in S => key \in Lasting)
  <2>1. Lasting \cap DOMAIN DefaultFields(n.kind) \subseteq DOMAIN n.f
    BY DEF GoodNode, Defaulted, Lasting
  <2> QED
    BY <1>1, <1>8, <2>1, Zenon
<1>10. S \subseteq DOMAIN g
  <2>1. CASE text # ""
    BY <1>7, <1>9, <2>1, Zenon
  <2>2. CASE key \notin Lasting
    BY <1>7, <1>9, <2>2, Zenon
  <2> QED
    BY <2>1, <2>2, Zenon
<1>11. Defaulted(m)
  BY <1>5, <1>8, <1>10, Zenon DEF Defaulted, Lasting
<1> QED
  BY <1>5, <1>6, <1>11 DEF GoodNode

\* A field of a node of the canvas.
LEMMA NodeTyped ==
    ASSUME Proper(sc), OnCanvas(sc, sel), NEW id \in IdsOf(sc.nodes), NEW m, GoodNode(m), m.id = id,
           m.kind = ById(sc.nodes, id).kind, NEW t, t = WithNode(sc, id, m)
    PROVE  Proper(t) /\ t.id = sc.id /\ Derived(t, sc) /\ OnCanvas(t, sel)
<1>1. Proper(t) /\ t.id = sc.id /\ Derived(t, sc) /\ IdsOf(t.nodes) = IdsOf(sc.nodes) /\ t.edges = sc.edges
  BY NodeChanged
<1> QED
  BY <1>1, OnMore

LEMMA FieldOn ==
    ASSUME Proper(sc), OnCanvas(sc, sel), sel.node \in NodeIds, NEW key, NEW text,
           text # "" \/ key \notin Lasting, NEW t, t = WithNodeField(sel.node, key, text)
    PROVE  Proper(t) /\ t.id = sc.id /\ Derived(t, sc) /\ OnCanvas(t, sel)
<1>1. PICK id, n, m : id = sel.node /\ n = NodeOf(id) /\ m = [n EXCEPT !.f = WithField(@, key, text)]
  OBVIOUS
<1>2. t = WithNode(sc, id, m) /\ id \in IdsOf(sc.nodes)
  BY <1>1 DEF WithNodeField, NodeIds
<1>3. GoodNode(n) /\ n.id = id /\ n = ById(sc.nodes, id)
  BY <1>1, NodeFound DEF NodeOf
<1>4. GoodNode(m) /\ m.id = id /\ m.kind = ById(sc.nodes, id).kind
  <2>1. PICK g : g = WithField(n.f, key, text)
    OBVIOUS
  <2>2. n = [id |-> n.id, kind |-> n.kind, x |-> n.x, y |-> n.y, w |-> n.w, h |-> n.h, f |-> n.f]
    BY <1>3 DEF GoodNode, IsNode
  <2>3. m = [n EXCEPT !.f = g]
    BY <1>1, <2>1, Zenon
  <2>4. m = [id |-> n.id, kind |-> n.kind, x |-> n.x, y |-> n.y, w |-> n.w, h |-> n.h, f |-> g]
    BY <2>2, <2>3
  <2>5. GoodNode(m) /\ m.id = n.id /\ m.kind = n.kind
    BY <1>3, <2>1, <2>4, FieldNode
  <2> QED
    BY <1>3, <2>5, Zenon
<1> QED
  BY <1>2, <1>4, NodeTyped, Zenon

LEMMA TypedKeys == ASSUME NEW kind0, NEW key \in TextKeys(kind0) PROVE key \notin Lasting
  BY DEF TextKeys, KeptDefaults, Lasting

\* The canvas changes without the history.
LEMMA QuietFits ==
    ASSUME Fitting, NEW t, Proper(t), OnCanvas(t, sel), sc' = t, UNCHANGED <<history, sel, act, ids>>, Elsewhere
    PROVE  Fitting'
<1>1. Proper(sc') /\ OnCanvas(sc', sel') /\ UNCHANGED <<undoStack, redoStack, snap, act, ids, files, mods, order>>
  BY ListElsewhere DEF history
<1>2. \A e \in ToSet(act'.edge) : GoodEdge(e)
  BY <1>1 DEF Fitting, Drawings
<1>3. Listing'
  BY <1>1, SameIds
<1> QED
  BY <1>1, <1>2, <1>3, CalmFits

LEMMA TypeOnNodeFits ==
    ASSUME CanvasInv, Fitting, NEW key, NEW text, TypeOnNode(key, text)
    PROVE  Fitting' /\ Derived(sc', sc) /\ sc'.id = sc.id
<1>1. PICK t : t = WithNodeField(sel.node, key, text)
  OBVIOUS
<1>2. key \notin Lasting
  BY TypedKeys DEF TypeOnNode
<1>3. Proper(t) /\ OnCanvas(t, sel) /\ Derived(t, sc) /\ t.id = sc.id
  BY <1>1, <1>2, FieldOn DEF TypeOnNode, Fitting, Drawings
<1>4. sc' = t /\ UNCHANGED <<history, sel, act, ids>> /\ Elsewhere
  BY <1>1 DEF TypeOnNode
<1> QED
  BY <1>3, <1>4, QuietFits

LEMMA PickOnNodeFits ==
    ASSUME CanvasInv, Fitting, NEW key \in DOMAIN NodeChips, NEW text \in NodeChips[key], PickOnNode(key, text)
    PROVE  Fitting' /\ Derived(sc', sc)
<1>1. PICK t : t = WithNodeField(sel.node, key, text)
  OBVIOUS
<1>2. text # "" \/ key \notin Lasting
  BY EditorAssumption DEF Lasting
<1>3. Proper(t) /\ OnCanvas(t, sel) /\ Derived(t, sc)
  BY <1>1, <1>2, FieldOn DEF PickOnNode, Fitting, Drawings
<1>4. Changing(t, sel) /\ UNCHANGED act /\ UNCHANGED <<files, mods, order>> /\ Scenes
  BY <1>1, ListElsewhere DEF PickOnNode, CanvasInv
<1> QED
  BY <1>3, <1>4, ChangeFits DEF Changing

LEMMA DeleteOnPanelFits ==
    ASSUME CanvasInv, Fitting, DeleteOnPanel
    PROVE  Fitting' /\ Derived(sc', sc)
<1>0. Proper(sc) /\ OnCanvas(sc, sel) /\ Scenes /\ UNCHANGED act /\ UNCHANGED <<files, mods, order>>
  BY ListElsewhere DEF DeleteOnPanel, Fitting, Drawings, CanvasInv
<1>1. CASE \E chosen : Changing(RemoveNodes(sc, chosen), NoSelection)
  <2>1. PICK chosen, t : t = RemoveNodes(sc, chosen) /\ Changing(t, NoSelection)
    BY <1>1
  <2>2. Proper(t) /\ OnCanvas(t, NoSelection) /\ Derived(t, sc)
    BY <1>0, <2>1, NodesRemoved, Selections
  <2> QED
    BY <1>0, <2>1, <2>2, ChangeFits DEF Changing
<1>2. CASE Changing(RemoveEdge(sc, sel.edge), [sel EXCEPT !.edge = NoId])
  <2>1. PICK t, c : t = RemoveEdge(sc, sel.edge) /\ c = [sel EXCEPT !.edge = NoId]
    OBVIOUS
  <2>2. Proper(t) /\ t.nodes = sc.nodes /\ Derived(t, sc)
    BY <1>0, <2>1, EdgeRemoved
  <2>3. c = [node |-> sel.node, edge |-> NoId, nodes |-> sel.nodes]
    BY <1>0, <2>1 DEF OnCanvas
  <2>4. OnCanvas(t, c)
    <3>1. c.node = sel.node /\ c.edge = NoId /\ c.nodes = sel.nodes
      BY <2>3
    <3> QED
      BY <1>0, <2>2, <2>3, <3>1 DEF OnCanvas
  <2>5. Changing(t, c)
    BY <1>2, <2>1
  <2> QED
    BY <1>0, <2>2, <2>4, <2>5, ChangeFits DEF Changing
<1> QED
  BY <1>1, <1>2 DEF DeleteOnPanel

\* The arrow that is selected, with something else in it.
LEMMA ChosenOn ==
    ASSUME Proper(sc), OnCanvas(sc, sel), EdgeChosen, NEW o, GoodEdge(o), o.id = ChosenEdge.id,
           o.from = ChosenEdge.from, o.to = ChosenEdge.to, NEW t, t = WithEdge(sc, sel.edge, o)
    PROVE  Proper(t) /\ t.id = sc.id /\ Derived(t, sc) /\ OnCanvas(t, sel)
<1>1. PICK id : id = sel.edge
  OBVIOUS
<1>2. id \in IdsOf(sc.edges) /\ t = WithEdge(sc, id, o)
  BY <1>1 DEF EdgeChosen
<1>3. ChosenEdge = ById(sc.edges, id) /\ ChosenEdge.id = id
  BY <1>1, <1>2, EdgeFound DEF ChosenEdge
<1>4. Proper(t) /\ t.id = sc.id /\ Derived(t, sc) /\ IdsOf(t.edges) = IdsOf(sc.edges) /\ t.nodes = sc.nodes
  BY <1>2, <1>3, EdgeChanged
<1> QED
  BY <1>4, OnMore

LEMMA EdgeEdited ==
    ASSUME NEW e, GoodEdge(e), NEW x, NEW o, o = [e EXCEPT !.cond = x] \/ (o = [e EXCEPT !.f = x] /\ "op" \in DOMAIN x)
    PROVE  GoodEdge(o) /\ o.id = e.id /\ o.from = e.from /\ o.to = e.to
<1>1. e = [id |-> e.id, from |-> e.from, to |-> e.to, cond |-> e.cond, f |-> e.f] /\ IsEdge(e)
  BY DEF GoodEdge, IsEdge
<1>2. CASE o = [e EXCEPT !.cond = x]
  <2>1. o = [id |-> e.id, from |-> e.from, to |-> e.to, cond |-> x, f |-> e.f]
    BY <1>1, <1>2
  <2>2. o.id = e.id /\ o.from = e.from /\ o.to = e.to /\ o.f = e.f /\ IsEdge(o)
    BY <2>1 DEF IsEdge
  <2> QED
    BY <2>2 DEF GoodEdge
<1>3. CASE o = [e EXCEPT !.f = x] /\ "op" \in DOMAIN x
  <2>1. o = [id |-> e.id, from |-> e.from, to |-> e.to, cond |-> e.cond, f |-> x]
    BY <1>1, <1>3
  <2>2. o.id = e.id /\ o.from = e.from /\ o.to = e.to /\ o.f = x /\ IsEdge(o)
    BY <2>1 DEF IsEdge
  <2> QED
    BY <1>3, <2>2 DEF GoodEdge
<1> QED
  BY <1>2, <1>3

LEMMA ChosenGood == ASSUME Proper(sc), EdgeChosen PROVE GoodEdge(ChosenEdge)
  BY EdgeFound DEF EdgeChosen, ChosenEdge

LEMMA PickCondFits ==
    ASSUME CanvasInv, Fitting, NEW cond, PickCond(cond)
    PROVE  Fitting' /\ Derived(sc', sc)
<1>0. Proper(sc) /\ OnCanvas(sc, sel) /\ Scenes /\ EdgeChosen
  BY DEF PickCond, Fitting, Drawings, CanvasInv
<1>1. PICK e, o, t : e = ChosenEdge /\ o = [e EXCEPT !.cond = cond] /\ t = WithEdge(sc, sel.edge, o)
  OBVIOUS
<1>2. GoodEdge(o) /\ o.id = e.id /\ o.from = e.from /\ o.to = e.to
  BY <1>0, <1>1, ChosenGood, EdgeEdited
<1>3. Proper(t) /\ OnCanvas(t, sel) /\ Derived(t, sc)
  BY <1>0, <1>1, <1>2, ChosenOn
<1>4. Changing(t, sel) /\ UNCHANGED act /\ UNCHANGED <<files, mods, order>>
  BY <1>1, ListElsewhere DEF PickCond
<1> QED
  BY <1>0, <1>3, <1>4, ChangeFits DEF Changing

\* The operator of an arrow stays there.
LEMMA OperatorField ==
    ASSUME NEW f, NEW key, NEW text, text # "" \/ key # "op", "op" \in DOMAIN f, NEW g, g = WithField(f, key, text)
    PROVE  "op" \in DOMAIN g
<1>1. PICK k : k = "op"
  OBVIOUS
<1>2. DOMAIN f \ {key} \subseteq DOMAIN g /\ (text # "" => DOMAIN f \subseteq DOMAIN g)
  BY FieldDomain
<1> QED
  BY <1>1, <1>2, Zenon

LEMMA OperatorKept ==
    ASSUME NEW e, GoodEdge(e), NEW key, NEW text, text # "" \/ key # "op", NEW g, g = WithField(e.f, key, text),
           NEW o, o = [id |-> e.id, from |-> e.from, to |-> e.to, cond |-> e.cond, f |-> g]
    PROVE  GoodEdge(o) /\ o.id = e.id /\ o.from = e.from /\ o.to = e.to
<1>1. PICK f : f = e.f
  OBVIOUS
<1>2. "op" \in DOMAIN f
  BY <1>1, Zenon DEF GoodEdge
<1>3. "op" \in DOMAIN g
  BY <1>1, <1>2, OperatorField, Zenon
<1>4. o.id = e.id /\ o.from = e.from /\ o.to = e.to /\ o.f = g /\ IsEdge(o)
  BY DEF IsEdge
<1>5. e.id \in Nat
  BY DEF GoodEdge
<1> QED
  BY <1>3, <1>4, <1>5, Zenon DEF GoodEdge

LEMMA PickOpFits ==
    ASSUME CanvasInv, Fitting, NEW op \in EdgeOps, PickOp(op)
    PROVE  Fitting' /\ Derived(sc', sc)
<1>0. Proper(sc) /\ OnCanvas(sc, sel) /\ Scenes /\ EdgeChosen /\ op # ""
  BY EditorAssumption DEF PickOp, Fitting, Drawings, CanvasInv
<1>1. PICK e, o, t : e = ChosenEdge /\ o = [e EXCEPT !.f = WithField(@, "op", op)] /\ t = WithEdge(sc, sel.edge, o)
  OBVIOUS
<1>2. GoodEdge(o) /\ o.id = e.id /\ o.from = e.from /\ o.to = e.to
  <2>1. GoodEdge(e)
    BY <1>0, <1>1, ChosenGood, Zenon
  <2>2. e = [id |-> e.id, from |-> e.from, to |-> e.to, cond |-> e.cond, f |-> e.f]
    BY <2>1 DEF GoodEdge, IsEdge
  <2>7. PICK key0, text0 : key0 = "op" /\ text0 = op
    OBVIOUS
  <2>3. key0 = "op" /\ text0 = op /\ (text0 # "" \/ key0 # "op")
    BY <1>0, <2>7, Zenon
  <2>4. PICK g : g = WithField(e.f, key0, text0)
    OBVIOUS
  <2>5. o = [e EXCEPT !.f = g]
    BY <1>1, <2>3, <2>4, Zenon
  <2>6. o = [id |-> e.id, from |-> e.from, to |-> e.to, cond |-> e.cond, f |-> g]
    BY <2>2, <2>5
  <2> QED
    BY <2>1, <2>3, <2>4, <2>6, OperatorKept
<1>3. Proper(t) /\ OnCanvas(t, sel) /\ Derived(t, sc)
  BY <1>0, <1>1, <1>2, ChosenOn
<1>4. Changing(t, sel) /\ UNCHANGED act /\ UNCHANGED <<files, mods, order>>
  BY <1>1, ListElsewhere DEF PickOp
<1> QED
  BY <1>0, <1>3, <1>4, ChangeFits DEF Changing

LEMMA TypeOnEdgeFits ==
    ASSUME CanvasInv, Fitting, NEW key \in DOMAIN EdgeTexts, NEW text, TypeOnEdge(key, text)
    PROVE  Fitting' /\ Derived(sc', sc) /\ sc'.id = sc.id
<1>0. Proper(sc) /\ OnCanvas(sc, sel) /\ EdgeChosen /\ key # "op"
  BY EditorAssumption DEF TypeOnEdge, Fitting, Drawings
<1>1. PICK e, o, t : e = ChosenEdge /\ o = [e EXCEPT !.f = WithField(@, key, text)] /\ t = WithEdge(sc, sel.edge, o)
  OBVIOUS
<1>2. GoodEdge(o) /\ o.id = e.id /\ o.from = e.from /\ o.to = e.to
  <2>1. GoodEdge(e)
    BY <1>0, <1>1, ChosenGood, Zenon
  <2>2. e = [id |-> e.id, from |-> e.from, to |-> e.to, cond |-> e.cond, f |-> e.f]
    BY <2>1 DEF GoodEdge, IsEdge
  <2>7. PICK key0, text0 : key0 = key /\ text0 = text
    OBVIOUS
  <2>3. key0 = key /\ text0 = text /\ (text0 # "" \/ key0 # "op")
    BY <1>0, <2>7, Zenon
  <2>4. PICK g : g = WithField(e.f, key0, text0)
    OBVIOUS
  <2>5. o = [e EXCEPT !.f = g]
    BY <1>1, <2>3, <2>4, Zenon
  <2>6. o = [id |-> e.id, from |-> e.from, to |-> e.to, cond |-> e.cond, f |-> g]
    BY <2>2, <2>5
  <2> QED
    BY <2>1, <2>3, <2>4, <2>6, OperatorKept
<1>3. Proper(t) /\ OnCanvas(t, sel) /\ Derived(t, sc) /\ t.id = sc.id
  BY <1>0, <1>1, <1>2, ChosenOn
<1>4. sc' = t /\ UNCHANGED <<history, sel, act, ids>> /\ Elsewhere
  BY <1>1 DEF TypeOnEdge
<1> QED
  BY <1>3, <1>4, QuietFits

LEMMA TypeNameFits ==
    ASSUME CanvasInv, Fitting, NEW name, TypeName(name)
    PROVE  Fitting' /\ Derived(sc', sc) /\ sc'.id = sc.id
<1>1. PICK t : t = [sc EXCEPT !.name = name]
  OBVIOUS
<1>2. Proper(t) /\ t.id = sc.id /\ t.nodes = sc.nodes /\ t.edges = sc.edges
  BY <1>1, LabelsChanged DEF Fitting, Drawings
<1>3. OnCanvas(t, sel)
  BY <1>2, OnMore DEF Fitting
<1>4. sc' = t /\ UNCHANGED <<history, sel, act, ids>> /\ Elsewhere
  BY <1>1 DEF TypeName
<1> QED
  BY <1>2, <1>3, <1>4, QuietFits, DerivedSame

-----------------------------------------------------------------------------
(* Undo and redo.                                                           *)

LEMMA PrunedFits == ASSUME NEW s, NEW c PROVE OnCanvas(s, Pruned(s, c))
<1>1. PICK n, e, S : /\ n = (IF c.node \in IdsOf(s.nodes) THEN c.node ELSE NoId)
                     /\ e = (IF c.edge \in IdsOf(s.edges) THEN c.edge ELSE NoId)
                     /\ S = c.nodes \cap IdsOf(s.nodes)
  OBVIOUS
<1>2. Pruned(s, c) = [node |-> n, edge |-> e, nodes |-> S]
  BY <1>1 DEF Pruned
<1>3. PICK p : p = [node |-> n, edge |-> e, nodes |-> S]
  OBVIOUS
<1>4. p.node = n /\ p.edge = e /\ p.nodes = S
  BY <1>3
<1>5. OnCanvas(s, p)
  BY <1>1, <1>3, <1>4 DEF OnCanvas
<1> QED
  BY <1>2, <1>3, <1>5

\* A list without its end.
LEMMA ListCut ==
    ASSUME NEW q, IsList(q), NEW n \in 0..Len(q)
    PROVE  ToSet(SubSeq(q, 1, n)) \subseteq ToSet(q) /\ Len(SubSeq(q, 1, n)) = n
<1>1. q \in Seq(ToSet(q)) /\ DOMAIN q = 1..Len(q)
  BY ListFacts
<1>2. PICK m \in Nat : m = Len(q)
  BY ListFacts
<1>3. PICK r : r = SubSeq(q, 1, n)
  OBVIOUS
<1>4. Len(r) = n /\ DOMAIN r = 1..n /\ \A i \in 1..n : r[i] = q[i]
  BY <1>1, <1>2, <1>3
<1>5. ToSet(r) \subseteq ToSet(q)
  BY <1>1, <1>2, <1>4 DEF ToSet
<1> QED
  BY <1>3, <1>4, <1>5

LEMMA RestoredFits ==
    ASSUME Fitting, NEW canvas, Proper(canvas), Restore(canvas), HistoryFits',
           \A s \in ToSet(undoStack') \cup ToSet(redoStack') : Proper(s),
           UNCHANGED <<snap, act, ids, files, mods, order>>
    PROVE  Fitting'
<1>1. Proper(sc') /\ OnCanvas(sc', sel')
  <2>1. ids \in Nat
    BY DEF Fitting, Listing
  <2>2. Proper(sc')
    BY <2>1, ProperNumbered, ProperRead DEF Restore
  <2> QED
    BY <2>2, PrunedFits DEF Restore
<1>2. Drawings'
  BY <1>1 DEF Fitting, Drawings, Pasts
<1>3. Listing'
  BY SameIds
<1> QED
  BY <1>1, <1>2, <1>3 DEF Fitting

LEMMA UndoFits ==
    ASSUME CanvasInv, Fitting, Undo
    PROVE  /\ Fitting' /\ (UNCHANGED sc \/ \E c \in Pasts : Restore(c))
           /\ \A s \in Pasts' : s \in Pasts \cup {Encode(sc)}
<1>0. /\ IsList(undoStack) /\ IsList(redoStack) /\ Proper(sc) /\ Proper(Encode(sc))
      /\ UNCHANGED <<snap, act, ids, files, mods, order>>
  BY EncodedProper DEF CanvasInv, Scenes, Canvases, Fitting, Drawings, Undo, diskVars
<1>1. PICK m \in Nat, k \in Nat : m = Len(undoStack) /\ k = Len(redoStack)
  BY <1>0, ListFacts
<1>2. m + k <= HistoryLimit /\ HistoryLimit \in Nat
  BY <1>1, EditorAssumption DEF Fitting, HistoryFits
<1>3. PICK step : step = UndoStep(undoStack)
  OBVIOUS
<1>4. CASE step = 0
  <2>1. undoStack' = <<>> /\ UNCHANGED <<redoStack, sc, sel>>
    BY <1>3, <1>4 DEF Undo
  <2>2. ToSet(undoStack') = {} /\ Len(undoStack') = 0
    BY <2>1, EmptyList
  <2>3. Drawings' /\ OnCanvas(sc', sel')
    BY <1>0, <2>1, <2>2 DEF Fitting, Drawings, Pasts
  <2>4. Len(undoStack') + Len(redoStack') <= HistoryLimit
    BY <1>1, <1>2, <2>1, <2>2
  <2>5. Listing'
    BY <1>0, SameIds
  <2>6. \A s \in Pasts' : s \in Pasts
    BY <1>0, <2>1, <2>2 DEF Pasts
  <2> QED
    BY <2>1, <2>3, <2>4, <2>5, <2>6 DEF Fitting, HistoryFits
<1>5. CASE step # 0
  <2>1. PICK other : other = {i \in DOMAIN undoStack : undoStack[i] # Encode(sc)}
    OBVIOUS
  <2>2. other # {} /\ step = Max(other)
    BY <1>3, <1>5, <2>1 DEF UndoStep
  <2>3. DOMAIN undoStack = 1..m
    BY <1>0, <1>1, ListFacts
  <2>4. step \in DOMAIN undoStack
    BY <2>1, <2>2, <2>3, MaxFound
  <2>5. PICK c : c = undoStack[step]
    OBVIOUS
  <2>6. c \in ToSet(undoStack) /\ Proper(c)
    BY <2>4, <2>5 DEF ToSet, Fitting, Drawings, Pasts
  <2>7. /\ undoStack' = SubSeq(undoStack, 1, step - 1)
        /\ redoStack' = Append(redoStack, Encode(sc))
        /\ Restore(c)
    BY <1>3, <1>5, <2>5 DEF Undo
  <2>8. PICK l : l = step - 1 /\ l \in 0..m
    BY <2>3, <2>4
  <2>9. ToSet(undoStack') \subseteq ToSet(undoStack) /\ Len(undoStack') = l
    BY <1>0, <1>1, <2>7, <2>8, ListCut
  <2>10. ToSet(redoStack') = ToSet(redoStack) \cup {Encode(sc)} /\ Len(redoStack') = k + 1
    BY <1>0, <1>1, <2>7, AppendList
  <2>11. l + (k + 1) <= HistoryLimit
    BY <1>1, <1>2, <2>3, <2>4, <2>8
  <2>12. HistoryFits'
    BY <2>9, <2>10, <2>11 DEF HistoryFits
  <2>13. \A s \in ToSet(undoStack') \cup ToSet(redoStack') : Proper(s)
    BY <1>0, <2>9, <2>10 DEF Fitting, Drawings, Pasts
  <2>14. \A s \in Pasts' : s \in Pasts \cup {Encode(sc)}
    BY <1>0, <2>9, <2>10 DEF Pasts
  <2>15. c \in Pasts
    BY <2>6 DEF Pasts
  <2>16. Fitting'
    BY <1>0, <2>6, <2>7, <2>12, <2>13, RestoredFits
  <2> QED
    BY <2>7, <2>14, <2>15, <2>16
<1> QED
  BY <1>4, <1>5

LEMMA RedoFits ==
    ASSUME CanvasInv, Fitting, Redo
    PROVE  /\ Fitting' /\ (UNCHANGED sc \/ \E c \in Pasts : Restore(c))
           /\ \A s \in Pasts' : s \in Pasts \cup {Encode(sc)}
<1>0. /\ IsList(undoStack) /\ IsList(redoStack) /\ Proper(sc) /\ Proper(Encode(sc)) /\ redoStack # <<>>
      /\ UNCHANGED <<snap, act, ids, files, mods, order>>
  BY EncodedProper DEF CanvasInv, Scenes, Canvases, Fitting, Drawings, Redo, diskVars
<1>1. PICK m \in Nat, k \in Nat : m = Len(undoStack) /\ k = Len(redoStack)
  BY <1>0, ListFacts
<1>2. m + k <= HistoryLimit /\ HistoryLimit \in Nat
  BY <1>1, EditorAssumption DEF Fitting, HistoryFits
<1>3. k # 0 /\ DOMAIN redoStack = 1..k /\ redoStack \in Seq(ToSet(redoStack))
  BY <1>0, <1>1, ListFacts
<1>4. PICK c : c = Last(redoStack)
  OBVIOUS
<1>5. c \in ToSet(redoStack) /\ Proper(c)
  <2>1. c = redoStack[k] /\ k \in DOMAIN redoStack
    BY <1>1, <1>3, <1>4 DEF Last
  <2> QED
    BY <2>1 DEF ToSet, Fitting, Drawings, Pasts
<1>6. PICK l : l = k - 1 /\ l \in 0..k
  BY <1>1, <1>3
<1>7. /\ redoStack' = SubSeq(redoStack, 1, l)
      /\ undoStack' = Append(undoStack, Encode(sc)) /\ Restore(c)
  BY <1>1, <1>4, <1>6 DEF Redo
<1>8. ToSet(redoStack') \subseteq ToSet(redoStack) /\ Len(redoStack') = l
  BY <1>0, <1>1, <1>6, <1>7, ListCut
<1>9. ToSet(undoStack') = ToSet(undoStack) \cup {Encode(sc)} /\ Len(undoStack') = m + 1
  BY <1>0, <1>1, <1>7, AppendList
<1>10. m + 1 + l <= HistoryLimit
  BY <1>1, <1>2, <1>6
<1>11. HistoryFits'
  BY <1>8, <1>9, <1>10 DEF HistoryFits
<1>12. \A s \in ToSet(undoStack') \cup ToSet(redoStack') : Proper(s)
  BY <1>0, <1>8, <1>9 DEF Fitting, Drawings, Pasts
<1>13. \A s \in Pasts' : s \in Pasts \cup {Encode(sc)}
  BY <1>0, <1>8, <1>9 DEF Pasts
<1>14. c \in Pasts
  BY <1>5 DEF Pasts
<1>15. Fitting'
  BY <1>0, <1>5, <1>7, <1>11, <1>12, RestoredFits
<1> QED
  BY <1>7, <1>13, <1>14, <1>15

-----------------------------------------------------------------------------
(* Saving.                                                                  *)

LEMMA SavingFits == ASSUME CanvasInv, Fitting, SaveScenario \/ Autosave PROVE Fitting'
<1>0. Proper(sc) /\ OnCanvas(sc, sel)
  BY DEF Fitting, Drawings
<1>1. sc' = Synced(sc) /\ Write(sc') /\ UNCHANGED <<undoStack, redoStack, snap, sel, act, ids>>
  BY DEF SaveScenario, Autosave, history
<1>2. Proper(sc') /\ sc'.nodes = sc.nodes /\ sc'.edges = sc.edges
  BY <1>0, <1>1, ProperEncoded
<1>3. OnCanvas(sc', sel')
  BY <1>0, <1>1, <1>2, OnMore
<1>4. \A e \in ToSet(act'.edge) : GoodEdge(e)
  BY <1>1 DEF Fitting, Drawings
<1>5. PICK s : s = sc'
  OBVIOUS
<1>6. IsScene(s) /\ IsNumbered(s) /\ s.id # NoId /\ Write(s)
  BY <1>1, <1>2, <1>5, ProperNumbered
<1>7. ids' \in Nat /\ ids' >= ids /\ Listing
  BY <1>1 DEF Fitting, Listing
<1>8. Listing'
  BY <1>6, <1>7, WriteLists
<1> QED
  BY <1>1, <1>2, <1>3, <1>4, <1>8, CalmFits

LEMMA LookFits == ASSUME Fitting, NEW v, FirstFrame \/ ShowView(v) PROVE Fitting'
<1>1. UNCHANGED <<sc, history, sel, act, files, mods, order, ids>>
  BY DEF FirstFrame, ShowView, diskVars
<1> QED
  BY <1>1, RestFits

LEMMA AddRequestFits == ASSUME CanvasInv, Fitting, NEW r, NEW at, AddRequestNode(r, at) PROVE Fitting'
<1>0. Proper(sc) /\ ids \in Nat /\ Scenes /\ Listing
  BY DEF Fitting, Drawings, Listing, CanvasInv
<1>1. PICK x, y : x = at[1] - NodeW \div 2 /\ y = at[2] - NodeH \div 2
  OBVIOUS
<1>2. PICK n : n = NodeFromRequest(ids + 1, r, x, y)
  OBVIOUS
<1>3. GoodNode(n)
  BY <1>0, <1>2, RequestMade
<1>4. PICK t, c : t = WithNew(<<n>>) /\ c = OnlyNode(n.id)
  OBVIOUS
<1>5. Proper(t) /\ OnCanvas(t, c)
  BY <1>0, <1>3, <1>4, AddedOn
<1>6. Changing(t, c) /\ UNCHANGED act /\ Write(sc')
  BY <1>1, <1>2, <1>4 DEF AddRequestNode
<1>7. Drawings' /\ HistoryFits' /\ OnCanvas(sc', sel') /\ ids' \in Nat /\ ids' >= ids
  BY <1>0, <1>5, <1>6, ChangedFits
<1>8. IsScene(t) /\ IsNumbered(t) /\ t.id # NoId
  BY <1>5, ProperNumbered
<1>9. Write(t)
  BY <1>6 DEF Changing
<1>10. Listing'
  BY <1>0, <1>7, <1>8, <1>9, WriteLists
<1> QED
  BY <1>7, <1>10 DEF Fitting

-----------------------------------------------------------------------------
(* The list of scenarios.                                                   *)

LEMMA ListIs ==
    ASSUME Listing
    PROVE  /\ Distinct(ListScenarios) /\ DOMAIN files \subseteq ToSet(ListScenarios)
           /\ ToSet(ListScenarios) \subseteq DOMAIN files \cup ToSet(OrderNow)
           /\ \A x \in ToSet(ListScenarios) \cup ToSet(OrderNow) : x \in Int /\ x >= -ids
<1>1. PICK S, ranked : /\ S = {id \in ToSet(OrderNow) : IsSeparatorID(id) \/ id \in DOMAIN files}
                       /\ ranked = Selected(OrderNow, S)
  OBVIOUS
<1>2. Distinct(ranked) /\ ToSet(ranked) = ToSet(OrderNow) \cap S
  BY <1>1, DistinctSelected DEF Listing
<1>3. PICK R, fresh : R = DOMAIN files \ ToSet(ranked) /\ fresh = Selected(mods, R)
  OBVIOUS
<1>4. Distinct(fresh) /\ ToSet(fresh) = ToSet(mods) \cap R
  BY <1>3, DistinctSelected DEF Listing
<1>5. Distinct(Reverse(fresh)) /\ ToSet(Reverse(fresh)) = ToSet(fresh)
  BY <1>4, DistinctReverse
<1>6. ToSet(fresh) = R
  BY <1>3, <1>4 DEF Listing
<1>7. ToSet(Reverse(fresh)) \cap ToSet(ranked) = {}
  BY <1>3, <1>5, <1>6
<1>8. PICK list : list = Reverse(fresh) \o ranked
  OBVIOUS
<1>9. Distinct(list) /\ ToSet(list) = R \cup ToSet(ranked)
  BY <1>2, <1>5, <1>6, <1>7, <1>8, DistinctConcat
<1>10. ListScenarios = list
  BY <1>1, <1>3, <1>8 DEF ListScenarios
<1>11. DOMAIN files \subseteq ToSet(list) /\ ToSet(list) \subseteq DOMAIN files \cup ToSet(OrderNow)
  BY <1>2, <1>3, <1>9
<1>12. \A f \in DOMAIN files : f \in Int /\ f >= -ids
  <2>1. \A f \in DOMAIN files : f \in Nat
    BY DEF Listing, IsNumbered
  <2>2. ids \in Nat
    BY DEF Listing
  <2> QED
    BY <2>1, <2>2
<1>13. \A x \in ToSet(OrderNow) : x \in Int /\ x >= -ids
  BY DEF Listing
<1> QED
  BY <1>9, <1>10, <1>11, <1>12, <1>13

\* A file is written beside the canvas.
LEMMA OnDiskFits ==
    ASSUME Fitting, NEW s, IsScene(s), IsNumbered(s), s.id # NoId, OnDisk(s)
    PROVE  Fitting'
<1>1. Write(s) /\ UNCHANGED <<sc, undoStack, redoStack, snap, sel, act>> /\ ids' = Taken(ids, s) /\ Listing /\ ids \in Nat
  BY DEF OnDisk, history, Fitting, Listing
<1>2. ids' \in Nat /\ ids' >= ids
  BY <1>1, TakenFacts
<1>3. Listing'
  BY <1>1, <1>2, WriteLists
<1>4. Drawings' /\ HistoryFits' /\ OnCanvas(sc', sel')
  BY <1>1 DEF Fitting, Drawings, HistoryFits, Pasts
<1> QED
  BY <1>3, <1>4 DEF Fitting

\* A scenario under another number and another name.
LEMMA Renumbered ==
    ASSUME NEW s, IsScene(s), IsNumbered(s), NEW id \in Nat, NEW b, NEW t,
           t = [id |-> id, name |-> b, nodes |-> s.nodes, edges |-> s.edges, view |-> s.view]
    PROVE  /\ IsScene(t) /\ IsNumbered(t) /\ t.id = id /\ t.nodes = s.nodes /\ t.edges = s.edges
<1>2. t = [id |-> id, name |-> b, nodes |-> s.nodes, edges |-> s.edges, view |-> s.view]
  OBVIOUS
<1>3. t.id = id /\ t.nodes = s.nodes /\ t.edges = s.edges
  BY <1>2
<1>4. IsScene(t)
  BY <1>2, SceneMade DEF IsScene
<1>5. IdsOf(s.nodes) \subseteq Nat /\ IdsOf(s.edges) \subseteq Nat
  BY NumberedIds
<1>6. IsNumbered(t)
  BY <1>3, <1>4, <1>5, NumberedIds
<1> QED
  BY <1>3, <1>4, <1>6

LEMMA DuplicateFits ==
    ASSUME CanvasInv, Fitting, NEW id, DuplicateScenario(id)
    PROVE  Fitting' /\ \E t : IsScene(t) /\ IsNumbered(t) /\ t.id = ids + 1 /\ OnDisk(t)
<1>1. PICK f : f = files[id]
  OBVIOUS
<1>2. IsScene(f) /\ IsNumbered(f) /\ ids + 1 \in Nat /\ ids + 1 # 0
  BY <1>1 DEF Fitting, Listing, DuplicateScenario
<1>3. PICK n, b : n = ids + 1 /\ b = CopyName(f.name)
  OBVIOUS
<1>4. PICK t : t = [f EXCEPT !.id = n, !.name = b]
  OBVIOUS
<1>5. IsScene(t) /\ IsNumbered(t) /\ t.id = n
  <2>1. f = [id |-> f.id, name |-> f.name, nodes |-> f.nodes, edges |-> f.edges, view |-> f.view]
    BY <1>2 DEF IsScene
  <2>2. t = [id |-> n, name |-> b, nodes |-> f.nodes, edges |-> f.edges, view |-> f.view]
    BY <1>4, <2>1
  <2>3. n \in Nat
    BY <1>2, <1>3
  <2> QED
    BY <1>2, <2>2, <2>3, Renumbered, Zenon
<1>6. OnDisk(t)
  BY <1>1, <1>3, <1>4 DEF DuplicateScenario
<1>7. t.id # NoId
  BY <1>2, <1>3, <1>5 DEF NoId
<1> QED
  BY <1>3, <1>5, <1>6, <1>7, OnDiskFits

LEMMA ImportFits ==
    ASSUME CanvasInv, Fitting, NEW dto \in Imports, ImportScenario(dto)
    PROVE  Fitting' /\ \E t : IsScene(t) /\ IsNumbered(t) /\ t.id = ids + 1 /\ OnDisk(t)
<1>1. \A d \in Imports : IsScene(d) /\ IsNumbered(d)
  BY EditorAssumption, Zenon
<1>2. IsScene(dto) /\ IsNumbered(dto) /\ ids + 1 \in Nat /\ ids + 1 # 0
  BY <1>1 DEF Fitting, Listing
<1>3. PICK n : n = ids + 1
  OBVIOUS
<1>4. PICK t : t = [dto EXCEPT !.id = n]
  OBVIOUS
<1>5. IsScene(t) /\ IsNumbered(t) /\ t.id = n
  <2>1. dto = [id |-> dto.id, name |-> dto.name, nodes |-> dto.nodes, edges |-> dto.edges, view |-> dto.view]
    BY <1>2 DEF IsScene
  <2>2. t = [id |-> n, name |-> dto.name, nodes |-> dto.nodes, edges |-> dto.edges, view |-> dto.view]
    BY <1>4, <2>1
  <2>3. n \in Nat
    BY <1>2, <1>3
  <2> QED
    BY <1>2, <2>2, <2>3, Renumbered, Zenon
<1>6. OnDisk(t)
  BY <1>3, <1>4 DEF ImportScenario
<1>7. t.id # NoId
  BY <1>2, <1>3, <1>5 DEF NoId
<1> QED
  BY <1>3, <1>5, <1>6, <1>7, OnDiskFits

LEMMA RenameFits ==
    ASSUME CanvasInv, Fitting, NEW id, NEW name, RenameScenario(id, name)
    PROVE  /\ Fitting' /\ sc'.id = sc.id /\ sc'.nodes = sc.nodes /\ sc'.edges = sc.edges
           /\ \E f, t : /\ f = files[id] /\ IsScene(t) /\ IsNumbered(t) /\ t.id = id
                        /\ t.nodes = f.nodes /\ t.edges = f.edges /\ Write(t)
<1>0. Proper(sc) /\ OnCanvas(sc, sel) /\ Listing /\ id \in DOMAIN files
  BY DEF Fitting, Drawings, RenameScenario
<1>1. PICK f, t : f = files[id] /\ t = [f EXCEPT !.name = name]
  OBVIOUS
<1>2. IsScene(f) /\ IsNumbered(f) /\ f.id = id /\ id \in Nat /\ id # NoId
  <2>1. IsScene(f) /\ IsNumbered(f) /\ f.id = id
    BY <1>0, <1>1 DEF Listing
  <2>2. id # OrderFile
    BY <1>0 DEF Listing
  <2> QED
    BY <2>1, <2>2 DEF IsNumbered, OrderFile, NoId
<1>3. IsScene(t) /\ IsNumbered(t) /\ t.id = id /\ t.nodes = f.nodes /\ t.edges = f.edges
  <2>1. f = [id |-> id, name |-> f.name, nodes |-> f.nodes, edges |-> f.edges, view |-> f.view]
    BY <1>2 DEF IsScene
  <2>2. t = [f EXCEPT !.name = name]
    BY <1>1, Zenon
  <2>3. t = [id |-> id, name |-> name, nodes |-> f.nodes, edges |-> f.edges, view |-> f.view]
    BY <2>1, <2>2
  <2> QED
    BY <1>2, <2>3, Renumbered, Zenon
<1>4. Write(t) /\ UNCHANGED <<undoStack, redoStack, snap, sel, act, ids>>
  BY <1>1 DEF RenameScenario, history
<1>5. Proper(sc') /\ sc'.id = sc.id /\ sc'.nodes = sc.nodes /\ sc'.edges = sc.edges
  <2>1. sc' = sc \/ sc' = [sc EXCEPT !.name = name]
    BY DEF RenameScenario
  <2> QED
    BY <1>0, <2>1, LabelsChanged
<1>6. OnCanvas(sc', sel')
  BY <1>0, <1>4, <1>5, OnMore
<1>7. ids' \in Nat /\ ids' >= ids
  BY <1>0, <1>4 DEF Listing
<1>8. Listing'
  BY <1>0, <1>2, <1>3, <1>4, <1>7, WriteLists
<1>9. \A e \in ToSet(act'.edge) : GoodEdge(e)
  BY <1>4 DEF Fitting, Drawings
<1>10. Fitting'
  BY <1>4, <1>5, <1>6, <1>8, <1>9, CalmFits
<1> QED
  BY <1>1, <1>3, <1>4, <1>5, <1>10

\* What is taken out of the order is out of it; its file is then the newest.
LEMMA DroppedOrder ==
    ASSUME Listing, NEW id, NEW named, Distinct(named), DropFromOrder(id, named)
    PROVE  /\ Distinct(mods') /\ ToSet(mods') \ {OrderFile} = ToSet(named) \ {OrderFile}
           /\ order' # <<>> => order' = <<OrderNow'>>
           /\ Distinct(OrderNow') /\ ToSet(OrderNow') \subseteq ToSet(OrderNow)
<1>1. CASE mods' = named /\ order' = order
  BY <1>1 DEF Listing, OrderNow
<1>2. CASE order' = <<Without(OrderNow, id)>> /\ mods' = Append(Without(named, OrderFile), OrderFile)
  <2>1. PICK q, r : q = Without(named, OrderFile) /\ r = Without(OrderNow, id)
    OBVIOUS
  <2>2. Distinct(q) /\ ToSet(q) = ToSet(named) \cap (ToSet(named) \ {OrderFile})
    BY <2>1, DistinctSelected DEF Without
  <2>3. Distinct(Append(q, OrderFile)) /\ ToSet(Append(q, OrderFile)) = ToSet(q) \cup {OrderFile}
    BY <2>2, DistinctAppend
  <2>4. Distinct(r) /\ ToSet(r) \subseteq ToSet(OrderNow)
    BY <2>1, DistinctSelected DEF Without, Listing
  <2>5. order' = <<r>> /\ order' # <<>>
    BY <1>2, <2>1
  <2>6. OrderNow' = r
    BY <2>5 DEF OrderNow
  <2> QED
    BY <1>2, <2>1, <2>2, <2>3, <2>4, <2>5, <2>6
<1> QED
  BY <1>1, <1>2 DEF DropFromOrder

LEMMA DeleteScenarioFits == ASSUME CanvasInv, Fitting, NEW id, DeleteScenario(id) PROVE Fitting'
<1>0. Listing /\ UNCHANGED <<sc, undoStack, redoStack, snap, sel, act, ids>>
  BY DEF DeleteScenario, Listed, history, Fitting
<1>1. /\ \A f \in DOMAIN files' : IsScene(files'[f]) /\ IsNumbered(files'[f]) /\ files'[f].id = f
      /\ Distinct(mods') /\ ToSet(mods') \ {OrderFile} = DOMAIN files'
      /\ order' # <<>> => order' = <<OrderNow'>>
      /\ Distinct(OrderNow') /\ ToSet(OrderNow') \subseteq ToSet(OrderNow)
  <2>1. CASE DropFromOrder(id, mods) /\ files' = files
    BY <1>0, <2>1, DroppedOrder DEF Listing
  <2>2. CASE id \in DOMAIN files /\ files' = [f \in DOMAIN files \ {id} |-> files[f]] /\ DropFromOrder(id, Without(mods, id))
    <3>1. PICK named : named = Without(mods, id)
      OBVIOUS
    <3>2. Distinct(named) /\ ToSet(named) = ToSet(mods) \cap (ToSet(mods) \ {id})
      BY <1>0, <3>1, DistinctSelected DEF Without, Listing
    <3>3. /\ Distinct(mods') /\ ToSet(mods') \ {OrderFile} = ToSet(named) \ {OrderFile}
          /\ order' # <<>> => order' = <<OrderNow'>>
          /\ Distinct(OrderNow') /\ ToSet(OrderNow') \subseteq ToSet(OrderNow)
      BY <1>0, <2>2, <3>1, <3>2, DroppedOrder
    <3>4. DOMAIN files' = DOMAIN files \ {id} /\ \A f \in DOMAIN files' : files'[f] = files[f]
      BY <2>2
    <3>5. ToSet(mods') \ {OrderFile} = DOMAIN files'
      BY <1>0, <3>2, <3>3, <3>4 DEF Listing
    <3>6. \A f \in DOMAIN files' : IsScene(files'[f]) /\ IsNumbered(files'[f]) /\ files'[f].id = f
      BY <1>0, <3>4 DEF Listing
    <3> QED
      BY <3>3, <3>5, <3>6
  <2> QED
    BY <2>1, <2>2 DEF DeleteScenario
<1>2. \A x \in ToSet(OrderNow') : x \in Int /\ x >= -ids'
  BY <1>0, <1>1 DEF Listing
<1>3. Listing'
  BY <1>0, <1>1, <1>2 DEF Listing
<1>4. Drawings' /\ HistoryFits' /\ OnCanvas(sc', sel')
  BY <1>0 DEF Fitting, Drawings, HistoryFits, Pasts
<1> QED
  BY <1>3, <1>4 DEF Fitting

\* The list gets an order of its own.
LEMMA OrderedFits ==
    ASSUME Fitting, NEW q, Distinct(q), \A x \in ToSet(q) : x \in Int /\ x >= -ids', SetOrder(q),
           UNCHANGED <<files, sc, history, sel, act>>, ids' \in Nat \ {0}
    PROVE  Fitting'
<1>1. order' = <<q>> /\ mods' = Touched(OrderFile)
  BY DEF SetOrder
<1>2. OrderNow' = q /\ order' = <<OrderNow'>>
  BY <1>1 DEF OrderNow
<1>3. Distinct(mods') /\ ToSet(mods') = ToSet(mods) \cup {OrderFile}
  BY <1>1, DistinctTouched DEF Fitting, Listing
<1>4. Listing'
  BY <1>2, <1>3 DEF Fitting, Listing
<1>5. UNCHANGED <<undoStack, redoStack, snap>>
  BY DEF history
<1>6. Drawings' /\ HistoryFits' /\ OnCanvas(sc', sel')
  BY <1>5 DEF Fitting, Drawings, HistoryFits, Pasts
<1> QED
  BY <1>4, <1>6 DEF Fitting

LEMMA MoveScenarioFits ==
    ASSUME CanvasInv, Fitting, NEW from, NEW to, MoveScenario(from, to)
    PROVE  Fitting'
<1>1. PICK list : list = ListScenarios
  OBVIOUS
<1>2. Distinct(list) /\ \A x \in ToSet(list) : x \in Int /\ x >= -ids
  BY <1>1, ListIs DEF Fitting
<1>3. PICK n \in Nat : n = Len(list) /\ DOMAIN list = 1..n
  BY <1>2, ListFacts DEF Distinct
<1>4. from \in 1..n /\ to \in 1..n
  BY <1>1, <1>3 DEF MoveScenario
<1>5. PICK r, e : r = RemoveAt(list, from) /\ e = list[from]
  OBVIOUS
<1>6. Distinct(r) /\ Len(r) = n - 1 /\ ToSet(r) = ToSet(list) \ {e}
  BY <1>2, <1>3, <1>4, <1>5, DistinctRemove
<1>7. to \in 1..(Len(r) + 1)
  BY <1>3, <1>4, <1>6
<1>8. PICK q : q = InsertAt(r, to, e)
  OBVIOUS
<1>9. Distinct(q) /\ ToSet(q) = ToSet(r) \cup {e}
  BY <1>6, <1>7, <1>8, DistinctInsert
<1>10. e \in ToSet(list)
  BY <1>3, <1>4, <1>5 DEF ToSet
<1>11. \A x \in ToSet(q) : x \in Int /\ x >= -ids
  BY <1>2, <1>6, <1>9, <1>10
<1>12. q = Relocated(list, from, to)
  BY <1>5, <1>8 DEF Relocated
<1>13. SetOrder(q) /\ UNCHANGED <<files, sc, history, sel, act>> /\ ids' = ids
  BY <1>1, <1>12 DEF MoveScenario, Listed
<1>14. ids' \in Nat \ {0} /\ \A x \in ToSet(q) : x \in Int /\ x >= -ids'
  BY <1>11, <1>13 DEF Fitting, Listing
<1> QED
  BY <1>9, <1>13, <1>14, OrderedFits

\* Where a separator goes that is asked for after a name of the list.
SlotAfter(all, after) ==
    IF after \in ToSet(all) THEN (CHOOSE i \in DOMAIN all : all[i] = after) + 1 ELSE Len(all) + 1

LEMMA AddSeparatorFits == ASSUME CanvasInv, Fitting, NEW after, AddSeparator(after) PROVE Fitting'
<1>1. PICK list : list = ListScenarios
  OBVIOUS
<1>2. /\ Distinct(list) /\ Distinct(OrderNow) /\ ids \in Nat \ {0}
      /\ \A x \in ToSet(list) \cup ToSet(OrderNow) : x \in Int /\ x >= -ids
  BY <1>1, ListIs DEF Fitting, Listing
<1>3. PICK S, rest : S = ToSet(list) \ ToSet(OrderNow) /\ rest = Selected(list, S)
  OBVIOUS
<1>4. Distinct(rest) /\ ToSet(rest) = ToSet(list) \cap S
  BY <1>2, <1>3, DistinctSelected
<1>5. PICK all : all = InOrder(list)
  OBVIOUS
<1>6. all = OrderNow \o rest
  BY <1>3, <1>5 DEF InOrder
<1>7. Distinct(all) /\ ToSet(all) = ToSet(OrderNow) \cup ToSet(rest)
  <2>1. ToSet(OrderNow) \cap ToSet(rest) = {}
    BY <1>3, <1>4
  <2> QED
    BY <1>2, <1>4, <1>6, <2>1, DistinctConcat
<1>8. PICK n \in Nat : n = Len(all) /\ DOMAIN all = 1..n
  BY <1>7, ListFacts DEF Distinct
<1>9. PICK at : at = SlotAfter(all, after)
  OBVIOUS
<1>10. at \in 1..(n + 1)
  <2>1. CASE after \in ToSet(all)
    <3>1. PICK k : k = CHOOSE i \in DOMAIN all : all[i] = after
      OBVIOUS
    <3>2. k \in DOMAIN all
      BY <2>1, <3>1 DEF ToSet
    <3>3. at = k + 1
      BY <1>9, <2>1, <3>1, Zenon DEF SlotAfter
    <3> QED
      BY <1>8, <3>2, <3>3
  <2>2. CASE after \notin ToSet(all)
    <3>1. at = Len(all) + 1
      BY <1>9, <2>2, Zenon DEF SlotAfter
    <3> QED
      BY <1>8, <3>1
  <2> QED
    BY <2>1, <2>2
<1>11. PICK e, q : e = -(ids + 1) /\ q = InsertAt(all, at, e)
  OBVIOUS
<1>12. e \in Int /\ e < -ids /\ e >= -(ids + 1)
  BY <1>2, <1>11
<1>13. \A x \in ToSet(all) : x \in Int /\ x >= -ids
  BY <1>2, <1>4, <1>7
<1>14. e \notin ToSet(all)
  BY <1>2, <1>12, <1>13
<1>15. at \in 1..(Len(all) + 1)
  BY <1>8, <1>10
<1>16. Distinct(q) /\ ToSet(q) = ToSet(all) \cup {e}
  BY <1>7, <1>11, <1>14, <1>15, DistinctInsert
<1>17. SetOrder(q) /\ ids' = ids + 1 /\ UNCHANGED <<files, sc, history, sel, act>>
  <2>1. SetOrder(InsertAt(InOrder(ListScenarios), SlotAfter(InOrder(ListScenarios), after), -(ids + 1)))
    BY Zenon DEF AddSeparator, SlotAfter
  <2>2. q = InsertAt(InOrder(ListScenarios), SlotAfter(InOrder(ListScenarios), after), -(ids + 1))
    BY <1>1, <1>5, <1>9, <1>11, Zenon
  <2>3. SetOrder(q)
    BY <2>1, <2>2, Zenon
  <2> QED
    BY <2>3, Zenon DEF AddSeparator
<1>18. ids' \in Nat \ {0} /\ \A x \in ToSet(q) : x \in Int /\ x >= -ids'
  BY <1>2, <1>12, <1>13, <1>16, <1>17
<1> QED
  BY <1>16, <1>17, <1>18, OrderedFits

\* Another scenario on the canvas.
LEMMA SwitchFits ==
    ASSUME CanvasInv, Fitting, act = Idle, Proper(sc'), sel' = NoSelection, PushHistory, UNCHANGED act, Listing'
    PROVE  Fitting'
<1>1. Scenes /\ Drawings /\ HistoryFits /\ Proper(Encode(sc))
  BY EncodedProper DEF CanvasInv, Fitting, Drawings
<1>2. Push(Encode(sc)) /\ snap' = snap
  BY DEF PushHistory
<1>3. HistoryFits' /\ \A s \in ToSet(undoStack') \cup ToSet(redoStack') : Proper(s)
  BY <1>1, <1>2, PushFits
<1>4. Drawings'
  BY <1>1, <1>2, <1>3 DEF Drawings, Pasts
<1>5. OnCanvas(sc', sel')
  BY Selections
<1> QED
  BY <1>3, <1>4, <1>5 DEF Fitting

\* The view that is left, flushed into the file of the scenario it belongs to.
LEMMA SyncedList ==
    ASSUME Proper(sc), Listing, files' = Written(Synced(sc)), mods' = Touched(sc.id), UNCHANGED order,
           ids' \in Nat, ids' >= ids
    PROVE  Listing'
<1>1. PICK s : s = Synced(sc)
  OBVIOUS
<1>2. Proper(s) /\ s.id = sc.id
  BY <1>1, ProperEncoded
<1>3. IsScene(s) /\ IsNumbered(s) /\ s.id # NoId
  BY <1>2, ProperNumbered
<1>4. files' = Written(s) /\ mods' = Touched(s.id)
  BY <1>1, <1>2
<1> QED
  BY <1>3, <1>4, ListWith

LEMMA OpenScenarioFits == ASSUME CanvasInv, Fitting, NEW id, OpenScenario(id) PROVE Fitting'
<1>0. Proper(sc) /\ Listing /\ ids \in Nat /\ ids # 0 /\ id \in DOMAIN files
  BY DEF Fitting, Drawings, Listing, OpenScenario
<1>1. PICK dto, new : dto = files[id] /\ new = ids
  OBVIOUS
<1>2. IsScene(dto) /\ IsNumbered(dto) /\ new \in Nat /\ new # 0
  BY <1>0, <1>1 DEF Listing
<1>3. PICK t : t = ScenarioFromDTO(dto, new)
  OBVIOUS
<1>4. Proper(t)
  BY <1>2, <1>3, ProperRead
<1>5. sc' = t /\ ids' = Taken(new, t)
  BY <1>1, <1>3 DEF OpenScenario
<1>6. ids' \in Nat /\ ids' >= ids
  BY <1>1, <1>2, <1>4, <1>5, ProperNumbered, TakenFacts
<1>7. Listing'
  <2>1. CASE Write(Synced(sc))
    <3>1. PICK s : s = Synced(sc)
      OBVIOUS
    <3>2. s.id = sc.id
      BY <1>0, <3>1, ProperEncoded
    <3>3. files' = Written(Synced(sc)) /\ mods' = Touched(sc.id) /\ UNCHANGED order
      BY <2>1, <3>1, <3>2 DEF Write
    <3> QED
      BY <1>0, <1>6, <3>3, SyncedList
  <2>2. CASE UNCHANGED diskVars
    BY <1>0, <1>6, <2>2, SameList DEF diskVars
  <2> QED
    BY <2>1, <2>2 DEF OpenScenario
<1>8. act = Idle /\ sel' = NoSelection /\ PushHistory /\ UNCHANGED act
  BY DEF OpenScenario
<1> QED
  BY <1>4, <1>5, <1>7, <1>8, SwitchFits

LEMMA CreateNewFits == ASSUME CanvasInv, Fitting, CreateNew PROVE Fitting'
<1>0. Listing /\ ids \in Nat
  BY DEF Fitting, Listing
<1>1. PICK n : n = ids + 1
  OBVIOUS
<1>2. n \in Nat \ {0} /\ ids + 2 \in Nat /\ ids + 2 >= ids
  BY <1>0, <1>1
<1>3. PICK t : t = NewScenario(n)
  OBVIOUS
<1>4. Proper(t)
  BY <1>2, <1>3, ProperNew
<1>5. sc' = t /\ ids' = ids + 2 /\ Write(t)
  BY <1>1, <1>3 DEF CreateNew
<1>6. Listing'
  BY <1>0, <1>2, <1>4, <1>5, ProperNumbered, WriteLists
<1>7. act = Idle /\ sel' = NoSelection /\ PushHistory /\ UNCHANGED act
  BY DEF CreateNew
<1> QED
  BY <1>4, <1>5, <1>6, <1>7, SwitchFits

\* What is loaded at the start can be relied on.
LEMMA LatestProper ==
    ASSUME NEW fs, \A f \in DOMAIN fs : IsScene(fs[f]) /\ IsNumbered(fs[f]),
           NEW named, IsList(named), ToSet(named) \ {OrderFile} \subseteq DOMAIN fs, NEW taken \in Nat \ {0}
    PROVE  Proper(Latest(fs, named, taken))
<1>1. CASE named = <<>> \/ Last(named) = OrderFile
  <2>1. PICK n, t : n = taken + 1 /\ t = NewScenario(n)
    OBVIOUS
  <2>2. Proper(t)
    BY <2>1, ProperNew
  <2> QED
    BY <1>1, <2>1, <2>2 DEF Latest
<1>2. CASE ~(named = <<>> \/ Last(named) = OrderFile)
  <2>1. Len(named) \in Nat /\ named \in Seq(ToSet(named))
    BY ListFacts
  <2>2. Len(named) \in 1..Len(named)
    BY <1>2, <2>1
  <2>3. Last(named) \in DOMAIN fs
    BY <1>2, <2>2, ListFacts DEF Last
  <2>4. PICK dto : dto = fs[Last(named)]
    OBVIOUS
  <2>5. PICK t : t = ScenarioFromDTO(dto, taken)
    OBVIOUS
  <2>6. Proper(t)
    BY <2>3, <2>4, <2>5, ProperRead
  <2> QED
    BY <1>2, <2>4, <2>5, <2>6 DEF Latest
<1> QED
  BY <1>1, <1>2

LEMMA FreshFits ==
    ASSUME Proper(sc), undoStack = <<>>, redoStack = <<>>, snap = <<>>, sel = NoSelection, act = Idle, Listing
    PROVE  Fitting
<1>1. Pasts = {} /\ \A e \in ToSet(act.edge) : GoodEdge(e)
  BY EmptyList, IdleFits DEF Pasts
<1>2. Len(<<>>) = 0
  OBVIOUS
<1>3. HistoryFits
  <2>1. HistoryLimit \in Nat
    BY EditorAssumption, Zenon
  <2> QED
    BY <1>2, <2>1 DEF HistoryFits
<1>4. OnCanvas(sc, sel)
  BY Selections
<1> QED
  BY <1>1, <1>3, <1>4 DEF Fitting, Drawings

LEMMA RestartFits == ASSUME CanvasInv, Fitting, NEW flushed \in BOOLEAN, Restart(flushed) PROVE Fitting'
<1>0. Proper(sc) /\ Listing /\ ids \in Nat \ {0}
  BY DEF Fitting, Drawings, Listing
<1>1. PICK n : n \in Nat /\ n >= ids /\ n = ids
  BY <1>0
<1>2. /\ \A f \in DOMAIN files' : IsScene(files'[f]) /\ IsNumbered(files'[f])
      /\ IsList(mods') /\ ToSet(mods') \ {OrderFile} \subseteq DOMAIN files'
      /\ (ids' \in Nat /\ ids' >= ids => Listing')
  <2>1. CASE flushed /\ ViewDirty
    <3>1. PICK s : s = Synced(sc)
      OBVIOUS
    <3>2. Proper(s) /\ s.id = sc.id /\ IsScene(s) /\ IsNumbered(s) /\ s.id # NoId
      BY <1>0, <3>1, ProperEncoded, ProperNumbered
    <3>3. files' = Written(s) /\ mods' = Touched(s.id) /\ UNCHANGED order
      BY <2>1, <3>1, <3>2 DEF Restart, FilesLeft, NamesLeft
    <3>4. /\ DOMAIN files' = DOMAIN files \cup {s.id}
          /\ \A f \in DOMAIN files' : files'[f] = IF f = s.id THEN s ELSE files[f]
      BY <3>3 DEF Written, Put
    <3>5. Distinct(mods') /\ ToSet(mods') = ToSet(mods) \cup {s.id}
      BY <1>0, <3>3, DistinctTouched DEF Listing
    <3>6. ids' \in Nat /\ ids' >= ids => Listing'
      BY <1>0, <3>2, <3>3, ListWith
    <3> QED
      BY <1>0, <3>2, <3>4, <3>5, <3>6 DEF Listing, Distinct
  <2>2. CASE ~(flushed /\ ViewDirty)
    <3>1. UNCHANGED <<files, mods, order>>
      BY <2>2 DEF Restart, FilesLeft, NamesLeft
    <3>2. ids' \in Nat /\ ids' >= ids => Listing'
      BY <1>0, <3>1, SameList
    <3> QED
      BY <1>0, <3>1, <3>2 DEF Listing, Distinct
  <2> QED
    BY <2>1, <2>2
<1>3. Proper(sc')
  <2>1. PICK fs, named, taken : fs = files' /\ named = mods' /\ taken = ids
    OBVIOUS
  <2>2. Proper(Latest(fs, named, taken))
    BY <1>0, <1>2, <2>1, LatestProper
  <2> QED
    BY <2>1, <2>2 DEF Restart
<1>4. ids' \in Nat /\ ids' >= ids
  <2>1. PICK t : t = sc'
    OBVIOUS
  <2>2. IsScene(t) /\ IsNumbered(t) /\ ids' = Taken(ids, t)
    BY <1>3, <2>1, ProperNumbered DEF Restart
  <2> QED
    BY <1>0, <2>2, TakenFacts
<1>5. Listing'
  BY <1>2, <1>4
<1>6. undoStack' = <<>> /\ redoStack' = <<>> /\ snap' = <<>> /\ sel' = NoSelection /\ act' = Idle
  BY DEF Restart, ResetEditor
<1>7. Pasts' = {} /\ \A e \in ToSet(act'.edge) : GoodEdge(e)
  BY <1>6, EmptyList, IdleFits DEF Pasts
<1>8. Len(<<>>) = 0
  OBVIOUS
<1>9. HistoryFits'
  <2>1. HistoryLimit \in Nat
    BY EditorAssumption, Zenon
  <2> QED
    BY <1>6, <1>8, <2>1 DEF HistoryFits
<1>10. OnCanvas(sc', sel')
  BY <1>6, Selections
<1> QED
  BY <1>3, <1>5, <1>7, <1>9, <1>10 DEF Fitting, Drawings

\* The ids given out in the files there are have a largest one.
LEMMA FilesTaken ==
    ASSUME NEW fs, \A f \in DOMAIN fs : IsScene(fs[f]) /\ IsNumbered(fs[f]),
           NEW named, IsList(named), ToSet(named) \ {OrderFile} = DOMAIN fs,
           NEW taken, taken = Max({100} \cup {TakenBy(fs[f]) : f \in DOMAIN fs})
    PROVE  taken \in Nat /\ taken >= 100 /\ \A f \in DOMAIN fs : TakenBy(fs[f]) \in Nat /\ TakenBy(fs[f]) <= taken
<1>1. PICK T : T = {100} \cup {TakenBy(fs[f]) : f \in DOMAIN fs}
  OBVIOUS
<1>2. \A f \in DOMAIN fs : TakenBy(fs[f]) \in Nat
  BY TakenFacts DEF TakenBy
<1>3. PICK g : g = [i \in 1..Len(named) |-> IF named[i] = OrderFile THEN 0 ELSE TakenBy(fs[named[i]])]
  OBVIOUS
<1>4. \A i \in 1..Len(named) : named[i] = OrderFile \/ named[i] \in DOMAIN fs
  BY ListFacts
<1>5. \A i \in 1..Len(named) : g[i] \in Nat
  BY <1>2, <1>3, <1>4
<1>6. PICK m \in Nat : \A i \in 1..Len(named) : g[i] <= m
  BY <1>5, ListBounded
<1>7. \A f \in DOMAIN fs : TakenBy(fs[f]) <= m
  <2> TAKE f \in DOMAIN fs
  <2>1. f \in ToSet(named) /\ f # OrderFile
    OBVIOUS
  <2>2. PICK i \in 1..Len(named) : f = named[i]
    BY <2>1, ListFacts
  <2>3. g[i] = TakenBy(fs[f])
    BY <1>3, <2>1, <2>2
  <2> QED
    BY <1>6, <2>3
<1>8. PICK n \in Nat : n \in Int /\ n >= m /\ n >= 100
  <2>1. m + 100 \in Nat /\ m + 100 >= m /\ m + 100 >= 100
    OBVIOUS
  <2> QED
    BY <2>1
<1>9. T \subseteq Int /\ T # {} /\ 100 \in T /\ \A x \in T : x \in Nat /\ x <= n
  <2>1. \A x \in T : x = 100 \/ \E f \in DOMAIN fs : x = TakenBy(fs[f])
    BY <1>1, Zenon
  <2>2. \A x \in T : x \in Nat /\ x <= n
    <3> TAKE x \in T
    <3>1. CASE x = 100
      BY <1>8, <3>1
    <3>2. CASE \E f \in DOMAIN fs : x = TakenBy(fs[f])
      <4>1. x \in Nat /\ x <= m
        BY <1>2, <1>7, <3>2
      <4> QED
        BY <1>8, <4>1
    <3> QED
      BY <2>1, <3>1, <3>2
  <2>3. 100 \in T
    BY <1>1, Zenon
  <2> QED
    BY <2>2, <2>3
<1>10. Max(T) \in T /\ \A x \in T : Max(T) >= x
  <2>1. T \subseteq Int /\ T # {} /\ n \in Int /\ \A x \in T : x <= n
    BY <1>8, <1>9
  <2> QED
    BY <2>1, MaxOfNumbers, Zenon
<1>11. taken = Max(T)
  BY <1>1
<1>12. \A f \in DOMAIN fs : TakenBy(fs[f]) \in T
  BY <1>1, Zenon
<1>13. \A f \in DOMAIN fs : TakenBy(fs[f]) <= taken
  <2>1. Max(T) \in Nat /\ \A x \in T : x \in Nat
    BY <1>9, <1>10
  <2> QED
    BY <1>10, <1>11, <1>12, <2>1
<1> QED
  BY <1>2, <1>9, <1>10, <1>11, <1>13

LEMMA SessionFits == FlowInit => Fitting
<1> SUFFICES ASSUME FlowInit PROVE Fitting
  OBVIOUS
<1>1. PICK session \in Sessions :
        /\ files = session.files /\ mods = session.mods /\ order = session.order
        /\ LET taken == Max({100} \cup {TakenBy(files[f]) : f \in DOMAIN files})
               s == Latest(files, mods, taken)
           IN  NewEditor(s) /\ ids = Taken(taken, s)
  BY DEF FlowInit
<1>2. \A f \in DOMAIN files : IsScene(files[f]) /\ IsNumbered(files[f]) /\ files[f].id = f
  BY <1>1, SessionsAssumption
<1>3. IsList(mods) /\ IsInjective(mods) /\ ToSet(mods) \ {OrderFile} = DOMAIN files
  BY <1>1, SessionsAssumption
<1>4. order # <<>> =>
        /\ order = <<order[1]>>
        /\ IsList(order[1]) /\ IsInjective(order[1])
        /\ \A id \in ToSet(order[1]) : id \in Int /\ id > -100
  BY <1>1, SessionsAssumption
<1>5. PICK taken : /\ taken = Max({100} \cup {TakenBy(files[f]) : f \in DOMAIN files})
                   /\ LET s == Latest(files, mods, taken)
                      IN  NewEditor(s) /\ ids = Taken(taken, s)
  BY <1>1
<1>6. taken \in Nat /\ taken >= 100
  BY <1>2, <1>3, <1>5, FilesTaken
<1>7. PICK t : t = Latest(files, mods, taken) /\ NewEditor(t) /\ ids = Taken(taken, t)
  BY <1>5
<1>8. Proper(t)
  <2>1. taken \in Nat \ {0}
    BY <1>6
  <2>2. \A f \in DOMAIN files : IsScene(files[f]) /\ IsNumbered(files[f])
    BY <1>2
  <2>3. IsList(mods) /\ ToSet(mods) \ {OrderFile} \subseteq DOMAIN files
    BY <1>3
  <2>4. Proper(Latest(files, mods, taken))
    BY <2>1, <2>2, <2>3, LatestProper
  <2> QED
    BY <1>7, <2>4
<1>9. ids \in Nat /\ ids >= taken
  BY <1>6, <1>7, <1>8, ProperNumbered, TakenFacts
<1>10. ids \in Nat \ {0} /\ \A x \in Int : x > -100 => x >= -ids
  BY <1>6, <1>9
<1>11. Distinct(OrderNow) /\ (\A x \in ToSet(OrderNow) : x \in Int /\ x >= -ids) /\ (order # <<>> => order = <<OrderNow>>)
  <2>1. CASE order = <<>>
    <3>1. OrderNow = <<>>
      BY <2>1 DEF OrderNow
    <3>2. IsInjective(<<>>)
      <4>1. DOMAIN <<>> = {}
        OBVIOUS
      <4> QED
        BY <4>1 DEF IsInjective
    <3> QED
      BY <2>1, <3>1, <3>2, EmptyList DEF Distinct
  <2>2. CASE order # <<>>
    <3>1. OrderNow = order[1]
      BY <2>2 DEF OrderNow
    <3> QED
      BY <1>4, <1>10, <2>2, <3>1 DEF Distinct
  <2> QED
    BY <2>1, <2>2
<1>12. Listing
  BY <1>2, <1>3, <1>10, <1>11 DEF Listing, Distinct
<1>13. /\ sc = t /\ undoStack = <<>> /\ redoStack = <<>> /\ snap = <<>> /\ sel = NoSelection /\ act = Idle
  BY <1>7 DEF NewEditor
<1> QED
  BY <1>8, <1>12, <1>13, FreshFits

-----------------------------------------------------------------------------
(* The window's steps.                                                      *)

LEMMA GesturesFit == ASSUME CanvasInv, Fitting, GestureStep PROVE Fitting'
<1>1. CASE \E id \in NodeIds : PressNode(id) \/ PressToSelect(id) \/ PressPort(id) \/ PressResize(id)
  BY <1>1, PressNodeFits, PressToSelectFits, PressPortFits, PressResizeFits
<1>2. CASE \E id \in IdsOf(sc.edges) : PressEdge(id) \/ \E freeTarget \in BOOLEAN : GrabEdge(id, freeTarget)
  BY <1>2, PressEdgeFits, GrabEdgeFits
<1>3. CASE PressCanvas
  BY <1>3, PressCanvasFits
<1>4. CASE (\E by \in Offsets : Drag(by) \/ DragResize(by)) \/ (\E v \in Views : DragView(v))
           \/ (\E nodes \in SUBSET NodeIds : DragMarquee(nodes))
  BY <1>4, DragFits, DragResizeFits, DragViewFits, DragMarqueeFits
<1>5. CASE FinishNowhere \/ Release \/ \E id \in NodeIds : FinishOut(id) \/ FinishIn(id)
  BY <1>5, LetGoFits, FinishOutFits, FinishInFits
<1> QED
  BY <1>1, <1>2, <1>3, <1>4, <1>5 DEF GestureStep

LEMMA KeysFit == ASSUME CanvasInv, Fitting, KeyStep PROVE Fitting'
<1>1. CASE Undo \/ Redo
  BY <1>1, UndoFits, RedoFits
<1>2. CASE DeleteSelection \/ Escape \/ SelectAll \/ Copy
  BY <1>2, DeleteSelectionFits, EscapeFits, SelectAllFits, CopyFits
<1>3. CASE Paste(clip) \/ Paste(Copied)
  <2>1. IsPart(clip) /\ IsPart(Copied)
    BY CopiedPart DEF CanvasInv, Stored
  <2> QED
    BY <1>3, <2>1, PasteFits
<1> QED
  BY <1>1, <1>2, <1>3 DEF KeyStep

LEMMA PanelFits == ASSUME CanvasInv, Fitting, PanelStep PROVE Fitting'
<1>1. CASE \E at \in Points :
             \/ \E kind0 \in AddedKinds : AddNode(kind0, at)
             \/ \E id \in DOMAIN blocks : AddBlock(id, at)
             \/ \E requests \in Dropped : DropCollectionNode(requests, at)
  BY <1>1, AddNodeFits, AddBlockFits, DropFits
<1>2. CASE SaveSelectionAsBlock \/ DeleteOnPanel \/ \E id \in DOMAIN blocks : DeleteBlock(id)
  BY <1>2, BlockFilesFits, DeleteOnPanelFits
<1>3. CASE \E key \in DOMAIN NodeTexts : \E text \in NodeTexts[key] : TypeOnNode(key, text)
  BY <1>3, TypeOnNodeFits
<1>4. CASE \E key \in DOMAIN NodeChips : \E text \in NodeChips[key] : PickOnNode(key, text)
  BY <1>4, PickOnNodeFits
<1>5. CASE (\E cond \in EdgeConds : PickCond(cond)) \/ \E op \in EdgeOps : PickOp(op)
  BY <1>5, PickCondFits, PickOpFits
<1>6. CASE \E key \in DOMAIN EdgeTexts : \E text \in EdgeTexts[key] : TypeOnEdge(key, text)
  BY <1>6, TypeOnEdgeFits
<1>7. CASE \E name \in Names : TypeName(name)
  BY <1>7, TypeNameFits
<1> QED
  BY <1>1, <1>2, <1>3, <1>4, <1>5, <1>6, <1>7 DEF PanelStep

LEMMA SavesFit == ASSUME CanvasInv, Fitting, SaveStep PROVE Fitting'
<1>1. CASE FirstFrame \/ \E v \in Views : ShowView(v)
  BY <1>1, LookFits
<1>2. CASE SaveScenario \/ Autosave
  BY <1>2, SavingFits
<1>3. CASE \E r \in TabRequests, at \in Points : AddRequestNode(r, at)
  BY <1>3, AddRequestFits
<1> QED
  BY <1>1, <1>2, <1>3 DEF SaveStep

LEMMA ListsFit == ASSUME CanvasInv, Fitting, ListStep PROVE Fitting'
<1>1. CASE \E id \in DOMAIN files : DuplicateScenario(id) \/ \E name \in Names : RenameScenario(id, name)
  BY <1>1, DuplicateFits, RenameFits
<1>2. CASE \E dto \in Imports : ImportScenario(dto)
  BY <1>2, ImportFits
<1>3. CASE \E id : DeleteScenario(id)
  BY <1>3, DeleteScenarioFits
<1>4. CASE (\E a, b : MoveScenario(a, b)) \/ \E a : AddSeparator(a)
  BY <1>4, MoveScenarioFits, AddSeparatorFits
<1> QED
  BY <1>1, <1>2, <1>3, <1>4 DEF ListStep

LEMMA SectionFits == ASSUME CanvasInv, Fitting, FlowNext \/ UNCHANGED flowVars PROVE Fitting'
<1>1. CASE GestureStep \/ KeyStep \/ PanelStep \/ SaveStep \/ ListStep
  BY <1>1, GesturesFit, KeysFit, PanelFits, SavesFit, ListsFit
<1>2. CASE SwitchStep
  BY <1>2, OpenScenarioFits, CreateNewFits DEF SwitchStep
<1>3. CASE UNCHANGED editorVars
  BY <1>3, RestFits DEF editorVars, diskVars
<1>4. CASE \E flushed \in BOOLEAN : Restart(flushed)
  BY <1>4, RestartFits
<1> QED
  BY <1>1, <1>2, <1>3, <1>4 DEF FlowNext, EditorStep, RunnerStep, flowVars

-----------------------------------------------------------------------------
(* Types.                                                                   *)

\* What a run gets has counts of one and more.
LEMMA PlanTimed == ASSUME NEW s, IsScene(s) PROVE Timed(PlanOf(s))
<1>1. \A n : Times(n) \in Nat
  <2> TAKE n
  <2>1. CASE Set(n, "count") /\ n.f.count \in DOMAIN NumberOf
    <3>1. PICK x : x = NumberOf[n.f.count] /\ x \in Int
      BY <2>1, NumbersAssumption
    <3>2. PICK top0 \in Int : 1 <= top0 /\ x <= top0
      <4>1. CASE x >= 1
        BY <3>1, <4>1
      <4>2. CASE ~(x >= 1)
        BY <3>1, <4>2
      <4> QED
        BY <4>1, <4>2
    <3>3. PICK T : T = {1, x}
      OBVIOUS
    <3>4. T \subseteq Int /\ T # {} /\ 1 \in T /\ \A y \in T : y <= top0
      BY <3>1, <3>2, <3>3
    <3>5. PICK most : most = Max(T) /\ most \in T /\ most >= 1
      BY <3>4, MaxOfNumbers
    <3>6. Max(T) \in Nat
      <4>1. most \in Int
        BY <3>4, <3>5
      <4> QED
        BY <3>5, <4>1
    <3> QED
      BY <2>1, <3>1, <3>3, <3>6 DEF Times
  <2>2. CASE ~(Set(n, "count") /\ n.f.count \in DOMAIN NumberOf)
    BY <2>2 DEF Times
  <2> QED
    BY <2>1, <2>2
<1>2. PICK known, joined : known = IdsOf(s.nodes) /\ joined = Selected(s.edges, Joining(s.edges, known))
  OBVIOUS
<1>3. EdgeList(s.edges)
  BY DEF IsScene
<1>4. IsList(joined)
  BY <1>2, <1>3, SelectedList DEF EdgeList
<1>5. DOMAIN joined \subseteq Nat
  BY <1>4, ListFacts
<1>6. PICK p : p = PlanOf(s)
  OBVIOUS
<1>7. /\ p.nodes = known
      /\ p.edges = [i \in DOMAIN joined |-> [from |-> joined[i].from, to |-> joined[i].to, cond |-> joined[i].cond]]
      /\ p.times = [n \in known |-> Times(ById(s.nodes, n))]
  BY <1>2, <1>6 DEF PlanOf
<1>8. (\A n \in p.nodes : p.times[n] \in Nat) /\ DOMAIN p.edges \subseteq Nat
  BY <1>1, <1>5, <1>7
<1> QED
  BY <1>6, <1>8 DEF Timed

LEMMA PlanTaken ==
    ASSUME NEW s, NEW p \in BuildPlan(s)
    PROVE  p.scenario = s
  BY DEF BuildPlan

LEMMA SessionTyped == FlowInit => Typed
<1> SUFFICES ASSUME FlowInit PROVE Typed
  OBVIOUS
<1>1. IsScene(sc)
  BY SessionBegins DEF EditorInv, Scenes
<1>2. NewRunner(sc)
  BY DEF FlowInit, NewEditor
<1>3. plan.scenario = PlanOf(sc) /\ Rested
  BY <1>2, PlanTaken DEF NewRunner, Rested
<1> QED
  BY <1>1, <1>3, PlanTimed, RestedTyped

LEMMA SectionTyped ==
    ASSUME CanvasInv, CanvasInv', RunnerInv, Typed, FlowNext \/ UNCHANGED flowVars
    PROVE  Typed'
<1>1. IsScene(sc) /\ IsScene(sc')
  BY DEF CanvasInv, Scenes
<1>2. CASE Start(PlanOf(sc))
  <2>1. \E s : Timed(s) /\ Start(s)
    BY <1>1, <1>2, PlanTimed
  <2> QED
    BY <2>1, RunnerTyped
<1>3. CASE Stop \/ Reset \/ SetStepMode \/ Step \/ SendToken \/ WalkOn \/ Request \/ CloseSockets \/ UNCHANGED vars
  BY <1>3, RunnerTyped
<1>4. CASE \E flushed \in BOOLEAN : Restart(flushed)
  <2>1. ResetRunner
    BY <1>4 DEF Restart
  <2>2. plan'.scenario = PlanOf(sc') /\ Rested'
    BY <2>1, PlanTaken DEF ResetRunner, Rested
  <2>3. Timed(plan'.scenario)
    BY <1>1, <2>2, PlanTimed
  <2>4. Rested' /\ Timed(plan.scenario)' => Typed'
    BY RestedTyped, PTL
  <2> QED
    BY <2>2, <2>3, <2>4
<1> QED
  BY <1>2, <1>3, <1>4 DEF FlowNext, EditorStep, Aside, SwitchStep, RunnerStep, flowVars

\* All that is there is what it should be: the history keeps as many steps as it may, undone
\* ones counted, however undo, redo and new changes follow on each other (pushSnapshot, undo,
\* redo); what is selected is on the canvas whatever was removed, restored or opened since;
\* the list of the sidebar shows every scenario and every separator once, after any moves,
\* copies, imports and deletions (listScenarios, saveOrder); and the runner's visits, counts
\* and colours are those of nodes and arrows of the scenario it was given.
THEOREM FlowTypeInvariant == FlowSpec => []FlowTypeOK
<1> DEFINE Inv == (EditorInv /\ RunnerInv) /\ Typed /\ Fitting
<1>1. FlowInit => Inv
  BY SessionBegins, SessionFresh, SessionTyped, SessionFits
<1>2. Inv /\ [FlowNext]_flowVars => Inv'
  <2> SUFFICES ASSUME Inv, FlowNext \/ UNCHANGED flowVars PROVE Inv'
    OBVIOUS
  <2>1. CanvasInv /\ Allowed
    BY DEF EditorInv, CanvasInv
  <2>2. CanvasInv' /\ Allowed'
    BY <2>1, WindowStep, NextAllowed
  <2>3. EditorInv' /\ RunnerInv'
    BY <2>1, <2>2, RunnerBesideEditor DEF EditorInv, CanvasInv
  <2>4. Typed'
    BY <2>1, <2>2, SectionTyped
  <2>5. Fitting'
    BY <2>1, SectionFits
  <2> QED
    BY <2>3, <2>4, <2>5
<1>3. Inv => FlowTypeOK
  <2> SUFFICES ASSUME Typed, Fitting PROVE FlowTypeOK
    OBVIOUS
  <2>1. TypeOK
    BY TypedClaims
  <2>2. Listing /\ HistoryFits /\ OnCanvas(sc, sel)
    BY DEF Fitting
  <2>3. Len(undoStack) + Len(redoStack) <= HistoryLimit
    BY <2>2 DEF HistoryFits
  <2>4. /\ sel.node \in NodeIds \cup {NoId} /\ sel.nodes \subseteq NodeIds
        /\ sel.edge \in IdsOf(sc.edges) \cup {NoId}
    BY <2>2 DEF OnCanvas, NodeIds
  <2>5. IsInjective(ListScenarios) /\ DOMAIN files \subseteq ToSet(ListScenarios)
    BY <2>2, ListIs DEF Distinct
  <2>6. IsInjective(mods) /\ ToSet(mods) \ {OrderFile} = DOMAIN files
    BY <2>2 DEF Listing, Distinct
  <2> QED
    BY <2>1, <2>3, <2>4, <2>5, <2>6 DEF FlowTypeOK
<1> HIDE DEF Inv
<1> QED
  BY <1>1, <1>2, <1>3, PTL DEF FlowSpec

-----------------------------------------------------------------------------
(* What can be drawn is there, and comes back.                              *)

\* It can be drawn, and its numbers were given out.
Clear(s, n) == SoundCanvas(s) /\ Below(s, n)

\* Reads, of files that are named.
ReadsIn(fs, s) == s.id \in DOMAIN fs => Kept(ScenarioFromDTO(fs[s.id], 0)) = Kept(s)

SoundPast == Clear(sc, ids) /\ \A s \in Pasts : Clear(s, ids)

\* An arrow that was taken off can be put back; one that is drawn comes from a node with ports.
SoundHand ==
    /\ act.edge # <<>> =>
          /\ act.mode \in {"out", "in"} /\ Clear(Attached(sc, act.edge[1]), ids)
          /\ act.id = IF act.mode = "out" THEN act.edge[1].from ELSE act.edge[1].to
    /\ act.mode = "out" => \E n \in ToSet(sc.nodes) : n.id = act.id /\ HasPorts(n)

SoundShelf ==
    /\ \A f \in DOMAIN files : SoundCanvas(files[f]) /\ f <= ids
    /\ SoundDrawing(clip) /\ \A b \in DOMAIN blocks : SoundDrawing(blocks[b])

\* What is taken for saved reads back, and so does the canvas before it is shown.
SoundSaves ==
    /\ \A s \in ToSet(lastSaved) : ReadsIn(files, s) /\ s.id \in Nat /\ s.id <= ids
    /\ ~laidOut => ReadsIn(files, sc)

Clean == SoundPast /\ SoundHand /\ SoundShelf /\ SoundSaves

\* Nothing is held before the editor is shown.
Unseen == ~laidOut => act = Idle

Ready == CanvasInv /\ Fitting /\ Fitting' /\ Unseen /\ Clean

LEMMA SoundSame ==
    ASSUME NEW s, NEW t, t.nodes = s.nodes, t.edges = s.edges
    PROVE  /\ SoundDrawing(t) = SoundDrawing(s) /\ SoundCanvas(t) = SoundCanvas(s)
           /\ \A n : t.id = s.id => Below(t, n) = Below(s, n)
<1>1. PICK ns, es : ns = s.nodes /\ es = s.edges
  OBVIOUS
<1>2. t.nodes = ns /\ t.edges = es
  BY <1>1
<1> QED
  BY <1>1, <1>2 DEF SoundCanvas, SoundDrawing, Below

\* Canvases may change, their numbers stay below the ones that are given out.
LEMMA ClearLater ==
    ASSUME NEW s, Proper(s), NEW n \in Nat, Clear(s, n), NEW m \in Nat, m >= n
    PROVE  Clear(s, m)
<1>1. s.id \in Nat /\ IdsOf(s.nodes) \subseteq Nat /\ IdsOf(s.edges) \subseteq Nat
  BY ProperNumbered, NumberedIds
<1>2. \A x \in IdsOf(s.nodes) \cup IdsOf(s.edges) : x \in Nat /\ x <= n
  BY <1>1 DEF Clear, Below
<1>3. \A x \in IdsOf(s.nodes) \cup IdsOf(s.edges) : x <= m
  BY <1>2
<1>4. s.id <= m
  BY <1>1 DEF Clear, Below
<1> QED
  BY <1>3, <1>4 DEF Clear, Below

LEMMA ClearEncoded ==
    ASSUME NEW s, Proper(s), NEW n, Clear(s, n), NEW t, t = Encode(s) \/ t = Synced(s)
    PROVE  Clear(t, n)
<1>1. t.id = s.id /\ t.nodes = s.nodes /\ t.edges = s.edges
  BY ProperEncoded
<1> QED
  BY <1>1, SoundSame DEF Clear

\* What is derived has no numbers of its own.
LEMMA ClearDerived ==
    ASSUME NEW s, NEW n, Clear(s, n), NEW t, Derived(t, s), t.id = s.id
    PROVE  Clear(t, n)
<1>1. SoundCanvas(t) /\ IdsOf(t.nodes) \subseteq IdsOf(s.nodes) /\ IdsOf(t.edges) \subseteq IdsOf(s.edges)
  BY SoundDerived DEF Clear
<1> QED
  BY <1>1 DEF Clear, Below

LEMMA IdsAre == ASSUME Ready PROVE ids \in Nat /\ ids' \in Nat /\ Proper(sc) /\ Proper(sc') /\ \A s \in Pasts : Proper(s)
  BY DEF Ready, Fitting, Listing, Drawings

LEMMA PastKept ==
    ASSUME Ready, ids' >= ids, Clear(sc', ids'), \A s \in Pasts' : s \in Pasts \cup {Encode(sc)}
    PROVE  SoundPast'
<1>1. ids \in Nat /\ ids' \in Nat /\ Proper(sc) /\ \A s \in Pasts : Proper(s)
  BY IdsAre
<1>2. Clear(sc, ids) /\ \A s \in Pasts : Clear(s, ids)
  BY DEF Ready, Clean, SoundPast
<1>0. PICK c : c = Encode(sc)
  OBVIOUS
<1>3. PICK n \in Nat, m \in Nat : n = ids /\ m = ids' /\ m >= n
  BY <1>1
<1>4. Proper(c) /\ Clear(c, n)
  BY <1>0, <1>1, <1>2, <1>3, ClearEncoded, EncodedProper
<1>5. Clear(c, m)
  BY <1>3, <1>4, ClearLater
<1>6. \A s \in Pasts : Clear(s, m)
  BY <1>1, <1>2, <1>3, ClearLater
<1>7. \A s \in Pasts' : Clear(s, m)
  BY <1>0, <1>3, <1>5, <1>6
<1> QED
  BY <1>3, <1>7 DEF SoundPast

LEMMA ShelfKept ==
    ASSUME Ready, UNCHANGED <<files, clip, blocks>>, ids' >= ids
    PROVE  SoundShelf'
<1>1. ids \in Nat /\ ids' \in Nat /\ (\A f \in DOMAIN files : f \in Nat) /\ \A f \in DOMAIN files : f <= ids
  BY IdsAre DEF Ready, Clean, SoundShelf, Fitting, Listing, IsNumbered
<1>2. \A f \in DOMAIN files : f <= ids'
  BY <1>1
<1> QED
  BY <1>2 DEF Ready, Clean, SoundShelf

\* The files and what was saved stay.
LEMMA SavesKept ==
    ASSUME Ready, UNCHANGED <<files, lastSaved, laidOut>>, laidOut \/ ReadsIn(files, sc'), ids' >= ids
    PROVE  SoundSaves'
<1>1. ids \in Nat /\ ids' \in Nat /\ \A s \in ToSet(lastSaved) : ReadsIn(files, s) /\ s.id \in Nat /\ s.id <= ids
  BY IdsAre DEF Ready, Clean, SoundSaves
<1>2. \A s \in ToSet(lastSaved) : s.id <= ids'
  BY <1>1
<1> QED
  BY <1>1, <1>2 DEF SoundSaves

LEMMA InPlace ==
    ASSUME Ready, Elsewhere, laidOut, ids' >= ids, Clear(sc', ids'),
           \A s \in Pasts' : s \in Pasts \cup {Encode(sc)}, SoundHand'
    PROVE  Clean'
<1>1. UNCHANGED <<files, clip, blocks, lastSaved, laidOut>>
  BY DEF Elsewhere, diskVars, saveVars
<1>2. SoundPast' /\ SoundShelf' /\ SoundSaves'
  BY <1>1, PastKept, ShelfKept, SavesKept
<1> QED
  BY <1>2 DEF Clean

\* Hands without an arrow.
LEMMA FreeHand == ASSUME act'.edge = <<>>, act'.mode # "out" PROVE SoundHand'
  BY DEF SoundHand

LEMMA IdleHand == ASSUME act' = Idle PROVE SoundHand'
<1>1. PICK no : Idle = [mode |-> "idle", id |-> NoId, edge |-> <<>>, members |-> {}, moved |-> no, from |-> <<>>]
  BY IdleIs
<1>2. act'.edge = <<>> /\ act'.mode = "idle"
  BY <1>1
<1> QED
  BY <1>2, FreeHand

\* An arrow is held only while an arrow is drawn.
LEMMA HandStays ==
    ASSUME Ready, act.mode \notin {"out", "in"}, act'.edge = act.edge, act'.mode = act.mode
    PROVE  SoundHand'
<1>1. act.edge = <<>>
  BY DEF Ready, Clean, SoundHand
<1> QED
  BY <1>1, FreeHand

\* The canvas stays under the hand.
LEMMA HandKept ==
    ASSUME Ready, UNCHANGED <<act, ids>>, sc'.id = sc.id, sc'.nodes = sc.nodes, sc'.edges = sc.edges
    PROVE  SoundHand'
<1>1. CASE act.edge = <<>>
  BY <1>1 DEF Ready, Clean, SoundHand
<1>2. CASE act.edge # <<>>
  <2>1. PICK e, s, t : e = act.edge[1] /\ s = Attached(sc, e) /\ t = Attached(sc', e)
    OBVIOUS
  <2>2. Proper(sc) /\ Proper(sc') /\ GoodEdge(e)
    BY <1>2, <2>1, IdsAre, HandFound DEF Ready
  <2>3. s.id = t.id /\ s.nodes = t.nodes /\ s.edges = t.edges
    <3>1. s.id = sc.id /\ s.nodes = sc.nodes /\ s.edges = Append(sc.edges, e)
      BY <2>1, <2>2, EdgeAttached
    <3>2. t.id = sc'.id /\ t.nodes = sc'.nodes /\ t.edges = Append(sc'.edges, e)
      BY <2>1, <2>2, EdgeAttached
    <3> QED
      BY <3>1, <3>2
  <2>4. Clear(s, ids)
    BY <1>2, <2>1 DEF Ready, Clean, SoundHand
  <2>5. Clear(t, ids)
    BY <2>3, <2>4, SoundSame DEF Clear
  <2>6. Clear(Attached(sc', act'.edge[1]), ids')
    BY <2>1, <2>5
  <2> QED
    BY <2>6 DEF Ready, Clean, SoundHand
<1> QED
  BY <1>1, <1>2

\* A key while an arrow is held makes it foreign.
LEMMA KeyHand ==
    ASSUME Ready, ~foreign', Watched, torn' = Torn, UNCHANGED act
    PROVE  SoundHand'
<1>1. torn' \cap {"out", "in"} = {}
  BY DEF Watched
<1>2. CASE act = Idle
  BY <1>2, IdleHand
<1>3. CASE act # Idle
  <2>1. act.mode \in torn'
    BY <1>3 DEF Torn
  <2>2. act.mode \notin {"out", "in"}
    BY <1>1, <2>1
  <2> QED
    BY <2>2, HandStays
<1> QED
  BY <1>2, <1>3

LEMMA Pushed ==
    ASSUME Ready, NEW c, Proper(c), Push(c), ToSet(snap') \subseteq ToSet(snap) \cup {c}
    PROVE  \A s \in Pasts' : s \in Pasts \cup {c}
<1>1. ToSet(undoStack') \subseteq ToSet(undoStack) \cup {c} /\ ToSet(redoStack') \subseteq ToSet(redoStack)
  BY PushFits DEF Ready, CanvasInv, Fitting
<1> QED
  BY <1>1 DEF Pasts

\* A change in one go.
LEMMA ChangedPast ==
    ASSUME Ready, NEW t, NEW c, Changing(t, c), SoundCanvas(t)
    PROVE  SoundPast' /\ ids' >= ids
<1>1. sc' = t /\ Push(Encode(sc)) /\ snap' = snap /\ ids' = Taken(ids, t)
  BY DEF Changing, PushHistory
<1>2. ids \in Nat /\ Proper(sc) /\ Proper(t)
  BY <1>1, IdsAre
<1>3. Proper(Encode(sc))
  BY <1>2, EncodedProper
<1>4. IsScene(t) /\ IsNumbered(t) /\ t.id \in Nat
  BY <1>2, ProperNumbered
<1>5. /\ ids' \in Nat /\ ids' >= ids /\ ids' >= t.id
      /\ \A x \in IdsOf(t.nodes) \cup IdsOf(t.edges) : ids' >= x
  BY <1>1, <1>2, <1>4, TakenFacts
<1>6. IdsOf(t.nodes) \subseteq Nat /\ IdsOf(t.edges) \subseteq Nat
  BY <1>4, NumberedIds
<1>7. Clear(sc', ids')
  BY <1>1, <1>4, <1>5, <1>6 DEF Clear, Below
<1>8. \A s \in Pasts' : s \in Pasts \cup {Encode(sc)}
  BY <1>1, <1>3, Pushed
<1> QED
  BY <1>5, <1>7, <1>8, PastKept

LEMMA Changed ==
    ASSUME Ready, ~foreign', Watched, laidOut, NEW t, NEW c, Changing(t, c), SoundCanvas(t), UNCHANGED act, Elsewhere
    PROVE  Clean'
<1>1. SoundPast' /\ ids' >= ids
  BY ChangedPast
<1>2. SoundHand'
  BY KeyHand DEF Changing
<1>3. UNCHANGED <<files, clip, blocks, lastSaved, laidOut>>
  BY DEF Elsewhere, diskVars, saveVars
<1> QED
  BY <1>1, <1>2, <1>3, ShelfKept, SavesKept DEF Clean

\* The canvas and the numbers stay.
LEMMA CalmClean ==
    ASSUME Ready, laidOut, Elsewhere, UNCHANGED ids, Derived(sc', sc), sc'.id = sc.id,
           ToSet(undoStack') \cup ToSet(redoStack') \cup ToSet(snap') \subseteq Pasts \cup {Encode(sc)},
           SoundHand'
    PROVE  Clean'
<1>1. ids' >= ids
  BY IdsAre
<1>2. Clear(sc', ids')
  BY ClearDerived DEF Ready, Clean, SoundPast
<1>3. \A s \in Pasts' : s \in Pasts \cup {Encode(sc)}
  BY DEF Pasts
<1> QED
  BY <1>1, <1>2, <1>3, InPlace

LEMMA LaidOut == ASSUME Ready, act.mode # "idle" PROVE laidOut
<1>1. PICK no : Idle = [mode |-> "idle", id |-> NoId, edge |-> <<>>, members |-> {}, moved |-> no, from |-> <<>>]
  BY IdleIs
<1>2. act # Idle
  BY <1>1
<1> QED
  BY <1>2 DEF Ready, Unseen
-----------------------------------------------------------------------------
(* The gestures.                                                            *)

LEMMA PressClean ==
    ASSUME Ready, Free, NEW g, Press(g), SoundHand', Derived(sc', sc), sc'.id = sc.id,
           snap' = snap \/ snap' = <<Encode(sc)>>
    PROVE  Clean'
<1>1. UNCHANGED <<undoStack, redoStack, clip, viewVars, saveVars, diskVars, ids>>
  BY DEF Press
<1>2. laidOut /\ Elsewhere
  BY <1>1 DEF Free, Elsewhere
<1>3. ToSet(undoStack') \cup ToSet(redoStack') \cup ToSet(snap') \subseteq Pasts \cup {Encode(sc)}
  BY <1>1, OneList DEF Pasts
<1> QED
  BY <1>1, <1>2, <1>3, CalmClean

LEMMA PressNodeClean == ASSUME Ready, NEW id, PressNode(id) PROVE Clean'
<1>1. PICK m, k : m = "drag" /\ k = DragMembers(NodeOf(id), sel')
  OBVIOUS
<1>2. PICK g : g = [Idle EXCEPT !.mode = m, !.id = id, !.members = k]
  OBVIOUS
<1>3. Press(g) /\ Free /\ snap' = <<Encode(sc)>> /\ act' = g
  BY <1>1, <1>2 DEF PressNode, Press
<1>4. m # "in" /\ m # "out"
  BY <1>1
<1>5. Begins(g, m)
  BY <1>2, <1>4, Presses
<1>6. SoundHand'
  BY <1>3, <1>4, <1>5, FreeHand DEF Begins
<1>7. Derived(sc', sc) /\ sc'.id = sc.id
  BY PressNodeFits DEF Ready
<1> QED
  BY <1>3, <1>6, <1>7, PressClean

LEMMA StillClean ==
    ASSUME Ready, Free, NEW g, Press(g), SoundHand', UNCHANGED sc, snap' = snap \/ snap' = <<Encode(sc)>>
    PROVE  Clean'
<1>1. Derived(sc', sc) /\ sc'.id = sc.id
  BY DerivedSame
<1> QED
  BY <1>1, PressClean

LEMMA ChooseClean == ASSUME Ready, NEW id, PressToSelect(id) \/ PressEdge(id) PROVE Clean'
<1>1. Free /\ Press(Idle) /\ UNCHANGED <<sc, snap>>
  BY DEF PressToSelect, PressEdge
<1>2. SoundHand'
  BY <1>1, IdleHand DEF Press
<1> QED
  BY <1>1, <1>2, StillClean

\* The node with an id of the canvas has ports.
LEMMA PressPortClean == ASSUME Ready, NEW id, PressPort(id) PROVE Clean'
<1>1. PICK g, m : m = "out" /\ g = [Idle EXCEPT !.mode = m, !.id = id]
  OBVIOUS
<1>2. Press(g) /\ Free /\ id \in NodeIds /\ HasPorts(NodeOf(id)) /\ UNCHANGED <<sc, sel, snap>>
  BY <1>1 DEF PressPort, CanStartOut
<1>3. m # "in"
  BY <1>1
<1>4. Begins(g, m)
  BY <1>1, <1>3, Presses
<1>5. g.id = id
  <2>1. PICK no : Idle = [mode |-> "idle", id |-> NoId, edge |-> <<>>, members |-> {}, moved |-> no, from |-> <<>>]
    BY IdleIs
  <2>2. g = [mode |-> m, id |-> id, edge |-> <<>>, members |-> {}, moved |-> no, from |-> <<>>]
    BY <1>1, <2>1
  <2> QED
    BY <2>2
<1>6. NodeOf(id) \in ToSet(sc.nodes) /\ NodeOf(id).id = id
  BY <1>2, IdsAre, NodeFound
<1>7. act' = g /\ act'.edge = <<>>
  BY <1>2, <1>4 DEF Press, Begins
<1>8. SoundHand'
  BY <1>2, <1>5, <1>6, <1>7 DEF SoundHand
<1> QED
  BY <1>2, <1>8, StillClean

LEMMA PressCanvasClean == ASSUME Ready, PressCanvas PROVE Clean'
<1>1. PICK mode \in {"marquee", "pan"} : Press([Idle EXCEPT !.mode = mode])
  BY DEF PressCanvas
<1>2. PICK g : g = [Idle EXCEPT !.mode = mode]
  OBVIOUS
<1>3. Press(g) /\ Free /\ UNCHANGED <<sc, snap>>
  BY <1>1, <1>2 DEF PressCanvas
<1>4. Begins(g, mode) /\ mode # "out"
  BY <1>2, Presses
<1>5. SoundHand'
  BY <1>3, <1>4, FreeHand DEF Press, Begins
<1> QED
  BY <1>3, <1>5, StillClean

LEMMA PressResizeClean == ASSUME Ready, NEW id, PressResize(id) PROVE Clean'
<1>1. PICK f : Press([Idle EXCEPT !.mode = "resize", !.id = id, !.from = f])
  BY DEF PressResize
<1>2. PICK g, m : m = "resize" /\ g = [Idle EXCEPT !.mode = m, !.id = id, !.from = f]
  OBVIOUS
<1>3. Press(g) /\ Free /\ sc' = sc /\ snap' = <<Encode(sc)>>
  BY <1>1, <1>2 DEF PressResize
<1>4. m # "in" /\ m # "out"
  BY <1>2
<1>5. Begins(g, m)
  BY <1>2, <1>4, Presses
<1>6. SoundHand'
  BY <1>3, <1>4, <1>5, FreeHand DEF Press, Begins
<1> QED
  BY <1>3, <1>6, StillClean

\* An arrow that is taken off and put back.
LEMMA TakenAndBack ==
    ASSUME NEW s, Proper(s), NEW id \in IdsOf(s.edges), NEW e, e = ById(s.edges, id), GoodEdge(e),
           NEW r, r = RemoveEdge(s, id), NEW t, t = Attached(r, e)
    PROVE  Derived(t, s) /\ t.id = s.id
<1>1. IsList(s.edges) /\ IsScene(s)
  BY DEF Proper, GoodEdges
<1>2. PICK i : i = IndexOf(s.edges, id)
  OBVIOUS
<1>3. i \in 1..Len(s.edges) /\ e = s.edges[i]
  BY <1>1, <1>2, IndexFound, ListFacts DEF ById
<1>4. PICK q : q = RemoveAt(s.edges, i)
  OBVIOUS
<1>5. Proper(r) /\ r.id = s.id /\ r.nodes = s.nodes /\ r.edges = q
  <2>1. Proper(r) /\ r.id = s.id /\ r.nodes = s.nodes
    BY EdgeRemoved
  <2>2. r = [s EXCEPT !.edges = q]
    BY <1>2, <1>4 DEF RemoveEdge
  <2> QED
    BY <1>1, <2>1, <2>2 DEF IsScene
<1>6. t.id = s.id /\ t.nodes = s.nodes /\ t.edges = Append(q, e)
  BY <1>5, EdgeAttached
<1>7. Picks(t.edges, s.edges)
  BY <1>1, <1>3, <1>4, <1>6, RotatedPicks
<1>8. EdgesFrom(t.edges, s.edges) /\ NodesFrom(t.nodes, s.nodes)
  BY <1>6, <1>7, PicksFacts, PicksSelf
<1>9. EndsKept(t, s) /\ (HasStart(s) => HasStart(t))
  BY <1>6 DEF EndsKept, HasStart
<1> QED
  BY <1>6, <1>8, <1>9 DEF Derived

LEMMA GrabEdgeClean ==
    ASSUME Ready, NEW id, NEW freeTarget \in BOOLEAN, GrabEdge(id, freeTarget)
    PROVE  Clean'
<1>1. PICK e : e = ById(sc.edges, id) /\ GoodEdge(e) /\ act'.edge = <<e>>
  BY GrabEdgeFits DEF Ready
<1>2. Derived(sc', sc) /\ sc'.id = sc.id
  BY GrabEdgeFits DEF Ready
<1>3. PICK m, i : m = (IF freeTarget THEN "out" ELSE "in") /\ i = (IF freeTarget THEN e.from ELSE e.to)
  OBVIOUS
<1>4. /\ act' = [Idle EXCEPT !.mode = m, !.id = i, !.edge = <<e>>]
      /\ sc' = RemoveEdge(sc, id) /\ id \in IdsOf(sc.edges) /\ laidOut
      /\ Push(Encode(sc)) /\ snap' = snap /\ ids' = ids /\ Elsewhere
  BY <1>1, <1>3 DEF GrabEdge, PushHistory, Free
<1>5. act'.mode = m /\ act'.id = i /\ act'.edge[1] = e
  <2>1. PICK no : Idle = [mode |-> "idle", id |-> NoId, edge |-> <<>>, members |-> {}, moved |-> no, from |-> <<>>]
    BY IdleIs
  <2>2. PICK one : one = <<e>>
    OBVIOUS
  <2>3. act' = [mode |-> m, id |-> i, edge |-> one, members |-> {}, moved |-> no, from |-> <<>>]
    BY <1>4, <2>1, <2>2
  <2>4. act'.mode = m /\ act'.id = i /\ act'.edge = one
    BY <2>3
  <2>5. one[1] = e
    BY <2>2
  <2> QED
    BY <2>4, <2>5
<1>6. Proper(sc) /\ Clear(sc, ids) /\ e \in ToSet(sc.edges)
  BY <1>1, <1>4, IdsAre, EdgeFound DEF Ready, Clean, SoundPast
<1>7. PICK t : t = Attached(sc', e)
  OBVIOUS
<1>8. Derived(t, sc) /\ t.id = sc.id
  BY <1>1, <1>4, <1>6, <1>7, TakenAndBack
<1>9. Clear(t, ids)
  BY <1>6, <1>8, ClearDerived
<1>10. sc'.nodes = sc.nodes
  BY <1>4, <1>6, EdgeRemoved
<1>11. \E n \in ToSet(sc'.nodes) : n.id = e.from /\ HasPorts(n)
  BY <1>6, <1>10 DEF Clear, SoundCanvas, SoundDrawing, Joins
<1>12. SoundHand'
  BY <1>3, <1>4, <1>5, <1>7, <1>9, <1>11 DEF SoundHand
<1>13. ToSet(undoStack') \cup ToSet(redoStack') \cup ToSet(snap') \subseteq Pasts \cup {Encode(sc)}
  <2>1. Proper(Encode(sc))
    BY <1>6, EncodedProper
  <2>2. \A s \in Pasts' : s \in Pasts \cup {Encode(sc)}
    BY <1>4, <2>1, Pushed
  <2> QED
    BY <2>2 DEF Pasts
<1> QED
  BY <1>2, <1>4, <1>12, <1>13, CalmClean

\* The first movement takes nothing new into the history.
LEMMA MovingClean == ASSUME Ready, NEW by, Drag(by) \/ DragResize(by) PROVE Clean'
<1>1. act.mode \in {"drag", "resize"} /\ UNCHANGED ids /\ Elsewhere
  BY DEF Drag, DragResize
<1>2. /\ Derived(sc', sc) /\ sc'.id = sc.id /\ act'.edge = act.edge /\ act'.mode = act.mode
      /\ ToSet(undoStack') \cup ToSet(redoStack') \cup ToSet(snap') \subseteq Pasts
  BY DragFits, DragResizeFits DEF Ready
<1>3. laidOut
  BY <1>1, LaidOut
<1>4. SoundHand'
  BY <1>1, <1>2, HandStays
<1> QED
  BY <1>1, <1>2, <1>3, <1>4, CalmClean

\* The canvas, its history and the numbers stay as they are.
LEMMA RestClean ==
    ASSUME Ready, UNCHANGED <<sc, history, ids>>, SoundHand', SoundShelf', SoundSaves'
    PROVE  Clean'
<1>1. ids' >= ids /\ Clear(sc', ids')
  BY IdsAre DEF Ready, Clean, SoundPast
<1>2. \A s \in Pasts' : s \in Pasts \cup {Encode(sc)}
  BY DEF history, Pasts
<1> QED
  BY <1>1, <1>2, PastKept DEF Clean

LEMMA LookClean == ASSUME Ready, UNCHANGED <<sc, history, act, clip, saveVars, diskVars, ids>> PROVE Clean'
<1>1. ids' >= ids /\ UNCHANGED <<files, clip, blocks, lastSaved, laidOut>>
  BY IdsAre DEF diskVars, saveVars
<1>2. SoundShelf' /\ SoundHand'
  BY <1>1, ShelfKept, HandKept
<1>3. laidOut \/ ReadsIn(files, sc')
  BY DEF Ready, Clean, SoundSaves
<1> QED
  BY <1>1, <1>2, <1>3, SavesKept, RestClean

LEMMA DraggedClean ==
    ASSUME Ready, (\E v : DragView(v)) \/ (\E S : DragMarquee(S))
    PROVE  Clean'
  BY LookClean DEF DragView, DragMarquee, Elsewhere

LEMMA LetGoClean == ASSUME Ready, FinishNowhere \/ Release PROVE Clean'
<1>1. /\ act.mode \in {"out", "in", "drag", "resize", "pan", "marquee"}
      /\ act' = Idle /\ snap' = <<>> /\ UNCHANGED <<sc, undoStack, redoStack, ids>> /\ Elsewhere
  BY DEF FinishNowhere, Release, Released
<1>2. laidOut /\ SoundHand'
  BY <1>1, LaidOut, IdleHand
<1>3. Derived(sc', sc) /\ sc'.id = sc.id
  BY <1>1, DerivedSame
<1>4. ToSet(undoStack') \cup ToSet(redoStack') \cup ToSet(snap') \subseteq Pasts \cup {Encode(sc)}
  <2>1. ToSet(snap') = {}
    BY <1>1, EmptyList
  <2> QED
    BY <1>1, <2>1 DEF Pasts
<1> QED
  BY <1>1, <1>2, <1>3, <1>4, CalmClean

-----------------------------------------------------------------------------
(* Arrows.                                                                  *)

LEMMA ArrowDrawable ==
    ASSUME NEW o, o.id # NoId, o.id \notin IdsOf(sc.edges), Joins(o, sc.nodes), ~HasEdge(sc.edges, o.from, o.to),
           (\E n \in ToSet(sc.nodes) : n.id = o.from /\ n.kind = "condition") \/ ~HasOut(sc.edges, o.from)
    PROVE  Drawable(sc, o)
<1>1. \A x \in ToSet(sc.edges) : x.from = o.from => x.to # o.to
  BY DEF HasEdge, ToSet
<1>2. \A x \in ToSet(sc.edges) : x.from = o.from => \E n \in ToSet(sc.nodes) : n.id = o.from /\ n.kind = "condition"
  BY DEF HasOut, ToSet
<1> QED
  BY <1>1, <1>2 DEF Drawable

\* The arrow that is held can be drawn where it was.
LEMMA HandDrawable ==
    ASSUME Proper(sc), NEW e, GoodEdge(e), NEW t, t = Attached(sc, e), SoundCanvas(t)
    PROVE  Drawable(sc, e)
<1>1. t.nodes = sc.nodes /\ t.edges = Append(sc.edges, e) /\ ToSet(t.edges) = ToSet(sc.edges) \cup {e}
  BY EdgeAttached
<1>2. IsList(sc.edges)
  BY DEF Proper, GoodEdges
<1>3. PICK n \in Nat : n = Len(sc.edges) /\ DOMAIN sc.edges = 1..n /\ sc.edges \in Seq(ToSet(sc.edges))
  BY <1>2, ListFacts
<1>4. PICK q : q = Append(sc.edges, e)
  OBVIOUS
<1>5. DOMAIN q = 1..(n + 1) /\ q[n + 1] = e /\ \A i \in 1..n : q[i] = sc.edges[i]
  <2>1. PICK S : S = ToSet(sc.edges) \cup {e}
    OBVIOUS
  <2>2. sc.edges \in Seq(S) /\ e \in S
    BY <1>3, <2>1
  <2>3. q \in Seq(S) /\ Len(q) = n + 1
    BY <1>3, <1>4, <2>2
  <2> QED
    BY <1>3, <1>4, <2>2, <2>3
<1>6. Identified(q)
  BY <1>1, <1>4 DEF SoundCanvas, SoundDrawing
<1>7. e.id # NoId
  BY <1>3, <1>5, <1>6 DEF Identified
<1>8. ASSUME NEW i \in 1..n PROVE sc.edges[i].id # e.id /\ sc.edges[i] # e
  <2>1. i \in DOMAIN q /\ n + 1 \in DOMAIN q /\ i # n + 1
    BY <1>5, <1>8
  <2>2. q[i].id # q[n + 1].id
    BY <1>6, <2>1 DEF Identified
  <2> QED
    BY <1>5, <2>2
<1>9. e.id \notin IdsOf(sc.edges) /\ \A x \in ToSet(sc.edges) : x # e
  BY <1>3, <1>8 DEF IdsOf, ToSet
<1>10. Joins(e, sc.nodes)
  BY <1>1 DEF SoundCanvas, SoundDrawing
<1>11. \A x \in ToSet(sc.edges) : x.from = e.from =>
          x.to # e.to /\ \E y \in ToSet(sc.nodes) : y.id = e.from /\ y.kind = "condition"
  BY <1>1, <1>9 DEF SoundCanvas, SoundDrawing
<1> QED
  BY <1>7, <1>9, <1>10, <1>11 DEF Drawable

\* The gesture ends with an arrow.
LEMMA ArrowClean ==
    ASSUME Ready, laidOut, Released, Elsewhere, NEW n, n = ids', n \in Nat, n >= ids, Clear(sc', n),
           UNCHANGED <<undoStack, redoStack>> \/ Push(Encode(sc))
    PROVE  Clean'
<1>1. SoundHand' /\ ToSet(snap') = {}
  BY IdleHand, EmptyList DEF Released
<1>2. Proper(Encode(sc))
  BY IdsAre, EncodedProper
<1>3. \A s \in Pasts' : s \in Pasts \cup {Encode(sc)}
  <2>1. CASE UNCHANGED <<undoStack, redoStack>>
    BY <1>1, <2>1 DEF Pasts
  <2>2. CASE Push(Encode(sc))
    BY <1>1, <1>2, <2>2, Pushed
  <2> QED
    BY <2>1, <2>2
<1> QED
  BY <1>1, <1>3, InPlace

\* An arrow that may be drawn, whose number is given out with it.
LEMMA DrawnClear ==
    ASSUME Ready, NEW o, GoodEdge(o), Drawable(sc, o), sc' = Attached(sc, o), ids' = Taken(ids, sc')
    PROVE  \E n \in Nat : n = ids' /\ n >= ids /\ Clear(sc', n)
<1>1. Proper(sc) /\ Proper(sc') /\ ids \in Nat /\ SoundCanvas(sc)
  BY IdsAre DEF Ready, Clean, SoundPast, Clear
<1>2. IsScene(sc) /\ IsScene(sc') /\ IsNumbered(sc') /\ sc'.id \in Nat
  BY <1>1, ProperNumbered
<1>3. SoundCanvas(sc')
  BY <1>1, <1>2, SoundAttached
<1>4. PICK n : n = ids'
  OBVIOUS
<1>5. n \in Nat /\ n >= ids /\ n >= sc'.id /\ \A x \in IdsOf(sc'.nodes) \cup IdsOf(sc'.edges) : n >= x
  BY <1>1, <1>2, <1>4, TakenFacts
<1>6. IdsOf(sc'.nodes) \subseteq Nat /\ IdsOf(sc'.edges) \subseteq Nat
  BY <1>2, NumberedIds
<1>7. Clear(sc', n)
  BY <1>2, <1>3, <1>5, <1>6 DEF Clear, Below
<1> QED
  BY <1>4, <1>5, <1>7

\* What is held while an arrow is drawn.
LEMMA HandArrow ==
    ASSUME Ready, act.edge # <<>>, NEW e, e = act.edge[1]
    PROVE  /\ GoodEdge(e) /\ Clear(Attached(sc, e), ids) /\ Drawable(sc, e)
           /\ act.id = IF act.mode = "out" THEN e.from ELSE e.to
<1>1. GoodEdge(e)
  BY HandFound DEF Ready
<1>2. Clear(Attached(sc, e), ids) /\ act.id = IF act.mode = "out" THEN e.from ELSE e.to
  BY DEF Ready, Clean, SoundHand
<1>3. PICK t : t = Attached(sc, e)
  OBVIOUS
<1>4. Drawable(sc, e)
  BY <1>1, <1>2, <1>3, IdsAre, HandDrawable DEF Clear
<1> QED
  BY <1>1, <1>2, <1>4

\* It goes back to where it was.
LEMMA PutBackClean ==
    ASSUME Ready, act.edge # <<>>, sc' = Attached(sc, act.edge[1]), laidOut, Released, Elsewhere,
           UNCHANGED <<undoStack, redoStack, ids>>
    PROVE  Clean'
<1>1. PICK n \in Nat : n = ids
  BY IdsAre
<1>2. PICK e : e = act.edge[1]
  OBVIOUS
<1>3. Clear(sc', n)
  BY <1>1, <1>2, HandArrow
<1>4. n = ids' /\ n >= ids
  BY <1>1
<1> QED
  BY <1>3, <1>4, ArrowClean

LEMMA FinishOutClean == ASSUME Ready, NEW id, FinishOut(id) PROVE Clean'
<1>1. PICK source, target : source = NodeOf(act.id) /\ target = NodeOf(id)
  OBVIOUS
<1>2. /\ act.mode = "out" /\ act.id \in NodeIds /\ id \in NodeIds /\ CanEnd(target) /\ target.kind # "start"
      /\ Released /\ Elsewhere
  BY <1>1 DEF FinishOut
<1>3. laidOut
  BY <1>2, LaidOut
<1>4. /\ source \in ToSet(sc.nodes) /\ source.id = act.id
      /\ target \in ToSet(sc.nodes) /\ target.id = id /\ HasPorts(target) /\ id # act.id
  BY <1>1, <1>2, IdsAre, NodeFound DEF CanEnd
<1>5. PICK first \in ToSet(sc.nodes) : first.id = act.id /\ HasPorts(first)
  BY <1>2 DEF Ready, Clean, SoundHand
<1>6. ASSUME NEW o, o.from = act.id, o.to = id PROVE Joins(o, sc.nodes)
  BY <1>2, <1>4, <1>5, <1>6 DEF Joins
<1>7. CASE sc' = sc /\ UNCHANGED <<sel, undoStack, redoStack, ids>>
  <2>1. PICK n \in Nat : n = ids
    BY IdsAre
  <2>2. Clear(sc', n) /\ n = ids' /\ n >= ids
    BY <1>7, <2>1 DEF Ready, Clean, SoundPast
  <2> QED
    BY <1>2, <1>3, <1>7, <2>2, ArrowClean
<1>8. CASE act.edge = <<>>
  <2>1. PICK new \in Nat : new = ids + 1
    BY IdsAre
  <2>2. PICK e : e = NewEdge(new, act.id, id)
    OBVIOUS
  <2>3. GoodEdge(e) /\ e.id = new /\ e.from = act.id /\ e.to = id
    <3>1. e = [id |-> new, from |-> act.id, to |-> id, cond |-> "always", f |-> [op |-> ">", count |-> "0"]]
      BY <2>2 DEF NewEdge
    <3>2. e.id = new /\ e.from = act.id /\ e.to = id
      BY <3>1
    <3>3. GoodEdge(e)
      BY <2>2, GoodNewEdge
    <3> QED
      BY <3>2, <3>3
  <2>4. CASE ~Refused(source, target)
    <3>1. sc' = Attached(sc, e) /\ ids' = Taken(ids, sc') /\ Push(Encode(sc))
      BY <1>1, <1>8, <2>1, <2>2, <2>4 DEF FinishOut
    <3>2. ~HasEdge(sc.edges, e.from, e.to) /\ (source.kind = "condition" \/ ~HasOut(sc.edges, e.from))
      BY <1>4, <2>3, <2>4 DEF Refused
    <3>3. e.id # NoId /\ e.id \notin IdsOf(sc.edges)
      <4>1. IdsOf(sc.edges) \subseteq Nat /\ ids \in Nat /\ \A x \in IdsOf(sc.edges) : x <= ids
        BY IdsAre, ProperNumbered, NumberedIds DEF Ready, Clean, SoundPast, Clear, Below
      <4> QED
        BY <2>1, <2>3, <4>1 DEF NoId
    <3>4. Joins(e, sc.nodes)
      BY <1>6, <2>3
    <3>5. (\E n \in ToSet(sc.nodes) : n.id = e.from /\ n.kind = "condition") \/ ~HasOut(sc.edges, e.from)
      BY <1>4, <2>3, <3>2
    <3>6. Drawable(sc, e)
      BY <3>2, <3>3, <3>4, <3>5, ArrowDrawable
    <3>7. PICK n \in Nat : n = ids' /\ n >= ids /\ Clear(sc', n)
      BY <2>3, <3>1, <3>6, DrawnClear
    <3> QED
      BY <1>2, <1>3, <3>1, <3>7, ArrowClean
  <2>5. CASE Refused(source, target)
    <3>1. sc' = sc /\ UNCHANGED <<sel, undoStack, redoStack, ids>>
      BY <1>1, <1>8, <2>5 DEF FinishOut
    <3> QED
      BY <1>7, <3>1
  <2> QED
    BY <2>4, <2>5
<1>9. CASE act.edge # <<>>
  <2>1. PICK e, o : e = act.edge[1] /\ o = [act.edge[1] EXCEPT !.to = id]
    OBVIOUS
  <2>2. GoodEdge(e) /\ Drawable(sc, e) /\ act.id = e.from
    BY <1>2, <1>9, <2>1, HandArrow
  <2>3. GoodEdge(o) /\ o.id = e.id /\ o.from = e.from /\ o.to = id
    <3>1. e = [id |-> e.id, from |-> e.from, to |-> e.to, cond |-> e.cond, f |-> e.f]
      BY <2>2 DEF GoodEdge, IsEdge
    <3>2. o = [e EXCEPT !.to = id]
      BY <2>1, Zenon
    <3>3. o = [id |-> e.id, from |-> e.from, to |-> id, cond |-> e.cond, f |-> e.f]
      BY <3>1, <3>2
    <3>4. GoodEdge(o)
      BY <2>2, <3>3, EndsChanged
    <3> QED
      BY <3>3, <3>4
  <2>4. CASE HasEdge(sc.edges, source.id, target.id)
    <3>1. sc' = Attached(sc, act.edge[1]) /\ UNCHANGED <<undoStack, redoStack, ids>>
      BY <1>1, <1>9, <2>4 DEF FinishOut
    <3> QED
      BY <1>2, <1>3, <1>9, <3>1, PutBackClean
  <2>5. CASE ~HasEdge(sc.edges, source.id, target.id)
    <3>1. sc' = Attached(sc, o) /\ ids' = Taken(ids, sc') /\ UNCHANGED <<undoStack, redoStack>>
      BY <1>1, <1>9, <2>1, <2>5 DEF FinishOut
    <3>2. ~HasEdge(sc.edges, o.from, o.to)
      BY <1>4, <2>2, <2>3, <2>5
    <3>3. o.id # NoId /\ o.id \notin IdsOf(sc.edges)
      BY <2>2, <2>3 DEF Drawable
    <3>4. Joins(o, sc.nodes)
      BY <1>6, <2>2, <2>3
    <3>5. (\E n \in ToSet(sc.nodes) : n.id = o.from /\ n.kind = "condition") \/ ~HasOut(sc.edges, o.from)
      BY <2>2, <2>3 DEF Drawable, HasOut, ToSet
    <3>6. Drawable(sc, o)
      BY <3>2, <3>3, <3>4, <3>5, ArrowDrawable
    <3>7. PICK n \in Nat : n = ids' /\ n >= ids /\ Clear(sc', n)
      BY <2>3, <3>1, <3>6, DrawnClear
    <3> QED
      BY <1>2, <1>3, <3>1, <3>7, ArrowClean
  <2> QED
    BY <2>4, <2>5
<1> QED
  BY <1>8, <1>9

LEMMA FinishInClean == ASSUME Ready, NEW id, FinishIn(id) PROVE Clean'
<1>1. PICK source, target : source = NodeOf(id) /\ target = NodeOf(act.id)
  OBVIOUS
<1>2. /\ act.mode = "in" /\ act.id \in NodeIds /\ id \in NodeIds /\ CanEnd(source)
      /\ Released /\ Elsewhere /\ UNCHANGED <<undoStack, redoStack, ids>>
  BY <1>1 DEF FinishIn
<1>3. laidOut /\ act.edge # <<>>
  BY <1>2, LaidOut DEF Ready, CanvasInv, Held, IsGesture
<1>4. PICK e, o : e = act.edge[1] /\ o = [act.edge[1] EXCEPT !.from = id]
  OBVIOUS
<1>5. GoodEdge(e) /\ Drawable(sc, e) /\ act.id = e.to /\ Clear(Attached(sc, e), ids)
  <2>1. "in" # "out"
    OBVIOUS
  <2> QED
    BY <1>2, <1>3, <1>4, <2>1, HandArrow
<1>6. GoodEdge(o) /\ o.id = e.id /\ o.from = id /\ o.to = e.to
  <2>1. e = [id |-> e.id, from |-> e.from, to |-> e.to, cond |-> e.cond, f |-> e.f]
    BY <1>5 DEF GoodEdge, IsEdge
  <2>2. o = [e EXCEPT !.from = id]
    BY <1>4, Zenon
  <2>3. o = [id |-> e.id, from |-> id, to |-> e.to, cond |-> e.cond, f |-> e.f]
    BY <2>1, <2>2
  <2>4. GoodEdge(o)
    BY <1>5, <2>3, EndsChanged
  <2> QED
    BY <2>3, <2>4
<1>7. /\ source \in ToSet(sc.nodes) /\ source.id = id /\ HasPorts(source) /\ id # act.id
      /\ target \in ToSet(sc.nodes) /\ target.id = act.id
  BY <1>1, <1>2, IdsAre, NodeFound DEF CanEnd
<1>8. CASE Refused(source, target)
  <2>1. sc' = Attached(sc, act.edge[1])
    BY <1>1, <1>8 DEF FinishIn
  <2> QED
    BY <1>2, <1>3, <2>1, PutBackClean
<1>9. CASE ~Refused(source, target)
  <2>1. sc' = Attached(sc, o)
    BY <1>1, <1>4, <1>9 DEF FinishIn
  <2>2. ~HasEdge(sc.edges, o.from, o.to) /\ (source.kind = "condition" \/ ~HasOut(sc.edges, o.from))
    BY <1>5, <1>6, <1>7, <1>9 DEF Refused
  <2>3. o.id # NoId /\ o.id \notin IdsOf(sc.edges)
    BY <1>5, <1>6 DEF Drawable
  <2>4. Joins(o, sc.nodes)
    <3>1. PICK b \in ToSet(sc.nodes) : b.id = e.to /\ HasPorts(b) /\ b.kind # "start"
      BY <1>5 DEF Drawable, Joins
    <3> QED
      BY <1>5, <1>6, <1>7, <3>1 DEF Joins
  <2>5. (\E n \in ToSet(sc.nodes) : n.id = o.from /\ n.kind = "condition") \/ ~HasOut(sc.edges, o.from)
    BY <1>6, <1>7, <2>2
  <2>6. Drawable(sc, o)
    BY <2>2, <2>3, <2>4, <2>5, ArrowDrawable
  <2>7. Proper(sc) /\ SoundCanvas(sc) /\ IsScene(sc)
    BY IdsAre, ProperNumbered DEF Ready, Clean, SoundPast, Clear
  <2>8. SoundCanvas(sc')
    BY <2>1, <2>6, <2>7, SoundAttached
  <2>9. PICK t, u : t = Attached(sc, e) /\ u = sc'
    OBVIOUS
  <2>10. t.id = sc.id /\ t.nodes = sc.nodes /\ ToSet(t.edges) = ToSet(sc.edges) \cup {e} /\ Proper(t)
    BY <1>5, <2>7, <2>9, EdgeAttached
  <2>11. u.id = sc.id /\ u.nodes = sc.nodes /\ ToSet(u.edges) = ToSet(sc.edges) \cup {o} /\ Proper(u)
    <3>1. u = Attached(sc, o) /\ Proper(sc) /\ GoodEdge(o)
      BY <1>6, <2>1, <2>7, <2>9
    <3> QED
      BY <3>1, EdgeAttached
  <2>12. IdsOf(t.edges) = {x.id : x \in ToSet(t.edges)} /\ IdsOf(u.edges) = {x.id : x \in ToSet(u.edges)}
    BY <2>10, <2>11, IdsOfList DEF Proper, GoodEdges
  <2>13. IdsOf(u.edges) \subseteq IdsOf(t.edges)
    BY <1>6, <2>10, <2>11, <2>12
  <2>14. Below(u, ids)
    BY <1>5, <2>9, <2>10, <2>11, <2>13 DEF Clear, Below
  <2>15. PICK n \in Nat : n = ids
    BY IdsAre
  <2>16. Clear(sc', n) /\ n = ids' /\ n >= ids
    BY <1>2, <2>8, <2>9, <2>14, <2>15 DEF Clear
  <2> QED
    BY <1>2, <1>3, <2>16, ArrowClean
<1> QED
  BY <1>8, <1>9

-----------------------------------------------------------------------------
(* Keys and the panel.                                                      *)

LEMMA DeleteSelectionClean == ASSUME Ready, ~foreign', Watched, DeleteSelection PROVE Clean'
<1>1. PICK t : t = RemoveEdge(RemoveNodes(sc, sel.nodes), sel.edge)
  OBVIOUS
<1>2. Changing(t, NoSelection) /\ laidOut /\ UNCHANGED act /\ Elsewhere
  BY <1>1 DEF DeleteSelection
<1>3. SoundCanvas(t)
  BY <1>2, DeleteSelectionFits DEF Ready, Clean, SoundPast, Clear, Changing
<1> QED
  BY <1>2, <1>3, Changed

LEMMA EscapeClean == ASSUME Ready, Escape PROVE Clean'
<1>1. laidOut /\ UNCHANGED <<history, ids>> /\ Elsewhere
  BY DEF Escape
<1>2. PICK n \in Nat : n = ids /\ n = ids' /\ n >= ids
  BY <1>1, IdsAre
<1>3. \A s \in Pasts' : s \in Pasts \cup {Encode(sc)}
  BY <1>1 DEF history, Pasts
<1>4. CASE act.edge = <<>>
  <2>1. sc' = sc
    BY <1>4 DEF Escape
  <2>2. SoundHand'
    <3>1. CASE act.mode \in {"out", "in"}
      BY <3>1, IdleHand DEF Escape
    <3>2. CASE act.mode \notin {"out", "in"}
      BY <3>2, HandStays DEF Escape
    <3> QED
      BY <3>1, <3>2
  <2>3. Clear(sc', ids') /\ ids' >= ids
    BY <1>2, <2>1 DEF Ready, Clean, SoundPast
  <2> QED
    BY <1>1, <1>3, <2>2, <2>3, InPlace
<1>5. CASE act.edge # <<>>
  <2>1. PICK e : e = act.edge[1]
    OBVIOUS
  <2>2. sc' = Attached(sc, e)
    BY <1>5, <2>1 DEF Escape
  <2>3. Clear(sc', ids') /\ ids' >= ids
    BY <1>2, <1>5, <2>1, <2>2, HandArrow
  <2>4. act.mode \in {"out", "in"}
    BY <1>5 DEF Ready, Clean, SoundHand
  <2>5. SoundHand'
    BY <2>4, IdleHand DEF Escape
  <2> QED
    BY <1>1, <1>3, <2>3, <2>5, InPlace
<1> QED
  BY <1>4, <1>5

LEMMA SelectAllClean == ASSUME Ready, SelectAll PROVE Clean'
  BY LookClean DEF SelectAll, Elsewhere

LEMMA CopiedSound == ASSUME Ready PROVE SoundDrawing(Copied) /\ IsPart(Copied) /\ IsPart(clip) /\ SoundDrawing(clip)
<1>1. PICK p : p = PartOf(sc, sel.nodes)
  OBVIOUS
<1>2. IsScene(sc) /\ SoundDrawing(sc)
  BY IdsAre, ProperNumbered DEF Ready, Clean, SoundPast, Clear, SoundCanvas
<1>3. SoundDrawing(p) /\ IsPart(p)
  BY <1>1, <1>2, SoundPart, PartOfScene
<1>4. SoundDrawing(clip) /\ IsPart(clip)
  BY DEF Ready, Clean, SoundShelf, CanvasInv, Stored
<1> QED
  BY <1>1, <1>3, <1>4 DEF Copied

LEMMA CopyClean == ASSUME Ready, Copy PROVE Clean'
<1>1. /\ clip' = Copied /\ laidOut
      /\ UNCHANGED <<sc, history, act, files, blocks, lastSaved, laidOut, ids>>
  BY DEF Copy, diskVars, saveVars
<1>2. SoundHand'
  BY <1>1, HandKept
<1>3. SoundShelf'
  BY <1>1, CopiedSound DEF Ready, Clean, SoundShelf
<1>4. SoundSaves'
  BY <1>1, IdsAre, SavesKept
<1> QED
  BY <1>1, <1>2, <1>3, <1>4, RestClean

\* What is put beside the canvas has numbers of its own.
LEMMA BesideSound ==
    ASSUME Ready, NEW p, IsList(p.nodes), IsList(p.edges), SoundDrawing(p),
           \A x \in IdsOf(p.nodes) \cup IdsOf(p.edges) : x \in Nat /\ x > ids,
           NEW t, t.nodes = sc.nodes \o p.nodes, t.edges = sc.edges \o p.edges
    PROVE  SoundCanvas(t)
<1>1. Proper(sc) /\ ids \in Nat /\ IsList(sc.nodes) /\ IsList(sc.edges)
  BY IdsAre DEF Proper, GoodNodes, GoodEdges
<1>2. IdsOf(sc.nodes) \subseteq Nat /\ IdsOf(sc.edges) \subseteq Nat
  BY <1>1, ProperNumbered, NumberedIds
<1>3. SoundCanvas(sc) /\ \A x \in IdsOf(sc.nodes) \cup IdsOf(sc.edges) : x <= ids
  BY DEF Ready, Clean, SoundPast, Clear, Below
<1>4. IdsOf(sc.nodes) \cap IdsOf(p.nodes) = {} /\ IdsOf(sc.edges) \cap IdsOf(p.edges) = {}
  BY <1>1, <1>2, <1>3
<1> QED
  BY <1>1, <1>3, <1>4, SoundBeside

LEMMA NodesBeside ==
    ASSUME Ready, NEW q, GoodNodes(q), Identified(q), \A x \in IdsOf(q) : x \in Nat /\ x > ids,
           NEW t, t = WithNew(q)
    PROVE  SoundCanvas(t)
<1>1. PICK none : none = <<>>
  OBVIOUS
<1>2. PICK p : p = [nodes |-> q, edges |-> none]
  OBVIOUS
<1>3. p.nodes = q /\ p.edges = none
  BY <1>2
<1>4. DOMAIN none = {} /\ IsList(none)
  BY <1>1, EmptyList
<1>5. ToSet(none) = {} /\ IdsOf(none) = {} /\ Identified(none)
  BY <1>4 DEF ToSet, IdsOf, Identified
<1>6. SoundDrawing(p)
  BY <1>3, <1>5 DEF SoundDrawing
<1>7. IsList(q) /\ Proper(sc) /\ IsList(sc.edges)
  BY IdsAre DEF GoodNodes, Proper, GoodEdges
<1>8. t.nodes = sc.nodes \o q /\ t.edges = sc.edges
  BY <1>7, NodesAdded
<1>9. sc.edges \o none = sc.edges
  BY <1>1, <1>7, ListFacts
<1> QED
  BY <1>3, <1>4, <1>5, <1>6, <1>7, <1>8, <1>9, BesideSound

LEMMA OneBeside ==
    ASSUME Ready, NEW n, GoodNode(n), n.id = ids + 1, NEW t, t = WithNew(<<n>>)
    PROVE  SoundCanvas(t)
<1>1. PICK q : q = <<n>>
  OBVIOUS
<1>2. GoodNodes(q) /\ IdsOf(q) = {n.id} /\ DOMAIN q = {1} /\ q[1] = n
  BY <1>1, GoodOne
<1>3. ids \in Nat /\ n.id \in Nat /\ n.id > ids /\ n.id # NoId
  BY IdsAre DEF NoId
<1>4. Identified(q)
  BY <1>2, <1>3 DEF Identified
<1> QED
  BY <1>1, <1>2, <1>3, <1>4, NodesBeside

LEMMA AddNodeClean == ASSUME Ready, ~foreign', Watched, NEW kind0, NEW at, AddNode(kind0, at) PROVE Clean'
<1>1. PICK x, y : x = at[1] - NodeW \div 2 /\ y = at[2] - NodeH \div 2
  OBVIOUS
<1>2. PICK m, n : m = NewNode(ids + 1, kind0, x, y) /\ n = Placed(m)
  OBVIOUS
<1>3. GoodNode(m) /\ m.id = ids + 1
  BY <1>2, IdsAre, GoodNewNode
<1>4. GoodNode(n) /\ n.id = ids + 1
  BY <1>2, <1>3, PlacedGood
<1>5. PICK t : t = WithNew(<<n>>)
  OBVIOUS
<1>6. Changing(t, OnlyNode(n.id)) /\ UNCHANGED act /\ Elsewhere /\ laidOut
  BY <1>1, <1>2, <1>5 DEF AddNode, Free
<1>7. SoundCanvas(t)
  BY <1>4, <1>5, OneBeside
<1> QED
  BY <1>6, <1>7, Changed

LEMMA DropClean ==
    ASSUME Ready, ~foreign', Watched, NEW requests \in Dropped, NEW at, DropCollectionNode(requests, at)
    PROVE  Clean'
<1>0. ids \in Nat /\ IsList(requests) /\ laidOut /\ UNCHANGED act /\ Elsewhere
  BY IdsAre, EditorAssumption DEF DropCollectionNode, Free
<1>1. PICK x, y : x = at[1] - NodeW \div 2 /\ y = at[2] - NodeH \div 2
  OBVIOUS
<1>2. PICK n, q : /\ n = NodeFromRequest(ids + 1, requests[1], x, y)
                  /\ q = (IF Len(requests) = 1 THEN <<n>> ELSE InColumns(requests, at))
  OBVIOUS
<1>3. PICK t : t = WithNew(q)
  OBVIOUS
<1>4. SoundCanvas(t)
  <2>1. CASE Len(requests) = 1
    <3>1. GoodNode(n) /\ n.id = ids + 1
      BY <1>0, <1>2, RequestMade
    <3> QED
      BY <1>2, <1>3, <2>1, <3>1, OneBeside
  <2>2. CASE Len(requests) # 1
    <3>1. q = InColumns(requests, at)
      BY <1>2, <2>2
    <3>2. GoodNodes(q) /\ \A k \in DOMAIN q : q[k].id = ids + k
      BY <1>0, <3>1, ColumnsMade
    <3>3. DOMAIN q = 1..Len(q) /\ Len(q) \in Nat
      BY <3>2, ListFacts DEF GoodNodes
    <3>4. \A k \in DOMAIN q : k \in Nat /\ k > 0 /\ ids + k \in Nat /\ ids + k > ids /\ ids + k # 0
      BY <1>0, <3>3
    <3>5. \A i, j \in DOMAIN q : ids + i = ids + j => i = j
      BY <1>0, <3>3
    <3>6. Identified(q)
      BY <3>2, <3>4, <3>5 DEF Identified, NoId
    <3>7. \A z \in IdsOf(q) : z \in Nat /\ z > ids
      BY <3>2, <3>4 DEF IdsOf
    <3> QED
      BY <1>3, <3>2, <3>6, <3>7, NodesBeside
  <2> QED
    BY <2>1, <2>2
<1>5. PICK c : Changing(t, c)
  BY <1>1, <1>2, <1>3 DEF DropCollectionNode
<1> QED
  BY <1>0, <1>4, <1>5, Changed

LEMMA PartJoined ==
    ASSUME NEW s, IsScene(s), NEW p, NEW t, t = WithPart(s, p)
    PROVE  t.nodes = s.nodes \o p.nodes /\ t.edges = s.edges \o p.edges
<1>1. PICK a, b : a = s.nodes \o p.nodes /\ b = s.edges \o p.edges
  OBVIOUS
<1>2. t = [s EXCEPT !.nodes = a, !.edges = b]
  BY <1>1 DEF WithPart
<1>3. t = [id |-> s.id, name |-> s.name, nodes |-> a, edges |-> b, view |-> s.view]
  BY <1>2 DEF IsScene
<1>4. t.nodes = a /\ t.edges = b
  BY <1>3
<1> QED
  BY <1>1, <1>4

\* What is inserted is sound and has numbers of its own.
LEMMA InsertSound ==
    ASSUME Ready, NEW dto, IsPart(dto), SoundDrawing(dto), NEW dx, NEW dy,
           NEW t, t = WithPart(sc, Inserted(dto, ids, dx, dy))
    PROVE  SoundCanvas(t)
<1>1. PICK n \in Nat : n = ids
  BY IdsAre
<1>2. PICK p : p = Inserted(dto, n, dx, dy)
  OBVIOUS
<1>3. SoundDrawing(p) /\ \A x \in IdsOf(p.nodes) \cup IdsOf(p.edges) : x \in Nat /\ x > n
  BY <1>2, SoundInserted
<1>4. IsPart(p)
  BY <1>2, InsertedPart
<1>5. IsList(p.nodes) /\ IsList(p.edges)
  BY <1>4 DEF IsPart, NodeList, EdgeList
<1>6. IsScene(sc) /\ t = WithPart(sc, p)
  BY <1>1, <1>2, IdsAre, ProperNumbered
<1>7. t.nodes = sc.nodes \o p.nodes /\ t.edges = sc.edges \o p.edges
  BY <1>6, PartJoined
<1> QED
  BY <1>1, <1>3, <1>5, <1>7, BesideSound

LEMMA AddBlockClean == ASSUME Ready, ~foreign', Watched, NEW id, NEW at, AddBlock(id, at) PROVE Clean'
<1>1. PICK b : b = blocks[id]
  OBVIOUS
<1>2. IsPart(b) /\ SoundDrawing(b)
  BY <1>1 DEF AddBlock, Ready, Clean, SoundShelf, CanvasInv, Stored
<1>3. PICK dx, dy : Centred(b, at) = Inserted(b, ids, dx, dy)
  BY DEF Centred
<1>4. PICK t : t = WithPart(sc, Inserted(b, ids, dx, dy))
  OBVIOUS
<1>5. PICK c : Changing(t, c)
  BY <1>1, <1>3, <1>4 DEF AddBlock, Insert
<1>6. SoundCanvas(t)
  BY <1>2, <1>4, InsertSound
<1>7. laidOut /\ UNCHANGED act /\ Elsewhere
  BY DEF AddBlock, Free
<1> QED
  BY <1>5, <1>6, <1>7, Changed

LEMMA PasteClean ==
    ASSUME Ready, ~foreign', Watched, NEW from, IsPart(from), SoundDrawing(from), Paste(from)
    PROVE  Clean'
<1>1. PICK t : t = WithPart(sc, Inserted(from, ids, 28, 28))
  OBVIOUS
<1>2. PICK c : Changing(t, c)
  BY <1>1 DEF Paste, Insert
<1>3. SoundCanvas(t)
  BY <1>1, InsertSound
<1>4. laidOut /\ clip' = from /\ UNCHANGED <<act, files, blocks, lastSaved, laidOut>>
  BY DEF Paste, diskVars, saveVars
<1>5. SoundPast' /\ ids' >= ids
  BY <1>2, <1>3, ChangedPast
<1>6. SoundHand'
  BY <1>2, <1>4, KeyHand DEF Changing
<1>7. SoundSaves'
  BY <1>4, <1>5, SavesKept
<1>8. SoundShelf'
  <2>1. \A f \in DOMAIN files : f \in Nat /\ f <= ids
    BY DEF Ready, Clean, SoundShelf, Fitting, Listing, IsNumbered
  <2>2. ids \in Nat /\ ids' \in Nat
    BY IdsAre
  <2>3. \A f \in DOMAIN files : f <= ids'
    BY <1>5, <2>1, <2>2
  <2> QED
    BY <1>4, <2>3 DEF Ready, Clean, SoundShelf
<1> QED
  BY <1>5, <1>6, <1>7, <1>8 DEF Clean

LEMMA DeleteBlockClean == ASSUME Ready, NEW id, DeleteBlock(id) PROVE Clean'
<1>1. /\ laidOut /\ UNCHANGED <<sc, history, act, files, clip, lastSaved, laidOut, ids>>
      /\ blocks' = [b \in DOMAIN blocks \ {id} |-> blocks[b]]
  BY DEF DeleteBlock, Free, saveVars
<1>2. SoundHand'
  BY <1>1, HandKept
<1>3. \A b \in DOMAIN blocks' : b \in DOMAIN blocks /\ blocks'[b] = blocks[b]
  BY <1>1
<1>4. SoundShelf'
  BY <1>1, <1>3 DEF Ready, Clean, SoundShelf
<1>5. SoundSaves'
  BY <1>1, IdsAre, SavesKept
<1> QED
  BY <1>1, <1>2, <1>4, <1>5, RestClean

LEMMA SaveBlockClean == ASSUME Ready, SaveSelectionAsBlock PROVE Clean'
<1>1. PICK p : p = PartOf(sc, sel.nodes)
  OBVIOUS
<1>2. /\ laidOut /\ UNCHANGED <<sc, history, act, files, clip, lastSaved, laidOut>> /\ act = Idle
      /\ blocks' = Put(blocks, ids + 1, p) /\ ids' = ids + 1
  BY <1>1 DEF SaveSelectionAsBlock, Free, saveVars
<1>3. IsScene(sc) /\ SoundDrawing(sc) /\ ids \in Nat /\ ids' >= ids
  BY <1>2, IdsAre, ProperNumbered DEF Ready, Clean, SoundPast, Clear, SoundCanvas
<1>4. SoundDrawing(p)
  BY <1>1, <1>3, SoundPart
<1>5. SoundHand'
  BY <1>2, IdleHand
<1>6. \A b \in DOMAIN blocks' : blocks'[b] = p \/ (b \in DOMAIN blocks /\ blocks'[b] = blocks[b])
  <2>1. PICK key, g : key = ids + 1 /\ g = Put(blocks, key, p)
    OBVIOUS
  <2>2. DOMAIN g = DOMAIN blocks \cup {key} /\ \A b \in DOMAIN g : g[b] = IF b = key THEN p ELSE blocks[b]
    BY <2>1 DEF Put
  <2>3. \A b \in DOMAIN g : g[b] = p \/ (b \in DOMAIN blocks /\ g[b] = blocks[b])
    BY <2>2, Zenon
  <2> QED
    BY <1>2, <2>1, <2>3
<1>7. SoundShelf'
  <2>1. \A f \in DOMAIN files : f \in Nat /\ f <= ids
    BY DEF Ready, Clean, SoundShelf, Fitting, Listing, IsNumbered
  <2>2. \A f \in DOMAIN files : f <= ids'
    BY <1>2, <1>3, <2>1
  <2> QED
    BY <1>2, <1>4, <1>6, <2>2 DEF Ready, Clean, SoundShelf
<1>8. SoundSaves'
  BY <1>2, <1>3, SavesKept
<1>9. SoundPast'
  <2>1. PICK n \in Nat, m \in Nat : n = ids /\ m = ids' /\ m >= n
    BY <1>2, <1>3
  <2>2. Proper(sc) /\ Clear(sc, n)
    BY <2>1, IdsAre DEF Ready, Clean, SoundPast
  <2>3. Clear(sc, m)
    BY <2>1, <2>2, ClearLater
  <2>4. Clear(sc', ids')
    BY <1>2, <2>1, <2>3
  <2>5. \A s \in Pasts' : s \in Pasts \cup {Encode(sc)}
    BY <1>2 DEF history, Pasts
  <2> QED
    BY <1>3, <2>4, <2>5, PastKept
<1> QED
  BY <1>5, <1>7, <1>8, <1>9 DEF Clean

LEMMA PickClean ==
    ASSUME Ready, ~foreign', Watched,
           \/ \E key \in DOMAIN NodeChips : \E text \in NodeChips[key] : PickOnNode(key, text)
           \/ \E cond : PickCond(cond)
           \/ \E op \in EdgeOps : PickOp(op)
           \/ DeleteOnPanel
    PROVE  Clean'
<1>1. Derived(sc', sc)
  BY PickOnNodeFits, PickCondFits, PickOpFits, DeleteOnPanelFits DEF Ready
<1>2. SoundCanvas(sc')
  BY <1>1, SoundDerived DEF Ready, Clean, SoundPast, Clear
<1>3. laidOut /\ UNCHANGED act /\ Elsewhere
  BY DEF PickOnNode, PickCond, PickOp, DeleteOnPanel, EdgeChosen, Free
<1>4. PICK t, c : Changing(t, c)
  BY DEF PickOnNode, PickCond, PickOp, DeleteOnPanel
<1>5. SoundCanvas(t)
  BY <1>2, <1>4 DEF Changing
<1> QED
  BY <1>3, <1>4, <1>5, Changed

LEMMA TypeClean ==
    ASSUME Ready,
           \/ \E key, text : TypeOnNode(key, text)
           \/ \E key \in DOMAIN EdgeTexts : \E text : TypeOnEdge(key, text)
           \/ \E name : TypeName(name)
    PROVE  Clean'
<1>1. Derived(sc', sc) /\ sc'.id = sc.id
  BY TypeOnNodeFits, TypeOnEdgeFits, TypeNameFits DEF Ready
<1>2. laidOut /\ act = Idle /\ UNCHANGED <<history, act, ids>> /\ Elsewhere
  BY DEF TypeOnNode, TypeOnEdge, TypeName, EdgeChosen, Free
<1>3. SoundHand'
  BY <1>2, IdleHand
<1>4. ToSet(undoStack') \cup ToSet(redoStack') \cup ToSet(snap') \subseteq Pasts \cup {Encode(sc)}
  BY <1>2 DEF history, Pasts
<1> QED
  BY <1>1, <1>2, <1>3, <1>4, CalmClean

-----------------------------------------------------------------------------
(* The history and saving.                                                  *)

\* Files that are read have no numbers but their own.
ReadOf(s, t) ==
    /\ SoundCanvas(t) /\ t.id = s.id
    /\ IdsOf(t.nodes) = IdsOf(s.nodes) /\ IdsOf(t.edges) = IdsOf(s.edges)

LEMMA ClearRead ==
    ASSUME NEW s, NEW n, Clear(s, n), NEW t, ReadOf(s, t)
    PROVE  Clear(t, n)
  BY DEF Clear, Below, ReadOf

LEMMA ReadBack ==
    ASSUME NEW s, Proper(s), SoundCanvas(s), NEW new \in Nat, NEW t, t = ScenarioFromDTO(s, new)
    PROVE  ReadOf(s, t) /\ Kept(t) = Kept(s)
<1>1. IsScene(s) /\ IsNumbered(s) /\ s.id # NoId
  BY ProperNumbered
<1> QED
  BY <1>1, SoundRead, KeptBack DEF ReadOf

LEMMA RestoredClean ==
    ASSUME Ready, ~foreign', Watched, NEW c \in Pasts, Restore(c), torn' = Torn, laidOut,
           \A s \in Pasts' : s \in Pasts \cup {Encode(sc)},
           UNCHANGED <<act, clip, saveVars, diskVars, ids>>
    PROVE  Clean'
<1>1. ids \in Nat /\ ids' \in Nat /\ Proper(c)
  BY IdsAre
<1>2. Clear(c, ids)
  BY DEF Ready, Clean, SoundPast
<1>3. PICK n \in Nat : n = ids /\ n = ids' /\ n >= ids
  BY <1>1
<1>4. PICK t : t = ScenarioFromDTO(c, n) /\ sc' = t
  BY <1>3 DEF Restore
<1>5. ReadOf(c, t)
  BY <1>1, <1>2, <1>4, ReadBack DEF Clear
<1>6. Clear(sc', ids')
  BY <1>2, <1>3, <1>4, <1>5, ClearRead
<1>7. SoundHand'
  BY KeyHand
<1>9. UNCHANGED <<files, clip, blocks, lastSaved, laidOut>>
  BY DEF diskVars, saveVars
<1>10. SoundPast' /\ SoundShelf' /\ SoundSaves'
  BY <1>3, <1>6, <1>9, PastKept, ShelfKept, SavesKept
<1> QED
  BY <1>7, <1>10 DEF Clean

LEMMA UndoClean == ASSUME Ready, ~foreign', Watched, Undo \/ Redo PROVE Clean'
<1>1. /\ UNCHANGED sc \/ \E c \in Pasts : Restore(c)
      /\ \A s \in Pasts' : s \in Pasts \cup {Encode(sc)}
  BY UndoFits, RedoFits DEF Ready
<1>2. laidOut /\ torn' = Torn /\ UNCHANGED <<act, clip, saveVars, diskVars, ids>>
  BY DEF Undo, Redo
<1>3. CASE UNCHANGED sc
  <2>1. ids' >= ids /\ Clear(sc', ids') /\ UNCHANGED <<files, clip, blocks, lastSaved, laidOut>>
    BY <1>2, <1>3, IdsAre DEF Ready, Clean, SoundPast, diskVars, saveVars
  <2>2. SoundHand'
    BY <1>2, KeyHand
  <2>3. SoundPast' /\ SoundShelf' /\ SoundSaves'
    BY <1>1, <1>2, <2>1, PastKept, ShelfKept, SavesKept
  <2> QED
    BY <2>2, <2>3 DEF Clean
<1>4. CASE \E c \in Pasts : Restore(c)
  BY <1>1, <1>2, <1>4, RestoredClean
<1> QED
  BY <1>1, <1>3, <1>4

\* What is written reads back.
LEMMA WrittenReads ==
    ASSUME NEW fs, NEW t, Proper(t), SoundCanvas(t), NEW g, g = Put(fs, t.id, t),
           NEW s, IsScene(s), s.id = t.id, s.nodes = t.nodes, s.edges = t.edges
    PROVE  ReadsIn(g, s)
<1>1. PICK id : id = t.id
  OBVIOUS
<1>2. g[id] = t
  <2>1. g = Put(fs, id, t)
    BY <1>1
  <2> QED
    BY <2>1 DEF Put
<1>3. PICK r : r = ScenarioFromDTO(t, 0)
  OBVIOUS
<1>4. Kept(r) = Kept(t)
  <2>1. 0 \in Nat
    OBVIOUS
  <2> QED
    BY <1>3, <2>1, ReadBack
<1>5. KeptNodes(s.nodes) = KeptNodes(t.nodes) /\ KeptEdges(s.edges) = KeptEdges(t.edges)
  OBVIOUS
<1>6. Kept(s) = Kept(t)
  <2>1. IsScene(t)
    BY ProperNumbered
  <2> QED
    BY <1>5, <2>1, KeptShape
<1>7. Kept(ScenarioFromDTO(g[s.id], 0)) = Kept(s)
  BY <1>1, <1>2, <1>3, <1>4, <1>6
<1> QED
  BY <1>7 DEF ReadsIn

\* The same canvas, with another view.
LEMMA SameReads ==
    ASSUME NEW fs, NEW t, IsScene(t), ReadsIn(fs, t), NEW s, IsScene(s), s.id = t.id, s.nodes = t.nodes, s.edges = t.edges
    PROVE  ReadsIn(fs, s)
<1>1. KeptNodes(s.nodes) = KeptNodes(t.nodes) /\ KeptEdges(s.edges) = KeptEdges(t.edges)
  OBVIOUS
<1>2. Kept(s) = Kept(t)
  BY <1>1, KeptShape
<1> QED
  BY <1>2 DEF ReadsIn

\* A file is written.
LEMMA ShelfWritten ==
    ASSUME Ready, NEW s, SoundCanvas(s), s.id \in Nat, s.id <= ids', files' = Written(s), UNCHANGED <<clip, blocks>>, ids' >= ids
    PROVE  SoundShelf'
<1>1. PICK id : id = s.id
  OBVIOUS
<1>2. PICK g : g = Put(files, id, s)
  OBVIOUS
<1>3. DOMAIN files' = DOMAIN files \cup {id} /\ files'[id] = s /\ \A k \in DOMAIN files \ {id} : files'[k] = files[k]
  <2>1. DOMAIN g = DOMAIN files \cup {id} /\ g[id] = s /\ \A k \in DOMAIN files \ {id} : g[k] = files[k]
    BY <1>2 DEF Put
  <2>2. files' = g
    BY <1>1, <1>2 DEF Written
  <2> QED
    BY <2>1, <2>2
<1>4. \A f \in DOMAIN files : f \in Nat /\ f <= ids /\ SoundCanvas(files[f])
  BY DEF Ready, Clean, SoundShelf, Fitting, Listing, IsNumbered
<1>5. ids \in Nat /\ ids' \in Nat
  BY IdsAre
<1>6. \A f \in DOMAIN files : f <= ids'
  BY <1>4, <1>5
<1>7. \A f \in DOMAIN files' : SoundCanvas(files'[f]) /\ f <= ids'
  <2> TAKE f \in DOMAIN files'
  <2>1. CASE f = id
    BY <1>1, <1>3, <2>1
  <2>2. CASE f # id
    BY <1>3, <1>4, <1>6, <2>2
  <2> QED
    BY <2>1, <2>2
<1> QED
  BY <1>7 DEF Ready, Clean, SoundShelf

\* The canvas is taken for saved.
LEMMA SavedNow ==
    ASSUME Ready, Clear(sc', ids'), ReadsIn(files', sc'),
           NEW c, lastSaved' = <<c>>, IsScene(c), c.id = sc'.id, c.nodes = sc'.nodes, c.edges = sc'.edges
    PROVE  SoundSaves'
<1>1. PICK t : t = sc'
  OBVIOUS
<1>2. Proper(t) /\ ReadsIn(files', t) /\ t.id <= ids' /\ t.id \in Nat /\ IsScene(t)
  BY <1>1, IdsAre, ProperNumbered DEF Clear, Below
<1>3. ReadsIn(files', c)
  BY <1>1, <1>2, SameReads
<1>4. ToSet(lastSaved') = {c}
  BY OneList
<1> QED
  BY <1>1, <1>2, <1>3, <1>4 DEF SoundSaves

\* The canvas is written and taken for saved.
LEMMA WrittenSaved ==
    ASSUME Ready, Clear(sc', ids'), files' = Written(sc'), lastSaved' = <<Encode(sc')>>
    PROVE  SoundSaves'
<1>1. PICK t, c : t = sc' /\ c = Encode(sc')
  OBVIOUS
<1>2. Proper(t) /\ SoundCanvas(t) /\ c = Encode(t)
  BY <1>1, IdsAre DEF Clear
<1>3. Proper(c) /\ c.id = t.id /\ c.nodes = t.nodes /\ c.edges = t.edges
  BY <1>2, ProperEncoded
<1>4. PICK g : g = Put(files, t.id, t)
  OBVIOUS
<1>5. files' = g
  BY <1>1, <1>4 DEF Written
<1>6. IsScene(t) /\ IsScene(c)
  BY <1>2, <1>3, ProperNumbered
<1>7. ReadsIn(g, t)
  BY <1>2, <1>4, <1>6, WrittenReads
<1> QED
  BY <1>1, <1>3, <1>5, <1>6, <1>7, SavedNow

LEMMA SavingClean == ASSUME Ready, SaveScenario \/ Autosave PROVE Clean'
<1>1. /\ sc' = Synced(sc) /\ files' = Written(sc') /\ lastSaved' = <<Encode(sc)>>
      /\ UNCHANGED <<history, clip, act, blocks, laidOut, ids>> /\ laidOut
  BY DEF SaveScenario, Autosave, Write
<1>2. PICK t, c : t = sc' /\ c = Encode(sc)
  OBVIOUS
<1>3. Proper(sc) /\ Clear(sc, ids)
  BY IdsAre DEF Ready, Clean, SoundPast
<1>4. t = Synced(sc)
  BY <1>1, <1>2
<1>5. Proper(t) /\ t.id = sc.id /\ t.nodes = sc.nodes /\ t.edges = sc.edges
  BY <1>3, <1>4, ProperEncoded
<1>6. Proper(c) /\ c.id = sc.id /\ c.nodes = sc.nodes /\ c.edges = sc.edges
  BY <1>2, <1>3, ProperEncoded
<1>7. Clear(t, ids)
  BY <1>3, <1>4, ClearEncoded
<1>8. IsScene(t) /\ t.id \in Nat /\ SoundCanvas(t) /\ t.id <= ids'
  BY <1>1, <1>5, <1>7, ProperNumbered DEF Clear, Below
<1>9. PICK g : g = Put(files, t.id, t)
  OBVIOUS
<1>10. files' = g
  BY <1>1, <1>2, <1>9 DEF Written
<1>11. ReadsIn(g, t)
  BY <1>5, <1>8, <1>9, WrittenReads
<1>12. Clear(sc', ids') /\ ids' >= ids
  BY <1>1, <1>2, <1>7, IdsAre
<1>13. SoundSaves'
  BY <1>1, <1>2, <1>5, <1>6, <1>10, <1>11, <1>12, ProperNumbered, SavedNow
<1>14. SoundShelf'
  BY <1>1, <1>2, <1>8, <1>12, ShelfWritten
<1>15. SoundHand'
  BY <1>1, <1>2, <1>5, HandKept
<1>16. SoundPast'
  <2>1. \A s \in Pasts' : s \in Pasts \cup {Encode(sc)}
    BY <1>1 DEF history, Pasts
  <2> QED
    BY <1>12, <2>1, PastKept
<1> QED
  BY <1>13, <1>14, <1>15, <1>16 DEF Clean

LEMMA FirstFrameClean == ASSUME Ready, FirstFrame PROVE Clean'
<1>1. /\ lastSaved' = <<Encode(sc)>> /\ ~laidOut /\ laidOut'
      /\ UNCHANGED <<sc, history, clip, act, files, blocks, ids>>
  BY DEF FirstFrame, diskVars
<1>2. PICK c : c = Encode(sc)
  OBVIOUS
<1>3. Proper(sc) /\ Clear(sc, ids) /\ ReadsIn(files, sc) /\ ids' >= ids
  BY <1>1, IdsAre DEF Ready, Clean, SoundPast, SoundSaves
<1>4. Proper(c) /\ c.id = sc.id /\ c.nodes = sc.nodes /\ c.edges = sc.edges
  BY <1>2, <1>3, ProperEncoded
<1>5. IsScene(c) /\ lastSaved' = <<c>> /\ ReadsIn(files', sc') /\ Clear(sc', ids') /\ c.id = sc'.id /\ c.nodes = sc'.nodes /\ c.edges = sc'.edges
  BY <1>1, <1>2, <1>3, <1>4, ProperNumbered
<1>6. SoundSaves'
  BY <1>5, SavedNow
<1>7. SoundShelf' /\ SoundHand'
  BY <1>1, <1>3, ShelfKept, HandKept
<1> QED
  BY <1>1, <1>6, <1>7, RestClean

LEMMA ShowViewClean == ASSUME Ready, NEW v, ShowView(v) PROVE Clean'
  BY LookClean DEF ShowView

LEMMA AddRequestClean == ASSUME Ready, ~foreign', Watched, NEW r, NEW at, AddRequestNode(r, at) PROVE Clean'
<1>0. ids \in Nat
  BY IdsAre
<1>1. PICK x, y : x = at[1] - NodeW \div 2 /\ y = at[2] - NodeH \div 2
  OBVIOUS
<1>2. PICK n : n = NodeFromRequest(ids + 1, r, x, y)
  OBVIOUS
<1>3. GoodNode(n) /\ n.id = ids + 1
  BY <1>0, <1>2, RequestMade
<1>4. PICK t : t = WithNew(<<n>>)
  OBVIOUS
<1>5. SoundCanvas(t)
  BY <1>3, <1>4, OneBeside
<1>6. act = Idle /\ UNCHANGED <<act, clip, blocks>> /\ files' = Written(sc') /\ lastSaved' = <<Encode(sc')>>
  BY DEF AddRequestNode, Write
<1>7. PICK c : Changing(t, c)
  BY <1>1, <1>2, <1>4 DEF AddRequestNode
<1>8. sc' = t
  BY <1>7 DEF Changing
<1>9. SoundPast' /\ ids' >= ids
  BY <1>5, <1>7, ChangedPast
<1>10. SoundHand'
  BY <1>6, IdleHand
<1>11. Proper(t) /\ Clear(t, ids')
  BY <1>8, <1>9, IdsAre DEF SoundPast
<1>12. IsScene(t) /\ t.id \in Nat /\ t.id <= ids'
  BY <1>11, ProperNumbered DEF Clear, Below
<1>13. SoundShelf'
  BY <1>5, <1>6, <1>8, <1>9, <1>12, ShelfWritten
<1>14. SoundSaves'
  BY <1>6, <1>8, <1>11, <1>12, WrittenSaved
<1> QED
  BY <1>9, <1>10, <1>13, <1>14 DEF Clean

-----------------------------------------------------------------------------
(* The list of scenarios.                                                   *)

LEMMA PastLater ==
    ASSUME Ready, sc'.id = sc.id, sc'.nodes = sc.nodes, sc'.edges = sc.edges, UNCHANGED history, ids' >= ids
    PROVE  SoundPast'
<1>1. PICK n \in Nat, m \in Nat : n = ids /\ m = ids' /\ m >= n
  BY IdsAre
<1>2. PICK t : t = sc'
  OBVIOUS
<1>3. Proper(sc) /\ Clear(sc, n)
  BY <1>1, IdsAre DEF Ready, Clean, SoundPast
<1>4. Clear(sc, m)
  BY <1>1, <1>3, ClearLater
<1>5. Clear(t, m)
  BY <1>2, <1>4, SoundSame DEF Clear
<1>6. \A s \in Pasts' : s \in Pasts \cup {Encode(sc)}
  BY DEF history, Pasts
<1> QED
  BY <1>1, <1>2, <1>5, <1>6, PastKept

SameText(a, b) == Kept(ScenarioFromDTO(a, 0)) = Kept(ScenarioFromDTO(b, 0))

\* The canvas and what was saved have numbers that were given out before.
LEMMA FilesClean ==
    ASSUME Ready, act = Idle, sc'.id = sc.id, sc'.nodes = sc.nodes, sc'.edges = sc.edges, ids' >= ids,
           UNCHANGED <<history, act, clip, blocks, lastSaved, laidOut>>,
           \A f \in DOMAIN files' : SoundCanvas(files'[f]) /\ f <= ids',
           \A f \in DOMAIN files' : f <= ids => f \in DOMAIN files /\ SameText(files'[f], files[f])
    PROVE  Clean'
<1>1. SoundPast' /\ SoundHand'
  BY PastLater, IdleHand
<1>2. SoundShelf'
  BY DEF Ready, Clean, SoundShelf
<1>3. ids \in Nat /\ ids' \in Nat /\ Proper(sc) /\ Proper(sc') /\ Clear(sc, ids)
  BY IdsAre DEF Ready, Clean, SoundPast
<1>4. ASSUME NEW s, s.id <= ids, ReadsIn(files, s)
      PROVE  ReadsIn(files', s)
  BY <1>4 DEF ReadsIn, SameText
<1>5. \A s \in ToSet(lastSaved) : ReadsIn(files, s) /\ s.id \in Nat /\ s.id <= ids
  BY DEF Ready, Clean, SoundSaves
<1>6. \A s \in ToSet(lastSaved) : ReadsIn(files', s) /\ s.id \in Nat /\ s.id <= ids'
  BY <1>3, <1>4, <1>5
<1>7. ~laidOut => ReadsIn(files', sc')
  <2> SUFFICES ASSUME ~laidOut PROVE ReadsIn(files', sc')
    OBVIOUS
  <2>1. PICK t : t = sc'
    OBVIOUS
  <2>2. ReadsIn(files', sc)
    BY <1>3, <1>4 DEF Ready, Clean, SoundSaves, Clear, Below
  <2>3. IsScene(sc) /\ IsScene(t)
    BY <1>3, <2>1, ProperNumbered
  <2>4. ReadsIn(files', t)
    BY <2>1, <2>2, <2>3, SameReads
  <2> QED
    BY <2>1, <2>4
<1>8. SoundSaves'
  BY <1>6, <1>7 DEF SoundSaves
<1> QED
  BY <1>1, <1>2, <1>8 DEF Clean

LEMMA FilesNumbers ==
    ASSUME Ready
    PROVE  ids \in Nat /\ \A f \in DOMAIN files : f \in Nat /\ f <= ids /\ SoundCanvas(files[f]) /\ IsScene(files[f]) /\ IsNumbered(files[f]) /\ files[f].id = f /\ f # NoId
<1>1. ids \in Nat
  BY IdsAre
<1>2. \A f \in DOMAIN files : f # OrderFile
  BY DEF Ready, Fitting, Listing
<1> QED
  BY <1>1, <1>2 DEF Ready, Clean, SoundShelf, Fitting, Listing, IsNumbered, OrderFile, NoId

LEMMA OnDiskClean ==
    ASSUME Ready, ~foreign', Watched, act = Idle, NEW s, IsScene(s), IsNumbered(s), s.id = ids + 1, OnDisk(s)
    PROVE  Clean'
<1>1. UNCHANGED <<sc, history, act, clip, blocks, lastSaved, laidOut>> /\ files' = Written(s) /\ ids' = Taken(ids, s)
  BY DEF OnDisk, Write, saveVars
<1>0. PICK id : id = s.id
  OBVIOUS
<1>2. PICK n \in Nat : n = ids /\ id = s.id /\ id = n + 1
  BY <1>0, IdsAre
<1>3. PICK g : g = Put(files, id, s)
  OBVIOUS
<1>4. DOMAIN g = DOMAIN files \cup {id} /\ g[id] = s /\ \A k \in DOMAIN files \ {id} : g[k] = files[k]
  BY <1>3 DEF Put
<1>5. files' = g
  BY <1>1, <1>2, <1>3 DEF Written
<1>6. Taken(n, s) >= n /\ Taken(n, s) >= s.id /\ Taken(n, s) \in Nat
  BY <1>2, TakenFacts
<1>7. \A f \in DOMAIN files : f \in Nat /\ f <= n /\ f # id /\ SoundCanvas(files[f])
  BY <1>2, FilesNumbers
<1>8. SoundCanvas(s)
  <2>1. id \in DOMAIN files' \ DOMAIN files
    BY <1>4, <1>5, <1>7
  <2>2. SoundCanvas(files'[id])
    BY <2>1 DEF Watched
  <2> QED
    BY <1>4, <1>5, <2>2
<1>9. PICK m \in Nat : m = ids' /\ m >= n /\ m >= id
  BY <1>1, <1>2, <1>6
<1>10. \A f \in DOMAIN files : f <= m
  BY <1>7, <1>9
<1>11. \A f \in DOMAIN g : SoundCanvas(g[f]) /\ f <= m
  <2> TAKE f \in DOMAIN g
  <2>1. CASE f = id
    BY <1>4, <1>8, <1>9, <2>1
  <2>2. CASE f # id
    BY <1>4, <1>7, <1>10, <2>2
  <2> QED
    BY <2>1, <2>2
<1>12. \A f \in DOMAIN g : f <= n => f \in DOMAIN files /\ g[f] = files[f]
  <2>1. ~(id <= n)
    BY <1>2
  <2> QED
    BY <1>4, <2>1
<1>13. \A f \in DOMAIN g : f <= n => f \in DOMAIN files /\ SameText(g[f], files[f])
  BY <1>12 DEF SameText
<1> QED
  BY <1>1, <1>2, <1>5, <1>9, <1>11, <1>13, FilesClean

LEMMA NewFileClean ==
    ASSUME Ready, ~foreign', Watched,
           (\E id : DuplicateScenario(id)) \/ (\E dto \in Imports : ImportScenario(dto))
    PROVE  Clean'
<1>1. PICK t : IsScene(t) /\ IsNumbered(t) /\ t.id = ids + 1 /\ OnDisk(t)
  BY DuplicateFits, ImportFits DEF Ready
<1>2. act = Idle
  BY DEF DuplicateScenario, ImportScenario
<1> QED
  BY <1>1, <1>2, OnDiskClean

\* The list and the files, when none is new.
LEMMA FewerClean ==
    ASSUME Ready, act = Idle, ids' >= ids,
           UNCHANGED <<sc, history, act, clip, blocks, lastSaved, laidOut>>,
           \A f \in DOMAIN files' : f \in DOMAIN files /\ files'[f] = files[f]
    PROVE  Clean'
<1>1. \A f \in DOMAIN files : f \in Nat /\ f <= ids /\ SoundCanvas(files[f])
  BY FilesNumbers
<1>2. ids \in Nat /\ ids' \in Nat
  BY IdsAre
<1>3. \A f \in DOMAIN files : f <= ids'
  BY <1>1, <1>2
<1>4. \A f \in DOMAIN files' : SoundCanvas(files'[f]) /\ f <= ids'
  BY <1>1, <1>3
<1>5. \A f \in DOMAIN files' : f <= ids => f \in DOMAIN files /\ SameText(files'[f], files[f])
  BY DEF SameText
<1> QED
  BY <1>4, <1>5, FilesClean

LEMMA DeleteScenarioClean == ASSUME Ready, NEW id, DeleteScenario(id) PROVE Clean'
<1>1. act = Idle /\ UNCHANGED <<sc, history, act, clip, blocks, lastSaved, laidOut, ids>>
  BY DEF DeleteScenario, Listed, saveVars
<1>2. files' = files \/ files' = [f \in DOMAIN files \ {id} |-> files[f]]
  BY DEF DeleteScenario
<1>3. \A f \in DOMAIN files' : f \in DOMAIN files /\ files'[f] = files[f]
  BY <1>2
<1>4. ids' >= ids
  BY <1>1, IdsAre
<1> QED
  BY <1>1, <1>3, <1>4, FewerClean

LEMMA OrderClean ==
    ASSUME Ready, (\E from, to : MoveScenario(from, to)) \/ (\E after : AddSeparator(after))
    PROVE  Clean'
<1>1. /\ act = Idle /\ UNCHANGED <<sc, history, act, clip, blocks, lastSaved, laidOut, files>>
      /\ ids' = ids \/ ids' = ids + 1
  BY DEF MoveScenario, AddSeparator, Listed, saveVars
<1>2. ids' >= ids
  BY <1>1, IdsAre
<1>3. \A f \in DOMAIN files' : f \in DOMAIN files /\ files'[f] = files[f]
  BY <1>1
<1> QED
  BY <1>1, <1>2, <1>3, FewerClean

\* What is read, is read of the nodes and the arrows.
LEMMA RenamedText ==
    ASSUME NEW s, IsScene(s), IsNumbered(s), s.id # NoId, SoundCanvas(s),
           NEW t, IsScene(t), IsNumbered(t), t.id = s.id, t.nodes = s.nodes, t.edges = s.edges
    PROVE  SoundCanvas(t) /\ SameText(t, s)
<1>1. SoundCanvas(t)
  BY SoundSame
<1>2. PICK a, b : a = ScenarioFromDTO(s, 0) /\ b = ScenarioFromDTO(t, 0)
  OBVIOUS
<1>3. 0 \in Nat
  OBVIOUS
<1>4. /\ Proper(a) /\ a.id = s.id
      /\ a.nodes = [i \in DOMAIN s.nodes |-> NodeFromDTO(s.nodes[i], 0)]
      /\ a.edges = [i \in DOMAIN s.edges |-> EdgeFromDTO(s.edges[i], 0)]
  BY <1>2, <1>3, SoundRead
<1>5. /\ Proper(b) /\ b.id = t.id
      /\ b.nodes = [i \in DOMAIN t.nodes |-> NodeFromDTO(t.nodes[i], 0)]
      /\ b.edges = [i \in DOMAIN t.edges |-> EdgeFromDTO(t.edges[i], 0)]
  <2>1. t.id # NoId
    OBVIOUS
  <2> QED
    BY <1>1, <1>2, <1>3, <2>1, SoundRead
<1>6. IsScene(a) /\ IsScene(b) /\ b.id = a.id /\ b.nodes = a.nodes /\ b.edges = a.edges
  BY <1>4, <1>5, ProperNumbered
<1>7. KeptNodes(b.nodes) = KeptNodes(a.nodes) /\ KeptEdges(b.edges) = KeptEdges(a.edges)
  BY <1>6
<1>8. Kept(b) = Kept(a)
  BY <1>6, <1>7, KeptShape
<1> QED
  BY <1>1, <1>2, <1>8 DEF SameText

LEMMA RenameClean == ASSUME Ready, NEW id, NEW name, RenameScenario(id, name) PROVE Clean'
<1>1. sc'.id = sc.id /\ sc'.nodes = sc.nodes /\ sc'.edges = sc.edges
  BY RenameFits DEF Ready
<1>2. PICK f, t : /\ f = files[id] /\ IsScene(t) /\ IsNumbered(t) /\ t.id = id
                  /\ t.nodes = f.nodes /\ t.edges = f.edges /\ Write(t)
  BY RenameFits DEF Ready
<1>3. id \in DOMAIN files /\ act = Idle /\ UNCHANGED <<history, act, clip, blocks, lastSaved, laidOut, ids>>
  BY <1>2 DEF RenameScenario, Write, saveVars
<1>4. IsScene(f) /\ IsNumbered(f) /\ f.id # NoId /\ f.id = id /\ SoundCanvas(f) /\ id <= ids
  BY <1>2, <1>3, FilesNumbers
<1>5. SoundCanvas(t) /\ SameText(t, f)
  BY <1>2, <1>4, RenamedText
<1>6. PICK g : g = Put(files, id, t)
  OBVIOUS
<1>7. DOMAIN g = DOMAIN files /\ g[id] = t /\ \A k \in DOMAIN files \ {id} : g[k] = files[k]
  BY <1>3, <1>6 DEF Put
<1>8. files' = g
  BY <1>2, <1>6 DEF Write, Written
<1>9. \A k \in DOMAIN g : k \in DOMAIN files /\ SoundCanvas(g[k]) /\ k <= ids /\ SameText(g[k], files[k])
  <2> TAKE k \in DOMAIN g
  <2>1. CASE k = id
    BY <1>2, <1>3, <1>4, <1>5, <1>7, <2>1
  <2>2. CASE k # id
    BY <1>7, <2>2, FilesNumbers DEF SameText
  <2> QED
    BY <2>1, <2>2
<1>10. ids' >= ids
  BY <1>3, IdsAre
<1>11. /\ \A k \in DOMAIN files' : SoundCanvas(files'[k]) /\ k <= ids'
       /\ \A k \in DOMAIN files' : k <= ids => k \in DOMAIN files /\ SameText(files'[k], files[k])
  BY <1>3, <1>8, <1>9
<1> QED
  BY <1>1, <1>3, <1>10, <1>11, FilesClean

-----------------------------------------------------------------------------
(* Another scenario.                                                        *)

LEMMA ClearTaken ==
    ASSUME NEW n \in Nat, NEW t, Proper(t), SoundCanvas(t)
    PROVE  Taken(n, t) \in Nat /\ Taken(n, t) >= n /\ Clear(t, Taken(n, t))
<1>1. IsScene(t) /\ IsNumbered(t) /\ t.id \in Nat
  BY ProperNumbered
<1>2. PICK m : m = Taken(n, t)
  OBVIOUS
<1>3. m \in Nat /\ m >= n /\ m >= t.id /\ \A x \in IdsOf(t.nodes) \cup IdsOf(t.edges) : m >= x
  BY <1>1, <1>2, TakenFacts
<1>4. IdsOf(t.nodes) \subseteq Nat /\ IdsOf(t.edges) \subseteq Nat
  BY <1>1, NumberedIds
<1>5. Below(t, m)
  BY <1>1, <1>3, <1>4 DEF Below
<1> QED
  BY <1>2, <1>3, <1>5 DEF Clear

\* A file is read; ids that are missing make no difference.
LEMMA FileReads ==
    ASSUME NEW fs, NEW id \in DOMAIN fs, NEW s, s = fs[id], s.id = id, id # NoId,
           IsScene(s), IsNumbered(s), SoundCanvas(s), NEW n \in Nat, NEW t, t = ScenarioFromDTO(s, n)
    PROVE  Proper(t) /\ SoundCanvas(t) /\ t.id = id /\ ReadsIn(fs, t)
<1>1. PICK a : a = ScenarioFromDTO(s, 0)
  OBVIOUS
<1>2. 0 \in Nat
  OBVIOUS
<1>3. /\ Proper(a) /\ a.id = s.id
      /\ a.nodes = [i \in DOMAIN s.nodes |-> NodeFromDTO(s.nodes[i], 0)]
      /\ a.edges = [i \in DOMAIN s.edges |-> EdgeFromDTO(s.edges[i], 0)]
  BY <1>1, <1>2, SoundRead
<1>4. /\ Proper(t) /\ t.id = s.id /\ SoundCanvas(t)
      /\ t.nodes = [i \in DOMAIN s.nodes |-> NodeFromDTO(s.nodes[i], 0)]
      /\ t.edges = [i \in DOMAIN s.edges |-> EdgeFromDTO(s.edges[i], 0)]
  BY SoundRead
<1>5. IsScene(a) /\ IsScene(t) /\ t.id = a.id /\ t.nodes = a.nodes /\ t.edges = a.edges
  BY <1>3, <1>4, ProperNumbered
<1>6. KeptNodes(a.nodes) = KeptNodes(t.nodes) /\ KeptEdges(a.edges) = KeptEdges(t.edges)
  BY <1>5
<1>7. Kept(a) = Kept(t)
  BY <1>5, <1>6, KeptShape
<1> QED
  BY <1>1, <1>4, <1>7 DEF ReadsIn

\* The view that is left is written with the scenario.
LEMMA FlushedFiles ==
    ASSUME Ready, files' = files \/ files' = Written(Synced(sc))
    PROVE  \A f \in DOMAIN files' : /\ f \in Nat /\ f <= ids /\ SoundCanvas(files'[f])
                                    /\ f \in DOMAIN files \cup {sc.id} /\ (f # sc.id => files'[f] = files[f])
<1>1. Proper(sc) /\ Clear(sc, ids) /\ ids \in Nat
  BY IdsAre DEF Ready, Clean, SoundPast
<1>2. PICK t, id : t = Synced(sc) /\ id = sc.id
  OBVIOUS
<1>3. Proper(t) /\ t.id = id /\ SoundCanvas(t) /\ id \in Nat /\ id <= ids
  BY <1>1, <1>2, ProperEncoded, ClearEncoded, ProperNumbered DEF Clear, Below
<1>4. \A f \in DOMAIN files : f \in Nat /\ f <= ids /\ SoundCanvas(files[f])
  BY FilesNumbers
<1>5. CASE files' = files
  BY <1>4, <1>5
<1>6. CASE files' = Written(Synced(sc))
  <2>1. PICK g : g = Put(files, id, t)
    OBVIOUS
  <2>2. DOMAIN g = DOMAIN files \cup {id} /\ g[id] = t /\ \A k \in DOMAIN files \ {id} : g[k] = files[k]
    BY <2>1 DEF Put
  <2>3. files' = g
    <3>1. files' = Put(files, t.id, t)
      BY <1>2, <1>6 DEF Written
    <3> QED
      BY <1>3, <2>1, <3>1
  <2>4. \A f \in DOMAIN g : f \in Nat /\ f <= ids /\ SoundCanvas(g[f])
    <3> TAKE f \in DOMAIN g
    <3>1. CASE f = id
      BY <1>3, <2>2, <3>1
    <3>2. CASE f # id
      BY <1>4, <2>2, <3>2
    <3> QED
      BY <3>1, <3>2
  <2>5. \A f \in DOMAIN g : f \in DOMAIN files \cup {id} /\ (f # id => g[f] = files[f])
    BY <2>2
  <2> QED
    BY <1>2, <2>3, <2>4, <2>5
<1> QED
  BY <1>5, <1>6

LEMMA ShelfIs ==
    ASSUME Ready, \A f \in DOMAIN files' : f \in Nat /\ f <= ids /\ SoundCanvas(files'[f]),
           UNCHANGED blocks, SoundDrawing(clip'), ids' >= ids
    PROVE  SoundShelf'
<1>1. ids \in Nat /\ ids' \in Nat
  BY IdsAre
<1>2. \A f \in DOMAIN files' : f <= ids'
  BY <1>1
<1> QED
  BY <1>2 DEF Ready, Clean, SoundShelf

LEMMA PushedPast ==
    ASSUME Ready, PushHistory, Clear(sc', ids'), ids' >= ids
    PROVE  SoundPast'
<1>1. Push(Encode(sc)) /\ snap' = snap /\ Proper(Encode(sc))
  BY IdsAre, EncodedProper DEF PushHistory
<1>2. \A s \in Pasts' : s \in Pasts \cup {Encode(sc)}
  BY <1>1, Pushed
<1> QED
  BY <1>2, PastKept

LEMMA OpenClean == ASSUME Ready, NEW id, OpenScenario(id) PROVE Clean'
<1>1. /\ act = Idle /\ id \in DOMAIN files /\ id # sc.id /\ PushHistory
      /\ UNCHANGED <<act, clip, blocks>> /\ (files' = files \/ files' = Written(Synced(sc)))
  BY DEF OpenScenario, Write, diskVars
<1>2. sc' = ScenarioFromDTO(files[id], ids) /\ ids' = Taken(ids, sc') /\ lastSaved' = <<Encode(sc')>>
  BY DEF OpenScenario
<1>3. PICK n \in Nat : n = ids
  BY IdsAre
<1>4. PICK s, t, c : s = files[id] /\ t = sc' /\ c = Encode(sc')
  OBVIOUS
<1>5. IsScene(s) /\ IsNumbered(s) /\ s.id = id /\ id # NoId /\ SoundCanvas(s) /\ t = ScenarioFromDTO(s, n)
  BY <1>1, <1>2, <1>3, <1>4, FilesNumbers
<1>6. Proper(t) /\ SoundCanvas(t) /\ t.id = id /\ ReadsIn(files, t)
  BY <1>1, <1>4, <1>5, FileReads
<1>7. Taken(n, t) >= n /\ Clear(t, Taken(n, t))
  BY <1>6, ClearTaken
<1>8. ids' >= ids /\ Clear(sc', ids')
  BY <1>2, <1>3, <1>4, <1>7
<1>9. SoundPast' /\ SoundHand'
  BY <1>1, <1>8, PushedPast, IdleHand
<1>10. SoundDrawing(clip')
  BY <1>1 DEF Ready, Clean, SoundShelf
<1>11. \A f \in DOMAIN files' : /\ f \in Nat /\ f <= ids /\ SoundCanvas(files'[f])
                               /\ f \in DOMAIN files \cup {sc.id} /\ (f # sc.id => files'[f] = files[f])
  BY <1>1, FlushedFiles
<1>12. ReadsIn(files', t)
  BY <1>1, <1>6, <1>11 DEF ReadsIn
<1>13. c = Encode(t) /\ IsScene(c) /\ c.id = t.id /\ c.nodes = t.nodes /\ c.edges = t.edges
  BY <1>4, <1>6, ProperEncoded, ProperNumbered
<1>14. SoundSaves'
  BY <1>2, <1>4, <1>8, <1>12, <1>13, SavedNow
<1>15. SoundShelf'
  BY <1>1, <1>8, <1>10, <1>11, ShelfIs
<1> QED
  BY <1>9, <1>14, <1>15 DEF Clean

LEMMA CreateClean == ASSUME Ready, CreateNew PROVE Clean'
<1>1. /\ act = Idle /\ PushHistory /\ UNCHANGED <<act, clip, blocks>>
      /\ sc' = NewScenario(ids + 1) /\ ids' = ids + 2 /\ files' = Written(sc') /\ lastSaved' = <<Encode(sc')>>
  BY DEF CreateNew, Write
<1>2. PICK n \in Nat : n = ids /\ n + 1 \in Nat \ {0} /\ ids' = n + 2 /\ n + 2 >= n /\ n + 1 <= n + 2 /\ (n + 1) + 1 = n + 2
  BY <1>1, IdsAre
<1>3. PICK t : t = sc'
  OBVIOUS
<1>4. t = NewScenario(n + 1)
  BY <1>1, <1>2, <1>3
<1>5. Proper(t) /\ t.id = n + 1 /\ SoundCanvas(t) /\ IdsOf(t.nodes) = {(n + 1) + 1} /\ IdsOf(t.edges) = {}
  BY <1>2, <1>4, ProperNew, SoundNew
<1>6. Below(t, n + 2)
  BY <1>2, <1>5 DEF Below
<1>7. Clear(sc', ids') /\ ids' >= ids
  BY <1>2, <1>3, <1>5, <1>6 DEF Clear
<1>8. SoundPast' /\ SoundHand'
  BY <1>1, <1>7, PushedPast, IdleHand
<1>9. t.id \in Nat /\ t.id <= ids' /\ files' = Written(t)
  BY <1>1, <1>2, <1>3, <1>5
<1>10. SoundShelf'
  BY <1>1, <1>5, <1>7, <1>9, ShelfWritten
<1>11. SoundSaves'
  BY <1>1, <1>7, WrittenSaved
<1> QED
  BY <1>8, <1>10, <1>11 DEF Clean

\* What is shown when the program starts.
LEMMA LatestClear ==
    ASSUME NEW fs, NEW n \in Nat \ {0}, NEW named, IsList(named), ToSet(named) \ {OrderFile} \subseteq DOMAIN fs,
           \A f \in DOMAIN fs : /\ f \in Nat /\ f <= n /\ f # NoId /\ IsScene(fs[f]) /\ IsNumbered(fs[f])
                                /\ fs[f].id = f /\ SoundCanvas(fs[f]),
           NEW t, t = Latest(fs, named, n)
    PROVE  Proper(t) /\ SoundCanvas(t) /\ ReadsIn(fs, t)
<1>1. CASE named = <<>> \/ Last(named) = OrderFile
  <2>1. t = NewScenario(n + 1) /\ n + 1 \in Nat \ {0}
    BY <1>1 DEF Latest
  <2>2. Proper(t) /\ t.id = n + 1 /\ SoundCanvas(t)
    BY <2>1, ProperNew, SoundNew
  <2>3. t.id \notin DOMAIN fs
    BY <2>2
  <2> QED
    BY <2>2, <2>3 DEF ReadsIn
<1>2. CASE named # <<>> /\ Last(named) # OrderFile
  <2>1. PICK f : f = Last(named)
    OBVIOUS
  <2>2. t = ScenarioFromDTO(fs[f], n)
    BY <1>2, <2>1 DEF Latest
  <2>3. f \in DOMAIN fs
    <3>1. PICK k \in Nat : k = Len(named) /\ DOMAIN named = 1..k /\ named \in Seq(ToSet(named))
      BY ListFacts
    <3>2. k # 0
      BY <1>2, <3>1
    <3>3. f = named[k] /\ k \in DOMAIN named
      BY <2>1, <3>1, <3>2 DEF Last
    <3> QED
      BY <1>2, <2>1, <3>3 DEF ToSet
  <2>4. PICK s : s = fs[f]
    OBVIOUS
  <2>5. s.id = f /\ f # NoId /\ IsScene(s) /\ IsNumbered(s) /\ SoundCanvas(s) /\ t = ScenarioFromDTO(s, n)
    BY <2>2, <2>3, <2>4
  <2> QED
    BY <2>3, <2>4, <2>5, FileReads
<1> QED
  BY <1>1, <1>2

LEMMA NoDrawing == ASSUME NEW p, p = [nodes |-> <<>>, edges |-> <<>>] PROVE SoundDrawing(p)
<1>1. PICK none : none = <<>>
  OBVIOUS
<1>2. p.nodes = none /\ p.edges = none /\ DOMAIN none = {} /\ ToSet(none) = {}
  BY <1>1, EmptyList
<1> QED
  BY <1>2 DEF SoundDrawing, Identified

LEMMA RestartClean == ASSUME Ready, NEW flushed \in BOOLEAN, Restart(flushed) PROVE Clean' /\ Unseen'
<1>1. /\ files' = files \/ files' = Written(Synced(sc))
      /\ sc' = Latest(files', mods', ids) /\ ids' = Taken(ids, sc') /\ UNCHANGED blocks
      /\ undoStack' = <<>> /\ redoStack' = <<>> /\ snap' = <<>> /\ act' = Idle
      /\ clip' = [nodes |-> <<>>, edges |-> <<>>] /\ lastSaved' = <<>> /\ laidOut' = FALSE
  BY DEF Restart, FilesLeft, ResetEditor
<1>2. PICK n \in Nat \ {0} : n = ids
  BY DEF Ready, Fitting, Listing
<1>3. PICK fs, named, t : fs = files' /\ named = mods' /\ t = sc'
  OBVIOUS
<1>4. Proper(t) /\ n \in Nat
  BY <1>2, <1>3, IdsAre
<1>5. t = Latest(fs, named, n)
  BY <1>1, <1>2, <1>3
<1>6. \A f \in DOMAIN fs : f \in Nat /\ f # NoId /\ IsScene(fs[f]) /\ IsNumbered(fs[f]) /\ fs[f].id = f
  BY <1>3 DEF Ready, Fitting, Listing, IsNumbered, OrderFile, NoId
<1>7. IsList(named) /\ ToSet(named) \ {OrderFile} \subseteq DOMAIN fs
  BY <1>3 DEF Ready, Fitting, Listing, Distinct
<1>8. \A f \in DOMAIN fs : f <= n /\ SoundCanvas(fs[f])
  BY <1>1, <1>2, <1>3, FlushedFiles
<1>9. SoundCanvas(t) /\ ReadsIn(fs, t)
  BY <1>5, <1>6, <1>7, <1>8, LatestClear
<1>10. Taken(n, t) \in Nat /\ Taken(n, t) >= n /\ Clear(t, Taken(n, t))
  BY <1>4, <1>9, ClearTaken
<1>11. ids' >= ids /\ Clear(sc', ids')
  BY <1>1, <1>2, <1>3, <1>10
<1>12. Pasts' = {}
  <2>1. ToSet(undoStack') = {} /\ ToSet(redoStack') = {} /\ ToSet(snap') = {}
    BY <1>1, EmptyList
  <2> QED
    BY <2>1 DEF Pasts
<1>13. SoundPast'
  BY <1>11, <1>12 DEF SoundPast
<1>14. SoundHand'
  BY <1>1, IdleHand
<1>15. SoundDrawing(clip')
  BY <1>1, NoDrawing
<1>16. SoundShelf'
  BY <1>1, <1>2, <1>3, <1>6, <1>8, <1>11, <1>15, ShelfIs
<1>17. ToSet(lastSaved') = {}
  BY <1>1, EmptyList
<1>18. SoundSaves'
  BY <1>3, <1>9, <1>17 DEF SoundSaves
<1> QED
  BY <1>1, <1>13, <1>14, <1>16, <1>18 DEF Clean, Unseen

-----------------------------------------------------------------------------
(* The window's steps.                                                      *)

LEMMA GesturesClean == ASSUME Ready, ~foreign', Watched, GestureStep PROVE Clean'
<1>1. CASE \E id \in NodeIds : PressNode(id) \/ PressToSelect(id) \/ PressPort(id) \/ PressResize(id)
  BY <1>1, PressNodeClean, ChooseClean, PressPortClean, PressResizeClean
<1>2. CASE \E id \in IdsOf(sc.edges) : PressEdge(id) \/ \E freeTarget \in BOOLEAN : GrabEdge(id, freeTarget)
  BY <1>2, ChooseClean, GrabEdgeClean
<1>3. CASE PressCanvas
  BY <1>3, PressCanvasClean
<1>4. CASE \E by \in Offsets : Drag(by) \/ DragResize(by)
  BY <1>4, MovingClean
<1>5. CASE (\E v \in Views : DragView(v)) \/ (\E nodes \in SUBSET NodeIds : DragMarquee(nodes))
  BY <1>5, DraggedClean
<1>6. CASE FinishNowhere \/ Release
  BY <1>6, LetGoClean
<1>7. CASE \E id \in NodeIds : FinishOut(id) \/ FinishIn(id)
  BY <1>7, FinishOutClean, FinishInClean
<1> QED
  BY <1>1, <1>2, <1>3, <1>4, <1>5, <1>6, <1>7 DEF GestureStep

LEMMA KeysClean == ASSUME Ready, ~foreign', Watched, KeyStep PROVE Clean'
<1>1. CASE Undo \/ Redo
  BY <1>1, UndoClean
<1>2. CASE DeleteSelection \/ Escape \/ SelectAll \/ Copy
  BY <1>2, DeleteSelectionClean, EscapeClean, SelectAllClean, CopyClean
<1>3. CASE Paste(clip) \/ Paste(Copied)
  BY <1>3, CopiedSound, PasteClean
<1> QED
  BY <1>1, <1>2, <1>3 DEF KeyStep

LEMMA PanelClean == ASSUME Ready, ~foreign', Watched, PanelStep PROVE Clean'
<1>1. CASE \E at \in Points :
             \/ \E kind0 \in AddedKinds : AddNode(kind0, at)
             \/ \E id \in DOMAIN blocks : AddBlock(id, at)
             \/ \E requests \in Dropped : DropCollectionNode(requests, at)
  BY <1>1, AddNodeClean, AddBlockClean, DropClean
<1>2. CASE SaveSelectionAsBlock \/ \E id \in DOMAIN blocks : DeleteBlock(id)
  BY <1>2, SaveBlockClean, DeleteBlockClean
<1>3. CASE \/ \E key \in DOMAIN NodeChips : \E text \in NodeChips[key] : PickOnNode(key, text)
           \/ \E cond : PickCond(cond)
           \/ \E op \in EdgeOps : PickOp(op)
           \/ DeleteOnPanel
  BY <1>3, PickClean
<1>4. CASE \/ \E key, text : TypeOnNode(key, text)
           \/ \E key \in DOMAIN EdgeTexts : \E text : TypeOnEdge(key, text)
           \/ \E name : TypeName(name)
  BY <1>4, TypeClean
<1> QED
  BY <1>1, <1>2, <1>3, <1>4 DEF PanelStep

LEMMA SavesClean == ASSUME Ready, ~foreign', Watched, SaveStep PROVE Clean'
<1>1. CASE FirstFrame \/ \E v \in Views : ShowView(v)
  BY <1>1, FirstFrameClean, ShowViewClean
<1>2. CASE SaveScenario \/ Autosave
  BY <1>2, SavingClean
<1>3. CASE \E r \in TabRequests, at \in Points : AddRequestNode(r, at)
  BY <1>3, AddRequestClean
<1> QED
  BY <1>1, <1>2, <1>3 DEF SaveStep

LEMMA ListsClean == ASSUME Ready, ~foreign', Watched, ListStep PROVE Clean'
<1>1. CASE (\E id : DuplicateScenario(id)) \/ (\E dto \in Imports : ImportScenario(dto))
  BY <1>1, NewFileClean
<1>2. CASE \E id, name : RenameScenario(id, name)
  BY <1>2, RenameClean
<1>3. CASE \E id : DeleteScenario(id)
  BY <1>3, DeleteScenarioClean
<1>4. CASE (\E from, to : MoveScenario(from, to)) \/ (\E after : AddSeparator(after))
  BY <1>4, OrderClean
<1> QED
  BY <1>1, <1>2, <1>3, <1>4 DEF ListStep

LEMMA BusyShown == ASSUME Unseen, act.mode # "idle" PROVE laidOut
<1>1. PICK no : Idle = [mode |-> "idle", id |-> NoId, edge |-> <<>>, members |-> {}, moved |-> no, from |-> <<>>]
  BY IdleIs
<1>2. act # Idle
  BY <1>1
<1> QED
  BY <1>2 DEF Unseen

LEMMA UnseenKept == ASSUME Unseen, FlowNext \/ UNCHANGED flowVars PROVE Unseen'
<1>1. CASE laidOut' = laidOut /\ (laidOut \/ act' = act)
  BY <1>1 DEF Unseen
<1>2. CASE laidOut' = TRUE
  BY <1>2 DEF Unseen
<1>3. CASE act' = Idle
  BY <1>3 DEF Unseen
<1>4. CASE GestureStep
  <2>1. laidOut
    <3>1. CASE laidOut
      BY <3>1
    <3>2. CASE act.mode \in {"drag", "resize", "pan", "marquee", "out", "in"}
      BY <3>2, BusyShown
    <3> QED
      BY <1>4, <3>1, <3>2
      DEF GestureStep, PressNode, PressToSelect, PressPort, PressResize, PressEdge, GrabEdge, PressCanvas, Free,
          Drag, DragResize, DragView, DragMarquee, FinishNowhere, Release, FinishOut, FinishIn
  <2>2. laidOut' = laidOut
    BY <1>4
    DEF GestureStep, PressNode, PressToSelect, PressPort, PressResize, PressEdge, GrabEdge, PressCanvas, Press, Elsewhere,
        Drag, DragResize, DragView, DragMarquee, FinishNowhere, Release, FinishOut, FinishIn, saveVars
  <2> QED
    BY <1>1, <2>1, <2>2
<1>5. CASE KeyStep
  <2>1. laidOut /\ laidOut' = laidOut
    BY <1>5 DEF KeyStep, Undo, Redo, DeleteSelection, Escape, SelectAll, Copy, Paste, Elsewhere, saveVars
  <2> QED
    BY <1>1, <2>1
<1>6. CASE PanelStep
  <2>1. laidOut' = laidOut /\ act' = act
    BY <1>6 DEF PanelStep, AddNode, AddBlock, DropCollectionNode, SaveSelectionAsBlock, DeleteOnPanel, DeleteBlock,
                TypeOnNode, PickOnNode, PickCond, PickOp, TypeOnEdge, TypeName, Elsewhere, saveVars
  <2> QED
    BY <1>1, <2>1
<1>7. CASE SaveStep
  <2>1. act' = act /\ (laidOut' = laidOut \/ laidOut' = TRUE)
    BY <1>7 DEF SaveStep, FirstFrame, SaveScenario, Autosave, ShowView, AddRequestNode, saveVars
  <2> QED
    BY <1>1, <1>2, <2>1
<1>8. CASE ListStep \/ SwitchStep
  <2>1. laidOut' = laidOut /\ act' = act
    BY <1>8 DEF ListStep, SwitchStep, DuplicateScenario, RenameScenario, ImportScenario, DeleteScenario, MoveScenario,
                AddSeparator, CreateNew, OpenScenario, OnDisk, Listed, saveVars
  <2> QED
    BY <1>1, <2>1
<1>9. CASE UNCHANGED editorVars
  BY <1>1, <1>9 DEF editorVars, saveVars
<1>10. CASE \E flushed \in BOOLEAN : Restart(flushed)
  BY <1>3, <1>10 DEF Restart, ResetEditor
<1> QED
  BY <1>4, <1>5, <1>6, <1>7, <1>8, <1>9, <1>10 DEF FlowNext, EditorStep, RunnerStep, flowVars

LEMMA SectionClean ==
    ASSUME CanvasInv, Fitting, Unseen, ~foreign => Clean, FlowNext \/ UNCHANGED flowVars
    PROVE  ~foreign' => Clean'
<1> SUFFICES ASSUME ~foreign' PROVE Clean'
  OBVIOUS
<1>1. ~foreign
  BY DEF FlowNext, Watched, flowVars
<1>2. Ready
  BY <1>1, SectionFits DEF Ready
<1>3. CASE (GestureStep \/ KeyStep \/ PanelStep \/ SaveStep \/ ListStep) /\ Watched
  BY <1>2, <1>3, GesturesClean, KeysClean, PanelClean, SavesClean, ListsClean
<1>4. CASE SwitchStep
  BY <1>2, <1>4, OpenClean, CreateClean DEF SwitchStep
<1>5. CASE UNCHANGED editorVars
  BY <1>2, <1>5, LookClean DEF editorVars
<1>6. CASE \E flushed \in BOOLEAN : Restart(flushed)
  BY <1>2, <1>6, RestartClean
<1> QED
  BY <1>3, <1>4, <1>5, <1>6 DEF FlowNext, EditorStep, RunnerStep, flowVars

\* What there is at the start can be drawn.
LEMMA SessionClean == FlowInit => Unseen /\ (~foreign => Clean)
<1> SUFFICES ASSUME FlowInit PROVE Unseen /\ (~foreign => Clean)
  OBVIOUS
<1>1. PICK session \in Sessions :
        /\ files = session.files /\ mods = session.mods /\ blocks = session.blocks
        /\ foreign = ~(/\ \A f \in DOMAIN files : SoundCanvas(files[f])
                       /\ \A b \in DOMAIN blocks : SoundDrawing(blocks[b]))
        /\ LET taken == Max({100} \cup {TakenBy(files[f]) : f \in DOMAIN files})
               s == Latest(files, mods, taken)
           IN  NewEditor(s) /\ ids = Taken(taken, s)
  BY DEF FlowInit
<1>2. \A f \in DOMAIN files : IsScene(files[f]) /\ IsNumbered(files[f]) /\ files[f].id = f
  BY <1>1, SessionsAssumption
<1>3. IsList(mods) /\ ToSet(mods) \ {OrderFile} = DOMAIN files
  BY <1>1, SessionsAssumption
<1>4. PICK taken : /\ taken = Max({100} \cup {TakenBy(files[f]) : f \in DOMAIN files})
                   /\ LET s == Latest(files, mods, taken)
                      IN  NewEditor(s) /\ ids = Taken(taken, s)
  BY <1>1
<1>5. taken \in Nat /\ taken >= 100 /\ \A f \in DOMAIN files : TakenBy(files[f]) \in Nat /\ TakenBy(files[f]) <= taken
  BY <1>2, <1>3, <1>4, FilesTaken
<1>6. PICK t : t = Latest(files, mods, taken) /\ NewEditor(t) /\ ids = Taken(taken, t)
  BY <1>4
<1>7. /\ sc = t /\ undoStack = <<>> /\ redoStack = <<>> /\ snap = <<>> /\ act = Idle /\ laidOut = FALSE
      /\ clip = [nodes |-> <<>>, edges |-> <<>>] /\ lastSaved = <<>>
  BY <1>6 DEF NewEditor
<1>8. Unseen
  BY <1>7 DEF Unseen
<1>9. ASSUME ~foreign
      PROVE  Clean
  <2>1. (\A f \in DOMAIN files : SoundCanvas(files[f])) /\ \A b \in DOMAIN blocks : SoundDrawing(blocks[b])
    BY <1>1, <1>9
  <2>2. \A f \in DOMAIN files : f \in Nat /\ f <= taken /\ f # NoId
    <3> TAKE f \in DOMAIN files
    <3>1. PICK s : s = files[f]
      OBVIOUS
    <3>2. IsScene(s) /\ IsNumbered(s) /\ s.id = f /\ s.id \in Nat
      BY <1>2, <3>1 DEF IsNumbered
    <3>3. 0 \in Nat
      OBVIOUS
    <3>4. PICK m : m = Taken(0, s)
      OBVIOUS
    <3>5. m \in Nat /\ m >= s.id
      BY <3>2, <3>3, <3>4, TakenFacts
    <3>6. m <= taken
      BY <1>5, <3>1, <3>4 DEF TakenBy
    <3>7. f # OrderFile
      BY <1>3
    <3> QED
      BY <1>5, <3>2, <3>5, <3>6, <3>7 DEF OrderFile, NoId
  <2>3. PICK n \in Nat \ {0} : n = taken
    BY <1>5
  <2>4. Proper(t) /\ SoundCanvas(t) /\ ReadsIn(files, t)
    BY <1>2, <1>3, <1>6, <2>1, <2>2, <2>3, LatestClear
  <2>5. ids \in Nat /\ ids >= n /\ Clear(t, ids)
    BY <1>6, <2>3, <2>4, ClearTaken
  <2>6. \A f \in DOMAIN files : f <= ids
    BY <2>2, <2>3, <2>5
  <2>7. ToSet(undoStack) = {} /\ ToSet(redoStack) = {} /\ ToSet(snap) = {} /\ ToSet(lastSaved) = {}
    BY <1>7, EmptyList
  <2>8. SoundPast
    BY <1>7, <2>5, <2>7 DEF SoundPast, Pasts
  <2>9. SoundHand
    <3>1. PICK no : Idle = [mode |-> "idle", id |-> NoId, edge |-> <<>>, members |-> {}, moved |-> no, from |-> <<>>]
      BY IdleIs
    <3>2. act.edge = <<>> /\ act.mode = "idle"
      BY <1>7, <3>1
    <3> QED
      BY <3>2 DEF SoundHand
  <2>10. SoundShelf
    BY <1>7, <2>1, <2>6, NoDrawing DEF SoundShelf
  <2>11. SoundSaves
    BY <1>7, <2>4, <2>7 DEF SoundSaves
  <2> QED
    BY <2>8, <2>9, <2>10, <2>11 DEF Clean
<1> QED
  BY <1>8, <1>9

\* However nodes and arrows were drawn, taken off and put back, pasted, inserted from blocks,
\* removed, undone, redone and read from files: there is a start node, every node and every
\* arrow has an id of its own, arrows join nodes that are there as they may be drawn
\* (finishConnect, RemoveNode, insertBlockAt, paste, restore), and when nothing is left to
\* save, the file reads back as the canvas (autosave, scenarioFromDTO), unless something came
\* from elsewhere that cannot be drawn.
THEOREM CanvasSoundInvariant == FlowSpec => []CanvasSound
<1> DEFINE Inv == EditorInv /\ Fitting /\ Unseen /\ (~foreign => Clean)
<1>1. FlowInit => Inv
  BY SessionBegins, SessionFits, SessionClean
<1>2. Inv /\ [FlowNext]_flowVars => Inv'
  <2> SUFFICES ASSUME Inv, FlowNext \/ UNCHANGED flowVars PROVE Inv'
    OBVIOUS
  <2>1. CanvasInv /\ Allowed
    BY DEF EditorInv, CanvasInv
  <2>2. EditorInv'
    BY <2>1, WindowStep, NextAllowed DEF EditorInv, CanvasInv
  <2>3. Fitting'
    BY <2>1, SectionFits
  <2>4. Unseen'
    BY UnseenKept
  <2>5. ~foreign' => Clean'
    BY <2>1, SectionClean
  <2> QED
    BY <2>2, <2>3, <2>4, <2>5
<1>3. Inv => CanvasSound
  <2> SUFFICES ASSUME Fitting, Clean PROVE CanvasSound
    BY DEF CanvasSound
  <2>1. SoundCanvas(sc) /\ \A s \in ToSet(undoStack) \cup ToSet(redoStack) : SoundCanvas(s)
    BY DEF Clean, SoundPast, Clear, Pasts
  <2>2. lastSaved = <<Encode(sc)>> => Reads(sc)
    <3> SUFFICES ASSUME lastSaved = <<Encode(sc)>> PROVE Reads(sc)
      OBVIOUS
    <3>1. PICK c : c = Encode(sc) /\ lastSaved = <<c>>
      OBVIOUS
    <3>2. ToSet(lastSaved) = {c}
      BY <3>1, OneList
    <3>3. ReadsIn(files, c)
      BY <3>2 DEF Clean, SoundSaves
    <3>4. Proper(sc)
      BY DEF Fitting, Drawings
    <3>5. Proper(c) /\ c.id = sc.id /\ c.nodes = sc.nodes /\ c.edges = sc.edges
      BY <3>1, <3>4, ProperEncoded
    <3>6. IsScene(c) /\ IsScene(sc)
      BY <3>4, <3>5, ProperNumbered
    <3>7. ReadsIn(files, sc)
      BY <3>3, <3>5, <3>6, SameReads
    <3> QED
      BY <3>7 DEF ReadsIn, Reads
  <2> QED
    BY <2>1, <2>2 DEF CanvasSound
<1> HIDE DEF Inv
<1> QED
  BY <1>1, <1>2, <1>3, PTL DEF FlowSpec
=============================================================================
